---------------------------------- MODULE MCCld ----------------------------------
(* Answers for TLC: redirects of every kind, and pages of every kind. *)
EXTENDS Cld

HeaderLine(name, value) == [name |-> name, value |-> value]

To(scheme, host, path) ==
  HeaderLine("Location", [kind |-> "absolute",
                     url |-> [scheme |-> scheme, host |-> host, path |-> path]])
Relative(path) == HeaderLine("Location", [kind |-> "relative", path |-> path])
Invalid == HeaderLine("Location", [kind |-> "invalid"])
SetsCookie(value) == HeaderLine("Set-Cookie", <<value>>)
Ranges(value) == HeaderLine("Accept-Ranges", value)
Length(value) == HeaderLine("Content-Length", value)

Answering(status, lines) == [status |-> status, lines |-> lines]

ThreePages == {<<"h", "">>, <<"h", "a">>, <<"g", "b">>}

Everything ==
  {Answering(301, <<To("https", "g", "b")>>),
   Answering(302, <<SetsCookie("c1"), To("http", "h", ""), SetsCookie("c3")>>),
   Answering(307, <<To("http", "h", ""), Relative("a"), SetsCookie("c2")>>),
   Answering(300, <<Relative("b")>>),
   Answering(301, <<To("", "h", "")>>),
   Answering(302, <<Invalid>>),
   Answering(302, <<[To("http", "h", "a") EXCEPT !.name = "location"]>>),
   Answering(303, <<To("http", "h", "")>>),
   Answering(301, <<To("http", "h", ""), Malformed>>),
   Answering(206, <<Ranges("none"), Length(4), SetsCookie("c1")>>),
   Answering(200, <<Ranges("none"), Length(4), Ranges("bytes"), Length(2)>>),
   Answering(200, <<>>)}

UserCookies == {None, <<"c2">>}

=============================================================================
