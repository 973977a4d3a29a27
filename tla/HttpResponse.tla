------------------------------ MODULE HttpResponse ------------------------------
(***************************************************************************)
(* http::Response (src/src/http_response.cpp): the header of an answer,    *)
(* line by line, into a map.  A line is a name and a value.  Names are     *)
(* compared letter by letter, so "location" is another header than         *)
(* "Location".  The value of Set-Cookie is the sequence of the cookies in  *)
(* it; other values are as the caller understands them.                    *)
(***************************************************************************)
EXTENDS SequencesExt

CONSTANT None  (* What is empty or not there.                              *)

(* A line that is no header, which makes the constructor throw. *)
Malformed == [name |-> None, value |-> None]

WellFormed(lines) == \A i \in DOMAIN lines : lines[i] # Malformed

(* operator[]: the value, or an empty string. *)
At(headers, name) == IF name \in DOMAIN headers THEN headers[name] ELSE None

(* Mutant: a cookie replaces the one before. *)
WithReplacing(headers, line) == (line.name :> line.value) @@ headers

(* A header given again replaces the one before; cookies are joined. *)
With(headers, line) ==
  [name \in DOMAIN headers \cup {line.name} |->
     IF name # line.name THEN headers[name]
     ELSE IF name = "Set-Cookie" /\ At(headers, name) # None
            THEN headers[name] \o line.value
            ELSE line.value]

Headers(lines) ==
  LET built[n \in 0 .. Len(lines)] ==
        IF n = 0 THEN <<>> ELSE With(built[n - 1], lines[n])
  IN  built[Len(lines)]

(* What the map says, told without building it: the last value of a        *)
(* header, all the cookies in their order.                                 *)
Given(lines, name) == {i \in DOMAIN lines : lines[i].name = name}

Meant(lines, name) ==
  LET told == Given(lines, name)
      cookies == [i \in DOMAIN lines |->
                    IF i \in told THEN lines[i].value ELSE <<>>]
  IN  IF told = {} THEN None
      ELSE IF name = "Set-Cookie" THEN FlattenSeq(cookies)
      ELSE lines[Max(told)].value

=============================================================================
