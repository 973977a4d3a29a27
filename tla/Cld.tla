----------------------------------- MODULE Cld -----------------------------------
(***************************************************************************)
(* Cld() (src/src/cld.cpp:33): asks for the head of the page, follows      *)
(* redirects until a page is found, opens the output file and chooses a    *)
(* way to download.  url and options are changed on the way, so what is    *)
(* downloaded, to where and with which cookie depends on the whole chain.  *)
(*                                                                         *)
(* A path is known by its last component; it is "" when the path ends in   *)
(* a slash.  The downloads themselves are the modules Download and Worker. *)
(***************************************************************************)
EXTENDS Integers, FiniteSets, HttpResponse

CONSTANTS
  Hosts,       (* The hosts there are.                                     *)
  Paths,       (* The paths there are, "" among them or not.               *)
  Pages,       (* Where there is something: of Hosts \X Paths.             *)
  Answers,     (* The answers a page may give.                             *)
  Outputs,     (* The values of --output; None without it.                 *)
  Cookies,     (* The cookies a user may give, with None: sequences.       *)
  Connections  (* The value of --num-connections.                          *)

SchemeNames == {"http", "https", "ftp", ""}

Url == [scheme : SchemeNames, host : Hosts, path : Paths]

(* A Location is absolute, with or without a scheme; relative; or neither. *)
Locations ==
  [kind : {"absolute"}, url : Url]
    \cup [kind : {"relative"}, path : Paths]
    \cup [kind : {"invalid"}]

Line ==
  [name : {"Location", "location"}, value : Locations]
    \cup [name : {"Set-Cookie"}, value : Seq(STRING)]
    \cup [name : {"Accept-Ranges"}, value : {"bytes", "none"}]
    \cup [name : {"Content-Length"}, value : Nat]
    \cup {Malformed}

Answer == [status : Int, lines : Seq(Line)]

ASSUME PagesAssumption == IsFiniteSet(Pages) /\ Pages \subseteq Hosts \X Paths
ASSUME AnswersAssumption == Answers \subseteq Answer
ASSUME NoneAssumption ==
  None \in Cookies /\ None \notin Paths /\ None \notin Seq(STRING)
ASSUME ConnectionsAssumption == Connections \in Nat \ {0}

VARIABLES
  url,
  output,      (* The output path of the options.                          *)
  cookie,      (* The extra header "Cookie" of the options.                *)
  address,     (* address_info: the host it was made for.                  *)
  request,
  response,
  file,        (* The name of the file opened.                             *)
  workers,     (* The number of connections the download uses.             *)
  pc,
  site,        (* [page -> answer]: what the servers say.                  *)
  first        (* The URL, the output and the cookie at the start.         *)

given == <<site, first>>
vars == <<url, output, cookie, address, request, response, file, workers, pc, given>>

Page(u) == <<u.host, u.path>>

(* There is nothing anywhere else. *)
Nothing == [status |-> 404, lines |-> <<>>]

Says(page) == IF page \in Pages THEN site[page] ELSE Nothing

Init ==
  /\ site \in [Pages -> Answers]
  /\ first \in [url : {u \in Url : u.scheme = "http" /\ Page(u) \in Pages},
                 output : Outputs, cookie : Cookies]
  /\ url = first.url
  /\ output = first.output
  /\ cookie = first.cookie
  /\ address = None
  /\ request = None
  /\ response = None
  /\ file = None
  /\ workers = 0
  /\ pc = "ask"

(***************************************************************************)
(* The loop that follows redirects.                                        *)
(***************************************************************************)

Request(method) ==
  [method |-> method, host |-> url.host, path |-> url.path, cookie |-> cookie]

(* Mutant: the file is named anew by every page. *)
AskRenaming ==
  /\ pc = "ask"
  /\ output' = IF first.output = None /\ url.path # "" THEN url.path ELSE output
  /\ address' = url.host
  /\ request' = Request("HEAD")
  /\ pc' = "connect"
  /\ UNCHANGED <<url, cookie, response, file, workers, given>>

Ask ==
  /\ pc = "ask"
  /\ output' = IF output = None /\ url.path # "" THEN url.path ELSE output
  /\ address' = url.host
  /\ request' = Request("HEAD")
  /\ pc' = "connect"
  /\ UNCHANGED <<url, cookie, response, file, workers, given>>

(* CreateStream() and opened(), the answer read and parsed; an unknown     *)
(* scheme throws, and so does a malformed answer.                          *)
Receive ==
  /\ pc = "connect"
  /\ url.scheme \in {"http", "https"}
  /\ LET said == Says(<<address, request.path>>)
     IN  /\ WellFormed(said.lines)
         /\ response' = [status |-> said.status, headers |-> Headers(said.lines)]
  /\ pc' = "analyse"
  /\ UNCHANGED <<url, output, cookie, address, request, file, workers, given>>

(* No address, no connection, no valid answer, no file: an exception, and  *)
(* main() does not catch it.                                               *)
Throw ==
  /\ pc' = "thrown"
  /\ UNCHANGED <<url, output, cookie, address, request, response, file,
                 workers, given>>

AskThrows == pc \in {"ask", "connect", "open", "download"} /\ Throw

Redirects == {300, 301, 302, 307}
(* Mutant: whatever is no error. *)
IsNoError(status) == status \in 200 .. 399

IsOk(status) == status \in 200 .. 299

Header(name) == At(response.headers, name)

(* Mutant: the header is replaced. *)
SetCookieAnew ==
  cookie' = IF Header("Set-Cookie") # None THEN Header("Set-Cookie") ELSE cookie

(* Inserting a header that is there already changes nothing. *)
SetCookie ==
  cookie' = IF cookie = None THEN Header("Set-Cookie") ELSE cookie

(* The URL an answer leads to. *)
Target(u, location) ==
  IF location.kind = "absolute" THEN location.url
  ELSE [u EXCEPT !.path = location.path]

(* Whether an answer leads anywhere. *)
Leads(status, location) ==
  /\ status \in Redirects
  /\ location # None
  /\ location.kind \in {"absolute", "relative"}

(* Mutant: a relative location is not followed. *)
FollowAbsolute ==
  /\ pc = "analyse"
  /\ Leads(response.status, Header("Location"))
  /\ url' = IF Header("Location").kind = "absolute"
               THEN Target(url, Header("Location")) ELSE url
  /\ SetCookie
  /\ pc' = "ask"
  /\ UNCHANGED <<output, address, request, response, file, workers, given>>

Follow ==
  /\ pc = "analyse"
  /\ Leads(response.status, Header("Location"))
  /\ url' = Target(url, Header("Location"))
  /\ SetCookie
  /\ pc' = "ask"
  /\ UNCHANGED <<output, address, request, response, file, workers, given>>

Found ==
  /\ pc = "analyse"
  /\ IsOk(response.status)
  /\ SetCookie
  /\ pc' = "open"
  /\ UNCHANGED <<url, output, address, request, response, file, workers, given>>

NotFound ==
  /\ pc = "analyse"
  /\ ~Leads(response.status, Header("Location"))
  /\ ~IsOk(response.status)
  /\ Throw

(***************************************************************************)
(* The file and the download.                                              *)
(***************************************************************************)

(* Mutants: the request is made anew from the URL of the command line; the *)
(* size is given for the number of connections.                            *)
OpenFileForFirst ==
  /\ pc = "open"
  /\ output' = IF output = None THEN "temporary" ELSE output
  /\ file' = output'
  /\ request' = [method |-> "GET", host |-> first.url.host,
                 path |-> first.url.path, cookie |-> cookie]
  /\ workers' = IF Header("Accept-Ranges") = "none" \/ Header("Content-Length") = None
                  THEN 1 ELSE Connections
  /\ pc' = "download"
  /\ UNCHANGED <<url, cookie, address, response, given>>

OpenFileSwapped ==
  /\ pc = "open"
  /\ output' = IF output = None THEN "temporary" ELSE output
  /\ file' = output'
  /\ request' = [request EXCEPT !.method = "GET"]
  /\ workers' = IF Header("Content-Length") = None THEN 1 ELSE Header("Content-Length")
  /\ pc' = "download"
  /\ UNCHANGED <<url, cookie, address, response, given>>

(* mkstemp() invents a name when there is none. *)
OpenFile ==
  /\ pc = "open"
  /\ output' = IF output = None THEN "temporary" ELSE output
  /\ file' = output'
  /\ request' = [request EXCEPT !.method = "GET"]
  /\ workers' = IF Header("Accept-Ranges") = "none" \/ Header("Content-Length") = None
                  THEN 1 ELSE Connections
  /\ pc' = "download"
  /\ UNCHANGED <<url, cookie, address, response, given>>

(* SingleConnectionDownload() or MultiConnectionDownload() returns. *)
Downloaded ==
  /\ pc = "download"
  /\ pc' = "saved"
  /\ UNCHANGED <<url, output, cookie, address, request, response, file,
                 workers, given>>

Ended == pc \in {"saved", "thrown"} /\ UNCHANGED vars

Next ==
  \/ Ask \/ Receive \/ AskThrows
  \/ Follow \/ Found \/ NotFound
  \/ OpenFile \/ Downloaded
  \/ Ended

Spec == Init /\ [][Next]_vars

(* One thread; servers answer. *)
FairSpec == Spec /\ WF_vars(Next)

(***************************************************************************)
(* Properties.                                                             *)
(***************************************************************************)

CookiesSent ==
  Cookies \cup
    {Meant(Says(page).lines, "Set-Cookie") : page \in Pages}

CldTypeOK ==
  /\ url \in Url
  /\ output \in Outputs \cup Paths \cup {None, "temporary"}
  /\ cookie \in CookiesSent
  /\ address \in Hosts \cup {None}
  /\ request = None \/ request \in
       [method : {"HEAD", "GET"}, host : Hosts, path : Paths, cookie : CookiesSent]
  /\ response = None \/ DOMAIN response = {"status", "headers"}
  /\ file \in Outputs \cup Paths \cup {None, "temporary"}
  /\ workers \in 0 .. Connections
  /\ pc \in {"ask", "connect", "analyse", "open", "download", "saved", "thrown"}

(* The map made of an answer says what its lines say: the last value of a  *)
(* header, all the cookies.                                                *)
ReadsEveryHeader ==
  pc = "analyse" =>
    \A name \in {"Location", "Set-Cookie", "Accept-Ranges", "Content-Length"} :
      Header(name) = Meant(Says(<<address, request.path>>).lines, name)

(* The URL after n redirects, as far as the servers redirect. *)
IsRedirect(u) ==
  /\ u.scheme \in {"http", "https"}
  /\ WellFormed(Says(Page(u)).lines)
  /\ Leads(Says(Page(u)).status, Meant(Says(Page(u)).lines, "Location"))

Chain[n \in 0 .. Cardinality(Pages)] ==
  IF n = 0 THEN first.url
  ELSE IF IsRedirect(Chain[n - 1])
         THEN Target(Chain[n - 1],
                     Meant(Says(Page(Chain[n - 1])).lines, "Location"))
         ELSE Chain[n - 1]

LastUrl == Chain[Cardinality(Pages)]
Circular == IsRedirect(LastUrl)

(* What is downloaded is the page at the end of the chain: the address,    *)
(* the request and the answer that says how to download all belong to it,  *)
(* although each is made anew for every page on the way.                   *)
DownloadsLastPage ==
  pc \in {"download", "saved"} =>
    /\ url = LastUrl
    /\ request.method = "GET"
    /\ <<request.host, request.path>> = Page(LastUrl)
    /\ address = LastUrl.host
    /\ response.status = Says(Page(LastUrl)).status
    /\ response.headers = Headers(Says(Page(LastUrl)).lines)

(* The file has the name the user gave, or that of the first page on the   *)
(* chain that has one.                                                     *)
Named == {n \in DOMAIN Chain : Chain[n].path # ""}

NamedByFirstPage ==
  pc \in {"download", "saved"} =>
    file = CASE first.output # None -> first.output
             [] first.output = None /\ Named # {} ->
                  Chain[CHOOSE n \in Named : \A m \in Named : n <= m].path
             [] OTHER -> "temporary"

(* Nobody's file is truncated for a page that does not exist. *)
OpensOnlyForAPage ==
  file # None => IsOk(Says(Page(LastUrl)).status)

(* Redirects that do not lead in a circle are followed to an end. *)
EndsUnlessCircular == Circular \/ <>(pc \in {"saved", "thrown"})

(* The download carries the cookie of the user or, without one, the first  *)
(* that a page on the way has set: not the one of the last page, nor one   *)
(* that was set after another.                                             *)
Setting ==
  {n \in DOMAIN Chain :
     /\ IsRedirect(Chain[n])
     /\ Meant(Says(Page(Chain[n])).lines, "Set-Cookie") # None}

CarriesFirstCookie ==
  pc \in {"download", "saved"} =>
    request.cookie =
      CASE first.cookie # None -> first.cookie
        [] first.cookie = None /\ Setting # {} ->
             LET n == CHOOSE n \in Setting : \A m \in Setting : n <= m
             IN  Meant(Says(Page(Chain[n])).lines, "Set-Cookie")
        [] OTHER -> None

(* "set cookie": the cookie of an answer is the one the requests after it  *)
(* carry, as far as the user has not given another.                        *)
CookieIsSet ==
  [][Follow /\ Header("Set-Cookie") # None /\ first.cookie = None =>
       cookie' = Header("Set-Cookie")]_vars

=============================================================================
