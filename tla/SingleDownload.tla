----------------------------- MODULE SingleDownload -----------------------------
(***************************************************************************)
(* SingleConnectionDownload() (src/src/cld.cpp:167): the loop that drives  *)
(* the only worker of a download whose size is not known.  It reports no   *)
(* range to a controller, stops the worker never, and catches nothing.     *)
(* When it returns, Cld() says "Finished" and "File saved to".             *)
(***************************************************************************)
EXTENDS Worker

VARIABLE loop  (* "wait", "process", "finished" or "terminated".            *)

singleVars == <<vars, loop>>

SingleInit == Init /\ loop = "wait"

(* epoll_wait() reports the worker; when it times out, nothing changes. *)
Wait ==
  /\ loop = "wait"
  /\ Event
  /\ loop' = "process"

(* A call of process(): the loop goes on when it returns. *)
Handle ==
  /\ loop = "process"
  /\ Process
  /\ loop' = IF at' = "idle" THEN "wait" ELSE "process"

(* Mutant: an exception stops the worker and goes no further, as it does   *)
(* in the loop of several workers.                                         *)
LeaveCatching ==
  /\ loop = "process"
  /\ at \in Ends
  /\ loop' = "finished"
  /\ UNCHANGED vars

(* The loop is left when the worker is Stopped, whatever has stopped it;   *)
(* an exception leaves main().                                             *)
Leave ==
  /\ loop = "process"
  /\ at \in Ends
  /\ loop' = IF at = "thrown" THEN "terminated" ELSE "finished"
  /\ UNCHANGED vars

SingleNext ==
  \/ Wait
  \/ Handle
  \/ Leave
  \/ Network /\ UNCHANGED loop

SingleSpec == SingleInit /\ [][SingleNext]_singleVars

(* As for Worker; the loop comes back to epoll_wait after every event. *)
SingleFairness ==
  /\ WF_singleVars(Wait)
  /\ WF_singleVars(Handle /\ ProcessStep)
  /\ WF_singleVars(Leave)
  /\ SF_singleVars(Handle /\ Connected)
  /\ SF_singleVars(Handle /\ SendSome)
  /\ WF_singleVars(Answer /\ UNCHANGED loop)

SingleFairSpec == SingleSpec /\ SingleFairness

(***************************************************************************)
(* Properties.                                                             *)
(***************************************************************************)

(* "Finished", "File saved to": the file is what the server has. *)
SavedWhenFinished == loop = "finished" => file = Payload

(* The download as what it implements, RangeDownload with every byte       *)
(* promised, as long as the connection is not refused (that is the subject *)
(* of SavedWhenFinished), the body is not chunked (of ChunksComplete) and  *)
(* the server does not cut short a body of unknown length: the file only   *)
(* grows, the loop leaves nothing out of it, and an error is never taken   *)
(* for the end.                                                            *)
Promise == INSTANCE RangeDownload WITH
  Bytes    <- 0 .. BodyLength - 1,
  Promised <- 0 .. BodyLength - 1,
  fetched  <- {b \in 0 .. BodyLength - 1 :
                 b < Len(file) /\ file[b + 1] = Payload[b + 1]},
  status   <- CASE loop = "finished"   -> "done"
                [] loop = "terminated" -> "failed"
                [] OTHER               -> "running"

CutShort == closed /\ arrived < Len(Wire)

SingleKeepsPromise ==
  /\ Promise!Init
  /\ [][\/ Promise!Next
        \/ at' = "refused"
        \/ framing = "chunked"
        \/ framing = "close" /\ CutShort]_(Promise!abstractVars)

(* The loop is left, unless the server closes before the end of what it    *)
(* has announced: the worker then finds the end of the stream again and    *)
(* again.                                                                  *)
SingleEnds == <>(loop \in {"finished", "terminated"}) \/ <>CutShort

=============================================================================
