------------------------------ MODULE RangeDownload ------------------------------
(***************************************************************************)
(* What a download of a file by ranges promises, whatever the number of    *)
(* connections and however they fail: bytes are fetched in any order and   *)
(* pieces, nothing fetched is lost, and success is reported only when all  *)
(* the promised bytes are there.                                           *)
(***************************************************************************)
EXTENDS Integers

CONSTANTS
  Bytes,     (* The offsets in the file.                                   *)
  Promised   (* The offsets that must be there on success.                 *)

VARIABLES
  fetched,   (* The offsets written so far.                                *)
  status     (* "running", "done" or "failed".                             *)

abstractVars == <<fetched, status>>

Init ==
  /\ fetched = {}
  /\ status = "running"

Fetch ==
  /\ status = "running"
  /\ fetched \subseteq fetched'
  /\ fetched' \subseteq Bytes
  /\ status' \in {"running", "failed"}

Finish ==
  /\ status = "running"
  /\ Promised \subseteq fetched
  /\ status' = "done"
  /\ UNCHANGED fetched

Next == Fetch \/ Finish

Spec == Init /\ [][Next]_abstractVars

=============================================================================
