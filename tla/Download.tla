-------------------------------- MODULE Download --------------------------------
(***************************************************************************)
(* MultiConnectionDownload (src/src/cld.cpp:205): one thread that keeps    *)
(* the slots of a vector filled with workers, waits in epoll_wait, lets    *)
(* each reported worker process its event, tells the LengthController, and *)
(* stops when the controller has nothing left.                             *)
(*                                                                         *)
(* A worker is seen here as the loop sees it: its state, its offset, and   *)
(* what one call of process() may do to them; module Worker has the inside *)
(* of process().  The server is modelled by what its answer makes the      *)
(* worker write.  The order of the slots and of the reported events makes  *)
(* no difference to the code, so both passes take them in any order.       *)
(***************************************************************************)
EXTENDS LengthController

CONSTANTS
  RangeSupport,  (* Whether the server answers a Range with that range.    *)
  Framings,      (* How bodies may end: "length" (FixLengthBuffer); with   *)
                 (* NoLengthBuffer when the server closes ("close"), or    *)
                 (* never, the server keeping the connection ("open").     *)
  Faults,        (* The faults that may happen, of FaultKinds.             *)
  MaxFaults      (* How many of them happen at most.                       *)

(* unreachable: no address can be connected to, the constructor throws;    *)
(* refused: the connection fails while Connecting;                         *)
(* reset: a read or a write throws;                                        *)
(* close_head, close_body: the server closes before the end of the header, *)
(* of the body;                                                            *)
(* stall: epoll reports the worker no more, because nothing is heard of    *)
(* the server, or because all it has sent is with the TLS library already; *)
(* torn_head: the last line break of the header comes in two pieces;       *)
(* chunked: the body is chunked;                                           *)
(* error_page: the body is not the resource (503 and the like);            *)
(* short_write: a write() to the file takes a part of the buffer.          *)
FaultKinds == {"unreachable", "refused", "reset", "close_head", "close_body",
               "stall", "torn_head", "chunked", "error_page", "short_write"}

ASSUME RangeSupportAssumption == RangeSupport \in BOOLEAN
ASSUME FramingsAssumption == Framings \subseteq {"length", "close", "open"}
ASSUME FaultsAssumption == Faults \subseteq FaultKinds
ASSUME MaxFaultsAssumption == MaxFaults \in Nat

VARIABLES
  workers,  (* The vector of workers, by slot; a slot may be Null.         *)
  file,     (* What is at each offset: "hole", "right" or "wrong" bytes.   *)
  pc,       (* "manage", "events", or how the loop has ended.              *)
  todo,     (* The slots (manage) or events (events) still to be visited.  *)
  faults,   (* How many faults have happened.                              *)
  honest    (* Whether all bodies have been of the resource, the ends of   *)
            (* their headers seen and their buffers written whole: decides *)
            (* nothing, the properties ask for it.                         *)

vars == <<length_monitor, node_finder, file_offset,
          workers, file, pc, todo, faults, honest>>

Bytes == 0 .. Size - 1

Setup == {"Connecting", "Sending", "Receiving"}
Alive == Setup \cup {"ReceivingBody"}

(* limit: the offset the worker will be at when the body ends;             *)
(* source: the position in the resource of the next byte of the body;      *)
(* server: whether it has closed the connection ahead of that, or stalls.  *)
Worker == [state : Alive \cup {"Null", "Stopped"}, limit : Int, source : Int,
           framing : {"length", "close", "open", "chunked"},
           server : {"serves", "closed", "stalled"}]

Null == [state |-> "Null", limit |-> 0, source |-> 0,
         framing |-> "close", server |-> "serves"]

(* Where the bytes of a page come from that is not the resource: from no   *)
(* position that any offset comes to.                                      *)
Elsewhere == -2 * Size - 1

(* Mutant: the request goes out without its Range. *)
ConnectingWithoutRange(range) ==
  [state |-> "Connecting",
   limit |-> range.begin + Size, source |-> 0,
   framing |-> "close", server |-> "serves"]

(* The bounds of a Range are inclusive.  A server without range support    *)
(* sends the file from its first byte on, wherever the worker writes it.   *)
Connecting(range) ==
  [state |-> "Connecting",
   limit |-> IF RangeSupport THEN range.end + 1 ELSE range.begin + Size,
   source |-> IF RangeSupport THEN range.begin ELSE 0,
   framing |-> "close", server |-> "serves"]

Init ==
  /\ ControllerInit
  /\ workers = [w \in Workers |-> Null]
  /\ file = [b \in Bytes |-> "hole"]
  /\ pc = "manage"
  /\ todo = Workers
  /\ faults = 0
  /\ honest = TRUE

Fault(kind) ==
  /\ kind \in Faults
  /\ faults < MaxFaults
  /\ faults' = faults + 1

(***************************************************************************)
(* Managing the slots: at the start and after progress has been printed.   *)
(***************************************************************************)

Managing(w) == pc = "manage" /\ w \in todo

(* Mutant: the slot is emptied and the controller not told. *)
CleanUntold(w) ==
  /\ Managing(w)
  /\ workers[w].state = "Stopped"
  /\ workers' = [workers EXCEPT ![w] = Null]
  /\ UNCHANGED <<controllerVars, file, pc, todo, faults, honest>>

CleanStopped(w) ==
  /\ Managing(w)
  /\ workers[w].state = "Stopped"
  /\ WorkerStopped(w, file_offset[w])
  /\ workers' = [workers EXCEPT ![w] = Null]
  /\ UNCHANGED <<file_offset, file, pc, todo, faults, honest>>

KeepRunning(w) ==
  /\ Managing(w)
  /\ workers[w].state \in Alive
  /\ todo' = todo \ {w}
  /\ UNCHANGED <<controllerVars, workers, file, pc, faults, honest>>

(* next() finds no range worth a worker.  It takes length_monitor.back()   *)
(* of an empty list as well: anything may happen then, and the model does  *)
(* not go on.                                                              *)
LeaveEmpty(w) ==
  /\ Managing(w)
  /\ workers[w].state = "Null"
  /\ IF DOMAIN length_monitor = {}
       THEN pc' = "undefined"
       ELSE (\E n \in CanBeBack : EmptyRange(n)) /\ UNCHANGED pc
  /\ todo' = todo \ {w}
  /\ UNCHANGED <<controllerVars, workers, file, faults, honest>>

CreateWorker(w) ==
  /\ Managing(w)
  /\ workers[w].state = "Null"
  /\ \E n \in CanBeBack :
       /\ Spawn(w, n)
       /\ workers' = [workers EXCEPT ![w] = Connecting(NextRange(n))]
  /\ todo' = todo \ {w}
  /\ UNCHANGED <<file, pc, faults, honest>>

(* The constructor registers the descriptor of a stream that has none:     *)
(* EpollControl throws, and nothing up to main() catches.                  *)
CreateThrows(w) ==
  /\ Managing(w)
  /\ workers[w].state = "Null"
  /\ \E n \in CanBeBack : ~EmptyRange(n)
  /\ Fault("unreachable")
  /\ pc' = "terminated"
  /\ UNCHANGED <<controllerVars, workers, file, todo, honest>>

(***************************************************************************)
(* Waiting: epoll_wait reports some of the registered workers.             *)
(***************************************************************************)

Registered == {w \in Workers : workers[w].state \in Alive}
Stalled == {w \in Workers : workers[w].server = "stalled"}

EpollWait ==
  /\ pc = "manage"
  /\ todo = {}
  /\ pc' = "events"
  /\ todo' \in SUBSET (Registered \ Stalled)
  /\ UNCHANGED <<controllerVars, workers, file, faults, honest>>

(***************************************************************************)
(* One event: process(), then forceStop(), workerStopped() and afterRead() *)
(* as the loop calls them.                                                 *)
(***************************************************************************)

Handling(w) == pc = "events" /\ w \in todo

Done(w) == todo' = todo \ {w}

(* States are passed in order; one call may pass several of them. *)
Onward(s) ==
  CASE s = "Connecting" -> {"Connecting", "Sending", "Receiving"}
    [] s = "Sending"    -> {"Sending", "Receiving"}
    [] s = "Receiving"  -> {"Receiving"}

ProcessSetup(w) ==
  /\ Handling(w)
  /\ workers[w].state \in Setup
  /\ \E s \in Onward(workers[w].state) :
       workers' = [workers EXCEPT ![w].state = s]
  /\ Done(w)
  /\ UNCHANGED <<controllerVars, file, pc, faults, honest>>

(* The next bytes of the body go to the offset of the worker, right ones   *)
(* when it is there that they come from.  Of a buffer not written whole    *)
(* the rest is lost, and what follows comes in its place from cut on.      *)
WriteFile(w, offset, lost, cut) ==
  file' = [b \in Bytes |->
    IF file_offset[w] <= b /\ b < offset
      THEN IF workers[w].source + (IF b < cut THEN 0 ELSE lost) = file_offset[w]
             THEN "right" ELSE "wrong"
      ELSE file[b]]

(* The worker once the body has been read up to offset. *)
Written(w, offset, lost) ==
  [workers[w] EXCEPT !.source = @ + (offset - file_offset[w]) + lost,
                     !.limit = @ - lost]

(* Mutant: without recieved_once, the call goes on into the body, and the  *)
(* controller does not hear of it.                                         *)
ProcessHeaderAndBody(w) ==
  /\ Handling(w)
  /\ workers[w].state \in Setup
  /\ workers[w].server = "serves"
  /\ \E framing \in Framings, offset \in file_offset[w] .. workers[w].limit :
       /\ WriteFile(w, offset, 0, offset)
       /\ file_offset' = [file_offset EXCEPT ![w] = offset]
       /\ workers' = [workers EXCEPT ![w] = [Written(w, offset, 0) EXCEPT
                        !.state = "ReceivingBody", !.framing = framing]]
  /\ Done(w)
  /\ UNCHANGED <<length_monitor, node_finder, pc, faults, honest>>

(* The header is complete.  Its status is not looked at, and the call      *)
(* returns before it reads any of the body.  Nothing of a chunked body     *)
(* will be written.                                                        *)
ProcessHeader(w) ==
  /\ Handling(w)
  /\ workers[w].state \in Setup
  /\ workers[w].server = "serves"
  /\ \/ /\ \E framing \in Framings :
             workers' = [workers EXCEPT ![w].state = "ReceivingBody",
                                        ![w].framing = framing]
        /\ UNCHANGED <<faults, honest>>
     \/ /\ Fault("chunked")
        /\ workers' = [workers EXCEPT ![w].state = "ReceivingBody",
                                      ![w].framing = "chunked",
                                      ![w].limit = file_offset[w]]
        /\ UNCHANGED honest
     \/ /\ Fault("error_page")
        /\ \E framing \in Framings,
              limit \in file_offset[w] .. workers[w].limit :
             workers' = [workers EXCEPT ![w].state = "ReceivingBody",
                                        ![w].framing = framing,
                                        ![w].limit = limit,
                                        ![w].source = Elsewhere]
        /\ honest' = FALSE
  /\ Done(w)
  /\ UNCHANGED <<controllerVars, file, pc>>

(* The call ended between the last carriage return and its line feed: the  *)
(* end of the header goes by.  The worker reads the body in search of      *)
(* another one, to no end (and again and again once the server has closed) *)
(* or up to a place where the body has one.  What follows that place is    *)
(* written where the range begins, and is too short for its length.        *)
ProcessTornHeader(w) ==
  /\ Handling(w)
  /\ workers[w].state \in Setup
  /\ workers[w].server = "serves"
  /\ Fault("torn_head")
  /\ \/ /\ workers' = [workers EXCEPT ![w].state = "Receiving",
                                      ![w].server = "closed"]
        /\ UNCHANGED honest
     \/ /\ \E framing \in Framings,
              limit \in file_offset[w] .. workers[w].limit - 1 :
             workers' = [workers EXCEPT
               ![w].state = "ReceivingBody",
               ![w].framing = framing,
               ![w].limit = limit,
               ![w].source = @ + (workers[w].limit - limit),
               ![w].server = IF framing = "length" THEN "closed" ELSE "serves"]
        /\ honest' = FALSE
  /\ Done(w)
  /\ UNCHANGED <<controllerVars, file, pc>>

(* continueConnect() throws; process() catches and cleans up itself. *)
ProcessRefused(w) ==
  /\ Handling(w)
  /\ workers[w].state = "Connecting"
  /\ Fault("refused")
  /\ workers' = [workers EXCEPT ![w].state = "Stopped"]
  /\ Done(w)
  /\ UNCHANGED <<controllerVars, file, pc, honest>>

(* process() throws before the body: the worker is stopped by force. *)
ProcessThrows(w) ==
  /\ Handling(w)
  /\ workers[w].state \in Setup
  /\ Fault("reset")
  /\ WorkerStopped(w, file_offset[w])
  /\ workers' = [workers EXCEPT ![w].state = "Stopped"]
  /\ Done(w)
  /\ UNCHANGED <<file_offset, file, pc, honest>>

(* finished() of the buffer: a body of known length ends with its last     *)
(* byte and a chunked one with its last chunk, the others when the server  *)
(* closes.                                                                 *)
MayStop(worker, offset) ==
  /\ offset = worker.limit
  /\ worker.framing \in {"length", "chunked"} => worker.server = "serves"
  /\ worker.framing = "open" => worker.server = "closed"

MayContinue(worker, offset) ==
  worker.framing = "length" =>
    worker.server = "closed" \/ offset < worker.limit

(* process() writes the body up to offset, then comes afterRead().  For a  *)
(* worker that is not tracked at() throws out_of_range, and nothing up to  *)
(* main() catches.                                                         *)
WriteAndReport(w, offset, lost) ==
  /\ offset \in file_offset[w] .. workers[w].limit - lost
  /\ IF lost = 0
       THEN /\ WriteFile(w, offset, 0, offset)
            /\ UNCHANGED <<faults, honest>>
       ELSE /\ Fault("short_write")
            /\ \E cut \in file_offset[w] + 1 .. offset :
                 WriteFile(w, offset, lost, cut)
            /\ honest' = FALSE
  /\ file_offset' = [file_offset EXCEPT ![w] = offset]
  /\ IF w \in DOMAIN node_finder
       THEN AfterRead(w, offset) /\ UNCHANGED pc
       ELSE pc' = "terminated" /\ UNCHANGED <<length_monitor, node_finder>>

(* Mutant: the answer of afterRead() is ignored. *)
ProcessBodyUnstopped(w, offset) ==
  /\ Handling(w)
  /\ workers[w].state = "ReceivingBody"
  /\ \E lost \in 0 .. Size :
       LET written == Written(w, offset, lost) IN
       /\ WriteAndReport(w, offset, lost)
       /\ \/ /\ MayStop(written, offset)
             /\ workers' = [workers EXCEPT ![w] =
                  [written EXCEPT !.state = "Stopped"]]
          \/ /\ MayContinue(written, offset)
             /\ workers' = [workers EXCEPT ![w] = written]
  /\ Done(w)

(* The worker stops by itself at the end of the body, and by forceStop()   *)
(* when afterRead() has taken it out of the books.                         *)
ProcessBody(w, offset) ==
  /\ Handling(w)
  /\ workers[w].state = "ReceivingBody"
  /\ \E lost \in 0 .. Size :
       LET written == Written(w, offset, lost) IN
       /\ WriteAndReport(w, offset, lost)
       /\ \/ /\ MayStop(written, offset)
             /\ workers' = [workers EXCEPT ![w] =
                  [written EXCEPT !.state = "Stopped"]]
          \/ /\ MayContinue(written, offset)
             /\ workers' = [workers EXCEPT ![w] =
                  [written EXCEPT !.state =
                     IF w \in DOMAIN node_finder' THEN @ ELSE "Stopped"]]
  /\ Done(w)

(* process() throws in the body, after some writes.  The handler calls     *)
(* workerStopped(), so afterRead() does not find the worker: at() throws   *)
(* out_of_range, and nothing up to main() catches.                         *)
ProcessBodyThrows(w, offset) ==
  /\ Handling(w)
  /\ workers[w].state = "ReceivingBody"
  /\ Fault("reset")
  /\ offset \in file_offset[w] .. workers[w].limit
  /\ WriteFile(w, offset, 0, offset)
  /\ Stop(w, offset)
  /\ workers' = [workers EXCEPT ![w] =
       [Written(w, offset, 0) EXCEPT !.state = "Stopped"]]
  /\ pc' = IF w \in DOMAIN node_finder' THEN pc ELSE "terminated"
  /\ Done(w)
  /\ UNCHANGED honest

(* The server closes early, within a chunked body before its last chunk.   *)
(* It does not matter when: only the next event of the worker can tell.    *)
ServerCloses(w) ==
  /\ Handling(w)
  /\ workers[w].server = "serves"
  /\ \/ /\ workers[w].state = "Receiving"
        /\ Fault("close_head")
        /\ workers' = [workers EXCEPT ![w].server = "closed"]
     \/ /\ workers[w].state = "ReceivingBody"
        /\ Fault("close_body")
        /\ \E limit \in file_offset[w] .. workers[w].limit :
             /\ limit < workers[w].limit \/ workers[w].framing = "chunked"
             /\ workers' = [workers EXCEPT ![w].server = "closed",
                                           ![w].limit = limit]
  /\ UNCHANGED <<controllerVars, file, pc, todo, honest>>

(* There are no timeouts: this is the last event of the worker. *)
ServerStalls(w) ==
  /\ Handling(w)
  /\ workers[w].server = "serves"
  /\ Fault("stall")
  /\ workers' = [workers EXCEPT ![w].server = "stalled"]
  /\ Done(w)
  /\ UNCHANGED <<controllerVars, file, pc, honest>>

(***************************************************************************)
(* The end of an iteration: progress is printed every 250 ms, which sends  *)
(* the next iteration through the slots, and finished() is asked.          *)
(***************************************************************************)

Finished ==
  IF DOMAIN node_finder = {} THEN "done" ELSE "terminated"

Tick ==
  /\ pc = "events"
  /\ todo = {}
  /\ \E printed \in BOOLEAN :
       IF DOMAIN length_monitor = {}
         THEN /\ pc' = Finished
              /\ UNCHANGED todo
         ELSE /\ pc' = "manage"
              /\ todo' = IF printed THEN Workers ELSE {}
  /\ UNCHANGED <<controllerVars, workers, file, faults, honest>>

Ended ==
  /\ pc \in {"done", "terminated", "undefined"}
  /\ UNCHANGED vars

Next ==
  \/ \E w \in Workers :
       \/ CleanStopped(w)
       \/ KeepRunning(w)
       \/ LeaveEmpty(w)
       \/ CreateWorker(w)
       \/ CreateThrows(w)
       \/ ProcessSetup(w)
       \/ ProcessHeader(w)
       \/ ProcessTornHeader(w)
       \/ ProcessRefused(w)
       \/ ProcessThrows(w)
       \/ \E offset \in Offsets : ProcessBody(w, offset)
       \/ \E offset \in Offsets : ProcessBodyThrows(w, offset)
       \/ ServerCloses(w)
       \/ ServerStalls(w)
  \/ EpollWait
  \/ Tick
  \/ Ended

Spec == Init /\ [][Next]_vars

(***************************************************************************)
(* Fairness.  The loop does not block for good: epoll_wait has a timeout.  *)
(* It is level-triggered with room for every worker, so a worker for which *)
(* something has come is reported again and again; 250 ms pass again and   *)
(* again.  The server sends the next piece of an answer it has not cut     *)
(* off, and closes after the last one when that is how the body ends.  Two *)
(* faults are the exceptions, and fairness asks nothing of a worker once   *)
(* they have met it: after "stall" it is not reported any more, whether    *)
(* the server is silent or what it has sent is with the TLS library        *)
(* already (as it is whenever the end of the header and the body come in   *)
(* one TLS record), and after "torn_head" it may not find its body.        *)
(***************************************************************************)

LoopStep ==
  \/ \E w \in Workers :
       \/ CleanStopped(w)
       \/ KeepRunning(w)
       \/ LeaveEmpty(w)
       \/ CreateWorker(w)
       \/ ProcessSetup(w)
       \/ ProcessHeader(w)
       \/ \E offset \in Offsets : ProcessBody(w, offset)
  \/ EpollWait
  \/ Tick

Reported(w) == EpollWait /\ w \in todo'

Printed == Tick /\ todo' = Workers

Serves(w) ==
  \/ ProcessHeader(w)
  \/ \E offset \in Offsets :
       /\ ProcessBody(w, offset)
       /\ offset > file_offset[w] \/ workers'[w].state = "Stopped"

Fairness ==
  /\ WF_vars(LoopStep)
  /\ SF_vars(Printed)
  /\ \A w \in Workers :
       /\ SF_vars(Reported(w))
       /\ SF_vars(Serves(w))

FairSpec == Spec /\ Fairness

(***************************************************************************)
(* Properties.                                                             *)
(***************************************************************************)

TypeOK ==
  /\ ControllerTypeOK
  /\ workers \in [Workers -> Worker]
  /\ file \in [Bytes -> {"hole", "right", "wrong"}]
  /\ pc \in {"manage", "events", "done", "terminated", "undefined"}
  /\ todo \subseteq Workers
  /\ faults \in 0 .. MaxFaults
  /\ honest \in BOOLEAN

(* Every byte before the last is in the file or still in the books of the *)
(* controller: a byte is dropped from the books only after it has been    *)
(* written, whichever worker stops, fails, is split or runs past its end. *)
Covered ==
  \A b \in 0 .. Size - 2 : file[b] # "hole" \/ b \in Owed

(* Every worker that can still be reported by epoll is known to the        *)
(* controller, so node_finder.at() in afterRead() finds it, unless         *)
(* workerStopped() is called in the same turn, before afterRead().         *)
AliveTracked ==
  \A w \in Registered : w \in DOMAIN node_finder

(* A worker that is tracked has not been destroyed: the map never holds    *)
(* the address of an object that is gone.                                  *)
TrackedExist ==
  \A w \in DOMAIN node_finder : workers[w].state # "Null"

(* The loop never sorts an empty list and takes its back: workerStopped()  *)
(* in the middle of a pass over the slots never removes the last fragment. *)
NeverBackOfEmptyList == pc # "undefined"

(* When the loop ends well no connection is open. *)
ClosedWhenDone == pc = "done" => Registered = {}

(* "Finished", "File saved to": every byte of the file has been fetched. *)
CompleteWhenDone == pc = "done" => \A b \in Bytes : file[b] # "hole"

(* "Finished", "File saved to": when all bodies have been honest, every    *)
(* byte of the file is the right one, whichever workers have failed, been  *)
(* split or written past their end; but for the last byte, which no        *)
(* fragment has.  The server has to know ranges: one that does not sends   *)
(* the beginning of the file wherever a worker is (RangeSupport).          *)
RightWhenDone ==
  honest /\ pc = "done" =>
    \A b \in Bytes : file[b] = "right" \/ (b = Size - 1 /\ file[b] = "hole")

(* afterRead() and the other calls the loop makes return: no exception     *)
(* reaches main().                                                         *)
AfterReadAnswers == pc # "terminated"

(* The loop has no error of its own: at() finds the worker, finished()     *)
(* does not throw, next() has a back to take.  When the loop breaks down   *)
(* it is in the step in which a connection fails.                          *)
OnlyFaultsEnd ==
  [][pc' # pc /\ pc' \in {"terminated", "undefined"} => faults' > faults]_vars

(* The loop is left in the end, one way or another. *)
ComesToAnEnd == <>(pc \in {"done", "terminated", "undefined"})

(* Connections that get nothing more done: there is no timeout for one     *)
(* that is not reported any more or that the server keeps open after a     *)
(* body too short for the range, and one closed within its header, or      *)
(* within a body that says where it ends, is reported for ever.            *)
Stuck ==
  {w \in Registered :
     \/ workers[w].server = "stalled"
     \/ /\ workers[w].server = "serves"
        /\ workers[w].framing = "open"
        /\ workers[w].limit = file_offset[w]
     \/ /\ workers[w].server = "closed"
        /\ \/ workers[w].state \in Setup
           \/ workers[w].framing \in {"length", "chunked"}}

(* The fragment in n is the one a stuck worker is at, and too short to be  *)
(* split; or it is idle and hidden from next() behind such a one, because  *)
(* next() only looks at the back of the list.                              *)
KeptByStuck(n) ==
  LET HeldShort(f) == f.worker \in Stuck /\ Half(f) <= Min
      f == length_monitor[n]
  IN  \/ HeldShort(f)
      \/ /\ f.worker = NoWorker
         /\ \E m \in DOMAIN length_monitor :
              /\ HeldShort(length_monitor[m])
              /\ f.end - f.begin <= Half(length_monitor[m])

(* A file of two bytes or more is completed, however many connections are  *)
(* refused or break off: what the workers they stop have left is taken up  *)
(* by new ones.  Only stuck connections keep the loop from its end, and as *)
(* long as one worker is not stuck, all it can split off them is fetched   *)
(* and what is left is KeptByStuck.                                        *)
Finishes ==
  \/ <>(pc = "done")
  \/ <>[](/\ Stuck # {}
          /\ \/ Stuck = Workers
             \/ \A n \in DOMAIN length_monitor : KeptByStuck(n))

(* The loop drives its controller as the controller expects to be driven,  *)
(* so all that is true of the controller is true of it here: a worker is   *)
(* booked where it was created to write, no call is made for one that is   *)
(* not tracked, and every move of an offset is reported before the next.   *)
UsesController == ControllerSpec

(* The loop as the download it implements: it keeps the promise of         *)
(* RangeDownload for all bytes but the last.                               *)
Promise == INSTANCE RangeDownload WITH
  Promised <- 0 .. Size - 2,
  fetched  <- {b \in Bytes : file[b] # "hole"},
  status   <- CASE pc = "done" -> "done"
                [] pc \in {"terminated", "undefined"} -> "failed"
                [] OTHER -> "running"

KeepsPromise == Promise!Spec

=============================================================================
