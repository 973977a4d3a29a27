----------------------------- MODULE DownloadProofs -----------------------------
(***************************************************************************)
(* Proofs about Download, for every size, number of slots, kind and number *)
(* of faults.                                                              *)
(*                                                                         *)
(* First, every step of the loop is a step of its controller or leaves it  *)
(* alone, so the theorems about the controller carry over.  What relates   *)
(* the workers and the file to the books of the controller then follows    *)
(* action by action.                                                       *)
(***************************************************************************)
EXTENDS Download, LengthControllerProofs

USE SizeAssumption, MinAssumption, NoWorkerAssumption, NodesAssumption,
    RangeSupportAssumption, FramingsAssumption, FaultsAssumption,
    MaxFaultsAssumption

-----------------------------------------------------------------------------
(* The loop and its controller.                                            *)

LoopTypeOK ==
  /\ workers \in [Workers -> Worker]
  /\ file \in [Bytes -> {"hole", "right", "wrong"}]
  /\ pc \in {"manage", "events", "done", "terminated", "undefined"}
  /\ todo \subseteq Workers
  /\ faults \in 0 .. MaxFaults
  /\ honest \in BOOLEAN

(* A worker that can be reported has its entry in the map, and one with an *)
(* entry still exists.                                                     *)
Tracked == AliveTracked /\ TrackedExist

(* A worker that is cleaned up, or stopped by force before the body, has   *)
(* its last offset reported once more: that is a Stop, or nothing at all   *)
(* if the controller has dropped it.                                       *)
LEMMA StoppedInPlace ==
  ASSUME ControllerInv, InsideFile, NEW w \in Workers,
         WorkerStopped(w, file_offset[w]), UNCHANGED file_offset
  PROVE  \/ w \in DOMAIN node_finder /\ Stop(w, file_offset[w])
         \/ w \notin DOMAIN node_finder /\ UNCHANGED controllerVars
<1>1. /\ file_offset \in [Workers -> Int]
      /\ file_offset' = [file_offset EXCEPT ![w] = file_offset[w]]
      /\ file_offset[w] >= file_offset[w]
  BY DEF ControllerInv, ControllerTypeOK
<1>2. CASE w \in DOMAIN node_finder
  BY <1>1, <1>2 DEF Stop
<1>3. CASE w \notin DOMAIN node_finder
  BY <1>3 DEF WorkerStopped, controllerVars
<1>4. QED
  BY <1>2, <1>3

(* The calls the loop makes, or none of them. *)
Calls ==
  \/ \E w \in Workers :
       \/ CleanStopped(w)
       \/ CreateWorker(w)
       \/ ProcessThrows(w)
       \/ \E offset \in Offsets : ProcessBody(w, offset)
       \/ \E offset \in Offsets : ProcessBodyThrows(w, offset)

(* Where the loop does not call its controller, the controller stays as it *)
(* is.                                                                     *)
LEMMA NoCall ==
  ASSUME [Next]_vars, ~Calls
  PROVE  UNCHANGED controllerVars
BY DEF Next, Calls, vars, controllerVars, KeepRunning, LeaveEmpty,
   CreateThrows, ProcessSetup, ProcessHeader, ProcessTornHeader,
   ProcessRefused, ServerCloses, ServerStalls, EpollWait, Tick, Ended

(* Every call in the middle of a body is a Read: afterRead() finds the     *)
(* worker, because one that is reported is tracked.                        *)
LEMMA BodyIsRead ==
  ASSUME ControllerInv, LoopTypeOK, Tracked,
         NEW w \in Workers, NEW offset \in Offsets, ProcessBody(w, offset)
  PROVE  Read(w, offset) /\ UNCHANGED pc
<1>1. w \in DOMAIN node_finder
  BY DEF ProcessBody, Tracked, AliveTracked, Registered, Alive
<1>2. PICK lost \in 0 .. Size : WriteAndReport(w, offset, lost)
  BY DEF ProcessBody
<1>3. /\ offset \in file_offset[w] .. workers[w].limit - lost
      /\ file_offset[w] \in Int /\ workers[w].limit \in Int
  BY <1>2 DEF WriteAndReport, LoopTypeOK, Worker, ControllerInv,
     ControllerTypeOK
<1>4. offset >= file_offset[w]
  BY <1>3
<1>5. QED
  BY <1>1, <1>2, <1>4 DEF WriteAndReport, Read

(* A step of the loop is one of the controller, or leaves it alone.        *)
LEMMA StepOfController ==
  ASSUME ControllerInv, InsideFile, LoopTypeOK, Tracked, [Next]_vars
  PROVE  [ControllerNext]_controllerVars
<1>1. ASSUME NEW w \in Workers, CleanStopped(w) \/ ProcessThrows(w)
      PROVE  [ControllerNext]_controllerVars
  <2>1. WorkerStopped(w, file_offset[w]) /\ UNCHANGED file_offset
    BY <1>1 DEF CleanStopped, ProcessThrows
  <2>2. file_offset[w] \in Offsets
    BY DEF InsideFile
  <2>3. QED
    BY <2>1, <2>2, StoppedInPlace DEF ControllerNext
<1>2. ASSUME NEW w \in Workers, CreateWorker(w)
      PROVE  ControllerNext
  <2>1. PICK n \in CanBeBack : Spawn(w, n)
    BY <1>2 DEF CreateWorker
  <2>2. n \in Nodes
    BY DEF CanBeBack, ControllerInv, ControllerTypeOK
  <2>3. QED
    BY <2>1, <2>2 DEF ControllerNext
<1>3. ASSUME NEW w \in Workers, NEW offset \in Offsets,
             ProcessBody(w, offset) \/ ProcessBodyThrows(w, offset)
      PROVE  ControllerNext
  BY <1>3, BodyIsRead DEF ProcessBodyThrows, ControllerNext
<1>4. QED
  BY <1>1, <1>2, <1>3, NoCall DEF Calls

-----------------------------------------------------------------------------
(* Types.                                                                  *)

(* A worker in another state is a worker.                                  *)
LEMMA StateTyped ==
  ASSUME NEW x \in Worker, NEW s \in Alive \cup {"Null", "Stopped"}
  PROVE  [x EXCEPT !.state = s] \in Worker
BY DEF Worker

(* So is one whose server does something else.                             *)
LEMMA ServerTyped ==
  ASSUME NEW x \in Worker, NEW s \in {"serves", "closed", "stalled"}
  PROVE  [x EXCEPT !.server = s] \in Worker
BY DEF Worker

(* So is one just created for a range.                                     *)
LEMMA ConnectingTyped ==
  ASSUME NEW range, range.begin \in Int, range.end \in Int
  PROVE  Connecting(range) \in Worker
BY DEF Connecting, Worker, Alive, Setup

(* next() answers with two numbers.                                        *)
LEMMA RangeTyped ==
  ASSUME ControllerTypeOK, NEW n \in DOMAIN length_monitor
  PROVE  NextRange(n).begin \in Int /\ NextRange(n).end \in Int
<1>1. length_monitor[n] \in Fragment
  BY DEF ControllerTypeOK
<1>2. Half(length_monitor[n]) \in Int
  BY <1>1, HalfSplits
<1>3. QED
  BY <1>1, <1>2 DEF NextRange, Fragment

(* An event in the middle of a body does not end the loop well, and no     *)
(* body becomes honest by it.                                              *)
LEMMA BodyKeeps ==
  ASSUME NEW w \in Workers, NEW offset \in Offsets,
         ProcessBody(w, offset) \/ ProcessBodyThrows(w, offset)
  PROVE  /\ pc = "events"
         /\ pc' = pc \/ pc' = "terminated"
         /\ honest' = honest \/ honest' = FALSE
<1>1. CASE ProcessBody(w, offset)
  <2>1. PICK lost \in 0 .. Size : WriteAndReport(w, offset, lost)
    BY <1>1 DEF ProcessBody
  <2>2. pc' = pc \/ pc' = "terminated"
    BY <2>1 DEF WriteAndReport
  <2>3. honest' = honest \/ honest' = FALSE
    BY <2>1 DEF WriteAndReport
  <2>4. QED
    BY <1>1, <2>2, <2>3 DEF ProcessBody, Handling
<1>2. CASE ProcessBodyThrows(w, offset)
  BY <1>2 DEF ProcessBodyThrows, Handling
<1>3. QED
  BY <1>1, <1>2

(* The file, the program counter, the slots to visit and the count of     *)
(* faults.                                                                 *)
LEMMA RestTyped ==
  ASSUME LoopTypeOK, [Next]_vars
  PROVE  /\ file' \in [Bytes -> {"hole", "right", "wrong"}]
         /\ pc' \in {"manage", "events", "done", "terminated", "undefined"}
         /\ todo' \subseteq Workers
         /\ faults' \in 0 .. MaxFaults
         /\ honest' \in BOOLEAN
<1>1. file' \in [Bytes -> {"hole", "right", "wrong"}]
  <2>1. ASSUME NEW w \in Workers, NEW offset, NEW lost, NEW cut,
               WriteFile(w, offset, lost, cut)
        PROVE  file' \in [Bytes -> {"hole", "right", "wrong"}]
    BY <2>1 DEF WriteFile, LoopTypeOK
  <2>2. ASSUME NEW w \in Workers, NEW offset \in Offsets,
               ProcessBody(w, offset) \/ ProcessBodyThrows(w, offset)
        PROVE  file' \in [Bytes -> {"hole", "right", "wrong"}]
    BY <2>1, <2>2 DEF ProcessBody, WriteAndReport, ProcessBodyThrows
  <2>3. QED
    BY <2>2 DEF LoopTypeOK, Next, vars, CleanStopped, KeepRunning, LeaveEmpty,
       CreateWorker, CreateThrows, ProcessSetup, ProcessHeader,
       ProcessTornHeader, ProcessRefused, ProcessThrows, ServerCloses,
       ServerStalls, EpollWait, Tick, Ended
<1>2. pc' \in {"manage", "events", "done", "terminated", "undefined"}
  <2> DEFINE Places == {"manage", "events", "done", "terminated", "undefined"}
  <2>1. pc \in Places
    BY DEF LoopTypeOK
  <2>2. ASSUME NEW w \in Workers,
               \/ CleanStopped(w) \/ KeepRunning(w) \/ CreateWorker(w)
               \/ ProcessSetup(w) \/ ProcessHeader(w) \/ ProcessTornHeader(w)
               \/ ProcessRefused(w) \/ ProcessThrows(w)
               \/ ServerCloses(w) \/ ServerStalls(w)
        PROVE  pc' = pc
    BY <2>2 DEF CleanStopped, KeepRunning, CreateWorker, ProcessSetup,
         ProcessHeader, ProcessTornHeader, ProcessRefused, ProcessThrows,
         ServerCloses, ServerStalls
  <2>3. ASSUME NEW w \in Workers, NEW offset \in Offsets, ProcessBody(w, offset)
        PROVE  pc' \in {pc, "terminated"}
    BY <2>3 DEF ProcessBody, WriteAndReport
  <2>4. ASSUME NEW w \in Workers, NEW offset \in Offsets,
               ProcessBodyThrows(w, offset)
        PROVE  pc' \in {pc, "terminated"}
    BY <2>4 DEF ProcessBodyThrows
  <2>5. ASSUME NEW w \in Workers, LeaveEmpty(w) \/ CreateThrows(w)
        PROVE  pc' \in {pc, "undefined", "terminated"}
    BY <2>5 DEF LeaveEmpty, CreateThrows
  <2>6. CASE EpollWait \/ Tick
    BY <2>6 DEF EpollWait, Tick, Finished
  <2>7. CASE Ended \/ UNCHANGED vars
    BY <2>1, <2>7 DEF Ended, vars
  <2> HIDE DEF Places
  <2>8. pc' \in {pc, "terminated", "undefined"} => pc' \in Places
    BY <2>1 DEF Places
  <2>9. pc' \in Places
    BY <2>1, <2>2, <2>3, <2>4, <2>5, <2>6, <2>7, <2>8 DEF Next, Places
  <2>10. QED
    BY <2>9 DEF Places
<1>3. todo' \subseteq Workers
  <2>1. CASE EpollWait
    BY <2>1 DEF EpollWait, Registered
  <2>2. CASE Tick
    BY <2>2 DEF LoopTypeOK, Tick
  <2>3. CASE ~EpollWait /\ ~Tick
    <3>1. todo' \subseteq todo
      BY <2>3 DEF Next, vars, CleanStopped, KeepRunning, LeaveEmpty,
         CreateWorker, CreateThrows, ProcessSetup, ProcessHeader,
         ProcessTornHeader, ProcessRefused, ProcessThrows, ProcessBody,
         ProcessBodyThrows, ServerCloses, ServerStalls, Ended, Done
    <3>2. QED
      BY <3>1 DEF LoopTypeOK
  <2>4. QED
    BY <2>1, <2>2, <2>3
<1>4. faults' \in 0 .. MaxFaults
  <2> DEFINE OneMore == \/ faults' = faults
                        \/ faults < MaxFaults /\ faults' = faults + 1
  <2>1. OneMore
    <3>1. ASSUME NEW w \in Workers,
                 \/ CleanStopped(w) \/ KeepRunning(w) \/ LeaveEmpty(w)
                 \/ CreateWorker(w) \/ ProcessSetup(w)
          PROVE  faults' = faults
      BY <3>1 DEF CleanStopped, KeepRunning, LeaveEmpty, CreateWorker,
           ProcessSetup
    <3>2. ASSUME NEW w \in Workers,
                 \/ CreateThrows(w) \/ ProcessHeader(w)
                 \/ ProcessTornHeader(w) \/ ProcessRefused(w)
                 \/ ProcessThrows(w) \/ ServerCloses(w) \/ ServerStalls(w)
          PROVE  OneMore
      BY <3>2 DEF CreateThrows, ProcessHeader, ProcessTornHeader,
         ProcessRefused, ProcessThrows, ServerCloses, ServerStalls, Fault
    <3>3. ASSUME NEW w \in Workers, NEW offset \in Offsets,
                 ProcessBody(w, offset) \/ ProcessBodyThrows(w, offset)
          PROVE  OneMore
      BY <3>3 DEF ProcessBody, WriteAndReport, ProcessBodyThrows, Fault
    <3>4. CASE EpollWait \/ Tick \/ Ended \/ UNCHANGED vars
      BY <3>4 DEF EpollWait, Tick, Ended, vars
    <3> HIDE DEF OneMore
    <3>5. faults' = faults => OneMore
      BY DEF OneMore
    <3>6. QED
      BY <3>1, <3>2, <3>3, <3>4, <3>5 DEF Next
  <2>2. faults \in 0 .. MaxFaults
    BY DEF LoopTypeOK
  <2>3. QED
    BY <2>1, <2>2
<1>5. honest' \in BOOLEAN
  BY BodyKeeps
     DEF LoopTypeOK, Next, vars, CleanStopped, KeepRunning, LeaveEmpty,
         CreateWorker, CreateThrows, ProcessSetup, ProcessHeader,
         ProcessTornHeader, ProcessRefused, ProcessThrows, ServerCloses,
         ServerStalls, EpollWait, Tick, Ended
<1>6. QED
  BY <1>1, <1>2, <1>3, <1>4, <1>5

(* The end of the header, found where it is or later or not at all, puts a *)
(* worker in the slot that lives and has not moved.                        *)
LEMMA HeaderHeard ==
  ASSUME ControllerTypeOK, LoopTypeOK, NEW w \in Workers,
         ProcessHeader(w) \/ ProcessTornHeader(w)
  PROVE  \E x \in Worker : /\ x.state \in Alive
                           /\ workers' = [workers EXCEPT ![w] = x]
                           /\ honest' => honest /\ x.source = workers[w].source
<1>1. /\ workers \in [Workers -> Worker]
      /\ workers[w] \in Worker
      /\ file_offset[w] \in Int /\ workers[w].limit \in Int
      /\ workers[w].source \in Int
  BY DEF LoopTypeOK, ControllerTypeOK, Worker
<1>2. Framings \subseteq {"length", "close", "open"}
  BY FramingsAssumption
<1>3. CASE /\ UNCHANGED honest
           /\ \E f \in Framings :
                workers' = [workers EXCEPT ![w].state = "ReceivingBody",
                                           ![w].framing = f]
  <2>1. PICK f \in Framings :
          workers' = [workers EXCEPT ![w].state = "ReceivingBody",
                                     ![w].framing = f]
    BY <1>3
  <2> DEFINE x == [workers[w] EXCEPT !.state = "ReceivingBody", !.framing = f]
  <2>2. x \in Worker /\ x.state = "ReceivingBody" /\ x.source = workers[w].source
    BY <1>1, <1>2 DEF Worker, Alive
  <2>3. workers' = [workers EXCEPT ![w] = x]
    BY <1>1, <2>1
  <2>4. QED
    BY <1>3, <2>2, <2>3 DEF Alive
<1>4. CASE /\ UNCHANGED honest
           /\ workers' = [workers EXCEPT ![w].state = "ReceivingBody",
                                         ![w].framing = "chunked",
                                         ![w].limit = file_offset[w]]
  <2> DEFINE x == [workers[w] EXCEPT !.state = "ReceivingBody",
                                     !.framing = "chunked",
                                     !.limit = file_offset[w]]
  <2>1. x \in Worker /\ x.state = "ReceivingBody" /\ x.source = workers[w].source
    BY <1>1 DEF Worker, Alive
  <2>2. workers' = [workers EXCEPT ![w] = x]
    BY <1>1, <1>4
  <2>3. QED
    BY <1>4, <2>1, <2>2 DEF Alive
<1>5. CASE /\ UNCHANGED honest
           /\ workers' = [workers EXCEPT ![w].state = "Receiving",
                                         ![w].server = "closed"]
  <2> DEFINE x == [workers[w] EXCEPT !.state = "Receiving", !.server = "closed"]
  <2>1. x \in Worker /\ x.state = "Receiving" /\ x.source = workers[w].source
    BY <1>1 DEF Worker, Alive, Setup
  <2>2. workers' = [workers EXCEPT ![w] = x]
    BY <1>1, <1>5
  <2>3. QED
    BY <1>5, <2>1, <2>2 DEF Alive, Setup
<1>6. CASE /\ honest' = FALSE
           /\ \E f \in Framings, limit \in file_offset[w] .. workers[w].limit :
                workers' = [workers EXCEPT ![w].state = "ReceivingBody",
                                           ![w].framing = f,
                                           ![w].limit = limit,
                                           ![w].source = Elsewhere]
  <2>1. PICK f \in Framings, limit \in file_offset[w] .. workers[w].limit :
          workers' = [workers EXCEPT ![w].state = "ReceivingBody",
                                     ![w].framing = f,
                                     ![w].limit = limit,
                                     ![w].source = Elsewhere]
    BY <1>6
  <2> DEFINE x == [workers[w] EXCEPT !.state = "ReceivingBody", !.framing = f,
                                     !.limit = limit, !.source = Elsewhere]
  <2>2. limit \in Int /\ Elsewhere \in Int
    BY <1>1, SizeAssumption DEF Elsewhere
  <2>3. x \in Worker /\ x.state = "ReceivingBody"
    BY <1>1, <1>2, <2>2 DEF Worker, Alive
  <2>4. workers' = [workers EXCEPT ![w] = x]
    BY <1>1, <2>1
  <2>5. QED
    BY <1>6, <2>3, <2>4 DEF Alive
<1>7. CASE /\ honest' = FALSE
           /\ \E f \in Framings, limit \in file_offset[w] .. workers[w].limit - 1 :
                workers' = [workers EXCEPT
                  ![w].state = "ReceivingBody",
                  ![w].framing = f,
                  ![w].limit = limit,
                  ![w].source = @ + (workers[w].limit - limit),
                  ![w].server = IF f = "length" THEN "closed" ELSE "serves"]
  <2>1. PICK f \in Framings, limit \in file_offset[w] .. workers[w].limit - 1 :
          workers' = [workers EXCEPT
            ![w].state = "ReceivingBody",
            ![w].framing = f,
            ![w].limit = limit,
            ![w].source = @ + (workers[w].limit - limit),
            ![w].server = IF f = "length" THEN "closed" ELSE "serves"]
    BY <1>7
  <2> DEFINE source == workers[w].source + (workers[w].limit - limit)
             server == IF f = "length" THEN "closed" ELSE "serves"
             x == [workers[w] EXCEPT !.state = "ReceivingBody", !.framing = f,
                                     !.limit = limit, !.source = source,
                                     !.server = server]
  <2>2. limit \in Int /\ source \in Int /\ server \in {"closed", "serves"}
    BY <1>1
  <2>3. x \in Worker /\ x.state = "ReceivingBody"
    BY <1>1, <1>2, <2>2 DEF Worker, Alive
  <2>4. workers' = [workers EXCEPT ![w] = x]
    BY <1>1, <2>1
  <2>5. QED
    BY <1>7, <2>3, <2>4 DEF Alive
<1>8. CASE ProcessHeader(w)
  BY <1>3, <1>4, <1>6, <1>8 DEF ProcessHeader
<1>9. CASE ProcessTornHeader(w)
  BY <1>5, <1>7, <1>9 DEF ProcessTornHeader
<1>10. QED
  BY <1>8, <1>9

(* A worker that has written more of the body is a worker.                 *)
LEMMA WrittenTyped ==
  ASSUME ControllerTypeOK, LoopTypeOK, NEW w \in Workers, NEW offset \in Int,
         NEW lost \in Int, NEW s \in Alive \cup {"Null", "Stopped"}
  PROVE  /\ Written(w, offset, lost) \in Worker
         /\ Written(w, offset, lost).state = workers[w].state
         /\ [Written(w, offset, lost) EXCEPT !.state = s] \in Worker
         /\ [Written(w, offset, lost) EXCEPT !.state = s].state = s
<1>1. /\ workers[w] \in Worker
      /\ workers[w].source \in Int /\ workers[w].limit \in Int
      /\ file_offset[w] \in Int
  BY DEF LoopTypeOK, ControllerTypeOK, Worker
<1>2. /\ workers[w].source + (offset - file_offset[w]) + lost \in Int
      /\ workers[w].limit - lost \in Int
  BY <1>1
<1>3. /\ Written(w, offset, lost) \in Worker
      /\ Written(w, offset, lost).state = workers[w].state
  BY <1>1, <1>2 DEF Written, Worker
<1>4. QED
  BY <1>3 DEF Worker

(* An event in the middle of a body leaves a worker in the slot that has   *)
(* moved on in the body, and is stopped unless the controller goes on      *)
(* tracking it.  If nothing of the body is lost, all of it is written.     *)
LEMMA BodyHeard ==
  ASSUME ControllerTypeOK, LoopTypeOK, NEW w \in Workers, NEW offset \in Offsets,
         ProcessBody(w, offset) \/ ProcessBodyThrows(w, offset)
  PROVE  \E s \in {"ReceivingBody", "Stopped"}, lost \in 0 .. Size, cut \in Int :
           /\ workers' = [workers EXCEPT ![w] =
                            [Written(w, offset, lost) EXCEPT !.state = s]]
           /\ s = "ReceivingBody" => w \in DOMAIN node_finder'
           /\ WriteFile(w, offset, lost, cut)
           /\ honest' => lost = 0
<1>0. offset \in Int /\ 0 \in 0 .. Size
  BY SizeAssumption DEF Offsets
<1>1. CASE ProcessBody(w, offset)
  <2>1. PICK lost \in 0 .. Size :
          /\ WriteAndReport(w, offset, lost)
          /\ \/ workers' = [workers EXCEPT ![w] =
                   [Written(w, offset, lost) EXCEPT !.state = "Stopped"]]
             \/ workers' = [workers EXCEPT ![w] =
                   [Written(w, offset, lost) EXCEPT !.state =
                      IF w \in DOMAIN node_finder' THEN @ ELSE "Stopped"]]
    BY <1>1 DEF ProcessBody
  <2>2. Written(w, offset, lost).state = "ReceivingBody"
    <3>1. workers[w] \in Worker /\ workers[w].state = "ReceivingBody"
      BY <1>1 DEF ProcessBody, LoopTypeOK
    <3>2. QED
      BY <3>1 DEF Written, Worker
  <2>3. \E s \in {"ReceivingBody", "Stopped"} :
          /\ workers' = [workers EXCEPT ![w] =
                           [Written(w, offset, lost) EXCEPT !.state = s]]
          /\ s = "ReceivingBody" => w \in DOMAIN node_finder'
    BY <2>1, <2>2
  <2>4. \E cut \in Int : WriteFile(w, offset, lost, cut)
    <3>1. CASE lost = 0
      BY <1>0, <2>1, <3>1 DEF WriteAndReport
    <3>2. CASE lost # 0
      <4>1. file_offset[w] \in Int
        BY DEF ControllerTypeOK
      <4>2. PICK cut \in file_offset[w] + 1 .. offset :
              WriteFile(w, offset, lost, cut)
        BY <2>1, <3>2 DEF WriteAndReport
      <4>3. cut \in Int
        BY <1>0, <4>1
      <4>4. QED
        BY <4>2, <4>3
    <3>3. QED
      BY <3>1, <3>2
  <2>5. honest' => lost = 0
    BY <2>1 DEF WriteAndReport
  <2>6. QED
    BY <2>3, <2>4, <2>5
<1>2. CASE ProcessBodyThrows(w, offset)
  BY <1>0, <1>2 DEF ProcessBodyThrows
<1>3. QED
  BY <1>1, <1>2

(* An event leaves in its slot a worker again. *)
LEMMA WorkersTyped ==
  ASSUME ControllerInv, InsideFile, LoopTypeOK, [Next]_vars
  PROVE  workers' \in [Workers -> Worker]
<1> USE DEF LoopTypeOK
<1>1. ASSUME NEW w \in Workers, CleanStopped(w)
      PROVE  workers' \in [Workers -> Worker]
  <2>1. Null \in Worker
    BY DEF Null, Worker
  <2>2. QED
    BY <1>1, <2>1 DEF CleanStopped
<1>2. ASSUME NEW w \in Workers, CreateWorker(w)
      PROVE  workers' \in [Workers -> Worker]
  <2>1. PICK n \in CanBeBack :
          workers' = [workers EXCEPT ![w] = Connecting(NextRange(n))]
    BY <1>2 DEF CreateWorker
  <2>2. Connecting(NextRange(n)) \in Worker
    BY RangeTyped, ConnectingTyped DEF CanBeBack, ControllerInv
  <2>3. QED
    BY <2>1, <2>2
<1>3. ASSUME NEW w \in Workers, NEW s \in Alive \cup {"Null", "Stopped"},
             workers' = [workers EXCEPT ![w].state = s]
      PROVE  workers' \in [Workers -> Worker]
  BY <1>3, StateTyped
<1>4. ASSUME NEW w \in Workers, ProcessHeader(w) \/ ProcessTornHeader(w)
      PROVE  workers' \in [Workers -> Worker]
  BY <1>4, HeaderHeard DEF ControllerInv
<1>5. ASSUME NEW w \in Workers, ServerCloses(w)
      PROVE  workers' \in [Workers -> Worker]
  <2>1. file_offset[w] \in Int
    BY DEF ControllerInv, ControllerTypeOK
  <2>2. QED
    BY <1>5, <2>1 DEF ServerCloses, Worker
<1>6. ASSUME NEW w \in Workers, ServerStalls(w)
      PROVE  workers' \in [Workers -> Worker]
  BY <1>6, ServerTyped DEF ServerStalls
<1>7. ASSUME NEW w \in Workers,
             ProcessSetup(w) \/ ProcessRefused(w) \/ ProcessThrows(w)
      PROVE  workers' \in [Workers -> Worker]
  <2>1. CASE ProcessSetup(w)
    <3>1. PICK s \in Onward(workers[w].state) :
            workers' = [workers EXCEPT ![w].state = s]
      BY <2>1 DEF ProcessSetup
    <3>2. s \in Alive
      BY <2>1, <3>1 DEF ProcessSetup, Onward, Setup, Alive
    <3>3. QED
      BY <1>3, <3>1, <3>2
  <2>2. QED
    BY <1>3, <1>7, <2>1 DEF ProcessRefused, ProcessThrows
<1>8. ASSUME NEW w \in Workers, NEW offset \in Offsets,
             ProcessBody(w, offset) \/ ProcessBodyThrows(w, offset)
      PROVE  workers' \in [Workers -> Worker]
  <2>1. PICK s \in {"ReceivingBody", "Stopped"}, lost \in 0 .. Size :
          workers' = [workers EXCEPT ![w] =
                        [Written(w, offset, lost) EXCEPT !.state = s]]
    BY <1>8, BodyHeard DEF ControllerInv
  <2>2. offset \in Int /\ lost \in Int /\ s \in Alive \cup {"Null", "Stopped"}
    BY DEF Offsets, Alive
  <2>3. QED
    BY <2>1, <2>2, WrittenTyped DEF ControllerInv
<1>9. QED
  BY <1>1, <1>2, <1>4, <1>5, <1>6, <1>7, <1>8
     DEF Next, vars, KeepRunning, LeaveEmpty, CreateThrows, EpollWait, Tick,
     Ended

(* The types hold before the first pass.                                   *)
LEMMA InitTyped == Init => LoopTypeOK
BY DEF Init, LoopTypeOK, Null, Worker

-----------------------------------------------------------------------------
(* Workers and the map of the controller.                                  *)

(* add() makes the controller track one more worker.                       *)
LEMMA SpawnTracks ==
  ASSUME NEW w, NEW n, Spawn(w, n)
  PROVE  DOMAIN node_finder' = DOMAIN node_finder \cup {w}
BY DEF Spawn, Add, Put

(* afterRead() makes it forget a worker at the end of its fragment.        *)
LEMMA ReadTracks ==
  ASSUME NEW w, NEW offset, Read(w, offset)
  PROVE  DOMAIN node_finder' =
           IF Continues(w, offset) THEN DOMAIN node_finder
                                   ELSE DOMAIN node_finder \ {w}
BY DEF Read, AfterRead, Drop

(* workerStopped() makes it forget the worker.                             *)
LEMMA WorkerStoppedTracks ==
  ASSUME NEW w, NEW offset, WorkerStopped(w, offset)
  PROVE  DOMAIN node_finder' = DOMAIN node_finder \ {w}
BY DEF WorkerStopped, Drop

(* What has to be shown when a step concerns one worker only.              *)
LEMMA OneWorkerTracked ==
  ASSUME LoopTypeOK, Tracked, NEW w \in Workers,
         \A v \in Workers \ {w} :
           /\ workers'[v].state = workers[v].state
           /\ v \in DOMAIN node_finder' <=> v \in DOMAIN node_finder,
         DOMAIN node_finder' \subseteq Workers,
         workers'[w].state \in Alive => w \in DOMAIN node_finder',
         w \in DOMAIN node_finder' => workers'[w].state # "Null"
  PROVE  Tracked'
BY DEF Tracked, AliveTracked, TrackedExist, Registered

(* Every step keeps slots and map in agreement.                            *)
LEMMA StepTracked ==
  ASSUME ControllerInv, InsideFile, LoopTypeOK, Tracked, [Next]_vars
  PROVE  Tracked'
<1>0. /\ DOMAIN node_finder \subseteq Workers
      /\ DOMAIN node_finder' \subseteq Workers
  <2>1. ControllerInv'
    BY StepOfController, NextKeepsInv
  <2>2. QED
    BY <2>1 DEF ControllerInv, ControllerTypeOK
<1>1. ASSUME NEW w \in Workers, CleanStopped(w)
      PROVE  Tracked'
  <2>1. DOMAIN node_finder' = DOMAIN node_finder \ {w}
    BY <1>1, WorkerStoppedTracks DEF CleanStopped
  <2>2. workers' = [workers EXCEPT ![w] = Null] /\ Null.state = "Null"
    BY <1>1 DEF CleanStopped, Null
  <2>3. QED
    BY <1>0, <2>1, <2>2, OneWorkerTracked DEF LoopTypeOK, Alive, Setup
<1>2. ASSUME NEW w \in Workers, CreateWorker(w)
      PROVE  Tracked'
  <2>1. PICK n \in CanBeBack :
          /\ Spawn(w, n)
          /\ workers' = [workers EXCEPT ![w] = Connecting(NextRange(n))]
    BY <1>2 DEF CreateWorker
  <2>2. DOMAIN node_finder' = DOMAIN node_finder \cup {w}
    BY <2>1, SpawnTracks
  <2>3. workers'[w].state = "Connecting"
    BY <2>1 DEF LoopTypeOK, Connecting
  <2>4. \A v \in Workers \ {w} : workers'[v] = workers[v]
    BY <2>1 DEF LoopTypeOK
  <2>5. QED
    BY <1>0, <2>2, <2>3, <2>4, OneWorkerTracked
<1>3. ASSUME NEW w \in Workers,
             workers'[w].state \in Alive => w \in DOMAIN node_finder',
             workers'[w].state # "Null",
             \A v \in Workers \ {w} : workers'[v] = workers[v],
             DOMAIN node_finder' \in {DOMAIN node_finder, DOMAIN node_finder \ {w}}
      PROVE  Tracked'
  BY <1>0, <1>3, OneWorkerTracked
<1>4. ASSUME NEW w \in Workers, workers[w].state \in Alive,
             \A v \in Workers \ {w} : workers'[v] = workers[v],
             workers'[w].state \in Alive,
             UNCHANGED node_finder
      PROVE  Tracked'
  <2>1. w \in DOMAIN node_finder
    BY <1>4 DEF Tracked, AliveTracked, Registered
  <2>2. QED
    BY <1>0, <1>4, <2>1, OneWorkerTracked DEF Alive, Setup
<1>5. ASSUME NEW w \in Workers,
             \/ ProcessSetup(w) \/ ProcessHeader(w) \/ ProcessTornHeader(w)
             \/ ServerCloses(w) \/ ServerStalls(w)
      PROVE  Tracked'
  <2>1. /\ workers[w] \in Worker
        /\ UNCHANGED node_finder
    BY <1>5 DEF LoopTypeOK, ProcessSetup, ProcessHeader, ProcessTornHeader,
                ServerCloses, ServerStalls, controllerVars
  <2>2. \A v \in Workers \ {w} : workers'[v] = workers[v]
    BY <1>5 DEF LoopTypeOK, ProcessSetup, ProcessHeader, ProcessTornHeader,
                ServerCloses, ServerStalls
  <2>3. CASE ProcessSetup(w) \/ ProcessHeader(w) \/ ProcessTornHeader(w)
    <3>1. workers[w].state \in Alive
      BY <2>3 DEF ProcessSetup, ProcessHeader, ProcessTornHeader, Alive
    <3>2. \E s \in Alive : workers'[w].state = s
      <4>1. CASE ProcessSetup(w)
        <5>1. PICK s \in Onward(workers[w].state) :
                workers' = [workers EXCEPT ![w].state = s]
          BY <4>1 DEF ProcessSetup
        <5>2. s \in Alive
          BY <4>1, <5>1 DEF ProcessSetup, Onward, Setup, Alive
        <5>3. QED
          BY <2>1, <5>1, <5>2 DEF LoopTypeOK, Worker
      <4>2. CASE ProcessHeader(w) \/ ProcessTornHeader(w)
        BY <4>2, HeaderHeard DEF ControllerInv, LoopTypeOK
      <4>3. QED
        BY <2>3, <4>1, <4>2
    <3>3. QED
      BY <1>4, <2>1, <2>2, <3>1, <3>2
  <2>4. CASE ServerCloses(w) \/ ServerStalls(w)
    <3>1. workers'[w].state = workers[w].state
      BY <2>1, <2>4 DEF LoopTypeOK, Worker, ServerCloses, ServerStalls
    <3>2. QED
      BY <1>0, <2>1, <2>2, <3>1, OneWorkerTracked
         DEF Tracked, AliveTracked, TrackedExist, Registered
  <2>5. QED
    BY <1>5, <2>3, <2>4
<1>6. ASSUME NEW w \in Workers, ProcessRefused(w) \/ ProcessThrows(w)
      PROVE  Tracked'
  <2>1. /\ workers'[w].state = "Stopped"
        /\ \A v \in Workers \ {w} : workers'[v] = workers[v]
    BY <1>6 DEF ProcessRefused, ProcessThrows, LoopTypeOK, Worker
  <2>2. DOMAIN node_finder' \in {DOMAIN node_finder, DOMAIN node_finder \ {w}}
    BY <1>6, WorkerStoppedTracks DEF ProcessRefused, ProcessThrows,
       controllerVars
  <2>3. QED
    BY <1>3, <2>1, <2>2 DEF Alive, Setup
<1>7. ASSUME NEW w \in Workers, NEW offset \in Offsets,
             ProcessBody(w, offset) \/ ProcessBodyThrows(w, offset)
      PROVE  Tracked'
  <2>1. PICK s \in {"ReceivingBody", "Stopped"}, lost \in 0 .. Size :
          /\ workers' = [workers EXCEPT ![w] =
                           [Written(w, offset, lost) EXCEPT !.state = s]]
          /\ s = "ReceivingBody" => w \in DOMAIN node_finder'
    BY <1>7, BodyHeard DEF ControllerInv
  <2>2. offset \in Int /\ lost \in Int /\ s \in Alive \cup {"Null", "Stopped"}
    BY DEF Offsets, Alive
  <2>3. /\ workers'[w].state = s
        /\ \A v \in Workers \ {w} : workers'[v] = workers[v]
    BY <2>1, <2>2, WrittenTyped DEF LoopTypeOK, ControllerInv
  <2>4. DOMAIN node_finder' \in {DOMAIN node_finder, DOMAIN node_finder \ {w}}
    BY <1>7, BodyIsRead, ReadTracks,
       WorkerStoppedTracks DEF ProcessBodyThrows, Stop
  <2>5. QED
    BY <1>3, <2>1, <2>3, <2>4 DEF Alive, Setup
<1>9. CASE UNCHANGED <<workers, node_finder>>
  BY <1>9 DEF Tracked, AliveTracked, TrackedExist, Registered
<1>10. QED
  BY <1>1, <1>2, <1>5, <1>6, <1>7, <1>9
     DEF Next, vars, controllerVars, KeepRunning, LeaveEmpty, CreateThrows,
         EpollWait, Tick, Ended

-----------------------------------------------------------------------------
(* The file and the books.                                                 *)

(* What the worker has written since its last report is in the file. *)
LEMMA WrittenIsFetched ==
  ASSUME NEW w, NEW offset, NEW lost, NEW cut, WriteFile(w, offset, lost, cut),
         NEW b \in Bytes, file_offset[w] <= b, b < offset
  PROVE  file'[b] # "hole"
BY DEF WriteFile

(* A byte that has been written stays written.                             *)
LEMMA FetchedStays ==
  ASSUME NEW w, NEW offset, NEW lost, NEW cut, WriteFile(w, offset, lost, cut),
         NEW b \in Bytes, file[b] # "hole"
  PROVE  file'[b] # "hole"
BY DEF WriteFile

(* Bytes leave the books of the controller only under a worker that has    *)
(* written them.                                                           *)
LEMMA StepCovered ==
  ASSUME ControllerInv, InsideFile, LoopTypeOK, Tracked, Covered, [Next]_vars
  PROVE  Covered'
<1>0. 0 .. Size - 2 \subseteq Bytes
  BY DEF Bytes
<1>1. ASSUME Owed' = Owed, UNCHANGED file
      PROVE  Covered'
  BY <1>1 DEF Covered
<1>2. ASSUME NEW w \in Workers, CleanStopped(w) \/ ProcessThrows(w)
      PROVE  Covered'
  <2>1. /\ WorkerStopped(w, file_offset[w])
        /\ UNCHANGED <<file_offset, file>>
    BY <1>2 DEF CleanStopped, ProcessThrows
  <2>2. CASE w \in DOMAIN node_finder /\ Stop(w, file_offset[w])
    <3>1. file_offset[w] \in Int
      BY DEF ControllerInv, ControllerTypeOK
    <3>2. \A b \in Owed \ Owed' : file_offset[w] <= b /\ b < file_offset'[w]
      BY <2>2, <3>1, StopOwed
    <3>3. \A b \in Owed : b \in Int
      BY DEF Owed
    <3>4. Owed \subseteq Owed'
      BY <2>1, <3>1, <3>2, <3>3
    <3>5. QED
      BY <2>1, <3>4 DEF Covered
  <2>3. CASE UNCHANGED controllerVars
    BY <1>1, <2>1, <2>3 DEF Owed, controllerVars
  <2>4. QED
    BY <2>1, <2>2, <2>3, StoppedInPlace
<1>3. ASSUME NEW w \in Workers, CreateWorker(w)
      PROVE  Covered'
  <2>1. PICK n \in CanBeBack : Spawn(w, n)
    BY <1>3 DEF CreateWorker
  <2>2. n \in Nodes
    BY DEF CanBeBack, ControllerInv, ControllerTypeOK
  <2>3. QED
    BY <1>1, <1>3, <2>1, <2>2, SpawnOwed DEF CreateWorker
<1>4. ASSUME NEW w \in Workers, NEW offset \in Offsets,
             ProcessBody(w, offset) \/ ProcessBodyThrows(w, offset)
      PROVE  Covered'
  <2>0. PICK lost, cut : WriteFile(w, offset, lost, cut)
    BY <1>4, BodyHeard DEF ControllerInv
  <2>1. /\ Read(w, offset) \/ Stop(w, offset)
        /\ offset \in Int
    BY <1>4, BodyIsRead DEF ProcessBodyThrows, Offsets
  <2>2. file_offset'[w] = offset
    BY <2>1 DEF Read, Stop, ControllerInv, ControllerTypeOK
  <2>3. \A b \in Owed \ Owed' : file_offset[w] <= b /\ b < offset
    BY <2>1, <2>2, ReadOwed, StopOwed
  <2>4. ASSUME NEW b \in 0 .. Size - 2
        PROVE  file'[b] # "hole" \/ b \in Owed'
    BY <1>0, <2>0, <2>3, WrittenIsFetched, FetchedStays DEF Covered
  <2>5. QED
    BY <2>4 DEF Covered
<1>5. CASE ~Calls
  <2>1. UNCHANGED controllerVars
    BY <1>5, NoCall
  <2>2. UNCHANGED file
    BY <1>5 DEF Next, Calls, vars, KeepRunning, LeaveEmpty, CreateThrows,
       ProcessSetup, ProcessHeader, ProcessTornHeader, ProcessRefused,
       ServerCloses, ServerStalls, EpollWait, Tick, Ended
  <2>3. QED
    BY <1>1, <2>1, <2>2 DEF Owed, controllerVars
<1>6. QED
  BY <1>2, <1>3, <1>4, <1>5 DEF Calls

(* At first the controller owes all bytes but the last.                    *)
LEMMA InitCovered == Init => Covered
<1> SUFFICES ASSUME Init, NEW b \in 0 .. Size - 2 PROVE b \in Owed
  BY DEF Covered
<1>1. PICK first \in Nodes : first = CHOOSE m \in Nodes : TRUE
  BY NodesAssumption
<1>2. /\ DOMAIN length_monitor = {first}
      /\ length_monitor[first] = [begin |-> 0, end |-> Size - 1,
                                  worker |-> NoWorker]
  BY <1>1 DEF Init, ControllerInit
<1>3. QED
  BY <1>2 DEF Owed

-----------------------------------------------------------------------------
(* The end of the loop.                                                    *)

(* While the slots are managed there is a fragment: the list runs empty    *)
(* only when a worker has read its last byte, and the loop is left before  *)
(* the next pass.  Not so for an empty file.                               *)
SomethingLeft == Size >= 1 /\ pc = "manage" => DOMAIN length_monitor # {}

(* The loop goes back to its slots only with something in the list.        *)
LEMMA StepSomethingLeft ==
  ASSUME ControllerInv, InsideFile, OneByteIdle, OneByteIdle', SomethingLeft,
         [Next]_vars
  PROVE  SomethingLeft'
<1> SUFFICES ASSUME Size >= 1, pc' = "manage"
             PROVE  DOMAIN length_monitor' # {}
  BY DEF SomethingLeft
<1>1. CASE Size = 1
  BY <1>1 DEF OneByteIdle
<1>2. CASE Size >= 2
  <2>1. ASSUME NEW w \in Workers, CleanStopped(w)
        PROVE  DOMAIN length_monitor' # {}
    <3>1. DOMAIN length_monitor' = DOMAIN length_monitor
      BY <1>2, <2>1, StoppingInPlaceKeepsNodes DEF CleanStopped
    <3>2. QED
      BY <2>1, <3>1 DEF SomethingLeft, CleanStopped, Managing
  <2>2. ASSUME NEW w \in Workers, CreateWorker(w)
        PROVE  DOMAIN length_monitor' # {}
    <3>1. PICK n \in CanBeBack : Add(w, n)
      BY <2>2 DEF CreateWorker, Spawn
    <3>2. n \in DOMAIN length_monitor'
      BY <3>1 DEF Add, Put, CanBeBack
    <3>3. QED
      BY <3>2
  <2>3. ASSUME NEW w \in Workers,
               \/ ProcessThrows(w)
               \/ \E offset \in Offsets :
                    ProcessBody(w, offset) \/ ProcessBodyThrows(w, offset)
        PROVE  FALSE
    BY <2>3 DEF ProcessThrows, ProcessBody, WriteAndReport, ProcessBodyThrows,
         Handling
  <2>4. CASE ~Calls
    <3>1. UNCHANGED length_monitor
      BY <2>4, NoCall DEF controllerVars
    <3>2. pc = "manage" \/ DOMAIN length_monitor # {}
      BY <2>4 DEF Next, Calls, vars, KeepRunning, LeaveEmpty, CreateThrows,
         ProcessSetup, ProcessHeader, ProcessTornHeader, ProcessRefused,
         ServerCloses, ServerStalls, EpollWait, Tick, Ended, Finished
    <3>3. QED
      BY <3>1, <3>2 DEF SomethingLeft
  <2>5. QED
    BY <2>1, <2>2, <2>3, <2>4 DEF Calls
<1>3. QED
  BY <1>1, <1>2

(* How the loop comes to its three ends. *)
LEMMA Ending ==
  ASSUME [Next]_vars
  PROVE  /\ pc' = "undefined" =>
              \/ pc = "undefined"
              \/ pc = "manage" /\ DOMAIN length_monitor = {}
         /\ pc' = "done" =>
              \/ pc = "done" /\ UNCHANGED vars
              \/ /\ pc = "events"
                 /\ DOMAIN length_monitor = {} /\ DOMAIN node_finder = {}
                 /\ UNCHANGED <<controllerVars, workers, file>>
BY BodyKeeps
   DEF Next, vars, controllerVars, CleanStopped, KeepRunning, LeaveEmpty,
       CreateWorker, CreateThrows, ProcessSetup, ProcessHeader,
       ProcessTornHeader, ProcessRefused, ProcessThrows, ServerCloses,
       ServerStalls, EpollWait, Tick, Ended, Finished, Managing, Handling

-----------------------------------------------------------------------------
(* The invariant of the loop.                                              *)

DownloadInv ==
  /\ ControllerInv /\ InsideFile /\ OneByteIdle
  /\ LoopTypeOK
  /\ Tracked
  /\ Covered
  /\ SomethingLeft
  /\ ClosedWhenDone
  /\ pc = "done" => DOMAIN length_monitor = {}
  /\ Size >= 1 => NeverBackOfEmptyList

(* The invariant holds before the first pass.                              *)
LEMMA DownloadInvInit == Init => DownloadInv
<1> SUFFICES ASSUME Init PROVE DownloadInv
  OBVIOUS
<1>1. ControllerInv /\ InsideFile /\ OneByteIdle
  BY InitInv, InitInside, InitOneByte DEF Init
<1>2. LoopTypeOK /\ Covered
  BY InitTyped, InitCovered
<1>3. Tracked
  BY DEF Init, ControllerInit, Tracked, AliveTracked, TrackedExist, Registered,
         Null, Alive, Setup
<1>4. SomethingLeft /\ ClosedWhenDone /\ NeverBackOfEmptyList /\ pc # "done"
  BY DEF Init, ControllerInit, SomethingLeft, ClosedWhenDone,
     NeverBackOfEmptyList
<1>5. QED
  BY <1>1, <1>2, <1>3, <1>4 DEF DownloadInv

(* Every step of the loop, of a worker and of a server keeps it.           *)
LEMMA DownloadInvStep == DownloadInv /\ [Next]_vars => DownloadInv'
<1> SUFFICES ASSUME DownloadInv, [Next]_vars PROVE DownloadInv'
  OBVIOUS
<1> USE DEF DownloadInv
<1>1. ControllerInv' /\ InsideFile' /\ OneByteIdle'
  BY StepOfController, NextKeepsInv, StepInside, StepOneByte
<1>2. LoopTypeOK'
  BY RestTyped, WorkersTyped DEF LoopTypeOK
<1>3. Tracked' /\ Covered'
  BY StepTracked, StepCovered
<1>4. SomethingLeft'
  BY <1>1, StepSomethingLeft
<1>5. ClosedWhenDone'
  <2>1. CASE pc' # "done"
    BY <2>1 DEF ClosedWhenDone
  <2>2. CASE pc = "done" /\ UNCHANGED vars
    BY <2>2 DEF ClosedWhenDone, Registered, vars
  <2>3. CASE DOMAIN node_finder = {} /\ UNCHANGED workers
    BY <2>3 DEF ClosedWhenDone, Tracked, AliveTracked, Registered
  <2>4. QED
    BY <2>1, <2>2, <2>3, Ending
<1>6. Size >= 1 => NeverBackOfEmptyList'
  BY Ending DEF NeverBackOfEmptyList, SomethingLeft
<1>7. pc' = "done" => DOMAIN length_monitor' = {}
  BY Ending DEF vars, controllerVars
<1>8. QED
  BY <1>1, <1>2, <1>3, <1>4, <1>5, <1>6, <1>7

(* The inductive invariant of Download.                                    *)
LEMMA DownloadInvariant == Spec => []DownloadInv
<1>1. Init => DownloadInv
  BY DownloadInvInit
<1>2. DownloadInv /\ [Next]_vars => DownloadInv'
  BY DownloadInvStep
<1>3. QED
  BY <1>1, <1>2, PTL DEF Spec

(* The types of the loop (cld.cpp:205): slots hold workers in one of the   *)
(* six states, and no more faults have happened than may.                  *)
THEOREM LoopTypeCorrect == Spec => []TypeOK
<1>1. DownloadInv => TypeOK
  BY DEF DownloadInv, LoopTypeOK, ControllerInv, TypeOK
<1>2. QED
  BY <1>1, DownloadInvariant, PTL

(* The loop (cld.cpp:205) drives its controller as the controller expects: *)
(* every theorem about ControllerSpec is one about the program.            *)
THEOREM ControllerIsUsed == Spec => UsesController
<1>1. Init => ControllerInit
  BY DEF Init
<1>2. DownloadInv /\ [Next]_vars => [ControllerNext]_controllerVars
  BY StepOfController DEF DownloadInv
<1>3. QED
  BY <1>1, <1>2, DownloadInvariant, PTL
     DEF Spec, UsesController, ControllerSpec

(* No byte but the last is ever forgotten: what is not in the file is in   *)
(* the books of the controller, so some worker will be sent for it.        *)
THEOREM CoveredCorrect == Spec => []Covered
<1>1. DownloadInv => Covered
  BY DEF DownloadInv
<1>2. QED
  BY <1>1, DownloadInvariant, PTL

(* afterRead() (length_controller.cpp:41) finds every worker that epoll    *)
(* can report.                                                             *)
THEOREM AliveTrackedCorrect == Spec => []AliveTracked
<1>1. DownloadInv => AliveTracked
  BY DEF DownloadInv, Tracked
<1>2. QED
  BY <1>1, DownloadInvariant, PTL

(* The keys of node_finder are the addresses of objects that exist.        *)
THEOREM TrackedExistCorrect == Spec => []TrackedExist
<1>1. DownloadInv => TrackedExist
  BY DEF DownloadInv, Tracked
<1>2. QED
  BY <1>1, DownloadInvariant, PTL

(* next() (length_controller.cpp:11) never takes the back of an empty      *)
(* list, unless the file is empty.                                         *)
THEOREM BackCorrect ==
  ASSUME Size >= 1
  PROVE  Spec => []NeverBackOfEmptyList
<1>1. DownloadInv => NeverBackOfEmptyList
  BY DEF DownloadInv
<1>2. QED
  BY <1>1, DownloadInvariant, PTL

(* The loop is not left through finished() with a connection open.         *)
THEOREM ClosedCorrect == Spec => []ClosedWhenDone
<1>1. DownloadInv => ClosedWhenDone
  BY DEF DownloadInv
<1>2. QED
  BY <1>1, DownloadInvariant, PTL

(* finished() (length_controller.cpp:73) never throws "Bad bound in length *)
(* controller" at the loop: when the list is empty, so is the map.         *)
THEOREM FinishedNeverThrows == Spec => [][Tick => pc' # "terminated"]_vars
<1>1. DownloadInv /\ [Next]_vars => [Tick => pc' # "terminated"]_vars
  <2> SUFFICES ASSUME DownloadInv, Tick PROVE pc' # "terminated"
    OBVIOUS
  <2>1. DOMAIN length_monitor = {} => DOMAIN node_finder = {}
    BY DEF DownloadInv, ControllerInv, ControllerTypeOK
  <2>2. QED
    BY <2>1 DEF Tick, Finished
<1>2. QED
  BY <1>1, DownloadInvariant, PTL DEF Spec

(* Of a file that is not empty, the loop breaks down only in the step in   *)
(* which a stream throws: afterRead() (length_controller.cpp:42) finds its *)
(* worker in every other step, finished() does not throw, and next() finds *)
(* a list that is not empty, whatever has been refused, cut short, torn or *)
(* stalled before.                                                         *)
THEOREM BreaksOnlyByFaults ==
  ASSUME Size >= 1
  PROVE  Spec => OnlyFaultsEnd
<1> DEFINE Breaks == pc' # pc /\ pc' \in {"terminated", "undefined"}
<1>1. ASSUME DownloadInv, [Next]_vars, Breaks
      PROVE  faults' > faults
  <2>1. faults \in Nat
    BY <1>1, MaxFaultsAssumption DEF DownloadInv, LoopTypeOK
  <2>2. pc' = "terminated"
    BY <1>1, Ending DEF DownloadInv, SomethingLeft
  <2>3. CASE Tick
    <3>1. DOMAIN length_monitor = {} => DOMAIN node_finder = {}
      BY <1>1 DEF DownloadInv, ControllerInv, ControllerTypeOK
    <3>2. QED
      BY <2>2, <2>3, <3>1 DEF Tick, Finished
  <2>4. CASE \E w \in Workers, offset \in Offsets : ProcessBody(w, offset)
    BY <1>1, <2>4, BodyIsRead DEF DownloadInv
  <2>5. CASE \E w \in Workers :
               \/ CreateThrows(w)
               \/ \E offset \in Offsets : ProcessBodyThrows(w, offset)
    BY <2>1, <2>5 DEF CreateThrows, ProcessBodyThrows, Fault
  <2>6. QED
    BY <1>1, <2>2, <2>3, <2>4, <2>5 DEF Next, vars, CleanStopped, KeepRunning,
       LeaveEmpty, CreateWorker, ProcessSetup, ProcessHeader,
       ProcessTornHeader, ProcessRefused, ProcessThrows, ServerCloses,
       ServerStalls, EpollWait, Ended
<1>2. DownloadInv /\ [Next]_vars => [Breaks => faults' > faults]_vars
  BY <1>1
<1>3. QED
  BY <1>2, DownloadInvariant, PTL DEF Spec, OnlyFaultsEnd

-----------------------------------------------------------------------------
(* The download implements its promise.                                    *)

Fetched == {b \in Bytes : file[b] # "hole"}

Status == CASE pc = "done" -> "done"
            [] pc \in {"terminated", "undefined"} -> "failed"
            [] OTHER -> "running"

(* Nothing happens after the end, and nothing fetched is lost.             *)
LEMMA StepFetches ==
  ASSUME ControllerTypeOK, LoopTypeOK, [Next]_vars, ~ UNCHANGED vars
  PROVE  /\ pc \in {"manage", "events"}
         /\ Fetched \subseteq Fetched'
<1>1. pc \in {"manage", "events"}
  BY DEF Next, CleanStopped, KeepRunning, LeaveEmpty, CreateWorker,
     CreateThrows, ProcessSetup, ProcessHeader, ProcessTornHeader,
     ProcessRefused, ProcessThrows, ProcessBody, ProcessBodyThrows,
     ServerCloses, ServerStalls, EpollWait, Tick, Ended, Managing, Handling
<1>2. ASSUME NEW w \in Workers, NEW offset \in Offsets,
             ProcessBody(w, offset) \/ ProcessBodyThrows(w, offset)
      PROVE  Fetched \subseteq Fetched'
  <2>1. PICK lost, cut : WriteFile(w, offset, lost, cut)
    BY <1>2, BodyHeard
  <2>2. QED
    BY <2>1, FetchedStays DEF Fetched
<1>3. ASSUME UNCHANGED file
      PROVE  Fetched \subseteq Fetched'
  BY <1>3 DEF Fetched
<1>4. QED
  BY <1>1, <1>2, <1>3
     DEF Next, vars, CleanStopped, KeepRunning, LeaveEmpty, CreateWorker,
         CreateThrows, ProcessSetup, ProcessHeader, ProcessTornHeader,
         ProcessRefused, ProcessThrows, ServerCloses, ServerStalls, EpollWait,
         Tick, Ended

(* A step of the loop is one of RangeDownload, or leaves it alone.         *)
LEMMA StepKeepsPromise ==
  ASSUME DownloadInv, [Next]_vars
  PROVE  [Promise!Next]_(Promise!abstractVars)
<1>1. ControllerTypeOK /\ LoopTypeOK /\ LoopTypeOK'
  BY DownloadInvStep DEF DownloadInv, ControllerInv
<1>2. CASE UNCHANGED vars
  BY <1>2 DEF vars, Promise!abstractVars
<1>3. CASE ~ UNCHANGED vars /\ pc' # "done"
  <2>1. Status = "running" /\ Status' \in {"running", "failed"}
    BY <1>1, <1>3, StepFetches DEF LoopTypeOK, Status
  <2>2. Fetched \subseteq Fetched' /\ Fetched' \subseteq Bytes
    BY <1>1, <1>3, StepFetches DEF Fetched
  <2>3. Promise!Fetch
    BY <2>1, <2>2 DEF Promise!Fetch, Fetched, Status
  <2>4. QED
    BY <2>3 DEF Promise!Next
<1>4. CASE ~ UNCHANGED vars /\ pc' = "done"
  <2>1. /\ pc = "events"
        /\ DOMAIN length_monitor = {}
        /\ UNCHANGED file
    BY <1>4, Ending
  <2>2. 0 .. Size - 2 \subseteq Fetched
    BY <2>1 DEF DownloadInv, Covered, Owed, Fetched, Bytes
  <2>3. Status = "running" /\ Status' = "done" /\ Fetched' = Fetched
    BY <1>4, <2>1 DEF Status, Fetched
  <2>4. Promise!Finish
    BY <2>2, <2>3 DEF Promise!Finish, Fetched, Status
  <2>5. QED
    BY <2>4 DEF Promise!Next
<1>5. QED
  BY <1>2, <1>3, <1>4

(* MultiConnectionDownload (cld.cpp:205) implements RangeDownload for all  *)
(* bytes but the last, whatever fails: what is fetched stays, and success  *)
(* is reported only when nothing is missing.                               *)
THEOREM PromiseKept == Spec => KeepsPromise
<1>1. Init => Promise!Init
  BY DEF Init, Promise!Init
<1>2. DownloadInv /\ [Next]_vars => [Promise!Next]_(Promise!abstractVars)
  BY StepKeepsPromise
<1>3. QED
  BY <1>1, <1>2, DownloadInvariant, PTL DEF Spec, KeepsPromise, Promise!Spec

-----------------------------------------------------------------------------
(* What is in the file.                                                    *)

(* Honest servers: every worker that lives has come as far in the resource *)
(* as in the file.                                                         *)
NothingWrong ==
  honest => /\ \A w \in Registered : workers[w].source = file_offset[w]
            /\ \A b \in Bytes : file[b] # "wrong"

(* Once a body has been wrong, honest is FALSE for good.                   *)
LEMMA HonestBefore ==
  ASSUME LoopTypeOK, [Next]_vars, honest'
  PROVE  honest
BY BodyKeeps
   DEF LoopTypeOK, Next, vars, CleanStopped, KeepRunning, LeaveEmpty,
       CreateWorker, CreateThrows, ProcessSetup, ProcessHeader,
       ProcessTornHeader, ProcessRefused, ProcessThrows, ServerCloses,
       ServerStalls, EpollWait, Tick, Ended

(* Servers that answer a range with that range keep every worker on the    *)
(* right bytes: it asks for those it will write, its offset moves by what  *)
(* has been written, and no other worker moves it.                         *)
LEMMA StepNothingWrong ==
  ASSUME RangeSupport, ControllerInv, InsideFile, LoopTypeOK, Tracked,
         NothingWrong, [Next]_vars
  PROVE  NothingWrong'
<1> SUFFICES ASSUME honest'
             PROVE  /\ \A v \in Registered' : workers'[v].source = file_offset'[v]
                    /\ \A b \in Bytes : file'[b] # "wrong"
  BY DEF NothingWrong
<1>1. /\ \A v \in Registered : workers[v].source = file_offset[v]
      /\ \A b \in Bytes : file[b] # "wrong"
  BY HonestBefore DEF NothingWrong
<1>2. file_offset \in [Workers -> Int] /\ workers \in [Workers -> Worker]
  BY DEF ControllerInv, ControllerTypeOK, LoopTypeOK
<1>3. ASSUME NEW w \in Workers,
             \A v \in Workers \ {w} : /\ workers'[v] = workers[v]
                                      /\ file_offset'[v] = file_offset[v],
             workers'[w].state \in Alive => workers'[w].source = file_offset'[w]
      PROVE  \A v \in Registered' : workers'[v].source = file_offset'[v]
  BY <1>1, <1>3 DEF Registered
<1>4. ASSUME NEW w \in Workers,
             CleanStopped(w) \/ ProcessRefused(w) \/ ProcessThrows(w)
      PROVE  \A v \in Registered' : workers'[v].source = file_offset'[v]
  <2>1. workers'[w].state \in {"Null", "Stopped"}
    <3>1. CASE CleanStopped(w)
      BY <1>2, <3>1 DEF CleanStopped, Null
    <3>2. CASE ProcessRefused(w) \/ ProcessThrows(w)
      <4>1. workers' = [workers EXCEPT ![w].state = "Stopped"]
        BY <3>2 DEF ProcessRefused, ProcessThrows
      <4>2. workers'[w].state = "Stopped"
        BY <1>2, <4>1 DEF Worker
      <4>3. QED
        BY <4>2
    <3>3. QED
      BY <1>4, <3>1, <3>2
  <2>2. \A v \in Workers \ {w} : /\ workers'[v] = workers[v]
                                 /\ file_offset'[v] = file_offset[v]
    BY <1>2, <1>4
       DEF CleanStopped, ProcessRefused, ProcessThrows, controllerVars
  <2>3. QED
    BY <1>3, <2>1, <2>2 DEF Alive, Setup
<1>5. ASSUME NEW w \in Workers, CreateWorker(w)
      PROVE  \A v \in Registered' : workers'[v].source = file_offset'[v]
  <2>1. PICK n \in CanBeBack :
          /\ workers' = [workers EXCEPT ![w] = Connecting(NextRange(n))]
          /\ file_offset' = [file_offset EXCEPT ![w] = NextRange(n).begin]
    BY <1>5 DEF CreateWorker, Spawn
  <2>2. workers'[w] = Connecting(NextRange(n)) /\ file_offset'[w] = NextRange(n).begin
    BY <1>2, <2>1
  <2>3. workers'[w].source = file_offset'[w]
    BY <2>2 DEF Connecting
  <2>4. \A v \in Workers \ {w} : /\ workers'[v] = workers[v]
                                 /\ file_offset'[v] = file_offset[v]
    BY <1>2, <2>1
  <2>5. QED
    BY <1>3, <2>3, <2>4
<1>6. ASSUME NEW w \in Workers, ProcessHeader(w) \/ ProcessTornHeader(w)
      PROVE  \A v \in Registered' : workers'[v].source = file_offset'[v]
  <2>1. PICK x \in Worker : /\ workers' = [workers EXCEPT ![w] = x]
                            /\ x.source = workers[w].source
    BY <1>6, HeaderHeard DEF ControllerInv
  <2>2. UNCHANGED file_offset /\ w \in Registered
    BY <1>6
       DEF ProcessHeader, ProcessTornHeader, controllerVars, Registered, Alive
  <2>3. QED
    BY <1>1, <1>2, <1>3, <2>1, <2>2
<1>7. ASSUME NEW w \in Workers,
             ProcessSetup(w) \/ ServerCloses(w) \/ ServerStalls(w)
      PROVE  \A v \in Registered' : workers'[v].source = file_offset'[v]
  <2>1. /\ workers'[w].source = workers[w].source
        /\ \A v \in Workers \ {w} : workers'[v] = workers[v]
    <3>1. CASE ProcessSetup(w)
      BY <1>2, <3>1 DEF Worker, ProcessSetup
    <3>2. CASE ServerCloses(w)
      BY <1>2, <3>2 DEF Worker, ServerCloses
    <3>3. CASE ServerStalls(w)
      BY <1>2, <3>3 DEF Worker, ServerStalls
    <3>4. QED
      BY <1>7, <3>1, <3>2, <3>3
  <2>2. workers'[w].state \in Alive => workers[w].state \in Alive
    <3>1. CASE ServerStalls(w)
      BY <1>2, <3>1 DEF Worker, ServerStalls
    <3>2. CASE ProcessSetup(w) \/ ServerCloses(w)
      BY <3>2 DEF ProcessSetup, ServerCloses, Alive, Setup
    <3>3. QED
      BY <1>7, <3>1, <3>2
  <2>3. UNCHANGED file_offset
    BY <1>7 DEF ProcessSetup, ServerCloses, ServerStalls, controllerVars
  <2>4. QED
    BY <1>1, <1>3, <2>1, <2>2, <2>3 DEF Registered
<1>8. ASSUME NEW w \in Workers, NEW offset \in Offsets,
             ProcessBody(w, offset) \/ ProcessBodyThrows(w, offset)
      PROVE  /\ \A v \in Registered' : workers'[v].source = file_offset'[v]
             /\ \A b \in Bytes : file'[b] # "wrong"
  <2>1. /\ workers[w].source = file_offset[w]
        /\ file_offset' = [file_offset EXCEPT ![w] = offset]
        /\ offset \in Int
    <3>1. workers[w].state = "ReceivingBody"
      BY <1>8 DEF ProcessBody, ProcessBodyThrows
    <3>2. w \in Registered
      BY <3>1 DEF Registered, Alive
    <3>3. file_offset' = [file_offset EXCEPT ![w] = offset]
      BY <1>8 DEF ProcessBody, WriteAndReport, ProcessBodyThrows, Stop
    <3>4. QED
      BY <1>1, <3>2, <3>3 DEF Offsets
  <2>2. PICK s \in {"ReceivingBody", "Stopped"}, cut \in Int :
          /\ workers' = [workers EXCEPT ![w] =
                           [Written(w, offset, 0) EXCEPT !.state = s]]
          /\ WriteFile(w, offset, 0, cut)
    BY <1>8, BodyHeard DEF ControllerInv
  <2>3. [Written(w, offset, 0) EXCEPT !.state = s].source = offset
    <3>1. workers[w] \in Worker /\ file_offset[w] \in Int
      BY <1>2
    <3>2. file_offset[w] + (offset - file_offset[w]) + 0 = offset
      BY <2>1, <3>1
    <3>3. QED
      BY <2>1, <3>1, <3>2 DEF Written, Worker
  <2>4. workers'[w].source = file_offset'[w]
    BY <1>2, <2>1, <2>2, <2>3
  <2>5. \A v \in Workers \ {w} : /\ workers'[v] = workers[v]
                                 /\ file_offset'[v] = file_offset[v]
    BY <1>2, <2>1, <2>2
  <2>6. \A b \in Bytes : file'[b] # "wrong"
    <3>1. file_offset[w] + 0 = file_offset[w]
      BY <1>2
    <3>2. QED
      BY <1>1, <2>1, <2>2, <3>1 DEF WriteFile
  <2>7. QED
    BY <1>3, <2>4, <2>5, <2>6
<1>9. ASSUME UNCHANGED <<workers, file_offset>>
      PROVE  \A v \in Registered' : workers'[v].source = file_offset'[v]
  BY <1>1, <1>9 DEF Registered
<1>10. ASSUME UNCHANGED file
       PROVE  \A b \in Bytes : file'[b] # "wrong"
  BY <1>1, <1>10
<1>11. QED
  BY <1>4, <1>5, <1>6, <1>7, <1>8, <1>9, <1>10
     DEF Next, vars, controllerVars, CleanStopped, KeepRunning, LeaveEmpty,
         CreateWorker, CreateThrows, ProcessSetup, ProcessHeader,
         ProcessTornHeader, ProcessRefused, ProcessThrows, ServerCloses,
         ServerStalls, EpollWait, Tick, Ended

(* When the loop (cld.cpp:205) is done, and every body it has read was the *)
(* range it had asked for and written as a whole, the file holds the right *)
(* byte at every place, the last one excepted: fragments are split,        *)
(* overrun, left and taken over without a byte being missed or misplaced.  *)
THEOREM RightCorrect ==
  ASSUME RangeSupport
  PROVE  Spec => []RightWhenDone
<1>1. Init => NothingWrong
  BY DEF Init, NothingWrong, Registered, Null, Alive, Setup
<1>2. NothingWrong /\ DownloadInv /\ [Next]_vars => NothingWrong'
  BY StepNothingWrong DEF DownloadInv
<1>3. NothingWrong /\ DownloadInv => RightWhenDone
  <2> SUFFICES ASSUME NothingWrong, DownloadInv, honest, pc = "done",
                      NEW b \in Bytes
               PROVE  file[b] = "right" \/ (b = Size - 1 /\ file[b] = "hole")
    BY DEF RightWhenDone
  <2>1. file[b] \in {"right", "hole"}
    BY DEF NothingWrong, DownloadInv, LoopTypeOK
  <2>2. b \in 0 .. Size - 2 \/ b = Size - 1
    BY DEF Bytes
  <2>3. b \notin Owed
    BY DEF DownloadInv, Owed
  <2>4. QED
    BY <2>1, <2>2, <2>3 DEF DownloadInv, Covered
<1>4. QED
  BY <1>1, <1>2, <1>3, DownloadInvariant, PTL DEF Spec

=============================================================================
