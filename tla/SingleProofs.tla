------------------------------ MODULE SingleProofs ------------------------------
(***************************************************************************)
(* Proofs about SingleDownload, for any answer and any pieces of it.       *)
(***************************************************************************)
EXTENDS SingleDownload, WorkerProofs

-----------------------------------------------------------------------------
(***************************************************************************)
(* The loop drives a Worker: what is proved of that holds here.            *)
(***************************************************************************)

(* The loop with one worker does with it what Worker allows and nothing    *)
(* else (cld.cpp:178): all that holds of a worker holds of this one.       *)
THEOREM WorkerIsDriven == SingleSpec => Spec
<1>1. SingleInit => Init
  BY DEF SingleInit
<1>2. [SingleNext]_singleVars => [Next]_vars
  BY DEF SingleNext, singleVars, Wait, Handle, Leave, Next
<1>3. QED
  BY <1>1, <1>2, PTL DEF SingleSpec, Spec

(* It never stops the worker. *)
NeverForced == at # "forced"

(* This loop never forces its worker to stop.                              *)
LEMMA NeverForcedStep ==
  ASSUME WorkerInv, NeverForced, [SingleNext]_singleVars
  PROVE  NeverForced'
<1> USE DEF NeverForced
<1>1. CASE Wait
  BY <1>1, EventEnters DEF Wait
<1>2. CASE Handle
  <2>1. CASE \/ ConnectContinues \/ Connected \/ ConnectFails \/ Send
             \/ ScanNothing \/ ScanByte \/ LfNotThere
    BY <2>1 DEF ConnectContinues, Connected, ConnectFails, Send, ScanNothing,
                ScanByte, LfNotThere, Return
  <2>2. CASE NoLfFollows \/ HeaderComplete \/ HeaderInvalid
    BY <2>2 DEF NoLfFollows, HeaderComplete, HeaderInvalid, Throw, Return
  <2>3. CASE \/ ReadBuffer \/ BodyRead \/ BodyAgain \/ BodyThrows \/ WriteFile
             \/ WriteThrows \/ StreamThrows
    BY <2>3 DEF ReadBuffer, BodyRead, BodyAgain, BodyThrows, WriteFile,
                WriteThrows, StreamThrows, Throw, Return, workerVars
  <2>4. QED
    BY <1>2, <2>1, <2>2, <2>3 DEF Handle, Process
<1>3. CASE Leave \/ Network \/ UNCHANGED singleVars
  BY <1>3 DEF Leave, Network, singleVars, vars, workerVars
<1>4. QED
  BY <1>1, <1>2, <1>3 DEF SingleNext

(* The disk takes all it is given. *)
NeverShort == ~short

(* A disk without faults takes all of every write.                         *)
LEMMA NeverShortStep ==
  ASSUME WorkerInv, "disk" \notin Faults, NeverShort, [SingleNext]_singleVars
  PROVE  NeverShort'
<1> USE DEF NeverShort
<1>1. CASE WriteFile
  <2>1. PICK n \in 0 .. Len(valid) :
          (n < Len(valid) => "disk" \in Faults) /\ short' = (short \/ n < Len(valid))
    BY <1>1, WriteStep
  <2>2. ~(n < Len(valid))
    BY <2>1
  <2>3. QED
    BY <2>1, <2>2, Zenon
<1>2. CASE ~WriteFile
  BY <1>2 DEF SingleNext, Wait, Event, Handle, Process, ConnectContinues,
    Connected, ConnectFails, Send, ScanNothing, ScanByte, LfNotThere,
    NoLfFollows, HeaderComplete, HeaderInvalid, ReadBuffer, BodyRead, BodyAgain,
    BodyThrows, WriteThrows, StreamThrows, Throw, Leave, Network,
    singleVars, vars, workerVars
<1>3. QED
  BY <1>1, <1>2

(* The end of the header is in one piece, whichever way the answer is cut. *)
HeaderWhole == \A f \in Framings : \A c \in Cuttings[f] : HeadLength - 1 \notin c

SingleInv == FileInv /\ CompleteWhenStopped /\ NeverForced /\ NeverShort

(* What holds of a worker in this loop with a disk without faults.         *)
LEMMA SingleInvariant ==
  ASSUME "disk" \notin Faults
  PROVE  SingleSpec => []SingleInv
<1>1. SingleInit => NeverForced /\ NeverShort
  BY DEF SingleInit, Init, NeverForced, NeverShort
<1>2. WorkerInv /\ NeverForced /\ NeverShort /\ [SingleNext]_singleVars
        => NeverForced' /\ NeverShort'
  BY NeverForcedStep, NeverShortStep
<1>3. FileInv => WorkerInv
  BY DEF FileInv
<1>4. QED
  BY <1>1, <1>2, <1>3, WorkerIsDriven, FileInvariant, CompleteCorrect, PTL
     DEF SingleSpec, SingleInv

-----------------------------------------------------------------------------
(***************************************************************************)
(* The promise.                                                            *)
(***************************************************************************)

Fetched ==
  {b \in 0 .. BodyLength - 1 : b < Len(file) /\ file[b + 1] = Payload[b + 1]}

Status ==
  CASE loop = "finished"   -> "done"
    [] loop = "terminated" -> "failed"
    [] OTHER               -> "running"

(* The answer stays the same, and only WriteFile changes the file. *)
LEMMA AnswerKept ==
  ASSUME WorkerInv, [Next]_vars
  PROVE  framing' = framing /\ (~WriteFile => file' = file)
<1>1. CASE BodyRead
  BY <1>1, BufferReadStep
  DEF BodyRead, BufferRead, NoLengthRead, FixLengthRead, ChunkedCall,
      ChunkedHead, ChunkedLf, ChunkedData, workerVars
<1>2. CASE \/ Event \/ ConnectContinues \/ Connected \/ ConnectFails \/ Send
           \/ ScanNothing \/ LfNotThere \/ ReadBuffer \/ BodyAgain
           \/ BodyThrows \/ WriteFile \/ WriteThrows \/ StreamThrows \/ ForceStop
           \/ Network \/ UNCHANGED vars
  BY <1>2 DEF Event, ConnectContinues, Connected, ConnectFails, Send, ScanNothing,
    LfNotThere, ReadBuffer, BodyAgain, BodyThrows, WriteFile, WriteThrows,
    StreamThrows, Throw, ForceStop, Network, Arrive, ServerCloses, vars,
    workerVars, streamVars
<1>3. CASE ScanByte \/ NoLfFollows \/ HeaderComplete \/ HeaderInvalid
  BY <1>3 DEF ScanByte, NoLfFollows, HeaderComplete, HeaderInvalid, Throw, Get,
              streamVars
<1>4. QED
  BY <1>1, <1>2, <1>3 DEF Next, Process

(* The file only grows. *)
LEMMA FetchedGrows ==
  ASSUME WorkerInv, [Next]_vars, framing # "chunked"
  PROVE  Fetched \subseteq Fetched' /\ (file' = file => Fetched' = Fetched)
<1>1. Payload' = Payload
  <2>1. framing' = framing /\ Wire' = Wire
    BY AnswerKept DEF Wire
  <2>2. Payload =
          SubSeq([i \in 1 .. Len(Wire) - HeadLength |-> HeadLength + i], 1, BodyLength)
    BY DEF Payload
  <2>3. Payload' =
          SubSeq([i \in 1 .. Len(Wire') - HeadLength |-> HeadLength + i], 1, BodyLength)
    BY <2>1 DEF Payload
  <2>4. QED
    BY <2>1, <2>2, <2>3
<1>2. file' = file => Fetched' = Fetched
  BY <1>1 DEF Fetched
<1>3. CASE WriteFile
  <2>1. PICK n \in 0 .. Len(valid) :
          /\ Len(file') = Len(file) + n
          /\ \A i \in 1 .. Len(file) : file'[i] = file[i]
    BY <1>3, WriteStep
  <2>2. ASSUME NEW b \in Fetched PROVE b \in Fetched'
    <3>1. b \in 0 .. BodyLength - 1 /\ b < Len(file) /\ file[b + 1] = Payload[b + 1]
      BY DEF Fetched
    <3>2. b \in Nat /\ b + 1 \in 1 .. Len(file) /\ b < Len(file')
      BY <2>1, <3>1, Numbers
    <3>3. file'[b + 1] = Payload'[b + 1]
      BY <1>1, <2>1, <3>1, <3>2
    <3>4. QED
      BY <3>1, <3>2, <3>3 DEF Fetched
  <2>3. QED
    BY <1>2, <2>2
<1>4. CASE ~WriteFile
  BY <1>2, <1>4, AnswerKept
<1>5. QED
  BY <1>3, <1>4

(* A worker of this loop that has stopped by itself has put the body in    *)
(* the file, byte by byte and with nothing more.                           *)
LEMMA AllThere ==
  ASSUME SingleInv, HeaderWhole, at = "stopped", framing # "chunked",
         ~(framing = "close" /\ CutShort)
  PROVE  file = Payload /\ 0 .. BodyLength - 1 \subseteq Fetched
<1> USE DEF SingleInv, FileInv, WorkerInv
<1>1. framing \in Framings /\ pieces \in Cuttings[framing] /\ BreakWhole /\ ~short
  BY DEF StreamInv, StreamTypeOK, HeaderWhole, BreakWhole, NeverShort
<1>2. arrived = Len(Wire) \/ framing = "length"
  <2>1. CASE framing = "close"
    <3>1. closed
      BY <2>1 DEF Places, Finished, EndFound
    <3>2. ~(arrived < Len(Wire)) /\ arrived \in Nat /\ arrived <= Len(Wire)
      BY <2>1, <3>1, Positive, WireLength DEF CutShort, StreamInv, StreamTypeOK
    <3>3. Len(Wire) \in Nat
      BY <1>1, WireLength
    <3>4. QED
      BY <3>2, <3>3
  <2>2. QED
    BY <2>1, Numbers
<1>3. file = Payload
  BY <1>1, <1>2 DEF CompleteWhenStopped, HasWhole
<1>4. Len(file) = BodyLength
  BY <1>1, <1>3, PlainPayload
<1>5. QED
  BY <1>3, <1>4, Numbers DEF Fetched

(* A step of the loop is one of RangeDownload, leaves it alone, or is one  *)
(* of the three SingleKeepsPromise excepts.                                *)
LEMMA StepKeepsPromise ==
  ASSUME SingleInv, HeaderWhole, [SingleNext]_singleVars
  PROVE  [\/ Promise!Next
          \/ at' = "refused"
          \/ framing = "chunked"
          \/ framing = "close" /\ CutShort]_(Promise!abstractVars)
<1> SUFFICES ASSUME at' # "refused", framing # "chunked",
                    ~(framing = "close" /\ CutShort)
             PROVE  Promise!Next \/ UNCHANGED <<Fetched, Status>>
  BY DEF Promise!abstractVars, Fetched, Status
<1>1. WorkerInv /\ [Next]_vars
  BY DEF SingleInv, FileInv, SingleNext, singleVars, Wait, Handle, Leave, Next
<1>2. Fetched \subseteq Fetched' /\ (file' = file => Fetched' = Fetched)
      /\ Fetched' \subseteq 0 .. BodyLength - 1
  BY <1>1, FetchedGrows DEF Fetched
<1>3. CASE Wait \/ (Network /\ UNCHANGED loop) \/ UNCHANGED singleVars
  BY <1>2, <1>3 DEF Wait, Event, Network, workerVars, singleVars, vars, Status
<1>4. CASE Handle
  <2>1. Status = "running" /\ Status' = "running"
    BY <1>4 DEF Handle, Status
  <2>2. Promise!Fetch
    BY <1>2, <2>1 DEF Promise!Fetch, Fetched, Status
  <2>3. QED
    BY <2>2 DEF Promise!Next
<1>5. CASE Leave
  <2>1. /\ Status = "running" /\ at \in {"stopped", "thrown"} /\ file' = file
        /\ at = "thrown" => Status' = "failed"
        /\ at = "stopped" => Status' = "done"
    BY <1>5 DEF Leave, Status, Ends, vars, workerVars, SingleInv, NeverForced
  <2>2. CASE at = "thrown"
    <3>1. Promise!Fetch
      BY <1>2, <2>1, <2>2 DEF Promise!Fetch, Fetched, Status
    <3>2. QED
      BY <3>1 DEF Promise!Next
  <2>3. CASE at = "stopped"
    <3>1. Promise!Finish
      BY <1>2, <2>1, <2>3, AllThere DEF Promise!Finish, Fetched, Status
    <3>2. QED
      BY <3>1 DEF Promise!Next
  <2>4. QED
    BY <2>1, <2>2, <2>3
<1>6. QED
  BY <1>3, <1>4, <1>5 DEF SingleNext

(* The loop implements RangeDownload (cld.cpp:167): it reports success     *)
(* only with the whole body in the file, and never takes an exception for  *)
(* the end, whatever the lengths and the pieces.  The two hypotheses are   *)
(* those without which it does not: MCWorkerSplitCrLf and                  *)
(* MCSingleShortWrite.                                                     *)
THEOREM SinglePromiseKept ==
  ASSUME HeaderWhole, "disk" \notin Faults
  PROVE  SingleSpec => SingleKeepsPromise
<1>1. SingleInit => Promise!Init
  <2> SUFFICES ASSUME SingleInit PROVE Promise!Init
    OBVIOUS
  <2>1. file = <<>> /\ loop = "wait" /\ Len(<<>>) = 0
    BY DEF SingleInit, Init
  <2>2. Fetched = {} /\ Status = "running"
    BY <2>1 DEF Fetched, Status
  <2>3. QED
    BY <2>2 DEF Promise!Init, Fetched, Status
<1>2. SingleInv /\ [SingleNext]_singleVars =>
        [\/ Promise!Next
         \/ at' = "refused"
         \/ framing = "chunked"
         \/ framing = "close" /\ CutShort]_(Promise!abstractVars)
  BY StepKeepsPromise
<1>3. QED
  BY <1>1, <1>2, SingleInvariant, PTL DEF SingleSpec, SingleKeepsPromise

-----------------------------------------------------------------------------
(***************************************************************************)
(* "Finished", "File saved to".                                            *)
(***************************************************************************)

(* The loop is left for the end only by a worker that stopped by itself.   *)
LeftStopped ==
  /\ loop = "finished" => at = "stopped"
  /\ at # "refused"

LEMMA LeftStoppedStep ==
  ASSUME WorkerInv, NeverForced, "refused" \notin Faults, LeftStopped,
         [SingleNext]_singleVars
  PROVE  LeftStopped'
<1> USE DEF LeftStopped
<1>1. CASE Wait
  BY <1>1, EventEnters DEF Wait
<1>2. CASE Handle
  <2>1. loop' # "finished"
    BY <1>2 DEF Handle
  <2>2. at' # "refused"
    BY <1>2 DEF Handle, Process, ConnectContinues, Connected, ConnectFails, Send,
      ScanNothing, ScanByte, LfNotThere, NoLfFollows, HeaderComplete,
      HeaderInvalid, ReadBuffer, BodyRead, BodyAgain, BodyThrows, WriteFile,
      WriteThrows, StreamThrows, Throw, Return, workerVars
  <2>3. QED
    BY <2>1, <2>2
<1>3. CASE Leave
  BY <1>3 DEF Leave, Ends, vars, workerVars, NeverForced
<1>4. CASE (Network /\ UNCHANGED loop) \/ UNCHANGED singleVars
  BY <1>4 DEF Network, singleVars, vars, workerVars
<1>5. QED
  BY <1>1, <1>2, <1>3, <1>4 DEF SingleNext

(* What MCSingleRefused refutes holds of every other end (cld.cpp:152):    *)
(* unless the connection is refused, "File saved to" is said of a file     *)
(* that is the body exactly.  The other hypotheses are the subjects of     *)
(* MCWorkerSplitCrLf, MCSingleShortWrite and MCWorkerChunkedData, and the  *)
(* server must not cut short a body of unknown length.                     *)
THEOREM SavedCorrect ==
  ASSUME HeaderWhole, "disk" \notin Faults, "refused" \notin Faults,
         "chunked" \notin Framings
  PROVE  SingleSpec => [](~(framing = "close" /\ CutShort) => SavedWhenFinished)
<1>1. SingleInit => LeftStopped
  BY DEF SingleInit, Init, LeftStopped
<1>2. SingleInv => WorkerInv /\ NeverForced
  BY DEF SingleInv, FileInv
<1>3. WorkerInv /\ NeverForced /\ LeftStopped /\ [SingleNext]_singleVars
        => LeftStopped'
  BY LeftStoppedStep
<1>4. SingleInv /\ LeftStopped =>
        (~(framing = "close" /\ CutShort) => SavedWhenFinished)
  <2> SUFFICES ASSUME SingleInv, LeftStopped, loop = "finished",
                      ~(framing = "close" /\ CutShort)
               PROVE  file = Payload
    BY DEF SavedWhenFinished
  <2>1. at = "stopped"
    BY DEF LeftStopped
  <2>2. framing # "chunked"
    BY DEF SingleInv, FileInv, WorkerInv, StreamInv, StreamTypeOK
  <2>3. QED
    BY <2>1, <2>2, AllThere
<1>5. QED
  BY <1>1, <1>2, <1>3, <1>4, SingleInvariant, PTL DEF SingleSpec

=============================================================================
