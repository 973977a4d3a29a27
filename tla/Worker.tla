--------------------------------- MODULE Worker ---------------------------------
(***************************************************************************)
(* Worker (src/src/worker.cpp): one connection, from the request to the    *)
(* last byte of the body, driven by epoll events.  process() runs through  *)
(* as many states as the event and the stream allow, so it is a program of *)
(* its own here, one action for each call of the stream it makes; `at` is  *)
(* where it is.  The network may act between any two of them.              *)
(*                                                                         *)
(* is_receiving_body is the local of the download loop (src/src/cld.cpp:   *)
(* 245) that decides whether the LengthController hears of the call.       *)
(***************************************************************************)
EXTENDS HttpBuffer

CONSTANTS
  HeadLength,     (* The length of the header.                             *)
  ChunkSizes,     (* The positions of the sizes in a chunked body.         *)
  RequestLength,  (* The length of the request.                            *)
  Faults          (* Of "refused" (no connection), "reset" (the stream     *)
                  (* throws something else than kAgain), "invalid" (the    *)
                  (* header makes no sense), "disk" (a write() to the file *)
                  (* takes only a part, or throws).                        *)

ASSUME HeadLengthAssumption == \A f \in Framings : HeadLength \in 4 .. Len(Wires[f])
(* The header ends with its first empty line. *)
ASSUME HeaderAssumption ==
  \A f \in Framings :
    /\ Wires[f][HeadLength - 2] = "lf"
    /\ Wires[f][HeadLength - 1] = "cr"
    /\ Wires[f][HeadLength] = "lf"
    /\ \A i \in 2 .. HeadLength - 2 :
         ~(Wires[f][i - 1] = "lf" /\ Wires[f][i] = "cr")

(* A body whose end is that of the connection is the rest of the answer. *)
ASSUME BodyAssumption ==
  "close" \in Framings => Len(Wires["close"]) = HeadLength + BodyLength

(* A chunk is its size, between two line breaks, as many bytes and the     *)
(* line break before the next size; size 0 is the last, and with one more  *)
(* line break the answer ends.                                             *)
NextSize(p) == p + 5 + Digits[Wires["chunked"][p]]

ASSUME ChunksAssumption ==
  "chunked" \in Framings =>
    LET W == Wires["chunked"]
    IN  /\ HeadLength + 1 \in ChunkSizes
        /\ \A p \in ChunkSizes :
             /\ p \in HeadLength + 1 .. Len(W) - 4
             /\ W[p] \in DOMAIN Digits
             /\ W[p - 2] = "cr" /\ W[p - 1] = "lf"
             /\ W[p + 1] = "cr" /\ W[p + 2] = "lf"
             /\ IF W[p] = "0" THEN p = Len(W) - 4 ELSE NextSize(p) \in ChunkSizes

ASSUME RequestLengthAssumption == RequestLength \in Nat \ {0}
ASSUME FaultsAssumption == Faults \subseteq {"refused", "reset", "invalid", "disk"}

VARIABLES
  state,              (* The State of the worker.                          *)
  at,                 (* Where process() is, or how the worker has ended.  *)
  event,              (* The event process() was called with.              *)
  is_receiving_body,  (* Whether it was called in ReceivingBody.           *)
  request_data_sent,
  last_char,
  file,               (* The positions written, one per offset, from the   *)
                      (* offset the worker was created with.               *)
  short               (* Whether a write() to the file has been short: it  *)
                      (* decides nothing, the properties ask for it.       *)

workerVars == <<state, at, event, is_receiving_body, request_data_sent,
                last_char, file, short>>

vars == <<streamVars, bufferVars, workerVars>>

Ends == {"stopped", "refused", "thrown", "forced"}

Init ==
  /\ StreamInit
  /\ BufferInit
  /\ state = "Connecting"
  /\ at = "idle"
  /\ event = {}
  /\ is_receiving_body = FALSE
  /\ request_data_sent = 0
  /\ last_char = "nul"
  /\ file = <<>>
  /\ short = FALSE

(***************************************************************************)
(* Events.  What the worker has registered for follows its state.          *)
(***************************************************************************)

Interest ==
  CASE state = "Connecting" -> {"in", "out"}
    [] state = "Sending"    -> {"out"}
    [] OTHER                -> {"in"}

(* Where process() starts: a state whose event is missing is not entered. *)
Entry(ev) ==
  CASE state = "Connecting" -> "connect"
    [] state = "Sending" /\ "out" \in ev -> "send"
    [] state = "Receiving" /\ "in" \in ev -> "scan"
    [] state = "ReceivingBody" /\ "in" \in ev -> "body"

(* A socket can be written to at any time.  There is something to be read  *)
(* when the answer says so, and in the handshake of TLS before there is a  *)
(* request: such an event outlives the state it came for, and process()    *)
(* goes on in one call from connecting over sending to the answer.         *)
Events ==
  {"out"} \cup
  IF Readable \/ (state = "Connecting" /\ scheme = "https") THEN {"in"} ELSE {}

Event ==
  /\ at = "idle"
  /\ \E ev \in SUBSET (Interest \cap Events) :
       /\ ev # {}
       /\ event' = ev
       /\ at' = Entry(ev)
  /\ is_receiving_body' = (state = "ReceivingBody")
  /\ UNCHANGED <<streamVars, bufferVars, state, request_data_sent,
                 last_char, file, short>>

Return == at' = "idle"

(***************************************************************************)
(* process().                                                              *)
(***************************************************************************)

(* continueConnect() wants to be called again: the TLS handshake. *)
ConnectContinues ==
  /\ at = "connect"
  /\ scheme = "https"
  /\ Return
  /\ UNCHANGED <<streamVars, bufferVars, state, event, is_receiving_body,
                 request_data_sent, last_char, file, short>>

Connected ==
  /\ at = "connect"
  /\ state' = "Sending"
  /\ at' = IF "out" \in event THEN "send" ELSE "idle"
  /\ UNCHANGED <<streamVars, bufferVars, event, is_receiving_body,
                 request_data_sent, last_char, file, short>>

(* continueConnect() throws: caught at once, and the worker cleans up. *)
ConnectFails ==
  /\ at = "connect"
  /\ "refused" \in Faults
  /\ state' = "Stopped"
  /\ at' = "refused"
  /\ UNCHANGED <<streamVars, bufferVars, event, is_receiving_body,
                 request_data_sent, last_char, file, short>>

(* Mutant: every write() is offered the whole request. *)
SendWhole ==
  /\ at = "send"
  /\ \E n \in 1 .. RequestLength : request_data_sent' = request_data_sent + n
  /\ IF request_data_sent' = RequestLength
       THEN /\ state' = "Receiving"
            /\ at' = IF "in" \in event THEN "scan" ELSE "idle"
       ELSE /\ Return
            /\ UNCHANGED state
  /\ UNCHANGED <<streamVars, bufferVars, event, is_receiving_body,
                 last_char, file, short>>

(* write() takes some of the request, or none. *)
Send ==
  /\ at = "send"
  /\ \E n \in 0 .. RequestLength - request_data_sent :
       request_data_sent' = request_data_sent + n
  /\ IF request_data_sent' = RequestLength
       THEN /\ state' = "Receiving"
            /\ at' = IF "in" \in event THEN "scan" ELSE "idle"
       ELSE /\ Return
            /\ UNCHANGED state
  /\ UNCHANGED <<streamVars, bufferVars, event, is_receiving_body,
                 last_char, file, short>>

(* The loop that looks for the line break that starts with a carriage      *)
(* return after a line feed.                                               *)
ScanNothing ==
  /\ at = "scan"
  /\ Again \/ AtEnd
  /\ Return
  /\ UNCHANGED <<streamVars, bufferVars, state, event, is_receiving_body,
                 request_data_sent, last_char, file, short>>

(* Mutant: looks for a carriage return after another. *)
ScanByteAfterCr ==
  /\ at = "scan"
  /\ Get(1)
  /\ IF last_char = "cr" /\ Wire[received'] = "cr"
       THEN /\ at' = "lf"
            /\ UNCHANGED last_char
       ELSE /\ last_char' = Wire[received']
            /\ UNCHANGED at
  /\ UNCHANGED <<bufferVars, state, event, is_receiving_body,
                 request_data_sent, file, short>>

ScanByte ==
  /\ at = "scan"
  /\ Get(1)
  /\ IF last_char = "lf" /\ Wire[received'] = "cr"
       THEN /\ at' = "lf"
            /\ UNCHANGED last_char
       ELSE /\ last_char' = Wire[received']
            /\ UNCHANGED at
  /\ UNCHANGED <<bufferVars, state, event, is_receiving_body,
                 request_data_sent, file, short>>

(* The carriage return is gone from the stream; that it has been seen is   *)
(* forgotten.                                                              *)
LfNotThere ==
  /\ at = "lf"
  /\ Again
  /\ Return
  /\ UNCHANGED <<streamVars, bufferVars, state, event, is_receiving_body,
                 request_data_sent, last_char, file, short>>

(* The exception ends process(); the download loop stops the worker. *)
Throw ==
  /\ state' = "Stopped"
  /\ at' = "thrown"
  /\ UNCHANGED <<event, is_receiving_body, request_data_sent, last_char,
                 file, short>>

NoLfFollows ==
  /\ at = "lf"
  /\ \/ AtEnd /\ UNCHANGED streamVars
     \/ Get(1) /\ Wire[received'] # "lf"
  /\ Throw
  /\ UNCHANGED bufferVars

(* Mutant: without recieved_once. *)
HeaderAndBody ==
  /\ at = "lf"
  /\ Get(1)
  /\ Wire[received'] = "lf"
  /\ CreateBuffer
  /\ state' = "ReceivingBody"
  /\ at' = "body"
  /\ UNCHANGED <<event, is_receiving_body, request_data_sent, last_char,
                 file, short>>

(* The rest of this event is left: recieved_once. *)
HeaderComplete ==
  /\ at = "lf"
  /\ Get(1)
  /\ Wire[received'] = "lf"
  /\ CreateBuffer
  /\ state' = "ReceivingBody"
  /\ Return
  /\ UNCHANGED <<event, is_receiving_body, request_data_sent, last_char,
                 file, short>>

(* Response or CreateBuffer() throws: no start line, or no length given    *)
(* with keep-alive.                                                        *)
HeaderInvalid ==
  /\ at = "lf"
  /\ "invalid" \in Faults
  /\ Get(1)
  /\ Wire[received'] = "lf"
  /\ Throw
  /\ UNCHANGED bufferVars

(* The body: read into the buffer, write the buffer to the file. *)
ReadBuffer ==
  /\ at = "body"
  /\ reading = "no"
  /\ reading' = "call"
  /\ UNCHANGED <<streamVars, remain, finished_, chunk_head, valid,
                 workerVars>>

BodyRead == at = "body" /\ BufferRead /\ UNCHANGED workerVars

(* Mutant: does not return, and writes the buffer once more. *)
BodyAgainWrites ==
  /\ at = "body"
  /\ reading = "again"
  /\ reading' = "no"
  /\ file' = file \o valid
  /\ Return
  /\ UNCHANGED <<streamVars, remain, finished_, chunk_head, valid,
                 state, event, is_receiving_body, request_data_sent,
                 last_char, short>>

BodyAgain ==
  /\ at = "body"
  /\ reading = "again"
  /\ reading' = "no"
  /\ Return
  /\ UNCHANGED <<streamVars, remain, finished_, chunk_head, valid,
                 state, event, is_receiving_body, request_data_sent,
                 last_char, file, short>>

BodyThrows ==
  /\ at = "body"
  /\ reading = "threw"
  /\ Throw
  /\ UNCHANGED <<streamVars, bufferVars>>

(* How much write() may take; the rest of the buffer is not written again. *)
Written ==
  {Len(valid)} \cup IF "disk" \in Faults THEN 1 .. Len(valid) - 1 ELSE {}

WriteFile ==
  /\ at = "body"
  /\ reading = "returned"
  /\ reading' = "no"
  /\ \E n \in Written :
       /\ file' = file \o SubSeq(valid, 1, n)
       /\ short' = (short \/ n < Len(valid))
  /\ \/ /\ Finished
        /\ state' = "Stopped"
        /\ at' = "stopped"
     \/ /\ ~Finished
        /\ at' = IF valid # <<>> THEN "body" ELSE "idle"
        /\ UNCHANGED state
  /\ UNCHANGED <<streamVars, remain, finished_, chunk_head, valid,
                 event, is_receiving_body, request_data_sent, last_char>>

(* write() throws, and the buffer goes with the worker. *)
WriteThrows ==
  /\ at = "body"
  /\ reading = "returned"
  /\ valid # <<>>
  /\ "disk" \in Faults
  /\ Throw
  /\ UNCHANGED <<streamVars, bufferVars>>

StreamThrows ==
  /\ at \in {"send", "scan", "lf", "body"}
  /\ "reset" \in Faults
  /\ reading \in {"no", "call", "head", "lf", "data"}
  /\ Throw
  /\ UNCHANGED <<streamVars, bufferVars>>

Process ==
  \/ ConnectContinues \/ Connected \/ ConnectFails
  \/ Send
  \/ ScanNothing \/ ScanByte \/ LfNotThere \/ NoLfFollows
  \/ HeaderComplete \/ HeaderInvalid
  \/ ReadBuffer \/ BodyRead \/ BodyAgain \/ BodyThrows \/ WriteFile \/ WriteThrows
  \/ StreamThrows

(* The loop has no more use for the worker: its fragment is complete. *)
ForceStop ==
  /\ at = "idle"
  /\ is_receiving_body
  /\ state' = "Stopped"
  /\ at' = "forced"
  /\ UNCHANGED <<streamVars, bufferVars, event, is_receiving_body,
                 request_data_sent, last_char, file, short>>

(* The server answers once it has the request. *)
Network ==
  /\ request_data_sent = RequestLength
  /\ at \notin Ends
  /\ Arrive \/ ServerCloses
  /\ UNCHANGED <<bufferVars, workerVars>>

Next == Event \/ Process \/ ForceStop \/ Network

Spec == Init /\ [][Next]_vars

(***************************************************************************)
(* Fairness.  epoll is level-triggered and the loop always comes back to   *)
(* it; the kernel takes the request and a handshake ends; what the server  *)
(* has sent arrives, and it closes when that is how the answer ends.  It   *)
(* need not close otherwise, and the worker sets no timeout.               *)
(***************************************************************************)

ProcessStep ==
  \/ ConnectContinues \/ Connected
  \/ Send
  \/ ScanNothing \/ ScanByte \/ LfNotThere \/ NoLfFollows \/ HeaderComplete
  \/ ReadBuffer \/ BodyRead \/ BodyAgain \/ BodyThrows \/ WriteFile

SendSome == Send /\ request_data_sent' > request_data_sent

Answer == Network /\ (Arrive \/ (ServerCloses /\ framing = "close"))

Fairness ==
  /\ WF_vars(Event)
  /\ WF_vars(ProcessStep)
  /\ SF_vars(Connected)
  /\ SF_vars(SendSome)
  /\ WF_vars(Answer)

FairSpec == Spec /\ Fairness

(***************************************************************************)
(* Properties.                                                             *)
(***************************************************************************)

WorkerTypeOK ==
  /\ StreamTypeOK
  /\ BufferTypeOK
  /\ state \in {"Connecting", "Sending", "Receiving", "ReceivingBody", "Stopped"}
  /\ at \in {"idle", "connect", "send", "scan", "lf", "body"} \cup Ends
  /\ event \subseteq {"in", "out"}
  /\ is_receiving_body \in BOOLEAN
  /\ request_data_sent \in 0 .. RequestLength
  /\ last_char \in {"nul"} \cup Tokens
  /\ file \in Seq(1 .. Len(Wire))
  /\ short \in BOOLEAN

(* The positions of the bytes of the resource. *)
Payload ==
  LET body == [i \in 1 .. Len(Wire) - HeadLength |-> HeadLength + i]
  IN  IF framing = "chunked"
        THEN SelectSeq(body, LAMBDA p : Wire[p] = "b")
        ELSE SubSeq(body, 1, BodyLength)

(* The last two bytes of the header arrive together.  What comes of it if  *)
(* they do not is the subject of ReceivingReadsNoBody.                     *)
BreakWhole == HeadLength - 1 \notin pieces

(* What is in the file is the beginning of the body, in order, without a   *)
(* gap or a byte of the header, however the answer is cut into pieces; a   *)
(* short write() leaves a gap but neither repeats nor turns round a byte.  *)
InOrder ==
  \A i \in DOMAIN file :
    /\ \E j \in DOMAIN Payload : file[i] = Payload[j]
    /\ i > 1 => file[i - 1] < file[i]

WritesBody ==
  BreakWhole =>
    /\ InOrder
    /\ ~short => \A i \in DOMAIN file :
                   i \in DOMAIN Payload /\ file[i] = Payload[i]

(* Every byte of the body taken off the stream is in the file, or will be  *)
(* with the next write: the offset a retry starts from is that of the      *)
(* stream.                                                                 *)
NothingTakenIsLost ==
  state = "ReceivingBody" /\ framing # "chunked" /\ BreakWhole /\ ~short =>
    received = HeadLength + Len(file)
                 + (IF reading = "returned" THEN Len(valid) ELSE 0)

(* A worker that stops by itself has written the whole body, unless the    *)
(* server cut short a body of unknown length, or the disk a write().       *)
HasWhole ==
  at = "stopped" /\ ~short /\ (arrived = Len(Wire) \/ framing = "length") =>
    file = Payload

CompleteWhenStopped ==
  framing # "chunked" /\ BreakWhole => HasWhole

(* The buffers are to shield all difference between the kinds of body: a   *)
(* chunked body is written like the others.                                *)
ChunksComplete == framing = "chunked" => HasWhole

(* "Worker in state Receiving never enter read data in ReceivingBody       *)
(* state": the header ends where it ends, and in Receiving no byte of the  *)
(* body is taken off the stream.                                           *)
ReceivingReadsNoBody ==
  state = "Receiving" => received < HeadLength

(* It does if the last line break of the header is not torn.               *)
HeaderEndFound == BreakWhole => ReceivingReadsNoBody

(* Only calls that start in ReceivingBody move the offset, so that         *)
(* afterRead() hears of every move.                                        *)
OnlyBodyCallsWrite ==
  [][file' # file => is_receiving_body]_vars

(* No piece ends between a size and the end of its line break, where       *)
(* kAgain would take the size away with the locals of read().              *)
SizesWhole == \A p \in ChunkSizes : pieces \cap {p, p + 1} = {}

(* The chunked buffer finds the end of the body: it stops after the line   *)
(* break of the last chunk, neither earlier nor later, wherever the answer *)
(* is cut but in a size.                                                   *)
StopsAtLastChunk ==
  at = "stopped" /\ framing = "chunked" /\ BreakWhole /\ SizesWhole =>
    /\ SubSeq(Wire, received - 2, received) = <<"0", "cr", "lf">>
    /\ received = Len(Wire) - 2

(* A connection comes to an end after the server has sent its answer, or   *)
(* has closed.                                                             *)
WorkerEnds == <>(at \in Ends)

=============================================================================
