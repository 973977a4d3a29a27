------------------------------ MODULE WorkerProofs ------------------------------
(***************************************************************************)
(* Proofs about Worker, for any answer of the server, cut into any pieces. *)
(***************************************************************************)
EXTENDS Worker, Recursion, SequenceTheorems, TLAPS

USE FramingsAssumption, WiresAssumption, CuttingsAssumption,
    EarlyClosesAssumption, SchemesAssumption, BufferSizeAssumption,
    BodyLengthAssumption, HeadLengthAssumption, RequestLengthAssumption,
    FaultsAssumption

-----------------------------------------------------------------------------
(* Of two numbers one is the least. *)
LEMMA MinOfTwo ==
  ASSUME NEW a \in Int, NEW b \in Int
  PROVE  /\ Min({a, b}) \in {a, b}
         /\ Min({a, b}) <= a
         /\ Min({a, b}) <= b
<1>1. \E x \in {a, b} : \A y \in {a, b} : x <= y
  <2>1. CASE a <= b
    BY <2>1
  <2>2. CASE b <= a
    BY <2>2
  <2>3. QED
    BY <2>1, <2>2
<1>2. Min({a, b}) \in {a, b} /\ \A y \in {a, b} : Min({a, b}) <= y
  BY <1>1 DEF Min
<1>3. QED
  BY <1>2

(* A set of natural numbers that is not empty has a least element. *)
LEMMA MinOfNaturals ==
  ASSUME NEW T \in SUBSET Nat, T # {}
  PROVE  /\ Min(T) \in T
         /\ \A y \in T : Min(T) <= y
BY LeastNatural DEF Min

-----------------------------------------------------------------------------
(***************************************************************************)
(* The stream.                                                             *)
(***************************************************************************)

(* Nothing is kept between the kernel and read() without TLS; with it,     *)
(* whole records are.                                                      *)
StreamInv ==
  /\ StreamTypeOK
  /\ scheme = "http" => decrypted = received
  /\ scheme = "https" => decrypted \in pieces \cup {0}

(* An answer is a sequence with a header and more.                         *)
LEMMA WireLength ==
  ASSUME framing \in Framings
  PROVE  /\ Wire \in Seq(Tokens)
         /\ Len(Wire) \in Nat /\ HeadLength \in Nat
         /\ 4 <= HeadLength /\ HeadLength <= Len(Wire)
         /\ DOMAIN Wire = 1 .. Len(Wire)
<1>1. Wire \in Seq(Tokens) /\ HeadLength \in 4 .. Len(Wire)
  BY DEF Wire
<1>2. Len(Wire) \in Nat /\ DOMAIN Wire = 1 .. Len(Wire)
  BY <1>1, LenProperties
<1>3. QED
  BY <1>1, <1>2

(* How far the answer has got, by stages.                                  *)
LEMMA Positive ==
  ASSUME StreamTypeOK
  PROVE  /\ arrived \in 0 .. Len(Wire)
         /\ decrypted \in 0 .. arrived
         /\ received \in 0 .. decrypted
         /\ pieces \subseteq 1 .. Len(Wire)
<1>1. pieces \subseteq 1 .. Len(Wire)
  BY DEF StreamTypeOK, Wire
<1>2. QED
  BY <1>1, WireLength DEF StreamTypeOK

(* read() never has more to return than has arrived, and with nothing to   *)
(* return it has returned all of it.                                       *)
LEMMA AvailableArrived ==
  ASSUME StreamInv
  PROVE  /\ Available \in Nat
         /\ received + Available <= arrived
         /\ Available = 0 => received = arrived
         /\ scheme = "https" => received + Available \in pieces \cup {0}
<1> DEFINE T == {n \in pieces : n > received}
<1> USE DEF StreamInv
<1>1. /\ arrived \in Nat /\ decrypted \in Nat /\ received \in Nat
      /\ decrypted <= arrived /\ received <= decrypted
      /\ scheme \in {"http", "https"}
      /\ T \in SUBSET Nat
  BY Positive DEF StreamTypeOK
<1>2. CASE scheme = "http"
  BY <1>1, <1>2 DEF Available
<1>3. CASE scheme = "https" /\ received < decrypted
  BY <1>1, <1>3 DEF Available
<1>4. CASE scheme = "https" /\ received = decrypted /\ decrypted < arrived
  <2>1. arrived \in T
    BY <1>1, <1>4 DEF StreamTypeOK
  <2>2. Min(T) \in T /\ Min(T) <= arrived
    BY <2>1, <1>1, MinOfNaturals
  <2>3. Available = Min(T) - received
    BY <1>1, <1>4 DEF Available
  <2>4. QED
    BY <1>1, <1>4, <2>2, <2>3
<1>5. CASE scheme = "https" /\ received = decrypted /\ decrypted = arrived
  BY <1>1, <1>5 DEF Available
<1>6. QED
  BY <1>1, <1>2, <1>3, <1>4, <1>5

(* What taking n bytes off the stream does.                                *)
LEMMA GetStep ==
  ASSUME StreamInv, NEW n, Get(n)
  PROVE  /\ StreamInv'
         /\ n \in 1 .. Available
         /\ received' = received + n
         /\ received' <= arrived
<1>1. /\ n \in 1 .. Available /\ Available \in Nat
      /\ received' = received + n
      /\ received + Available <= arrived
      /\ received \in Nat /\ arrived \in Nat
      /\ UNCHANGED <<framing, scheme, pieces, arrived, closed>>
  BY AvailableArrived, Positive DEF Get, StreamInv
<1>2. CASE scheme = "http"
  BY <1>1, <1>2 DEF Get, StreamInv, StreamTypeOK
<1>3. CASE scheme = "https"
  BY <1>1, <1>3, AvailableArrived DEF Get, StreamInv, StreamTypeOK
<1>4. QED
  BY <1>2, <1>3 DEF StreamInv, StreamTypeOK

(* What the network does on its own.                                       *)
LEMMA NetworkStep ==
  ASSUME StreamInv, Arrive \/ ServerCloses
  PROVE  /\ StreamInv'
         /\ UNCHANGED <<framing, scheme, pieces, received>>
         /\ ~closed
<1>1. CASE Arrive
  BY <1>1, Positive DEF Arrive, StreamInv, StreamTypeOK
<1>2. CASE ServerCloses
  BY <1>2 DEF ServerCloses, StreamInv, StreamTypeOK
<1>3. QED
  BY <1>1, <1>2

-----------------------------------------------------------------------------
(***************************************************************************)
(* The buffer and process(): types, and where the program can be.          *)
(***************************************************************************)

Begun == {"Connecting", "Sending", "Receiving"}

(* process() is at the state it is in; the buffer is read in the body      *)
(* only, and ChunkedBuffer::read() of a chunked body only.                 *)
Places ==
  /\ at = "connect" => state = "Connecting"
  /\ at = "send" => state = "Sending"
  /\ at \in {"scan", "lf"} => state = "Receiving"
  /\ at = "body" => state = "ReceivingBody" /\ is_receiving_body
  /\ at \in Ends <=> state = "Stopped"
  /\ at = "stopped" => Finished /\ reading = "no"
  /\ reading # "no" => at \in {"body"} \cup Ends
  /\ reading \in {"head", "lf", "data", "threw"} => framing = "chunked"
  /\ remain = -1 => framing = "chunked"

(* Nothing has been done to the buffer and the file before the body.       *)
NotBegun ==
  state \in Begun =>
    /\ reading = "no" /\ valid = <<>> /\ file = <<>>
    /\ ~finished_ /\ ~short
    /\ state # "Receiving" => received = 0 /\ last_char = "nul"

(* A NoLengthBuffer is finished when the server has closed and all that it *)
(* has sent has been read.                                                 *)
EndFound ==
  finished_ => framing = "close" /\ closed /\ received = arrived

(* The chunked buffer never has a byte to write. *)
ChunksLost == framing = "chunked" => valid = <<>> /\ file = <<>>

WorkerInv ==
  /\ WorkerTypeOK
  /\ StreamInv
  /\ Places
  /\ NotBegun
  /\ EndFound
  /\ ChunksLost

(* No bytes are a sequence of bytes too.                                   *)
LEMMA EmptyPositions == <<>> \in Seq(1 .. Len(Wire)) /\ Len(<<>>) = 0
OBVIOUS

(* The invariant holds of a worker just constructed.                       *)
LEMMA WorkerInvInit == Init => WorkerInv
<1> SUFFICES ASSUME Init PROVE WorkerInv
  OBVIOUS
<1>1. StreamTypeOK /\ StreamInv
  <2>1. arrived = 0 /\ decrypted = 0 /\ received = 0 /\ closed = FALSE
    BY DEF Init, StreamInit
  <2>2. framing \in Framings /\ scheme \in Schemes /\ pieces \in Cuttings[framing]
    BY DEF Init, StreamInit
  <2>3. /\ arrived \in pieces \cup {0}
        /\ decrypted \in 0 .. arrived
        /\ received \in 0 .. decrypted
        /\ closed \in BOOLEAN
    <3>1. 0 \in 0 .. 0
      OBVIOUS
    <3>2. QED
      BY <2>1, <3>1, Zenon
  <2>4. StreamTypeOK
    BY <2>2, <2>3 DEF StreamTypeOK
  <2>5. QED
    BY <2>1, <2>4 DEF StreamInv
<1>2. WorkerTypeOK
  <2>1. <<>> \in Seq(Tokens) /\ 0 \in 0 .. RequestLength
    OBVIOUS
  <2>2. BufferTypeOK
    BY <2>1, EmptyPositions DEF Init, BufferInit, BufferTypeOK
  <2>3. QED
    BY <1>1, <2>1, <2>2, EmptyPositions DEF Init, WorkerTypeOK, Ends
<1>3. Places /\ NotBegun /\ EndFound /\ ChunksLost
  BY DEF Init, StreamInit, BufferInit, Places, NotBegun, EndFound,
         ChunksLost, Ends, Begun
<1>4. QED
  BY <1>1, <1>2, <1>3 DEF WorkerInv

(* The positions of the n bytes a read() returns. *)
LEMMA PositionsOf ==
  ASSUME StreamInv, NEW n, Get(n)
  PROVE  /\ Positions(n) \in Seq(1 .. Len(Wire))
         /\ Len(Positions(n)) = n
         /\ n \in Nat /\ n >= 1
         /\ \A i \in 1 .. n : Positions(n)[i] = received + i
         /\ received + n <= Len(Wire)
<1>1. /\ n \in Nat /\ n >= 1 /\ received \in Nat /\ received + n <= Len(Wire)
      /\ Len(Wire) \in Nat
  BY GetStep, AvailableArrived, Positive, WireLength
     DEF StreamInv, StreamTypeOK
<1>2. QED
  BY <1>1 DEF Positions

(* A read returns no more than it was asked for.                           *)
LEMMA AtMostIs ==
  ASSUME StreamInv, NEW m \in Int
  PROVE  AtMost(m) \in Int /\ AtMost(m) <= m
<1>1. Available \in Int
  BY AvailableArrived
<1>2. QED
  BY <1>1, MinOfTwo DEF AtMost

(* A chunk size is a natural number, whatever the head says.               *)
LEMMA ChunkSizeIs == \A head : ChunkSize(head) \in Nat
BY DEF ChunkSize, Digits

(* Nothing is read after the end has been found. *)
LEMMA NeverAfterEnd ==
  ASSUME WorkerInv, NEW n, Get(n)
  PROVE  ~finished_
<1>1. received + n <= arrived /\ n >= 1 /\ received \in Nat /\ n \in Nat
  BY GetStep, PositionsOf, Positive DEF WorkerInv, StreamInv
<1>2. QED
  BY <1>1 DEF WorkerInv, EndFound

(* What read() of any of the buffers does to the types and the stream. *)
LEMMA BufferReadStep ==
  ASSUME WorkerInv, BufferRead, at = "body", reading # "no"
  PROVE  /\ StreamInv' /\ BufferTypeOK'
         /\ UNCHANGED <<framing, pieces>>
         /\ EndFound'
         /\ reading' # "no"
         /\ reading' \in {"head", "lf", "data", "threw"} => framing = "chunked"
         /\ remain' = -1 => framing = "chunked"
         /\ framing = "chunked" => valid' = <<>>
<1> USE DEF WorkerInv, BufferTypeOK, WorkerTypeOK
<1>0. /\ UNCHANGED streamVars =>
           StreamInv' /\ UNCHANGED <<framing, pieces, received, arrived, closed>>
      /\ \A n : Get(n) =>
           StreamInv' /\ UNCHANGED <<framing, pieces, arrived, closed>>
  BY GetStep DEF streamVars, StreamInv, StreamTypeOK, Wire, Get
<1>1. CASE BufferAgain /\ reading \in {"call", "head", "lf", "data"}
  BY <1>0, <1>1 DEF BufferAgain, EndFound, Wire, Places, ChunksLost
<1>2. CASE NoLengthRead /\ ~BufferAgain
  <2>1. CASE /\ AtEnd
             /\ finished_' = TRUE
             /\ valid' = <<>>
             /\ reading' = "returned"
             /\ UNCHANGED <<streamVars, remain, chunk_head>>
    BY <1>0, <1>2, <2>1, AvailableArrived, EmptyPositions
       DEF NoLengthRead, AtEnd, EndFound, Wire, Places
  <2>2. CASE /\ Get(AtMost(BufferSize))
             /\ valid' = Positions(AtMost(BufferSize))
             /\ reading' = "returned"
             /\ UNCHANGED <<remain, finished_, chunk_head>>
    BY <1>0, <1>2, <2>2, PositionsOf, GetStep, NeverAfterEnd
       DEF NoLengthRead, EndFound, Wire, Places
  <2>3. QED
    BY <1>2, <2>1, <2>2 DEF NoLengthRead
<1>3. CASE FixLengthRead /\ ~BufferAgain
  <2> DEFINE n == AtMost(Min({remain, BufferSize}))
  <2>1. CASE /\ valid' = <<>>
             /\ reading' = "returned"
             /\ UNCHANGED <<streamVars, remain, finished_, chunk_head>>
    BY <1>0, <1>3, <2>1, EmptyPositions
       DEF FixLengthRead, EndFound, Wire, Places
  <2>2. CASE /\ Get(n)
             /\ valid' = Positions(n)
             /\ remain' = remain - n
             /\ reading' = "returned"
             /\ UNCHANGED <<finished_, chunk_head>>
    <3>1. remain \in Int /\ BufferSize \in Int
      OBVIOUS
    <3> DEFINE m == Min({remain, BufferSize})
    <3>2. m \in Int /\ m <= remain
      BY <3>1, MinOfTwo
    <3>3. n \in Int /\ n <= m
      BY <3>2, AtMostIs
    <3>4. n \in Nat /\ n <= remain
      BY <2>2, <3>1, <3>2, <3>3, PositionsOf
    <3>5. remain' \in Nat
      BY <3>1, <3>4, <2>2
    <3> HIDE DEF n
    <3>6. QED
      BY <1>0, <1>3, <2>2, <3>5, PositionsOf, NeverAfterEnd
         DEF FixLengthRead, EndFound, Wire
  <2>3. QED
    BY <1>3, <2>1, <2>2 DEF FixLengthRead
<1>4. CASE ChunkedCall
  BY <1>0, <1>4 DEF ChunkedCall, EndFound, ChunksLost, Wire
<1>5. CASE ChunkedHead /\ ~BufferAgain
  <2>1. framing = "chunked"
    BY <1>5 DEF ChunkedHead, Places
  <2>2. CASE AtEnd /\ BufferThrows /\ UNCHANGED streamVars
    BY <1>0, <2>1, <2>2 DEF BufferThrows, EndFound, ChunksLost, Wire
  <2>3. CASE Get(1) /\ UNCHANGED <<remain, finished_, valid>>
    <3>1. Wire[received'] \in Tokens
      BY <2>3, PositionsOf, WireLength, GetStep DEF StreamTypeOK, StreamInv
    <3>2. /\ chunk_head' \in {chunk_head, Append(chunk_head, Wire[received'])}
          /\ reading' \in {"lf", "head"}
      BY <1>5, <2>3 DEF ChunkedHead, BufferAgain, Again, AtEnd, Get
    <3>3. chunk_head' \in Seq(Tokens)
      <4>1. chunk_head \in Seq(Tokens)
        OBVIOUS
      <4>2. Append(chunk_head, Wire[received']) \in Seq(Tokens)
        BY <3>1, <4>1, AppendProperties
      <4>3. QED
        BY <3>2, <4>1, <4>2
    <3>4. QED
      BY <1>0, <2>1, <2>3, <3>2, <3>3 DEF EndFound, ChunksLost, Wire
  <2>4. QED
    BY <1>5, <2>2, <2>3 DEF ChunkedHead
<1>6. CASE ChunkedLf /\ ~BufferAgain
  <2>1. framing = "chunked"
    BY <1>6 DEF ChunkedLf, Places
  <2>2. CASE BufferThrows /\ (UNCHANGED streamVars \/ Get(1))
    BY <1>0, <2>1, <2>2 DEF BufferThrows, EndFound, ChunksLost, Wire
  <2>3. CASE /\ Get(1)
             /\ remain' = ChunkSize(chunk_head)
             /\ reading' = IF remain' > 0 THEN "data" ELSE "returned"
             /\ valid' = <<>>
             /\ UNCHANGED <<finished_, chunk_head>>
    BY <1>0, <2>1, <2>3, ChunkSizeIs, EmptyPositions DEF EndFound, Wire
  <2>4. QED
    BY <1>6, <2>2, <2>3 DEF ChunkedLf
<1>7. CASE ChunkedData /\ ~BufferAgain
  <2> DEFINE n == AtMost(Min({remain, BufferSize}))
  <2>1. framing = "chunked"
    BY <1>7 DEF ChunkedData, Places
  <2>2. CASE /\ valid' = <<>>
             /\ reading' = "returned"
             /\ UNCHANGED <<streamVars, remain, finished_, chunk_head>>
    BY <1>0, <2>1, <2>2, EmptyPositions DEF EndFound, Wire
  <2>3. CASE /\ Get(n)
             /\ remain' = IF remain = n THEN -1 ELSE remain - n
             /\ valid' = <<>>
             /\ reading' = "returned"
             /\ UNCHANGED <<finished_, chunk_head>>
    <3>1. remain \in Int /\ BufferSize \in Int
      OBVIOUS
    <3> DEFINE m == Min({remain, BufferSize})
    <3>2. m \in Int /\ m <= remain
      BY <3>1, MinOfTwo
    <3>3. n \in Int /\ n <= m
      BY <3>2, AtMostIs
    <3>4. n \in Nat /\ n <= remain
      BY <2>3, <3>1, <3>2, <3>3, PositionsOf
    <3>5. remain' \in Nat \cup {-1}
      BY <3>1, <3>4, <2>3
    <3> HIDE DEF n
    <3>6. QED
      BY <1>0, <2>1, <2>3, <3>5, EmptyPositions DEF EndFound, Wire
  <2>4. QED
    BY <1>7, <2>2, <2>3 DEF ChunkedData
<1>8. QED
  BY <1>1, <1>2, <1>3, <1>4, <1>5, <1>6, <1>7
     DEF BufferRead, NoLengthRead, FixLengthRead, ChunkedHead, ChunkedLf,
         ChunkedData

(* A step that leaves the stream alone, and one that leaves the buffer     *)
(* alone.                                                                  *)
LEMMA StreamKept ==
  ASSUME WorkerInv, UNCHANGED streamVars
  PROVE  /\ StreamInv' /\ Wire' = Wire
         /\ UNCHANGED <<framing, received, arrived, closed>>
BY DEF WorkerInv, streamVars, StreamInv, StreamTypeOK, Wire

(* What stays of the buffer when its members do.                           *)
LEMMA BufferKept ==
  ASSUME WorkerInv, UNCHANGED <<remain, finished_, chunk_head, valid, framing>>
  PROVE  /\ reading' \in {"no", "call", "head", "lf", "data",
                           "returned", "again", "threw"} => BufferTypeOK'
         /\ Wire' = Wire
         /\ Finished' = Finished
BY DEF WorkerInv, WorkerTypeOK, BufferTypeOK, Wire, Finished

(* Reading changes nothing of the answer itself.                           *)
LEMMA ParametersKept ==
  ASSUME StreamInv, NEW n, Get(n)
  PROVE  UNCHANGED <<framing, scheme, pieces, arrived, closed>> /\ Wire' = Wire
BY DEF Get, Wire

(* A byte of the header. *)
LEMMA HeaderByte ==
  ASSUME WorkerInv, Get(1), state = "Receiving"
  PROVE  /\ StreamInv' /\ Wire' = Wire
         /\ UNCHANGED <<framing, arrived, closed>>
         /\ received' = received + 1
         /\ Wire[received'] \in Tokens
BY GetStep, ParametersKept, PositionsOf, Positive, WireLength
   DEF WorkerInv, StreamInv, StreamTypeOK

(* The first n bytes of the buffer are appended to the file. *)
LEMMA WriteStep ==
  ASSUME WorkerInv, WriteFile
  PROVE  \E n \in 0 .. Len(valid) :
           /\ n < Len(valid) => "disk" \in Faults
           /\ file' = file \o SubSeq(valid, 1, n)
           /\ short' = (short \/ n < Len(valid))
           /\ file' \in Seq(1 .. Len(Wire)) /\ short' \in BOOLEAN
           /\ Len(file') = Len(file) + n
           /\ \A i \in 1 .. Len(file) : file'[i] = file[i]
           /\ \A i \in 1 .. n : file'[Len(file) + i] = valid[i]
           /\ (valid = <<>> /\ file = <<>>) => file' = <<>>
<1>1. PICK n \in Written :
        /\ file' = file \o SubSeq(valid, 1, n)
        /\ short' = (short \/ n < Len(valid))
  BY DEF WriteFile
<1>2. /\ valid \in Seq(1 .. Len(Wire)) /\ file \in Seq(1 .. Len(Wire))
      /\ Len(valid) \in Nat /\ Len(file) \in Nat
  BY DEF WorkerInv, WorkerTypeOK, BufferTypeOK
<1>3. n \in 0 .. Len(valid) /\ (n < Len(valid) => "disk" \in Faults)
  BY <1>2 DEF Written
<1>4. DEFINE v == SubSeq(valid, 1, n)
<1>5. /\ v \in Seq(1 .. Len(Wire)) /\ Len(v) = n
      /\ \A i \in 1 .. n : v[i] = valid[i]
  BY <1>2, <1>3
<1> HIDE DEF v
<1>6. /\ file \o v \in Seq(1 .. Len(Wire)) /\ Len(file \o v) = Len(file) + n
      /\ \A i \in 1 .. Len(file) : (file \o v)[i] = file[i]
      /\ \A i \in 1 .. n : (file \o v)[Len(file) + i] = v[i]
  <2>1. /\ file \o v \in Seq(1 .. Len(Wire)) /\ Len(file \o v) = Len(file) + n
        /\ \A i \in 1 .. Len(file) + n :
             (file \o v)[i] = IF i <= Len(file) THEN file[i] ELSE v[i - Len(file)]
    BY <1>2, <1>5, ConcatProperties
  <2>2. ASSUME NEW i \in 1 .. Len(file)
        PROVE  (file \o v)[i] = file[i]
    BY <1>2, <1>3, <2>1
  <2>3. ASSUME NEW i \in 1 .. n
        PROVE  (file \o v)[Len(file) + i] = v[i]
    <3>1. /\ Len(file) + i \in 1 .. Len(file) + n
          /\ ~(Len(file) + i <= Len(file))
          /\ Len(file) + i - Len(file) = i
      BY <1>2, <1>3
    <3>2. QED
      BY <2>1, <3>1
  <2>4. QED
    BY <2>1, <2>2, <2>3
<1>7. (valid = <<>> /\ file = <<>>) => file \o v = <<>>
  <2> SUFFICES ASSUME valid = <<>>, file = <<>> PROVE file \o v = <<>>
    OBVIOUS
  <2>1. Len(file \o v) = 0
    BY <1>2, <1>3, <1>6
  <2>2. QED
    BY <1>6, <2>1, EmptySeq
<1>8. file' = file \o v
  BY <1>1 DEF v
<1>9. QED
  BY <1>1, <1>3, <1>5, <1>6, <1>7, <1>8 DEF v, WorkerInv, WorkerTypeOK

(* An event is handled in the state the worker is in. *)
LEMMA EventEnters ==
  ASSUME WorkerInv, Event
  PROVE  /\ event' \subseteq {"in", "out"}
         /\ \/ (at' = "connect" /\ state = "Connecting")
            \/ (at' = "send" /\ state = "Sending")
            \/ (at' = "scan" /\ state = "Receiving")
            \/ (at' = "body" /\ state = "ReceivingBody")
<1> USE DEF WorkerInv, WorkerTypeOK, Ends
<1>1. event' \subseteq {"in", "out"} /\ at' = Entry(event') /\ event' # {}
      /\ event' \subseteq Interest
  BY DEF Event, Interest
<1>2. \/ (at' = "connect" /\ state = "Connecting")
      \/ (at' = "send" /\ state = "Sending")
      \/ (at' = "scan" /\ state = "Receiving")
      \/ (at' = "body" /\ state = "ReceivingBody")
  <2>1. state \in {"Connecting", "Sending", "Receiving", "ReceivingBody"}
    BY DEF Event, Places
  <2>2. CASE state = "Connecting"
    BY <1>1, <2>2 DEF Entry
  <2>3. CASE state = "Sending"
    <3>1. "out" \in event'
      BY <1>1, <2>3 DEF Interest
    <3>2. QED
      BY <1>1, <2>3, <3>1 DEF Entry
  <2>4. CASE state = "Receiving"
    <3>1. "in" \in event'
      BY <1>1, <2>4 DEF Interest
    <3>2. QED
      BY <1>1, <2>4, <3>1 DEF Entry
  <2>5. CASE state = "ReceivingBody"
    <3>1. "in" \in event'
      BY <1>1, <2>5 DEF Interest
    <3>2. QED
      BY <1>1, <2>5, <3>1 DEF Entry
  <2>6. QED
    BY <2>1, <2>2, <2>3, <2>4, <2>5
<1>3. QED
  BY <1>1, <1>2

(* Every step of process(), of a buffer and of the network keeps it.       *)
LEMMA WorkerInvStep == WorkerInv /\ [Next]_vars => WorkerInv'
<1> SUFFICES ASSUME WorkerInv, [Next]_vars PROVE WorkerInv'
  OBVIOUS
<1> USE DEF WorkerInv, WorkerTypeOK, Ends
<1>1. CASE Event
  <2>1. /\ event' \subseteq {"in", "out"}
        /\ \/ (at' = "connect" /\ state = "Connecting")
           \/ (at' = "send" /\ state = "Sending")
           \/ (at' = "scan" /\ state = "Receiving")
           \/ (at' = "body" /\ state = "ReceivingBody")
    BY <1>1, EventEnters
  <2>2. QED
    BY <1>1, <2>1, StreamKept, BufferKept
    DEF Event, bufferVars, Places, NotBegun, EndFound, ChunksLost, StreamInv,
        BufferTypeOK, Begun
<1> DEFINE Still == UNCHANGED <<streamVars, bufferVars>>
<1>2. CASE Still /\ (ConnectContinues \/ Connected \/ ConnectFails
                       \/ ScanNothing \/ LfNotThere)
  <2>1. /\ UNCHANGED <<event, is_receiving_body, request_data_sent, last_char,
                       file, short>>
        /\ \/ (at' = "idle" /\ state' = state /\ state # "Stopped")
           \/ (at' \in {"idle", "send"} /\ state' = "Sending"
                 /\ state = "Connecting")
           \/ (at' = "refused" /\ state' = "Stopped" /\ state = "Connecting")
    BY <1>2 DEF ConnectContinues, Connected, ConnectFails, ScanNothing,
                LfNotThere, Return, Places
  <2>2. StreamInv' /\ Wire' = Wire /\ BufferTypeOK'
        /\ UNCHANGED <<framing, received, arrived, closed>>
    BY <1>2, StreamKept, BufferKept DEF bufferVars, BufferTypeOK
  <2>3. WorkerTypeOK'
    BY <2>1, <2>2 DEF StreamInv
  <2>4. Places'
    <3>1. reading' = reading /\ remain' = remain
      BY <1>2 DEF bufferVars
    <3>2. state \in Begun \/ (at' = "idle" /\ state' = state)
      BY <2>1 DEF Begun
    <3>3. reading = "no"
      BY <1>2, <3>2 DEF Places, ConnectContinues, Connected, ConnectFails,
                        ScanNothing, LfNotThere
    <3>4. at' \in {"idle", "send", "refused"} /\ (at' = "send" => state' = "Sending")
          /\ (at' = "refused" <=> state' = "Stopped")
      BY <2>1
    <3>5. QED
      BY <2>2, <3>1, <3>3, <3>4 DEF Places
  <2>5. NotBegun' /\ EndFound' /\ ChunksLost'
    BY <1>2, <2>1, <2>2 DEF NotBegun, Begun, EndFound, ChunksLost, bufferVars
  <2>6. QED
    BY <2>2, <2>3, <2>4, <2>5
<1>15. CASE Send
  <2>1. request_data_sent' \in 0 .. RequestLength
    BY <1>15 DEF Send
  <2>2. /\ at' \in {"scan", "idle"} /\ state' \in {"Sending", "Receiving"}
        /\ at' = "scan" => state' = "Receiving"
        /\ state = "Sending"
        /\ UNCHANGED <<streamVars, bufferVars, event, is_receiving_body,
                       last_char, file, short>>
    BY <1>15 DEF Send, Return, Places
  <2>3. QED
    BY <2>1, <2>2, StreamKept, BufferKept
    DEF bufferVars, Places, NotBegun, EndFound, ChunksLost, StreamInv,
        BufferTypeOK, Begun
<1>3. CASE ScanByte
  BY <1>3, HeaderByte, BufferKept, NeverAfterEnd
  DEF bufferVars, Places, NotBegun, EndFound, ChunksLost, StreamInv,
      BufferTypeOK, Begun, ScanByte
<1>4. CASE NoLfFollows \/ HeaderInvalid
  <2>1. /\ state = "Receiving" /\ state' = "Stopped" /\ at' = "thrown"
        /\ UNCHANGED <<bufferVars, event, is_receiving_body,
                       request_data_sent, last_char, file, short>>
        /\ UNCHANGED streamVars \/ Get(1)
    BY <1>4 DEF NoLfFollows, HeaderInvalid, Throw, Places
  <2>2. /\ StreamInv' /\ Wire' = Wire /\ UNCHANGED framing
    BY <2>1, HeaderByte, StreamKept
  <2>3. QED
    BY <2>1, <2>2, BufferKept
    DEF bufferVars, Places, NotBegun, EndFound, ChunksLost, StreamInv,
        BufferTypeOK, Begun
<1>5. CASE HeaderComplete
  <2>1. /\ state = "Receiving" /\ state' = "ReceivingBody" /\ at' = "idle"
        /\ UNCHANGED <<finished_, chunk_head, valid, reading, event,
                       is_receiving_body, request_data_sent, last_char, file,
                       short>>
        /\ Get(1)
    BY <1>5 DEF HeaderComplete, CreateBuffer, Return, Places
  <2>2. /\ remain' \in Nat \cup {-1}
        /\ remain' = -1 => framing = "chunked"
    <3>1. framing \in {"close", "length", "chunked"}
      BY DEF StreamTypeOK
    <3>2. remain' = CASE framing = "length" -> BodyLength
                      [] framing = "chunked" -> -1
                      [] framing = "close" -> 0
      BY <1>5 DEF HeaderComplete, CreateBuffer
    <3>3. QED
      BY <3>1, <3>2
  <2>3. StreamInv' /\ Wire' = Wire /\ UNCHANGED framing
    BY <2>1, HeaderByte
  <2>4. QED
    BY <2>1, <2>2, <2>3
    DEF Places, NotBegun, EndFound, ChunksLost, StreamInv, BufferTypeOK, Begun
<1>6. CASE ReadBuffer
  BY <1>6, StreamKept, BufferKept
  DEF workerVars, Places, NotBegun, EndFound, ChunksLost, StreamInv,
      Begun, ReadBuffer
<1>7. CASE BodyRead
  <2>1. reading # "no" /\ BufferRead /\ at = "body" /\ UNCHANGED workerVars
    BY <1>7 DEF BodyRead, BufferRead, NoLengthRead, FixLengthRead, ChunkedCall,
            ChunkedHead, ChunkedLf, ChunkedData
  <2>2. /\ StreamInv' /\ BufferTypeOK' /\ EndFound'
        /\ UNCHANGED workerVars /\ Wire' = Wire
    BY <2>1, BufferReadStep DEF Wire
  <2>3. WorkerTypeOK'
    BY <2>2 DEF workerVars, StreamInv
  <2>4. /\ framing' = framing /\ reading' # "no"
        /\ reading' \in {"head", "lf", "data", "threw"} => framing = "chunked"
        /\ remain' = -1 => framing = "chunked"
        /\ framing = "chunked" => valid' = <<>>
        /\ state = "ReceivingBody" /\ is_receiving_body
    BY <2>1, BufferReadStep DEF Places
  <2>5. Places' /\ NotBegun' /\ ChunksLost'
    BY <2>1, <2>4 DEF workerVars, Places, NotBegun, ChunksLost, Begun
  <2>6. QED
    BY <2>2, <2>3, <2>5
<1>8. CASE BodyAgain
  BY <1>8, StreamKept, BufferKept
  DEF Places, NotBegun, EndFound, ChunksLost, StreamInv, Begun, BodyAgain, Return
<1>9. CASE Still /\ (BodyThrows \/ WriteThrows \/ StreamThrows)
  <2>1. /\ state' = "Stopped" /\ at' = "thrown"
        /\ UNCHANGED <<event, is_receiving_body, request_data_sent, last_char,
                       file, short>>
        /\ UNCHANGED bufferVars
    BY <1>9 DEF BodyThrows, WriteThrows, StreamThrows, Throw
  <2>2. StreamInv' /\ Wire' = Wire /\ BufferTypeOK'
        /\ UNCHANGED <<framing, received, arrived, closed>>
    BY <1>9, StreamKept, BufferKept DEF bufferVars, BufferTypeOK
  <2>3. WorkerTypeOK'
    BY <2>1, <2>2 DEF StreamInv
  <2>4. Places' /\ NotBegun' /\ EndFound' /\ ChunksLost'
    BY <2>1, <2>2 DEF bufferVars, Places, NotBegun, EndFound, ChunksLost, Begun
  <2>5. QED
    BY <2>2, <2>3, <2>4
<1>10. CASE WriteFile
  <2>1. file' \in Seq(1 .. Len(Wire)) /\ short' \in BOOLEAN
        /\ (valid = <<>> /\ file = <<>> => file' = <<>>)
    BY <1>10, WriteStep
  <2>2. /\ UNCHANGED <<streamVars, remain, finished_, chunk_head, valid, event,
                       is_receiving_body, request_data_sent, last_char>>
        /\ reading' = "no"
        /\ \/ Finished /\ state' = "Stopped" /\ at' = "stopped"
           \/ state' = state /\ at' \in {"body", "idle"}
        /\ state = "ReceivingBody" /\ is_receiving_body
    BY <1>10 DEF WriteFile, Places
  <2>3. StreamInv' /\ Wire' = Wire /\ UNCHANGED <<framing, received, arrived, closed>>
    BY <2>2, StreamKept
  <2>4. BufferTypeOK' /\ Finished' = Finished
    BY <2>2, <2>3, BufferKept
  <2>5. QED
    BY <2>1, <2>2, <2>3, <2>4
    DEF Places, NotBegun, EndFound, ChunksLost, StreamInv, Begun
<1>11. CASE ForceStop
  BY <1>11, StreamKept, BufferKept
  DEF bufferVars, Places, NotBegun, EndFound, ChunksLost, StreamInv,
      BufferTypeOK, Begun, ForceStop
<1>12. CASE Network
  BY <1>12, NetworkStep, BufferKept
  DEF bufferVars, workerVars, Places, NotBegun, EndFound, ChunksLost,
      StreamInv, BufferTypeOK, Network
<1>13. CASE UNCHANGED vars
  BY <1>13, StreamKept, BufferKept
  DEF vars, bufferVars, workerVars, Places, NotBegun, EndFound, ChunksLost,
      StreamInv, BufferTypeOK
<1>14. QED
  BY <1>1, <1>2, <1>3, <1>4, <1>5, <1>6, <1>7, <1>8, <1>9, <1>10, <1>11,
     <1>12, <1>13, <1>15
  DEF Next, Process, ConnectContinues, Connected, ConnectFails, Send,
      ScanNothing, LfNotThere, BodyThrows, WriteThrows, StreamThrows

(* The first inductive invariant of Worker.                                *)
LEMMA WorkerInvariant == Spec => []WorkerInv
<1>1. Init => WorkerInv
  BY WorkerInvInit
<1>2. WorkerInv /\ [Next]_vars => WorkerInv'
  BY WorkerInvStep
<1>3. QED
  BY <1>1, <1>2, PTL DEF Spec

(* The types of the worker, the stream and the buffers: no position beyond *)
(* the answer is read or written (worker.cpp:49).                          *)
THEOREM WorkerTypeCorrect == Spec => []WorkerTypeOK
<1>1. WorkerInv => WorkerTypeOK
  BY DEF WorkerInv
<1>2. QED
  BY <1>1, WorkerInvariant, PTL

(* Whatever the answer, the file is written only in a call of process()    *)
(* that began in ReceivingBody, so that afterRead() hears of every move of *)
(* the offset (cld.cpp:245).                                               *)
THEOREM BodyCallsWrite == Spec => OnlyBodyCallsWrite
<1>1. WorkerInv /\ [Next]_vars => [file' # file => is_receiving_body]_vars
  <2> SUFFICES ASSUME WorkerInv, Next, file' # file PROVE is_receiving_body
    OBVIOUS
  <2>1. WriteFile
    BY DEF Next, Event, Process, ConnectContinues, Connected, ConnectFails, Send,
           ScanNothing, ScanByte, LfNotThere, NoLfFollows, Throw,
           HeaderComplete, HeaderInvalid, ReadBuffer, BodyRead, BodyAgain,
           BodyThrows, WriteThrows, StreamThrows, ForceStop, Network, workerVars
  <2>2. QED
    BY <2>1 DEF WriteFile, WorkerInv, Places
<1>2. QED
  BY <1>1, WorkerInvariant, PTL DEF Spec, OnlyBodyCallsWrite

(* No byte of a chunked body ever reaches the file, whatever the chunks    *)
(* (http_buffer.h:127): ChunksComplete fails for all of them.              *)
THEOREM ChunkedWritesNothing == Spec => [](framing = "chunked" => file = <<>>)
<1>1. WorkerInv => (framing = "chunked" => file = <<>>)
  BY DEF WorkerInv, ChunksLost
<1>2. QED
  BY <1>1, WorkerInvariant, PTL

-----------------------------------------------------------------------------
(***************************************************************************)
(* The end of the header.                                                  *)
(***************************************************************************)

(* While the header is scanned, last_char is the byte before, and the      *)
(* carriage return of its empty line is the one that is found.             *)
Scanning ==
  BreakWhole /\ state = "Receiving" =>
    /\ at = "lf" => received = HeadLength - 1
    /\ at # "lf" =>
         /\ received <= HeadLength - 2
         /\ last_char = IF received = 0 THEN "nul" ELSE Wire[received]

(* Where the end of the header is, and that it is nowhere before.          *)
LEMMA HeaderAt ==
  ASSUME framing \in Framings
  PROVE  /\ Wire[HeadLength - 1] = "cr" /\ Wire[HeadLength - 2] = "lf"
         /\ Wire[HeadLength] = "lf"
         /\ \A i \in 2 .. HeadLength - 2 : ~(Wire[i - 1] = "lf" /\ Wire[i] = "cr")
BY HeaderAssumption DEF Wire

(* No piece ends between the two bytes: when the first has been read, the  *)
(* second can be.                                                          *)
LEMMA SecondByteThere ==
  ASSUME WorkerInv, BreakWhole, received = HeadLength - 1
  PROVE  Available > 0
<1> USE DEF WorkerInv, StreamInv
<1>1. /\ received \in Nat /\ received > 0 /\ received \notin pieces
      /\ arrived \in pieces \cup {0} /\ scheme \in {"http", "https"}
      /\ Available \in Nat
  BY WireLength, AvailableArrived DEF BreakWhole, StreamTypeOK
<1>2. Available = 0 => received = arrived
  BY AvailableArrived
<1>3. QED
  BY <1>1, <1>2

(* Reading on through the header keeps last_char the byte before.          *)
LEMMA ScanningStep == WorkerInv /\ Scanning /\ [Next]_vars => Scanning'
<1> SUFFICES ASSUME WorkerInv, Scanning, [Next]_vars,
                    BreakWhole', (state = "Receiving")'
             PROVE  /\ (at = "lf" => received = HeadLength - 1)'
                    /\ (at # "lf" =>
                          /\ received <= HeadLength - 2
                          /\ last_char = IF received = 0 THEN "nul" ELSE Wire[received])'
  BY DEF Scanning
<1> USE DEF WorkerInv
<1>1. /\ framing \in Framings /\ received \in Nat /\ HeadLength \in Nat
      /\ 4 <= HeadLength
  BY WireLength, Positive DEF StreamInv, StreamTypeOK
<1>2. CASE Event
  BY <1>2, EventEnters DEF Event, Scanning, BreakWhole, streamVars, Wire
<1>3. CASE Send
  BY <1>1, <1>3 DEF Send, Scanning, BreakWhole, streamVars, Wire, Places, NotBegun,
                    Begun, Return
<1>4. CASE ScanByte
  <2>1. /\ BreakWhole /\ state = "Receiving" /\ at = "scan"
        /\ received' = received + 1 /\ Wire' = Wire
    BY <1>4, HeaderByte, ParametersKept
       DEF ScanByte, BreakWhole, StreamInv, Places
  <2>2. /\ received <= HeadLength - 2
        /\ last_char = IF received = 0 THEN "nul" ELSE Wire[received]
    BY <2>1 DEF Scanning
  <2>3. CASE last_char = "lf" /\ Wire[received'] = "cr"
    <3>1. received >= 1 /\ Wire[received] = "lf" /\ Wire[received + 1] = "cr"
      BY <1>1, <2>1, <2>2, <2>3
    <3>2. ~(received + 1 \in 2 .. HeadLength - 2)
      <4> SUFFICES ASSUME received + 1 \in 2 .. HeadLength - 2 PROVE FALSE
        OBVIOUS
      <4>1. ~(Wire[(received + 1) - 1] = "lf" /\ Wire[received + 1] = "cr")
        BY <1>1, HeaderAt
      <4>2. (received + 1) - 1 = received
        BY <1>1
      <4>3. QED
        BY <3>1, <4>1, <4>2
    <3>3. received + 1 = HeadLength - 1
      BY <1>1, <2>2, <3>1, <3>2
    <3>4. at' = "lf"
      BY <1>4, <2>3 DEF ScanByte
    <3>5. QED
      BY <2>1, <3>3, <3>4
  <2>4. CASE ~(last_char = "lf" /\ Wire[received'] = "cr")
    <3>1. at' = "scan" /\ last_char' = Wire[received']
      BY <1>4, <2>1, <2>4 DEF ScanByte
    <3>2. received + 1 # HeadLength - 1
      <4> SUFFICES ASSUME received + 1 = HeadLength - 1 PROVE FALSE
        OBVIOUS
      <4>1. received = HeadLength - 2 /\ received # 0
        BY <1>1
      <4>2. Wire[received] = "lf" /\ Wire[received'] = "cr"
        BY <1>1, <2>1, <4>1, HeaderAt
      <4>3. QED
        BY <2>2, <2>4, <4>1, <4>2
    <3>3. received' <= HeadLength - 2 /\ received' # 0
      BY <1>1, <2>1, <2>2, <3>2
    <3>4. QED
      BY <2>1, <3>1, <3>3
  <2>5. QED
    BY <2>3, <2>4
<1>5. CASE LfNotThere
  BY <1>5, SecondByteThere
  DEF LfNotThere, Scanning, BreakWhole, streamVars, Again, Places
<1>6. CASE ScanNothing
  BY <1>6 DEF ScanNothing, Scanning, BreakWhole, streamVars, Wire, Places, Return
<1>7. CASE Network
  BY <1>7, NetworkStep DEF Network, Scanning, BreakWhole, workerVars, Wire
<1>8. CASE UNCHANGED vars
  BY <1>8 DEF vars, Scanning, BreakWhole, streamVars, workerVars, Wire
<1>9. CASE \/ ConnectContinues \/ Connected \/ ConnectFails
           \/ NoLfFollows \/ HeaderComplete \/ HeaderInvalid
           \/ ReadBuffer \/ BodyRead \/ BodyAgain \/ BodyThrows \/ WriteFile
           \/ WriteThrows \/ StreamThrows \/ ForceStop
  <2>1. state' # "Receiving"
    BY <1>9 DEF ConnectContinues, Connected, ConnectFails, NoLfFollows,
      HeaderComplete, HeaderInvalid, Throw, ReadBuffer, BodyRead, BodyAgain,
      BodyThrows, WriteFile, WriteThrows, StreamThrows, ForceStop, workerVars,
      Places
  <2>2. QED
    BY <2>1
<1>10. QED
  BY <1>2, <1>3, <1>4, <1>5, <1>6, <1>7, <1>8, <1>9 DEF Next, Process

(* The invariant of the search for the end of the header.                  *)
LEMMA ScanningInvariant == Spec => [](WorkerInv /\ Scanning)
<1>1. Init => Scanning
  BY DEF Init, Scanning
<1>2. WorkerInv /\ Scanning /\ [Next]_vars => Scanning'
  BY ScanningStep
<1>3. QED
  BY <1>1, <1>2, WorkerInvariant, PTL DEF Spec

(* However the answer is cut, as long as the last line break of the header *)
(* is not, the worker finds the end of the header where it is and takes no *)
(* byte of the body before (worker.cpp:82).                                *)
THEOREM HeaderEndCorrect == Spec => []HeaderEndFound
<1>1. WorkerInv /\ Scanning => HeaderEndFound
  BY WireLength, Positive
  DEF WorkerInv, StreamInv, StreamTypeOK, Scanning, HeaderEndFound,
      ReceivingReadsNoBody
<1>2. QED
  BY <1>1, ScanningInvariant, PTL

-----------------------------------------------------------------------------
(***************************************************************************)
(* The body of an answer that is not chunked.                              *)
(***************************************************************************)

Plain == framing # "chunked" /\ BreakWhole

(* How much of what has been taken off the stream waits in the buffer. *)
Pending == IF reading = "returned" THEN Len(valid) ELSE 0

(* No byte behind the body is taken off the stream. *)
WithinBody == Plain => received <= HeadLength + BodyLength

(* The buffer holds the last bytes that have been received. *)
LastBytes ==
  Plain /\ reading = "returned" =>
    \A i \in 1 .. Len(valid) : valid[i] = received - Len(valid) + i

(* What is in the file, and how far the body has got. *)
Ordered ==
  Plain =>
    \A i \in 1 .. Len(file) :
      /\ HeadLength < file[i] /\ file[i] <= received - Pending
      /\ i > 1 => file[i - 1] < file[i]

Whole == Plain /\ ~short => \A i \in 1 .. Len(file) : file[i] = HeadLength + i

InBody == state = "ReceivingBody" \/ at = "stopped"

Taken ==
  Plain /\ InBody =>
    /\ HeadLength + Pending <= received
    /\ ~short => received = HeadLength + Len(file) + Pending
    /\ framing = "length" => remain = HeadLength + BodyLength - received

FileInv ==
  /\ WorkerInv /\ Scanning
  /\ WithinBody /\ LastBytes /\ Ordered /\ Whole /\ Taken

(* What the numbers of the invariant are. *)
LEMMA Numbers ==
  ASSUME WorkerInv
  PROVE  /\ received \in Nat /\ HeadLength \in Nat /\ BodyLength \in Nat
         /\ Len(file) \in Nat /\ Len(valid) \in Nat /\ Pending \in Nat
         /\ \A i \in 1 .. Len(file) : file[i] \in Nat
         /\ \A i \in 1 .. Len(valid) : valid[i] \in Nat
         /\ framing \in {"close", "length", "chunked"}
<1>1. /\ received \in Nat /\ HeadLength \in Nat /\ BodyLength \in Nat
      /\ framing \in {"close", "length", "chunked"}
  BY Positive, WireLength DEF WorkerInv, StreamInv, StreamTypeOK
<1>2. file \in Seq(1 .. Len(Wire)) /\ valid \in Seq(1 .. Len(Wire))
  BY DEF WorkerInv, WorkerTypeOK, BufferTypeOK
<1>3. /\ Len(file) \in Nat /\ Len(valid) \in Nat
      /\ \A i \in 1 .. Len(file) : file[i] \in 1 .. Len(Wire)
      /\ \A i \in 1 .. Len(valid) : valid[i] \in 1 .. Len(Wire)
  BY <1>2
<1>4. QED
  BY <1>1, <1>3 DEF Pending

(* A worker that has not begun the body, and one that ends before it. *)
LEMMA HeaderFile ==
  ASSUME WorkerInv, Scanning, Next, state \in Begun, BreakWhole'
  PROVE  /\ UNCHANGED <<framing, pieces>>
         /\ file' = <<>> /\ reading' = "no"
         /\ received' \in Nat /\ received' <= HeadLength
         /\ InBody' =>
              /\ received' = HeadLength
              /\ remain' = CASE framing = "length" -> BodyLength
                             [] framing = "chunked" -> -1
                             [] framing = "close" -> 0
<1> USE DEF WorkerInv
<1>1. /\ received \in Nat /\ HeadLength \in Nat /\ 4 <= HeadLength
  BY Numbers, WireLength DEF StreamInv, StreamTypeOK
<1>2. /\ reading = "no" /\ file = <<>>
      /\ state # "Receiving" => received = 0
      /\ at \notin {"body"} \cup Ends /\ ~(at = "idle" /\ is_receiving_body /\ state = "ReceivingBody")
  BY DEF NotBegun, Places, Begun
<1>3. /\ UNCHANGED <<file, reading>>
      /\ InBody' => HeaderComplete
      /\ UNCHANGED streamVars \/ (Get(1) /\ state = "Receiving")
           \/ ((Arrive \/ ServerCloses) /\ UNCHANGED state)
  <2>1. CASE Event
    BY <1>2, <2>1, EventEnters DEF Event, bufferVars, InBody, Begun, Ends
  <2>2. CASE ConnectContinues \/ Connected \/ ConnectFails \/ Send \/ ScanNothing
              \/ LfNotThere
    BY <1>2, <2>2 DEF ConnectContinues, Connected, ConnectFails, Send, ScanNothing,
                      LfNotThere, bufferVars, InBody, Begun, Return
  <2>3. CASE ScanByte \/ NoLfFollows \/ HeaderComplete \/ HeaderInvalid
    BY <1>2, <2>3 DEF ScanByte, NoLfFollows, HeaderComplete, HeaderInvalid, Throw,
                 CreateBuffer, bufferVars, InBody, Begun, Ends, Places
  <2>4. CASE ReadBuffer \/ BodyRead \/ BodyAgain \/ BodyThrows \/ WriteFile
              \/ WriteThrows
    BY <1>2, <2>4 DEF ReadBuffer, BodyRead, BodyAgain, BodyThrows, WriteFile,
                      WriteThrows
  <2>5. CASE StreamThrows \/ ForceStop
    BY <1>2, <2>5 DEF StreamThrows, Throw, ForceStop, bufferVars, InBody, Begun
  <2>6. CASE Network
    BY <1>2, <2>6 DEF Network, bufferVars, workerVars, InBody, Begun, Ends
  <2>7. QED
    BY <2>1, <2>2, <2>3, <2>4, <2>5, <2>6 DEF Next, Process
<1>4. /\ UNCHANGED <<framing, pieces>>
      /\ received' \in {received, received + 1}
      /\ state # "Receiving" => received' = received
  BY <1>3, HeaderByte, ParametersKept, NetworkStep DEF streamVars
<1>5. BreakWhole
  BY <1>4 DEF BreakWhole
<1>6. received <= HeadLength - 1
  BY <1>1, <1>2, <1>5 DEF Scanning
<1>7. CASE HeaderComplete
  <2>1. state = "Receiving" /\ at = "lf" /\ Get(1) /\ CreateBuffer
    BY <1>7 DEF HeaderComplete, Places
  <2>2. received' = HeadLength
    BY <1>1, <1>5, <2>1, HeaderByte DEF Scanning
  <2>3. QED
    BY <1>1, <1>2, <1>3, <1>4, <2>1, <2>2 DEF CreateBuffer
<1>8. CASE ~HeaderComplete
  <2>1. ~InBody'
    BY <1>3, <1>8
  <2>2. QED
    BY <1>1, <1>2, <1>3, <1>4, <1>6, <2>1
<1>9. QED
  BY <1>7, <1>8

(* One read() of the buffer: the bytes it returns are the next ones, and   *)
(* not more than the length that has been given.                           *)
LEMMA BodyReadFile ==
  ASSUME FileInv, BodyRead, WorkerInv', Plain'
  PROVE  /\ Plain /\ InBody /\ InBody'
         /\ WithinBody' /\ LastBytes' /\ Taken'
         /\ received' - Pending' = received /\ Pending = 0
         /\ UNCHANGED <<file, short>>
<1> USE DEF FileInv, WorkerInv
<1>1. /\ at = "body" /\ state = "ReceivingBody" /\ BufferRead
      /\ UNCHANGED <<state, at, file, short>>
  BY DEF BodyRead, workerVars, Places
<1>2. UNCHANGED <<framing, pieces>>
  BY <1>1, BufferReadStep DEF BufferRead, NoLengthRead, FixLengthRead,
     ChunkedCall, ChunkedHead, ChunkedLf, ChunkedData
<1>3. Plain /\ framing # "chunked"
  BY <1>2 DEF Plain, BreakWhole
<1>4. /\ NoLengthRead \/ FixLengthRead
      /\ reading = "call" /\ Pending = 0
  BY <1>1, <1>3 DEF BufferRead, NoLengthRead, FixLengthRead, ChunkedCall,
                    ChunkedHead, ChunkedLf, ChunkedData, Places, Pending
<1>5. /\ InBody /\ InBody'
      /\ HeadLength <= received
      /\ ~short => received = HeadLength + Len(file)
      /\ framing = "length" => remain = HeadLength + BodyLength - received
      /\ received <= HeadLength + BodyLength
  BY <1>1, <1>3, <1>4, Numbers DEF InBody, Taken, WithinBody
<1>6. CASE /\ received' = received /\ remain' = remain
           /\ \/ reading' = "again"
              \/ (reading' = "returned" /\ valid' = <<>>)
  <2>1. Len(<<>>) = 0 /\ Pending' = 0
    BY <1>6 DEF Pending
  <2>2. LastBytes'
    BY <1>6, <2>1 DEF LastBytes
  <2>3. QED
    BY <1>1, <1>2, <1>3, <1>4, <1>5, <1>6, <2>1, <2>2, Numbers
       DEF WithinBody, Taken
<1>7. ASSUME NEW n, Get(n), valid' = Positions(n), reading' = "returned",
             framing = "length" => remain' = remain - n /\ n <= remain
      PROVE  /\ WithinBody' /\ LastBytes' /\ Taken'
             /\ received' - Pending' = received
  <2>1. /\ n \in Nat /\ n >= 1 /\ received' = received + n
        /\ received + n <= Len(Wire)
        /\ Len(Positions(n)) = n
        /\ \A i \in 1 .. n : Positions(n)[i] = received + i
    BY <1>7, PositionsOf, GetStep
  <2>2. Pending' = n /\ Len(valid') = n /\ received \in Nat /\ received' - n = received
    BY <1>7, <2>1, Numbers DEF Pending
  <2>3. LastBytes'
    BY <1>7, <2>1, <2>2 DEF LastBytes
  <2>4. received + n <= HeadLength + BodyLength
    <3>1. CASE framing = "length"
      BY <1>5, <1>7, <2>1, <3>1, Numbers
    <3>2. CASE framing = "close"
      <4>1. "close" \in Framings /\ Wire = Wires["close"]
        BY <3>2 DEF StreamInv, StreamTypeOK, Wire
      <4>2. QED
        BY <2>1, <4>1, BodyAssumption
    <3>3. QED
      BY <1>3, <3>1, <3>2, Numbers
  <2>5. WithinBody'
    BY <2>1, <2>4 DEF WithinBody
  <2>6. Taken'
    <3>1. HeadLength + Pending' <= received'
      BY <1>5, <2>1, <2>2, Numbers
    <3>2. ~short => received' = HeadLength + Len(file) + Pending'
      BY <1>5, <2>1, <2>2, Numbers
    <3>3. framing = "length" => remain' = HeadLength + BodyLength - received'
      BY <1>5, <1>7, <2>1, Numbers
    <3>4. QED
      BY <1>1, <1>2, <3>1, <3>2, <3>3 DEF Taken
  <2>7. QED
    BY <2>1, <2>2, <2>3, <2>5, <2>6
<1>8. CASE NoLengthRead
  <2>1. CASE BufferAgain \/ /\ reading' = "returned"
                            /\ valid' = <<>>
                            /\ UNCHANGED <<streamVars, remain>>
    BY <1>1, <1>3, <1>4, <1>5, <1>6, <2>1 DEF BufferAgain, streamVars
  <2>2. CASE /\ Get(AtMost(BufferSize))
             /\ valid' = Positions(AtMost(BufferSize))
             /\ reading' = "returned"
    BY <1>1, <1>3, <1>4, <1>5, <1>7, <1>8, <2>2 DEF NoLengthRead
  <2>3. QED
    BY <1>8, <2>1, <2>2 DEF NoLengthRead
<1>9. CASE FixLengthRead
  <2> DEFINE m == Min({remain, BufferSize})
             n == AtMost(m)
  <2>1. CASE BufferAgain \/ /\ reading' = "returned"
                            /\ valid' = <<>>
                            /\ UNCHANGED <<streamVars, remain>>
    BY <1>1, <1>3, <1>4, <1>5, <1>6, <2>1 DEF BufferAgain, streamVars
  <2>2. CASE /\ Get(n)
             /\ valid' = Positions(n)
             /\ remain' = remain - n
             /\ reading' = "returned"
    <3>1. remain \in Int /\ BufferSize \in Int
      BY DEF WorkerTypeOK, BufferTypeOK
    <3>2. m \in Int /\ m <= remain
      BY <3>1, MinOfTwo
    <3>3. n \in Int /\ n <= m
      BY <3>2, AtMostIs
    <3>4. n <= remain
      BY <3>1, <3>2, <3>3
    <3> HIDE DEF n
    <3>5. QED
      BY <1>1, <1>3, <1>4, <1>5, <1>7, <2>2, <3>4
  <2>3. QED
    BY <1>9, <2>1, <2>2 DEF FixLengthRead
<1>10. QED
  BY <1>4, <1>8, <1>9

(* One write() to the file: what it takes of the buffer follows what is    *)
(* there, and with nothing short it is the next bytes of the body.         *)
LEMMA WriteFileFile ==
  ASSUME FileInv, WriteFile, WorkerInv', Plain'
  PROVE  WithinBody' /\ LastBytes' /\ Ordered' /\ Whole' /\ Taken'
<1> USE DEF FileInv, WorkerInv
<1>1. /\ state = "ReceivingBody" /\ reading = "returned" /\ reading' = "no"
      /\ UNCHANGED <<streamVars, remain, valid>>
      /\ InBody /\ Pending = Len(valid) /\ Pending' = 0
  BY DEF WriteFile, Places, InBody, Pending
<1>2. Plain /\ UNCHANGED <<received, framing>>
  BY <1>1 DEF streamVars, Plain, BreakWhole
<1>3. PICK n \in 0 .. Len(valid) :
        /\ short' = (short \/ n < Len(valid))
        /\ Len(file') = Len(file) + n
        /\ \A i \in 1 .. Len(file) : file'[i] = file[i]
        /\ \A i \in 1 .. n : file'[Len(file) + i] = valid[i]
  BY WriteStep
<1>4. /\ HeadLength + Len(valid) <= received
      /\ ~short => received = HeadLength + Len(file) + Len(valid)
      /\ framing = "length" => remain = HeadLength + BodyLength - received
      /\ \A i \in 1 .. Len(valid) : valid[i] = received - Len(valid) + i
      /\ \A i \in 1 .. Len(file) :
           /\ HeadLength < file[i] /\ file[i] <= received - Len(valid)
           /\ i > 1 => file[i - 1] < file[i]
      /\ ~short => \A i \in 1 .. Len(file) : file[i] = HeadLength + i
  BY <1>1, <1>2 DEF Taken, LastBytes, Ordered, Whole
<1> DEFINE L == Len(file)
           V == Len(valid)
<1>5. /\ L \in Nat /\ V \in Nat /\ n \in Nat /\ n <= V /\ Len(file') = L + n
      /\ received \in Nat /\ HeadLength \in Nat /\ BodyLength \in Nat
      /\ \A i \in 1 .. L : file[i] \in Nat /\ file'[i] = file[i]
      /\ \A k \in 1 .. n : k \in 1 .. V /\ file'[L + k] = received - V + k
  <2>1. /\ L \in Nat /\ V \in Nat /\ received \in Nat /\ HeadLength \in Nat
        /\ BodyLength \in Nat /\ \A i \in 1 .. L : file[i] \in Nat
    BY Numbers
  <2>2. n \in Nat /\ n <= V /\ \A k \in 1 .. n : k \in 1 .. V
    BY <2>1
  <2>3. \A k \in 1 .. n : file'[L + k] = received - V + k
    BY <1>3, <1>4, <2>2
  <2>4. QED
    BY <1>3, <2>1, <2>2, <2>3
<1> HIDE DEF L, V
<1>6. ASSUME NEW i \in 1 .. L + n, ~(i \in 1 .. L)
      PROVE  i - L \in 1 .. n /\ i = L + (i - L) /\ file'[i] = received - V + (i - L)
  <2>1. i - L \in 1 .. n /\ i = L + (i - L)
    BY <1>5, <1>6
  <2>2. file'[L + (i - L)] = received - V + (i - L)
    BY <1>5, <2>1
  <2>3. QED
    BY <2>1, <2>2
<1>7. ASSUME NEW i \in 1 .. L + n
      PROVE  /\ HeadLength < file'[i] /\ file'[i] <= received
             /\ i > 1 => file'[i - 1] < file'[i]
  <2>1. CASE i \in 1 .. L
    <3>1. /\ file'[i] = file[i] /\ file[i] \in Nat
          /\ i > 1 => file'[i - 1] = file[i - 1]
      BY <1>5, <2>1
    <3>2. /\ HeadLength < file[i] /\ file[i] <= received - V
          /\ i > 1 => file[i - 1] < file[i]
      BY <1>4, <2>1 DEF L, V
    <3>3. QED
      BY <1>5, <3>1, <3>2
  <2>2. CASE ~(i \in 1 .. L)
    <3>1. i - L \in 1 .. n /\ file'[i] = received - V + (i - L)
      BY <1>6, <2>2
    <3>2. HeadLength + V <= received
      BY <1>4 DEF V
    <3>3. HeadLength < file'[i] /\ file'[i] <= received
      BY <1>5, <3>1, <3>2
    <3>4. CASE i > 1 /\ i - 1 \in 1 .. L
      <4>1. file'[i - 1] <= received - V /\ file'[i - 1] \in Nat
        BY <1>4, <1>5, <3>4 DEF L, V
      <4>2. QED
        BY <1>5, <3>1, <3>3, <4>1
    <3>5. CASE i > 1 /\ ~(i - 1 \in 1 .. L)
      <4>1. i - 1 \in 1 .. L + n
        BY <1>5, <3>5
      <4>2. file'[i - 1] = received - V + ((i - 1) - L)
        BY <1>6, <3>5, <4>1
      <4>3. QED
        BY <1>5, <3>1, <3>3, <4>2
    <3>6. QED
      BY <3>3, <3>4, <3>5
  <2>3. QED
    BY <2>1, <2>2
<1>8. Ordered'
  BY <1>1, <1>2, <1>5, <1>7 DEF Ordered
<1>9. Whole' /\ (~short' => received = HeadLength + L + n)
  <2> SUFFICES ASSUME ~short'
               PROVE  /\ \A i \in 1 .. L + n : file'[i] = HeadLength + i
                      /\ received = HeadLength + L + n
    BY <1>5 DEF Whole
  <2>1. ~short /\ n = V
    <3>1. ~short /\ ~(n < V)
      BY <1>3, Zenon DEF V
    <3>2. QED
      BY <1>5, <3>1
  <2>2. received = HeadLength + L + V
    BY <1>4, <2>1 DEF L, V
  <2>3. ASSUME NEW i \in 1 .. L + n PROVE file'[i] = HeadLength + i
    <3>1. CASE i \in 1 .. L
      BY <1>4, <1>5, <2>1, <3>1 DEF L
    <3>2. CASE ~(i \in 1 .. L)
      BY <1>5, <1>6, <2>2, <3>2
    <3>3. QED
      BY <3>1, <3>2
  <2>4. QED
    BY <1>5, <2>1, <2>2, <2>3
<1>10. Taken'
  BY <1>1, <1>2, <1>4, <1>5, <1>9 DEF Taken
<1>11. WithinBody' /\ LastBytes'
  BY <1>1, <1>2 DEF WithinBody, LastBytes
<1>12. QED
  BY <1>8, <1>9, <1>10, <1>11

(* Every step keeps the file the beginning of the body.                    *)
LEMMA FileInvStep == FileInv /\ [Next]_vars => FileInv'
<1> SUFFICES ASSUME FileInv, [Next]_vars PROVE FileInv'
  OBVIOUS
<1> USE DEF FileInv
<1>1. WorkerInv' /\ Scanning'
  BY WorkerInvStep, ScanningStep
<1> SUFFICES ASSUME Plain'
             PROVE  WithinBody' /\ LastBytes' /\ Ordered' /\ Whole' /\ Taken'
  BY <1>1 DEF WithinBody, LastBytes, Ordered, Whole, Taken
<1>2. CASE Next /\ state \in Begun
  <2>1. /\ framing' = framing /\ file' = <<>> /\ reading' = "no"
        /\ received' \in Nat /\ received' <= HeadLength
        /\ InBody' => /\ received' = HeadLength
                      /\ framing = "length" => remain' = BodyLength
    BY <1>2, HeaderFile DEF Plain
  <2>2. Len(<<>>) = 0 /\ Pending' = 0
    BY <2>1 DEF Pending
  <2>3. HeadLength \in Nat /\ BodyLength \in Nat
    BY Numbers
  <2>4. QED
    BY <2>1, <2>2, <2>3 DEF WithinBody, LastBytes, Ordered, Whole, Taken
<1>3. CASE BodyRead
  <2>1. /\ Plain /\ received' - Pending' = received /\ Pending = 0
        /\ UNCHANGED <<file, short>>
        /\ WithinBody' /\ LastBytes' /\ Taken'
    BY <1>1, <1>3, BodyReadFile
  <2>2. Ordered' /\ Whole'
    BY <2>1, Numbers DEF Ordered, Whole
  <2>3. QED
    BY <2>1, <2>2
<1>4. CASE WriteFile
  BY <1>1, <1>4, WriteFileFile
<1>5. ASSUME UNCHANGED <<framing, pieces, received, file, short, valid, remain>>,
             InBody' => InBody,
             \/ reading' = reading
             \/ reading # "returned" /\ reading' # "returned"
      PROVE  WithinBody' /\ LastBytes' /\ Ordered' /\ Whole' /\ Taken'
  <2>1. Pending' = Pending /\ (reading' = "returned" => reading = "returned")
    BY <1>5 DEF Pending
  <2>2. Plain
    BY <1>5 DEF Plain, BreakWhole
  <2>3. QED
    BY <1>5, <2>1, <2>2 DEF WithinBody, LastBytes, Ordered, Whole, Taken
<1>6. CASE Next /\ state \notin Begun /\ ~BodyRead /\ ~WriteFile
  <2>1. CASE Event
    BY <1>5, <1>6, <2>1, EventEnters
    DEF Event, streamVars, bufferVars, InBody, Begun
  <2>2. CASE ReadBuffer \/ BodyAgain
    BY <1>5, <2>2 DEF ReadBuffer, BodyAgain, Return, streamVars, workerVars, InBody
  <2>3. CASE BodyThrows \/ WriteThrows \/ StreamThrows
    BY <1>5, <2>3 DEF BodyThrows, WriteThrows, StreamThrows, Throw, streamVars,
                      bufferVars, InBody
  <2>4. CASE ForceStop
    BY <1>5, <2>4 DEF ForceStop, streamVars, bufferVars, InBody
  <2>5. CASE Network
    BY <1>5, <2>5, NetworkStep
    DEF Network, bufferVars, workerVars, InBody, WorkerInv
  <2>6. CASE \/ ConnectContinues \/ Connected \/ ConnectFails \/ Send
             \/ ScanNothing \/ ScanByte \/ LfNotThere \/ NoLfFollows
             \/ HeaderComplete \/ HeaderInvalid
    BY <1>6, <2>6
    DEF ConnectContinues, Connected, ConnectFails, Send, ScanNothing, ScanByte,
        LfNotThere, NoLfFollows, HeaderComplete, HeaderInvalid,
        WorkerInv, Places, Begun
  <2>7. QED
    BY <1>6, <2>1, <2>2, <2>3, <2>4, <2>5, <2>6 DEF Next, Process
<1>7. CASE UNCHANGED vars
  BY <1>5, <1>7 DEF vars, streamVars, bufferVars, workerVars, InBody
<1>8. QED
  BY <1>2, <1>3, <1>4, <1>6, <1>7

(* The inductive invariant of the file.                                    *)
LEMMA FileInvariant == Spec => []FileInv
<1>1. Init => FileInv
  <2> SUFFICES ASSUME Init PROVE FileInv
    OBVIOUS
  <2>1. /\ file = <<>> /\ reading = "no" /\ received = 0
        /\ state = "Connecting" /\ at = "idle"
    BY DEF Init, StreamInit, BufferInit
  <2>2. WorkerInv /\ Scanning
    BY <2>1, WorkerInvInit DEF Scanning
  <2>3. Len(<<>>) = 0 /\ Pending = 0
    BY <2>1 DEF Pending
  <2>4. QED
    BY <2>1, <2>2, <2>3, Numbers
    DEF FileInv, WithinBody, LastBytes, Ordered, Whole, Taken, InBody
<1>2. FileInv /\ [Next]_vars => FileInv'
  BY FileInvStep
<1>3. QED
  BY <1>1, <1>2, PTL DEF Spec

(* The bytes of a body that is not chunked. *)
LEMMA PlainPayload ==
  ASSUME framing # "chunked", framing \in Framings
  PROVE  /\ Len(Payload) = BodyLength /\ DOMAIN Payload = 1 .. BodyLength
         /\ \E S : Payload \in Seq(S)
         /\ \A j \in 1 .. BodyLength :
              HeadLength + j <= Len(Wire) => Payload[j] = HeadLength + j
<1> DEFINE body == [i \in 1 .. Len(Wire) - HeadLength |-> HeadLength + i]
           S == {body[i] : i \in 1 .. BodyLength}
<1>1. Payload = SubSeq(body, 1, BodyLength)
  BY DEF Payload
<1>2. BodyLength \in Nat /\ HeadLength \in Nat /\ Len(Wire) \in Nat
  BY WireLength
<1>3. \A j \in 1 .. BodyLength : HeadLength + j <= Len(Wire) => body[j] = HeadLength + j
  BY <1>2
<1>4. \A i \in 1 .. BodyLength : body[i] \in S
  OBVIOUS
<1> HIDE DEF body, S
<1>5. /\ Payload \in Seq(S)
      /\ Len(Payload) = IF 1 <= BodyLength THEN BodyLength - 1 + 1 ELSE 0
      /\ \A i \in 1 .. BodyLength - 1 + 1 : Payload[i] = body[1 + i - 1]
  BY <1>1, <1>2, <1>4, SubSeqProperties
<1>6. Len(Payload) = BodyLength /\ \A i \in 1 .. BodyLength : Payload[i] = body[i]
  <2>1. BodyLength - 1 + 1 = BodyLength /\ \A i \in 1 .. BodyLength : 1 + i - 1 = i
    BY <1>2
  <2>2. QED
    BY <1>2, <1>5, <2>1
<1>7. DOMAIN Payload = 1 .. BodyLength
  BY <1>5, <1>6, LenProperties
<1>8. QED
  BY <1>3, <1>5, <1>6, <1>7

(* A byte taken off the stream is never dropped, for any answer and any    *)
(* cutting that leaves the end of the header whole (worker.cpp:114).       *)
THEOREM TakenCorrect == Spec => []NothingTakenIsLost
<1>1. FileInv => NothingTakenIsLost
  BY Numbers DEF FileInv, NothingTakenIsLost, Taken, Plain, InBody, Pending
<1>2. QED
  BY <1>1, FileInvariant, PTL

(* What is written is the beginning of the body, in order and complete but *)
(* for short writes, whatever the lengths, the cutting, the faults and the *)
(* size of the buffer (worker.cpp:121).                                    *)
THEOREM WrittenCorrect == Spec => []WritesBody
<1>1. FileInv => WritesBody
  <2> SUFFICES ASSUME FileInv, BreakWhole
               PROVE  /\ InOrder
                      /\ ~short => \A i \in DOMAIN file :
                           i \in DOMAIN Payload /\ file[i] = Payload[i]
    BY DEF WritesBody
  <2> USE DEF FileInv
  <2>1. /\ Len(file) \in Nat /\ DOMAIN file = 1 .. Len(file)
        /\ framing \in Framings
    BY LenProperties DEF WorkerInv, WorkerTypeOK, StreamTypeOK
  <2>2. CASE framing = "chunked"
    <3>1. DOMAIN file = {}
      BY <2>2 DEF WorkerInv, ChunksLost
    <3>2. QED
      BY <3>1 DEF InOrder
  <2>3. CASE framing # "chunked"
    <3>1. Plain
      BY <2>3 DEF Plain
    <3>2. /\ received \in Nat /\ HeadLength \in Nat /\ BodyLength \in Nat
          /\ Pending \in Nat /\ received <= Len(Wire) /\ Len(Wire) \in Nat
          /\ \A i \in 1 .. Len(file) : file[i] \in Nat
      BY Numbers, Positive, WireLength DEF WorkerInv, StreamInv, StreamTypeOK
    <3>3. received <= HeadLength + BodyLength
      BY <3>1 DEF WithinBody
    <3>4. ASSUME NEW i \in 1 .. Len(file)
          PROVE  /\ file[i] - HeadLength \in 1 .. BodyLength
                 /\ HeadLength + (file[i] - HeadLength) = file[i]
                 /\ file[i] <= Len(Wire)
      <4>1. HeadLength < file[i] /\ file[i] <= received - Pending
        BY <3>1 DEF Ordered
      <4>2. QED
        BY <3>2, <3>3, <4>1
    <3>5. ASSUME NEW i \in 1 .. Len(file)
          PROVE  file[i] - HeadLength \in DOMAIN Payload
                 /\ file[i] = Payload[file[i] - HeadLength]
      BY <2>1, <2>3, <3>4, PlainPayload
    <3>6. \A i \in 1 .. Len(file) : i > 1 => file[i - 1] < file[i]
      BY <3>1 DEF Ordered
    <3>7. InOrder
      BY <2>1, <3>5, <3>6 DEF InOrder
    <3>8. ASSUME ~short, NEW i \in 1 .. Len(file)
          PROVE  i \in DOMAIN Payload /\ file[i] = Payload[i]
      <4>1. file[i] = HeadLength + i
        BY <3>1, <3>8 DEF Whole
      <4>2. file[i] - HeadLength = i
        BY <3>2, <4>1
      <4>3. QED
        BY <3>5, <4>2
    <3>9. QED
      BY <2>1, <3>7, <3>8
  <2>4. QED
    BY <2>2, <2>3
<1>2. QED
  BY <1>1, FileInvariant, PTL

(* A worker that stops by itself has written the whole body: by the length *)
(* that was given, or at the close of a server that has sent all of it     *)
(* (worker.cpp:124).                                                       *)
THEOREM CompleteCorrect == Spec => []CompleteWhenStopped
<1>1. FileInv => CompleteWhenStopped
  <2> SUFFICES ASSUME FileInv, framing # "chunked", BreakWhole,
                      at = "stopped", ~short,
                      arrived = Len(Wire) \/ framing = "length"
               PROVE  file = Payload
    BY DEF CompleteWhenStopped, HasWhole
  <2> USE DEF FileInv
  <2>1. /\ framing \in Framings /\ file \in Seq(1 .. Len(Wire))
        /\ Finished /\ reading = "no" /\ Pending = 0
    BY DEF WorkerInv, WorkerTypeOK, StreamTypeOK, Places, Pending
  <2>2. /\ received = HeadLength + Len(file)
        /\ framing = "length" => remain = HeadLength + BodyLength - received
        /\ \A i \in 1 .. Len(file) : file[i] = HeadLength + i
    BY <2>1, Numbers DEF Taken, Whole, Plain, InBody
  <2>3. received = HeadLength + BodyLength /\ received <= Len(Wire)
    <3>1. CASE framing = "length"
      BY <2>1, <2>2, <3>1, Numbers, Positive, WireLength
         DEF Finished, WorkerInv, StreamInv
    <3>2. CASE framing = "close"
      <4>1. received = Len(Wire)
        BY <2>1, <3>2 DEF Finished, WorkerInv, EndFound
      <4>2. "close" \in Framings /\ Wire = Wires["close"]
        BY <2>1, <3>2 DEF Wire
      <4>3. QED
        BY <4>1, <4>2, WireLength, BodyAssumption
    <3>3. QED
      BY <3>1, <3>2, Numbers
  <2>4. Len(file) = BodyLength
    BY <2>2, <2>3, Numbers
  <2>5. \A i \in 1 .. BodyLength : HeadLength + i <= Len(Wire)
    BY <2>3, Numbers, WireLength
  <2>6. /\ Len(Payload) = BodyLength
        /\ \A i \in 1 .. BodyLength : Payload[i] = HeadLength + i
    BY <2>1, <2>5, PlainPayload
  <2>7. PICK S : Payload \in Seq(S)
    BY <2>1, PlainPayload
  <2> DEFINE T == S \cup 1 .. Len(Wire)
  <2>8. Payload \in Seq(T) /\ file \in Seq(T)
    BY <2>1, <2>7, SeqMonotonic
  <2> HIDE DEF T
  <2>9. QED
    BY <2>2, <2>4, <2>6, <2>8, SeqEqual
<1>2. QED
  BY <1>1, FileInvariant, PTL

-----------------------------------------------------------------------------
(***************************************************************************)
(* The body of an answer that is chunked.                                  *)
(***************************************************************************)

(* Where a read() of the answer can be around the size at p: before it,    *)
(* with the line break before taken or not; in the chunk head, which has   *)
(* what was read since; behind the carriage return; in the bytes of the    *)
(* chunk; behind the line break of the last size.                          *)
AtOpening(p) ==
  /\ remain = -1
  /\ reading \in {"no", "call", "again", "returned"}
  /\ received \in p - 3 .. p - 1

SizeRead(p) ==
  chunk_head \in {<<Wire[p]>>, <<"lf", Wire[p]>>, <<"cr", "lf", Wire[p]>>}

InHead(p) ==
  /\ remain = -1
  /\ reading = "head"
  /\ \/ received = p - 3 /\ chunk_head = <<>>
     \/ received = p - 2 /\ chunk_head \in {<<>>, <<"cr">>}
     \/ received = p - 1 /\ chunk_head \in {<<>>, <<"lf">>, <<"cr", "lf">>}
     \/ received = p /\ SizeRead(p)

AtLf(p) ==
  /\ remain = -1
  /\ reading = "lf"
  /\ received = p + 1 /\ SizeRead(p)

InData(p) ==
  /\ remain > 0
  /\ reading \in {"no", "call", "data", "again", "returned"}
  /\ Wire[p] # "0" /\ received + remain = NextSize(p) - 3

AtLast(p) ==
  /\ remain = 0
  /\ reading = "returned" \/ at = "stopped"
  /\ Wire[p] = "0" /\ received = p + 2

Chunked == framing = "chunked" /\ BreakWhole /\ SizesWhole

Around(p) == AtOpening(p) \/ InHead(p) \/ AtLf(p) \/ InData(p) \/ AtLast(p)

(* A chunked body is never read but as the chunks it consists of.          *)
InChunk ==
  Chunked /\ InBody /\ reading # "threw" => \E p \in ChunkSizes : Around(p)

ChunkInv == WorkerInv /\ Scanning /\ InChunk

(* A size, the line breaks around it and the size after it. *)
LEMMA ChunkAt ==
  ASSUME framing = "chunked", framing \in Framings
  PROVE  /\ HeadLength + 1 \in ChunkSizes
         /\ \A p \in ChunkSizes :
              /\ p \in Nat /\ HeadLength + 1 <= p /\ p <= Len(Wire) - 4
              /\ Wire[p] \in DOMAIN Digits
              /\ Wire[p - 2] = "cr" /\ Wire[p - 1] = "lf"
              /\ Wire[p + 1] = "cr" /\ Wire[p + 2] = "lf"
              /\ Wire[p] = "0" => p = Len(Wire) - 4
              /\ Wire[p] # "0" => NextSize(p) \in ChunkSizes
              /\ NextSize(p) = p + 5 + Digits[Wire[p]]
              /\ Digits[Wire[p]] \in Nat
              /\ Digits[Wire[p]] = 0 <=> Wire[p] = "0"
<1>1. "chunked" \in Framings /\ Wire = Wires["chunked"]
  BY DEF Wire
<1>2. \A c \in DOMAIN Digits : Digits[c] \in Nat /\ (Digits[c] = 0 <=> c = "0")
  BY DEF Digits
<1>3. HeadLength \in Nat /\ Len(Wire) \in Nat
  BY WireLength
<1>4. /\ HeadLength + 1 \in ChunkSizes
      /\ \A p \in ChunkSizes :
           /\ p \in HeadLength + 1 .. Len(Wire) - 4
           /\ Wire[p] \in DOMAIN Digits
           /\ Wire[p - 2] = "cr" /\ Wire[p - 1] = "lf"
           /\ Wire[p + 1] = "cr" /\ Wire[p + 2] = "lf"
           /\ IF Wire[p] = "0" THEN p = Len(Wire) - 4 ELSE NextSize(p) \in ChunkSizes
  BY <1>1, ChunksAssumption, Zenon
<1>5. \A p : NextSize(p) = p + 5 + Digits[Wire[p]]
  BY <1>1 DEF NextSize
<1>6. ASSUME NEW p \in ChunkSizes
      PROVE  /\ p \in Nat /\ HeadLength + 1 <= p /\ p <= Len(Wire) - 4
             /\ Digits[Wire[p]] \in Nat
             /\ Digits[Wire[p]] = 0 <=> Wire[p] = "0"
  <2>1. p \in HeadLength + 1 .. Len(Wire) - 4 /\ Wire[p] \in DOMAIN Digits
    BY <1>4
  <2>2. p \in Nat /\ HeadLength + 1 <= p /\ p <= Len(Wire) - 4
    BY <1>3, <2>1
  <2>3. QED
    BY <1>2, <2>1, <2>2
<1>7. QED
  BY <1>4, <1>5, <1>6

(* The size that >> extracts from a chunk head is the digit in it, whether *)
(* the line break before was taken as a part of the head or not.           *)
LEMMA ChunkSizeOf ==
  ASSUME NEW p, Wire[p] \in DOMAIN Digits, SizeRead(p)
  PROVE  ChunkSize(chunk_head) = Digits[Wire[p]]
<1> DEFINE d == Wire[p]
<1> DEFINE first == {i \in 1 .. Len(chunk_head) : chunk_head[i] \notin {"cr", "lf"}}
<1>1. d \notin {"cr", "lf"}
  BY DEF Digits
<1>2. PICK k \in {1, 2, 3} : first = {k} /\ chunk_head[k] = d
  <2>1. CASE chunk_head = <<d>>
    <3>1. first = {1} /\ chunk_head[1] = d
      BY <1>1, <2>1
    <3>2. QED
      BY <3>1
  <2>2. CASE chunk_head = <<"lf", d>>
    <3>1. first = {2} /\ chunk_head[2] = d
      BY <1>1, <2>2
    <3>2. QED
      BY <3>1
  <2>3. CASE chunk_head = <<"cr", "lf", d>>
    <3>1. first = {3} /\ chunk_head[3] = d
      BY <1>1, <2>3
    <3>2. QED
      BY <3>1
  <2>4. QED
    BY <2>1, <2>2, <2>3 DEF SizeRead
<1> HIDE DEF first
<1>3. Min(first) = k
  <2>1. first = {k, k} /\ k \in Int
    BY <1>2
  <2>2. Min({k, k}) \in {k, k}
    BY <2>1, MinOfTwo
  <2>3. QED
    BY <2>1, <2>2
<1>4. ChunkSize(chunk_head) =
        IF first # {} /\ chunk_head[Min(first)] \in DOMAIN Digits
          THEN Digits[chunk_head[Min(first)]] ELSE 0
  BY DEF ChunkSize, first
<1>5. QED
  BY <1>2, <1>3, <1>4

(* Where read() has nothing to return, a piece ends.                       *)
LEMMA AgainAt ==
  ASSUME WorkerInv, Again
  PROVE  received \in pieces \cup {0}
BY AvailableArrived DEF WorkerInv, StreamInv, StreamTypeOK, Again

(* A kAgain while a chunk is read comes at a place read() can go on from.  *)
LEMMA ChunkAgain ==
  ASSUME WorkerInv, Chunked, NEW p \in ChunkSizes, BufferAgain,
         InHead(p) \/ AtLf(p) \/ (InData(p) /\ reading = "data")
  PROVE  Around(p)'
<1>1. /\ received \in pieces \cup {0} /\ received \in Nat
      /\ UNCHANGED <<received, remain>> /\ reading' = "again"
      /\ framing' = framing
  BY AgainAt, Positive
  DEF WorkerInv, StreamInv, BufferAgain, streamVars
<1>2. /\ p \in Nat /\ HeadLength + 1 <= p /\ HeadLength \in Nat
      /\ framing = "chunked" /\ framing \in Framings
  BY ChunkAt, WireLength DEF Chunked, WorkerInv, WorkerTypeOK, StreamTypeOK
<1>3. p \notin pieces /\ p + 1 \notin pieces
  BY DEF Chunked, SizesWhole
<1>4. received # p /\ received # p + 1
  BY <1>1, <1>2, <1>3
<1>5. CASE InHead(p)
  <2>1. received \in p - 3 .. p - 1
    BY <1>2, <1>4, <1>5 DEF InHead
  <2>2. QED
    BY <1>1, <1>5, <2>1 DEF InHead, AtOpening, Around
<1>6. CASE AtLf(p)
  BY <1>4, <1>6 DEF AtLf
<1>7. CASE InData(p)
  BY <1>1, <1>7 DEF InData, Around, Wire
<1>8. QED
  BY <1>5, <1>6, <1>7

(* Appending to a sequence of no, one or two elements. *)
LEMMA ShortAppend ==
  ASSUME NEW a, NEW b, NEW c
  PROVE  /\ Append(<<>>, a) = <<a>>
         /\ Append(<<a>>, b) = <<a, b>>
         /\ Append(<<a, b>>, c) = <<a, b, c>>
         /\ <<a>> # <<>> /\ <<a, b>> # <<>> /\ <<a, b, c>> # <<>>
<1> DEFINE S == {a, b, c}
<1>1. /\ <<a>> \in Seq(S) /\ Len(<<a>>) = 1 /\ <<a>>[1] = a
      /\ <<a, b>> \in Seq(S) /\ Len(<<a, b>>) = 2
      /\ <<a, b>>[1] = a /\ <<a, b>>[2] = b
      /\ <<a, b, c>> \in Seq(S) /\ Len(<<a, b, c>>) = 3
      /\ <<a, b, c>>[1] = a /\ <<a, b, c>>[2] = b /\ <<a, b, c>>[3] = c
  OBVIOUS
<1>2. Append(<<>>, a) = <<a>>
  OBVIOUS
<1>3. Append(<<a>>, b) = <<a, b>>
  <2>1. /\ Append(<<a>>, b) \in Seq(S) /\ Len(Append(<<a>>, b)) = 2
        /\ Append(<<a>>, b)[1] = a /\ Append(<<a>>, b)[2] = b
    BY <1>1, AppendProperties
  <2> DEFINE s == Append(<<a>>, b)
             t == <<a, b>>
  <2>2. /\ s \in Seq(S) /\ t \in Seq(S) /\ Len(s) = Len(t)
        /\ \A i \in 1 .. Len(s) : s[i] = t[i]
    BY <1>1, <2>1
  <2>3. s = t
    <3> HIDE DEF s, t, S
    <3>1. QED
      BY <2>2, SeqEqual
  <2>4. QED
    BY <2>3
<1>4. Append(<<a, b>>, c) = <<a, b, c>>
  <2>1. /\ Append(<<a, b>>, c) \in Seq(S) /\ Len(Append(<<a, b>>, c)) = 3
        /\ Append(<<a, b>>, c)[1] = a /\ Append(<<a, b>>, c)[2] = b
        /\ Append(<<a, b>>, c)[3] = c
    BY <1>1, AppendProperties
  <2> DEFINE s == Append(<<a, b>>, c)
             t == <<a, b, c>>
  <2>2. /\ s \in Seq(S) /\ t \in Seq(S) /\ Len(s) = Len(t)
        /\ \A i \in 1 .. Len(s) : s[i] = t[i]
    BY <1>1, <2>1
  <2>3. s = t
    <3> HIDE DEF s, t, S
    <3>1. QED
      BY <2>2, SeqEqual
  <2>4. QED
    BY <2>3
<1>5. <<a>> # <<>> /\ <<a, b>> # <<>> /\ <<a, b, c>> # <<>>
  BY <1>1
<1>6. QED
  BY <1>2, <1>3, <1>4, <1>5

(* The next byte of a chunk head.                                          *)
LEMMA ChunkedHeadAround ==
  ASSUME WorkerInv, Chunked, NEW p \in ChunkSizes, InHead(p), Get(1), ChunkedHead
  PROVE  Around(p)'
<1>1. /\ p \in Nat /\ HeadLength + 1 <= p /\ HeadLength \in Nat /\ 4 <= HeadLength
      /\ framing = "chunked" /\ framing \in Framings
      /\ Wire[p] \in DOMAIN Digits
      /\ Wire[p - 2] = "cr" /\ Wire[p - 1] = "lf" /\ Wire[p + 1] = "cr"
  BY ChunkAt, WireLength DEF Chunked, WorkerInv, WorkerTypeOK, StreamTypeOK
<1>2. /\ received' = received + 1 /\ Wire' = Wire /\ received \in Nat
      /\ 1 \in 1 .. Available
  BY GetStep, ParametersKept, Positive DEF WorkerInv, StreamInv
<1>3. Wire[p] # "cr"
  BY <1>1 DEF Digits
<1>4. /\ IF chunk_head # <<>> /\ Wire[received + 1] = "cr"
           THEN reading' = "lf" /\ chunk_head' = chunk_head
           ELSE /\ chunk_head' = Append(chunk_head, Wire[received + 1])
                /\ reading' = "head"
      /\ remain' = -1
  BY <1>2 DEF ChunkedHead, BufferAgain, Again, AtEnd, InHead
<1>5. ASSUME NEW a, NEW b, NEW c
      PROVE  /\ Append(<<>>, a) = <<a>>
             /\ Append(<<a>>, b) = <<a, b>>
             /\ Append(<<a, b>>, c) = <<a, b, c>>
             /\ <<a>> # <<>> /\ <<a, b>> # <<>> /\ <<a, b, c>> # <<>>
  BY ShortAppend
<1>6. CASE received = p - 3 /\ chunk_head = <<>>
  <2>1. received' = p - 2 /\ Wire[received + 1] = "cr"
    BY <1>1, <1>2, <1>6
  <2>2. reading' = "head" /\ chunk_head' = <<"cr">>
    BY <1>4, <1>5, <1>6, <2>1
  <2>3. QED
    BY <1>4, <2>1, <2>2 DEF InHead, Around
<1>7. CASE received = p - 2 /\ chunk_head \in {<<>>, <<"cr">>}
  <2>1. received' = p - 1 /\ Wire[received + 1] = "lf"
    BY <1>1, <1>2, <1>7
  <2>2. reading' = "head" /\ chunk_head' \in {<<"lf">>, <<"cr", "lf">>}
    BY <1>4, <1>5, <1>7, <2>1
  <2>3. QED
    BY <1>4, <2>1, <2>2 DEF InHead, Around
<1>8. CASE received = p - 1 /\ chunk_head \in {<<>>, <<"lf">>, <<"cr", "lf">>}
  <2>1. received' = p /\ Wire[received + 1] = Wire[p]
    BY <1>1, <1>2, <1>8
  <2>2. reading' = "head" /\ chunk_head' = Append(chunk_head, Wire[p])
    BY <1>3, <1>4, <2>1
  <2>3. chunk_head' \in {<<Wire[p]>>, <<"lf", Wire[p]>>, <<"cr", "lf", Wire[p]>>}
    <3>1. CASE chunk_head = <<>>
      BY <1>5, <2>2, <3>1
    <3>2. CASE chunk_head = <<"lf">>
      BY <1>5, <2>2, <3>2
    <3>3. CASE chunk_head = <<"cr", "lf">>
      <4>1. Append(<<"cr", "lf">>, Wire[p]) = <<"cr", "lf", Wire[p]>>
        BY <1>5
      <4>2. QED
        BY <2>2, <3>3, <4>1, Zenon
    <3>4. QED
      BY <1>8, <3>1, <3>2, <3>3
  <2>4. SizeRead(p)'
    BY <1>2, <2>3 DEF SizeRead
  <2>5. QED
    BY <1>4, <2>1, <2>2, <2>4 DEF InHead, Around
<1>9. CASE received = p /\ SizeRead(p)
  <2>1. received' = p + 1 /\ Wire[received + 1] = "cr"
    BY <1>1, <1>2, <1>9
  <2>2. chunk_head # <<>>
    BY <1>5, <1>9 DEF SizeRead
  <2>3. reading' = "lf" /\ SizeRead(p)'
    BY <1>2, <1>4, <1>9, <2>1, <2>2 DEF SizeRead
  <2>4. QED
    BY <1>4, <2>1, <2>3 DEF AtLf, Around
<1>10. QED
  BY <1>6, <1>7, <1>8, <1>9 DEF InHead

(* The line feed behind a size: the chunk is as long as it says.           *)
LEMMA ChunkedLfAround ==
  ASSUME WorkerInv, Chunked, NEW p \in ChunkSizes, AtLf(p), Get(1), ChunkedLf,
         reading' # "threw"
  PROVE  Around(p)'
<1>1. /\ p \in Nat /\ framing = "chunked" /\ framing \in Framings
      /\ Wire[p] \in DOMAIN Digits /\ Wire[p + 2] = "lf"
      /\ NextSize(p) = p + 5 + Digits[Wire[p]]
      /\ Digits[Wire[p]] \in Nat /\ (Digits[Wire[p]] = 0 <=> Wire[p] = "0")
  BY ChunkAt DEF Chunked, WorkerInv, WorkerTypeOK, StreamTypeOK
<1>2. /\ received' = p + 2 /\ Wire' = Wire /\ 1 \in 1 .. Available
  BY <1>1, GetStep, ParametersKept, Positive DEF WorkerInv, StreamInv, AtLf
<1>3. ChunkSize(chunk_head) = Digits[Wire[p]]
  BY <1>1, ChunkSizeOf DEF AtLf
<1>4. /\ remain' = Digits[Wire[p]]
      /\ reading' = IF remain' > 0 THEN "data" ELSE "returned"
  BY <1>2, <1>3 DEF ChunkedLf, BufferAgain, Again, AtEnd, BufferThrows
<1>5. CASE Wire[p] = "0"
  BY <1>1, <1>2, <1>4, <1>5 DEF AtLast, Around
<1>6. CASE Wire[p] # "0"
  BY <1>1, <1>2, <1>4, <1>6 DEF InData, Around
<1>7. QED
  BY <1>5, <1>6

(* The bytes of a chunk: after the last of them comes the next size.       *)
LEMMA ChunkedDataAround ==
  ASSUME WorkerInv, Chunked, NEW p \in ChunkSizes, InData(p), ChunkedData,
         ~BufferAgain
  PROVE  \E q \in ChunkSizes : Around(q)'
<1> DEFINE m == Min({remain, BufferSize})
           n == AtMost(m)
<1>1. /\ p \in Nat /\ framing = "chunked" /\ framing \in Framings
      /\ Wire[p] # "0" /\ NextSize(p) \in ChunkSizes /\ NextSize(p) \in Nat
  BY ChunkAt DEF Chunked, WorkerInv, WorkerTypeOK, StreamTypeOK, InData
<1>2. /\ remain \in Int /\ remain > 0 /\ received \in Nat
      /\ received + remain = NextSize(p) - 3
  BY Positive DEF InData, WorkerInv, StreamInv, WorkerTypeOK, BufferTypeOK
<1>3. CASE reading' = "returned" /\ UNCHANGED <<streamVars, remain>>
  BY <1>1, <1>2, <1>3 DEF InData, Around, streamVars, Wire
<1>4. CASE /\ Get(n)
           /\ remain' = IF remain = n THEN -1 ELSE remain - n
           /\ reading' = "returned"
  <2>1. m \in Int /\ m <= remain
    <3>1. remain \in Int /\ BufferSize \in Int
      BY <1>2
    <3>2. QED
      BY <3>1, MinOfTwo
  <2>2. n \in Int /\ n <= m
    BY <2>1, AtMostIs DEF WorkerInv
  <2>3. n <= remain
    BY <1>2, <2>1, <2>2
  <2> HIDE DEF n
  <2>4. received' = received + n /\ Wire' = Wire
    BY <1>4, GetStep, ParametersKept DEF WorkerInv
  <2>5. CASE remain = n
    <3>1. received' = NextSize(p) - 3 /\ remain' = -1
      BY <1>2, <1>4, <2>4, <2>5
    <3>2. received' \in NextSize(p) - 3 .. NextSize(p) - 1
      BY <1>1, <3>1
    <3>3. Around(NextSize(p))'
      BY <1>4, <3>1, <3>2 DEF AtOpening, Around
    <3>4. QED
      BY <1>1, <3>3
  <2>6. CASE remain # n
    <3>1. remain' > 0 /\ received' + remain' = NextSize(p) - 3
      BY <1>2, <1>4, <2>2, <2>3, <2>4, <2>6
    <3>2. Around(p)'
      BY <1>1, <1>4, <2>4, <3>1 DEF InData, Around
    <3>3. QED
      BY <3>2
  <2>7. QED
    BY <2>5, <2>6
<1>5. QED
  BY <1>3, <1>4 DEF ChunkedData

(* One read() of a chunked buffer goes from one place in the chunks to the *)
(* next.                                                                   *)
LEMMA ChunkedReadAround ==
  ASSUME WorkerInv, Chunked, NEW p \in ChunkSizes, Around(p), at = "body",
         BufferRead, reading' # "threw"
  PROVE  \E q \in ChunkSizes : Around(q)'
<1>1. framing = "chunked" /\ at # "stopped"
  BY DEF Chunked
<1>2. CASE ChunkedCall
  <2>1. /\ reading = "call" /\ reading' = IF remain = -1 THEN "head" ELSE "data"
        /\ chunk_head' = <<>> /\ UNCHANGED <<received, remain>> /\ Wire' = Wire
    BY <1>2 DEF ChunkedCall, streamVars, Wire
  <2>2. AtOpening(p) \/ InData(p)
    BY <1>1, <2>1 DEF Around, InHead, AtLf, AtLast
  <2>3. CASE AtOpening(p)
    <3>1. p \in Nat
      BY <1>1, ChunkAt DEF WorkerInv, WorkerTypeOK, StreamTypeOK
    <3>2. received \in {p - 3, p - 2, p - 1}
      BY <2>3, <3>1 DEF AtOpening
    <3>3. QED
      BY <2>1, <2>3, <3>2 DEF AtOpening, InHead, Around
  <2>4. CASE InData(p)
    BY <2>1, <2>4 DEF InData, Around
  <2>5. QED
    BY <2>2, <2>3, <2>4
<1>3. CASE ChunkedHead
  <2>1. InHead(p)
    BY <1>1, <1>3 DEF ChunkedHead, Around, AtOpening, AtLf, InData, AtLast
  <2>2. BufferAgain \/ Get(1)
    BY <1>3 DEF ChunkedHead, BufferThrows
  <2>3. QED
    BY <1>3, <2>1, <2>2, ChunkAgain, ChunkedHeadAround
<1>4. CASE ChunkedLf
  <2>1. AtLf(p)
    BY <1>1, <1>4 DEF ChunkedLf, Around, AtOpening, InHead, InData, AtLast
  <2>2. BufferAgain \/ Get(1)
    BY <1>4 DEF ChunkedLf, BufferThrows
  <2>3. QED
    BY <1>4, <2>1, <2>2, ChunkAgain, ChunkedLfAround
<1>5. CASE ChunkedData
  <2>1. InData(p) /\ reading = "data"
    BY <1>1, <1>5 DEF ChunkedData, Around, AtOpening, InHead, AtLf, AtLast
  <2>2. QED
    BY <1>5, <2>1, ChunkAgain, ChunkedDataAround
<1>6. QED
  BY <1>1, <1>2, <1>3, <1>4, <1>5 DEF BufferRead, NoLengthRead, FixLengthRead

(* Every step leaves the worker at a place in the chunks.                  *)
LEMMA ChunkInvStep == ChunkInv /\ [Next]_vars => ChunkInv'
<1> SUFFICES ASSUME ChunkInv, [Next]_vars, Chunked', InBody', reading' # "threw"
             PROVE  \E q \in ChunkSizes : Around(q)'
  BY WorkerInvStep, ScanningStep DEF ChunkInv, InChunk
<1> USE DEF ChunkInv
<1>1. framing \in Framings
  BY DEF WorkerInv, WorkerTypeOK, StreamTypeOK
<1>2. CASE Next /\ state \in Begun
  <2>1. /\ UNCHANGED <<framing, pieces>> /\ reading' = "no"
        /\ received' = HeadLength
        /\ remain' = CASE framing = "length" -> BodyLength
                       [] framing = "chunked" -> -1
                       [] framing = "close" -> 0
    BY <1>2, HeaderFile DEF Chunked
  <2>2. framing = "chunked" /\ remain' = -1
    BY <2>1 DEF Chunked
  <2>3. HeadLength + 1 \in ChunkSizes /\ HeadLength \in Nat
    BY <1>1, <2>2, ChunkAt, WireLength
  <2>4. received' \in (HeadLength + 1) - 3 .. (HeadLength + 1) - 1
    BY <2>1, <2>3
  <2>5. AtOpening(HeadLength + 1)'
    BY <2>1, <2>2, <2>4 DEF AtOpening
  <2>6. QED
    BY <2>3, <2>5 DEF Around
<1>3. CASE BodyRead
  <2>1. at = "body" /\ BufferRead /\ UNCHANGED workerVars /\ reading # "no"
    BY <1>3 DEF BodyRead, BufferRead, NoLengthRead, FixLengthRead, ChunkedCall,
                ChunkedHead, ChunkedLf, ChunkedData
  <2>2. UNCHANGED <<framing, pieces>>
    BY <2>1, BufferReadStep
  <2>3. Chunked /\ InBody
    BY <2>1, <2>2 DEF Chunked, BreakWhole, SizesWhole, InBody, workerVars
  <2>4. reading # "threw"
    BY <2>1 DEF BufferRead, NoLengthRead, FixLengthRead, ChunkedCall,
                ChunkedHead, ChunkedLf, ChunkedData
  <2>5. PICK p \in ChunkSizes : Around(p)
    BY <2>3, <2>4 DEF InChunk
  <2>6. QED
    BY <2>1, <2>3, <2>5, ChunkedReadAround
<1>4. ASSUME UNCHANGED <<framing, pieces, received, remain>>, InBody,
             reading # "threw",
             \A p \in ChunkSizes : Around(p) => Around(p)'
      PROVE  \E q \in ChunkSizes : Around(q)'
  <2>1. Chunked
    BY <1>4 DEF Chunked, BreakWhole, SizesWhole
  <2>2. PICK p \in ChunkSizes : Around(p)
    BY <1>4, <2>1 DEF InChunk
  <2>3. QED
    BY <1>4, <2>2
<1>5. CASE WriteFile
  <2>1. /\ state = "ReceivingBody" /\ reading = "returned" /\ reading' = "no"
        /\ UNCHANGED <<framing, pieces, received, remain>>
        /\ at = "body"
        /\ Finished => at' = "stopped"
    BY <1>5 DEF WriteFile, Places, streamVars, WorkerInv
  <2>2. ASSUME NEW p \in ChunkSizes, Around(p) PROVE Around(p)'
    <3>1. AtOpening(p) \/ InData(p) \/ AtLast(p)
      BY <2>1, <2>2 DEF Around, InHead, AtLf
    <3>2. framing = "chunked" /\ Wire' = Wire
      BY <2>1 DEF Chunked, Wire
    <3>3. remain = 0 => at' = "stopped"
      BY <2>1, <3>2 DEF Finished
    <3>4. QED
      BY <2>1, <3>1, <3>2, <3>3 DEF Around, AtOpening, InData, AtLast
  <2>3. QED
    BY <1>4, <2>1, <2>2 DEF InBody
<1>6. ASSUME UNCHANGED <<framing, pieces, received, remain, chunk_head>>,
             InBody, reading # "threw",
             \/ reading' = reading /\ at' = at
             \/ reading' = reading /\ at = "idle" /\ at' # "stopped"
             \/ at = "body" /\ reading = "no" /\ reading' = "call"
             \/ at = "body" /\ reading = "again" /\ reading' = "no"
      PROVE  \E q \in ChunkSizes : Around(q)'
  <2>1. Wire' = Wire
    BY <1>6 DEF Wire
  <2>2. ASSUME NEW p \in ChunkSizes, Around(p) PROVE Around(p)'
    <3>1. SizeRead(p)' = SizeRead(p)
      BY <1>6, <2>1 DEF SizeRead
    <3>2. CASE InHead(p) \/ AtLf(p)
      BY <1>6, <3>1, <3>2 DEF Around, InHead, AtLf
    <3>3. CASE AtOpening(p) \/ InData(p) \/ AtLast(p)
      BY <1>6, <2>1, <3>3 DEF Around, AtOpening, InData, AtLast
    <3>4. QED
      BY <2>2, <3>2, <3>3 DEF Around
  <2>3. QED
    BY <1>4, <1>6, <2>2
<1>7. CASE Next /\ state \notin Begun /\ ~BodyRead /\ ~WriteFile
  <2>1. CASE Event
    BY <1>6, <1>7, <2>1, EventEnters
    DEF Event, streamVars, bufferVars, InBody, WorkerInv, Places, Ends, Begun
  <2>2. CASE ReadBuffer \/ BodyAgain
    BY <1>6, <2>2
    DEF ReadBuffer, BodyAgain, Return, streamVars, workerVars, InBody,
        WorkerInv, Places
  <2>3. CASE BodyThrows \/ WriteThrows \/ StreamThrows \/ ForceStop
    BY <2>3 DEF BodyThrows, WriteThrows, StreamThrows, Throw, ForceStop, InBody
  <2>4. CASE Network
    BY <1>6, <2>4, NetworkStep
    DEF Network, bufferVars, workerVars, InBody, WorkerInv
  <2>5. CASE \/ ConnectContinues \/ Connected \/ ConnectFails \/ Send
             \/ ScanNothing \/ ScanByte \/ LfNotThere \/ NoLfFollows
             \/ HeaderComplete \/ HeaderInvalid
    BY <1>7, <2>5
    DEF ConnectContinues, Connected, ConnectFails, Send, ScanNothing, ScanByte,
        LfNotThere, NoLfFollows, HeaderComplete, HeaderInvalid,
        WorkerInv, Places, Begun
  <2>6. QED
    BY <1>7, <2>1, <2>2, <2>3, <2>4, <2>5 DEF Next, Process
<1>8. CASE UNCHANGED vars
  BY <1>6, <1>8 DEF vars, streamVars, bufferVars, workerVars, InBody
<1>9. QED
  BY <1>2, <1>3, <1>5, <1>7, <1>8

(* The inductive invariant of a chunked body.                              *)
LEMMA ChunkInvariant == Spec => []ChunkInv
<1>1. Init => ChunkInv
  BY WorkerInvInit DEF Init, ChunkInv, Scanning, InChunk, InBody
<1>2. ChunkInv /\ [Next]_vars => ChunkInv'
  BY ChunkInvStep
<1>3. QED
  BY <1>1, <1>2, PTL DEF Spec

(* Whatever the chunks, however the answer is cut but in a size or in the  *)
(* end of the header, and whatever read() finds in its way, the worker     *)
(* stops behind the line break of the last size (http_buffer.h:80).        *)
THEOREM LastChunkCorrect == Spec => []StopsAtLastChunk
<1>1. ChunkInv => StopsAtLastChunk
  <2> SUFFICES ASSUME ChunkInv, at = "stopped", Chunked
               PROVE  /\ SubSeq(Wire, received - 2, received) = <<"0", "cr", "lf">>
                      /\ received = Len(Wire) - 2
    BY DEF StopsAtLastChunk, Chunked
  <2> USE DEF ChunkInv
  <2>1. /\ framing = "chunked" /\ framing \in Framings /\ InBody
        /\ remain = 0 /\ reading = "no"
    BY DEF Chunked, InBody, WorkerInv, Places, Finished, WorkerTypeOK, StreamTypeOK
  <2>2. PICK p \in ChunkSizes : Around(p)
    BY <2>1 DEF InChunk
  <2>3. Wire[p] = "0" /\ received = p + 2
    BY <2>1, <2>2 DEF Around, AtOpening, InHead, AtLf, InData, AtLast
  <2>4. /\ p \in Nat /\ 1 <= p /\ p + 2 <= Len(Wire) /\ Len(Wire) \in Nat
        /\ Wire \in Seq(Tokens)
        /\ p = Len(Wire) - 4 /\ Wire[p + 1] = "cr" /\ Wire[p + 2] = "lf"
    <3>1. /\ p \in Nat /\ HeadLength + 1 <= p
          /\ p = Len(Wire) - 4 /\ Wire[p + 1] = "cr" /\ Wire[p + 2] = "lf"
      BY <2>1, <2>3, ChunkAt
    <3>2. Len(Wire) \in Nat /\ HeadLength \in Nat /\ Wire \in Seq(Tokens)
      BY <2>1, WireLength
    <3>3. QED
      BY <3>1, <3>2
  <2> DEFINE s == SubSeq(Wire, received - 2, received)
             t == <<"0", "cr", "lf">>
  <2>5. /\ s \in Seq(Tokens) /\ Len(s) = 3
        /\ s[1] = Wire[p] /\ s[2] = Wire[p + 1] /\ s[3] = Wire[p + 2]
    <3>1. s = SubSeq(Wire, p, p + 2) /\ p \in 1 .. Len(Wire) /\ p + 2 \in 1 .. Len(Wire)
      BY <2>3, <2>4
    <3>2. /\ SubSeq(Wire, p, p + 2) \in Seq(Tokens)
          /\ Len(SubSeq(Wire, p, p + 2)) = 3
          /\ \A i \in 1 .. 3 : SubSeq(Wire, p, p + 2)[i] = Wire[p + i - 1]
      BY <2>4, <3>1
    <3>3. p + 1 - 1 = p /\ p + 2 - 1 = p + 1 /\ p + 3 - 1 = p + 2
      BY <2>4
    <3> HIDE DEF s
    <3>4. QED
      BY <3>1, <3>2, <3>3
  <2>6. /\ t \in Seq(Tokens) /\ Len(t) = Len(s)
        /\ \A i \in 1 .. Len(s) : s[i] = t[i]
    BY <2>3, <2>4, <2>5 DEF Tokens
  <2>7. s = t
    <3> HIDE DEF s, t
    <3>1. QED
      BY <2>5, <2>6, SeqEqual
  <2>8. QED
    BY <2>3, <2>4, <2>7
<1>2. QED
  BY <1>1, ChunkInvariant, PTL

=============================================================================
