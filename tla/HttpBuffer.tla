------------------------------- MODULE HttpBuffer -------------------------------
(***************************************************************************)
(* http::Buffer (src/include/http_buffer.h): the three ways the end of a   *)
(* body is told.  read() of a ChunkedBuffer calls the stream several       *)
(* times, and any of these calls may throw; so read() is a small program   *)
(* of its own here, with reading as its program counter.                   *)
(***************************************************************************)
EXTENDS Stream, Integers

CONSTANTS
  BufferSize,  (* kBufferSize.                                             *)
  BodyLength   (* The Content-Length of the answer.                        *)

ASSUME BufferSizeAssumption == BufferSize \in Nat \ {0}
ASSUME BodyLengthAssumption == BodyLength \in Nat

VARIABLES
  remain,      (* remain_, or chunk_remain_ with -1 between two chunks.    *)
  finished_,   (* Of a NoLengthBuffer.                                     *)
  chunk_head,  (* The local of ChunkedBuffer::read().                      *)
  valid,       (* The positions of the bytes between begin() and end().    *)
  reading      (* Where read() is, and how it has ended.                   *)

bufferVars == <<remain, finished_, chunk_head, valid, reading>>

BufferInit ==
  /\ remain = 0
  /\ finished_ = FALSE
  /\ chunk_head = <<>>
  /\ valid = <<>>
  /\ reading = "no"

(* NoLengthBuffer, FixLengthBuffer or ChunkedBuffer, as framing says. *)
CreateBuffer ==
  /\ remain' = CASE framing = "length" -> BodyLength
                 [] framing = "chunked" -> -1
                 [] framing = "close" -> 0
  /\ UNCHANGED <<finished_, chunk_head, valid, reading>>

(* Mutants: off by one; the flag of one kind asked for all. *)
FinishedEarly == IF framing = "close" THEN finished_ ELSE remain <= 1
FinishedFlag == finished_

Finished ==
  IF framing = "close" THEN finished_ ELSE remain = 0

Positions(n) == [i \in 1 .. n |-> received + i]

AtMost(n) == Min({n, Available})

(* read() of the stream throws kAgain, which read() of the buffer lets     *)
(* pass: its locals are gone.                                              *)
BufferAgain ==
  /\ Again
  /\ reading' = "again"
  /\ chunk_head' = <<>>
  /\ UNCHANGED <<streamVars, remain, finished_, valid>>

NoLengthRead ==
  /\ framing = "close"
  /\ reading = "call"
  /\ \/ BufferAgain
     \/ /\ AtEnd
        /\ finished_' = TRUE
        /\ valid' = <<>>
        /\ reading' = "returned"
        /\ UNCHANGED <<streamVars, remain, chunk_head>>
     \/ LET n == AtMost(BufferSize)
        IN  /\ Get(n)
            /\ valid' = Positions(n)
            /\ reading' = "returned"
            /\ UNCHANGED <<remain, finished_, chunk_head>>

(* A read of no bytes returns 0 at once. *)
FixLengthRead ==
  /\ framing = "length"
  /\ reading = "call"
  /\ \/ remain > 0 /\ BufferAgain
     \/ /\ remain = 0 \/ AtEnd
        /\ valid' = <<>>
        /\ reading' = "returned"
        /\ UNCHANGED <<streamVars, remain, finished_, chunk_head>>
     \/ LET n == AtMost(Min({remain, BufferSize}))
        IN  /\ Get(n)
            /\ valid' = Positions(n)
            /\ remain' = remain - n
            /\ reading' = "returned"
            /\ UNCHANGED <<finished_, chunk_head>>

-----------------------------------------------------------------------------
(* ChunkedBuffer.                                                          *)

Digits == [c \in {"0", "1", "2"} |-> CASE c = "0" -> 0 [] c = "1" -> 1 [] c = "2" -> 2]

(* What >> extracts from a chunk head: it skips white space and reads the  *)
(* digits that follow; with none it fails and stores 0.  The heads of the  *)
(* model have one digit.                                                   *)
ChunkSize(head) ==
  LET first == {i \in 1 .. Len(head) : head[i] \notin {"cr", "lf"}}
  IN  IF first # {} /\ head[Min(first)] \in DOMAIN Digits
        THEN Digits[head[Min(first)]]
        ELSE 0

ChunkedCall ==
  /\ framing = "chunked"
  /\ reading = "call"
  /\ reading' = IF remain = -1 THEN "head" ELSE "data"
  /\ chunk_head' = <<>>
  /\ UNCHANGED <<streamVars, remain, finished_, valid>>

BufferThrows ==
  /\ reading' = "threw"
  /\ chunk_head' = <<>>
  /\ UNCHANGED <<remain, finished_, valid>>

(* The line break that ends a chunk is taken for the start of the next     *)
(* head, where it does no harm.                                            *)
ChunkedHead ==
  /\ reading = "head"
  /\ \/ BufferAgain
     \/ AtEnd /\ BufferThrows /\ UNCHANGED streamVars
     \/ /\ Get(1)
        /\ IF chunk_head # <<>> /\ Wire[received'] = "cr"
             THEN reading' = "lf" /\ UNCHANGED chunk_head
             ELSE /\ chunk_head' = Append(chunk_head, Wire[received'])
                  /\ UNCHANGED reading
        /\ UNCHANGED <<remain, finished_, valid>>

ChunkedLf ==
  /\ reading = "lf"
  /\ \/ BufferAgain
     \/ AtEnd /\ BufferThrows /\ UNCHANGED streamVars
     \/ Get(1) /\ Wire[received'] # "lf" /\ BufferThrows
     \/ /\ Get(1)
        /\ Wire[received'] = "lf"
        /\ remain' = ChunkSize(chunk_head)
        /\ reading' = IF remain' > 0 THEN "data" ELSE "returned"
        /\ valid' = <<>>
        /\ UNCHANGED <<finished_, chunk_head>>

(* Mutant: chunk_remain_ runs down to 0 at the end of every chunk. *)
ChunkedDataToZero ==
  /\ reading = "data"
  /\ \/ BufferAgain
     \/ LET n == AtMost(Min({remain, BufferSize}))
        IN  /\ Get(n)
            /\ remain' = remain - n
            /\ valid' = <<>>
            /\ reading' = "returned"
            /\ UNCHANGED <<finished_, chunk_head>>

(* The last statement of read() sets end_ to the beginning, always. *)
ChunkedData ==
  /\ reading = "data"
  /\ \/ BufferAgain
     \/ /\ AtEnd
        /\ valid' = <<>>
        /\ reading' = "returned"
        /\ UNCHANGED <<streamVars, remain, finished_, chunk_head>>
     \/ LET n == AtMost(Min({remain, BufferSize}))
        IN  /\ Get(n)
            /\ remain' = IF remain = n THEN -1 ELSE remain - n
            /\ valid' = <<>>
            /\ reading' = "returned"
            /\ UNCHANGED <<finished_, chunk_head>>

BufferRead ==
  NoLengthRead \/ FixLengthRead
    \/ ChunkedCall \/ ChunkedHead \/ ChunkedLf \/ ChunkedData

BufferTypeOK ==
  /\ remain \in Nat \cup {-1}
  /\ finished_ \in BOOLEAN
  /\ chunk_head \in Seq(Tokens)
  /\ valid \in Seq(1 .. Len(Wire))
  /\ reading \in {"no", "call", "head", "lf", "data",
                  "returned", "again", "threw"}

=============================================================================
