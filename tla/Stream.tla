--------------------------------- MODULE Stream ---------------------------------
(***************************************************************************)
(* The receiving side of a connected, non-blocking transport::Stream, as   *)
(* TcpStream::read (src/src/tcp_stream.cpp:79) and SslStream::read         *)
(* (src/src/ssl_stream.cpp:127) offer it and as epoll sees it.             *)
(*                                                                         *)
(* The server's answer is a sequence of tokens, and every byte is known by *)
(* its position in it.  A byte is sent and arrives in the kernel; over TLS *)
(* it is then decrypted, a record at a time, and kept by the library until *)
(* it is asked for.  epoll reports what is in the kernel and nothing else. *)
(***************************************************************************)
EXTENDS Naturals, Sequences, FiniteSetsExt

CONSTANTS
  Framings,    (* How the server may tell the end of the body: "close",    *)
               (* "length" or "chunked".                                   *)
  Wires,       (* For each of them, the answer, as a sequence of tokens.   *)
  Cuttings,    (* The ways it may be cut into pieces, each the set of the  *)
               (* positions at which a piece ends.                         *)
  EarlyCloses, (* The positions after which the server may close early.    *)
  Schemes      (* The schemes of the URLs, of {"http", "https"}.           *)

Tokens == {"x", "cr", "lf", "b", "0", "1", "2"}

ASSUME FramingsAssumption == Framings \subseteq {"close", "length", "chunked"}
ASSUME WiresAssumption ==
  \A f \in Framings : Wires[f] \in Seq(Tokens) /\ Wires[f] # <<>>
ASSUME CuttingsAssumption ==
  \A f \in Framings : \A c \in Cuttings[f] :
    c \subseteq 1 .. Len(Wires[f]) /\ Len(Wires[f]) \in c
ASSUME EarlyClosesAssumption == EarlyCloses \subseteq Nat
ASSUME SchemesAssumption == Schemes \subseteq {"http", "https"}

VARIABLES
  framing,    (* How the answer ends.                                      *)
  scheme,     (* The scheme, which decides on the kind of stream.          *)
  pieces,     (* The cutting in use: of segments, or of TLS records.       *)
  arrived,    (* How much has arrived in the kernel.                       *)
  decrypted,  (* How much has been taken from the kernel.                  *)
  received,   (* How much has been returned by read().                     *)
  closed      (* Whether the server has closed after what has arrived.     *)

streamVars == <<framing, scheme, pieces, arrived, decrypted, received, closed>>

Wire == Wires[framing]

StreamInit ==
  /\ framing \in Framings
  /\ scheme \in Schemes
  /\ pieces \in Cuttings[framing]
  /\ arrived = 0
  /\ decrypted = 0
  /\ received = 0
  /\ closed = FALSE

(* The network: what is sent arrives in pieces, some of them together. *)
Arrive ==
  /\ ~closed
  /\ \E n \in pieces : n > arrived /\ arrived' = n
  /\ UNCHANGED <<framing, scheme, pieces, decrypted, received, closed>>

ServerCloses ==
  /\ ~closed
  /\ arrived \in EarlyCloses \cup {Len(Wire)}
  /\ closed' = TRUE
  /\ UNCHANGED <<framing, scheme, pieces, arrived, decrypted, received>>

(* How much one call of read() can return, with room enough for it: what   *)
(* the kernel has, or what is left of the current TLS record.              *)
Available ==
  CASE scheme = "http" -> arrived - received
    [] scheme = "https" /\ received < decrypted -> decrypted - received
    [] scheme = "https" /\ received = decrypted /\ decrypted < arrived ->
         Min({n \in pieces : n > received}) - received
    [] OTHER -> 0

(* read() throws StreamException(kAgain). *)
Again == Available = 0 /\ ~closed

(* read() returns 0. *)
AtEnd == Available = 0 /\ closed

(* read() returns n. *)
Get(n) ==
  /\ n \in 1 .. Available
  /\ received' = received + n
  /\ decrypted' = IF scheme = "http" THEN received + n ELSE received + Available
  /\ UNCHANGED <<framing, scheme, pieces, arrived, closed>>

(* Level-triggered EPOLLIN. *)
Readable == arrived > decrypted \/ closed

StreamTypeOK ==
  /\ framing \in Framings
  /\ scheme \in Schemes
  /\ pieces \in Cuttings[framing]
  /\ arrived \in pieces \cup {0}
  /\ decrypted \in 0 .. arrived
  /\ received \in 0 .. decrypted
  /\ closed \in BOOLEAN

=============================================================================
