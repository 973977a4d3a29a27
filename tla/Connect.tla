--------------------------------- MODULE Connect ---------------------------------
(***************************************************************************)
(* The life of a transport::Stream (src/src/tcp_stream.cpp, src/src/       *)
(* ssl_stream.cpp): the constructor tries the addresses of the host, the   *)
(* owner completes a non-blocking connection with continueConnect() and    *)
(* closes.  An owner whose connection fails makes a new stream from the    *)
(* same addresses: the download loop does, over and over.                  *)
(*                                                                         *)
(* Neither constructor initialises fd, and that of SslStream does not      *)
(* initialise ctx; both begin as garbage.  A descriptor is known here by   *)
(* the number of the address it was opened for.                            *)
(***************************************************************************)
EXTENDS Naturals

CONSTANTS
  Addresses,   (* How many addresses the host has.                         *)
  Schemes,     (* Of {"http", "https"}.                                    *)
  Modes,       (* The values of `blocking' in use, of BOOLEAN.             *)
  SocketFails  (* Whether socket() may fail in this run: of BOOLEAN.       *)

ASSUME AddressesAssumption == Addresses \in Nat \ {0}
ASSUME SchemesAssumption == Schemes \subseteq {"http", "https"}
ASSUME ModesAssumption == Modes \subseteq BOOLEAN
ASSUME SocketFailsAssumption == SocketFails \subseteq BOOLEAN

VARIABLES
  scheme,
  blocking,
  exhausted,  (* Whether socket() may fail.                                *)
  good,       (* The addresses at which a server answers.                  *)
  next,       (* The address the loop of connect() is at.                  *)
  fd,         (* NoFd, GarbageFd or a descriptor.                          *)
  ctx, ssl,   (* "garbage", "null" or "object".                            *)
  connected,
  open,       (* The descriptors of this stream the kernel has open.       *)
  givenUp,    (* The addresses this stream has tried in vain: decides      *)
              (* nothing, the properties ask for it.                       *)
  pc

given == <<scheme, blocking, exhausted, good>>
vars == <<given, next, fd, ctx, ssl, connected, open, givenUp, pc>>

Descriptors == 1 .. Addresses
NoFd == 0                        (* -1 in the code. *)
GarbageFd == Addresses + 1

FreshCtx == IF scheme = "https" THEN "garbage" ELSE "null"

Init ==
  /\ scheme \in Schemes
  /\ blocking \in Modes
  /\ exhausted \in SocketFails
  /\ good \in SUBSET Descriptors
  /\ next = 1
  /\ fd = GarbageFd
  /\ ctx = FreshCtx
  /\ ssl = "null"
  /\ connected = FALSE
  /\ open = {}
  /\ givenUp = {}
  /\ pc = "for"

(***************************************************************************)
(* connect().                                                              *)
(***************************************************************************)

GiveUp == givenUp' = givenUp \cup {next} /\ pc' = "catch"

(* Mutant: one address too many. *)
SocketPastEnd ==
  /\ pc = "for"
  /\ next <= Addresses + 1
  /\ fd' = next
  /\ open' = open \cup {next}
  /\ pc' = "connect"
  /\ UNCHANGED <<given, next, ctx, ssl, connected, givenUp>>

Socket ==
  /\ pc = "for"
  /\ next <= Addresses
  /\ \/ /\ fd' = next
        /\ open' = open \cup {next}
        /\ pc' = "connect"
        /\ UNCHANGED givenUp
     \/ /\ exhausted
        /\ GiveUp
        /\ UNCHANGED <<fd, open>>
  /\ UNCHANGED <<given, next, ctx, ssl, connected>>

(* A non-blocking ::connect mostly says EINPROGRESS, whatever will come of *)
(* it, and that ends the search.                                           *)
SystemConnect ==
  /\ pc = "connect"
  /\ \/ /\ next \in good \/ ~blocking
        /\ pc' = IF blocking /\ scheme = "https" THEN "handshake" ELSE "constructed"
        /\ UNCHANGED givenUp
     \/ /\ next \notin good
        /\ GiveUp
  /\ UNCHANGED <<given, next, fd, ctx, ssl, connected, open>>

NoAddressLeft ==
  /\ pc = "for"
  /\ next > Addresses
  /\ pc' = "constructed"
  /\ UNCHANGED <<given, next, fd, ctx, ssl, connected, open, givenUp>>

(* continueConnect() of SslStream: makes its objects on the first call.    *)
Handshake ==
  /\ ctx' = "object"
  /\ ssl' = "object"
  /\ UNCHANGED <<given, next, fd, open>>

BlockingHandshake ==
  /\ pc = "handshake"
  /\ Handshake
  /\ \/ connected' = TRUE /\ pc' = "constructed" /\ UNCHANGED givenUp
     \/ UNCHANGED connected /\ GiveUp

(* Mutants: the descriptor is forgotten and not closed; the TLS object or  *)
(* the context is left as it is.                                           *)
ReleaseForgetting ==
  /\ fd' = NoFd
  /\ ctx' = "null"
  /\ ssl' = "null"
  /\ UNCHANGED open

ReleaseWithoutSsl ==
  /\ open' = open \ {fd}
  /\ fd' = NoFd
  /\ ctx' = "null"
  /\ UNCHANGED ssl

ReleaseWithoutCtx ==
  /\ open' = open \ {fd}
  /\ fd' = NoFd
  /\ ssl' = "null"
  /\ UNCHANGED ctx

(* close(), or the clean-up after a failure.  What is garbage may happen   *)
(* to be -1 or null, and is then left alone.                               *)
Release ==
  /\ open' = open \ {fd}
  /\ fd' = NoFd
  /\ ctx' = "null"
  /\ ssl' = "null"

(* Otherwise it is closed or freed: close() refuses it and throws, or it   *)
(* belongs to somebody else.                                               *)
ReleaseGarbage ==
  /\ fd = GarbageFd \/ ctx = "garbage"
  /\ pc' = "undefined"
  /\ UNCHANGED <<given, next, fd, ctx, ssl, connected, open, givenUp>>

(* AddressInfoConstIterator::operator++. *)
NextAddress == next' = next + 1

(* Mutant: the iterator is advanced twice. *)
CatchSkips ==
  /\ pc = "catch"
  /\ Release
  /\ next' = IF next = Addresses THEN next + 1 ELSE next + 2
  /\ pc' = "for"
  /\ UNCHANGED <<given, connected, givenUp>>

CatchNext ==
  /\ pc = "catch"
  /\ Release
  /\ NextAddress
  /\ pc' = "for"
  /\ UNCHANGED <<given, connected, givenUp>>

CatchGarbage == pc = "catch" /\ ReleaseGarbage

(***************************************************************************)
(* The owner.                                                              *)
(***************************************************************************)

(* opened() after a blocking connect; the owner gives up if it is not.     *)
Opened ==
  /\ fd \in Descriptors
  /\ fd \in good
  /\ scheme = "https" => connected

BlockingDone ==
  /\ pc = "constructed"
  /\ blocking
  /\ pc' = IF Opened THEN "up" ELSE "failed"
  /\ UNCHANGED <<given, next, fd, ctx, ssl, connected, open, givenUp>>

(* The constructor of the Worker cannot register a stream that has no      *)
(* descriptor, and throws.                                                 *)
NotRegistered ==
  /\ pc = "constructed"
  /\ ~blocking
  /\ fd = NoFd
  /\ pc' = "thrown"
  /\ UNCHANGED <<given, next, fd, ctx, ssl, connected, open, givenUp>>

Connecting == pc = "constructed" /\ ~blocking /\ fd \in Descriptors

ContinueConnectTcp ==
  /\ Connecting
  /\ scheme = "http"
  /\ pc' = IF fd \in good THEN "up" ELSE "failed"
  /\ UNCHANGED <<given, next, fd, ctx, ssl, connected, open, givenUp>>

(* It may have to be called again, and it may fail.                        *)
ContinueConnectSsl ==
  /\ Connecting
  /\ scheme = "https"
  /\ Handshake
  /\ UNCHANGED givenUp
  /\ \/ fd \in good /\ UNCHANGED <<connected, pc>>
     \/ fd \in good /\ connected' = TRUE /\ pc' = "up"
     \/ UNCHANGED connected /\ pc' = "failed"

Close ==
  /\ pc \in {"up", "failed"}
  /\ Release
  /\ pc' = "closed"
  /\ UNCHANGED <<given, next, connected, givenUp>>

(* The next worker: a new object from the same addresses. *)
Retry ==
  /\ pc = "closed"
  /\ ~blocking
  /\ next' = 1
  /\ fd' = GarbageFd
  /\ ctx' = FreshCtx
  /\ connected' = FALSE
  /\ givenUp' = {}
  /\ pc' = "for"
  /\ UNCHANGED <<ssl, open>>
  /\ UNCHANGED given

Next ==
  \/ Socket \/ SystemConnect \/ NoAddressLeft \/ BlockingHandshake
  \/ CatchNext \/ CatchGarbage
  \/ BlockingDone \/ NotRegistered \/ ContinueConnectTcp \/ ContinueConnectSsl
  \/ Close \/ Retry

Spec == Init /\ [][Next]_vars

(* connect() runs to its end, its owner goes on and tries again. *)
FairSpec == Spec /\ WF_vars(Next)

(***************************************************************************)
(* Properties.                                                             *)
(***************************************************************************)

ConnectTypeOK ==
  /\ scheme \in Schemes
  /\ blocking \in Modes
  /\ exhausted \in SocketFails
  /\ good \subseteq Descriptors
  /\ next \in 1 .. Addresses + 1
  /\ fd \in {NoFd, GarbageFd} \cup Descriptors
  /\ ctx \in {"garbage", "null", "object"}
  /\ ssl \in {"null", "object"}
  /\ connected \in BOOLEAN
  /\ open \subseteq Descriptors
  /\ givenUp \subseteq Descriptors
  /\ pc \in {"for", "connect", "handshake", "catch", "constructed", "up",
             "failed", "thrown", "closed", "undefined"}

(* The stream holds exactly the descriptors it knows of, at every point of *)
(* the search: none is lost when an address is given up, none is closed    *)
(* twice.                                                                  *)
HoldsOneDescriptor == open = {fd} \cap Descriptors

(* There is never a TLS object without its context, or over a descriptor   *)
(* that has been closed.                                                   *)
SslOverOpenDescriptor ==
  ssl = "object" => ctx = "object" /\ fd \in open

(* A blocking connect, over TLS as well, ends at an address at which a     *)
(* server answers, after it has tried all those before in vain, and        *)
(* reports failure only after it has tried them all.  An address that      *)
(* answers is given up only for a socket() or a TLS handshake that failed. *)
(* It may not come to its end at all: see GarbageOnlyAtFirst.              *)
FirstThatAnswers ==
  blocking =>
    /\ pc = "up" => fd \in good /\ givenUp = 1 .. fd - 1
    /\ pc = "failed" => givenUp = Descriptors
    /\ scheme = "http" /\ ~exhausted => givenUp \cap good = {}

(* A member that no constructor has initialised is closed or freed only in *)
(* the clean-up of the first address, and for http only when it is         *)
(* socket() that has failed: one clean-up leaves nothing of the garbage.   *)
GarbageOnlyAtFirst ==
  pc = "undefined" =>
    /\ givenUp = {1}
    /\ scheme = "https" \/ exhausted

(* A host that answers at one of its addresses is reached. *)
ReachesHost == pc = "for" /\ good # {} ~> pc = "up"

=============================================================================
