----------------------------- MODULE ConnectProofs ------------------------------
(***************************************************************************)
(* Proofs about Connect, for any number of addresses.                      *)
(***************************************************************************)
EXTENDS Connect, TLAPS

USE AddressesAssumption, SchemesAssumption, ModesAssumption,
    SocketFailsAssumption

(* What is true at each place of the program.  A new descriptor is asked   *)
(* for only when there is none, and no TLS object is left over from an     *)
(* address that has been given up or from the stream before.               *)
AtPlaces ==
  /\ pc \in {"for", "closed", "thrown"} => fd \notin Descriptors
  /\ pc \in {"connect", "handshake"} => fd = next
  /\ pc \in {"connect", "handshake", "catch"} => next \in Descriptors
  /\ pc \in {"for", "closed", "connect"} => ssl = "null"
  /\ pc = "handshake" => scheme = "https"

(* How far a search has got: the addresses before next, and next itself if *)
(* it is being cleaned up after, have been tried in vain.  Only during the *)
(* first of them is there anything uninitialised, when a blocking search   *)
(* is over nothing is, and with http and enough descriptors no address     *)
(* that answers is given up.                                               *)
Searching ==
  /\ pc \in {"for", "connect", "handshake"} => givenUp = 1 .. next - 1
  /\ pc \in {"catch", "undefined"} => givenUp = 1 .. next
  /\ pc = "constructed" =>
       IF fd \in Descriptors THEN givenUp = 1 .. fd - 1 ELSE givenUp = Descriptors
  /\ pc \in {"for", "connect", "handshake", "catch"} /\ next # 1 =>
       fd # GarbageFd /\ ctx # "garbage"
  /\ pc = "catch" /\ fd = GarbageFd => exhausted
  /\ scheme = "http" => ctx # "garbage"
  /\ blocking /\ pc \in {"handshake", "constructed"} /\ fd \in Descriptors =>
       fd \in good /\ (scheme = "https" /\ pc = "constructed" => connected)

ConnectInv ==
  /\ ConnectTypeOK
  /\ AtPlaces
  /\ HoldsOneDescriptor
  /\ SslOverOpenDescriptor
  /\ Searching
  /\ FirstThatAnswers
  /\ GarbageOnlyAtFirst

(* A new stream has no descriptor yet, whatever its members say. *)
LEMMA Fresh ==
  /\ GarbageFd \notin Descriptors /\ NoFd \notin Descriptors
  /\ FreshCtx \in {"garbage", "null"}
  /\ 1 \in Descriptors /\ 1 \in 1 .. Addresses + 1
  /\ \A a \in Descriptors : 1 <= a
BY DEF GarbageFd, NoFd, Descriptors, FreshCtx

(* Giving up one address more. *)
LEMMA OneMore ==
  ASSUME NEW n \in Nat \ {0}
  PROVE  /\ 1 .. n = (1 .. n - 1) \cup {n}
         /\ n + 1 - 1 = n
         /\ 1 .. 1 - 1 = {} /\ 1 .. 1 = {1}
         /\ n <= Addresses => 1 .. n \subseteq Descriptors
         /\ n <= Addresses + 1 => 1 .. n - 1 \subseteq Descriptors
BY DEF Descriptors

(* The invariant holds of a stream just constructed.                       *)
LEMMA ConnectInvInit == Init => ConnectInv
<1> SUFFICES ASSUME Init PROVE ConnectInv
  OBVIOUS
<1>1. ConnectTypeOK
  BY Fresh DEF Init, ConnectTypeOK
<1>2. /\ AtPlaces /\ HoldsOneDescriptor /\ SslOverOpenDescriptor
  BY Fresh DEF Init, AtPlaces, HoldsOneDescriptor, SslOverOpenDescriptor
<1>3. Searching /\ FirstThatAnswers /\ GarbageOnlyAtFirst
  BY OneMore DEF Init, Searching, FirstThatAnswers, GarbageOnlyAtFirst, FreshCtx
<1>4. QED
  BY <1>1, <1>2, <1>3 DEF ConnectInv

(* Closing and cleaning up leave nothing open. *)
LEMMA Released ==
  ASSUME ConnectTypeOK, HoldsOneDescriptor, Release
  PROVE  /\ fd' = NoFd /\ ctx' = "null" /\ ssl' = "null"
         /\ open' = {}
         /\ NoFd \notin Descriptors
BY DEF ConnectTypeOK, HoldsOneDescriptor, Release, Descriptors, NoFd

(* Every step of the search, of the handshake and of closing keeps it.     *)
LEMMA ConnectInvStep == ConnectInv /\ [Next]_vars => ConnectInv'
<1> SUFFICES ASSUME ConnectInv, [Next]_vars PROVE ConnectInv'
  OBVIOUS
<1>0. /\ 1 .. next = (1 .. next - 1) \cup {next}
      /\ next + 1 - 1 = next /\ 1 .. 1 - 1 = {} /\ 1 .. 1 = {1}
      /\ next \in Nat /\ GarbageFd \notin Descriptors /\ NoFd \notin Descriptors
      /\ next \in Descriptors <=> next <= Addresses
      /\ next = Addresses + 1 => 1 .. next - 1 = Descriptors
  BY Fresh, OneMore DEF ConnectInv, ConnectTypeOK, Descriptors
<1> USE DEF ConnectInv
<1>a. ASSUME ConnectTypeOK', AtPlaces', HoldsOneDescriptor',
             SslOverOpenDescriptor', Searching', FirstThatAnswers',
             GarbageOnlyAtFirst'
      PROVE  ConnectInv'
  BY <1>a
<1> USE DEF ConnectTypeOK, AtPlaces, HoldsOneDescriptor, SslOverOpenDescriptor
<1>1. CASE Socket
  <2>1. /\ ConnectTypeOK' /\ AtPlaces' /\ HoldsOneDescriptor'
        /\ SslOverOpenDescriptor'
    BY <1>0, <1>1 DEF Socket, GiveUp, given, GarbageFd
  <2>2. Searching' /\ FirstThatAnswers' /\ GarbageOnlyAtFirst'
    BY <1>0, <1>1 DEF Socket, GiveUp, given, Searching, FirstThatAnswers,
       GarbageOnlyAtFirst
  <2>3. QED
    BY <1>a, <2>1, <2>2
<1>2. CASE SystemConnect
  <2>1. /\ ConnectTypeOK' /\ AtPlaces' /\ HoldsOneDescriptor'
        /\ SslOverOpenDescriptor'
    BY <1>0, <1>2 DEF SystemConnect, GiveUp, given
  <2>2. Searching' /\ FirstThatAnswers' /\ GarbageOnlyAtFirst'
    <3>1. CASE GiveUp
      BY <1>0, <1>2, <3>1 DEF SystemConnect, GiveUp, given, Searching,
         FirstThatAnswers, GarbageOnlyAtFirst
    <3>2. CASE UNCHANGED givenUp
      BY <1>0, <1>2, <3>2 DEF SystemConnect, GiveUp, given, Searching,
         FirstThatAnswers, GarbageOnlyAtFirst
    <3>3. QED
      BY <1>2, <3>1, <3>2 DEF SystemConnect
  <2>3. QED
    BY <1>a, <2>1, <2>2
<1>3. CASE NoAddressLeft
  <2>1. /\ ConnectTypeOK' /\ AtPlaces' /\ HoldsOneDescriptor'
        /\ SslOverOpenDescriptor'
    BY <1>0, <1>3 DEF NoAddressLeft, given
  <2>2. next = Addresses + 1
    BY <1>3, <1>0 DEF NoAddressLeft
  <2>3. Searching' /\ FirstThatAnswers' /\ GarbageOnlyAtFirst'
    BY <1>0, <1>3, <2>2 DEF NoAddressLeft, given, Searching, FirstThatAnswers,
       GarbageOnlyAtFirst
  <2>4. QED
    BY <1>a, <2>1, <2>3
<1>4. CASE BlockingHandshake
  <2>1. /\ ConnectTypeOK' /\ AtPlaces' /\ HoldsOneDescriptor'
        /\ SslOverOpenDescriptor'
    BY <1>0, <1>4 DEF BlockingHandshake, Handshake, GiveUp, given
  <2>2. Searching' /\ FirstThatAnswers' /\ GarbageOnlyAtFirst'
    BY <1>0, <1>4 DEF BlockingHandshake, Handshake, GiveUp, given, Searching,
       FirstThatAnswers, GarbageOnlyAtFirst
  <2>3. QED
    BY <1>a, <2>1, <2>2
<1>5. CASE CatchNext
  <2>1. next' = next + 1 /\ next' \in 1 .. Addresses + 1 /\ next' - 1 = next
    BY <1>0, <1>5 DEF CatchNext, NextAddress, Descriptors
  <2>2. /\ ConnectTypeOK' /\ AtPlaces' /\ HoldsOneDescriptor'
        /\ SslOverOpenDescriptor'
    BY <1>0, <1>5, <2>1, Released DEF CatchNext, given
  <2>3. Searching' /\ FirstThatAnswers' /\ GarbageOnlyAtFirst'
    BY <1>0, <1>5, <2>1, Released DEF CatchNext, given, Searching,
       FirstThatAnswers, GarbageOnlyAtFirst, GarbageFd, NoFd
  <2>4. QED
    BY <1>a, <2>2, <2>3
<1> USE DEF Searching, FirstThatAnswers, GarbageOnlyAtFirst
<1>6. CASE CatchGarbage
  BY <1>0, <1>6 DEF CatchGarbage, ReleaseGarbage, given
<1>7. CASE BlockingDone
  BY <1>7 DEF BlockingDone, Opened, given
<1>8. CASE NotRegistered
  BY <1>8 DEF NotRegistered, given, Descriptors, NoFd
<1>9. CASE ContinueConnectTcp
  BY <1>9 DEF ContinueConnectTcp, Connecting, given
<1>10. CASE ContinueConnectSsl
  BY <1>10 DEF ContinueConnectSsl, Handshake, Connecting, given
<1>11. CASE Close
  BY <1>11, Released DEF Close, given
<1>12. CASE Retry
  <2>1. /\ pc = "closed" /\ ~blocking /\ UNCHANGED <<ssl, open, given>>
        /\ next' = 1 /\ fd' = GarbageFd /\ givenUp' = {} /\ pc' = "for"
        /\ ctx' = FreshCtx /\ connected' = FALSE
    BY <1>12 DEF Retry
  <2>2. /\ ConnectTypeOK' /\ AtPlaces' /\ HoldsOneDescriptor'
        /\ SslOverOpenDescriptor'
    <3>1. open = {} /\ HoldsOneDescriptor'
      BY <1>0, <2>1
    <3>2. AtPlaces' /\ SslOverOpenDescriptor'
      BY <1>0, <2>1 DEF given
    <3>3. ConnectTypeOK'
      BY <2>1, <3>1, Fresh DEF given
    <3>4. QED
      BY <3>1, <3>2, <3>3
  <2>3. Searching' /\ FirstThatAnswers' /\ GarbageOnlyAtFirst'
    BY <1>0, <2>1 DEF FreshCtx, given
  <2>4. QED
    BY <1>a, <2>2, <2>3
<1>13. CASE UNCHANGED vars
  BY <1>13 DEF vars, given
<1>14. QED
  BY <1>1, <1>2, <1>3, <1>4, <1>5, <1>6, <1>7, <1>8, <1>9, <1>10, <1>11,
     <1>12, <1>13 DEF Next

(* The inductive invariant of Connect.                                     *)
LEMMA ConnectInvariant == Spec => []ConnectInv
<1>1. Init => ConnectInv
  BY ConnectInvInit
<1>2. ConnectInv /\ [Next]_vars => ConnectInv'
  BY ConnectInvStep
<1>3. QED
  BY <1>1, <1>2, PTL DEF Spec

(* The types of a stream; the search never leaves the list of addresses    *)
(* (tcp_stream.cpp:21).                                                    *)
THEOREM ConnectTypeCorrect == Spec => []ConnectTypeOK
<1>1. ConnectInv => ConnectTypeOK
  BY DEF ConnectInv
<1>2. QED
  BY <1>1, ConnectInvariant, PTL

(* No descriptor is lost and none is closed twice, for any number of       *)
(* addresses, failures and retries.                                        *)
THEOREM DescriptorCorrect == Spec => []HoldsOneDescriptor
<1>1. ConnectInv => HoldsOneDescriptor
  BY DEF ConnectInv
<1>2. QED
  BY <1>1, ConnectInvariant, PTL

(* The TLS object of ssl_stream.cpp never outlives its context or its      *)
(* descriptor.                                                             *)
THEOREM SslCorrect == Spec => []SslOverOpenDescriptor
<1>1. ConnectInv => SslOverOpenDescriptor
  BY DEF ConnectInv
<1>2. QED
  BY <1>1, ConnectInvariant, PTL

(* A blocking connect (tcp_stream.cpp:21, ssl_stream.cpp:26) that comes to *)
(* its end has taken the addresses in order, none left out, up to one that *)
(* answers, or to the end of the list; for http with descriptors to spare  *)
(* it has given up none that answers.                                      *)
THEOREM FirstCorrect == Spec => []FirstThatAnswers
<1>1. ConnectInv => FirstThatAnswers
  BY DEF ConnectInv
<1>2. QED
  BY <1>1, ConnectInvariant, PTL

(* The uninitialised fd (tcp_stream.cpp:38) is closed only when the first  *)
(* socket() has failed, the uninitialised ctx (ssl_stream.cpp:95) freed    *)
(* only after the first address, for any number of addresses.              *)
THEOREM GarbageCorrect == Spec => []GarbageOnlyAtFirst
<1>1. ConnectInv => GarbageOnlyAtFirst
  BY DEF ConnectInv
<1>2. QED
  BY <1>1, ConnectInvariant, PTL

=============================================================================
