---------------------------- MODULE LengthController ----------------------------
(***************************************************************************)
(* The book-keeping of a range download (src/src/length_controller.cpp):   *)
(* which fragments of the file are still to be fetched and which worker    *)
(* fetches which of them.                                                  *)
(*                                                                         *)
(* length_monitor is a std::list of fragments and node_finder a map from   *)
(* workers to pointers into it, so both are functions here: the list from  *)
(* the address of a node to the fragment in it, the map from a worker to   *)
(* an address.  The order of the list matters to the code in one way only: *)
(* list::sort leaves a fragment with the greatest splitLength() at the     *)
(* back, and next() and add() look at the back.  CanBeBack is the set of   *)
(* nodes the sort may leave there; ties are resolved nondeterministically. *)
(***************************************************************************)
EXTENDS Integers

CONSTANTS
  Size,      (* The length handed to the constructor, the Content-Length.  *)
  Min,       (* Halves of at most this length are not split off.           *)
  Workers,   (* The worker objects, known to the controller by address.    *)
  NoWorker,  (* The null worker of a fragment nobody fetches.              *)
  Nodes      (* The addresses a list node may have: bounds the list.       *)

ASSUME SizeAssumption == Size \in Nat
ASSUME MinAssumption == Min \in Nat
ASSUME NoWorkerAssumption == NoWorker \notin Workers
ASSUME NodesAssumption == Nodes # {}

VARIABLES
  length_monitor,  (* [address -> Fragment], on the addresses in use.      *)
  node_finder,     (* [worker -> address], on the workers being tracked.   *)
  file_offset      (* [worker -> offset], what its getOffset() returns.    *)

controllerVars == <<length_monitor, node_finder, file_offset>>

Fragment == [begin : Int, end : Int, worker : Workers \cup {NoWorker}]

(* A connection moves its offset by at most one body of Size bytes. *)
Offsets == 0 .. 2 * Size

Put(f, x, v) == [y \in DOMAIN f \cup {x} |-> IF y = x THEN v ELSE f[y]]

Drop(f, x) == [y \in DOMAIN f \ {x} |-> f[y]]

(* C++ division truncates towards zero; \div rounds down. *)
Half(f) ==
  LET length == f.end - f.begin
  IN  IF length >= 0 THEN length \div 2 ELSE -((-length) \div 2)

(* Mutant: busy or not. *)
SplitLengthWhole(f) == f.end - f.begin

SplitLength(f) == IF f.worker = NoWorker THEN f.end - f.begin ELSE Half(f)

CanBeBack ==
  {n \in DOMAIN length_monitor :
     \A m \in DOMAIN length_monitor :
       SplitLength(length_monitor[m]) <= SplitLength(length_monitor[n])}

(***************************************************************************)
(* Operations.                                                             *)
(***************************************************************************)

(* Mutant: next() rounds the other way than add(). *)
NextRangeRoundedUp(n) ==
  LET f == length_monitor[n]
  IN  IF f.worker = NoWorker
        THEN [begin |-> f.begin, end |-> f.end]
        ELSE IF Half(f) > Min
               THEN [begin |-> f.end - Half(f), end |-> f.end]
               ELSE [begin |-> 0, end |-> 0]

(* What next() answers when node n is at the back of the list. *)
NextRange(n) ==
  LET f == length_monitor[n]
  IN  IF f.worker = NoWorker
        THEN [begin |-> f.begin, end |-> f.end]
        ELSE IF Half(f) > Min
               THEN [begin |-> f.begin + Half(f), end |-> f.end]
               ELSE [begin |-> 0, end |-> 0]

(* Mutant: the fragment that is split keeps its end. *)
AddKeepingEnd(w, n) ==
  LET f   == length_monitor[n]
      new == CHOOSE m \in Nodes : m \notin DOMAIN length_monitor
  IN  \/ /\ f.worker = NoWorker
         /\ length_monitor' = [length_monitor EXCEPT ![n].worker = w]
         /\ node_finder' = Put(node_finder, w, n)
      \/ /\ f.worker # NoWorker
         /\ Half(f) > Min
         /\ ~(Nodes \subseteq DOMAIN length_monitor)
         /\ length_monitor' =
              Put(length_monitor, new,
                  [begin |-> f.begin + Half(f), end |-> f.end, worker |-> w])
         /\ node_finder' = Put(node_finder, w, new)

(* add(): worker w takes an idle fragment as it is, or the upper half of   *)
(* a busy one.  The new node gets an address no other node has.            *)
Add(w, n) ==
  LET f   == length_monitor[n]
      mid == f.begin + Half(f)
      new == CHOOSE m \in Nodes : m \notin DOMAIN length_monitor
  IN  \/ /\ f.worker = NoWorker
         /\ length_monitor' = [length_monitor EXCEPT ![n].worker = w]
         /\ node_finder' = Put(node_finder, w, n)
      \/ /\ f.worker # NoWorker
         /\ Half(f) > Min
         /\ ~(Nodes \subseteq DOMAIN length_monitor)
         /\ length_monitor' =
              Put([length_monitor EXCEPT ![n].end = mid], new,
                  [begin |-> mid, end |-> f.end, worker |-> w])
         /\ node_finder' = Put(node_finder, w, new)

(* list::remove(f): every node that holds an equal fragment goes. *)
Remove(list, f) == [n \in {m \in DOMAIN list : list[m] # f} |-> list[n]]

(* The list once the fragment of w begins where w has got to. *)
Advanced(w, offset) ==
  [length_monitor EXCEPT ![node_finder[w]].begin = offset]

(* Mutant: <= for <. *)
ContinuesAtEnd(w, offset) == offset <= length_monitor[node_finder[w]].end

(* afterRead() answers false when the worker has reached the end of its   *)
(* fragment, as it may with bytes to spare if the fragment was split.     *)
Continues(w, offset) == offset < length_monitor[node_finder[w]].end

(* Mutant: the worker is not erased from node_finder. *)
AfterReadKeepingPointer(w, offset) ==
  LET list == Advanced(w, offset)
  IN  /\ length_monitor' =
           IF Continues(w, offset) THEN list ELSE Remove(list, list[node_finder[w]])
      /\ UNCHANGED node_finder

AfterRead(w, offset) ==
  LET list == Advanced(w, offset)
  IN  IF Continues(w, offset)
        THEN /\ length_monitor' = list
             /\ UNCHANGED node_finder
        ELSE /\ length_monitor' = Remove(list, list[node_finder[w]])
             /\ node_finder' = Drop(node_finder, w)

(* Mutants: the fragment of a stopped worker is forgotten; it stays busy;  *)
(* the worker is not erased from node_finder.                              *)
WorkerStoppedForgetting(w, offset) ==
  IF w \notin DOMAIN node_finder
    THEN UNCHANGED <<length_monitor, node_finder>>
    ELSE /\ length_monitor' = Drop(length_monitor, node_finder[w])
         /\ node_finder' = Drop(node_finder, w)

WorkerStoppedStayingBusy(w, offset) ==
  IF w \notin DOMAIN node_finder
    THEN UNCHANGED <<length_monitor, node_finder>>
    ELSE /\ length_monitor' = Advanced(w, offset)
         /\ node_finder' = Drop(node_finder, w)

WorkerStoppedKeepingPointer(w, offset) ==
  LET list == Advanced(w, offset)
  IN  IF w \notin DOMAIN node_finder
        THEN UNCHANGED <<length_monitor, node_finder>>
        ELSE /\ length_monitor' =
                  IF Continues(w, offset)
                    THEN [list EXCEPT ![node_finder[w]].worker = NoWorker]
                    ELSE Remove(list, list[node_finder[w]])
             /\ UNCHANGED node_finder

(* workerStopped(): what w has not fetched becomes idle again.  A worker  *)
(* the controller does not track any more is ignored.                     *)
WorkerStopped(w, offset) ==
  LET list == Advanced(w, offset)
  IN  IF w \notin DOMAIN node_finder
        THEN UNCHANGED <<length_monitor, node_finder>>
        ELSE /\ length_monitor' =
                  IF Continues(w, offset)
                    THEN [list EXCEPT ![node_finder[w]].worker = NoWorker]
                    ELSE Remove(list, list[node_finder[w]])
             /\ node_finder' = Drop(node_finder, w)

(***************************************************************************)
(* The controller as its one client, the download loop, drives it.         *)
(***************************************************************************)

ControllerInit ==
  /\ length_monitor = [n \in {CHOOSE m \in Nodes : TRUE} |->
       [begin |-> 0, end |-> Size - 1, worker |-> NoWorker]]
  /\ node_finder = [w \in {} |-> 0]
  /\ file_offset = [w \in Workers |-> 0]

(* A free slot of the loop asks for a range with n at the back of the     *)
(* list; unless it is empty, a worker is created at its beginning and     *)
(* added.                                                                 *)
EmptyRange(n) == NextRange(n).end - NextRange(n).begin = 0

Spawn(w, n) ==
  /\ w \notin DOMAIN node_finder
  /\ n \in CanBeBack
  /\ ~EmptyRange(n)
  /\ Add(w, n)
  /\ file_offset' = [file_offset EXCEPT ![w] = NextRange(n).begin]

(* A worker in the middle of a body has written up to offset. *)
Read(w, offset) ==
  /\ w \in DOMAIN node_finder
  /\ offset >= file_offset[w]
  /\ file_offset' = [file_offset EXCEPT ![w] = offset]
  /\ AfterRead(w, offset)

(* A worker has stopped, possibly after some more writes. *)
Stop(w, offset) ==
  /\ w \in DOMAIN node_finder
  /\ offset >= file_offset[w]
  /\ file_offset' = [file_offset EXCEPT ![w] = offset]
  /\ WorkerStopped(w, offset)

ControllerNext ==
  \E w \in Workers :
    \/ \E n \in Nodes : Spawn(w, n)
    \/ \E offset \in Offsets : Read(w, offset)
    \/ \E offset \in Offsets : Stop(w, offset)

ControllerSpec == ControllerInit /\ [][ControllerNext]_controllerVars

(***************************************************************************)
(* Properties.                                                             *)
(***************************************************************************)

ControllerTypeOK ==
  /\ DOMAIN length_monitor \subseteq Nodes
  /\ \A n \in DOMAIN length_monitor : length_monitor[n] \in Fragment
  /\ DOMAIN node_finder \subseteq Workers
  /\ \A w \in DOMAIN node_finder : node_finder[w] \in DOMAIN length_monitor
  /\ file_offset \in [Workers -> Int]

(* The two structures mirror each other: the pointer kept for a worker     *)
(* leads to a live node that names this worker, and every busy node is     *)
(* the one its worker is mapped to.  finished() throws "Bad bound in       *)
(* length controller" when only the list has run empty.                    *)
FinderAgrees ==
  /\ \A w \in DOMAIN node_finder :
       /\ node_finder[w] \in DOMAIN length_monitor
       /\ length_monitor[node_finder[w]].worker = w
  /\ \A n \in DOMAIN length_monitor :
       LET w == length_monitor[n].worker
       IN  w # NoWorker => w \in DOMAIN node_finder /\ node_finder[w] = n

(* The fragment of a tracked worker begins exactly where the worker will   *)
(* write next: next() has handed out the range that add() then books, and  *)
(* no write goes unreported.                                               *)
Synced ==
  \A w \in DOMAIN node_finder :
    length_monitor[node_finder[w]].begin = file_offset[w]

(* No byte is in two fragments, however often fragments are split, left    *)
(* by a failing worker and taken up again.                                 *)
FragmentsDisjoint ==
  \A n, m \in DOMAIN length_monitor :
    n # m => \/ length_monitor[n].end <= length_monitor[m].begin
             \/ length_monitor[m].end <= length_monitor[n].begin

(* Every fragment holds something to fetch, so that the range next()       *)
(* computes from it is empty only when it is too short to split.           *)
FragmentsWorthFetching ==
  \A n \in DOMAIN length_monitor :
    /\ 0 <= length_monitor[n].begin
    /\ length_monitor[n].begin < length_monitor[n].end
    /\ length_monitor[n].end <= Size - 1

(* Of a file of two bytes or more a slot is left empty only while a worker *)
(* fetches: next() answers (0, 0) for a busy fragment, at which its worker *)
(* is tracked, too short to be split; and no fragment it passes over is    *)
(* longer than that half: neither an idle one nor the half of a busy one.  *)
(* An idle one has to wait for that worker; see Finishes in Download.      *)
NothingOnlyWhenBusy ==
  \A n \in CanBeBack :
    LET f == length_monitor[n]
    IN  EmptyRange(n) =>
          /\ f.worker \in DOMAIN node_finder /\ node_finder[f.worker] = n
          /\ Half(f) <= Min
          /\ \A m \in DOMAIN length_monitor :
               SplitLength(length_monitor[m]) <= Half(f)

(* The bytes still to be fetched according to the controller. *)
Owed ==
  {b \in 0 .. Size - 1 :
     \E n \in DOMAIN length_monitor :
       length_monitor[n].begin <= b /\ b < length_monitor[n].end}

(* A byte leaves the books only when the worker responsible for it has     *)
(* moved past it, and never comes back: splits, stops and retries neither  *)
(* lose a byte nor fetch one twice.                                        *)
OwedOnlyShrinksByReading ==
  [][/\ Owed' \subseteq Owed
     /\ \A b \in Owed \ Owed' :
          \E w \in DOMAIN node_finder :
            /\ file_offset[w] <= b /\ b < file_offset'[w]
            /\ b < length_monitor[node_finder[w]].end]_controllerVars

=============================================================================
