------------------------- MODULE LengthControllerProofs -------------------------
(***************************************************************************)
(* Proofs about LengthController, for every size, threshold, set of        *)
(* workers and set of addresses.                                           *)
(*                                                                         *)
(* Each operation of the controller changes the list at one node, so the   *)
(* lemmas below first say what the list is afterwards, node by node; the   *)
(* parts of the invariant then follow by comparing that node with any      *)
(* other.  Offsets range over all integers: nothing depends on Offsets.    *)
(***************************************************************************)
EXTENDS LengthController, TLAPS

(* The inductive invariant.  FragmentsDisjoint needs Synced (a fragment    *)
(* only ever shrinks from below), Synced needs FinderAgrees (an operation  *)
(* on behalf of one worker touches no fragment of another).  A file of     *)
(* less than two bytes starts with a fragment that is not worth fetching.  *)
ControllerInv ==
  /\ ControllerTypeOK
  /\ FinderAgrees
  /\ Synced
  /\ FragmentsDisjoint
  /\ Size >= 2 => FragmentsWorthFetching

USE SizeAssumption, MinAssumption, NoWorkerAssumption, NodesAssumption

-----------------------------------------------------------------------------

(* A half is an integer, and one above the threshold splits a fragment    *)
(* into two that are not empty.                                           *)
LEMMA HalfSplits ==
  ASSUME NEW f \in Fragment
  PROVE  /\ Half(f) \in Int
         /\ Half(f) > Min => /\ f.begin < f.begin + Half(f)
                             /\ f.begin + Half(f) < f.end
BY DEF Half, Fragment

(* The list after an idle fragment has been given to a worker. *)
LEMMA AddIdle ==
  ASSUME ControllerTypeOK, NEW w \in Workers, NEW n \in DOMAIN length_monitor,
         length_monitor[n].worker = NoWorker, Add(w, n)
  PROVE  /\ DOMAIN length_monitor' = DOMAIN length_monitor
         /\ \A m \in DOMAIN length_monitor :
              /\ length_monitor'[m] \in Fragment
              /\ length_monitor'[m].begin = length_monitor[m].begin
              /\ length_monitor'[m].end = length_monitor[m].end
              /\ length_monitor'[m].worker =
                   IF m = n THEN w ELSE length_monitor[m].worker
         /\ DOMAIN node_finder' = DOMAIN node_finder \cup {w}
         /\ \A v \in DOMAIN node_finder' :
              node_finder'[v] = IF v = w THEN n ELSE node_finder[v]
<1>1. /\ length_monitor' = [length_monitor EXCEPT ![n].worker = w]
      /\ node_finder' = Put(node_finder, w, n)
  BY DEF Add
<1>2. QED
  BY <1>1 DEF ControllerTypeOK, Fragment, Put

(* The list after the upper half of a busy fragment has been split off. *)
LEMMA AddSplit ==
  ASSUME ControllerTypeOK, NEW w \in Workers, NEW n \in DOMAIN length_monitor,
         length_monitor[n].worker # NoWorker, Add(w, n)
  PROVE  \E new \in Nodes :
           /\ new \notin DOMAIN length_monitor
           /\ DOMAIN length_monitor' = DOMAIN length_monitor \cup {new}
           /\ length_monitor'[new] \in Fragment
           /\ length_monitor'[new].begin = NextRange(n).begin
           /\ length_monitor'[new].end = length_monitor[n].end
           /\ length_monitor'[new].worker = w
           /\ \A m \in DOMAIN length_monitor :
                /\ length_monitor'[m] \in Fragment
                /\ length_monitor'[m].begin = length_monitor[m].begin
                /\ length_monitor'[m].end =
                     IF m = n THEN NextRange(n).begin ELSE length_monitor[m].end
                /\ length_monitor'[m].worker = length_monitor[m].worker
           /\ DOMAIN node_finder' = DOMAIN node_finder \cup {w}
           /\ \A v \in DOMAIN node_finder' :
                node_finder'[v] = IF v = w THEN new ELSE node_finder[v]
<1> DEFINE mid == length_monitor[n].begin + Half(length_monitor[n])
           upper == [begin |-> mid, end |-> length_monitor[n].end, worker |-> w]
<1>1. PICK new \in Nodes :
        /\ new \notin DOMAIN length_monitor
        /\ length_monitor' =
             Put([length_monitor EXCEPT ![n].end = mid], new, upper)
        /\ node_finder' = Put(node_finder, w, new)
  <2> DEFINE chosen == CHOOSE m \in Nodes : m \notin DOMAIN length_monitor
  <2>1. /\ ~(Nodes \subseteq DOMAIN length_monitor)
        /\ length_monitor' =
             Put([length_monitor EXCEPT ![n].end = mid], chosen, upper)
        /\ node_finder' = Put(node_finder, w, chosen)
    BY DEF Add
  <2>2. chosen \in Nodes /\ chosen \notin DOMAIN length_monitor
    BY <2>1
  <2> HIDE DEF chosen
  <2>3. QED
    BY <2>1, <2>2
<1>2. length_monitor[n] \in Fragment
  BY DEF ControllerTypeOK
<1>3. mid \in Int /\ upper \in Fragment
  BY <1>2, HalfSplits DEF Fragment
<1>4. NextRange(n).begin = mid
  <2>1. Half(length_monitor[n]) > Min
    BY DEF Add
  <2>2. QED
    BY <2>1 DEF NextRange
<1>5. /\ DOMAIN length_monitor' = DOMAIN length_monitor \cup {new}
      /\ length_monitor'[new] = upper
      /\ \A m \in DOMAIN length_monitor :
           length_monitor'[m] =
             IF m = n THEN [length_monitor[n] EXCEPT !.end = mid]
                      ELSE length_monitor[m]
  BY <1>1 DEF Put
<1>6. /\ length_monitor'[new].begin = NextRange(n).begin
      /\ length_monitor'[new].end = length_monitor[n].end
      /\ length_monitor'[new].worker = w
  BY <1>4, <1>5
<1> HIDE DEF mid, upper
<1>7. ASSUME NEW m \in DOMAIN length_monitor
      PROVE  /\ length_monitor'[m] \in Fragment
             /\ length_monitor'[m].begin = length_monitor[m].begin
             /\ length_monitor'[m].end =
                  IF m = n THEN NextRange(n).begin ELSE length_monitor[m].end
             /\ length_monitor'[m].worker = length_monitor[m].worker
  <2>1. CASE m = n
    <3>1. length_monitor'[m] = [length_monitor[n] EXCEPT !.end = mid]
      BY <1>5, <2>1
    <3>2. QED
      BY <1>2, <1>3, <1>4, <2>1, <3>1 DEF Fragment
  <2>2. CASE m # n
    <3>1. length_monitor'[m] = length_monitor[m]
      BY <1>5, <2>2
    <3>2. QED
      BY <2>2, <3>1 DEF ControllerTypeOK
  <2>3. QED
    BY <2>1, <2>2
<1>8. /\ DOMAIN node_finder' = DOMAIN node_finder \cup {w}
      /\ \A v \in DOMAIN node_finder' :
           node_finder'[v] = IF v = w THEN new ELSE node_finder[v]
  BY <1>1 DEF Put
<1>9. /\ new \notin DOMAIN length_monitor
      /\ DOMAIN length_monitor' = DOMAIN length_monitor \cup {new}
      /\ length_monitor'[new] \in Fragment
  BY <1>1, <1>3, <1>5
<1> WITNESS new \in Nodes
<1>10. QED
  BY <1>6, <1>7, <1>8, <1>9

(* list::remove() takes out the fragment of one worker and no other: all   *)
(* busy fragments differ in their worker.                                  *)
LEMMA RemoveOne ==
  ASSUME ControllerTypeOK, FinderAgrees,
         NEW w \in DOMAIN node_finder, NEW offset \in Int,
         length_monitor' =
           Remove(Advanced(w, offset), Advanced(w, offset)[node_finder[w]])
  PROVE  /\ DOMAIN length_monitor' = DOMAIN length_monitor \ {node_finder[w]}
         /\ \A m \in DOMAIN length_monitor' :
              length_monitor'[m] = length_monitor[m]
<1> DEFINE n == node_finder[w]
           list == Advanced(w, offset)
<1>1. /\ n \in DOMAIN length_monitor
      /\ length_monitor[n] \in Fragment
      /\ length_monitor[n].worker = w
      /\ w \in Workers
  BY DEF ControllerTypeOK, FinderAgrees
<1>2. /\ DOMAIN list = DOMAIN length_monitor
      /\ list[n] = [length_monitor[n] EXCEPT !.begin = offset]
      /\ \A m \in DOMAIN list : m # n => list[m] = length_monitor[m]
  BY <1>1 DEF Advanced
<1>3. list[n].worker = w
  BY <1>1, <1>2 DEF Fragment
<1>4. ASSUME NEW m \in DOMAIN list, list[m] = list[n]
      PROVE  m = n
  <2>1. SUFFICES ASSUME m # n PROVE FALSE
    OBVIOUS
  <2>2. length_monitor[m].worker = w
    BY <1>2, <1>3, <1>4, <2>1
  <2>3. w # NoWorker
    BY <1>1
  <2>4. m = node_finder[w]
    BY <1>2, <2>2, <2>3 DEF FinderAgrees
  <2>5. QED
    BY <2>1, <2>4
<1> HIDE DEF list
<1>5. /\ DOMAIN length_monitor' = {m \in DOMAIN list : list[m] # list[n]}
      /\ \A m \in DOMAIN length_monitor' : length_monitor'[m] = list[m]
  BY DEF Remove, list
<1>6. DOMAIN length_monitor' = DOMAIN length_monitor \ {n}
  BY <1>1, <1>2, <1>4, <1>5
<1>7. QED
  BY <1>2, <1>5, <1>6

-----------------------------------------------------------------------------
(* The four things that may happen to the list.  In each case the moved    *)
(* offset belongs to the worker the change is about, so that Synced is     *)
(* kept for every other worker.                                            *)

(* A worker leaves with its fragment. *)
LEMMA LeavingKeepsInv ==
  ASSUME ControllerInv, NEW w \in DOMAIN node_finder,
         NEW offset \in Int, NEW x \in Int,
         length_monitor' =
           Remove(Advanced(w, offset), Advanced(w, offset)[node_finder[w]]),
         node_finder' = Drop(node_finder, w),
         file_offset' = [file_offset EXCEPT ![w] = x]
  PROVE  ControllerInv'
<1> DEFINE n == node_finder[w]
<1>1. /\ DOMAIN length_monitor' = DOMAIN length_monitor \ {n}
      /\ \A m \in DOMAIN length_monitor' :
           length_monitor'[m] = length_monitor[m]
  BY RemoveOne DEF ControllerInv
<1>2. /\ DOMAIN node_finder' = DOMAIN node_finder \ {w}
      /\ \A v \in DOMAIN node_finder' : node_finder'[v] = node_finder[v]
  BY DEF Drop
<1>3. /\ w \in Workers /\ n \in DOMAIN length_monitor
      /\ length_monitor[n].worker = w
      /\ file_offset \in [Workers -> Int]
  BY DEF ControllerInv, ControllerTypeOK, FinderAgrees
<1>4. /\ file_offset' \in [Workers -> Int]
      /\ \A v \in Workers \ {w} : file_offset'[v] = file_offset[v]
  BY <1>3
<1>5. \A v \in DOMAIN node_finder' : node_finder'[v] # n
  BY <1>2, <1>3 DEF ControllerInv, FinderAgrees
<1>6. ControllerTypeOK'
  BY <1>1, <1>2, <1>4, <1>5 DEF ControllerInv, ControllerTypeOK
<1>7. FinderAgrees'
  <2>1. ASSUME NEW v \in DOMAIN node_finder'
        PROVE  /\ node_finder'[v] \in DOMAIN length_monitor'
               /\ length_monitor'[node_finder'[v]].worker = v
    BY <1>1, <1>2, <1>5, <2>1 DEF ControllerInv, FinderAgrees
  <2>2. ASSUME NEW m \in DOMAIN length_monitor',
               length_monitor'[m].worker # NoWorker
        PROVE  /\ length_monitor'[m].worker \in DOMAIN node_finder'
               /\ node_finder'[length_monitor'[m].worker] = m
    <3>1. m # n /\ length_monitor'[m] = length_monitor[m]
      BY <1>1
    <3>2. /\ length_monitor[m].worker \in DOMAIN node_finder
          /\ node_finder[length_monitor[m].worker] = m
      BY <1>1, <2>2, <3>1 DEF ControllerInv, FinderAgrees
    <3>3. QED
      BY <1>2, <3>1, <3>2
  <2>3. QED
    BY <2>1, <2>2 DEF FinderAgrees
<1>8. Synced'
  BY <1>1, <1>2, <1>4, <1>5, <1>6
     DEF ControllerInv, ControllerTypeOK, Synced
<1>9. FragmentsDisjoint'
  BY <1>1 DEF ControllerInv, FragmentsDisjoint
<1>10. (Size >= 2 => FragmentsWorthFetching)'
  BY <1>1 DEF ControllerInv, FragmentsWorthFetching
<1>11. QED
  BY <1>6, <1>7, <1>8, <1>9, <1>10 DEF ControllerInv

(* A worker goes on, further up in its fragment. *)
LEMMA AdvancingKeepsInv ==
  ASSUME ControllerInv, NEW w \in DOMAIN node_finder,
         NEW offset \in Int, offset >= file_offset[w], Continues(w, offset),
         length_monitor' = Advanced(w, offset),
         UNCHANGED node_finder,
         file_offset' = [file_offset EXCEPT ![w] = offset]
  PROVE  ControllerInv'
<1> DEFINE n == node_finder[w]
<1>1. /\ w \in Workers /\ n \in DOMAIN length_monitor
      /\ length_monitor[n] \in Fragment
      /\ length_monitor[n].worker = w
      /\ length_monitor[n].begin = file_offset[w]
      /\ file_offset \in [Workers -> Int]
  BY DEF ControllerInv, ControllerTypeOK, FinderAgrees, Synced
<1>2. /\ DOMAIN length_monitor' = DOMAIN length_monitor
      /\ length_monitor'[n] = [length_monitor[n] EXCEPT !.begin = offset]
      /\ \A m \in DOMAIN length_monitor :
           m # n => length_monitor'[m] = length_monitor[m]
  BY <1>1 DEF Advanced
<1>3. /\ length_monitor'[n] \in Fragment
      /\ length_monitor'[n].begin = offset
      /\ length_monitor'[n].end = length_monitor[n].end
      /\ length_monitor'[n].worker = w
      /\ length_monitor[n].begin <= offset
      /\ offset < length_monitor[n].end
  BY <1>1, <1>2 DEF Fragment, Continues
<1>4. /\ file_offset' \in [Workers -> Int]
      /\ file_offset'[w] = offset
      /\ \A v \in Workers \ {w} : file_offset'[v] = file_offset[v]
  BY <1>1
<1>5. ControllerTypeOK'
  BY <1>2, <1>3, <1>4 DEF ControllerInv, ControllerTypeOK
<1>6. FinderAgrees'
  <2>1. \A m \in DOMAIN length_monitor :
          length_monitor'[m].worker = length_monitor[m].worker
    BY <1>1, <1>2, <1>3
  <2>2. QED
    BY <1>2, <2>1 DEF ControllerInv, FinderAgrees
<1>7. Synced'
  <2>1. ASSUME NEW v \in DOMAIN node_finder, v # w
        PROVE  length_monitor'[node_finder[v]].begin = file_offset'[v]
    <3>1. /\ node_finder[v] \in DOMAIN length_monitor
          /\ node_finder[v] # n
      BY <1>1, <2>1 DEF ControllerInv, FinderAgrees
    <3>2. v \in Workers
      BY DEF ControllerInv, ControllerTypeOK
    <3>3. QED
      BY <1>2, <1>4, <2>1, <3>1, <3>2 DEF ControllerInv, Synced
  <2>2. QED
    BY <1>3, <1>4, <2>1 DEF Synced
<1>8. FragmentsDisjoint'
  BY <1>1, <1>2, <1>3
     DEF ControllerInv, ControllerTypeOK, FragmentsDisjoint, Fragment
<1>9. (Size >= 2 => FragmentsWorthFetching)'
  BY <1>1, <1>2, <1>3
     DEF ControllerInv, ControllerTypeOK, FragmentsWorthFetching, Fragment
<1>10. QED
  BY <1>5, <1>6, <1>7, <1>8, <1>9 DEF ControllerInv

(* A worker leaves and its fragment stays, idle. *)
LEMMA IdlingKeepsInv ==
  ASSUME ControllerInv, NEW w \in DOMAIN node_finder,
         NEW offset \in Int, offset >= file_offset[w], Continues(w, offset),
         NEW x \in Int,
         length_monitor' =
           [Advanced(w, offset) EXCEPT ![node_finder[w]].worker = NoWorker],
         node_finder' = Drop(node_finder, w),
         file_offset' = [file_offset EXCEPT ![w] = x]
  PROVE  ControllerInv'
<1> DEFINE n == node_finder[w]
<1>1. /\ w \in Workers /\ n \in DOMAIN length_monitor
      /\ length_monitor[n] \in Fragment
      /\ length_monitor[n].worker = w
      /\ length_monitor[n].begin = file_offset[w]
      /\ file_offset \in [Workers -> Int]
  BY DEF ControllerInv, ControllerTypeOK, FinderAgrees, Synced
<1>2. /\ DOMAIN length_monitor' = DOMAIN length_monitor
      /\ length_monitor'[n] = [length_monitor[n] EXCEPT !.begin = offset,
                                                        !.worker = NoWorker]
      /\ \A m \in DOMAIN length_monitor :
           m # n => length_monitor'[m] = length_monitor[m]
  BY <1>1 DEF Advanced, Fragment
<1>3. /\ length_monitor'[n] \in Fragment
      /\ length_monitor'[n].begin = offset
      /\ length_monitor'[n].end = length_monitor[n].end
      /\ length_monitor'[n].worker = NoWorker
      /\ length_monitor[n].begin <= offset
      /\ offset < length_monitor[n].end
  BY <1>1, <1>2 DEF Fragment, Continues
<1>4. /\ file_offset' \in [Workers -> Int]
      /\ \A v \in Workers \ {w} : file_offset'[v] = file_offset[v]
  BY <1>1
<1>5. /\ DOMAIN node_finder' = DOMAIN node_finder \ {w}
      /\ \A v \in DOMAIN node_finder' : node_finder'[v] = node_finder[v]
  BY DEF Drop
<1>6. \A v \in DOMAIN node_finder' : node_finder'[v] # n
  BY <1>1, <1>5 DEF ControllerInv, FinderAgrees
<1>7. ControllerTypeOK'
  BY <1>2, <1>3, <1>4, <1>5 DEF ControllerInv, ControllerTypeOK
<1>8. FinderAgrees'
  <2>1. ASSUME NEW v \in DOMAIN node_finder'
        PROVE  /\ node_finder'[v] \in DOMAIN length_monitor'
               /\ length_monitor'[node_finder'[v]].worker = v
    BY <1>2, <1>5, <1>6, <2>1 DEF ControllerInv, FinderAgrees
  <2>2. ASSUME NEW m \in DOMAIN length_monitor',
               length_monitor'[m].worker # NoWorker
        PROVE  /\ length_monitor'[m].worker \in DOMAIN node_finder'
               /\ node_finder'[length_monitor'[m].worker] = m
    <3>1. m # n /\ length_monitor'[m] = length_monitor[m]
      BY <1>2, <1>3, <2>2
    <3>2. /\ length_monitor[m].worker \in DOMAIN node_finder
          /\ node_finder[length_monitor[m].worker] = m
      BY <1>2, <2>2, <3>1 DEF ControllerInv, FinderAgrees
    <3>3. QED
      BY <1>5, <3>1, <3>2
  <2>3. QED
    BY <2>1, <2>2 DEF FinderAgrees
<1>9. Synced'
  BY <1>2, <1>4, <1>5, <1>6
     DEF ControllerInv, ControllerTypeOK, Synced
<1>10. FragmentsDisjoint'
  BY <1>1, <1>2, <1>3
     DEF ControllerInv, ControllerTypeOK, FragmentsDisjoint, Fragment
<1>11. (Size >= 2 => FragmentsWorthFetching)'
  BY <1>1, <1>2, <1>3
     DEF ControllerInv, ControllerTypeOK, FragmentsWorthFetching, Fragment
<1>12. QED
  BY <1>7, <1>8, <1>9, <1>10, <1>11 DEF ControllerInv

(* A new worker takes over an idle fragment. *)
LEMMA TakingKeepsInv ==
  ASSUME ControllerInv, NEW w \in Workers, w \notin DOMAIN node_finder,
         NEW n \in DOMAIN length_monitor,
         length_monitor[n].worker = NoWorker, Add(w, n),
         file_offset' = [file_offset EXCEPT ![w] = NextRange(n).begin]
  PROVE  ControllerInv'
<1>1. /\ DOMAIN length_monitor' = DOMAIN length_monitor
      /\ \A m \in DOMAIN length_monitor :
           /\ length_monitor'[m] \in Fragment
           /\ length_monitor'[m].begin = length_monitor[m].begin
           /\ length_monitor'[m].end = length_monitor[m].end
           /\ length_monitor'[m].worker =
                IF m = n THEN w ELSE length_monitor[m].worker
      /\ DOMAIN node_finder' = DOMAIN node_finder \cup {w}
      /\ \A v \in DOMAIN node_finder' :
           node_finder'[v] = IF v = w THEN n ELSE node_finder[v]
  BY AddIdle DEF ControllerInv
<1>2. /\ NextRange(n).begin = length_monitor[n].begin
      /\ length_monitor[n].begin \in Int
      /\ file_offset \in [Workers -> Int]
  BY DEF ControllerInv, ControllerTypeOK, Fragment, NextRange
<1>3. /\ file_offset' \in [Workers -> Int]
      /\ file_offset'[w] = length_monitor[n].begin
      /\ \A v \in Workers \ {w} : file_offset'[v] = file_offset[v]
  BY <1>2
<1>4. \A v \in DOMAIN node_finder : node_finder[v] # n /\ v # w
  BY DEF ControllerInv, ControllerTypeOK, FinderAgrees
<1>5. ControllerTypeOK'
  BY <1>1, <1>3 DEF ControllerInv, ControllerTypeOK
<1>6. FinderAgrees'
  <2>1. ASSUME NEW v \in DOMAIN node_finder'
        PROVE  /\ node_finder'[v] \in DOMAIN length_monitor'
               /\ length_monitor'[node_finder'[v]].worker = v
    BY <1>1, <1>4 DEF ControllerInv, FinderAgrees
  <2>2. ASSUME NEW m \in DOMAIN length_monitor',
               length_monitor'[m].worker # NoWorker
        PROVE  /\ length_monitor'[m].worker \in DOMAIN node_finder'
               /\ node_finder'[length_monitor'[m].worker] = m
    BY <1>1, <1>4, <2>2 DEF ControllerInv, FinderAgrees
  <2>3. QED
    BY <2>1, <2>2 DEF FinderAgrees
<1>7. Synced'
  <2>1. ASSUME NEW v \in DOMAIN node_finder
        PROVE  length_monitor'[node_finder'[v]].begin = file_offset'[v]
    <3>1. /\ v \in Workers \ {w}
          /\ node_finder[v] \in DOMAIN length_monitor
      BY <1>4 DEF ControllerInv, ControllerTypeOK
    <3>2. QED
      BY <1>1, <1>3, <3>1 DEF ControllerInv, Synced
  <2>2. length_monitor'[node_finder'[w]].begin = file_offset'[w]
    BY <1>1, <1>3
  <2>3. QED
    BY <1>1, <2>1, <2>2 DEF Synced
<1>8. FragmentsDisjoint'
  BY <1>1 DEF ControllerInv, FragmentsDisjoint
<1>9. (Size >= 2 => FragmentsWorthFetching)'
  BY <1>1 DEF ControllerInv, FragmentsWorthFetching
<1>10. QED
  BY <1>5, <1>6, <1>7, <1>8, <1>9 DEF ControllerInv

(* A new worker takes over the upper half of a busy fragment. *)
LEMMA SplittingKeepsInv ==
  ASSUME ControllerInv, NEW w \in Workers, w \notin DOMAIN node_finder,
         NEW n \in DOMAIN length_monitor,
         length_monitor[n].worker # NoWorker, Add(w, n),
         file_offset' = [file_offset EXCEPT ![w] = NextRange(n).begin]
  PROVE  ControllerInv'
<1> DEFINE mid == NextRange(n).begin
<1>0. /\ mid \in Int
      /\ length_monitor[n].begin < mid /\ mid < length_monitor[n].end
  <2>1. /\ length_monitor[n] \in Fragment
        /\ Half(length_monitor[n]) > Min
    BY DEF ControllerInv, ControllerTypeOK, Add
  <2>2. mid = length_monitor[n].begin + Half(length_monitor[n])
    BY <2>1 DEF NextRange
  <2>3. QED
    BY <2>1, <2>2, HalfSplits DEF Fragment
<1>1. PICK new \in Nodes :
      /\ new \notin DOMAIN length_monitor
      /\ DOMAIN length_monitor' = DOMAIN length_monitor \cup {new}
      /\ length_monitor'[new] \in Fragment
      /\ length_monitor'[new].begin = mid
      /\ length_monitor'[new].end = length_monitor[n].end
      /\ length_monitor'[new].worker = w
      /\ \A m \in DOMAIN length_monitor :
           /\ length_monitor'[m] \in Fragment
           /\ length_monitor'[m].begin = length_monitor[m].begin
           /\ length_monitor'[m].end =
                IF m = n THEN mid ELSE length_monitor[m].end
           /\ length_monitor'[m].worker = length_monitor[m].worker
      /\ DOMAIN node_finder' = DOMAIN node_finder \cup {w}
      /\ \A v \in DOMAIN node_finder' :
           node_finder'[v] = IF v = w THEN new ELSE node_finder[v]
  BY AddSplit DEF ControllerInv
<1>2. file_offset \in [Workers -> Int]
  BY DEF ControllerInv, ControllerTypeOK
<1>3. /\ file_offset' \in [Workers -> Int]
      /\ file_offset'[w] = mid
      /\ \A v \in Workers \ {w} : file_offset'[v] = file_offset[v]
  BY <1>0, <1>2
<1> HIDE DEF mid
<1>4. /\ mid \in Int
      /\ length_monitor[n].begin < mid /\ mid < length_monitor[n].end
      /\ length_monitor'[n].end = mid
      /\ length_monitor'[new].begin = mid
      /\ length_monitor'[new].end = length_monitor[n].end
      /\ length_monitor'[new].worker = w
  BY <1>0, <1>1
<1>5. \A v \in DOMAIN node_finder :
        v # w /\ node_finder[v] # new /\ node_finder[v] \in DOMAIN length_monitor
  BY <1>1 DEF ControllerInv, FinderAgrees
<1>6. ControllerTypeOK'
  BY <1>1, <1>3 DEF ControllerInv, ControllerTypeOK
<1>7. FinderAgrees'
  <2>1. ASSUME NEW v \in DOMAIN node_finder'
        PROVE  /\ node_finder'[v] \in DOMAIN length_monitor'
               /\ length_monitor'[node_finder'[v]].worker = v
    <3>1. CASE v = w
      BY <1>1, <1>4, <3>1
    <3>2. CASE v # w
      BY <1>1, <1>5, <3>2 DEF ControllerInv, FinderAgrees
    <3>3. QED
      BY <3>1, <3>2
  <2>2. ASSUME NEW m \in DOMAIN length_monitor',
               length_monitor'[m].worker # NoWorker
        PROVE  /\ length_monitor'[m].worker \in DOMAIN node_finder'
               /\ node_finder'[length_monitor'[m].worker] = m
    <3>1. CASE m = new
      BY <1>1, <1>4, <3>1
    <3>2. CASE m # new
      <4>1. m \in DOMAIN length_monitor
        BY <1>1, <3>2
      <4>2. /\ length_monitor[m].worker \in DOMAIN node_finder
            /\ node_finder[length_monitor[m].worker] = m
        BY <1>1, <2>2, <4>1 DEF ControllerInv, FinderAgrees
      <4>3. QED
        BY <1>1, <1>5, <4>1, <4>2
    <3>3. QED
      BY <3>1, <3>2
  <2>3. QED
    BY <2>1, <2>2 DEF FinderAgrees
<1>8. Synced'
  <2>1. ASSUME NEW v \in DOMAIN node_finder
        PROVE  length_monitor'[node_finder'[v]].begin = file_offset'[v]
    <3>1. v \in Workers \ {w}
      BY <1>5 DEF ControllerInv, ControllerTypeOK
    <3>2. QED
      BY <1>1, <1>3, <1>5, <3>1 DEF ControllerInv, Synced
  <2>2. length_monitor'[node_finder'[w]].begin = file_offset'[w]
    BY <1>1, <1>3, <1>4
  <2>3. QED
    BY <1>1, <2>1, <2>2 DEF Synced
<1>9. \A m \in DOMAIN length_monitor :
        /\ length_monitor[m].begin \in Int
        /\ length_monitor[m].end \in Int
        /\ length_monitor'[m].begin = length_monitor[m].begin
        /\ length_monitor'[m].end \in Int
        /\ length_monitor'[m].end <= length_monitor[m].end
  <2>1. \A m \in DOMAIN length_monitor :
          length_monitor[m].begin \in Int /\ length_monitor[m].end \in Int
    BY DEF ControllerInv, ControllerTypeOK, Fragment
  <2>2. ASSUME NEW m \in DOMAIN length_monitor
        PROVE  /\ length_monitor'[m].begin = length_monitor[m].begin
               /\ length_monitor'[m].end \in Int
               /\ length_monitor'[m].end <= length_monitor[m].end
    <3>1. CASE m = n
      BY <1>1, <1>4, <2>1, <3>1
    <3>2. CASE m # n
      BY <1>1, <2>1, <3>2
    <3>3. QED
      BY <3>1, <3>2
  <2>3. QED
    BY <2>1, <2>2
<1>10. FragmentsDisjoint'
  <2>1. ASSUME NEW a \in DOMAIN length_monitor,
               NEW b \in DOMAIN length_monitor, a # b
        PROVE  \/ length_monitor'[a].end <= length_monitor'[b].begin
               \/ length_monitor'[b].end <= length_monitor'[a].begin
    <3>1. \/ length_monitor[a].end <= length_monitor[b].begin
          \/ length_monitor[b].end <= length_monitor[a].begin
      BY <2>1 DEF ControllerInv, FragmentsDisjoint
    <3>2. QED
      BY <1>9, <3>1
  <2>2. ASSUME NEW a \in DOMAIN length_monitor
        PROVE  \/ length_monitor'[a].end <= length_monitor'[new].begin
               \/ length_monitor'[new].end <= length_monitor'[a].begin
    <3>1. CASE a = n
      BY <1>4, <1>9, <3>1
    <3>2. CASE a # n
      <4>1. \/ length_monitor[a].end <= length_monitor[n].begin
            \/ length_monitor[n].end <= length_monitor[a].begin
        BY <3>2 DEF ControllerInv, FragmentsDisjoint
      <4>2. /\ length_monitor[a].begin \in Int
            /\ length_monitor[a].end \in Int
            /\ length_monitor'[a].begin = length_monitor[a].begin
            /\ length_monitor'[a].end = length_monitor[a].end
        BY <1>1, <1>9, <3>2
      <4>3. /\ length_monitor[n].begin \in Int
            /\ length_monitor[n].end \in Int
        BY <1>9
      <4>4. QED
        BY <1>4, <4>1, <4>2, <4>3
    <3>3. QED
      BY <3>1, <3>2
  <2>3. DOMAIN length_monitor' = DOMAIN length_monitor \cup {new}
    BY <1>1
  <2>4. QED
    BY <2>1, <2>2, <2>3 DEF FragmentsDisjoint
<1>11. ASSUME Size >= 2
       PROVE  FragmentsWorthFetching'
  <2>1. \A m \in DOMAIN length_monitor :
          /\ 0 <= length_monitor[m].begin
          /\ length_monitor[m].begin < length_monitor[m].end
          /\ length_monitor[m].end <= Size - 1
    BY <1>11 DEF ControllerInv, FragmentsWorthFetching
  <2>2. ASSUME NEW m \in DOMAIN length_monitor'
        PROVE  /\ 0 <= length_monitor'[m].begin
               /\ length_monitor'[m].begin < length_monitor'[m].end
               /\ length_monitor'[m].end <= Size - 1
    <3>1. CASE m = new
      <4>1. 0 <= length_monitor[n].begin /\ length_monitor[n].end <= Size - 1
        BY <2>1
      <4>2. QED
        BY <1>4, <1>9, <3>1, <4>1
    <3>2. CASE m = n
      BY <1>4, <1>9, <2>1, <3>2
    <3>3. CASE m # new /\ m # n
      <4>1. m \in DOMAIN length_monitor
        BY <1>1, <3>3
      <4>2. length_monitor'[m].end = length_monitor[m].end
        BY <1>1, <3>3, <4>1
      <4>3. QED
        BY <1>9, <2>1, <4>1, <4>2
    <3>4. QED
      BY <3>1, <3>2, <3>3
  <2>3. QED
    BY <2>2 DEF FragmentsWorthFetching
<1>12. QED
  BY <1>6, <1>7, <1>8, <1>10, <1>11 DEF ControllerInv

-----------------------------------------------------------------------------
(* The operations, each with what its caller does to the offset.          *)

(* A worker is created for the range next() has handed out. *)
LEMMA SpawnKeepsInv ==
  ASSUME ControllerInv, NEW w \in Workers, NEW n \in Nodes, Spawn(w, n)
  PROVE  ControllerInv'
<1>1. /\ w \notin DOMAIN node_finder
      /\ n \in DOMAIN length_monitor
      /\ Add(w, n)
      /\ file_offset' = [file_offset EXCEPT ![w] = NextRange(n).begin]
  BY DEF Spawn, CanBeBack
<1>2. CASE length_monitor[n].worker = NoWorker
  BY <1>1, <1>2, TakingKeepsInv
<1>3. CASE length_monitor[n].worker # NoWorker
  BY <1>1, <1>3, SplittingKeepsInv
<1>4. QED
  BY <1>2, <1>3

(* A worker has written some of the body. *)
LEMMA ReadKeepsInv ==
  ASSUME ControllerInv, NEW w \in Workers, NEW offset \in Int, Read(w, offset)
  PROVE  ControllerInv'
<1>1. /\ w \in DOMAIN node_finder
      /\ offset >= file_offset[w]
      /\ file_offset' = [file_offset EXCEPT ![w] = offset]
  BY DEF Read
<1>2. CASE Continues(w, offset)
  <2>1. length_monitor' = Advanced(w, offset) /\ UNCHANGED node_finder
    BY <1>2 DEF Read, AfterRead
  <2>2. QED
    BY <1>1, <1>2, <2>1, AdvancingKeepsInv
<1>3. CASE ~Continues(w, offset)
  <2>1. /\ length_monitor' =
             Remove(Advanced(w, offset), Advanced(w, offset)[node_finder[w]])
        /\ node_finder' = Drop(node_finder, w)
    BY <1>3 DEF Read, AfterRead
  <2>2. QED
    BY <1>1, <2>1, LeavingKeepsInv
<1>4. QED
  BY <1>2, <1>3

(* workerStopped(), whatever becomes of the object of the worker. *)
LEMMA WorkerStoppedKeepsInv ==
  ASSUME ControllerInv, NEW w \in Workers, NEW offset \in Int,
         offset >= file_offset[w], WorkerStopped(w, offset),
         NEW x \in Int, file_offset' = [file_offset EXCEPT ![w] = x]
  PROVE  ControllerInv'
<1>1. CASE w \notin DOMAIN node_finder
  <2>1. UNCHANGED <<length_monitor, node_finder>>
    BY <1>1 DEF WorkerStopped
  <2>2. /\ file_offset' \in [Workers -> Int]
        /\ \A v \in DOMAIN node_finder : file_offset'[v] = file_offset[v]
    BY <1>1 DEF ControllerInv, ControllerTypeOK
  <2>3. QED
    BY <2>1, <2>2 DEF ControllerInv, ControllerTypeOK, FinderAgrees, Synced,
                      FragmentsDisjoint, FragmentsWorthFetching
<1>2. CASE w \in DOMAIN node_finder /\ Continues(w, offset)
  <2>1. /\ length_monitor' =
             [Advanced(w, offset) EXCEPT ![node_finder[w]].worker = NoWorker]
        /\ node_finder' = Drop(node_finder, w)
    BY <1>2 DEF WorkerStopped
  <2>2. QED
    BY <1>2, <2>1, IdlingKeepsInv
<1>3. CASE w \in DOMAIN node_finder /\ ~Continues(w, offset)
  <2>1. /\ length_monitor' =
             Remove(Advanced(w, offset), Advanced(w, offset)[node_finder[w]])
        /\ node_finder' = Drop(node_finder, w)
    BY <1>3 DEF WorkerStopped
  <2>2. QED
    BY <1>3, <2>1, LeavingKeepsInv
<1>4. QED
  BY <1>1, <1>2, <1>3

-----------------------------------------------------------------------------

(* The invariant holds after the constructor.                              *)
LEMMA InitInv == ControllerInit => ControllerInv
<1> SUFFICES ASSUME ControllerInit PROVE ControllerInv
  OBVIOUS
<1>1. PICK first \in Nodes : first = CHOOSE m \in Nodes : TRUE
  BY NodesAssumption
<1>2. /\ DOMAIN length_monitor = {first}
      /\ length_monitor[first] = [begin |-> 0, end |-> Size - 1,
                                  worker |-> NoWorker]
      /\ DOMAIN node_finder = {}
      /\ file_offset = [w \in Workers |-> 0]
  BY <1>1 DEF ControllerInit
<1>3. QED
  BY <1>2 DEF ControllerInv, ControllerTypeOK, Fragment, FinderAgrees, Synced,
              FragmentsDisjoint, FragmentsWorthFetching

(* Every call the loop makes keeps it.                                     *)
LEMMA NextKeepsInv ==
  ControllerInv /\ [ControllerNext]_controllerVars => ControllerInv'
<1> SUFFICES ASSUME ControllerInv, [ControllerNext]_controllerVars
             PROVE  ControllerInv'
  OBVIOUS
<1>1. ASSUME NEW w \in Workers, NEW n \in Nodes, Spawn(w, n)
      PROVE  ControllerInv'
  BY <1>1, SpawnKeepsInv
<1>2. ASSUME NEW w \in Workers, NEW offset \in Offsets, Read(w, offset)
      PROVE  ControllerInv'
  BY <1>2, ReadKeepsInv DEF Offsets
<1>3. ASSUME NEW w \in Workers, NEW offset \in Offsets, Stop(w, offset)
      PROVE  ControllerInv'
  <2>1. offset \in Int
    BY DEF Offsets
  <2>2. QED
    BY <1>3, <2>1, WorkerStoppedKeepsInv DEF Stop
<1>4. CASE UNCHANGED controllerVars
  BY <1>4 DEF controllerVars, ControllerInv, ControllerTypeOK, FinderAgrees,
              Synced, FragmentsDisjoint, FragmentsWorthFetching
<1>5. QED
  BY <1>1, <1>2, <1>3, <1>4 DEF ControllerNext

(* The inductive invariant of LengthController.                            *)
LEMMA SpecInv == ControllerSpec => []ControllerInv
<1>1. ControllerInit => ControllerInv
  BY InitInv
<1>2. ControllerInv /\ [ControllerNext]_controllerVars => ControllerInv'
  BY NextKeepsInv
<1>3. QED
  BY <1>1, <1>2, PTL DEF ControllerSpec

(* The list holds fragments at distinct addresses and the map leads into   *)
(* it: no pointer of node_finder (length_controller.h:46) ever dangles.    *)
THEOREM TypeCorrect == ControllerSpec => []ControllerTypeOK
<1>1. ControllerInv => ControllerTypeOK
  BY DEF ControllerInv
<1>2. QED
  BY <1>1, SpecInv, PTL

(* The two containers mirror each other, whatever fails and is retried:    *)
(* finished() (length_controller.cpp:73) never throws.                     *)
THEOREM FinderCorrect == ControllerSpec => []FinderAgrees
<1>1. ControllerInv => FinderAgrees
  BY DEF ControllerInv
<1>2. QED
  BY <1>1, SpecInv, PTL

(* next() and add() agree on the range, and every write is reported.       *)
THEOREM SyncCorrect == ControllerSpec => []Synced
<1>1. ControllerInv => Synced
  BY DEF ControllerInv
<1>2. QED
  BY <1>1, SpecInv, PTL

(* No two fragments share a byte, for any size, threshold and number of    *)
(* workers.                                                                *)
THEOREM DisjointCorrect == ControllerSpec => []FragmentsDisjoint
<1>1. ControllerInv => FragmentsDisjoint
  BY DEF ControllerInv
<1>2. QED
  BY <1>1, SpecInv, PTL

(* A file of two bytes or more never leads to an empty or inverted         *)
(* fragment.                                                               *)
THEOREM WorthCorrect ==
  ASSUME Size >= 2
  PROVE  ControllerSpec => []FragmentsWorthFetching
<1>1. ControllerInv => FragmentsWorthFetching
  BY DEF ControllerInv
<1>2. QED
  BY <1>1, SpecInv, PTL

-----------------------------------------------------------------------------
(* What happens to the bytes that are owed.                                *)

(* A fragment that vanishes or shrinks from below gives up no byte its     *)
(* worker has not passed; the other fragments give up none.                *)
LEMMA PassingOwed ==
  ASSUME ControllerInv, NEW w \in DOMAIN node_finder, NEW offset \in Int,
         offset >= file_offset[w], file_offset'[w] = offset,
         DOMAIN length_monitor' \subseteq DOMAIN length_monitor,
         \A m \in DOMAIN length_monitor :
           m # node_finder[w] => /\ m \in DOMAIN length_monitor'
                                 /\ length_monitor'[m] = length_monitor[m],
         IF Continues(w, offset)
           THEN /\ node_finder[w] \in DOMAIN length_monitor'
                /\ length_monitor'[node_finder[w]].begin = offset
                /\ length_monitor'[node_finder[w]].end =
                     length_monitor[node_finder[w]].end
           ELSE node_finder[w] \notin DOMAIN length_monitor'
  PROVE  /\ Owed' \subseteq Owed
         /\ \A b \in Owed \ Owed' :
              /\ file_offset[w] <= b /\ b < file_offset'[w]
              /\ b < length_monitor[node_finder[w]].end
<1> DEFINE n == node_finder[w]
<1>1. /\ n \in DOMAIN length_monitor
      /\ length_monitor[n].begin = file_offset[w]
      /\ length_monitor[n].begin \in Int
      /\ length_monitor[n].end \in Int
  BY DEF ControllerInv, ControllerTypeOK, FinderAgrees, Synced, Fragment
<1>2. ASSUME NEW b \in Owed'
      PROVE  b \in Owed
  <2>1. PICK m \in DOMAIN length_monitor' :
          length_monitor'[m].begin <= b /\ b < length_monitor'[m].end
    BY DEF Owed
  <2>2. b \in 0 .. Size - 1
    BY DEF Owed
  <2>3. CASE m = n
    <3>1. Continues(w, offset)
      BY <2>1, <2>3
    <3>2. length_monitor[n].begin <= b /\ b < length_monitor[n].end
      BY <1>1, <2>1, <2>2, <2>3, <3>1
    <3>3. QED
      BY <1>1, <2>2, <3>2 DEF Owed
  <2>4. CASE m # n
    BY <2>1, <2>2, <2>4 DEF Owed
  <2>5. QED
    BY <2>3, <2>4
<1>3. ASSUME NEW b \in Owed \ Owed'
      PROVE  /\ file_offset[w] <= b /\ b < offset
             /\ b < length_monitor[n].end
  <2>1. PICK m \in DOMAIN length_monitor :
          length_monitor[m].begin <= b /\ b < length_monitor[m].end
    BY DEF Owed
  <2>2. b \in 0 .. Size - 1
    BY DEF Owed
  <2>3. m = n
    BY <2>1, <2>2 DEF Owed
  <2>4. CASE Continues(w, offset)
    <3>1. ~(offset <= b)
      BY <2>1, <2>2, <2>3, <2>4 DEF Owed
    <3>2. QED
      BY <1>1, <2>1, <2>2, <2>3, <3>1
  <2>5. CASE ~Continues(w, offset)
    BY <1>1, <2>1, <2>2, <2>3, <2>5 DEF Continues
  <2>6. QED
    BY <2>4, <2>5
<1>4. QED
  BY <1>2, <1>3

(* Handing out a fragment or its upper half leaves the books alone.        *)
LEMMA SpawnOwed ==
  ASSUME ControllerInv, NEW w \in Workers, NEW n \in Nodes, Spawn(w, n)
  PROVE  Owed' = Owed
<1>1. n \in DOMAIN length_monitor /\ Add(w, n)
  BY DEF Spawn, CanBeBack
<1>2. CASE length_monitor[n].worker = NoWorker
  <2>1. /\ DOMAIN length_monitor' = DOMAIN length_monitor
        /\ \A m \in DOMAIN length_monitor :
             /\ length_monitor'[m].begin = length_monitor[m].begin
             /\ length_monitor'[m].end = length_monitor[m].end
    BY <1>1, <1>2, AddIdle DEF ControllerInv
  <2>2. QED
    BY <2>1 DEF Owed
<1>3. CASE length_monitor[n].worker # NoWorker
  <2> DEFINE mid == NextRange(n).begin
  <2>1. PICK new \in Nodes :
          /\ new \notin DOMAIN length_monitor
          /\ DOMAIN length_monitor' = DOMAIN length_monitor \cup {new}
          /\ length_monitor'[new] \in Fragment
          /\ length_monitor'[new].begin = mid
          /\ length_monitor'[new].end = length_monitor[n].end
          /\ length_monitor'[new].worker = w
          /\ \A m \in DOMAIN length_monitor :
               /\ length_monitor'[m] \in Fragment
               /\ length_monitor'[m].begin = length_monitor[m].begin
               /\ length_monitor'[m].end =
                    IF m = n THEN mid ELSE length_monitor[m].end
               /\ length_monitor'[m].worker = length_monitor[m].worker
          /\ DOMAIN node_finder' = DOMAIN node_finder \cup {w}
          /\ \A v \in DOMAIN node_finder' :
               node_finder'[v] = IF v = w THEN new ELSE node_finder[v]
    BY <1>1, <1>3, AddSplit DEF ControllerInv
  <2>2. /\ length_monitor[n].begin \in Int /\ length_monitor[n].end \in Int
        /\ mid \in Int
        /\ length_monitor[n].begin < mid /\ mid < length_monitor[n].end
    <3>1. length_monitor[n] \in Fragment /\ Half(length_monitor[n]) > Min
      BY <1>1, <1>3 DEF ControllerInv, ControllerTypeOK, Add
    <3>2. mid = length_monitor[n].begin + Half(length_monitor[n])
      BY <1>3, <3>1 DEF NextRange
    <3>3. QED
      BY <3>1, <3>2, HalfSplits DEF Fragment
  <2> HIDE DEF mid
  <2>3. ASSUME NEW b \in Owed
        PROVE  b \in Owed'
    <3>1. PICK m \in DOMAIN length_monitor :
            length_monitor[m].begin <= b /\ b < length_monitor[m].end
      BY DEF Owed
    <3>2. b \in 0 .. Size - 1
      BY DEF Owed
    <3>3. CASE m # n
      BY <2>1, <3>1, <3>2, <3>3 DEF Owed
    <3>4. CASE m = n /\ b < mid
      <4>1. length_monitor'[n].begin <= b /\ b < length_monitor'[n].end
        BY <2>1, <3>1, <3>4
      <4>2. QED
        BY <1>1, <2>1, <3>2, <4>1 DEF Owed
    <3>5. CASE m = n /\ mid <= b
      <4>1. length_monitor'[new].begin <= b /\ b < length_monitor'[new].end
        BY <2>1, <3>1, <3>5
      <4>2. QED
        BY <2>1, <3>2, <4>1 DEF Owed
    <3>6. QED
      BY <2>2, <3>2, <3>3, <3>4, <3>5
  <2>4. ASSUME NEW b \in Owed'
        PROVE  b \in Owed
    <3>1. PICK m \in DOMAIN length_monitor' :
            length_monitor'[m].begin <= b /\ b < length_monitor'[m].end
      BY DEF Owed
    <3>2. b \in 0 .. Size - 1
      BY DEF Owed
    <3>3. CASE m = n \/ m = new
      <4>1. length_monitor[n].begin <= b /\ b < length_monitor[n].end
        BY <1>1, <2>1, <2>2, <3>1, <3>2, <3>3
      <4>2. QED
        BY <1>1, <3>2, <4>1 DEF Owed
    <3>4. CASE m # n /\ m # new
      BY <2>1, <3>1, <3>2, <3>4 DEF Owed
    <3>5. QED
      BY <3>3, <3>4
  <2>5. QED
    BY <2>3, <2>4
<1>4. QED
  BY <1>2, <1>3

(* afterRead() takes a worker on in its fragment, or takes both out.       *)
LEMMA ReadOwed ==
  ASSUME ControllerInv, NEW w \in Workers, NEW offset \in Int, Read(w, offset)
  PROVE  /\ Owed' \subseteq Owed
         /\ \A b \in Owed \ Owed' :
              /\ file_offset[w] <= b /\ b < file_offset'[w]
              /\ b < length_monitor[node_finder[w]].end
<1> DEFINE n == node_finder[w]
<1>1. /\ w \in DOMAIN node_finder
      /\ offset >= file_offset[w]
      /\ file_offset' = [file_offset EXCEPT ![w] = offset]
  BY DEF Read
<1>2. /\ n \in DOMAIN length_monitor
      /\ length_monitor[n] \in Fragment
      /\ file_offset \in [Workers -> Int]
  BY <1>1 DEF ControllerInv, ControllerTypeOK
<1>3. file_offset'[w] = offset
  BY <1>1, <1>2
<1>4. CASE Continues(w, offset)
  <2>1. length_monitor' = Advanced(w, offset)
    BY <1>4 DEF Read, AfterRead
  <2>2. /\ DOMAIN length_monitor' = DOMAIN length_monitor
        /\ length_monitor'[n] = [length_monitor[n] EXCEPT !.begin = offset]
        /\ \A m \in DOMAIN length_monitor :
             m # n => length_monitor'[m] = length_monitor[m]
    BY <1>2, <2>1 DEF Advanced
  <2>3. /\ length_monitor'[n].begin = offset
        /\ length_monitor'[n].end = length_monitor[n].end
    BY <1>2, <2>2 DEF Fragment
  <2>4. QED
    BY <1>1, <1>2, <1>3, <1>4, <2>2, <2>3, PassingOwed
<1>5. CASE ~Continues(w, offset)
  <2>1. length_monitor' =
          Remove(Advanced(w, offset), Advanced(w, offset)[node_finder[w]])
    BY <1>5 DEF Read, AfterRead
  <2>2. /\ DOMAIN length_monitor' = DOMAIN length_monitor \ {n}
        /\ \A m \in DOMAIN length_monitor' :
             length_monitor'[m] = length_monitor[m]
    BY <1>1, <2>1, RemoveOne DEF ControllerInv
  <2>3. QED
    BY <1>1, <1>2, <1>3, <1>5, <2>2, PassingOwed
<1>6. QED
  BY <1>4, <1>5

(* workerStopped() leaves the same behind, with the rest idle.             *)
LEMMA StopOwed ==
  ASSUME ControllerInv, NEW w \in Workers, NEW offset \in Int, Stop(w, offset)
  PROVE  /\ Owed' \subseteq Owed
         /\ \A b \in Owed \ Owed' :
              /\ file_offset[w] <= b /\ b < file_offset'[w]
              /\ b < length_monitor[node_finder[w]].end
<1> DEFINE n == node_finder[w]
<1>1. /\ w \in DOMAIN node_finder
      /\ offset >= file_offset[w]
      /\ file_offset' = [file_offset EXCEPT ![w] = offset]
  BY DEF Stop
<1>2. /\ n \in DOMAIN length_monitor
      /\ length_monitor[n] \in Fragment
      /\ file_offset \in [Workers -> Int]
  BY <1>1 DEF ControllerInv, ControllerTypeOK
<1>3. file_offset'[w] = offset
  BY <1>1, <1>2
<1>4. CASE Continues(w, offset)
  <2>1. length_monitor' = [Advanced(w, offset) EXCEPT ![n].worker = NoWorker]
    BY <1>1, <1>4 DEF Stop, WorkerStopped
  <2>2. /\ DOMAIN length_monitor' = DOMAIN length_monitor
        /\ length_monitor'[n] = [length_monitor[n] EXCEPT !.begin = offset,
                                                          !.worker = NoWorker]
        /\ \A m \in DOMAIN length_monitor :
             m # n => length_monitor'[m] = length_monitor[m]
    BY <1>2, <2>1 DEF Advanced, Fragment
  <2>3. /\ length_monitor'[n].begin = offset
        /\ length_monitor'[n].end = length_monitor[n].end
    BY <1>2, <2>2 DEF Fragment
  <2>4. QED
    BY <1>1, <1>2, <1>3, <1>4, <2>2, <2>3, PassingOwed
<1>5. CASE ~Continues(w, offset)
  <2>1. length_monitor' =
          Remove(Advanced(w, offset), Advanced(w, offset)[node_finder[w]])
    BY <1>1, <1>5 DEF Stop, WorkerStopped
  <2>2. /\ DOMAIN length_monitor' = DOMAIN length_monitor \ {n}
        /\ \A m \in DOMAIN length_monitor' :
             length_monitor'[m] = length_monitor[m]
    BY <1>1, <2>1, RemoveOne DEF ControllerInv
  <2>3. QED
    BY <1>1, <1>2, <1>3, <1>5, <2>2, PassingOwed
<1>6. QED
  BY <1>4, <1>5

(* Splits, failures and retries neither lose a byte nor bring one back     *)
(* that has been fetched, for any number of them.                          *)
THEOREM OwedCorrect == ControllerSpec => OwedOnlyShrinksByReading
<1> DEFINE Shrinks ==
      /\ Owed' \subseteq Owed
      /\ \A b \in Owed \ Owed' :
           \E w \in DOMAIN node_finder :
             /\ file_offset[w] <= b /\ b < file_offset'[w]
             /\ b < length_monitor[node_finder[w]].end
<1>1. ControllerInv /\ [ControllerNext]_controllerVars
        => [Shrinks]_controllerVars
  <2> SUFFICES ASSUME ControllerInv, ControllerNext
               PROVE  Shrinks
    BY DEF Shrinks
  <2>1. ASSUME NEW w \in Workers, NEW n \in Nodes, Spawn(w, n)
        PROVE  Shrinks
    <3>1. Owed' = Owed
      BY <2>1, SpawnOwed
    <3>2. QED
      BY <3>1
  <2>2. ASSUME NEW w \in Workers, NEW offset \in Offsets, Read(w, offset)
        PROVE  Shrinks
    <3>1. w \in DOMAIN node_finder /\ offset \in Int
      BY <2>2 DEF Read, Offsets
    <3>2. QED
      BY <2>2, <3>1, ReadOwed
  <2>3. ASSUME NEW w \in Workers, NEW offset \in Offsets, Stop(w, offset)
        PROVE  Shrinks
    <3>1. w \in DOMAIN node_finder /\ offset \in Int
      BY <2>3 DEF Stop, Offsets
    <3>2. QED
      BY <2>3, <3>1, StopOwed
  <2>4. QED
    BY <2>1, <2>2, <2>3 DEF ControllerNext
<1>2. QED
  BY <1>1, SpecInv, PTL DEF ControllerSpec, OwedOnlyShrinksByReading

-----------------------------------------------------------------------------
(* What next() may answer.                                                 *)

(* The back of the list decides for the whole list.  An empty range there  *)
(* cannot come from an idle fragment, since none is empty, nor from a half *)
(* above the threshold, which is shorter than its fragment.                *)
LEMMA EmptyMeansBusy ==
  ASSUME ControllerInv, FragmentsWorthFetching
  PROVE  NothingOnlyWhenBusy
<1> SUFFICES ASSUME NEW n \in CanBeBack, EmptyRange(n)
             PROVE  LET f == length_monitor[n]
                    IN  /\ f.worker \in DOMAIN node_finder /\ node_finder[f.worker] = n
                        /\ Half(f) <= Min
                        /\ \A m \in DOMAIN length_monitor :
                             SplitLength(length_monitor[m]) <= Half(f)
  BY DEF NothingOnlyWhenBusy
<1> DEFINE f == length_monitor[n]
<1>1. /\ n \in DOMAIN length_monitor /\ f \in Fragment
      /\ f.begin \in Int /\ f.end \in Int /\ f.begin < f.end
  BY DEF CanBeBack, ControllerInv, ControllerTypeOK, FragmentsWorthFetching, Fragment
<1>2. Half(f) \in Int /\ (Half(f) > Min => Half(f) < f.end - f.begin)
  BY <1>1, HalfSplits DEF Half
<1>3. f.worker # NoWorker
  BY <1>1 DEF EmptyRange, NextRange
<1>4. Half(f) <= Min
  BY <1>1, <1>2, <1>3 DEF EmptyRange, NextRange
<1>5. f.worker \in DOMAIN node_finder /\ node_finder[f.worker] = n
  BY <1>1, <1>3 DEF ControllerInv, FinderAgrees
<1>6. ASSUME NEW m \in DOMAIN length_monitor
      PROVE  SplitLength(length_monitor[m]) <= Half(f)
  BY <1>3 DEF CanBeBack, SplitLength
<1>7. QED
  BY <1>4, <1>5, <1>6

(* next() (length_controller.cpp:10) leaves a slot of the loop empty only  *)
(* while a tracked worker is at a fragment too short to be split, behind   *)
(* which it passes over none that is longer: so it never says (0, 0) when  *)
(* nobody fetches, nor when a busy fragment can be split.                  *)
THEOREM NothingCorrect ==
  ASSUME Size >= 2
  PROVE  ControllerSpec => []NothingOnlyWhenBusy
<1>1. ControllerInv => NothingOnlyWhenBusy
  BY EmptyMeansBusy DEF ControllerInv
<1>2. QED
  BY <1>1, SpecInv, PTL

-----------------------------------------------------------------------------
(* Where fragments and workers are.                                        *)

(* No fragment reaches past the end and no worker starts before the file.  *)
InsideFile ==
  /\ file_offset \in [Workers -> Offsets]
  /\ \A n \in DOMAIN length_monitor :
       length_monitor[n].begin \in Offsets /\ length_monitor[n].end <= Size - 1

(* What Read and Stop leave: fragments that were there, one of which may   *)
(* begin at the offset.                                                    *)
LEMMA ReadingInside ==
  ASSUME ControllerInv, InsideFile, NEW w \in Workers, NEW offset \in Offsets,
         Read(w, offset) \/ Stop(w, offset)
  PROVE  InsideFile'
<1> DEFINE n == node_finder[w]
           list == Advanced(w, offset)
<1>1. /\ w \in DOMAIN node_finder
      /\ file_offset' = [file_offset EXCEPT ![w] = offset]
      /\ offset \in Int
  BY DEF Read, Stop, Offsets
<1>2. n \in DOMAIN length_monitor /\ length_monitor[n] \in Fragment
  BY <1>1 DEF ControllerInv, ControllerTypeOK
<1>3. CASE Continues(w, offset)
  <2>1. \/ length_monitor' = list
        \/ length_monitor' = [list EXCEPT ![n].worker = NoWorker]
    BY <1>1, <1>3 DEF Read, AfterRead, Stop, WorkerStopped
  <2>2. /\ DOMAIN length_monitor' = DOMAIN length_monitor
        /\ \A m \in DOMAIN length_monitor :
             m # n => length_monitor'[m] = length_monitor[m]
        /\ length_monitor'[n].begin = offset
        /\ length_monitor'[n].end = length_monitor[n].end
    BY <1>2, <2>1 DEF Advanced, Fragment
  <2>3. QED
    BY <1>1, <2>2 DEF InsideFile
<1>4. CASE ~Continues(w, offset)
  <2>1. length_monitor' = Remove(list, list[n])
    BY <1>1, <1>4 DEF Read, AfterRead, Stop, WorkerStopped
  <2>2. /\ DOMAIN length_monitor' \subseteq DOMAIN length_monitor
        /\ \A m \in DOMAIN length_monitor' :
             length_monitor'[m] = length_monitor[m]
    BY <1>1, <2>1, RemoveOne DEF ControllerInv
  <2>3. QED
    BY <1>1, <2>2 DEF InsideFile
<1>5. QED
  BY <1>3, <1>4

(* A worker that is spawned begins inside the file.                        *)
LEMMA SpawnInside ==
  ASSUME ControllerInv, InsideFile,
         NEW w \in Workers, NEW n \in Nodes, Spawn(w, n)
  PROVE  InsideFile'
<1>1. /\ n \in DOMAIN length_monitor /\ Add(w, n)
      /\ file_offset' = [file_offset EXCEPT ![w] = NextRange(n).begin]
      /\ length_monitor[n] \in Fragment
      /\ ControllerTypeOK
  BY DEF Spawn, CanBeBack, ControllerInv, ControllerTypeOK
<1>2. CASE length_monitor[n].worker = NoWorker
  <2>1. /\ DOMAIN length_monitor' = DOMAIN length_monitor
        /\ \A m \in DOMAIN length_monitor :
             /\ length_monitor'[m].begin = length_monitor[m].begin
             /\ length_monitor'[m].end = length_monitor[m].end
    BY <1>1, <1>2, AddIdle
  <2>2. NextRange(n).begin \in Offsets
    BY <1>1, <1>2 DEF NextRange, InsideFile
  <2>3. QED
    BY <1>1, <2>1, <2>2 DEF InsideFile
<1>3. CASE length_monitor[n].worker # NoWorker
  <2>1. PICK new \in Nodes :
          /\ new \notin DOMAIN length_monitor
          /\ DOMAIN length_monitor' = DOMAIN length_monitor \cup {new}
          /\ length_monitor'[new] \in Fragment
          /\ length_monitor'[new].begin = NextRange(n).begin
          /\ length_monitor'[new].end = length_monitor[n].end
          /\ length_monitor'[new].worker = w
          /\ \A m \in DOMAIN length_monitor :
               /\ length_monitor'[m] \in Fragment
               /\ length_monitor'[m].begin = length_monitor[m].begin
               /\ length_monitor'[m].end =
                    IF m = n THEN NextRange(n).begin ELSE length_monitor[m].end
               /\ length_monitor'[m].worker = length_monitor[m].worker
          /\ DOMAIN node_finder' = DOMAIN node_finder \cup {w}
          /\ \A v \in DOMAIN node_finder' :
               node_finder'[v] = IF v = w THEN new ELSE node_finder[v]
    BY <1>1, <1>3, AddSplit
  <2>2. /\ NextRange(n).begin \in Int
        /\ length_monitor[n].begin < NextRange(n).begin
        /\ NextRange(n).begin < length_monitor[n].end
    <3>1. Half(length_monitor[n]) > Min
      BY <1>1, <1>3 DEF Add
    <3>2. NextRange(n).begin = length_monitor[n].begin + Half(length_monitor[n])
      BY <1>3, <3>1 DEF NextRange
    <3>3. QED
      BY <1>1, <3>1, <3>2, HalfSplits DEF Fragment
  <2>3. NextRange(n).begin \in Offsets /\ NextRange(n).begin <= Size - 1
    BY <1>1, <2>2 DEF InsideFile, Offsets, Fragment
  <2>4. QED
    BY <1>1, <2>1, <2>3 DEF InsideFile
<1>4. QED
  BY <1>2, <1>3

(* What is true of the controller at every step it makes.                  *)
LEMMA StepInside ==
  ControllerInv /\ InsideFile /\ [ControllerNext]_controllerVars => InsideFile'
<1> SUFFICES ASSUME ControllerInv, InsideFile, [ControllerNext]_controllerVars
             PROVE  InsideFile'
  OBVIOUS
<1>1. CASE ControllerNext
  BY <1>1, SpawnInside, ReadingInside DEF ControllerNext
<1>2. CASE UNCHANGED controllerVars
  BY <1>2 DEF InsideFile, controllerVars
<1>3. QED
  BY <1>1, <1>2

(* The first fragment lies inside the file.                                *)
LEMMA InitInside == ControllerInit => InsideFile
<1> SUFFICES ASSUME ControllerInit PROVE InsideFile
  OBVIOUS
<1>1. /\ \A n \in DOMAIN length_monitor :
           length_monitor[n] = [begin |-> 0, end |-> Size - 1, worker |-> NoWorker]
      /\ file_offset = [w \in Workers |-> 0]
  BY DEF ControllerInit
<1>2. 0 \in Offsets
  BY DEF Offsets
<1>3. QED
  BY <1>1, <1>2 DEF InsideFile

-----------------------------------------------------------------------------
(* When the list runs empty.                                               *)

(* A worker that stops where the controller believes it to be has          *)
(* something left: its fragment stays, idle.                               *)
LEMMA StoppingInPlaceKeepsNodes ==
  ASSUME ControllerInv, Size >= 2, NEW w \in Workers,
         WorkerStopped(w, file_offset[w])
  PROVE  DOMAIN length_monitor' = DOMAIN length_monitor
<1>1. CASE w \notin DOMAIN node_finder
  BY <1>1 DEF WorkerStopped
<1>2. CASE w \in DOMAIN node_finder
  <2>1. /\ node_finder[w] \in DOMAIN length_monitor
        /\ length_monitor[node_finder[w]].begin = file_offset[w]
        /\ length_monitor[node_finder[w]].begin < length_monitor[node_finder[w]].end
    BY <1>2 DEF ControllerInv, ControllerTypeOK, Synced, FragmentsWorthFetching
  <2>2. length_monitor' = [Advanced(w, file_offset[w])
                             EXCEPT ![node_finder[w]].worker = NoWorker]
    BY <1>2, <2>1 DEF WorkerStopped, Continues
  <2>3. QED
    BY <2>2 DEF Advanced
<1>3. QED
  BY <1>1, <1>2

(* The only fragment of a file of one byte is empty, idle and stays so.    *)
OneByteIdle ==
  Size = 1 =>
    /\ DOMAIN length_monitor # {}
    /\ \A n \in DOMAIN length_monitor :
         length_monitor[n] = [begin |-> 0, end |-> 0, worker |-> NoWorker]

(* The one fragment of a file of one byte is idle at first.                *)
LEMMA InitOneByte == ControllerInit => OneByteIdle
BY DEF ControllerInit, OneByteIdle

(* Of a file of one byte nothing is ever handed out.                       *)
LEMMA StepOneByte ==
  ControllerInv /\ OneByteIdle /\ [ControllerNext]_controllerVars
    => OneByteIdle'
<1> SUFFICES ASSUME ControllerInv, OneByteIdle, Size = 1,
                    [ControllerNext]_controllerVars
             PROVE  UNCHANGED controllerVars
  BY DEF OneByteIdle, controllerVars
<1>1. DOMAIN node_finder = {}
  BY NoWorkerAssumption
     DEF OneByteIdle, ControllerInv, ControllerTypeOK, FinderAgrees
<1>2. ASSUME NEW w \in Workers, NEW n \in Nodes PROVE ~Spawn(w, n)
  BY DEF Spawn, CanBeBack, EmptyRange, NextRange, OneByteIdle
<1>3. ASSUME NEW w \in Workers, NEW offset \in Offsets
      PROVE  ~Read(w, offset) /\ ~Stop(w, offset)
  BY <1>1 DEF Read, Stop
<1>4. QED
  BY <1>2, <1>3 DEF ControllerNext

=============================================================================
