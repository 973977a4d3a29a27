-------------------------- MODULE LengthControllerList --------------------------
(***************************************************************************)
(* LengthController with its std::list as it is (src/src/                  *)
(* length_controller.cpp): nodes in an order, a stable list::sort in       *)
(* next() and another in add(), splices at the back.  It implements the    *)
(* module LengthController, which leaves open which of several longest     *)
(* fragments is at the back.                                               *)
(***************************************************************************)
EXTENDS LengthController, Sequences, FiniteSets

VARIABLE order  (* The addresses of the nodes, front to back. *)

listVars == <<controllerVars, order>>

(* What is at the kept positions, front to back as the relation says,     *)
(* which is a set of pairs of positions.                                  *)
Arranged(list, kept, before) ==
  [k \in 1 .. Cardinality(kept) |->
     list[CHOOSE i \in kept :
            Cardinality({j \in kept : <<j, i>> \in before}) = k - 1]]

Pairs(list) == (DOMAIN list) \X (DOMAIN list)

InPlace(list) == {p \in Pairs(list) : p[1] < p[2]}

Split(node) == SplitLength(length_monitor[node])

(* operator<, and among equals the order they are in. *)
Less(list) ==
  {p \in Pairs(list) :
     \/ Split(list[p[1]]) < Split(list[p[2]])
     \/ Split(list[p[1]]) = Split(list[p[2]]) /\ p[1] < p[2]}

(* Mutant: the shortest at the back. *)
SortedDown(list) ==
  Arranged(list, DOMAIN list, {<<p[2], p[1]>> : p \in Less(list)})

Sorted(list) == Arranged(list, DOMAIN list, Less(list))

Back(list) == list[Len(list)]

ListInit == ControllerInit /\ order = <<CHOOSE n \in Nodes : TRUE>>

(* next() has nothing to offer; it has sorted the list all the same. *)
AskInVain ==
  /\ order # <<>>
  /\ EmptyRange(Back(Sorted(order)))
  /\ order' = Sorted(order)
  /\ UNCHANGED controllerVars

(* next(), a worker created at the beginning of the range, add(). *)
ListSpawn(w) ==
  /\ w \notin DOMAIN node_finder
  /\ order # <<>>
  /\ LET asked == Sorted(order)
         added == Sorted(asked)
         range == NextRange(Back(asked))
     IN  /\ ~EmptyRange(Back(asked))
         /\ Add(w, Back(added))
         /\ file_offset' = [file_offset EXCEPT ![w] = range.begin]
         /\ order' = IF length_monitor[Back(added)].worker = NoWorker
                       THEN added
                       ELSE Append(added, node_finder'[w])

(* Mutant: the node stays in the list. *)
StillLinked == order

Unlinked ==
  Arranged(order, {i \in DOMAIN order : order[i] \in DOMAIN length_monitor'},
           InPlace(order))

ListRead(w, offset) == Read(w, offset) /\ order' = Unlinked
ListStop(w, offset) == Stop(w, offset) /\ order' = Unlinked

ListNext ==
  \/ AskInVain
  \/ \E w \in Workers :
       \/ ListSpawn(w)
       \/ \E offset \in Offsets : ListRead(w, offset)
       \/ \E offset \in Offsets : ListStop(w, offset)

ListSpec == ListInit /\ [][ListNext]_listVars

(* remain(). *)
Remain ==
  LET length(n) == length_monitor[n].end - length_monitor[n].begin
      res[k \in 0 .. Len(order)] ==
        IF k = 0 THEN 0 ELSE res[k - 1] + length(order[k])
  IN  res[Len(order)]

(***************************************************************************)
(* Properties.                                                             *)
(***************************************************************************)

(* The list holds every node once. *)
ListTypeOK ==
  /\ order \in Seq(Nodes)
  /\ {order[i] : i \in DOMAIN order} = DOMAIN length_monitor
  /\ Len(order) = Cardinality(DOMAIN length_monitor)

(* The two sorts leave the same longest fragment at the back, so whatever  *)
(* holds of LengthController, where any longest may be taken, holds here.  *)
ImplementsController == ControllerSpec

(* The progress shown never goes back: the speed is computed from the      *)
(* difference of two values of remain() and converted to an unsigned type, *)
(* in which less than nothing is very much.                                *)
RemainNeverGrows == [][Remain' <= Remain]_listVars

=============================================================================
