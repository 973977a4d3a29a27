----------------------- MODULE LengthControllerListProofs -----------------------
(***************************************************************************)
(* Proofs about LengthControllerList: sorting and unlinking rearrange the  *)
(* list, the node next() offers is a longest and the one add() takes, so   *)
(* that the list implements LengthController.                              *)
(***************************************************************************)
EXTENDS LengthControllerList, LengthControllerProofs, FiniteSetTheorems,
        SequenceTheorems, Recursion

(* before is a strict order on the kept positions, and total. *)
Orders(kept, before) ==
  /\ \A i \in kept : <<i, i>> \notin before
  /\ \A i, j, k \in kept :
       <<i, j>> \in before /\ <<j, k>> \in before => <<i, k>> \in before
  /\ \A i, j \in kept : i # j => <<i, j>> \in before \/ <<j, i>> \in before

PlaceOf(kept, before, i) == Cardinality({j \in kept : <<j, i>> \in before}) + 1

(* Counting those before it gives every kept position a place of its own,  *)
(* from the first to the last.                                             *)
LEMMA Places ==
  ASSUME NEW kept, IsFiniteSet(kept), NEW before, Orders(kept, before)
  PROVE  /\ Cardinality(kept) \in Nat
         /\ \A i \in kept : PlaceOf(kept, before, i) \in 1 .. Cardinality(kept)
         /\ \A i, j \in kept :
              <<i, j>> \in before => PlaceOf(kept, before, i) < PlaceOf(kept, before, j)
         /\ \A k \in 1 .. Cardinality(kept) :
              \E i \in kept : PlaceOf(kept, before, i) = k
<1> DEFINE Behind(i) == {j \in kept : <<j, i>> \in before}
           place(i) == PlaceOf(kept, before, i)
           N == Cardinality(kept)
<1>1. N \in Nat /\ \A i : place(i) = Cardinality(Behind(i)) + 1
  BY FS_CardinalityType DEF PlaceOf
<1> HIDE DEF place
<1>2. ASSUME NEW i \in kept
      PROVE  IsFiniteSet(Behind(i)) /\ place(i) \in 1 .. N
  <2>1. Behind(i) \in SUBSET (kept \ {i})
    BY DEF Orders
  <2>2. IsFiniteSet(kept \ {i}) /\ Cardinality(kept \ {i}) = N - 1
    BY FS_RemoveElement
  <2>3. IsFiniteSet(Behind(i)) /\ Cardinality(Behind(i)) <= N - 1
    <3> HIDE DEF Behind
    <3>1. /\ IsFiniteSet(Behind(i))
          /\ Cardinality(Behind(i)) <= Cardinality(kept \ {i})
      BY <2>1, <2>2, FS_Subset
    <3>2. QED
      BY <2>2, <3>1
  <2>4. Cardinality(Behind(i)) \in Nat
    BY <2>3, FS_CardinalityType
  <2>5. QED
    BY <1>1, <2>3, <2>4
<1>3. ASSUME NEW i \in kept, NEW j \in kept, <<i, j>> \in before
      PROVE  place(i) < place(j)
  <2>1. Behind(i) \in SUBSET Behind(j) /\ i \in Behind(j) /\ i \notin Behind(i)
    BY <1>3 DEF Orders
  <2>2. /\ IsFiniteSet(Behind(i)) /\ IsFiniteSet(Behind(j))
        /\ Cardinality(Behind(i)) \in Nat /\ Cardinality(Behind(j)) \in Nat
    BY <1>2, FS_CardinalityType
  <2>3. /\ Cardinality(Behind(i)) <= Cardinality(Behind(j))
        /\ Cardinality(Behind(i)) # Cardinality(Behind(j))
    <3> HIDE DEF Behind
    <3>1. QED
      BY <2>1, <2>2, FS_Subset
  <2>4. QED
    BY <1>1, <2>2, <2>3
<1>4. ASSUME NEW k \in 1 .. N PROVE \E i \in kept : place(i) = k
  <2> DEFINE f == [i \in kept |-> place(i)]
  <2>1. f \in [kept -> 1 .. N]
    BY <1>2
  <2>2. \A i, j \in kept : f[i] = f[j] => i = j
    <3> SUFFICES ASSUME NEW i \in kept, NEW j \in kept, i # j PROVE f[i] # f[j]
      OBVIOUS
    <3>1. <<i, j>> \in before \/ <<j, i>> \in before
      BY DEF Orders
    <3>2. place(i) < place(j) \/ place(j) < place(i)
      BY <1>3, <3>1
    <3>3. place(i) \in Int /\ place(j) \in Int
      <4>1. \A m \in 1 .. N : m \in Int
        BY <1>1
      <4>2. QED
        BY <1>2, <4>1
    <3>4. QED
      BY <3>2, <3>3
  <2>3. f \in Injection(kept, 1 .. N)
    BY <2>1, <2>2 DEF Injection, IsInjective
  <2>4. IsFiniteSet(1 .. N) /\ Cardinality(1 .. N) = N
    BY <1>1, FS_Interval
  <2>5. f \in Surjection(kept, 1 .. N)
    BY <2>3, <2>4, FS_Injection
  <2>6. QED
    BY <2>5 DEF Surjection
<1>5. QED
  BY <1>1, <1>2, <1>3, <1>4 DEF place

(* pos is the order in which new goes through the kept positions. *)
Goes(new, S, list, kept, before, N, pos) ==
  /\ new \in Seq(S) /\ Len(new) = N /\ DOMAIN new = 1 .. N
  /\ \A k \in 1 .. N : new[k] = list[pos[k]]
  /\ \A k, l \in 1 .. N : k < l => <<pos[k], pos[l]>> \in before
  /\ \A i \in kept : \E k \in 1 .. N : pos[k] = i

(* An arrangement goes through the kept positions, each once, in order.    *)
LEMMA Arrangement ==
  ASSUME NEW S, NEW list \in Seq(S), NEW kept \in SUBSET DOMAIN list,
         NEW before, Orders(kept, before)
  PROVE  \E N \in Nat : \E pos \in [1 .. N -> kept] :
           Goes(Arranged(list, kept, before), S, list, kept, before, N, pos)
<1> DEFINE N == Cardinality(kept)
           place(i) == PlaceOf(kept, before, i)
           chosen == [k \in 1 .. N |->
                        CHOOSE i \in kept :
                          Cardinality({j \in kept : <<j, i>> \in before}) = k - 1]
<1>1. IsFiniteSet(kept)
  <2>1. DOMAIN list = 1 .. Len(list) /\ Len(list) \in Int
    BY LenProperties
  <2>2. IsFiniteSet(1 .. Len(list))
    BY <2>1, FS_Interval
  <2>3. QED
    BY <2>1, <2>2, FS_Subset
<1>2. /\ N \in Nat
      /\ \A i \in kept : place(i) \in 1 .. N
      /\ \A i, j \in kept : <<i, j>> \in before => place(i) < place(j)
      /\ \A k \in 1 .. N : \E i \in kept : place(i) = k
  BY <1>1, Places
<1>3. \A k \in 1 .. N : \A i \in kept :
        place(i) = k <=> Cardinality({j \in kept : <<j, i>> \in before}) = k - 1
  <2> SUFFICES ASSUME NEW k \in 1 .. N, NEW i \in kept
               PROVE  place(i) = k
                        <=> Cardinality({j \in kept : <<j, i>> \in before}) = k - 1
    OBVIOUS
  <2> DEFINE c == Cardinality({j \in kept : <<j, i>> \in before})
  <2>1. c \in Nat
    <3>1. {j \in kept : <<j, i>> \in before} \in SUBSET kept
      OBVIOUS
    <3>2. QED
      BY <1>1, <3>1, FS_Subset, FS_CardinalityType
  <2>2. place(i) = c + 1 /\ k \in Int
    BY <1>2 DEF PlaceOf
  <2> HIDE DEF c, place
  <2>3. c + 1 = k <=> c = k - 1
    BY <2>1, <2>2
  <2>4. QED
    BY <2>2, <2>3 DEF c
<1>4. \A k \in 1 .. N : \E i \in kept :
        Cardinality({j \in kept : <<j, i>> \in before}) = k - 1
  BY <1>2, <1>3
<1>5. ASSUME NEW k \in 1 .. N
      PROVE  chosen[k] \in kept /\ place(chosen[k]) = k
  <2>1. /\ chosen[k] \in kept
        /\ Cardinality({j \in kept : <<j, chosen[k]>> \in before}) = k - 1
    BY <1>4
  <2>2. QED
    BY <1>3, <2>1
<1>6. chosen \in [1 .. N -> kept]
  BY <1>5
<1>7. Arranged(list, kept, before) = [k \in 1 .. N |-> list[chosen[k]]]
  BY DEF Arranged
<1> HIDE DEF chosen, N, place
<1>8. \A i \in kept : list[i] \in S
  BY ElementOfSeq, LenProperties
<1>9. /\ Arranged(list, kept, before) \in Seq(S)
      /\ Len(Arranged(list, kept, before)) = N
      /\ DOMAIN Arranged(list, kept, before) = 1 .. N
      /\ \A k \in 1 .. N : Arranged(list, kept, before)[k] = list[chosen[k]]
  BY <1>2, <1>6, <1>7, <1>8
<1>10. ASSUME NEW k \in 1 .. N, NEW l \in 1 .. N, k < l
       PROVE  <<chosen[k], chosen[l]>> \in before
  <2>1. /\ chosen[k] \in kept /\ place(chosen[k]) = k
        /\ chosen[l] \in kept /\ place(chosen[l]) = l
    BY <1>5
  <2>2. chosen[k] # chosen[l]
    BY <2>1, <1>10
  <2>3. <<chosen[l], chosen[k]>> \in before => l < k
    BY <1>2, <2>1
  <2>4. QED
    BY <1>2, <1>10, <2>1, <2>2, <2>3 DEF Orders
<1>11. ASSUME NEW i \in kept PROVE \E k \in 1 .. N : chosen[k] = i
  <2>1. place(i) \in 1 .. N /\ place(i) \in Int
    BY <1>2
  <2>2. chosen[place(i)] \in kept /\ place(chosen[place(i)]) = place(i)
    BY <1>5, <2>1
  <2>3. chosen[place(i)] = i
    <3> SUFFICES ASSUME chosen[place(i)] # i PROVE FALSE
      OBVIOUS
    <3>1. \/ <<chosen[place(i)], i>> \in before
          \/ <<i, chosen[place(i)]>> \in before
      BY <2>2 DEF Orders
    <3>2. \/ place(chosen[place(i)]) < place(i)
          \/ place(i) < place(chosen[place(i)])
      BY <1>2, <2>2, <3>1
    <3>3. QED
      BY <2>1, <2>2, <3>2
  <2>4. QED
    BY <2>1, <2>3
<1>12. Goes(Arranged(list, kept, before), S, list, kept, before, N, chosen)
  BY <1>9, <1>10, <1>11 DEF Goes
<1>13. QED
  BY <1>2, <1>6, <1>12

-----------------------------------------------------------------------------
(***************************************************************************)
(* The list.                                                               *)
(***************************************************************************)

Once(list) == \A i, j \in DOMAIN list : list[i] = list[j] => i = j

(* The list holds the nodes, each once. *)
ListInv ==
  /\ ControllerInv
  /\ order \in Seq(Nodes)
  /\ {order[i] : i \in DOMAIN order} = DOMAIN length_monitor
  /\ Once(order)

(* new has the elements of the set, each once. *)
Holds(new, S, elements) ==
  /\ new \in Seq(S) /\ Once(new)
  /\ {new[i] : i \in DOMAIN new} = elements

(* Keeping some of a list leaves each element once, and nothing else. *)
LEMMA ArrangedHolds ==
  ASSUME NEW S, NEW list \in Seq(S), Once(list),
         NEW kept \in SUBSET DOMAIN list, NEW before, Orders(kept, before)
  PROVE  Holds(Arranged(list, kept, before), S, {list[i] : i \in kept})
<1> DEFINE new == Arranged(list, kept, before)
<1>1. PICK N \in Nat : \E pos \in [1 .. N -> kept] :
        Goes(new, S, list, kept, before, N, pos)
  BY Arrangement
<1>2. PICK pos \in [1 .. N -> kept] : Goes(new, S, list, kept, before, N, pos)
  BY <1>1
<1> HIDE DEF new
<1> USE DEF Goes
<1>3. ASSUME NEW k \in 1 .. N, NEW l \in 1 .. N, new[k] = new[l]
      PROVE  k = l
  <2>1. pos[k] = pos[l] /\ pos[k] \in kept /\ pos[l] \in kept
    BY <1>2, <1>3 DEF Once
  <2>2. ~(k < l) /\ ~(l < k)
    BY <1>2, <2>1 DEF Orders
  <2>3. QED
    BY <2>2
<1>4. {new[i] : i \in DOMAIN new} = {list[i] : i \in kept}
  <2>1. \A k \in 1 .. N : pos[k] \in kept /\ new[k] = list[pos[k]]
    BY <1>2
  <2>2. ASSUME NEW i \in kept PROVE \E k \in 1 .. N : new[k] = list[i]
    BY <1>2
  <2>3. DOMAIN new = 1 .. N
    BY <1>2
  <2>4. ASSUME NEW x \in {new[k] : k \in DOMAIN new}
        PROVE  x \in {list[i] : i \in kept}
    <3>1. PICK k \in 1 .. N : x = new[k]
      BY <2>3
    <3>2. QED
      BY <2>1, <3>1
  <2>5. ASSUME NEW x \in {list[i] : i \in kept}
        PROVE  x \in {new[k] : k \in DOMAIN new}
    <3>1. PICK i \in kept : x = list[i]
      OBVIOUS
    <3>2. PICK k \in 1 .. N : new[k] = list[i]
      BY <2>2
    <3>3. QED
      BY <2>3, <3>1, <3>2
  <2>6. QED
    BY <2>4, <2>5
<1>5. QED
  BY <1>2, <1>3, <1>4 DEF new, Once, Holds

(* Both orders of a list are orders. *)
LEMMA ListOrders ==
  ASSUME NEW list \in Seq(Nodes),
         \A i \in DOMAIN list : Split(list[i]) \in Int,
         NEW kept \in SUBSET DOMAIN list
  PROVE  Orders(kept, Less(list)) /\ Orders(kept, InPlace(list))
<1> DEFINE D == DOMAIN list
<1>1. D = 1 .. Len(list) /\ Len(list) \in Nat
  BY LenProperties
<1>2. \A i, j \in D :
        /\ <<i, j>> \in InPlace(list) <=> i < j
        /\ <<i, j>> \in Less(list) <=>
             \/ Split(list[i]) < Split(list[j])
             \/ Split(list[i]) = Split(list[j]) /\ i < j
  BY DEF InPlace, Less, Pairs
<1>3. \A i \in D : i \in Int /\ Split(list[i]) \in Int
  BY <1>1
<1> HIDE DEF D
<1>4. Orders(D, InPlace(list))
  BY <1>2, <1>3 DEF Orders
<1>5. Orders(D, Less(list))
  BY <1>2, <1>3 DEF Orders
<1>6. QED
  BY <1>4, <1>5 DEF Orders, D

(* Every node of the list holds a fragment. *)
Known(list) ==
  list \in Seq(Nodes) /\ {list[i] : i \in DOMAIN list} = DOMAIN length_monitor

(* The lengths the list is sorted by are numbers. *)
LEMMA SplitIsNumber ==
  ASSUME ControllerTypeOK, NEW list, Known(list)
  PROVE  \A i \in DOMAIN list : /\ list[i] \in DOMAIN length_monitor
                                /\ Split(list[i]) \in Int
<1> SUFFICES ASSUME NEW i \in DOMAIN list
             PROVE  /\ list[i] \in DOMAIN length_monitor
                    /\ Split(list[i]) \in Int
  OBVIOUS
<1>1. list[i] \in DOMAIN length_monitor
  BY DEF Known
<1>2. length_monitor[list[i]] \in Fragment
  BY <1>1 DEF ControllerTypeOK
<1>3. Half(length_monitor[list[i]]) \in Int
  BY <1>2, HalfSplits
<1>4. QED
  BY <1>1, <1>2, <1>3 DEF Split, SplitLength, Fragment

(* Sorting rearranges the whole list. *)
LEMMA SortedGoes ==
  ASSUME ControllerTypeOK, NEW list, Known(list)
  PROVE  \E N \in Nat : \E pos \in [1 .. N -> DOMAIN list] :
           Goes(Sorted(list), Nodes, list, DOMAIN list, Less(list), N, pos)
<1>1. list \in Seq(Nodes) /\ DOMAIN list \in SUBSET DOMAIN list
  BY DEF Known
<1>2. Orders(DOMAIN list, Less(list))
  BY <1>1, SplitIsNumber, ListOrders
<1>3. QED
  BY <1>1, <1>2, Arrangement DEF Sorted

(* Sorting loses no node and repeats none. *)
LEMMA SortedHolds ==
  ASSUME ControllerTypeOK, NEW list, Known(list), Once(list)
  PROVE  Known(Sorted(list)) /\ Once(Sorted(list))
<1>1. list \in Seq(Nodes) /\ DOMAIN list \in SUBSET DOMAIN list
  BY DEF Known
<1>2. Orders(DOMAIN list, Less(list))
  BY <1>1, SplitIsNumber, ListOrders
<1>3. Holds(Arranged(list, DOMAIN list, Less(list)), Nodes,
            {list[i] : i \in DOMAIN list})
  BY <1>1, <1>2, ArrangedHolds
<1>4. Holds(Sorted(list), Nodes, DOMAIN length_monitor)
  BY <1>3 DEF Sorted, Known
<1>5. QED
  BY <1>4 DEF Known, Holds

(* The back of a sorted list is the greatest, the last among equals. *)
LEMMA BackIsGreatest ==
  ASSUME ControllerTypeOK, NEW list, Known(list), list # <<>>
  PROVE  /\ Sorted(list) # <<>>
         /\ \E last \in DOMAIN list :
              /\ Back(Sorted(list)) = list[last]
              /\ \A i \in DOMAIN list : i # last => <<i, last>> \in Less(list)
<1>1. PICK N \in Nat : \E pos \in [1 .. N -> DOMAIN list] :
        Goes(Sorted(list), Nodes, list, DOMAIN list, Less(list), N, pos)
  BY SortedGoes
<1>2. PICK pos \in [1 .. N -> DOMAIN list] :
        Goes(Sorted(list), Nodes, list, DOMAIN list, Less(list), N, pos)
  BY <1>1
<1>3. list \in Seq(Nodes) /\ 1 \in DOMAIN list
  <2>1. list \in Seq(Nodes) /\ Len(list) \in Nat /\ DOMAIN list = 1 .. Len(list)
    BY LenProperties DEF Known
  <2>2. Len(list) # 0
    BY <2>1, EmptySeq
  <2>3. QED
    BY <2>1, <2>2
<1>4. PICK k \in 1 .. N : pos[k] = 1
  BY <1>2, <1>3 DEF Goes
<1>5. N \in 1 .. N /\ Len(Sorted(list)) = N
  BY <1>2, <1>4 DEF Goes
<1>6. pos[N] \in DOMAIN list /\ Back(Sorted(list)) = list[pos[N]]
  BY <1>2, <1>5 DEF Goes, Back
<1>7. ASSUME NEW i \in DOMAIN list, i # pos[N]
      PROVE  <<i, pos[N]>> \in Less(list)
  <2>1. PICK l \in 1 .. N : pos[l] = i
    BY <1>2 DEF Goes
  <2>2. l < N
    BY <1>7, <2>1
  <2>3. QED
    BY <1>2, <1>5, <2>1, <2>2 DEF Goes
<1>8. Sorted(list) # <<>>
  BY <1>5
<1>9. QED
  BY <1>6, <1>7, <1>8

(* What next() finds at the back is a longest fragment. *)
LEMMA BackIsLongest ==
  ASSUME ControllerTypeOK, NEW list, Known(list), list # <<>>
  PROVE  Back(Sorted(list)) \in CanBeBack
<1>1. PICK last \in DOMAIN list :
        /\ Back(Sorted(list)) = list[last]
        /\ \A i \in DOMAIN list : i # last => <<i, last>> \in Less(list)
  BY BackIsGreatest
<1>2. \A i \in DOMAIN list : /\ list[i] \in DOMAIN length_monitor
                             /\ Split(list[i]) \in Int
  BY SplitIsNumber
<1>3. ASSUME NEW i \in DOMAIN list
      PROVE  Split(list[i]) <= Split(list[last])
  <2>1. CASE i = last
    BY <1>2, <2>1
  <2>2. CASE i # last
    <3>1. <<i, last>> \in Less(list)
      BY <1>1, <2>2
    <3>2. \/ Split(list[i]) < Split(list[last])
          \/ Split(list[i]) = Split(list[last]) /\ i < last
      BY <3>1 DEF Less
    <3>3. QED
      BY <1>2, <3>2
  <2>3. QED
    BY <2>1, <2>2
<1>4. ASSUME NEW m \in DOMAIN length_monitor
      PROVE  SplitLength(length_monitor[m])
               <= SplitLength(length_monitor[list[last]])
  <2>1. PICK i \in DOMAIN list : list[i] = m
    BY DEF Known
  <2>2. QED
    BY <1>3, <2>1 DEF Split
<1>5. QED
  BY <1>1, <1>2, <1>4 DEF CanBeBack

(* add() sorts what next() has sorted and finds the same node. *)
LEMMA BackStays ==
  ASSUME ControllerTypeOK, NEW list, Known(list), Once(list), list # <<>>
  PROVE  Back(Sorted(Sorted(list))) = Back(Sorted(list))
<1> DEFINE asked == Sorted(list)
<1>1. PICK N \in Nat : \E pos \in [1 .. N -> DOMAIN list] :
        Goes(asked, Nodes, list, DOMAIN list, Less(list), N, pos)
  BY SortedGoes
<1>2. PICK pos \in [1 .. N -> DOMAIN list] :
        Goes(asked, Nodes, list, DOMAIN list, Less(list), N, pos)
  BY <1>1
<1>3. Known(asked) /\ asked # <<>>
  BY SortedHolds, BackIsGreatest
<1> HIDE DEF asked
<1>4. PICK last \in DOMAIN asked :
        /\ Back(Sorted(asked)) = asked[last]
        /\ \A i \in DOMAIN asked : i # last => <<i, last>> \in Less(asked)
  BY <1>3, BackIsGreatest
<1>5. DOMAIN asked = 1 .. N /\ Len(asked) = N /\ last \in 1 .. N /\ N \in 1 .. N
  BY <1>2, <1>4 DEF Goes
<1>6. last = N
  <2> SUFFICES ASSUME last # N PROVE FALSE
    OBVIOUS
  <2>1. last < N
    BY <1>5
  <2>2. <<N, last>> \in Less(asked)
    BY <1>4, <1>5
  <2>3. Split(asked[N]) \in Int /\ Split(asked[last]) \in Int
    BY <1>3, <1>5, SplitIsNumber
  <2>4. Split(asked[N]) < Split(asked[last])
    BY <1>5, <2>1, <2>2 DEF Less
  <2>5. /\ <<pos[last], pos[N]>> \in Less(list)
        /\ asked[last] = list[pos[last]] /\ asked[N] = list[pos[N]]
    BY <1>2, <1>5, <2>1 DEF Goes
  <2>6. Split(asked[last]) <= Split(asked[N])
    BY <2>3, <2>5 DEF Less
  <2>7. QED
    BY <2>3, <2>4, <2>6
<1>7. QED
  BY <1>4, <1>5, <1>6 DEF Back, asked

-----------------------------------------------------------------------------
(***************************************************************************)
(* The steps.                                                              *)
(***************************************************************************)

(* remove() takes the nodes that are gone out of the list. *)
LEMMA UnlinkedHolds ==
  ASSUME ListInv, DOMAIN length_monitor' \subseteq DOMAIN length_monitor,
         order' = Unlinked
  PROVE  Holds(order', Nodes, DOMAIN length_monitor')
<1> DEFINE kept == {i \in DOMAIN order : order[i] \in DOMAIN length_monitor'}
<1>1. order \in Seq(Nodes) /\ Once(order) /\ kept \in SUBSET DOMAIN order
  BY DEF ListInv
<1>2. \A i \in DOMAIN order : Split(order[i]) \in Int
  BY SplitIsNumber DEF ListInv, ControllerInv, Known
<1>3. Orders(kept, InPlace(order))
  BY <1>1, <1>2, ListOrders
<1>4. Holds(Unlinked, Nodes, {order[i] : i \in kept})
  BY <1>1, <1>3, ArrangedHolds DEF Unlinked
<1>5. {order[i] : i \in kept} = DOMAIN length_monitor'
  BY DEF ListInv
<1>6. QED
  BY <1>4, <1>5

(* What one more node at the back makes of the list. *)
LEMMA AppendHolds ==
  ASSUME NEW S, NEW list, NEW elements, Holds(list, S, elements),
         NEW x \in S, x \notin elements
  PROVE  Holds(Append(list, x), S, elements \cup {x})
<1> DEFINE new == Append(list, x)
<1>1. /\ list \in Seq(S) /\ Len(list) \in Nat /\ DOMAIN list = 1 .. Len(list)
      /\ {list[i] : i \in DOMAIN list} = elements
  BY LenProperties DEF Holds
<1>2. /\ new \in Seq(S) /\ DOMAIN new = 1 .. Len(list) + 1
      /\ new[Len(list) + 1] = x
      /\ \A i \in 1 .. Len(list) : new[i] = list[i]
  BY <1>1, AppendProperties
<1>3. \A i \in 1 .. Len(list) : list[i] # x
  BY <1>1
<1> HIDE DEF new
<1>4. ASSUME NEW i \in DOMAIN new, NEW j \in DOMAIN new, new[i] = new[j]
      PROVE  i = j
  BY <1>1, <1>2, <1>3, <1>4 DEF Holds, Once
<1>5. {new[i] : i \in DOMAIN new} = elements \cup {x}
  <2>1. ASSUME NEW i \in DOMAIN new PROVE new[i] \in elements \cup {x}
    BY <1>1, <1>2
  <2>2. ASSUME NEW y \in elements PROVE \E i \in DOMAIN new : new[i] = y
    <3>1. PICK i \in 1 .. Len(list) : list[i] = y
      BY <1>1
    <3>2. i \in DOMAIN new /\ new[i] = y
      BY <1>1, <1>2, <3>1
    <3>3. QED
      BY <3>2
  <2>3. \E i \in DOMAIN new : new[i] = x
    BY <1>1, <1>2
  <2>4. QED
    BY <2>1, <2>2, <2>3
<1>6. QED
  BY <1>2, <1>4, <1>5 DEF Holds, Once, new

(* next() and add() spawn a worker on one of the longest fragments. *)
LEMMA ListSpawnIsSpawn ==
  ASSUME ListInv, NEW w \in Workers, ListSpawn(w)
  PROVE  /\ \E n \in Nodes : Spawn(w, n)
         /\ Holds(order', Nodes, DOMAIN length_monitor')
<1> DEFINE asked == Sorted(order)
           added == Sorted(asked)
           n == Back(asked)
<1>1. ControllerTypeOK /\ Known(order) /\ Once(order) /\ order # <<>>
  BY DEF ListInv, ControllerInv, Known, ListSpawn
<1>2. n \in CanBeBack /\ Back(added) = n
  BY <1>1, BackIsLongest, BackStays
<1>3. n \in DOMAIN length_monitor /\ n \in Nodes
  BY <1>1, <1>2 DEF CanBeBack, ControllerTypeOK
<1>4. Known(added) /\ Once(added)
  <2>1. Known(asked) /\ Once(asked)
    BY <1>1, SortedHolds
  <2>2. QED
    BY <1>1, <2>1, SortedHolds
<1>5. Holds(added, Nodes, DOMAIN length_monitor)
  BY <1>4 DEF Known, Holds
<1>6. /\ w \notin DOMAIN node_finder
      /\ ~EmptyRange(n)
      /\ Add(w, Back(added))
      /\ file_offset' = [file_offset EXCEPT ![w] = NextRange(n).begin]
      /\ order' = IF length_monitor[Back(added)].worker = NoWorker
                    THEN added ELSE Append(added, node_finder'[w])
  BY DEF ListSpawn
<1> HIDE DEF asked, added, n
<1>7. Add(w, n) /\ Spawn(w, n)
  BY <1>2, <1>6 DEF Spawn
<1>8. CASE length_monitor[n].worker = NoWorker
  <2>1. DOMAIN length_monitor' = DOMAIN length_monitor
    BY <1>1, <1>3, <1>7, <1>8, AddIdle
  <2>2. QED
    BY <1>2, <1>3, <1>5, <1>6, <1>7, <1>8, <2>1
<1>9. CASE length_monitor[n].worker # NoWorker
  <2>1. PICK new \in Nodes :
          /\ new \notin DOMAIN length_monitor
          /\ DOMAIN length_monitor' = DOMAIN length_monitor \cup {new}
          /\ length_monitor'[new] \in Fragment
          /\ length_monitor'[new].begin = NextRange(n).begin
          /\ length_monitor'[new].end = length_monitor[n].end
          /\ length_monitor'[new].worker = w
          /\ \A m \in DOMAIN length_monitor :
               /\ length_monitor'[m] \in Fragment
               /\ length_monitor'[m].begin = length_monitor[m].begin
               /\ length_monitor'[m].end =
                    IF m = n THEN NextRange(n).begin ELSE length_monitor[m].end
               /\ length_monitor'[m].worker = length_monitor[m].worker
          /\ DOMAIN node_finder' = DOMAIN node_finder \cup {w}
          /\ \A v \in DOMAIN node_finder' :
               node_finder'[v] = IF v = w THEN new ELSE node_finder[v]
    BY <1>1, <1>3, <1>7, <1>9, AddSplit
  <2>2. order' = Append(added, new)
    BY <1>2, <1>6, <1>9, <2>1
  <2>3. QED
    BY <1>3, <1>5, <1>7, <2>1, <2>2, AppendHolds
<1>10. QED
  BY <1>8, <1>9

(* A report never adds a node. *)
LEMMA ReportLinks ==
  ASSUME NEW w, w \in DOMAIN node_finder, NEW offset,
         ControllerTypeOK,
         AfterRead(w, offset) \/ WorkerStopped(w, offset)
  PROVE  DOMAIN length_monitor' \subseteq DOMAIN length_monitor
<1>1. DOMAIN Advanced(w, offset) = DOMAIN length_monitor
  BY DEF Advanced
<1>2. \A f : DOMAIN Remove(Advanced(w, offset), f) \subseteq DOMAIN length_monitor
  BY <1>1 DEF Remove
<1>3. CASE AfterRead(w, offset)
  BY <1>1, <1>2, <1>3 DEF AfterRead
<1>4. CASE WorkerStopped(w, offset)
  BY <1>1, <1>2, <1>4 DEF WorkerStopped
<1>5. QED
  BY <1>3, <1>4

(* The list of one node the constructor makes satisfies the invariant.     *)
LEMMA ListInvInit == ListInit => ListInv
<1> SUFFICES ASSUME ListInit PROVE ListInv
  OBVIOUS
<1>1. PICK first \in Nodes : first = CHOOSE m \in Nodes : TRUE
  BY NodesAssumption
<1>2. order = <<first>> /\ DOMAIN length_monitor = {first}
  BY <1>1 DEF ListInit, ControllerInit
<1>3. /\ order \in Seq(Nodes) /\ DOMAIN order = 1 .. 1
      /\ order[1] = first
  BY <1>2
<1>4. Once(order) /\ {order[i] : i \in DOMAIN order} = {first}
  BY <1>3 DEF Once
<1>5. ControllerInv
  BY InitInv DEF ListInit
<1>6. QED
  BY <1>2, <1>3, <1>4, <1>5 DEF ListInv

(* A step of the list is a step of the controller, or none. *)
LEMMA ListInvStep ==
  ASSUME ListInv, [ListNext]_listVars
  PROVE  ListInv' /\ [ControllerNext]_controllerVars
<1>1. ControllerTypeOK /\ Known(order) /\ Once(order)
  BY DEF ListInv, ControllerInv, Known
<1>2. Holds(order, Nodes, DOMAIN length_monitor)
  BY <1>1 DEF Known, Holds
<1>3. SUFFICES /\ [ControllerNext]_controllerVars
               /\ Holds(order', Nodes, DOMAIN length_monitor')
  <2>1. ControllerInv'
    BY <1>3, NextKeepsInv DEF ListInv
  <2>2. QED
    BY <1>3, <2>1 DEF ListInv, Holds, Once
<1>4. CASE AskInVain
  <2>1. order' = Sorted(order) /\ UNCHANGED controllerVars
    BY <1>4 DEF AskInVain
  <2>2. Holds(Sorted(order), Nodes, DOMAIN length_monitor)
    BY <1>1, SortedHolds DEF Known, Holds
  <2>3. QED
    BY <2>1, <2>2 DEF controllerVars
<1>5. ASSUME NEW w \in Workers, ListSpawn(w)
      PROVE  /\ [ControllerNext]_controllerVars
             /\ Holds(order', Nodes, DOMAIN length_monitor')
  BY <1>5, ListSpawnIsSpawn DEF ControllerNext
<1>6. ASSUME NEW w \in Workers, NEW offset \in Offsets, ListRead(w, offset)
      PROVE  /\ [ControllerNext]_controllerVars
             /\ Holds(order', Nodes, DOMAIN length_monitor')
  <2>1. Read(w, offset) /\ order' = Unlinked
    BY <1>6 DEF ListRead
  <2>2. DOMAIN length_monitor' \subseteq DOMAIN length_monitor
    BY <1>1, <2>1, ReportLinks DEF Read
  <2>3. QED
    BY <2>1, <2>2, UnlinkedHolds DEF ControllerNext
<1>7. ASSUME NEW w \in Workers, NEW offset \in Offsets, ListStop(w, offset)
      PROVE  /\ [ControllerNext]_controllerVars
             /\ Holds(order', Nodes, DOMAIN length_monitor')
  <2>1. Stop(w, offset) /\ order' = Unlinked
    BY <1>7 DEF ListStop
  <2>2. DOMAIN length_monitor' \subseteq DOMAIN length_monitor
    BY <1>1, <2>1, ReportLinks DEF Stop
  <2>3. QED
    BY <2>1, <2>2, UnlinkedHolds DEF ControllerNext
<1>8. CASE UNCHANGED listVars
  BY <1>2, <1>8 DEF listVars, controllerVars
<1>9. QED
  BY <1>4, <1>5, <1>6, <1>7, <1>8 DEF ListNext

(* The inductive invariant of LengthControllerList.                        *)
LEMMA ListSpecInv == ListSpec => []ListInv
<1>1. ListInit => ListInv
  BY ListInvInit
<1>2. ListInv /\ [ListNext]_listVars => ListInv'
  BY ListInvStep
<1>3. QED
  BY <1>1, <1>2, PTL DEF ListSpec

(* The stable sort of next() and the second one of add() leave the same    *)
(* longest fragment at the back (length_controller.cpp:10 and 23): the     *)
(* list does what LengthController says, so that all that is proved of     *)
(* LengthController holds of the std::list, for every size, threshold and  *)
(* number of workers.                                                      *)
THEOREM ListImplements == ListSpec => ImplementsController
<1>1. ListInit => ControllerInit
  BY DEF ListInit
<1>2. ListInv /\ [ListNext]_listVars => [ControllerNext]_controllerVars
  BY ListInvStep
<1>3. ListSpec => ControllerSpec
  BY <1>1, <1>2, ListSpecInv, PTL DEF ListSpec, ControllerSpec
<1>4. QED
  BY <1>3 DEF ImplementsController

(* However often it is sorted, split and unlinked, the list holds every    *)
(* node once (length_controller.cpp:10 to 60).                             *)
THEOREM ListTypeCorrect == ListSpec => []ListTypeOK
<1>1. ListInv => ListTypeOK
  <2> SUFFICES ASSUME ListInv PROVE ListTypeOK
    OBVIOUS
  <2>1. /\ order \in Seq(Nodes) /\ Once(order)
        /\ {order[i] : i \in DOMAIN order} = DOMAIN length_monitor
    BY DEF ListInv
  <2>2. Len(order) \in Nat /\ DOMAIN order = 1 .. Len(order)
    BY <2>1, LenProperties
  <2>3. order \in Bijection(1 .. Len(order), DOMAIN length_monitor)
    <3>1. order \in [1 .. Len(order) -> DOMAIN length_monitor]
      BY <2>1, <2>2
    <3>2. \A i, j \in 1 .. Len(order) : order[i] = order[j] => i = j
      BY <2>1, <2>2 DEF Once
    <3>3. \A n \in DOMAIN length_monitor :
            \E i \in 1 .. Len(order) : order[i] = n
      BY <2>1, <2>2
    <3>4. QED
      BY <3>1, <3>2, <3>3 DEF Bijection, Injection, Surjection, IsInjective
  <2>4. ExistsBijection(1 .. Len(order), DOMAIN length_monitor)
    BY <2>3 DEF ExistsBijection
  <2>5. Cardinality(DOMAIN length_monitor) = Len(order)
    BY <2>2, <2>4, FS_CountingElements
  <2>6. QED
    BY <2>1, <2>5 DEF ListTypeOK
<1>2. QED
  BY <1>1, ListSpecInv, PTL

-----------------------------------------------------------------------------
(***************************************************************************)
(* What remains.                                                           *)
(***************************************************************************)

(* What a fragment contributes to remain().                                *)
Length(n) == length_monitor[n].end - length_monitor[n].begin

(* res is the sum over the first nodes of the list.                        *)
Adds(res) ==
  res = [k \in 0 .. Len(order) |-> IF k = 0 THEN 0 ELSE res[k - 1] + Length(order[k])]

(* remain() (length_controller.cpp:104) adds the fragments one by one.     *)
LEMMA RemainAdds ==
  ASSUME order \in Seq(Nodes),
         \A i \in 1 .. Len(order) : Length(order[i]) \in Int
  PROVE  \E res : Adds(res) /\ Remain = res[Len(order)]
<1> DEFINE N == Len(order)
           G == [p \in Int \X (0 + 1 .. N) |-> p[1] + Length(order[p[2]])]
<1>1. N \in Nat /\ 0 <= N
  OBVIOUS
<1>2. G \in [Int \X (0 + 1 .. N) -> Int]
  <2>1. \A p \in Int \X (0 + 1 .. N) : p[1] + Length(order[p[2]]) \in Int
    OBVIOUS
  <2>2. QED
    BY <2>1
<1>3. PICK h : Recursive(h, Int, 0, N, 0, G)
  <2>1. 0 \in Nat /\ 0 \in Int
    OBVIOUS
  <2> HIDE DEF N, G
  <2>2. \E h : Recursive(h, Int, 0, N, 0, G)
    BY ONLY <1>1, <1>2, <2>1, RecursiveFunction
  <2>3. QED
    BY <2>2
<1>4. h \in [0 .. N -> Int]
  BY <1>3 DEF Recursive
<1>5. ASSUME NEW k \in 0 .. N
      PROVE  h[k] = IF k = 0 THEN 0 ELSE h[k - 1] + Length(order[k])
  <2>1. h[k] = IF k = 0 THEN 0 ELSE G[<<h[k - 1], k>>]
    BY <1>3 DEF Recursive
  <2>2. k # 0 => k - 1 \in 0 .. N /\ k \in 0 + 1 .. N
    BY <1>1
  <2>3. k # 0 => <<h[k - 1], k>> \in Int \X (0 + 1 .. N)
    BY <1>4, <2>2
  <2>4. k # 0 => G[<<h[k - 1], k>>] = h[k - 1] + Length(order[k])
    BY <2>3
  <2> HIDE DEF G
  <2>5. QED
    BY <2>1, <2>4
<1>6. h = [k \in 0 .. N |-> IF k = 0 THEN 0 ELSE h[k - 1] + Length(order[k])]
  <2>1. h = [k \in 0 .. N |-> h[k]]
    BY <1>4
  <2>2. QED
    BY <1>5, <2>1
<1>7. Adds(h)
  BY <1>6 DEF Adds
<1> DEFINE res == CHOOSE res : Adds(res)
<1>8. Adds(res)
  BY <1>7
<1>9. Remain = res[Len(order)]
  BY DEF Remain, Adds, Length
<1>10. QED
  BY <1>8, <1>9

(* The bytes of a fragment.                                                *)
Bytes(n) == length_monitor[n].begin .. length_monitor[n].end - 1

(* No byte is in two fragments and every node is in the list once, so that *)
(* the sum of their lengths is the number of bytes owed.  Without a byte   *)
(* to fetch the only fragment has the length -1.                           *)
LEMMA RemainIsOwed ==
  Size >= 1 /\ ListInv /\ OneByteIdle => Remain = Cardinality(Owed)
<1> SUFFICES ASSUME Size >= 1, ListInv, OneByteIdle
             PROVE  Remain = Cardinality(Owed)
  OBVIOUS
<1>1. /\ order \in Seq(Nodes) /\ Once(order) /\ Len(order) \in Nat
      /\ DOMAIN order = 1 .. Len(order)
      /\ {order[i] : i \in DOMAIN order} = DOMAIN length_monitor
  BY DEF ListInv
<1>2. ASSUME NEW n \in DOMAIN length_monitor
      PROVE  /\ length_monitor[n].begin \in Int /\ length_monitor[n].end \in Int
             /\ 0 <= length_monitor[n].begin
             /\ length_monitor[n].begin <= length_monitor[n].end
             /\ length_monitor[n].end <= Size - 1
  <2>1. CASE Size = 1
    BY <2>1 DEF OneByteIdle
  <2>2. CASE Size # 1
    <3>1. FragmentsWorthFetching /\ length_monitor[n] \in Fragment
      BY <2>2, SizeAssumption DEF ListInv, ControllerInv, ControllerTypeOK
    <3>2. QED
      BY <3>1 DEF FragmentsWorthFetching, Fragment
  <2>3. QED
    BY <2>1, <2>2
<1>3. \A i \in 1 .. Len(order) : order[i] \in DOMAIN length_monitor
  BY <1>1
<1>4. ASSUME NEW n \in DOMAIN length_monitor
      PROVE  /\ Length(n) \in Int /\ Bytes(n) \subseteq 0 .. Size - 1
             /\ IsFiniteSet(Bytes(n)) /\ Cardinality(Bytes(n)) = Length(n)
  <2>1. Length(n) \in Int /\ Bytes(n) \subseteq 0 .. Size - 1
    BY <1>2, SizeAssumption DEF Length, Bytes
  <2> DEFINE a == length_monitor[n].begin
             b == length_monitor[n].end - 1
  <2>2. a \in Int /\ b \in Int /\ Length(n) = (IF a > b THEN 0 ELSE b - a + 1)
    BY <1>2 DEF Length
  <2>3. Bytes(n) = a .. b
    BY DEF Bytes
  <2> HIDE DEF a, b
  <2>4. IsFiniteSet(a .. b) /\ Cardinality(a .. b) = IF a > b THEN 0 ELSE b - a + 1
    BY <2>2, FS_Interval
  <2>5. QED
    BY <2>1, <2>2, <2>3, <2>4
<1>5. PICK res : Adds(res) /\ Remain = res[Len(order)]
  BY <1>1, <1>3, <1>4, RemainAdds
<1> DEFINE Part(k) == {b \in 0 .. Size - 1 : \E i \in 1 .. k : b \in Bytes(order[i])}
           Bad == {k \in 0 .. Len(order) : res[k] # Cardinality(Part(k))}
<1>6. \A k \in Nat : IsFiniteSet(Part(k))
  <2>1. IsFiniteSet(0 .. Size - 1)
    BY FS_Interval, SizeAssumption
  <2>2. \A k \in Nat : Part(k) \in SUBSET (0 .. Size - 1)
    OBVIOUS
  <2> HIDE DEF Part
  <2>3. QED
    BY <2>1, <2>2, FS_Subset
<1> HIDE DEF Part
<1>7. Bad = {}
  <2> SUFFICES ASSUME Bad # {} PROVE FALSE
    OBVIOUS
  <2>1. PICK k \in Bad : \A m \in Bad : k <= m
    <3>1. Bad \in SUBSET Nat
      BY <1>1
    <3> HIDE DEF Bad
    <3>2. QED
      BY <3>1, LeastNatural
  <2>2. k \in 0 .. Len(order) /\ res[k] # Cardinality(Part(k))
    OBVIOUS
  <2> HIDE DEF Bad
  <2>3. res[k] = IF k = 0 THEN 0 ELSE res[k - 1] + Length(order[k])
    BY <2>2, <1>5 DEF Adds
  <2>4. k # 0
    <3> SUFFICES ASSUME k = 0 PROVE FALSE
      OBVIOUS
    <3>1. Part(0) = {}
      BY DEF Part
    <3>2. QED
      BY <2>2, <2>3, <3>1, FS_EmptySet
  <2>5. /\ k \in 1 .. Len(order) /\ k - 1 \in 0 .. Len(order)
        /\ k - 1 \in Nat /\ ~(k <= k - 1)
    BY <1>1, <2>2, <2>4
  <2>6. res[k - 1] = Cardinality(Part(k - 1))
    <3>1. k - 1 \notin Bad
      BY <2>1, <2>5
    <3>2. QED
      BY <2>5, <3>1 DEF Bad
  <2>7. order[k] \in DOMAIN length_monitor
    BY <1>3, <2>5
  <2>8. Part(k) = Part(k - 1) \cup Bytes(order[k])
    <3>1. \A i \in 1 .. k : i \in 1 .. k - 1 \/ i = k
      BY <2>5
    <3>2. \A i \in 1 .. k - 1 : i \in 1 .. k
      BY <2>5
    <3>3. k \in 1 .. k /\ Bytes(order[k]) \subseteq 0 .. Size - 1
      BY <1>4, <2>5, <2>7
    <3>4. QED
      BY <3>1, <3>2, <3>3 DEF Part
  <2>9. Part(k - 1) \cap Bytes(order[k]) = {}
    <3> SUFFICES ASSUME NEW b \in Bytes(order[k]), NEW i \in 1 .. k - 1, b \in Bytes(order[i])
                 PROVE  FALSE
      BY DEF Part
    <3>1. i \in 1 .. Len(order) /\ i # k
      BY <1>1, <2>5
    <3>2. order[i] # order[k] /\ order[i] \in DOMAIN length_monitor
      BY <1>1, <1>3, <2>5, <3>1 DEF Once
    <3>3. \/ length_monitor[order[i]].end <= length_monitor[order[k]].begin
          \/ length_monitor[order[k]].end <= length_monitor[order[i]].begin
      BY <2>7, <3>2 DEF ListInv, ControllerInv, FragmentsDisjoint
    <3>4. QED
      BY <1>2, <2>7, <3>2, <3>3 DEF Bytes
  <2>10. IsFiniteSet(Part(k - 1))
    BY <1>6, <2>5
  <2>11. Length(order[k]) \in Int /\ IsFiniteSet(Bytes(order[k]))
         /\ Cardinality(Bytes(order[k])) = Length(order[k])
    BY <1>4, <2>7
  <2>12. Cardinality(Part(k)) = Cardinality(Part(k - 1)) + Length(order[k])
    <3> DEFINE S == Part(k - 1)
               T == Bytes(order[k])
    <3>1. IsFiniteSet(S) /\ IsFiniteSet(T) /\ S \cap T = {}
          /\ Part(k) = S \cup T /\ Cardinality(T) = Length(order[k])
      BY <2>8, <2>9, <2>10, <2>11
    <3> HIDE DEF S, T
    <3>2. Cardinality(S \cup T) = Cardinality(S) + Cardinality(T) - Cardinality(S \cap T)
      BY <3>1, FS_Union
    <3>3. Cardinality(S \cap T) = 0 /\ Cardinality(S) \in Nat /\ Cardinality(T) \in Nat
      BY <3>1, FS_EmptySet, FS_CardinalityType
    <3>4. Cardinality(Part(k)) = Cardinality(S) + Cardinality(T)
      BY <3>1, <3>2, <3>3
    <3>5. QED
      BY <3>1, <3>4 DEF S
  <2>13. QED
    BY <2>2, <2>3, <2>4, <2>6, <2>12
<1>8. res[Len(order)] = Cardinality(Part(Len(order)))
  <2>1. Len(order) \in 0 .. Len(order)
    BY <1>1
  <2>2. QED
    BY <1>7, <2>1
<1>9. Part(Len(order)) = Owed
  <2>1. ASSUME NEW b \in 0 .. Size - 1
        PROVE  b \in Part(Len(order)) <=> b \in Owed
    <3>1. ASSUME NEW n \in DOMAIN length_monitor
          PROVE  b \in Bytes(n) <=> length_monitor[n].begin <= b /\ b < length_monitor[n].end
      BY <1>2 DEF Bytes
    <3>2. \A n : n \in DOMAIN length_monitor <=> \E i \in 1 .. Len(order) : n = order[i]
      BY <1>1
    <3>3. QED
      BY <3>1, <3>2 DEF Owed, Part
  <2>2. QED
    BY <2>1 DEF Owed, Part
<1>10. QED
  BY <1>5, <1>8, <1>9

(* The bytes owed can be counted.                                          *)
LEMMA OwedIsFinite == IsFiniteSet(Owed)
<1>1. IsFiniteSet(0 .. Size - 1) /\ Owed \in SUBSET (0 .. Size - 1)
  BY FS_Interval, SizeAssumption DEF Owed
<1>2. QED
  BY <1>1, FS_Subset

(* What remain() says never grows: last_remain - remain (cld.cpp:281) is   *)
(* never negative, the speed shown never wraps around.                     *)
THEOREM RemainCorrect ==
  ASSUME Size >= 1
  PROVE  ListSpec => RemainNeverGrows
<1> DEFINE Agrees == Remain = Cardinality(Owed)
           Shrinks == Owed' \subseteq Owed
<1>1. ListSpec => []OneByteIdle
  <2>1. ListInit => OneByteIdle
    BY InitOneByte DEF ListInit
  <2>2. ListInv /\ OneByteIdle /\ [ListNext]_listVars => OneByteIdle'
    BY ListInvStep, StepOneByte DEF ListInv
  <2>3. QED
    BY <2>1, <2>2, ListSpecInv, PTL DEF ListSpec
<1>2. ListSpec => []Agrees
  <2>1. ListInv /\ OneByteIdle => Agrees
    BY RemainIsOwed
  <2>2. QED
    BY <2>1, <1>1, ListSpecInv, PTL
<1>3. ListSpec => [][Shrinks]_controllerVars
  <2>1. ListSpec => ControllerSpec
    BY ListImplements DEF ImplementsController
  <2>2. OwedOnlyShrinksByReading => [][Shrinks]_controllerVars
    <3>1. [/\ Owed' \subseteq Owed
           /\ \A b \in Owed \ Owed' :
                \E w \in DOMAIN node_finder :
                  /\ file_offset[w] <= b /\ b < file_offset'[w]
                  /\ b < length_monitor[node_finder[w]].end]_controllerVars
             => [Shrinks]_controllerVars
      OBVIOUS
    <3>2. QED
      BY <3>1, PTL DEF OwedOnlyShrinksByReading
  <2>3. QED
    BY <2>1, <2>2, OwedCorrect
<1>4. Agrees /\ Agrees' /\ [Shrinks]_controllerVars => [Remain' <= Remain]_listVars
  <2> SUFFICES ASSUME Agrees, Agrees', [Shrinks]_controllerVars PROVE Remain' <= Remain
    OBVIOUS
  <2>1. Owed' \subseteq Owed
    BY DEF controllerVars, Owed
  <2>2. Cardinality(Owed') <= Cardinality(Owed)
    BY <2>1, OwedIsFinite, FS_Subset
  <2>3. QED
    BY <2>2
<1>5. QED
  BY <1>2, <1>3, <1>4, PTL DEF RemainNeverGrows

=============================================================================
