------------------------------- MODULE Recursion --------------------------------
(***************************************************************************)
(* Induction, and recursion along the numbers from one to another, in a    *)
(* form the provers can use: without an operator for a parameter.          *)
(***************************************************************************)
EXTENDS Integers, WellFoundedInduction, TLAPS

(* A set of natural numbers that is not empty has a least element.  With   *)
(* the set of the numbers for which something fails, this is induction.    *)
LEMMA LeastNatural ==
  ASSUME NEW T \in SUBSET Nat, T # {}
  PROVE  \E x \in T : \A y \in T : x <= y
<1>1. PICK x \in T : \A y \in T : <<y, x>> \notin OpToRel(<, Nat)
  BY WFMin, NatLessThanWellFounded
<1>2. \A y \in T : x <= y
  <2> SUFFICES ASSUME NEW y \in T, ~(x <= y) PROVE FALSE
    OBVIOUS
  <2>1. y < x
    OBVIOUS
  <2>2. /\ <<y, x>> \in Nat \X Nat
        /\ <<y, x>>[1] = y /\ <<y, x>>[2] = x
    OBVIOUS
  <2>3. <<y, x>> \in OpToRel(<, Nat)
    BY <2>1, <2>2 DEF OpToRel
  <2>4. QED
    BY <1>1, <2>3
<1>3. QED
  BY <1>2

(* One of the numbers up to N that is not empty has a greatest.            *)
LEMMA GreatestNatural ==
  ASSUME NEW N \in Nat, NEW T \in SUBSET (0 .. N), T # {}
  PROVE  \E x \in T : \A y \in T : x >= y
<1> DEFINE Bounds == {b \in Nat : \A y \in T : b >= y}
<1>1. Bounds \in SUBSET Nat /\ N \in Bounds
  OBVIOUS
<1>2. PICK x \in Bounds : \A y \in Bounds : x <= y
  <2> HIDE DEF Bounds
  <2>1. QED
    BY <1>1, LeastNatural
<1>3. CASE x \in T
  BY <1>3
<1>4. CASE x \notin T
  <2>1. \A y \in T : x > y
    BY <1>4
  <2>2. x > 0
    <3>1. PICK y \in T : TRUE
      OBVIOUS
    <3>2. y \in Nat /\ x \in Nat /\ x > y
      BY <2>1
    <3>3. QED
      BY <3>2
  <2>3. x - 1 \in Bounds
    BY <2>1, <2>2
  <2>4. QED
    BY <1>2, <2>3
<1>5. QED
  BY <1>3, <1>4

(* h begins with b, and G says how it goes on from each number to the next. *)
Recursive(h, V, a, N, b, G) ==
  /\ h \in [a .. N -> V]
  /\ h = [n \in a .. N |-> IF n = a THEN b ELSE G[<<h[n - 1], n>>]]

(* Recursion defines a function. *)
LEMMA RecursiveFunction ==
  ASSUME NEW a \in Nat, NEW N \in Nat, a <= N, NEW V, NEW b \in V,
         NEW G \in [V \X (a + 1 .. N) -> V]
  PROVE  \E h : Recursive(h, V, a, N, b, G)
<1> DEFINE Bad == {n \in a .. N : ~ \E h : Recursive(h, V, a, n, b, G)}
<1> SUFFICES ASSUME Bad # {} PROVE FALSE
  <2>1. N \in a .. N
    OBVIOUS
  <2>2. QED
    BY <2>1
<1>1. PICK n \in Bad : \A m \in Bad : n <= m
  <2>1. Bad \in SUBSET Nat
    OBVIOUS
  <2> HIDE DEF Bad
  <2>2. QED
    BY <2>1, LeastNatural
<1>2. n \in a .. N /\ n \in Nat /\ ~ \E h : Recursive(h, V, a, n, b, G)
  OBVIOUS
<1>3. CASE n = a
  <2> DEFINE h == [m \in a .. a |-> b]
  <2>1. Recursive(h, V, a, a, b, G)
    BY DEF Recursive
  <2>2. QED
    BY <1>2, <1>3, <2>1
<1>4. CASE n # a
  <2>1. n - 1 \in a .. N /\ n - 1 \notin Bad
    <3>1. n - 1 \in a .. N /\ ~(n <= n - 1)
      BY <1>2, <1>4
    <3> HIDE DEF Bad
    <3>2. QED
      BY <1>1, <3>1
  <2>2. PICK g : Recursive(g, V, a, n - 1, b, G)
    BY <2>1
  <2> DEFINE h == [m \in a .. n |-> IF m = n THEN G[<<g[n - 1], n>>] ELSE g[m]]
  <2>3. g[n - 1] \in V /\ n \in a + 1 .. N
    BY <1>2, <1>4, <2>1, <2>2 DEF Recursive
  <2>4. G[<<g[n - 1], n>>] \in V
    BY <2>3
  <2>5. \A m \in a .. n : m # n => m \in a .. n - 1
    BY <1>2
  <2>6. \A m \in a .. n - 1 : h[m] = g[m] /\ h[m] \in V
    <3> SUFFICES ASSUME NEW m \in a .. n - 1 PROVE h[m] = g[m] /\ g[m] \in V
      OBVIOUS
    <3>1. m \in a .. n /\ m # n
      BY <1>2
    <3>2. h[m] = g[m]
      BY <3>1
    <3>3. g[m] \in V
      BY <2>2 DEF Recursive
    <3>4. QED
      BY <3>2, <3>3
  <2>7. h \in [a .. n -> V]
    BY <2>4, <2>5, <2>6
  <2>8. ASSUME NEW m \in a .. n
        PROVE  h[m] = IF m = a THEN b ELSE G[<<h[m - 1], m>>]
    <3>1. CASE m = n
      <4>1. n - 1 \in a .. n - 1
        BY <1>2, <2>1
      <4>2. h[n - 1] = g[n - 1] /\ h[n] = G[<<g[n - 1], n>>]
        BY <1>2, <2>6, <4>1
      <4> HIDE DEF h
      <4>3. QED
        BY <1>4, <3>1, <4>2
    <3>2. CASE m # n
      <4>1. m \in a .. n - 1 /\ h[m] = g[m]
        BY <2>5, <2>6, <3>2
      <4>2. g[m] = IF m = a THEN b ELSE G[<<g[m - 1], m>>]
        BY <2>2, <4>1 DEF Recursive
      <4>3. m # a => m - 1 \in a .. n - 1
        BY <1>2, <4>1
      <4>4. m # a => h[m - 1] = g[m - 1]
        BY <2>6, <4>3
      <4> HIDE DEF h
      <4>5. QED
        BY <4>1, <4>2, <4>4
    <3>3. QED
      BY <3>1, <3>2
  <2> HIDE DEF h
  <2>9. Recursive(h, V, a, n, b, G)
    BY <2>7, <2>8 DEF Recursive
  <2>10. QED
    BY <1>2, <2>9
<1>5. QED
  BY <1>3, <1>4

=============================================================================
