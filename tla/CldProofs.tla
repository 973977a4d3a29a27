------------------------------- MODULE CldProofs --------------------------------
(***************************************************************************)
(* Proofs about Cld and HttpResponse, for every set of hosts, paths and    *)
(* answers, any finite set of pages and any way through them.              *)
(*                                                                         *)
(* Headers, FlattenSeq and Chain are recursive: what is said of one is     *)
(* true of each of its values because there is no least one of which it is *)
(* not (LeastNatural).                                                     *)
(***************************************************************************)
EXTENDS Cld, Recursion, FiniteSetTheorems, TLAPS

(***************************************************************************)
(* The header of an answer.                                                *)
(***************************************************************************)

(* b is the map after each line of a header.                               *)
Built(b, lines) ==
  b = [n \in 0 .. Len(lines) |-> IF n = 0 THEN <<>> ELSE With(b[n - 1], lines[n])]

(* There is such a sequence of maps, whatever the lines, and the           *)
(* constructor of http::Response (http_response.cpp:34) ends with its      *)
(* last.                                                                   *)
LEMMA HeadersBuilt ==
  ASSUME NEW lines \in Seq(Line)
  PROVE  \E b : Built(b, lines) /\ Headers(lines) = b[Len(lines)]
<1> DEFINE Upto(b, n) ==
             b = [m \in 0 .. n |-> IF m = 0 THEN <<>> ELSE With(b[m - 1], lines[m])]
           Bad == {n \in 0 .. Len(lines) : ~ \E b : Upto(b, n)}
<1>1. Len(lines) \in Nat
  OBVIOUS
<1>2. Bad = {}
  <2> SUFFICES ASSUME Bad # {} PROVE FALSE
    OBVIOUS
  <2>1. PICK n \in Bad : \A m \in Bad : n <= m
    <3>1. Bad \in SUBSET Nat
      BY <1>1
    <3> HIDE DEF Bad
    <3>2. QED
      BY <3>1, LeastNatural
  <2>2. n \in 0 .. Len(lines) /\ n \in Nat /\ ~ \E b : Upto(b, n)
    BY <1>1
  <2>3. n # 0
    <3> SUFFICES ASSUME n = 0 PROVE FALSE
      OBVIOUS
    <3> DEFINE b == [m \in 0 .. 0 |-> <<>>]
    <3>1. Upto(b, 0)
      OBVIOUS
    <3>2. QED
      BY <2>2, <3>1
  <2>4. n - 1 \in 0 .. Len(lines) /\ n - 1 \notin Bad
    <3>1. n - 1 \in 0 .. Len(lines) /\ ~(n <= n - 1)
      BY <1>1, <2>2, <2>3
    <3> HIDE DEF Bad
    <3>2. QED
      BY <2>1, <3>1
  <2>5. PICK g : Upto(g, n - 1)
    BY <2>4
  <2> DEFINE b == [m \in 0 .. n |-> IF m = n THEN With(g[n - 1], lines[n]) ELSE g[m]]
  <2>6. ASSUME NEW m \in 0 .. n, m # n
        PROVE  b[m] = g[m] /\ m \in 0 .. n - 1
    BY <2>2, <2>6
  <2>7. ASSUME NEW m \in 0 .. n
        PROVE  b[m] = IF m = 0 THEN <<>> ELSE With(b[m - 1], lines[m])
    <3>1. CASE m = n
      <4>1. n - 1 \in 0 .. n /\ n - 1 # n
        BY <2>2, <2>3
      <4>2. b[n - 1] = g[n - 1]
        BY <2>6, <4>1
      <4>3. b[n] = With(g[n - 1], lines[n])
        BY <2>2
      <4> HIDE DEF b
      <4>4. QED
        BY <2>3, <3>1, <4>2, <4>3
    <3>2. CASE m # n
      <4>1. b[m] = g[m] /\ m \in 0 .. n - 1
        BY <2>6, <3>2
      <4>2. g[m] = IF m = 0 THEN <<>> ELSE With(g[m - 1], lines[m])
        BY <2>5, <4>1
      <4>3. m # 0 => m - 1 \in 0 .. n /\ m - 1 # n
        BY <2>2
      <4>4. m # 0 => b[m - 1] = g[m - 1]
        BY <2>6, <4>3
      <4> HIDE DEF b, Upto
      <4>5. QED
        BY <4>1, <4>2, <4>4
    <3>3. QED
      BY <3>1, <3>2
  <2>8. b = [m \in 0 .. n |-> b[m]]
    OBVIOUS
  <2> HIDE DEF b
  <2>9. [m \in 0 .. n |-> b[m]]
          = [m \in 0 .. n |-> IF m = 0 THEN <<>> ELSE With(b[m - 1], lines[m])]
    BY <2>7
  <2>10. Upto(b, n)
    BY <2>8, <2>9
  <2>11. QED
    BY <2>2, <2>10
<1>3. \E b : Upto(b, Len(lines))
  <2>1. Len(lines) \in 0 .. Len(lines)
    BY <1>1
  <2>2. QED
    BY <1>2, <2>1
<1> HIDE DEF Bad
<1> DEFINE built == CHOOSE b : Upto(b, Len(lines))
<1>4. Built(built, lines)
  BY <1>3 DEF Built
<1>5. Headers(lines) = built[Len(lines)]
  BY DEF Headers
<1>6. QED
  BY <1>4, <1>5

(* What a line does to the value of each header (http_response.cpp:56 to   *)
(* 64).                                                                    *)
LEMMA WithAt ==
  ASSUME NEW h, NEW line, NEW name
  PROVE  At(With(h, line), name) =
           IF line.name # name THEN At(h, name)
           ELSE IF name = "Set-Cookie" /\ At(h, name) # None
                  THEN At(h, name) \o line.value
                  ELSE line.value
BY DEF With, At

(* A greatest element is the greatest.                                     *)
LEMMA MaxIsGreatest ==
  ASSUME NEW T \in SUBSET Int, NEW i \in T, \A j \in T : i >= j
  PROVE  Max(T) = i
<1>1. \A j \in T : (\A k \in T : j >= k) => j = i
  OBVIOUS
<1>2. QED
  BY <1>1 DEF Max

(* Of every header but Set-Cookie the map holds the last value.            *)
LEMMA LastIsMeant ==
  ASSUME NEW lines \in Seq(Line), NEW name, name # "Set-Cookie"
  PROVE  At(Headers(lines), name) = Meant(lines, name)
<1>1. PICK b : Built(b, lines) /\ Headers(lines) = b[Len(lines)]
  BY HeadersBuilt
<1>2. Len(lines) \in Nat /\ DOMAIN lines = 1 .. Len(lines)
  OBVIOUS
<1> DEFINE Upto(n) == {i \in 1 .. n : lines[i].name = name}
           Good(n) ==
             \/ Upto(n) = {} /\ At(b[n], name) = None
             \/ \E i \in Upto(n) : /\ \A j \in Upto(n) : i >= j
                                   /\ At(b[n], name) = lines[i].value
           Bad == {n \in 0 .. Len(lines) : ~Good(n)}
<1>3. Bad = {}
  <2> SUFFICES ASSUME Bad # {} PROVE FALSE
    OBVIOUS
  <2>1. PICK n \in Bad : \A m \in Bad : n <= m
    <3>1. Bad \in SUBSET Nat
      BY <1>2
    <3> HIDE DEF Bad
    <3>2. QED
      BY <3>1, LeastNatural
  <2>2. n \in 0 .. Len(lines) /\ n \in Nat /\ ~Good(n)
    BY <1>2
  <2>3. n # 0
    <3>1. b[0] = <<>>
      BY <1>1, <1>2 DEF Built
    <3>2. At(b[0], name) = None
      BY <3>1 DEF At
    <3>3. Upto(0) = {}
      OBVIOUS
    <3>4. QED
      BY <2>2, <3>2, <3>3
  <2>4. n - 1 \in 0 .. Len(lines) /\ Good(n - 1)
    <3>1. n - 1 \in 0 .. Len(lines) /\ ~(n <= n - 1)
      BY <1>2, <2>2, <2>3
    <3>2. n - 1 \notin Bad
      <4> HIDE DEF Bad
      <4>1. QED
        BY <2>1, <3>1
    <3>3. QED
      BY <3>1, <3>2
  <2>5. b[n] = With(b[n - 1], lines[n])
    BY <1>1, <2>2, <2>3 DEF Built
  <2>6. At(b[n], name) = IF lines[n].name # name THEN At(b[n - 1], name)
                                                 ELSE lines[n].value
    BY <2>5, WithAt
  <2>7. CASE lines[n].name = name
    <3>1. n \in Upto(n) /\ \A j \in Upto(n) : n >= j
      BY <2>2, <2>3, <2>7
    <3>2. QED
      BY <2>2, <2>6, <2>7, <3>1
  <2>8. CASE lines[n].name # name
    <3>1. Upto(n) = Upto(n - 1)
      BY <2>2, <2>3, <2>8
    <3> HIDE DEF Upto
    <3>2. QED
      BY <2>2, <2>4, <2>6, <2>8, <3>1
  <2>9. QED
    BY <2>7, <2>8
<1>4. Good(Len(lines))
  <2>1. Len(lines) \in 0 .. Len(lines)
    BY <1>2
  <2>2. QED
    BY <1>3, <2>1
<1>5. Upto(Len(lines)) = Given(lines, name)
  BY <1>2 DEF Given
<1>6. CASE Given(lines, name) = {}
  BY <1>1, <1>4, <1>5, <1>6 DEF Meant
<1>7. CASE Given(lines, name) # {}
  <2>1. PICK i \in Given(lines, name) :
               /\ \A j \in Given(lines, name) : i >= j
               /\ At(b[Len(lines)], name) = lines[i].value
    BY <1>4, <1>5, <1>7
  <2>2. Given(lines, name) \subseteq Int
    BY <1>5
  <2>3. Max(Given(lines, name)) = i
    BY <2>1, <2>2, MaxIsGreatest
  <2>4. Meant(lines, name) = lines[Max(Given(lines, name))].value
    BY <1>7 DEF Meant
  <2>5. QED
    BY <1>1, <2>1, <2>3, <2>4
<1>8. QED
  BY <1>6, <1>7

(* f is what FlattenSeq() has put together of each prefix.                 *)
Flattens(f, seqs) ==
  f = [i \in 1 .. Len(seqs) |-> IF i = 1 THEN seqs[i] ELSE f[i - 1] \o seqs[i]]

(* FlattenSeq() joins sequences of sequences one by one.                   *)
LEMMA Flattened ==
  ASSUME NEW S, NEW seqs \in Seq(Seq(S)), Len(seqs) # 0
  PROVE  \E f \in [1 .. Len(seqs) -> Seq(S)] :
           Flattens(f, seqs) /\ FlattenSeq(seqs) = f[Len(seqs)]
<1> DEFINE N == Len(seqs)
           V == Seq(S)
           G == [p \in V \X (1 + 1 .. N) |-> p[1] \o seqs[p[2]]]
           f == CHOOSE f : Flattens(f, seqs)
<1>1. N \in Nat /\ 1 <= N /\ \A i \in 1 .. N : seqs[i] \in V
  OBVIOUS
<1>2. G \in [V \X (1 + 1 .. N) -> V]
  BY <1>1
<1>3. PICK h : Recursive(h, V, 1, N, seqs[1], G)
  <2>1. seqs[1] \in V
    BY <1>1
  <2> HIDE DEF N, V, G
  <2>2. QED
    BY <1>1, <1>2, <2>1, RecursiveFunction
<1>4. h \in [1 .. N -> V]
  BY <1>3 DEF Recursive
<1>5. ASSUME NEW i \in 1 .. N, i # 1
      PROVE  h[i] = h[i - 1] \o seqs[i]
  <2>1. i - 1 \in 1 .. N /\ i \in 1 + 1 .. N
    BY <1>1, <1>5
  <2>2. h[i] = G[<<h[i - 1], i>>]
    BY <1>3, <1>5 DEF Recursive
  <2>3. h[i - 1] \in V
    BY <1>4, <2>1
  <2>4. QED
    BY <2>1, <2>2, <2>3
<1>6. h[1] = seqs[1]
  BY <1>1, <1>3 DEF Recursive
<1>7. h = [i \in 1 .. N |-> IF i = 1 THEN seqs[i] ELSE h[i - 1] \o seqs[i]]
  <2>1. h = [i \in 1 .. N |-> h[i]]
    BY <1>4
  <2>2. QED
    BY <1>5, <1>6, <2>1
<1>8. Flattens(h, seqs)
  BY <1>7 DEF Flattens
<1>9. Flattens(f, seqs)
  BY <1>8
<1>10. FlattenSeq(seqs) = f[N]
  BY DEF FlattenSeq, Flattens
<1>11. \A i \in 1 .. N : f[i] = h[i]
  <2> DEFINE Bad == {i \in 1 .. N : f[i] # h[i]}
  <2> SUFFICES ASSUME Bad # {} PROVE FALSE
    OBVIOUS
  <2>1. PICK i \in Bad : \A j \in Bad : i <= j
    <3>1. Bad \in SUBSET Nat
      BY <1>1
    <3> HIDE DEF Bad
    <3>2. QED
      BY <3>1, LeastNatural
  <2>2. i \in 1 .. N /\ f[i] # h[i]
    OBVIOUS
  <2>3. f[i] = IF i = 1 THEN seqs[i] ELSE f[i - 1] \o seqs[i]
    BY <1>9, <2>2 DEF Flattens
  <2>4. i # 1
    BY <1>6, <2>2, <2>3
  <2>5. i - 1 \in 1 .. N /\ ~(i <= i - 1)
    BY <1>1, <2>2, <2>4
  <2>6. f[i - 1] = h[i - 1]
    <3>1. i - 1 \notin Bad
      <4> HIDE DEF Bad
      <4>1. QED
        BY <2>1, <2>5
    <3>2. QED
      BY <2>5, <3>1
  <2> HIDE DEF f, Bad
  <2>7. QED
    BY <1>5, <2>2, <2>3, <2>4, <2>6
<1> HIDE DEF f
<1>12. f = [i \in 1 .. N |-> f[i]]
  BY <1>9 DEF Flattens
<1>13. f \in [1 .. N -> V]
  BY <1>4, <1>11, <1>12
<1>14. QED
  BY <1>9, <1>10, <1>13

(* Of Set-Cookie the map holds all the values, joined in their order.      *)
LEMMA CookiesAreMeant ==
  ASSUME NEW lines \in Seq(Line), WellFormed(lines)
  PROVE  At(Headers(lines), "Set-Cookie") = Meant(lines, "Set-Cookie")
<1>1. PICK b : Built(b, lines) /\ Headers(lines) = b[Len(lines)]
  BY HeadersBuilt
<1>2. Len(lines) \in Nat /\ DOMAIN lines = 1 .. Len(lines)
  OBVIOUS
<1>3. b[0] = <<>> /\ At(b[0], "Set-Cookie") = None
  <2>1. b[0] = <<>>
    BY <1>1, <1>2 DEF Built
  <2>2. QED
    BY <2>1 DEF At
<1> DEFINE told == Given(lines, "Set-Cookie")
           cookies == [i \in DOMAIN lines |-> IF i \in told THEN lines[i].value ELSE <<>>]
<1>4. CASE Len(lines) = 0
  <2>1. told = {}
    BY <1>2, <1>4 DEF Given
  <2>2. Meant(lines, "Set-Cookie") = None
    BY <2>1 DEF Meant
  <2>3. QED
    BY <1>1, <1>3, <1>4, <2>2
<1>5. CASE Len(lines) # 0
  <2>1. \A i \in told : lines[i].value \in Seq(STRING)
    <3> SUFFICES ASSUME NEW i \in told PROVE lines[i].value \in Seq(STRING)
      OBVIOUS
    <3>1. i \in DOMAIN lines /\ lines[i].name = "Set-Cookie" /\ lines[i] # Malformed
      BY DEF Given, WellFormed
    <3>2. lines[i] \in Line
      BY <3>1
    <3>3. QED
      BY <3>1, <3>2 DEF Line
  <2>2. cookies \in Seq(Seq(STRING)) /\ Len(cookies) = Len(lines)
    <3>1. ASSUME NEW i \in 1 .. Len(lines)
          PROVE  cookies[i] \in Seq(STRING)
      <4>1. <<>> \in Seq(STRING)
        OBVIOUS
      <4>2. cookies[i] = IF i \in told THEN lines[i].value ELSE <<>>
        BY <1>2
      <4> HIDE DEF cookies, told
      <4>3. QED
        BY <2>1, <4>1, <4>2
    <3>2. cookies \in [1 .. Len(lines) -> Seq(STRING)]
      BY <1>2, <3>1
    <3> HIDE DEF cookies
    <3>3. QED
      BY <1>2, <3>2
  <2>3. PICK f \in [1 .. Len(lines) -> Seq(STRING)] :
               Flattens(f, cookies) /\ FlattenSeq(cookies) = f[Len(lines)]
    <3> HIDE DEF cookies
    <3>1. QED
      BY <1>5, <2>2, Flattened
  <2> DEFINE Upto(n) == {i \in 1 .. n : lines[i].name = "Set-Cookie"}
             Good(n) ==
               At(b[n], "Set-Cookie") = IF Upto(n) = {} THEN None ELSE f[n]
             Empty(n) == Upto(n) = {} => f[n] = <<>>
             Bad == {n \in 1 .. Len(lines) : ~(Good(n) /\ Empty(n))}
  <2>4. Bad = {}
    <3> SUFFICES ASSUME Bad # {} PROVE FALSE
      OBVIOUS
    <3>1. PICK n \in Bad : \A m \in Bad : n <= m
      <4>1. Bad \in SUBSET Nat
        BY <1>2
      <4> HIDE DEF Bad
      <4>2. QED
        BY <4>1, LeastNatural
    <3>2. n \in 1 .. Len(lines) /\ n \in Nat /\ ~(Good(n) /\ Empty(n))
      BY <1>2
    <3>3. /\ b[n] = With(b[n - 1], lines[n])
          /\ n - 1 \in 0 .. Len(lines)
      BY <1>1, <1>2, <3>2 DEF Built
    <3> DEFINE old == At(b[n - 1], "Set-Cookie")
    <3>4. At(b[n], "Set-Cookie") =
            IF lines[n].name # "Set-Cookie" THEN old
            ELSE IF old # None THEN old \o lines[n].value ELSE lines[n].value
      <4>1. \A h, line : At(With(h, line), "Set-Cookie") =
              IF line.name # "Set-Cookie" THEN At(h, "Set-Cookie")
              ELSE IF At(h, "Set-Cookie") # None
                     THEN At(h, "Set-Cookie") \o line.value
                     ELSE line.value
        BY WithAt, SMT
      <4>2. At(b[n], "Set-Cookie") = At(With(b[n - 1], lines[n]), "Set-Cookie")
        BY <3>3, Zenon
      <4>3. QED
        BY <4>1, <4>2, Zenon
    <3>5. f[n] = IF n = 1 THEN cookies[n] ELSE f[n - 1] \o cookies[n]
      <4>1. Len(cookies) = Len(lines)
        BY <2>2
      <4> HIDE DEF cookies
      <4>2. QED
        BY <2>3, <3>2, <4>1 DEF Flattens
    <3>6. cookies[n] = IF lines[n].name = "Set-Cookie" THEN lines[n].value ELSE <<>>
      BY <1>2, <3>2 DEF Given
    <3>7. lines[n].name = "Set-Cookie" => lines[n].value \in Seq(STRING)
      BY <1>2, <2>1, <3>2 DEF Given
    <3>8. Upto(n) = IF lines[n].name = "Set-Cookie" THEN Upto(n - 1) \cup {n}
                                                    ELSE Upto(n - 1)
      BY <3>2
    <3>9. f[n] \in Seq(STRING)
      BY <3>2
    <3> HIDE DEF cookies
    <3>10. CASE n = 1
      <4>1. Upto(n - 1) = {}
        BY <3>10
      <4>2. old = None
        BY <1>3, <3>10
      <4> HIDE DEF Upto, old
      <4>3. QED
        BY <3>2, <3>4, <3>5, <3>6, <3>8, <3>10, <4>1, <4>2
    <3>11. CASE n # 1
      <4>1. n - 1 \in 1 .. Len(lines) /\ ~(n <= n - 1)
        BY <1>2, <3>2, <3>11
      <4>2. n - 1 \notin Bad
        <5> HIDE DEF Bad
        <5>1. QED
          BY <3>1, <4>1
      <4>3. Good(n - 1) /\ Empty(n - 1)
        BY <4>1, <4>2
      <4>4. f[n - 1] \in Seq(STRING)
        BY <4>1
      <4>5. Upto(n - 1) # {} => old # None /\ old = f[n - 1]
        BY <4>3, <4>4, NoneAssumption
      <4>6. Upto(n - 1) = {} => old = None /\ f[n - 1] = <<>>
        BY <4>3
      <4>7. CASE lines[n].name = "Set-Cookie"
        <5>1. f[n] = f[n - 1] \o lines[n].value
          BY <3>5, <3>6, <3>11, <4>7
        <5>2. Upto(n) # {}
          BY <3>8, <4>7
        <5>3. At(b[n], "Set-Cookie") = f[n]
          <6>1. CASE Upto(n - 1) = {}
            <7>1. f[n] = lines[n].value
              <8>1. f[n] = <<>> \o lines[n].value /\ lines[n].value \in Seq(STRING)
                BY <3>7, <4>6, <4>7, <5>1, <6>1
              <8>2. QED
                BY <8>1
            <7>2. At(b[n], "Set-Cookie") = lines[n].value
              BY <3>4, <4>6, <4>7, <6>1
            <7>3. QED
              BY <7>1, <7>2
          <6>2. CASE Upto(n - 1) # {}
            BY <3>4, <4>5, <4>7, <5>1, <6>2
          <6>3. QED
            BY <6>1, <6>2
        <5>4. QED
          BY <3>2, <5>2, <5>3
      <4>8. CASE lines[n].name # "Set-Cookie"
        <5>1. f[n] = f[n - 1]
          BY <3>5, <3>6, <3>11, <4>4, <4>8
        <5>2. Upto(n) = Upto(n - 1)
          BY <3>8, <4>8
        <5>3. At(b[n], "Set-Cookie") = old
          BY <3>4, <4>8
        <5>4. QED
          BY <3>2, <4>5, <4>6, <5>1, <5>2, <5>3
      <4>9. QED
        BY <4>7, <4>8
    <3>12. QED
      BY <3>10, <3>11
  <2>5. Good(Len(lines))
    <3>1. Len(lines) \in 1 .. Len(lines)
      BY <1>2, <1>5
    <3>2. QED
      BY <2>4, <3>1
  <2>6. Upto(Len(lines)) = told
    BY <1>2 DEF Given
  <2>7. CASE told = {}
    <3>1. Meant(lines, "Set-Cookie") = None
      BY <2>7 DEF Meant
    <3>2. QED
      BY <1>1, <2>5, <2>6, <2>7, <3>1
  <2>8. CASE told # {}
    <3>1. Meant(lines, "Set-Cookie") = FlattenSeq(cookies)
      BY <2>8 DEF Meant
    <3> HIDE DEF cookies
    <3>2. QED
      BY <1>1, <2>3, <2>5, <2>6, <2>8, <3>1
  <2>9. QED
    BY <2>7, <2>8
<1>6. QED
  BY <1>4, <1>5

(* The map says what the lines say, however many there are.                *)
LEMMA HeadersAreMeant ==
  ASSUME NEW lines \in Seq(Line), WellFormed(lines), NEW name
  PROVE  At(Headers(lines), name) = Meant(lines, name)
BY LastIsMeant, CookiesAreMeant

(***************************************************************************)
(* Where the redirects lead.                                               *)
(***************************************************************************)

(* What the servers say does not change.                                   *)
SiteOK == site \in [Pages -> Answers]

(* Where the answer for a URL leads, the cookie it sets and the URL after  *)
(* it.                                                                     *)
LocationOf(u) == Meant(Says(Page(u)).lines, "Location")
CookieOf(u) == Meant(Says(Page(u)).lines, "Set-Cookie")
After(u) == Target(u, LocationOf(u))

(* Every page answers, if only with 404.                                   *)
LEMMA SaysAnswer ==
  SiteOK => \A page : Says(page) \in Answer
<1> SUFFICES ASSUME SiteOK, NEW page PROVE Says(page) \in Answer
  OBVIOUS
<1>1. CASE page \in Pages
  BY <1>1, AnswersAssumption DEF Says, SiteOK
<1>2. CASE page \notin Pages
  <2>1. <<>> \in Seq(Line) /\ 404 \in Int
    OBVIOUS
  <2> HIDE DEF Line
  <2>2. QED
    BY <1>2, <2>1 DEF Says, Nothing, Answer
<1>3. QED
  BY <1>1, <1>2

(* A Location that is given is one.                                        *)
LEMMA LocationIsOne ==
  ASSUME NEW lines \in Seq(Line), WellFormed(lines), Meant(lines, "Location") # None
  PROVE  Meant(lines, "Location") \in Locations
<1> DEFINE told == Given(lines, "Location")
<1>1. told # {} /\ Meant(lines, "Location") = lines[Max(told)].value
  BY DEF Meant
<1>2. PICK i \in told : \A j \in told : i >= j
  <2>1. Len(lines) \in Nat /\ told \in SUBSET (0 .. Len(lines))
    BY DEF Given
  <2> HIDE DEF told
  <2>2. QED
    BY <1>1, <2>1, GreatestNatural
<1>3. Max(told) = i
  <2>1. told \subseteq Int
    BY DEF Given
  <2> HIDE DEF told
  <2>2. QED
    BY <1>2, <2>1, MaxIsGreatest
<1>4. i \in DOMAIN lines /\ lines[i].name = "Location" /\ lines[i] # Malformed
  BY DEF Given, WellFormed
<1>5. lines[i] \in Line
  BY <1>4
<1>6. lines[i].value \in Locations
  BY <1>4, <1>5 DEF Line
<1>7. QED
  BY <1>1, <1>3, <1>6

(* A redirect is a page that is there, and leads to a URL.                 *)
LEMMA RedirectLeads ==
  ASSUME SiteOK, NEW u \in Url, IsRedirect(u)
  PROVE  After(u) \in Url /\ Page(u) \in Pages
<1>1. LocationOf(u) # None /\ LocationOf(u).kind \in {"absolute", "relative"}
  BY DEF IsRedirect, Leads, LocationOf
<1>2. LocationOf(u) \in Locations
  <2>1. Says(Page(u)).lines \in Seq(Line)
    BY SaysAnswer DEF Answer
  <2>2. QED
    BY <1>1, <2>1, LocationIsOne DEF IsRedirect, LocationOf
<1>3. After(u) \in Url
  BY <1>1, <1>2 DEF After, Target, Locations, Url
<1>4. Says(Page(u)) # Nothing
  BY DEF IsRedirect, Leads, Redirects, Nothing
<1>5. QED
  BY <1>3, <1>4 DEF Says

(* The same page, and both or neither of a scheme the program knows: http  *)
(* and https lead to the same answer.                                      *)
Alike(u, v) ==
  /\ Page(u) = Page(v)
  /\ u.scheme \in {"http", "https"} <=> v.scheme \in {"http", "https"}

(* The redirects of URLs that are alike lead to URLs that are alike.       *)
LEMMA AlikeLead ==
  ASSUME SiteOK, NEW u \in Url, NEW v \in Url, Alike(u, v)
  PROVE  /\ IsRedirect(u) <=> IsRedirect(v)
         /\ IsRedirect(u) => Alike(After(u), After(v))
<1>1. Says(Page(u)) = Says(Page(v)) /\ LocationOf(u) = LocationOf(v)
  BY DEF Alike, LocationOf
<1>2. IsRedirect(u) <=> IsRedirect(v)
  BY <1>1 DEF Alike, IsRedirect
<1>3. ASSUME IsRedirect(u)
      PROVE  Alike(After(u), After(v))
  <2>1. CASE LocationOf(u).kind = "absolute"
    BY <1>1, <2>1 DEF After, Target, Alike
  <2>2. CASE LocationOf(u).kind # "absolute"
    BY <1>1, <2>2 DEF After, Target, Alike, Url, Page
  <2>3. QED
    BY <2>1, <2>2
<1>4. QED
  BY <1>2, <1>3

(* s is the way of n redirects from the URL at the start.                  *)
Walk(s, n) ==
  /\ n \in Nat
  /\ s \in [0 .. n -> Url]
  /\ s[0] = first.url
  /\ \A i \in 0 .. n - 1 : IsRedirect(s[i]) /\ s[i + 1] = After(s[i])

(* A way that ends at no redirect comes to no page twice: from the second  *)
(* time on it would repeat itself and never end.                           *)
LEMMA NeverTwice ==
  ASSUME SiteOK, NEW n, NEW s, Walk(s, n), ~IsRedirect(s[n]),
         NEW i \in 0 .. n - 1, NEW j \in 0 .. n - 1, i < j
  PROVE  Page(s[i]) # Page(s[j])
<1> SUFFICES ASSUME Page(s[i]) = Page(s[j]) PROVE FALSE
  OBVIOUS
<1>1. n \in Nat /\ \A k \in 0 .. n : s[k] \in Url
  BY DEF Walk
<1> DEFINE Bad == {k \in 0 .. n - j : ~Alike(s[i + k], s[j + k])}
<1>2. Alike(s[i], s[j])
  BY DEF Walk, Alike, IsRedirect
<1>3. Bad = {}
  <2> SUFFICES ASSUME Bad # {} PROVE FALSE
    OBVIOUS
  <2>1. PICK k \in Bad : \A m \in Bad : k <= m
    <3>1. Bad \in SUBSET Nat
      BY <1>1
    <3> HIDE DEF Bad
    <3>2. QED
      BY <3>1, LeastNatural
  <2>2. k \in 0 .. n - j /\ ~Alike(s[i + k], s[j + k])
    OBVIOUS
  <2>3. k # 0
    <3> SUFFICES ASSUME k = 0 PROVE FALSE
      OBVIOUS
    <3>1. i + k = i /\ j + k = j
      BY <1>1
    <3>2. QED
      BY <1>2, <2>2, <3>1
  <2>4. k - 1 \in 0 .. n - j /\ ~(k <= k - 1)
    BY <1>1, <2>2, <2>3
  <2>5. Alike(s[i + (k - 1)], s[j + (k - 1)])
    <3>1. k - 1 \notin Bad
      <4> HIDE DEF Bad
      <4>1. QED
        BY <2>1, <2>4
    <3>2. QED
      BY <2>4, <3>1
  <2>6. /\ i + (k - 1) \in 0 .. n - 1 /\ i + k = (i + (k - 1)) + 1
        /\ j + (k - 1) \in 0 .. n - 1 /\ j + k = (j + (k - 1)) + 1
    BY <1>1, <2>2, <2>3
  <2>7. /\ s[i + k] = After(s[i + (k - 1)]) /\ IsRedirect(s[i + (k - 1)])
        /\ s[j + k] = After(s[j + (k - 1)])
        /\ s[i + (k - 1)] \in Url /\ s[j + (k - 1)] \in Url
    BY <1>1, <2>6 DEF Walk
  <2>8. Alike(s[i + k], s[j + k])
    BY <2>5, <2>7, AlikeLead
  <2>9. QED
    BY <2>2, <2>8
<1>4. Alike(s[i + (n - j)], s[n])
  <2>1. n - j \in 0 .. n - j /\ j + (n - j) = n
    BY <1>1
  <2>2. QED
    BY <1>3, <2>1
<1>5. i + (n - j) \in 0 .. n - 1 /\ i + (n - j) \in 0 .. n /\ n \in 0 .. n
  BY <1>1
<1>6. IsRedirect(s[i + (n - j)]) /\ s[i + (n - j)] \in Url /\ s[n] \in Url
  BY <1>1, <1>5 DEF Walk
<1>7. QED
  BY <1>4, <1>6, AlikeLead

(* Therefore it has no more redirects than there are pages,                *)
LEMMA WalkIsShort ==
  ASSUME SiteOK, NEW n, NEW s, Walk(s, n), ~IsRedirect(s[n])
  PROVE  n \in Nat /\ Cardinality(Pages) \in Nat /\ n <= Cardinality(Pages)
<1>1. n \in Nat /\ \A k \in 0 .. n - 1 : s[k] \in Url /\ IsRedirect(s[k])
  BY DEF Walk
<1> DEFINE f == [k \in 0 .. n - 1 |-> Page(s[k])]
<1>2. \A k \in 0 .. n - 1 : Page(s[k]) \in Pages
  BY <1>1, RedirectLeads
<1>3. \A i, j \in 0 .. n - 1 : Page(s[i]) = Page(s[j]) => i = j
  <2> SUFFICES ASSUME NEW i \in 0 .. n - 1, NEW j \in 0 .. n - 1,
                      Page(s[i]) = Page(s[j]), i # j
               PROVE  FALSE
    OBVIOUS
  <2>1. i < j \/ j < i
    OBVIOUS
  <2>2. QED
    BY <2>1, NeverTwice
<1>4. f \in Injection(0 .. n - 1, Pages)
  BY <1>2, <1>3 DEF Injection, IsInjective
<1> HIDE DEF f
<1>5. Cardinality(0 .. n - 1) <= Cardinality(Pages)
  BY <1>4, FS_Injection, PagesAssumption
<1>6. Cardinality(0 .. n - 1) = n
  BY <1>1, FS_Interval
<1>7. Cardinality(Pages) \in Nat
  BY FS_CardinalityType, PagesAssumption
<1>8. QED
  BY <1>1, <1>5, <1>6, <1>7

(* and Chain, which has one element more than there are pages, is the way  *)
(* and then its end, again and again.                                      *)
LEMMA ChainIsWalk ==
  ASSUME SiteOK, NEW n, NEW s, Walk(s, n), ~IsRedirect(s[n])
  PROVE  /\ DOMAIN Chain = 0 .. Cardinality(Pages)
         /\ \A k \in 0 .. Cardinality(Pages) : Chain[k] = s[IF k < n THEN k ELSE n]
<1> DEFINE N == Cardinality(Pages)
           Goes(c) ==
             c = [k \in 0 .. N |->
                    IF k = 0 THEN first.url
                    ELSE IF IsRedirect(c[k - 1])
                           THEN Target(c[k - 1],
                                       Meant(Says(Page(c[k - 1])).lines, "Location"))
                           ELSE c[k - 1]]
           w == [k \in 0 .. N |-> s[IF k < n THEN k ELSE n]]
<1>1. n \in Nat /\ N \in Nat /\ n <= N
  BY WalkIsShort
<1> HIDE DEF N
<1>2. ASSUME NEW k \in 0 .. N
      PROVE  w[k] = IF k = 0 THEN first.url
                    ELSE IF IsRedirect(w[k - 1]) THEN After(w[k - 1]) ELSE w[k - 1]
  <2>1. CASE k = 0
    BY <1>1, <2>1 DEF Walk
  <2>2. CASE k # 0 /\ k <= n
    <3>1. k - 1 \in 0 .. n - 1 /\ k - 1 \in 0 .. N /\ (k - 1) + 1 = k
      BY <1>1, <2>2
    <3>2. w[k - 1] = s[k - 1] /\ w[k] = s[k]
      BY <1>1, <2>2, <3>1
    <3> HIDE DEF w
    <3>3. QED
      BY <2>2, <3>1, <3>2 DEF Walk
  <2>3. CASE k > n
    <3>1. k - 1 \in 0 .. N /\ k # 0 /\ ~(k < n) /\ ~(k - 1 < n)
      BY <1>1, <2>3
    <3>2. w[k - 1] = s[n] /\ w[k] = s[n]
      BY <3>1
    <3> HIDE DEF w
    <3>3. QED
      BY <3>1, <3>2
  <2>4. QED
    BY <1>1, <2>1, <2>2, <2>3
<1>3. w = [k \in 0 .. N |-> w[k]]
  OBVIOUS
<1> HIDE DEF w
<1>4. Goes(w)
  BY <1>2, <1>3 DEF After, LocationOf
<1>5. Chain = CHOOSE c : Goes(c)
  BY DEF Chain, N
<1>6. Goes(Chain)
  BY <1>4, <1>5
<1>7. /\ DOMAIN Chain = 0 .. N
      /\ \A k \in 0 .. N :
           Chain[k] = IF k = 0 THEN first.url
                      ELSE IF IsRedirect(Chain[k - 1]) THEN After(Chain[k - 1])
                                                       ELSE Chain[k - 1]
  BY <1>6 DEF After, LocationOf
<1> HIDE DEF Goes
<1>8. \A k \in 0 .. N : Chain[k] = w[k]
  <2> DEFINE Bad == {k \in 0 .. N : Chain[k] # w[k]}
  <2> SUFFICES ASSUME Bad # {} PROVE FALSE
    OBVIOUS
  <2>1. PICK k \in Bad : \A m \in Bad : k <= m
    <3>1. Bad \in SUBSET Nat
      BY <1>1
    <3> HIDE DEF Bad
    <3>2. QED
      BY <3>1, LeastNatural
  <2>2. k \in 0 .. N /\ Chain[k] # w[k]
    OBVIOUS
  <2>3. k # 0
    BY <1>2, <1>7, <2>2
  <2>4. k - 1 \in 0 .. N /\ ~(k <= k - 1)
    BY <1>1, <2>2, <2>3
  <2>5. Chain[k - 1] = w[k - 1]
    <3>1. k - 1 \notin Bad
      <4> HIDE DEF Bad
      <4>1. QED
        BY <2>1, <2>4
    <3>2. QED
      BY <2>4, <3>1
  <2>6. QED
    BY <1>2, <1>7, <2>2, <2>3, <2>5
<1>9. \A k \in 0 .. N : w[k] = s[IF k < n THEN k ELSE n]
  BY DEF w
<1>10. QED
  BY <1>7, <1>8, <1>9 DEF N

(***************************************************************************)
(* The inductive invariant.                                                *)
(***************************************************************************)

(* o is what the user gave or, without it, the first value that is there   *)
(* among the first m of f; None without any.                               *)
FirstIn(f, m, user, o) ==
  \/ user # None /\ o = user
  \/ /\ user = None
     /\ \E k \in 0 .. m - 1 : /\ f[k] # None /\ o = f[k]
                              /\ \A j \in 0 .. k - 1 : f[j] = None
  \/ /\ user = None /\ o = None
     /\ \A k \in 0 .. m - 1 : f[k] = None

(* A value that is taken only when there is none yet is the first.         *)
LEMMA FirstGoesOn ==
  ASSUME NEW m \in Nat, NEW f, NEW user, NEW o, FirstIn(f, m, user, o)
  PROVE  FirstIn(f, m + 1, user, IF o = None THEN f[m] ELSE o)
<1>1. CASE user # None
  BY <1>1 DEF FirstIn
<1>2. CASE user = None /\ o # None
  <2>1. PICK k \in 0 .. m - 1 : /\ f[k] # None /\ o = f[k]
                                /\ \A j \in 0 .. k - 1 : f[j] = None
    BY <1>2 DEF FirstIn
  <2>2. k \in 0 .. (m + 1) - 1
    OBVIOUS
  <2>3. QED
    BY <1>2, <2>1, <2>2 DEF FirstIn
<1>3. CASE user = None /\ o = None
  <2>1. \A k \in 0 .. m - 1 : f[k] = None
    BY <1>3 DEF FirstIn
  <2>2. m \in 0 .. (m + 1) - 1
    OBVIOUS
  <2>3. CASE f[m] # None
    BY <1>3, <2>1, <2>2, <2>3 DEF FirstIn
  <2>4. CASE f[m] = None
    <3>1. \A k \in 0 .. (m + 1) - 1 : k \in 0 .. m - 1 \/ k = m
      OBVIOUS
    <3>2. QED
      BY <1>3, <2>1, <2>4, <3>1 DEF FirstIn
  <2>5. QED
    BY <2>3, <2>4
<1>4. QED
  BY <1>1, <1>2, <1>3

(* Only the first m values matter.                                         *)
LEMMA FirstAgrees ==
  ASSUME NEW m \in Nat, NEW f, NEW g, NEW user, NEW o, FirstIn(f, m, user, o),
         \A k \in 0 .. m - 1 : f[k] = g[k]
  PROVE  FirstIn(g, m, user, o)
<1>1. \A k \in 0 .. m - 1 : \A j \in 0 .. k - 1 : j \in 0 .. m - 1
  OBVIOUS
<1>2. QED
  BY <1>1 DEF FirstIn

(* The name a page gives the file, the name and the cookie after m pages.  *)
NameAt(u) == IF u.path = "" THEN None ELSE u.path

NamedFirst(s, m, o) ==
  FirstIn([k \in Nat |-> NameAt(s[k])], m, first.output, o)

CarriedFirst(s, m, c) ==
  FirstIn([k \in Nat |-> CookieOf(s[k])], m, first.cookie, c)

(* The way so far: output is set before a page is asked, the cookie after  *)
(* the answer, so that a request carries the cookies of the pages before   *)
(* it.                                                                     *)
Past(s, n) ==
  /\ Walk(s, n)
  /\ url = s[n]
  /\ pc = "ask" => NamedFirst(s, n, output)
  /\ pc \in {"connect", "analyse", "open"} => NamedFirst(s, n + 1, output)
  /\ pc \in {"download", "saved"} =>
       \E o : NamedFirst(s, n + 1, o) /\ file = IF o = None THEN "temporary" ELSE o
  /\ pc \in {"ask", "connect", "analyse"} => CarriedFirst(s, n, cookie)
  /\ pc \in {"connect", "analyse", "open", "download", "saved"} =>
       CarriedFirst(s, n, request.cookie)

(* The requests there are, and the types of what is given.                 *)
Requests ==
  [method : {"HEAD", "GET"}, host : Hosts, path : Paths, cookie : CookiesSent]

FirstOK == first \in [url : Url, output : Outputs, cookie : Cookies]

(* Address and request are those of the URL being dealt with, from the     *)
(* moment they are made (cld.cpp:60) until url is changed.                 *)
Asked ==
  pc \in {"connect", "analyse", "open", "download", "saved"} =>
    /\ request \in Requests
    /\ address = url.host
    /\ <<request.host, request.path>> = Page(url)
    /\ pc \in {"download", "saved"} => request.method = "GET"

(* So is the answer.                                                       *)
Answered ==
  pc \in {"analyse", "open", "download", "saved"} =>
    /\ url.scheme \in {"http", "https"}
    /\ WellFormed(Says(Page(url)).lines)
    /\ response = [status  |-> Says(Page(url)).status,
                   headers |-> Headers(Says(Page(url)).lines)]

(* The file is opened, and the loop left, only for a page that is there.   *)
Opened ==
  /\ pc \in {"open", "download", "saved"} => IsOk(Says(Page(url)).status)
  /\ file # None =>
       IsOk(Says(Page(url)).status) /\ pc \in {"download", "saved", "thrown"}

(* The inductive invariant.  Chain and the sets made of it look at the     *)
(* whole way, the variables at where Cld() is; the way so far joins the    *)
(* two.                                                                    *)
CldInv ==
  /\ CldTypeOK /\ SiteOK /\ FirstOK
  /\ Asked /\ Answered /\ Opened
  /\ \E n, s : Past(s, n)

(* Cld() has gone nowhere when it starts.                                  *)
LEMMA InitCld == Init => CldInv
<1> SUFFICES ASSUME Init PROVE CldInv
  OBVIOUS
<1>1. SiteOK /\ FirstOK
  BY DEF Init, SiteOK, FirstOK
<1>2. CldTypeOK
  <2>1. first.url \in Url /\ first.output \in Outputs /\ first.cookie \in Cookies
    BY <1>1 DEF FirstOK
  <2>2. Connections \in Nat
    BY ConnectionsAssumption
  <2> HIDE DEF Url
  <2>3. QED
    BY <2>1, <2>2 DEF Init, CldTypeOK, CookiesSent
<1>3. Asked /\ Answered /\ Opened
  BY DEF Init, Asked, Answered, Opened
<1> DEFINE s == [k \in 0 .. 0 |-> first.url]
<1>4. Past(s, 0)
  <2>1. Walk(s, 0) /\ url = s[0]
    BY <1>1 DEF Walk, Init, FirstOK
  <2> HIDE DEF s
  <2>2. NamedFirst(s, 0, output)
    BY DEF Init, NamedFirst, FirstIn
  <2>3. CarriedFirst(s, 0, cookie)
    BY DEF Init, CarriedFirst, FirstIn
  <2>4. QED
    BY <2>1, <2>2, <2>3 DEF Past, Init
<1>5. QED
  BY <1>1, <1>2, <1>3, <1>4 DEF CldInv

(* What is said of the servers and the start stays true, since neither     *)
(* changes.                                                                *)
LEMMA SameSite ==
  given' = given =>
    /\ SiteOK' = SiteOK /\ FirstOK' = FirstOK /\ CookiesSent' = CookiesSent
    /\ \A page : Says(page)' = Says(page)
    /\ \A s, n : Walk(s, n) => Walk(s, n)'
    /\ \A s, n, o : NamedFirst(s, n, o) => NamedFirst(s, n, o)'
    /\ \A s, n, c : CarriedFirst(s, n, c) => CarriedFirst(s, n, c)'
<1> SUFFICES ASSUME given' = given
             PROVE  /\ SiteOK' = SiteOK /\ FirstOK' = FirstOK /\ CookiesSent' = CookiesSent
                    /\ \A page : Says(page)' = Says(page)
                    /\ \A s, n : Walk(s, n) => Walk(s, n)'
                    /\ \A s, n, o : NamedFirst(s, n, o) => NamedFirst(s, n, o)'
                    /\ \A s, n, c : CarriedFirst(s, n, c) => CarriedFirst(s, n, c)'
  OBVIOUS
<1>1. site' = site /\ first' = first
  BY DEF given
<1>2. SiteOK' = SiteOK /\ FirstOK' = FirstOK
  BY <1>1 DEF SiteOK, FirstOK
<1>3. CookiesSent' = CookiesSent /\ \A page : Says(page)' = Says(page)
  BY <1>1 DEF CookiesSent, Says
<1>4. \A s, n : Walk(s, n) => Walk(s, n)'
  BY <1>1 DEF Walk, IsRedirect, After, LocationOf, Says
<1>5. \A s, n, o : NamedFirst(s, n, o) => NamedFirst(s, n, o)'
  BY <1>1 DEF NamedFirst
<1>6. \A s, n, c : CarriedFirst(s, n, c) => CarriedFirst(s, n, c)'
  BY <1>1 DEF CarriedFirst, CookieOf, Says
<1>7. QED
  BY <1>2, <1>3, <1>4, <1>5, <1>6

(* The name is taken of the page when there is none (cld.cpp:42); the      *)
(* request carries the cookies so far.                                     *)
LEMMA AskKeeps == CldInv /\ Ask => CldInv'
<1> SUFFICES ASSUME CldInv, Ask PROVE CldInv'
  OBVIOUS
<1>1. given' = given /\ url' = url
  BY DEF Ask
<1>2. /\ SiteOK' = SiteOK /\ FirstOK' = FirstOK /\ CookiesSent' = CookiesSent
      /\ \A page : Says(page)' = Says(page)
  BY <1>1, SameSite
<1>3. /\ url \in Url /\ cookie \in CookiesSent
      /\ output \in Outputs \cup Paths \cup {None, "temporary"}
  BY DEF CldInv, CldTypeOK
<1>4. url.host \in Hosts /\ url.path \in Paths
  BY <1>3 DEF Url
<1>5. request' = [method |-> "HEAD", host |-> url.host, path |-> url.path, cookie |-> cookie]
  BY DEF Ask, Request
<1>6. request' \in Requests
  BY <1>3, <1>4, <1>5 DEF Requests
<1>7. CldTypeOK'
  <2>1. /\ response = None \/ DOMAIN response = {"status", "headers"}
        /\ file \in Outputs \cup Paths \cup {None, "temporary"}
        /\ workers \in 0 .. Connections
    BY DEF CldInv, CldTypeOK
  <2>2. output' \in Outputs \cup Paths \cup {None, "temporary"}
    BY <1>3, <1>4 DEF Ask
  <2>3. /\ address' \in Hosts \cup {None} /\ pc' = "connect"
        /\ cookie' = cookie /\ response' = response /\ file' = file /\ workers' = workers
    BY <1>4 DEF Ask
  <2>4. QED
    BY <1>1, <1>2, <1>3, <1>6, <2>1, <2>2, <2>3 DEF CldTypeOK, Requests
<1>8. Asked'
  <2>1. pc' = "connect" /\ address' = url'.host
    BY <1>1 DEF Ask
  <2>2. <<request'.host, request'.path>> = Page(url)
    BY <1>5 DEF Page
  <2>3. request' \in Requests'
    BY <1>2, <1>6 DEF Requests
  <2>4. QED
    BY <1>1, <2>1, <2>2, <2>3 DEF Asked, Page
<1>9. Answered' /\ Opened'
  BY <1>2 DEF CldInv, Ask, Answered, Opened
<1>10. PICK n, s : Past(s, n)
  BY DEF CldInv
<1>11. Past(s, n)'
  <2>1. n \in Nat /\ Walk(s, n) /\ url = s[n] /\ NamedFirst(s, n, output) /\ CarriedFirst(s, n, cookie)
    BY <1>10 DEF Past, Walk, Ask
  <2>2. output' = IF output = None THEN NameAt(s[n]) ELSE output
    BY <2>1 DEF Ask, NameAt
  <2>3. NamedFirst(s, n + 1, output')
    <3> DEFINE f == [k \in Nat |-> NameAt(s[k])]
    <3>1. FirstIn(f, n, first.output, output)
      BY <2>1 DEF NamedFirst
    <3>2. f[n] = NameAt(s[n])
      BY <2>1
    <3> HIDE DEF f
    <3>3. FirstIn(f, n + 1, first.output, IF output = None THEN f[n] ELSE output)
      BY <2>1, <3>1, FirstGoesOn
    <3>4. QED
      BY <2>2, <3>2, <3>3 DEF NamedFirst, f
  <2>4. request'.cookie = cookie /\ pc' = "connect" /\ cookie' = cookie
    <3>1. request'.cookie = cookie
      BY <1>5
    <3>2. pc' = "connect" /\ cookie' = cookie
      BY DEF Ask
    <3>3. QED
      BY <3>1, <3>2
  <2>5. Walk(s, n)'
    BY <1>1, <2>1, SameSite
  <2>6. NamedFirst(s, n + 1, output)'
    BY <1>1, <2>3, SameSite DEF NamedFirst, given
  <2>7. CarriedFirst(s, n, cookie)' /\ CarriedFirst(s, n, request.cookie)'
    BY <1>1, <2>1, <2>4, SameSite DEF CarriedFirst, given, CookieOf, Says
  <2>8. QED
    BY <1>1, <2>1, <2>4, <2>5, <2>6, <2>7 DEF Past
<1>12. QED
  BY <1>2, <1>7, <1>8, <1>9, <1>11 DEF CldInv

(* The answer is the one of the page asked for.                            *)
LEMMA ReceiveKeeps == CldInv /\ Receive => CldInv'
<1> SUFFICES ASSUME CldInv, Receive PROVE CldInv'
  OBVIOUS
<1>1. /\ given' = given /\ url' = url /\ output' = output /\ cookie' = cookie
      /\ address' = address /\ request' = request /\ file' = file
      /\ workers' = workers /\ pc = "connect" /\ pc' = "analyse"
  BY DEF Receive
<1>2. /\ SiteOK' = SiteOK /\ FirstOK' = FirstOK /\ CookiesSent' = CookiesSent
      /\ \A page : Says(page)' = Says(page)
  BY <1>1, SameSite
<1>3. request \in Requests /\ <<address, request.path>> = Page(url)
  BY <1>1 DEF CldInv, Asked, Page
<1>4. /\ url.scheme \in {"http", "https"}
      /\ WellFormed(Says(Page(url)).lines)
      /\ response' = [status  |-> Says(Page(url)).status,
                      headers |-> Headers(Says(Page(url)).lines)]
  BY <1>3 DEF Receive
<1>5. CldTypeOK'
  <2>1. CldTypeOK
    BY DEF CldInv
  <2>2. DOMAIN response' = {"status", "headers"}
    BY <1>4
  <2>3. QED
    BY <1>1, <1>2, <2>1, <2>2 DEF CldTypeOK
<1>6. Asked'
  <2>1. Requests' = Requests
    BY <1>2 DEF Requests
  <2>2. Asked
    BY DEF CldInv
  <2>3. QED
    BY <1>1, <2>1, <2>2 DEF Asked, Page
<1>7. Answered'
  <2>1. Page(url)' = Page(url) /\ Says(Page(url))' = Says(Page(url))
    BY <1>1, <1>2 DEF Page, Says, given
  <2>2. QED
    BY <1>1, <1>4, <2>1 DEF Answered
<1>8. Opened'
  BY <1>1 DEF CldInv, Opened
<1>9. PICK n, s : Past(s, n)
  BY DEF CldInv
<1>10. Past(s, n)'
  <2>1. /\ Walk(s, n) /\ url = s[n] /\ NamedFirst(s, n + 1, output)
        /\ CarriedFirst(s, n, cookie) /\ CarriedFirst(s, n, request.cookie)
    BY <1>1, <1>9 DEF Past
  <2>2. Walk(s, n)'
    BY <1>1, <2>1, SameSite
  <2>3. NamedFirst(s, n + 1, output)'
    BY <1>1, <2>1 DEF NamedFirst, given
  <2>4. CarriedFirst(s, n, cookie)' /\ CarriedFirst(s, n, request.cookie)'
    BY <1>1, <2>1 DEF CarriedFirst, given, CookieOf, Says
  <2>5. QED
    BY <1>1, <2>1, <2>2, <2>3, <2>4 DEF Past
<1>11. QED
  BY <1>2, <1>5, <1>6, <1>7, <1>8, <1>10 DEF CldInv

(* An exception changes nothing.                                           *)
LEMMA ThrowKeeps == CldInv /\ Throw => CldInv'
<1> SUFFICES ASSUME CldInv, Throw PROVE CldInv'
  OBVIOUS
<1>1. /\ given' = given /\ url' = url /\ output' = output /\ cookie' = cookie
      /\ address' = address /\ request' = request /\ response' = response
      /\ file' = file /\ workers' = workers /\ pc' = "thrown"
  BY DEF Throw
<1>2. /\ SiteOK' = SiteOK /\ FirstOK' = FirstOK /\ CookiesSent' = CookiesSent
  BY <1>1, SameSite
<1>3. CldTypeOK'
  BY <1>1, <1>2 DEF CldInv, CldTypeOK
<1>4. Asked' /\ Answered'
  BY <1>1 DEF Asked, Answered
<1>5. Opened'
  BY <1>1 DEF CldInv, Opened, Says, Page, given
<1>6. PICK n, s : Past(s, n)
  BY DEF CldInv
<1>7. Past(s, n)'
  <2>1. Walk(s, n)' /\ url = s[n]
    BY <1>1, <1>6, SameSite DEF Past
  <2>2. QED
    BY <1>1, <2>1 DEF Past
<1>8. QED
  BY <1>2, <1>3, <1>4, <1>5, <1>7 DEF CldInv

(* The header looked up is the one the page gave.                          *)
LEMMA HeaderIsMeant ==
  ASSUME CldInv, pc = "analyse", NEW name
  PROVE  Header(name) = Meant(Says(Page(url)).lines, name)
<1>1. /\ WellFormed(Says(Page(url)).lines)
      /\ response.headers = Headers(Says(Page(url)).lines)
  BY DEF CldInv, Answered
<1>2. Says(Page(url)).lines \in Seq(Line)
  BY SaysAnswer DEF CldInv, Answer
<1>3. QED
  BY <1>1, <1>2, HeadersAreMeant DEF Header

(* The cookie is taken of the answer when there is none (cld.cpp:111).     *)
LEMMA CookieKept ==
  ASSUME CldInv, pc = "analyse", SetCookie, Says(Page(url)).status # 404
  PROVE  /\ cookie' = IF cookie = None THEN CookieOf(url) ELSE cookie
         /\ cookie' \in CookiesSent
<1>1. Header("Set-Cookie") = CookieOf(url)
  BY HeaderIsMeant DEF CookieOf
<1>2. Page(url) \in Pages
  BY DEF Says, Nothing
<1>3. CookieOf(url) \in CookiesSent
  BY <1>2 DEF CookiesSent, CookieOf
<1>4. cookie \in CookiesSent
  BY DEF CldInv, CldTypeOK
<1>5. QED
  BY <1>1, <1>3, <1>4 DEF SetCookie

(* The page found is there.                                                *)
LEMMA FoundKeeps == CldInv /\ Found => CldInv'
<1> SUFFICES ASSUME CldInv, Found PROVE CldInv'
  OBVIOUS
<1>1. /\ given' = given /\ url' = url /\ output' = output
      /\ address' = address /\ request' = request /\ response' = response
      /\ file' = file /\ workers' = workers /\ pc = "analyse" /\ pc' = "open"
      /\ IsOk(response.status) /\ SetCookie
  BY DEF Found
<1>2. /\ SiteOK' = SiteOK /\ FirstOK' = FirstOK /\ CookiesSent' = CookiesSent
      /\ \A page : Says(page)' = Says(page)
  BY <1>1, SameSite
<1>3. Answered /\ response.status = Says(Page(url)).status
  BY <1>1 DEF CldInv, Answered
<1>4. IsOk(Says(Page(url)).status) /\ Says(Page(url)).status # 404
  BY <1>1, <1>3 DEF IsOk
<1>5. cookie' \in CookiesSent
  BY <1>1, <1>4, CookieKept
<1>6. CldTypeOK'
  <2>1. CldTypeOK
    BY DEF CldInv
  <2>2. QED
    BY <1>1, <1>2, <1>5, <2>1 DEF CldTypeOK
<1>7. Asked'
  <2>1. Requests' = Requests
    BY <1>2 DEF Requests
  <2>2. Asked
    BY DEF CldInv
  <2>3. QED
    BY <1>1, <2>1, <2>2 DEF Asked, Page
<1>8. Page(url)' = Page(url) /\ Says(Page(url))' = Says(Page(url))
  BY <1>1, <1>2 DEF Page, Says, given
<1>9. Answered'
  BY <1>1, <1>3, <1>8 DEF Answered
<1>10. Opened'
  BY <1>1, <1>4, <1>8 DEF Opened, CldInv
<1>11. PICK n, s : Past(s, n)
  BY DEF CldInv
<1>12. Past(s, n)'
  <2>1. /\ Walk(s, n) /\ url = s[n] /\ NamedFirst(s, n + 1, output)
        /\ CarriedFirst(s, n, request.cookie)
    BY <1>1, <1>11 DEF Past
  <2>2. Walk(s, n)'
    BY <1>1, <2>1, SameSite
  <2>3. NamedFirst(s, n + 1, output)'
    BY <1>1, <2>1 DEF NamedFirst, given
  <2>4. CarriedFirst(s, n, request.cookie)'
    BY <1>1, <2>1 DEF CarriedFirst, given, CookieOf, Says
  <2>5. QED
    BY <1>1, <2>1, <2>2, <2>3, <2>4 DEF Past
<1>13. QED
  BY <1>2, <1>6, <1>7, <1>9, <1>10, <1>12 DEF CldInv

(* The file is opened by the name found on the way.                        *)
LEMMA OpenFileKeeps == CldInv /\ OpenFile => CldInv'
<1> SUFFICES ASSUME CldInv, OpenFile PROVE CldInv'
  OBVIOUS
<1>1. /\ given' = given /\ url' = url /\ cookie' = cookie
      /\ address' = address /\ response' = response
      /\ pc = "open" /\ pc' = "download"
      /\ output' = IF output = None THEN "temporary" ELSE output
      /\ file' = output'
      /\ request' = [request EXCEPT !.method = "GET"]
  BY DEF OpenFile
<1>2. /\ SiteOK' = SiteOK /\ FirstOK' = FirstOK /\ CookiesSent' = CookiesSent
      /\ \A page : Says(page)' = Says(page)
  BY <1>1, SameSite
<1>3. /\ request \in Requests /\ address = url.host
      /\ <<request.host, request.path>> = Page(url)
  BY <1>1 DEF CldInv, Asked
<1>4. /\ request' \in Requests /\ request'.method = "GET"
      /\ request'.host = request.host /\ request'.path = request.path
      /\ request'.cookie = request.cookie
  BY <1>1, <1>3 DEF Requests
<1>5. CldTypeOK'
  <2>1. CldTypeOK
    BY DEF CldInv
  <2>2. /\ output' \in Outputs \cup Paths \cup {None, "temporary"}
        /\ file' \in Outputs \cup Paths \cup {None, "temporary"}
    BY <1>1, <2>1 DEF CldTypeOK
  <2>3. workers' \in 0 .. Connections
    BY ConnectionsAssumption DEF OpenFile
  <2>4. QED
    BY <1>1, <1>2, <1>4, <2>1, <2>2, <2>3 DEF CldTypeOK, Requests
<1>6. Asked'
  <2>1. Requests' = Requests /\ Page(url)' = Page(url)
    BY <1>1, <1>2 DEF Requests, Page
  <2>2. QED
    BY <1>1, <1>3, <1>4, <2>1 DEF Asked
<1>7. Page(url)' = Page(url) /\ Says(Page(url))' = Says(Page(url))
  BY <1>1, <1>2 DEF Page, Says, given
<1>8. Answered'
  BY <1>1, <1>7 DEF Answered, CldInv
<1>9. Opened'
  BY <1>1, <1>7 DEF Opened, CldInv
<1>10. PICK n, s : Past(s, n)
  BY DEF CldInv
<1>11. Past(s, n)'
  <2>1. /\ Walk(s, n) /\ url = s[n] /\ NamedFirst(s, n + 1, output)
        /\ CarriedFirst(s, n, request.cookie)
    BY <1>1, <1>10 DEF Past
  <2>2. Walk(s, n)'
    BY <1>1, <2>1, SameSite
  <2>3. PICK name : name = output
    OBVIOUS
  <2>4. NamedFirst(s, n + 1, name)' /\ file' = IF name = None THEN "temporary" ELSE name
    BY <1>1, <2>1, <2>3 DEF NamedFirst, given
  <2>5. CarriedFirst(s, n, request.cookie)'
    BY <1>1, <1>4, <2>1 DEF CarriedFirst, given, CookieOf, Says
  <2>6. QED
    BY <1>1, <2>1, <2>2, <2>4, <2>5 DEF Past
<1>12. QED
  BY <1>2, <1>5, <1>6, <1>8, <1>9, <1>11 DEF CldInv

(* A redirect makes the way longer by the URL it leads to.                 *)
LEMMA FollowKeeps == CldInv /\ Follow => CldInv'
<1> SUFFICES ASSUME CldInv, Follow PROVE CldInv'
  OBVIOUS
<1>1. /\ given' = given /\ output' = output
      /\ address' = address /\ request' = request /\ response' = response
      /\ file' = file /\ workers' = workers /\ pc = "analyse" /\ pc' = "ask"
      /\ Leads(response.status, Header("Location")) /\ SetCookie
      /\ url' = Target(url, Header("Location"))
  BY DEF Follow
<1>2. /\ SiteOK' = SiteOK /\ FirstOK' = FirstOK /\ CookiesSent' = CookiesSent
      /\ \A page : Says(page)' = Says(page)
  BY <1>1, SameSite
<1>3. /\ response.status = Says(Page(url)).status /\ url.scheme \in {"http", "https"}
      /\ WellFormed(Says(Page(url)).lines)
  BY <1>1 DEF CldInv, Answered
<1>4. Header("Location") = LocationOf(url)
  BY <1>1, HeaderIsMeant DEF LocationOf
<1>5. IsRedirect(url) /\ url' = After(url)
  BY <1>1, <1>3, <1>4 DEF IsRedirect, After, LocationOf
<1>6. url \in Url /\ SiteOK
  BY DEF CldInv, CldTypeOK
<1>7. url' \in Url
  BY <1>5, <1>6, RedirectLeads
<1>8. Says(Page(url)).status # 404
  BY <1>1, <1>3 DEF Leads, Redirects
<1>9. /\ cookie' = IF cookie = None THEN CookieOf(url) ELSE cookie
      /\ cookie' \in CookiesSent
  BY <1>1, <1>8, CookieKept
<1>10. CldTypeOK'
  <2>1. CldTypeOK
    BY DEF CldInv
  <2> HIDE DEF Url
  <2>2. QED
    BY <1>1, <1>2, <1>7, <1>9, <2>1 DEF CldTypeOK
<1>11. Asked' /\ Answered'
  BY <1>1 DEF Asked, Answered
<1>12. Opened'
  BY <1>1 DEF Opened, CldInv
<1>13. PICK n, s : Past(s, n)
  BY DEF CldInv
<1>14. /\ Walk(s, n) /\ n \in Nat /\ s \in [0 .. n -> Url] /\ url = s[n]
       /\ NamedFirst(s, n + 1, output) /\ CarriedFirst(s, n, cookie)
  BY <1>1, <1>13 DEF Past, Walk
<1>15. PICK t : t = [i \in 0 .. n + 1 |-> IF i = n + 1 THEN url' ELSE s[i]]
  OBVIOUS
<1>16. \A i \in 0 .. n : i \in 0 .. n + 1 /\ i # n + 1 /\ t[i] = s[i]
  BY <1>14, <1>15
<1>17. t[n + 1] = url'
  BY <1>14, <1>15
<1>18. t \in [0 .. n + 1 -> Url]
  <2>1. ASSUME NEW i \in 0 .. n + 1 PROVE t[i] \in Url
    <3>1. CASE i = n + 1
      BY <1>7, <1>17, <3>1
    <3>2. CASE i # n + 1
      <4>1. i \in 0 .. n
        BY <1>14, <3>2
      <4>2. t[i] = s[i] /\ s[i] \in Url
        BY <1>14, <1>16, <4>1
      <4>3. QED
        BY <4>2
    <3>3. QED
      BY <3>1, <3>2
  <2>2. t = [i \in 0 .. n + 1 |-> t[i]]
    BY <1>15
  <2>3. QED
    BY <2>1, <2>2
<1>19. Walk(t, n + 1)
  <2>1. t[0] = first.url
    BY <1>14, <1>16 DEF Walk
  <2>2. ASSUME NEW i \in 0 .. (n + 1) - 1
        PROVE  IsRedirect(t[i]) /\ t[i + 1] = After(t[i])
    <3>1. CASE i = n
      BY <1>5, <1>14, <1>16, <1>17, <3>1
    <3>2. CASE i # n
      <4>1. i \in 0 .. n - 1 /\ i \in 0 .. n /\ i + 1 \in 0 .. n
        BY <1>14, <3>2
      <4>2. t[i] = s[i] /\ t[i + 1] = s[i + 1]
        BY <1>16, <4>1
      <4>3. QED
        BY <1>14, <4>1, <4>2 DEF Walk
    <3>3. QED
      BY <3>1, <3>2
  <2>3. n + 1 \in Nat
    BY <1>14
  <2>4. QED
    BY <1>18, <2>1, <2>2, <2>3 DEF Walk
<1>20. NamedFirst(t, n + 1, output')
  <2> DEFINE f == [k \in Nat |-> NameAt(s[k])]
             g == [k \in Nat |-> NameAt(t[k])]
  <2>1. FirstIn(f, n + 1, first.output, output)
    BY <1>14 DEF NamedFirst
  <2>2. \A k \in 0 .. (n + 1) - 1 : f[k] = g[k]
    <3> SUFFICES ASSUME NEW k \in 0 .. (n + 1) - 1 PROVE f[k] = g[k]
      OBVIOUS
    <3>1. k \in 0 .. n /\ k \in Nat
      BY <1>14
    <3>2. QED
      BY <1>16, <3>1
  <2>3. n + 1 \in Nat
    BY <1>14
  <2> HIDE DEF f, g
  <2>4. FirstIn(g, n + 1, first.output, output)
    BY <2>1, <2>2, <2>3, FirstAgrees
  <2>5. QED
    BY <1>1, <2>4 DEF NamedFirst, g
<1>21. CarriedFirst(t, n + 1, cookie')
  <2> DEFINE f == [k \in Nat |-> CookieOf(s[k])]
             g == [k \in Nat |-> CookieOf(t[k])]
  <2>1. FirstIn(f, n, first.cookie, cookie)
    BY <1>14 DEF CarriedFirst
  <2>2. f[n] = CookieOf(url)
    BY <1>14
  <2>3. \A k \in 0 .. (n + 1) - 1 : f[k] = g[k]
    <3> SUFFICES ASSUME NEW k \in 0 .. (n + 1) - 1 PROVE f[k] = g[k]
      OBVIOUS
    <3>1. k \in 0 .. n /\ k \in Nat
      BY <1>14
    <3>2. QED
      BY <1>16, <3>1
  <2>4. n + 1 \in Nat
    BY <1>14
  <2> HIDE DEF f, g
  <2>5. FirstIn(f, n + 1, first.cookie, IF cookie = None THEN f[n] ELSE cookie)
    BY <1>14, <2>1, FirstGoesOn
  <2>6. FirstIn(f, n + 1, first.cookie, cookie')
    BY <1>9, <2>2, <2>5
  <2>7. FirstIn(g, n + 1, first.cookie, cookie')
    BY <2>3, <2>4, <2>6, FirstAgrees
  <2>8. QED
    BY <2>7 DEF CarriedFirst, g
<1>22. Past(t, n + 1)'
  <2>1. Walk(t, n + 1)'
    BY <1>1, <1>19, SameSite
  <2>2. NamedFirst(t, n + 1, output)'
    BY <1>1, <1>20 DEF NamedFirst, given
  <2>3. CarriedFirst(t, n + 1, cookie)'
    BY <1>1, <1>21 DEF CarriedFirst, given, CookieOf, Says
  <2>4. QED
    BY <1>1, <1>17, <2>1, <2>2, <2>3 DEF Past
<1>23. QED
  BY <1>2, <1>6, <1>10, <1>11, <1>12, <1>22 DEF CldInv

(* The download changes nothing of this.                                   *)
LEMMA DownloadedKeeps == CldInv /\ Downloaded => CldInv'
<1> SUFFICES ASSUME CldInv, Downloaded PROVE CldInv'
  OBVIOUS
<1>1. /\ given' = given /\ url' = url /\ output' = output /\ cookie' = cookie
      /\ address' = address /\ request' = request /\ response' = response
      /\ file' = file /\ workers' = workers /\ pc = "download" /\ pc' = "saved"
  BY DEF Downloaded
<1>2. /\ SiteOK' = SiteOK /\ FirstOK' = FirstOK /\ CookiesSent' = CookiesSent
      /\ \A page : Says(page)' = Says(page)
  BY <1>1, SameSite
<1>3. CldTypeOK'
  BY <1>1, <1>2 DEF CldInv, CldTypeOK
<1>4. /\ Page(url)' = Page(url) /\ Says(Page(url))' = Says(Page(url))
      /\ Requests' = Requests
  BY <1>1, <1>2 DEF Page, Says, given, Requests
<1>5. Asked'
  BY <1>1, <1>4 DEF CldInv, Asked
<1>6. Answered' /\ Opened'
  BY <1>1, <1>4 DEF CldInv, Answered, Opened
<1>7. PICK n, s : Past(s, n)
  BY DEF CldInv
<1>8. PICK name : NamedFirst(s, n + 1, name) /\ file = IF name = None THEN "temporary" ELSE name
  BY <1>1, <1>7 DEF Past
<1>9. Past(s, n)'
  <2>1. Walk(s, n) /\ url = s[n] /\ CarriedFirst(s, n, request.cookie)
    BY <1>1, <1>7 DEF Past
  <2>2. Walk(s, n)'
    BY <1>1, <2>1, SameSite
  <2>3. NamedFirst(s, n + 1, name)'
    BY <1>1, <1>8 DEF NamedFirst, given
  <2>4. CarriedFirst(s, n, request.cookie)'
    BY <1>1, <2>1 DEF CarriedFirst, given, CookieOf, Says
  <2>5. QED
    BY <1>1, <1>8, <2>1, <2>2, <2>3, <2>4 DEF Past
<1>10. QED
  BY <1>2, <1>3, <1>5, <1>6, <1>9 DEF CldInv

(* Nor does a step of none of it.                                          *)
LEMMA StutterKeeps == CldInv /\ UNCHANGED vars => CldInv'
<1> SUFFICES ASSUME CldInv, UNCHANGED vars PROVE CldInv'
  OBVIOUS
<1>1. /\ given' = given /\ url' = url /\ output' = output /\ cookie' = cookie
      /\ address' = address /\ request' = request /\ response' = response
      /\ file' = file /\ workers' = workers /\ pc' = pc
  BY DEF vars
<1>2. /\ SiteOK' = SiteOK /\ FirstOK' = FirstOK /\ CookiesSent' = CookiesSent
      /\ \A page : Says(page)' = Says(page)
  BY <1>1, SameSite
<1>3. CldTypeOK'
  BY <1>1, <1>2 DEF CldInv, CldTypeOK
<1>4. /\ Page(url)' = Page(url) /\ Says(Page(url))' = Says(Page(url))
      /\ Requests' = Requests
  BY <1>1, <1>2 DEF Page, Says, given, Requests
<1>5. Asked'
  BY <1>1, <1>4 DEF CldInv, Asked
<1>6. Answered' /\ Opened'
  BY <1>1, <1>4 DEF CldInv, Answered, Opened
<1>7. PICK n, s : Past(s, n)
  BY DEF CldInv
<1>8. Past(s, n)'
  BY <1>1, <1>7 DEF Past, Walk, IsRedirect, After, LocationOf, Says, given,
                    NamedFirst, CarriedFirst, CookieOf
<1>9. QED
  BY <1>2, <1>3, <1>5, <1>6, <1>8 DEF CldInv

(* Every step keeps the invariant.                                         *)
LEMMA NextCld == CldInv /\ [Next]_vars => CldInv'
<1> SUFFICES ASSUME CldInv, [Next]_vars PROVE CldInv'
  OBVIOUS
<1>1. CASE Ask
  BY <1>1, AskKeeps
<1>2. CASE Receive
  BY <1>2, ReceiveKeeps
<1>3. CASE AskThrows \/ NotFound
  BY <1>3, ThrowKeeps DEF AskThrows, NotFound
<1>4. CASE Follow
  BY <1>4, FollowKeeps
<1>5. CASE Found
  BY <1>5, FoundKeeps
<1>6. CASE OpenFile
  BY <1>6, OpenFileKeeps
<1>7. CASE Downloaded
  BY <1>7, DownloadedKeeps
<1>8. CASE Ended \/ UNCHANGED vars
  BY <1>8, StutterKeeps DEF Ended
<1>9. QED
  BY <1>1, <1>2, <1>3, <1>4, <1>5, <1>6, <1>7, <1>8 DEF Next

(* The inductive invariant of Cld.                                         *)
LEMMA CldInvariant == Spec => []CldInv
BY InitCld, NextCld, PTL DEF Spec

(***************************************************************************)
(* What it implies.                                                        *)
(***************************************************************************)

(* The URL is one after any redirects, and the cookie one of the user or   *)
(* of a page (cld.cpp:33).                                                 *)
THEOREM CldTypeCorrect == Spec => []CldTypeOK
<1>1. CldInv => CldTypeOK
  BY DEF CldInv
<1>2. QED
  BY <1>1, CldInvariant, PTL

(* What Cld() looks up is what the page said, for every answer with any    *)
(* number of lines, in any order (http_response.cpp:54).                   *)
THEOREM HeadersAreRead == Spec => []ReadsEveryHeader
<1>1. CldInv => ReadsEveryHeader
  <2> SUFFICES ASSUME CldInv, pc = "analyse", NEW name
               PROVE  Header(name) = Meant(Says(<<address, request.path>>).lines, name)
    BY DEF ReadsEveryHeader
  <2>1. <<address, request.path>> = Page(url)
    BY DEF CldInv, Asked, Page
  <2>2. QED
    BY <2>1, HeaderIsMeant
<1>2. QED
  BY <1>1, CldInvariant, PTL

(* A page that is found is no redirect.                                    *)
LEMMA OkLeadsNowhere ==
  ASSUME NEW u, IsOk(Says(Page(u)).status)
  PROVE  ~IsRedirect(u)
BY DEF IsOk, IsRedirect, Leads, Redirects

(* At a page that is found the way ends.                                   *)
LEMMA LastIsHere ==
  ASSUME CldInv, IsOk(Says(Page(url)).status)
  PROVE  LastUrl = url
<1>1. PICK n, s : Past(s, n)
  BY DEF CldInv
<1>2. SiteOK /\ Walk(s, n) /\ url = s[n] /\ ~IsRedirect(s[n])
  BY <1>1, OkLeadsNowhere DEF Past, CldInv
<1>3. n \in Nat /\ Cardinality(Pages) \in Nat /\ n <= Cardinality(Pages)
  BY <1>2, WalkIsShort
<1>4. Chain[Cardinality(Pages)] = s[IF Cardinality(Pages) < n THEN Cardinality(Pages) ELSE n]
  <2>1. Cardinality(Pages) \in 0 .. Cardinality(Pages)
    BY <1>3
  <2>2. QED
    BY <1>2, <2>1, ChainIsWalk
<1>5. QED
  BY <1>2, <1>3, <1>4 DEF LastUrl

(* However many pages, servers and redirects there are, the page           *)
(* downloaded is the last of the chain, from its own address, with its own *)
(* headers (cld.cpp:134).                                                  *)
THEOREM LastPageIsDownloaded == Spec => []DownloadsLastPage
<1>1. CldInv => DownloadsLastPage
  <2> SUFFICES ASSUME CldInv, pc \in {"download", "saved"}
               PROVE  /\ url = LastUrl
                      /\ request.method = "GET"
                      /\ <<request.host, request.path>> = Page(LastUrl)
                      /\ address = LastUrl.host
                      /\ response.status = Says(Page(LastUrl)).status
                      /\ response.headers = Headers(Says(Page(LastUrl)).lines)
    BY DEF DownloadsLastPage
  <2>1. LastUrl = url
    BY LastIsHere DEF CldInv, Opened
  <2>2. QED
    BY <2>1 DEF CldInv, Asked, Answered
<1>2. QED
  BY <1>1, CldInvariant, PTL

(* No file is opened and truncated (cld.cpp:121) unless the page at the    *)
(* end is there.                                                           *)
THEOREM OpenedForAPage == Spec => []OpensOnlyForAPage
<1>1. CldInv => OpensOnlyForAPage
  BY LastIsHere DEF OpensOnlyForAPage, CldInv, Opened
<1>2. QED
  BY <1>1, CldInvariant, PTL

(* A least element is the least.                                           *)
LEMMA LeastIsChosen ==
  ASSUME NEW T \in SUBSET Int, NEW i \in T, \A j \in T : i <= j
  PROVE  (CHOOSE n \in T : \A m \in T : n <= m) = i
<1>1. \A j \in T : (\A k \in T : j <= k) => j = i
  OBVIOUS
<1>2. QED
  BY <1>1

(* During the download the way is all of Chain but the repetitions of its  *)
(* end.                                                                    *)
LEMMA HereIsTheEnd ==
  ASSUME CldInv, pc \in {"download", "saved"}, NEW n, NEW s, Past(s, n)
  PROVE  /\ n \in Nat /\ Walk(s, n) /\ ~IsRedirect(s[n])
         /\ Cardinality(Pages) \in Nat /\ n <= Cardinality(Pages)
         /\ DOMAIN Chain = 0 .. Cardinality(Pages)
         /\ \A k \in 0 .. n : Chain[k] = s[k]
         /\ \A k \in DOMAIN Chain : k > n => Chain[k] = s[n]
<1>1. SiteOK /\ Walk(s, n) /\ ~IsRedirect(s[n])
  BY OkLeadsNowhere DEF Past, CldInv, Opened
<1>2. n \in Nat /\ Cardinality(Pages) \in Nat /\ n <= Cardinality(Pages)
  BY <1>1, WalkIsShort
<1>3. /\ DOMAIN Chain = 0 .. Cardinality(Pages)
      /\ \A k \in 0 .. Cardinality(Pages) : Chain[k] = s[IF k < n THEN k ELSE n]
  BY <1>1, ChainIsWalk
<1>4. ASSUME NEW k \in 0 .. n
      PROVE  Chain[k] = s[k]
  <2>1. k \in 0 .. Cardinality(Pages) /\ (IF k < n THEN k ELSE n) = k
    BY <1>2
  <2>2. QED
    BY <1>3, <2>1
<1>5. ASSUME NEW k \in DOMAIN Chain, k > n
      PROVE  Chain[k] = s[n]
  <2>1. k \in 0 .. Cardinality(Pages)
    BY <1>3
  <2>2. (IF k < n THEN k ELSE n) = n
    BY <1>2, <1>5, <2>1
  <2>3. QED
    BY <1>3, <2>1, <2>2
<1>6. QED
  BY <1>1, <1>2, <1>3, <1>4, <1>5

(* The file has the name the user gave or that of the first page on the    *)
(* way that has one (cld.cpp:42).                                          *)
THEOREM FirstPageNames == Spec => []NamedByFirstPage
<1> DEFINE least == CHOOSE n \in Named : \A m \in Named : n <= m
<1>1. CldInv => NamedByFirstPage
  <2> SUFFICES ASSUME CldInv, pc \in {"download", "saved"}
               PROVE  file = CASE first.output # None -> first.output
                               [] first.output = None /\ Named # {} -> Chain[least].path
                               [] OTHER -> "temporary"
    BY DEF NamedByFirstPage
  <2>1. PICK n, s : Past(s, n)
    BY DEF CldInv
  <2>2. PICK name : /\ NamedFirst(s, n + 1, name)
                    /\ file = IF name = None THEN "temporary" ELSE name
    BY <2>1 DEF Past
  <2>3. /\ n \in Nat /\ Cardinality(Pages) \in Nat /\ n <= Cardinality(Pages)
        /\ DOMAIN Chain = 0 .. Cardinality(Pages)
        /\ \A k \in 0 .. n : Chain[k] = s[k]
        /\ \A k \in DOMAIN Chain : k > n => Chain[k] = s[n]
    BY <2>1, HereIsTheEnd
  <2>4. \A k \in 0 .. n : s[k].path \in Paths /\ s[k].path # None
    BY <2>1, NoneAssumption DEF Past, Walk, Url
  <2>5. \A k \in 0 .. n : k \in Nat /\ k \in 0 .. (n + 1) - 1
    BY <2>3
  <2> DEFINE f == [k \in Nat |-> NameAt(s[k])]
  <2>6. FirstIn(f, n + 1, first.output, name)
    BY <2>2 DEF NamedFirst
  <2>7. \A k \in 0 .. n : /\ f[k] = None <=> s[k].path = ""
                          /\ f[k] # None => f[k] = s[k].path
    BY <2>4, <2>5 DEF NameAt
  <2> HIDE DEF f
  <2>8. Named \in SUBSET Int /\ \A m \in Named : m \in Nat
    <3>1. Named \subseteq DOMAIN Chain
      BY DEF Named
    <3>2. DOMAIN Chain \subseteq Nat
      BY <2>3
    <3>3. QED
      BY <3>1, <3>2
  <2>9. CASE first.output # None
    <3>1. file = first.output
      BY <2>2, <2>6, <2>9 DEF FirstIn
    <3>2. QED
      BY <2>9, <3>1
  <2>10. CASE first.output = None /\ name # None
    <3>1. PICK k \in 0 .. (n + 1) - 1 : /\ f[k] # None /\ name = f[k]
                                        /\ \A j \in 0 .. k - 1 : f[j] = None
      BY <2>6, <2>10 DEF FirstIn
    <3>2. k \in 0 .. n /\ k \in DOMAIN Chain
      BY <2>3
    <3>3. Chain[k].path # "" /\ name = Chain[k].path
      BY <2>3, <2>7, <3>1, <3>2
    <3>4. k \in Named
      BY <3>2, <3>3 DEF Named
    <3>5. ASSUME NEW m \in Named, ~(k <= m)
          PROVE  FALSE
      <4>1. m \in 0 .. k - 1 /\ m \in 0 .. n
        BY <2>3, <2>8, <3>5
      <4>2. Chain[m].path = ""
        BY <2>3, <2>7, <3>1, <4>1
      <4>3. QED
        BY <4>2 DEF Named
    <3>6. least = k
      <4> HIDE DEF least
      <4>1. (CHOOSE i \in Named : \A m \in Named : i <= m) = k
        BY <2>8, <3>4, <3>5, LeastIsChosen
      <4>2. QED
        BY <4>1 DEF least
    <3>7. file = Chain[least].path
      BY <2>2, <2>10, <3>3, <3>6
    <3> HIDE DEF least
    <3>8. QED
      BY <2>10, <3>4, <3>7
  <2>11. CASE first.output = None /\ name = None
    <3>1. \A k \in 0 .. n : f[k] = None
      BY <2>5, <2>6, <2>11 DEF FirstIn
    <3>2. ASSUME NEW k \in DOMAIN Chain
          PROVE  Chain[k].path = ""
      <4>1. CASE k \in 0 .. n
        BY <2>3, <2>7, <3>1, <4>1
      <4>2. CASE k \notin 0 .. n
        <5>1. k > n /\ n \in 0 .. n
          BY <2>3, <4>2
        <5>2. QED
          BY <2>3, <2>7, <3>1, <5>1
      <4>3. QED
        BY <4>1, <4>2
    <3>3. Named = {}
      BY <3>2 DEF Named
    <3>4. file = "temporary"
      BY <2>2, <2>11
    <3> HIDE DEF least
    <3>5. QED
      BY <2>11, <3>3, <3>4
  <2>12. QED
    BY <2>9, <2>10, <2>11
<1>2. QED
  BY <1>1, CldInvariant, PTL

(* The request for the download carries the cookie of the user or the      *)
(* first one set on the way: addExtraHeader() (cld.cpp:111) replaces none, *)
(* and the cookie of the last page comes after the request is made.        *)
THEOREM FirstCookieCarried == Spec => []CarriesFirstCookie
<1> DEFINE least == CHOOSE n \in Setting : \A m \in Setting : n <= m
           value == Meant(Says(Page(Chain[least])).lines, "Set-Cookie")
<1>1. CldInv => CarriesFirstCookie
  <2> SUFFICES ASSUME CldInv, pc \in {"download", "saved"}
               PROVE  request.cookie =
                        CASE first.cookie # None -> first.cookie
                          [] first.cookie = None /\ Setting # {} -> value
                          [] OTHER -> None
    BY DEF CarriesFirstCookie
  <2>1. PICK n, s : Past(s, n)
    BY DEF CldInv
  <2>2. CarriedFirst(s, n, request.cookie)
    BY <2>1 DEF Past
  <2>3. /\ n \in Nat /\ Cardinality(Pages) \in Nat /\ n <= Cardinality(Pages)
        /\ DOMAIN Chain = 0 .. Cardinality(Pages)
        /\ \A k \in 0 .. n : Chain[k] = s[k]
        /\ \A k \in DOMAIN Chain : k > n => Chain[k] = s[n]
        /\ Walk(s, n) /\ ~IsRedirect(s[n])
    BY <2>1, HereIsTheEnd
  <2>4. \A k \in 0 .. n - 1 : k \in Nat /\ k \in 0 .. n /\ IsRedirect(s[k])
    BY <2>3 DEF Walk
  <2> DEFINE f == [k \in Nat |-> CookieOf(s[k])]
  <2>5. FirstIn(f, n, first.cookie, request.cookie)
    BY <2>2 DEF CarriedFirst
  <2>6. \A k \in 0 .. n - 1 : f[k] = CookieOf(s[k])
    BY <2>4
  <2> HIDE DEF f
  <2>7. ASSUME NEW k \in DOMAIN Chain
        PROVE  k \in Setting <=> k \in 0 .. n - 1 /\ f[k] # None
    <3>1. CASE k \in 0 .. n - 1
      BY <2>3, <2>4, <2>6, <3>1 DEF Setting, CookieOf
    <3>2. CASE k \notin 0 .. n - 1
      <4>1. k = n \/ k > n
        BY <2>3, <3>2
      <4>2. n \in 0 .. n
        BY <2>3
      <4>3. Chain[k] = s[n]
        BY <2>3, <4>1, <4>2
      <4>4. QED
        BY <2>3, <3>2, <4>3 DEF Setting
    <3>3. QED
      BY <3>1, <3>2
  <2>8. Setting \in SUBSET Int /\ Setting \subseteq DOMAIN Chain
    BY <2>3 DEF Setting
  <2>9. CASE first.cookie # None
    <3>1. request.cookie = first.cookie
      BY <2>5, <2>9 DEF FirstIn
    <3> HIDE DEF value
    <3>2. QED
      BY <2>9, <3>1
  <2>10. CASE first.cookie = None /\ request.cookie # None
    <3>1. PICK k \in 0 .. n - 1 : /\ f[k] # None /\ request.cookie = f[k]
                                  /\ \A j \in 0 .. k - 1 : f[j] = None
      BY <2>5, <2>10 DEF FirstIn
    <3>2. k \in DOMAIN Chain
      BY <2>3
    <3>3. k \in Setting
      BY <2>7, <3>1, <3>2
    <3>4. ASSUME NEW m \in Setting, ~(k <= m)
          PROVE  FALSE
      <4>1. m \in 0 .. n - 1 /\ f[m] # None
        BY <2>7, <2>8
      <4>2. m \in 0 .. k - 1
        BY <2>3, <3>4, <4>1
      <4>3. QED
        BY <3>1, <4>1, <4>2
    <3>5. least = k
      <4> HIDE DEF least
      <4>1. (CHOOSE i \in Setting : \A m \in Setting : i <= m) = k
        BY <2>8, <3>3, <3>4, LeastIsChosen
      <4>2. QED
        BY <4>1 DEF least
    <3> HIDE DEF least
    <3>6. value = CookieOf(s[k])
      BY <2>3, <2>4, <3>5 DEF CookieOf
    <3>7. request.cookie = value
      BY <2>6, <3>1, <3>6
    <3> HIDE DEF value
    <3>8. QED
      BY <2>10, <3>3, <3>7
  <2>11. CASE first.cookie = None /\ request.cookie = None
    <3>1. \A k \in 0 .. n - 1 : f[k] = None
      BY <2>5, <2>11 DEF FirstIn
    <3>2. Setting = {}
      BY <2>7, <2>8, <3>1
    <3> HIDE DEF value
    <3>3. QED
      BY <2>11, <3>2
  <2>12. QED
    BY <2>9, <2>10, <2>11
<1>2. QED
  BY <1>1, CldInvariant, PTL

=============================================================================
