-------------------------- MODULE AlgorithmsProofs --------------------------
(***************************************************************************)
(* fish's list stays a list of the nodes in use, for any pool, screen and  *)
(* structures; grep finds exactly the lines with the word, for any buffer, *)
(* text and word.                                                          *)
(***************************************************************************)
EXTENDS Algorithms, WellFoundedInduction, TLAPS

\* Every set of naturals that is not empty has a least element.  Stated of
\* sets, it serves as induction: a set of counterexamples has none.
LEMMA LeastElement ==
  ASSUME NEW T, T \subseteq Nat, T # {}
  PROVE  \E x \in T : \A y \in T : x <= y
<1>1. IsWellFoundedOn(OpToRel(<, Nat), Nat)
  BY NatLessThanWellFounded
<1>2. PICK x \in T : \A y \in T : ~(<<y, x>> \in OpToRel(<, Nat))
  BY <1>1, WFMin
<1>3. \A p, q \in Nat : p < q => <<p, q>> \in OpToRel(<, Nat)
  BY DEF OpToRel
<1>4. \A y \in T : ~(y < x)
  BY <1>2, <1>3, Zenon
<1> QED BY <1>4

\* A set of naturals up to n that is not empty has a greatest element.
LEMMA GreatestElement ==
  ASSUME NEW n \in Nat, NEW T, T \subseteq 0..n, T # {}
  PROVE  \E x \in T : \A y \in T : x >= y
<1> DEFINE U == {k \in 0..n : n - k \in T}
<1>1. U \subseteq Nat
  OBVIOUS
<1>2. U # {}
  <2>1. PICK x \in T : TRUE
    OBVIOUS
  <2>2. n - x \in 0..n /\ n - (n - x) = x
    OBVIOUS
  <2> QED BY <2>1, <2>2
<1>3. PICK k \in U : \A j \in U : k <= j
  BY <1>1, <1>2, LeastElement
<1>4. ASSUME NEW y \in T PROVE n - k >= y
  <2>1. n - y \in 0..n /\ n - (n - y) = y
    OBVIOUS
  <2>2. n - y \in U
    BY <2>1
  <2>3. k <= n - y
    BY <1>3, <2>2
  <2> QED BY <2>1, <2>3
<1>5. n - k \in T
  OBVIOUS
<1> QED BY <1>4, <1>5

\* Of m + 1 choices among m, two are the same.
LEMMA Pigeonhole ==
  ASSUME NEW m \in Nat, NEW g \in [0..m -> 1..m]
  PROVE  \E i, j \in 0..m : i # j /\ g[i] = g[j]
<1> DEFINE Injects(n, h) == \A i, j \in 0..n : i # j => h[i] # h[j]
           T == {n \in Nat : \E h \in [0..n -> 1..n] : Injects(n, h)}
<1>1. SUFFICES ASSUME m \in T PROVE FALSE
  OBVIOUS
<1>2. PICK n \in T : \A k \in T : n <= k
  <2>1. T \subseteq Nat
    OBVIOUS
  <2> HIDE DEF T
  <2> QED BY <1>1, <2>1, LeastElement
<1>3. PICK h \in [0..n -> 1..n] : Injects(n, h)
  OBVIOUS
<1>4. n \in Nat /\ n # 0
  OBVIOUS
<1> DEFINE e == [i \in 0..(n - 1) |-> IF h[i] = n THEN h[n] ELSE h[i]]
<1> HIDE DEF T, Injects
<1>5. ASSUME NEW i \in 0..n, NEW j \in 0..n, i # j
      PROVE  h[i] # h[j] /\ h[i] \in 1..n /\ h[j] \in 1..n
  BY <1>3, <1>5 DEF Injects
<1>6. ASSUME NEW a \in 1..n, NEW b \in 1..n, a # b
      PROVE  (IF a = n THEN b ELSE a) \in 1..(n - 1)
  <2>1. \A c \in 1..n : c # n => c \in 1..(n - 1)
    BY <1>4
  <2> QED BY <1>6, <2>1, Zenon
<1>7. e \in [0..(n - 1) -> 1..(n - 1)]
  <2>1. ASSUME NEW i \in 0..(n - 1) PROVE (IF h[i] = n THEN h[n] ELSE h[i]) \in 1..(n - 1)
    <3>1. i \in 0..n /\ n \in 0..n /\ i # n
      BY <1>4
    <3>2. h[i] \in 1..n /\ h[n] \in 1..n /\ h[i] # h[n]
      BY <1>5, <3>1
    <3> QED BY <1>6, <3>2
  <2> QED BY <2>1
<1>8. Injects(n - 1, e)
  <2> SUFFICES ASSUME NEW i \in 0..(n - 1), NEW j \in 0..(n - 1), i # j PROVE e[i] # e[j]
    BY DEF Injects
  <2>1. i \in 0..n /\ j \in 0..n /\ n \in 0..n /\ i # n /\ j # n
    BY <1>4
  <2>2. h[i] # h[j] /\ h[i] # h[n] /\ h[j] # h[n]
    BY <1>5, <2>1
  <2> QED BY <2>2
<1>9. n - 1 \in T
  <2>1. n - 1 \in Nat
    BY <1>4
  <2> HIDE DEF e
  <2>2. \E g1 \in [0..(n - 1) -> 1..(n - 1)] : Injects(n - 1, g1)
    BY <1>7, <1>8
  <2> DEFINE k == n - 1
  <2>3. k \in Nat /\ \E g1 \in [0..k -> 1..k] : Injects(k, g1)
    BY <2>1, <2>2
  <2> HIDE DEF k
  <2>4. k \in T
    BY <2>3 DEF T
  <2> QED BY <2>4 DEF k
<1> QED BY <1>2, <1>4, <1>9

-----------------------------------------------------------------------------
(* The list of blink.S. *)

Chars == {t.on_char : t \in Struct} \cup {t.off_char : t \in Struct} \cup {"0", BLANK}

Record ==
  [location : 0..(CELLS - 1), on_char : Chars, off_char : Chars, on_length : Nat,
   off_length : Nat, countdown : Int, status : {0, 1}, next : Node \cup {NULL}]

\* f[n] is the n-th node of the list that head and the NEXT fields make.
IsWalk(f, array, head) ==
  /\ f \in [0..POOL -> Node \cup {NULL}]
  /\ f[0] = head
  /\ \A n \in 1..POOL : f[n] = IF f[n - 1] = NULL THEN NULL ELSE array[f[n - 1]].next

\* The list ends, holds no node twice, and holds the nodes in use.
Intact(f, array) ==
  /\ f[POOL] = NULL
  /\ \A m, n \in 0..POOL : f[m] # NULL /\ f[m] = f[n] => m = n
  /\ \A i \in Node : array[i].location # 0 <=> \E n \in 0..POOL : f[n] = i

LEMMA Pool == POOL \in Nat /\ POOL > 0 /\ CELLS \in Nat /\ CELLS > 0 /\ NULL \notin Node
BY StructAssumption DEF NULL, Node

\* There is at most one walk, and Walk is it.
LEMMA WalkIs ==
  ASSUME NEW array, NEW head, NEW f, IsWalk(f, array, head)
  PROVE  Walk(array, head) = f
<1> DEFINE Rec(g) ==
      g = [n \in 0..POOL |-> IF n = 0 THEN head
                             ELSE IF g[n - 1] = NULL THEN NULL ELSE array[g[n - 1]].next]
<1>1. Rec(f)
  BY Pool DEF IsWalk
<1>2. Walk(array, head) = CHOOSE g : Rec(g)
  BY DEF Walk
<1> DEFINE w == CHOOSE g : Rec(g)
<1>3. Rec(w)
  <2> HIDE DEF Rec
  <2> QED BY <1>1
<1> HIDE DEF w
<1>4. ASSUME \E n \in 0..POOL : w[n] # f[n] PROVE FALSE
  <2> DEFINE T == {n \in 0..POOL : w[n] # f[n]}
  <2>1. T \subseteq Nat /\ T # {}
    BY <1>4
  <2>2. PICK n \in T : \A m \in T : n <= m
    BY <2>1, LeastElement
  <2>3. n # 0
    BY <1>1, <1>3, Pool
  <2>4. n - 1 \in 0..POOL /\ n - 1 \notin T
    BY <2>2, <2>3, Pool
  <2>5. w[n - 1] = f[n - 1]
    BY <2>4
  <2>6. /\ w[n] = IF w[n - 1] = NULL THEN NULL ELSE array[w[n - 1]].next
        /\ f[n] = IF f[n - 1] = NULL THEN NULL ELSE array[f[n - 1]].next
    <3>1. n \in 0..POOL
      OBVIOUS
    <3>2. w[n] = IF w[n - 1] = NULL THEN NULL ELSE array[w[n - 1]].next
      BY <1>3, <2>3, <3>1
    <3> QED BY <1>1, <2>3, <3>1, <3>2
  <2> QED BY <2>5, <2>6
<1>5. w = [n \in 0..POOL |-> w[n]] /\ f = [n \in 0..POOL |-> f[n]]
  <2>1. w = [n \in 0..POOL |-> w[n]]
    BY <1>3
  <2> QED BY <2>1 DEF IsWalk
<1> QED BY <1>2, <1>4, <1>5 DEF w

\* Behind the end of the list there is nothing.
LEMMA NoGap ==
  ASSUME NEW array, NEW head, NEW f, IsWalk(f, array, head),
         NEW n \in 0..POOL, NEW m \in 0..n, f[n] # NULL
  PROVE  f[m] # NULL
<1> DEFINE T == {k \in 0..n : f[n - k] = NULL}
<1>1. SUFFICES ASSUME f[m] = NULL PROVE FALSE
  OBVIOUS
<1>2. n - m \in T
  <2>1. n - m \in 0..n /\ n - (n - m) = m
    OBVIOUS
  <2> QED BY <1>1, <2>1
<1>3. PICK k \in T : \A j \in T : k <= j
  <2>1. T \subseteq Nat
    OBVIOUS
  <2> QED BY <1>2, <2>1, LeastElement
<1>4. k # 0
  BY <1>3
<1>5. k - 1 \in 0..n /\ k - 1 \notin T
  BY <1>3, <1>4
<1>6. f[n - (k - 1)] # NULL
  BY <1>5
<1>7. n - (k - 1) \in 1..POOL /\ n - (k - 1) - 1 = n - k
  BY <1>4, Pool
<1>8. f[n - (k - 1)] = IF f[n - k] = NULL THEN NULL ELSE array[f[n - k]].next
  BY <1>7 DEF IsWalk
<1> QED BY <1>6, <1>8

\* As long as a node is free the list is shorter than the pool.
LEMMA NotFull ==
  ASSUME NEW array, NEW head, NEW f, IsWalk(f, array, head), Intact(f, array),
         NEW free \in Node, array[free].location = 0
  PROVE  f[POOL - 1] = NULL
<1>1. SUFFICES ASSUME f[POOL - 1] # NULL PROVE FALSE
  OBVIOUS
<1> DEFINE g == [n \in 0..(POOL - 1) |-> IF f[n] = POOL THEN free ELSE f[n]]
<1>2. POOL \in Nat /\ POOL > 0 /\ POOL - 1 \in Nat
  BY Pool
<1>3. ASSUME NEW n \in 0..(POOL - 1) PROVE f[n] \in Node \ {free}
  <2>1. n \in 0..POOL /\ POOL - 1 \in 0..POOL /\ n \in 0..(POOL - 1)
    BY <1>2
  <2>2. f[n] # NULL
    BY <1>1, <2>1, NoGap
  <2>3. f[n] \in Node
    BY <2>1, <2>2 DEF IsWalk
  <2> QED BY <2>1, <2>3 DEF Intact
<1>4. g \in [0..(POOL - 1) -> 1..(POOL - 1)]
  BY <1>2, <1>3 DEF Node
<1>5. PICK x \in 0..(POOL - 1), y \in 0..(POOL - 1) : x # y /\ g[x] = g[y]
  <2> HIDE DEF g
  <2> QED BY <1>2, <1>4, Pigeonhole
<1>6. f[x] = f[y]
  BY <1>3, <1>5
<1>7. x \in 0..POOL /\ y \in 0..POOL
  BY <1>2
<1>8. f[x] # NULL
  BY <1>3, Pool
<1> QED BY <1>5, <1>6, <1>7, <1>8 DEF Intact

\* A new head in front of the list.
LEMMA AddWalk ==
  ASSUME NEW array \in [Node -> Record], NEW head, NEW f,
         IsWalk(f, array, head), Intact(f, array),
         NEW new \in Node, array[new].location = 0,
         NEW b \in Record, b.location # 0, b.next = head
  PROVE  LET array2 == [array EXCEPT ![new] = b]
             g == [n \in 0..POOL |-> IF n = 0 THEN new ELSE f[n - 1]]
         IN IsWalk(g, array2, new) /\ Intact(g, array2)
<1> DEFINE array2 == [array EXCEPT ![new] = b]
           g == [n \in 0..POOL |-> IF n = 0 THEN new ELSE f[n - 1]]
<1>1. POOL \in Nat /\ POOL > 0 /\ NULL \notin Node
  BY Pool
<1>2. array2[new] = b /\ \A i \in Node : i # new => array2[i] = array[i]
  OBVIOUS
<1>3. f[POOL - 1] = NULL
  BY NotFull
<1>4. \A n \in 0..POOL : f[n] # new
  BY DEF Intact
<1>5. \A n \in 0..POOL : n # 0 => n - 1 \in 0..POOL
  BY <1>1
<1>6. g \in [0..POOL -> Node \cup {NULL}]
  BY <1>5 DEF IsWalk
<1>7. g[0] = new /\ \A n \in 1..POOL : g[n] = f[n - 1]
  BY <1>1
<1> HIDE DEF array2, g
<1>8. ASSUME NEW n \in 1..POOL
      PROVE  g[n] = IF g[n - 1] = NULL THEN NULL ELSE array2[g[n - 1]].next
  <2>1. CASE n = 1
    <3>1. g[1] = head /\ g[n - 1] = new
      BY <1>1, <1>7, <2>1 DEF IsWalk
    <3> QED BY <1>1, <1>2, <2>1, <3>1
  <2>2. CASE n # 1
    <3>1. n - 1 \in 1..POOL /\ n - 1 \in 0..POOL /\ (n - 1) - 1 \in 0..POOL
      BY <1>1, <2>2
    <3>2. g[n] = f[n - 1] /\ g[n - 1] = f[(n - 1) - 1]
      BY <1>7, <3>1
    <3>3. f[n - 1] = IF f[(n - 1) - 1] = NULL THEN NULL ELSE array[f[(n - 1) - 1]].next
      BY <3>1 DEF IsWalk
    <3>4. f[(n - 1) - 1] # NULL =>
            f[(n - 1) - 1] \in Node /\ f[(n - 1) - 1] # new
      BY <1>4, <3>1 DEF IsWalk
    <3>5. f[(n - 1) - 1] # NULL => array2[f[(n - 1) - 1]] = array[f[(n - 1) - 1]]
      BY <1>2, <3>4
    <3> QED BY <3>2, <3>3, <3>5
  <2> QED BY <2>1, <2>2
<1>9. IsWalk(g, array2, new)
  BY <1>6, <1>7, <1>8 DEF IsWalk
<1>10. g[POOL] = NULL
  <2>1. POOL \in 1..POOL
    BY <1>1
  <2> QED BY <1>3, <1>7, <2>1
<1>11. ASSUME NEW m \in 0..POOL, NEW n \in 0..POOL, g[m] # NULL, g[m] = g[n]
       PROVE  m = n
  <2>1. CASE m = 0 /\ n # 0
    <3>1. n \in 1..POOL /\ n - 1 \in 0..POOL
      BY <1>1, <2>1
    <3> QED BY <1>4, <1>7, <1>11, <2>1, <3>1
  <2>2. CASE m # 0 /\ n = 0
    <3>1. m \in 1..POOL /\ m - 1 \in 0..POOL
      BY <1>1, <2>2
    <3> QED BY <1>4, <1>7, <1>11, <2>2, <3>1
  <2>3. CASE m # 0 /\ n # 0
    <3>1. m \in 1..POOL /\ m - 1 \in 0..POOL /\ n \in 1..POOL /\ n - 1 \in 0..POOL
      BY <1>1, <2>3
    <3>2. f[m - 1] # NULL /\ f[m - 1] = f[n - 1]
      BY <1>7, <1>11, <3>1
    <3>3. m - 1 = n - 1
      BY <3>1, <3>2 DEF Intact
    <3> QED BY <3>1, <3>3
  <2> QED BY <2>1, <2>2, <2>3
<1>12. ASSUME NEW i \in Node
       PROVE  array2[i].location # 0 <=> \E n \in 0..POOL : g[n] = i
  <2>1. CASE i = new
    <3>1. 0 \in 0..POOL
      BY <1>1
    <3> QED BY <1>2, <1>7, <2>1, <3>1
  <2>2. CASE i # new
    <3>1. ASSUME NEW n \in 0..POOL, g[n] = i PROVE array[i].location # 0
      <4>1. n \in 1..POOL /\ n - 1 \in 0..POOL
        BY <1>1, <1>7, <2>2, <3>1
      <4>2. f[n - 1] = i
        BY <1>7, <3>1, <4>1
      <4> QED BY <4>1, <4>2 DEF Intact
    <3>2. ASSUME array[i].location # 0 PROVE \E n \in 0..POOL : g[n] = i
      <4>1. PICK n \in 0..POOL : f[n] = i
        BY <3>2 DEF Intact
      <4>2. n # POOL
        BY <1>1, <4>1 DEF Intact
      <4>3. n + 1 \in 1..POOL /\ n + 1 \in 0..POOL /\ (n + 1) - 1 = n
        BY <1>1, <4>2
      <4> QED BY <1>7, <4>1, <4>3
    <3> QED BY <1>2, <2>2, <3>1, <3>2
  <2> QED BY <2>1, <2>2
<1>13. Intact(g, array2)
  BY <1>10, <1>11, <1>12 DEF Intact
<1> QED BY <1>9, <1>13 DEF g, array2

\* The k-th node leaves the list, and the pointer to it skips it.
LEMMA RemoveWalk ==
  ASSUME NEW array, NEW head, NEW f, IsWalk(f, array, head), Intact(f, array),
         NEW k \in 0..POOL, NEW node \in Node, f[k] = node,
         NEW array2, array2[node].location = 0,
         \A i \in Node : i # node => array2[i].location = array[i].location,
         \A i \in Node : i # node /\ array[i].next # node => array2[i].next = array[i].next,
         \A i \in Node, n \in 0..POOL : i # node /\ f[n] = i /\ array[i].next = node =>
                                          array2[i].next = array[node].next
  PROVE  LET head2 == IF head = node THEN array[node].next ELSE head
             g == [n \in 0..POOL |-> IF n < k THEN f[n] ELSE IF n < POOL THEN f[n + 1] ELSE NULL]
         IN IsWalk(g, array2, head2) /\ Intact(g, array2)
<1> DEFINE head2 == IF head = node THEN array[node].next ELSE head
           g == [n \in 0..POOL |-> IF n < k THEN f[n] ELSE IF n < POOL THEN f[n + 1] ELSE NULL]
<1>1. POOL \in Nat /\ POOL > 0 /\ NULL \notin Node /\ node # NULL
  BY Pool
<1>2. k < POOL
  BY <1>1 DEF Intact
<1>3. \A n \in 0..POOL : n < POOL => n + 1 \in 0..POOL /\ n + 1 \in 1..POOL
  BY <1>1
<1>4. \A n \in 0..POOL : f[n] \in Node \cup {NULL}
  BY DEF IsWalk
<1>5. \A n \in 0..POOL : f[n] = node => n = k
  BY <1>1 DEF Intact
<1>6. g \in [0..POOL -> Node \cup {NULL}]
  BY <1>3, <1>4
<1>7. /\ \A n \in 0..POOL : n < k => g[n] = f[n]
      /\ \A n \in 0..POOL : k <= n /\ n < POOL => g[n] = f[n + 1]
      /\ g[POOL] = NULL
  BY <1>1, <1>2
<1>8. \A n \in 0..POOL : n < POOL /\ f[n] # NULL => f[n + 1] = array[f[n]].next
  <2>1. \A n \in 0..POOL : n < POOL => (n + 1) - 1 = n
    OBVIOUS
  <2> QED BY <1>3, <2>1 DEF IsWalk
<1>9. \A n \in 0..POOL : n < POOL /\ f[n] = NULL => f[n + 1] = NULL
  <2>1. \A n \in 0..POOL : n < POOL => (n + 1) - 1 = n
    OBVIOUS
  <2> QED BY <1>3, <2>1 DEF IsWalk
<1>10. \A n \in 0..k : f[n] # NULL
  BY <1>1, NoGap
<1> HIDE DEF g
<1>11. g[0] = head2
  <2>1. CASE k = 0
    <3>1. f[0] = node /\ f[0 + 1] = array[node].next /\ g[0] = f[0 + 1]
      BY <1>1, <1>2, <1>7, <1>8, <2>1
    <3>2. head = node
      BY <3>1 DEF IsWalk
    <3> QED BY <3>1, <3>2
  <2>2. CASE k # 0
    <3>1. 0 \in 0..POOL /\ 0 < k
      BY <1>1, <2>2
    <3>2. f[0] # node
      BY <1>5, <2>2, <3>1
    <3>3. head # node /\ f[0] = head
      BY <3>2 DEF IsWalk
    <3> QED BY <1>7, <3>1, <3>3
  <2> QED BY <2>1, <2>2
<1>12. \A n \in 0..POOL : n < POOL /\ f[n] # NULL /\ n # k /\ n + 1 # k =>
         array2[f[n]].next = f[n + 1]
  <2> SUFFICES ASSUME NEW n \in 0..POOL, n < POOL, f[n] # NULL, n # k, n + 1 # k
               PROVE  array2[f[n]].next = f[n + 1]
    OBVIOUS
  <2>1. f[n] \in Node /\ f[n] # node /\ f[n + 1] # node
    BY <1>3, <1>4, <1>5
  <2>2. f[n + 1] = array[f[n]].next
    BY <1>8
  <2> QED BY <2>1, <2>2
<1>13. ASSUME NEW n \in 1..POOL
       PROVE  g[n] = IF g[n - 1] = NULL THEN NULL ELSE array2[g[n - 1]].next
  <2>0. n \in 0..POOL /\ n - 1 \in 0..POOL /\ n - 1 < POOL /\ (n - 1) + 1 = n
    BY <1>1
  <2>1. CASE n < k
    <3>1. g[n] = f[n] /\ g[n - 1] = f[n - 1]
      BY <1>7, <2>0, <2>1
    <3>2. f[n - 1] # NULL
      BY <1>10, <2>0, <2>1
    <3>3. array2[f[n - 1]].next = f[n]
      BY <1>12, <2>0, <2>1, <3>2
    <3> QED BY <3>1, <3>2, <3>3
  <2>2. CASE n = k
    <3>1. g[n] = f[k + 1] /\ g[n - 1] = f[n - 1]
      BY <1>2, <1>7, <2>0, <2>2
    <3>2. f[n - 1] # NULL /\ f[n - 1] \in Node
      BY <1>4, <1>10, <2>0, <2>2
    <3>3. f[n - 1] # node
      BY <1>5, <2>0, <2>2
    <3>4. array[f[n - 1]].next = node
      BY <1>8, <2>0, <2>2, <3>2
    <3>5. array2[f[n - 1]].next = array[node].next
      BY <2>0, <3>2, <3>3, <3>4
    <3>6. f[k + 1] = array[node].next
      BY <1>1, <1>2, <1>8
    <3> QED BY <3>1, <3>2, <3>5, <3>6
  <2>3. CASE k < n /\ n < POOL
    <3>1. g[n] = f[n + 1] /\ g[n - 1] = f[n]
      <4>1. k <= n /\ k <= n - 1
        BY <2>3
      <4>2. g[n - 1] = f[(n - 1) + 1]
        BY <1>7, <2>0, <4>1
      <4> QED BY <1>7, <2>0, <2>3, <4>1, <4>2
    <3>2. f[n] = NULL => f[n + 1] = NULL
      BY <1>9, <2>0, <2>3
    <3>3. f[n] # NULL => array2[f[n]].next = f[n + 1]
      BY <1>12, <2>0, <2>3
    <3> QED BY <3>1, <3>2, <3>3
  <2>4. CASE n = POOL
    <3>1. k <= n - 1
      BY <1>2, <2>4
    <3>2. g[n - 1] = f[(n - 1) + 1]
      BY <1>7, <2>0, <3>1
    <3>3. f[POOL] = NULL
      BY DEF Intact
    <3> QED BY <1>7, <2>0, <2>4, <3>2, <3>3
  <2>5. n < k \/ n = k \/ (k < n /\ n < POOL) \/ n = POOL
    BY <1>1
  <2> QED BY <2>1, <2>2, <2>3, <2>4, <2>5
<1>14. IsWalk(g, array2, head2)
  BY <1>6, <1>11, <1>13 DEF IsWalk
<1> HIDE DEF head2
<1>15. \A n \in 0..POOL : g[n] # NULL =>
         \E j \in 0..POOL : /\ g[n] = f[j] /\ j # k
                            /\ j = IF n < k THEN n ELSE n + 1
  BY <1>1, <1>3, <1>7
<1>16. ASSUME NEW m \in 0..POOL, NEW n \in 0..POOL, g[m] # NULL, g[m] = g[n]
       PROVE  m = n
  <2>1. PICK i \in 0..POOL : g[m] = f[i] /\ i = IF m < k THEN m ELSE m + 1
    BY <1>15, <1>16
  <2>2. PICK j \in 0..POOL : g[n] = f[j] /\ j = IF n < k THEN n ELSE n + 1
    BY <1>15, <1>16
  <2>3. i = j
    <3>1. f[i] # NULL /\ f[i] = f[j]
      BY <1>16, <2>1, <2>2, Zenon
    <3> QED BY <3>1, Zenon DEF Intact
  <2>4. m \in Int /\ n \in Int /\ k \in Int
    OBVIOUS
  <2>5. (IF m < k THEN m ELSE m + 1) = (IF n < k THEN n ELSE n + 1)
    BY <2>1, <2>2, <2>3
  <2> QED BY <2>4, <2>5
<1>17. ASSUME NEW i \in Node
       PROVE  array2[i].location # 0 <=> \E n \in 0..POOL : g[n] = i
  <2>0. i # NULL
    BY <1>1
  <2>1. CASE i = node
    <3>1. ASSUME NEW n \in 0..POOL, g[n] = node PROVE FALSE
      <4>1. PICK j \in 0..POOL : g[n] = f[j] /\ j # k
        BY <1>1, <1>15, <3>1
      <4> QED BY <1>5, <3>1, <4>1
    <3> QED BY <2>1, <3>1
  <2>2. CASE i # node
    <3>1. ASSUME NEW n \in 0..POOL, g[n] = i PROVE array[i].location # 0
      <4>1. PICK j \in 0..POOL : g[n] = f[j]
        BY <1>15, <2>0, <3>1
      <4> QED BY <3>1, <4>1 DEF Intact
    <3>2. ASSUME array[i].location # 0 PROVE \E n \in 0..POOL : g[n] = i
      <4>1. PICK j \in 0..POOL : f[j] = i
        BY <3>2 DEF Intact
      <4>2. j # k
        BY <2>2, <4>1
      <4>3. CASE j < k
        BY <1>7, <4>1, <4>3
      <4>4. CASE j > k
        <5>1. j - 1 \in 0..POOL /\ k <= j - 1 /\ j - 1 < POOL /\ (j - 1) + 1 = j
          BY <1>1, <4>4
        <5>2. g[j - 1] = f[j]
          BY <1>7, <5>1
        <5> QED BY <4>1, <5>1, <5>2
      <4> QED BY <4>2, <4>3, <4>4
    <3> QED BY <2>2, <3>1, <3>2
  <2> QED BY <2>1, <2>2
<1>18. Intact(g, array2)
  BY <1>7, <1>16, <1>17 DEF Intact
<1> QED BY <1>14, <1>18 DEF g, head2

\* A change that touches neither the pointers nor the locations.
LEMMA SameWalk ==
  ASSUME NEW array, NEW head, NEW f, IsWalk(f, array, head), Intact(f, array),
         NEW array2,
         \A i \in Node : /\ array2[i].next = array[i].next
                         /\ array2[i].location = array[i].location
  PROVE  IsWalk(f, array2, head) /\ Intact(f, array2)
<1>1. \A n \in 1..POOL : f[n - 1] \in Node \cup {NULL}
  BY Pool DEF IsWalk
<1>2. IsWalk(f, array2, head)
  BY <1>1 DEF IsWalk
<1>3. Intact(f, array2)
  BY DEF Intact
<1> QED BY <1>2, <1>3

-----------------------------------------------------------------------------
(* The inductive invariant of fish: the list is intact, and a cell that the  *)
(* tasklet claims is claimed by a node in use, so mp1_malloc cannot hand it  *)
(* out and RTC_REMOVE gives the claim up.                                    *)

Shown(b) == IF b.status = 1 THEN b.on_char ELSE b.off_char

BlinkTypes ==
  /\ blink_array \in [Node -> Record]
  /\ mp1_list_head \in Node \cup {NULL}
  /\ screen \in [0..(CELLS - 1) -> Chars]
  /\ drawn \in [0..(CELLS - 1) -> Node \cup {NULL}]

Claims(dr, array, scr) ==
  \A c \in 0..(CELLS - 1) : dr[c] # NULL =>
    c # 0 /\ array[dr[c]].location = c /\ scr[c] = Shown(array[dr[c]])

BlinkInv ==
  /\ BlinkTypes
  /\ IsWalk(Nth, blink_array, mp1_list_head)
  /\ Intact(Nth, blink_array)
  /\ Claims(drawn, blink_array, screen)

LEMMA InListIs ==
  ASSUME BlinkInv, NEW i \in Node
  PROVE  InList(i) <=> blink_array[i].location # 0
<1>1. i # NULL
  BY Pool
<1> QED BY <1>1 DEF BlinkInv, Intact, InList, Listed

LEMMA FindIs ==
  ASSUME BlinkInv, NEW loc, mp1_find_helper(loc) # NULL
  PROVE  /\ mp1_find_helper(loc) \in Node
         /\ blink_array[mp1_find_helper(loc)].location = loc
         /\ \E k \in 0..POOL : Nth[k] = mp1_find_helper(loc)
<1> DEFINE hits == {n \in Listed : blink_array[Nth[n]].location = loc}
<1>1. hits # {} /\ mp1_find_helper(loc) = Nth[Min(hits)]
  BY DEF mp1_find_helper
<1>2. hits \subseteq Nat
  BY DEF Listed
<1>3. \E x \in hits : \A y \in hits : x <= y
  <2> HIDE DEF hits
  <2> QED BY <1>1, <1>2, LeastElement
<1>4. Min(hits) \in hits
  <2> HIDE DEF hits
  <2> QED BY <1>3 DEF Min
<1>5. Nth[Min(hits)] \in Node
  BY <1>4 DEF BlinkInv, IsWalk, Listed
<1> QED BY <1>1, <1>4, <1>5 DEF Listed

LEMMA MallocIs ==
  ASSUME mp1_malloc # NULL
  PROVE  mp1_malloc \in Node /\ blink_array[mp1_malloc].location = 0
<1> DEFINE free == {i \in Node : blink_array[i].location = 0}
<1>1. free # {} /\ mp1_malloc = CHOOSE i \in free : \A j \in free : i <= j
  BY DEF mp1_malloc
<1>2. free \subseteq Nat
  BY DEF Node
<1>3. \E x \in free : \A y \in free : x <= y
  <2> HIDE DEF free
  <2> QED BY <1>1, <1>2, LeastElement
<1>4. mp1_malloc \in free
  <2> HIDE DEF free
  <2> QED BY <1>1, <1>3
<1> QED BY <1>4

LEMMA LastDueIs ==
  ASSUME BlinkInv, NEW c, DueAt(c) # {}
  PROVE  /\ LastDue(c) \in Node
         /\ blink_array[LastDue(c)].location = c
         /\ Due(blink_array[LastDue(c)])
         /\ InList(LastDue(c))
<1>1. POOL \in Nat /\ DueAt(c) \subseteq 0..POOL
  BY Pool DEF DueAt, Listed
<1>2. \E x \in DueAt(c) : \A y \in DueAt(c) : x >= y
  BY <1>1, GreatestElement
<1>3. Max(DueAt(c)) \in DueAt(c)
  BY <1>2 DEF Max
<1>4. Nth[Max(DueAt(c))] \in Node
  BY <1>3 DEF BlinkInv, IsWalk, DueAt, Listed
<1> QED BY <1>3, <1>4 DEF LastDue, DueAt, InList

LEMMA BlinkInitInv == BlinkInit => BlinkInv
<1> SUFFICES ASSUME BlinkInit PROVE BlinkInv
  OBVIOUS
<1>1. Zeroed \in Record
  BY Pool DEF Zeroed, Record, Chars
<1>2. BlinkTypes
  <2>1. BLANK \in Chars
    BY DEF Chars
  <2> QED BY <1>1, <2>1 DEF BlinkInit, BlinkTypes
<1> DEFINE f == [n \in 0..POOL |-> NULL]
<1>3. IsWalk(f, blink_array, mp1_list_head)
  <2>1. \A n \in 1..POOL : n \in 0..POOL /\ n - 1 \in 0..POOL
    BY Pool
  <2>2. 0 \in 0..POOL
    BY Pool
  <2> QED BY <2>1, <2>2 DEF BlinkInit, IsWalk
<1>4. Intact(f, blink_array)
  <2>1. POOL \in 0..POOL
    BY Pool
  <2>2. \A i \in Node : blink_array[i].location = 0 /\ i # NULL
    BY Pool DEF BlinkInit, Zeroed
  <2> QED BY <2>1, <2>2 DEF Intact
<1>5. Nth = f
  <2> HIDE DEF f
  <2> QED BY <1>3, WalkIs DEF Nth
<1>6. Claims(drawn, blink_array, screen)
  BY DEF BlinkInit, Claims
<1> QED BY <1>2, <1>3, <1>4, <1>5, <1>6 DEF BlinkInv

\* What a step has to show.
LEMMA BlinkInvFrom ==
  ASSUME BlinkTypes', NEW g, IsWalk(g, blink_array', mp1_list_head'),
         Intact(g, blink_array'), Claims(drawn', blink_array', screen')
  PROVE  BlinkInv'
<1>1. Nth' = g
  BY WalkIs DEF Nth
<1> QED BY <1>1 DEF BlinkInv

\* The structures that fish passes in, as far as RTC_ADD accepts them.
LEMMA StructIs ==
  ASSUME NEW t \in Struct, t.location < CELLS
  PROVE  /\ t.location \in 0..(CELLS - 1) /\ t.location # 0
         /\ t.on_char \in Chars /\ t.off_char \in Chars
         /\ t.on_length \in Nat /\ t.off_length \in Nat
<1>1. t.location \in Nat \ {0} /\ t.on_length \in Nat /\ t.off_length \in Nat
  BY StructAssumption
<1>2. t.on_char \in Chars /\ t.off_char \in Chars
  BY DEF Chars
<1> QED BY <1>1, <1>2, Pool

LEMMA AddInv ==
  ASSUME BlinkInv, NEW t \in Struct, mp1_ioctl_add(t)
  PROVE  BlinkInv'
<1> DEFINE edx == mp1_malloc
           b == [location |-> t.location, on_char |-> t.on_char, off_char |-> t.off_char,
                 on_length |-> t.on_length, off_length |-> t.off_length,
                 countdown |-> t.on_length, status |-> 1, next |-> mp1_list_head]
<1>1. CASE t.location >= CELLS \/ edx = NULL
  <2>1. UNCHANGED <<blink_array, mp1_list_head, screen, drawn>>
    BY <1>1 DEF mp1_ioctl_add
  <2> QED BY <2>1 DEF BlinkInv, BlinkTypes, Nth
<1>2. CASE ~(t.location >= CELLS \/ edx = NULL)
  <2>1. /\ blink_array' = [blink_array EXCEPT ![edx] = b]
        /\ mp1_list_head' = edx
        /\ screen' = [screen EXCEPT ![t.location] = t.on_char]
        /\ drawn' = [drawn EXCEPT ![t.location] = edx]
    BY <1>2 DEF mp1_ioctl_add
  <2>2. edx \in Node /\ blink_array[edx].location = 0
    BY <1>2, MallocIs
  <2>3. t.location < CELLS
    <3>1. t.location \in Nat
      BY StructAssumption
    <3> QED BY <1>2, <3>1, Pool
  <2>4. /\ t.location \in 0..(CELLS - 1) /\ t.location # 0
        /\ t.on_char \in Chars /\ t.off_char \in Chars
        /\ t.on_length \in Nat /\ t.off_length \in Nat
    BY <2>3, StructIs
  <2>5. BlinkTypes
    BY DEF BlinkInv
  <2>6. b \in Record
    BY <2>4, <2>5 DEF Record, BlinkTypes
  <2>7. b.location = t.location /\ b.next = mp1_list_head /\ Shown(b) = t.on_char
    BY DEF Shown
  <2> HIDE DEF edx, b
  <2>8. BlinkTypes'
    BY <2>1, <2>2, <2>4, <2>5, <2>6 DEF BlinkTypes
  <2> DEFINE g == [n \in 0..POOL |-> IF n = 0 THEN edx ELSE Nth[n - 1]]
  <2>9. IsWalk(g, blink_array', mp1_list_head') /\ Intact(g, blink_array')
    <3>1. b.location # 0
      BY <2>4, <2>7
    <3>2. blink_array \in [Node -> Record]
      BY <2>5 DEF BlinkTypes
    <3> QED BY <2>1, <2>2, <2>6, <2>7, <3>1, <3>2, AddWalk DEF BlinkInv
  <2>10. ASSUME NEW c \in 0..(CELLS - 1), drawn'[c] # NULL
         PROVE  /\ c # 0 /\ blink_array'[drawn'[c]].location = c
                /\ screen'[c] = Shown(blink_array'[drawn'[c]])
    <3>1. CASE c = t.location
      <4>1. drawn'[c] = edx /\ screen'[c] = t.on_char /\ blink_array'[edx] = b
        BY <2>1, <2>2, <2>5, <3>1 DEF BlinkTypes
      <4> QED BY <2>4, <2>7, <3>1, <4>1
    <3>2. CASE c # t.location
      <4>1. drawn'[c] = drawn[c] /\ screen'[c] = screen[c]
        BY <2>1, <2>5, <3>2 DEF BlinkTypes
      <4>2. drawn[c] \in Node
        BY <2>5, <2>10, <4>1 DEF BlinkTypes
      <4>3. c # 0 /\ blink_array[drawn[c]].location = c /\ screen[c] = Shown(blink_array[drawn[c]])
        BY <2>10, <4>1 DEF BlinkInv, Claims
      <4>4. blink_array'[drawn[c]] = blink_array[drawn[c]]
        BY <2>1, <2>2, <2>5, <4>2, <4>3 DEF BlinkTypes
      <4> QED BY <4>1, <4>3, <4>4
    <3> QED BY <3>1, <3>2
  <2>11. Claims(drawn', blink_array', screen')
    BY <2>10 DEF Claims
  <2> HIDE DEF g
  <2> QED BY <2>8, <2>9, <2>11, BlinkInvFrom
<1> QED BY <1>1, <1>2

LEMMA RemoveInv ==
  ASSUME BlinkInv, NEW loc \in Location, mp1_ioctl_remove(loc), UNCHANGED screen
  PROVE  BlinkInv'
<1> DEFINE node == mp1_find_helper(loc)
<1>1. CASE node = NULL
  <2>1. UNCHANGED <<blink_array, mp1_list_head, screen, drawn>>
    BY <1>1 DEF mp1_ioctl_remove
  <2> QED BY <2>1 DEF BlinkInv, BlinkTypes, Nth
<1>2. CASE node # NULL
  <2>1. Unlink(node) /\ drawn' = [drawn EXCEPT ![loc] = IF @ = node THEN NULL ELSE @]
    BY <1>2 DEF mp1_ioctl_remove
  <2>2. node \in Node /\ blink_array[node].location = loc
    BY <1>2, FindIs
  <2>3. PICK k \in 0..POOL : Nth[k] = node
    BY <1>2, FindIs
  <2> HIDE DEF node
  <2>4. BlinkTypes
    BY DEF BlinkInv
  <2>5. /\ mp1_list_head' = IF mp1_list_head = node THEN blink_array[node].next ELSE mp1_list_head
        /\ blink_array' =
             [i \in Node |->
                CASE i = node -> Zeroed
                  [] i # node /\ InList(i) /\ blink_array[i].next = node ->
                       [blink_array[i] EXCEPT !.next = blink_array[node].next]
                  [] OTHER -> blink_array[i]]
    BY <2>1 DEF Unlink
  <2>6. Zeroed \in Record /\ Zeroed.location = 0
    BY Pool DEF Zeroed, Record, Chars
  <2>7. blink_array'[node] = Zeroed
    BY <2>2, <2>5
  <2>8. ASSUME NEW i \in Node, i # node
        PROVE  /\ blink_array'[i].location = blink_array[i].location
               /\ Shown(blink_array'[i]) = Shown(blink_array[i])
               /\ blink_array[i].next # node => blink_array'[i].next = blink_array[i].next
               /\ InList(i) /\ blink_array[i].next = node =>
                    blink_array'[i].next = blink_array[node].next
               /\ blink_array'[i] \in Record
    <3>1. blink_array[i] \in Record /\ blink_array[node].next \in Node \cup {NULL}
      BY <2>2, <2>4 DEF BlinkTypes, Record
    <3>2. CASE InList(i) /\ blink_array[i].next = node
      <4>1. blink_array'[i] = [blink_array[i] EXCEPT !.next = blink_array[node].next]
        BY <2>5, <2>8, <3>2
      <4> QED BY <3>1, <3>2, <4>1 DEF Record, Shown
    <3>3. CASE ~(InList(i) /\ blink_array[i].next = node)
      <4>1. blink_array'[i] = blink_array[i]
        BY <2>5, <2>8, <3>3
      <4> QED BY <3>1, <3>3, <4>1
    <3> QED BY <3>2, <3>3
  <2>9. loc \in 0..(CELLS - 1)
    BY <2>2, <2>4 DEF BlinkTypes, Record
  <2>10. BlinkTypes'
    <3>1. blink_array' \in [Node -> Record]
      <4>1. \A i \in Node : blink_array'[i] \in Record
        BY <2>6, <2>7, <2>8
      <4> QED BY <2>5, <4>1
    <3>2. mp1_list_head' \in Node \cup {NULL}
      BY <2>2, <2>4, <2>5 DEF BlinkTypes, Record
    <3>3. drawn' \in [0..(CELLS - 1) -> Node \cup {NULL}]
      BY <2>1, <2>4, <2>9 DEF BlinkTypes
    <3> QED BY <2>4, <3>1, <3>2, <3>3 DEF BlinkTypes
  <2> DEFINE g == [n \in 0..POOL |-> IF n < k THEN Nth[n]
                                     ELSE IF n < POOL THEN Nth[n + 1] ELSE NULL]
  <2>11. IsWalk(g, blink_array', mp1_list_head') /\ Intact(g, blink_array')
    <3>1. \A i \in Node, n \in 0..POOL : Nth[n] = i => InList(i)
      BY Pool DEF InList, Listed
    <3>2. blink_array'[node].location = 0
      BY <2>6, <2>7
    <3>3. \A i \in Node : i # node => blink_array'[i].location = blink_array[i].location
      BY <2>8
    <3>4. \A i \in Node : i # node /\ blink_array[i].next # node =>
            blink_array'[i].next = blink_array[i].next
      BY <2>8
    <3>5. \A i \in Node, n \in 0..POOL : i # node /\ Nth[n] = i /\ blink_array[i].next = node =>
            blink_array'[i].next = blink_array[node].next
      BY <2>8, <3>1
    <3>6. IsWalk(Nth, blink_array, mp1_list_head) /\ Intact(Nth, blink_array)
      BY DEF BlinkInv
    <3>7. mp1_list_head' = IF mp1_list_head = node THEN blink_array[node].next
                                                   ELSE mp1_list_head
      BY <2>5
    <3> QED BY <2>2, <2>3, <3>2, <3>3, <3>4, <3>5, <3>6, <3>7, RemoveWalk
  <2>12. ASSUME NEW c \in 0..(CELLS - 1), drawn'[c] # NULL
         PROVE  /\ c # 0 /\ blink_array'[drawn'[c]].location = c
                /\ screen'[c] = Shown(blink_array'[drawn'[c]])
    <3>1. drawn'[c] = drawn[c]
      BY <2>1, <2>4, <2>9, <2>12 DEF BlinkTypes
    <3>2. drawn[c] \in Node
      BY <2>4, <2>12, <3>1 DEF BlinkTypes
    <3>3. c # 0 /\ blink_array[drawn[c]].location = c /\ screen[c] = Shown(blink_array[drawn[c]])
      BY <2>12, <3>1 DEF BlinkInv, Claims
    <3>4. drawn[c] # node
      BY <2>1, <2>2, <2>4, <2>9, <2>12, <3>1, <3>3 DEF BlinkTypes
    <3> QED BY <2>8, <3>1, <3>2, <3>3, <3>4
  <2>13. Claims(drawn', blink_array', screen')
    BY <2>12 DEF Claims
  <2> HIDE DEF g
  <2> QED BY <2>10, <2>11, <2>13, BlinkInvFrom
<1> QED BY <1>1, <1>2

LEMMA SyncInv ==
  ASSUME BlinkInv, NEW from \in Location, NEW to \in Location,
         mp1_ioctl_sync(from, to), UNCHANGED mp1_list_head
  PROVE  BlinkInv'
<1> DEFINE esi == mp1_find_helper(from)
           edi == mp1_find_helper(to)
           src == blink_array[esi]
           dst == blink_array[edi]
           new == [dst EXCEPT !.on_length = src.on_length, !.off_length = src.off_length,
                              !.countdown = src.countdown, !.status = src.status]
<1>1. CASE esi = NULL \/ edi = NULL
  <2>1. UNCHANGED <<blink_array, mp1_list_head, screen, drawn>>
    BY <1>1 DEF mp1_ioctl_sync
  <2> QED BY <2>1 DEF BlinkInv, BlinkTypes, Nth
<1>2. CASE ~(esi = NULL \/ edi = NULL)
  <2>1. /\ blink_array' = [blink_array EXCEPT ![edi].on_length = src.on_length,
                                              ![edi].off_length = src.off_length,
                                              ![edi].countdown = src.countdown,
                                              ![edi].status = src.status]
        /\ screen' = [screen EXCEPT ![to] = dst.off_char]
        /\ drawn' = [drawn EXCEPT ![to] = NULL]
    BY <1>2 DEF mp1_ioctl_sync
  <2>2. esi \in Node /\ edi \in Node /\ dst.location = to
    BY <1>2, FindIs
  <2>3. BlinkTypes
    BY DEF BlinkInv
  <2> HIDE DEF esi, edi
  <2>4. src \in Record /\ dst \in Record /\ blink_array \in [Node -> Record]
    BY <2>2, <2>3 DEF BlinkTypes
  <2>5. blink_array' = [blink_array EXCEPT ![edi] = new]
    BY <2>1, <2>2, <2>4 DEF Record
  <2>6. new \in Record /\ new.next = dst.next /\ new.location = dst.location
    BY <2>4 DEF Record
  <2> HIDE DEF new
  <2>7. to \in 0..(CELLS - 1) /\ dst.off_char \in Chars
    BY <2>2, <2>4 DEF Record
  <2>8. BlinkTypes'
    <3>1. blink_array' \in [Node -> Record]
      BY <2>2, <2>4, <2>5, <2>6
    <3>2. screen' = [screen EXCEPT ![to] = dst.off_char] /\ drawn' = [drawn EXCEPT ![to] = NULL]
      BY <2>1
    <3> QED BY <2>3, <2>7, <3>1, <3>2 DEF BlinkTypes
  <2>9. IsWalk(Nth, blink_array', mp1_list_head') /\ Intact(Nth, blink_array')
    <3>1. \A i \in Node : /\ blink_array'[i].next = blink_array[i].next
                          /\ blink_array'[i].location = blink_array[i].location
      BY <2>4, <2>5, <2>6
    <3> QED BY <3>1, SameWalk DEF BlinkInv
  <2>10. ASSUME NEW c \in 0..(CELLS - 1), drawn'[c] # NULL
         PROVE  /\ c # 0 /\ blink_array'[drawn'[c]].location = c
                /\ screen'[c] = Shown(blink_array'[drawn'[c]])
    <3>1. c # to /\ drawn'[c] = drawn[c] /\ screen'[c] = screen[c]
      BY <2>1, <2>3, <2>7, <2>10 DEF BlinkTypes
    <3>2. drawn[c] \in Node
      BY <2>3, <2>10, <3>1 DEF BlinkTypes
    <3>3. c # 0 /\ blink_array[drawn[c]].location = c /\ screen[c] = Shown(blink_array[drawn[c]])
      BY <2>10, <3>1 DEF BlinkInv, Claims
    <3>4. blink_array'[drawn[c]] = blink_array[drawn[c]]
      BY <2>2, <2>4, <2>5, <3>1, <3>2, <3>3
    <3> QED BY <3>1, <3>3, <3>4
  <2>11. Claims(drawn', blink_array', screen')
    BY <2>10 DEF Claims
  <2> QED BY <2>8, <2>9, <2>11, BlinkInvFrom
<1> QED BY <1>1, <1>2

\* The body of tasklet_loop: the node stays where it is, and what it draws
\* when it is switched over is the character of its new status.
LEMMA TickedIs ==
  ASSUME NEW b \in Record
  PROVE  /\ Ticked(b) \in Record
         /\ Ticked(b).next = b.next /\ Ticked(b).location = b.location
         /\ Due(b) => Shown(Ticked(b)) = CharAfter(b)
         /\ ~Due(b) => Shown(Ticked(b)) = Shown(b)
         /\ CharAfter(b) \in Chars
<1>0. /\ b.status \in {0, 1} /\ b.countdown \in Int
      /\ b.on_length \in Nat /\ b.off_length \in Nat
      /\ b.on_char \in Chars /\ b.off_char \in Chars
  BY DEF Record
<1>1. CASE Due(b)
  <2>1. Ticked(b) = Switched(b)
    BY <1>1 DEF Ticked
  <2>2. Switched(b) = [b EXCEPT !.countdown = IF b.status = 1 THEN b.off_length ELSE b.on_length,
                                !.status = 1 - b.status]
    BY DEF Switched
  <2>3. 1 - b.status \in {0, 1} /\ (1 - b.status = 1 <=> b.status # 1)
    BY <1>0
  <2>4. (IF b.status = 1 THEN b.off_length ELSE b.on_length) \in Int
    BY <1>0
  <2>5. Switched(b) \in Record /\ Switched(b).next = b.next /\ Switched(b).location = b.location
    BY <2>2, <2>3, <2>4 DEF Record
  <2>6. /\ Switched(b).status = 1 - b.status
        /\ Switched(b).on_char = b.on_char /\ Switched(b).off_char = b.off_char
    BY <2>2 DEF Record
  <2> QED BY <1>0, <1>1, <2>1, <2>3, <2>5, <2>6 DEF Shown, CharAfter
<1>2. CASE ~Due(b)
  <2>1. Ticked(b) = [b EXCEPT !.countdown = b.countdown - 1]
    BY <1>2 DEF Ticked, Counted
  <2>2. b.countdown - 1 \in Int
    BY <1>0
  <2>3. /\ Ticked(b) \in Record /\ Ticked(b).next = b.next /\ Ticked(b).location = b.location
        /\ Ticked(b).status = b.status
        /\ Ticked(b).on_char = b.on_char /\ Ticked(b).off_char = b.off_char
    BY <2>1, <2>2 DEF Record
  <2> QED BY <1>0, <1>2, <2>3 DEF Shown, CharAfter
<1> QED BY <1>1, <1>2

LEMMA TickInv ==
  ASSUME BlinkInv, mp1_rtc_tasklet
  PROVE  BlinkInv'
<1>1. BlinkTypes
  BY DEF BlinkInv
<1>2. /\ UNCHANGED mp1_list_head
      /\ blink_array' = [i \in Node |-> IF InList(i) THEN Ticked(blink_array[i])
                                                     ELSE blink_array[i]]
      /\ drawn' = [c \in 0..(CELLS - 1) |-> IF DueAt(c) # {} THEN LastDue(c) ELSE drawn[c]]
      /\ screen' = [c \in 0..(CELLS - 1) |-> IF DueAt(c) # {} THEN CharAfter(blink_array[LastDue(c)])
                                                              ELSE screen[c]]
  BY <1>1 DEF mp1_rtc_tasklet, BlinkTypes
<1>3. \A i \in Node : blink_array[i] \in Record
  BY <1>1 DEF BlinkTypes
<1>4. \A i \in Node : /\ blink_array'[i] \in Record
                      /\ blink_array'[i].next = blink_array[i].next
                      /\ blink_array'[i].location = blink_array[i].location
  BY <1>2, <1>3, TickedIs
<1>5. BlinkTypes'
  <2>1. blink_array' \in [Node -> Record]
    BY <1>2, <1>4
  <2>2. drawn' \in [0..(CELLS - 1) -> Node \cup {NULL}]
    BY <1>1, <1>2, LastDueIs DEF BlinkTypes
  <2>3. ASSUME NEW c \in 0..(CELLS - 1), DueAt(c) # {}
        PROVE  CharAfter(blink_array[LastDue(c)]) \in Chars
    BY <1>3, <2>3, LastDueIs, TickedIs
  <2>4. screen' \in [0..(CELLS - 1) -> Chars]
    BY <1>1, <1>2, <2>3 DEF BlinkTypes
  <2> QED BY <1>1, <1>2, <2>1, <2>2, <2>4 DEF BlinkTypes
<1>6. IsWalk(Nth, blink_array', mp1_list_head') /\ Intact(Nth, blink_array')
  BY <1>2, <1>4, SameWalk DEF BlinkInv
<1>7. ASSUME NEW c \in 0..(CELLS - 1), drawn'[c] # NULL
      PROVE  /\ c # 0 /\ blink_array'[drawn'[c]].location = c
             /\ screen'[c] = Shown(blink_array'[drawn'[c]])
  <2>1. CASE DueAt(c) # {}
    <3>1. drawn'[c] = LastDue(c) /\ screen'[c] = CharAfter(blink_array[LastDue(c)])
      BY <1>2, <2>1
    <3>2. /\ LastDue(c) \in Node /\ InList(LastDue(c)) /\ Due(blink_array[LastDue(c)])
          /\ blink_array[LastDue(c)].location = c
      BY <2>1, LastDueIs
    <3>3. c # 0
      BY <3>2, InListIs
    <3>4. blink_array'[LastDue(c)] = Ticked(blink_array[LastDue(c)])
      BY <1>2, <3>2
    <3>5. Shown(Ticked(blink_array[LastDue(c)])) = CharAfter(blink_array[LastDue(c)])
      BY <1>3, <3>2, TickedIs
    <3> QED BY <1>4, <3>1, <3>2, <3>3, <3>4, <3>5
  <2>2. CASE DueAt(c) = {}
    <3>1. drawn'[c] = drawn[c] /\ screen'[c] = screen[c]
      BY <1>2, <2>2
    <3>2. drawn[c] \in Node
      BY <1>1, <1>7, <3>1 DEF BlinkTypes
    <3>3. c # 0 /\ blink_array[drawn[c]].location = c /\ screen[c] = Shown(blink_array[drawn[c]])
      BY <1>7, <3>1 DEF BlinkInv, Claims
    <3>4. InList(drawn[c])
      BY <3>2, <3>3, InListIs
    <3>5. ~Due(blink_array[drawn[c]])
      BY <2>2, <3>3, <3>4 DEF DueAt, InList
    <3>6. blink_array'[drawn[c]] = Ticked(blink_array[drawn[c]])
      BY <1>2, <3>2, <3>4
    <3>7. Shown(Ticked(blink_array[drawn[c]])) = Shown(blink_array[drawn[c]])
      BY <1>3, <3>2, <3>5, TickedIs
    <3> QED BY <1>4, <3>1, <3>2, <3>3, <3>6, <3>7
  <2> QED BY <2>1, <2>2
<1>8. Claims(drawn', blink_array', screen')
  BY <1>7 DEF Claims
<1> QED BY <1>5, <1>6, <1>8, BlinkInvFrom

LEMMA BlinkStepInv == BlinkInv /\ [AlgorithmsNext]_algorithm_vars => BlinkInv'
<1> SUFFICES ASSUME BlinkInv, [AlgorithmsNext]_algorithm_vars PROVE BlinkInv'
  OBVIOUS
<1>1. CASE mp1_ioctl
  <2>1. CASE \E t \in Struct : mp1_ioctl_add(t)
    BY <2>1, AddInv
  <2>2. CASE \E loc \in Location : mp1_ioctl_remove(loc) /\ UNCHANGED <<screen, syncs>>
    BY <2>2, RemoveInv
  <2>3. CASE (\E from, to \in Location : mp1_ioctl_sync(from, to)) /\ UNCHANGED mp1_list_head
    BY <2>3, SyncInv
  <2> QED BY <1>1, <2>1, <2>2, <2>3 DEF mp1_ioctl
<1>2. CASE Tick
  BY <1>2, TickInv DEF Tick
<1>3. CASE UNCHANGED blink_vars
  BY <1>3 DEF blink_vars, BlinkInv, BlinkTypes, Nth
<1> QED BY <1>1, <1>2, <1>3 DEF AlgorithmsNext, Fish, Grep, BlinkNext, algorithm_vars

LEMMA BlinkInvariant == AlgorithmsSpec => []BlinkInv
<1>1. AlgorithmsInit => BlinkInv
  BY BlinkInitInv DEF AlgorithmsInit
<1> QED BY <1>1, BlinkStepInv, PTL DEF AlgorithmsSpec

\* The list of blink.S, for a pool of any length and any structures: following
\* NEXT from mp1_list_head ends and meets every node in use once, whatever
\* RTC_ADD, RTC_REMOVE and RTC_SYNC did, in whatever order, with ticks between.
THEOREM BlinkListIntact == AlgorithmsSpec => []ListIntact
<1>1. BlinkInv => ListIntact
  <2> SUFFICES ASSUME BlinkInv PROVE ListIntact
    OBVIOUS
  <2>1. IsWalk(Nth, blink_array, mp1_list_head) /\ Intact(Nth, blink_array)
    BY DEF BlinkInv
  <2>2. Nth[POOL] = NULL
    BY <2>1 DEF Intact
  <2>3. \A m, n \in Listed : Nth[m] = Nth[n] => m = n
    BY <2>1 DEF Intact, Listed
  <2>4. \A n \in Listed : Nth[n] \in Node /\ blink_array[Nth[n]].location # 0
    BY <2>1 DEF IsWalk, Intact, Listed
  <2>5. \A i \in Node : blink_array[i].location # 0 => \E n \in Listed : Nth[n] = i
    BY <2>1, Pool DEF Intact, Listed
  <2>6. {Nth[n] : n \in Listed} = {i \in Node : blink_array[i].location # 0}
    BY <2>4, <2>5
  <2> QED BY <2>2, <2>3, <2>6 DEF ListIntact
<1> QED BY <1>1, BlinkInvariant, PTL

\* What mp1_rtc_tasklet and RTC_ADD drew last in a cell is the character of
\* the node's status, and the node still is the one at that cell, for a pool
\* and a screen of any size.
THEOREM BlinkShown == AlgorithmsSpec => []ShownAgrees
<1>1. BlinkInv => ShownAgrees
  BY DEF BlinkInv, BlinkTypes, Claims, Shown, ShownAgrees
<1> QED BY <1>1, BlinkInvariant, PTL

-----------------------------------------------------------------------------
(* The inductive invariant of grep.  Consumed is how much of the file the    *)
(* rounds are done with: it ends at the end of a line, what is left in the   *)
(* buffer is the text behind it, and the lines before it are dealt with.     *)
(* A buffer that is not full ends at the end of the file, so the byte behind *)
(* it, an EOL left over from an earlier read perhaps, cuts the last line     *)
(* only where it ends.                                                       *)

Boundary(t, c) == c = 0 \/ c = Len(t) \/ t[c] = EOL

Hits(t, w, c) == {i \in LineStarts(t) : i <= c /\ Mentions(Line(t, i), w)}

Begin == IF pc = "line" THEN line_start ELSE 0

Consumed == offset - last + Begin

SearchTypes ==
  /\ file \in Texts /\ s \in Words
  /\ data \in [0..BUFSIZE -> Stack \cup Range(file) \cup {ZERO}]
  /\ offset \in 0..Len(file) /\ last \in 0..BUFSIZE /\ last <= offset
  /\ line_start \in Nat /\ cnt \in Nat
  /\ pc \in {"read", "line", "done"}
  /\ found \in Seq({Line(file, i) : i \in LineStarts(file)})

SearchCore ==
  /\ SearchTypes
  /\ data[BUFSIZE] # EOL
  /\ \A i \in Begin..(last - 1) : data[i] = file[offset - last + i + 1]
  /\ pc = "read" => last < BUFSIZE
  /\ pc = "line" => /\ line_start <= last /\ (line_start # 0 => line_start < last)
                    /\ (last < BUFSIZE \/ cnt = 0) => offset = Len(file)
  /\ pc = "done" => Consumed = Len(file)
  /\ Boundary(file, Consumed)
  /\ AreLines(found, file, Hits(file, s, Consumed))

SearchInv ==
  \/ program = "fish" /\ SearchIdle
  \/ program = "grep" /\ (LinesFit /\ junk # EOL => SearchCore)

\* The first EOL from a on, or b: there is exactly one such place.
First(f, a, b) ==
  CHOOSE e \in a..b : (e = b \/ f[e] = EOL) /\ \A i \in a..(e - 1) : f[i] # EOL

LEMMA FirstEnd ==
  ASSUME NEW f, NEW a \in Nat, NEW b \in Nat, a <= b
  PROVE  /\ First(f, a, b) \in a..b
         /\ First(f, a, b) = b \/ f[First(f, a, b)] = EOL
         /\ \A i \in a..(First(f, a, b) - 1) : f[i] # EOL
         /\ \A e \in a..b : (e = b \/ f[e] = EOL) /\ (\A i \in a..(e - 1) : f[i] # EOL)
                              => e = First(f, a, b)
<1> DEFINE Is(e) == (e = b \/ f[e] = EOL) /\ \A i \in a..(e - 1) : f[i] # EOL
           T == {e \in a..b : e = b \/ f[e] = EOL}
<1>1. \E e \in a..b : Is(e)
  <2>1. T \subseteq Nat /\ b \in T
    OBVIOUS
  <2>2. PICK e \in T : \A y \in T : e <= y
    BY <2>1, LeastElement
  <2>3. ASSUME NEW i \in a..(e - 1) PROVE f[i] # EOL
    <3>1. i \in a..b /\ ~(e <= i)
      OBVIOUS
    <3> QED BY <2>2, <3>1
  <2> QED BY <2>2, <2>3
<1>2. ASSUME NEW d \in a..b, NEW e \in a..b, Is(d), Is(e), d < e PROVE FALSE
  <2>1. d \in a..(e - 1) /\ d # b
    BY <1>2
  <2> QED BY <1>2, <2>1
<1>3. \A d, e \in a..b : Is(d) /\ Is(e) => d = e
  BY <1>2
<1>4. First(f, a, b) \in a..b /\ Is(First(f, a, b))
  BY <1>1 DEF First
<1> QED BY <1>3, <1>4

\* A line, given where it begins and ends.
LEMMA LineIs ==
  ASSUME NEW S, NEW t \in Seq(S), NEW i \in 1..Len(t), NEW e \in i..(Len(t) + 1),
         e = Len(t) + 1 \/ t[e] = EOL, \A k \in i..(e - 1) : t[k] # EOL
  PROVE  /\ LineEnd(t, i) = e
         /\ Line(t, i) = [k \in 1..(e - i) |-> t[i + k - 1]]
         /\ Len(Line(t, i)) = e - i
<1>1. Len(t) \in Nat /\ i \in Nat /\ Len(t) + 1 \in Nat /\ i <= Len(t) + 1
  OBVIOUS
<1>2. LineEnd(t, i) = e
  <2>1. LineEnd(t, i) = First(t, i, Len(t) + 1)
    BY DEF LineEnd, First
  <2> DEFINE b == Len(t) + 1
  <2>2. b \in Nat /\ i <= b /\ i \in Nat /\ e \in i..b /\ (e = b \/ t[e] = EOL)
    BY <1>1
  <2> HIDE DEF b
  <2>3. e = First(t, i, b)
    BY <2>2, FirstEnd
  <2> QED BY <2>1, <2>3 DEF b
<1>3. Line(t, i) = SubSeq(t, i, e - 1)
  BY <1>2 DEF Line
<1>4. SubSeq(t, i, e - 1) = [k \in 1..(e - i) |-> t[i + k - 1]]
  <2>1. (e - 1) - i + 1 = e - i
    OBVIOUS
  <2> QED BY <1>1, <2>1
<1> QED BY <1>2, <1>3, <1>4

LEMMA LineEndIs ==
  ASSUME NEW S, NEW t \in Seq(S), NEW i \in 1..Len(t)
  PROVE  /\ LineEnd(t, i) \in i..(Len(t) + 1)
         /\ LineEnd(t, i) = Len(t) + 1 \/ t[LineEnd(t, i)] = EOL
         /\ \A k \in i..(LineEnd(t, i) - 1) : t[k] # EOL
<1>1. Len(t) \in Nat /\ i \in Nat /\ Len(t) + 1 \in Nat /\ i <= Len(t) + 1
  OBVIOUS
<1>2. LineEnd(t, i) = First(t, i, Len(t) + 1)
  BY DEF LineEnd, First
<1> DEFINE b == Len(t) + 1
<1>3. b \in Nat /\ i <= b /\ i \in Nat
  BY <1>1
<1> HIDE DEF b
<1>4. /\ First(t, i, b) \in i..b
      /\ First(t, i, b) = b \/ t[First(t, i, b)] = EOL
      /\ \A k \in i..(First(t, i, b) - 1) : t[k] # EOL
  BY <1>3, FirstEnd
<1> QED BY <1>2, <1>4 DEF b

\* Between the begin of a line and its end no other line begins.
LEMMA HitsNext ==
  ASSUME NEW S, NEW t \in Seq(S), NEW w, NEW c \in 0..(Len(t) - 1), Boundary(t, c),
         NEW d \in (c + 1)..Len(t), d <= LineEnd(t, c + 1)
  PROVE  /\ c + 1 \in LineStarts(t)
         /\ Hits(t, w, d) = Hits(t, w, c) \cup
                              (IF Mentions(Line(t, c + 1), w) THEN {c + 1} ELSE {})
<1>1. Len(t) \in Nat /\ c \in Nat /\ c < Len(t) /\ c + 1 \in 1..Len(t) /\ (c + 1) - 1 = c
  OBVIOUS
<1>2. c + 1 \in LineStarts(t)
  <2>1. c = 0 \/ t[c] = EOL
    BY <1>1 DEF Boundary
  <2> QED BY <1>1, <2>1 DEF LineStarts
<1>3. ASSUME NEW i \in LineStarts(t), i > c + 1, i <= d PROVE FALSE
  <2>1. i \in 1..Len(t) /\ t[i - 1] = EOL
    BY <1>1, <1>3 DEF LineStarts
  <2>2. LineEnd(t, c + 1) \in Int
    BY <1>1, LineEndIs
  <2>3. i - 1 \in (c + 1)..(LineEnd(t, c + 1) - 1)
    BY <1>1, <1>3, <2>1, <2>2
  <2>4. \A k \in (c + 1)..(LineEnd(t, c + 1) - 1) : t[k] # EOL
    BY <1>1, LineEndIs
  <2> QED BY <2>1, <2>3, <2>4
<1>4. \A i \in LineStarts(t) : i <= d <=> (i <= c \/ i = c + 1)
  <2>1. LineStarts(t) \subseteq Nat
    BY DEF LineStarts
  <2> QED BY <1>1, <1>3, <2>1
<1> QED BY <1>2, <1>4 DEF Hits

LEMMA AppendLines ==
  ASSUME NEW S, NEW lines \in Seq(S), NEW t, NEW starts, starts \subseteq Nat,
         AreLines(lines, t, starts),
         NEW i \in Nat, \A j \in starts : j < i
  PROVE  AreLines(Append(lines, Line(t, i)), t, starts \cup {i})
<1> DEFINE n == Len(lines)
           new == Append(lines, Line(t, i))
<1>1. PICK pick \in [1..n -> starts] :
        /\ \A j, k \in 1..n : j < k => pick[j] < pick[k]
        /\ \A j \in starts : \E k \in 1..n : pick[k] = j
        /\ \A k \in 1..n : lines[k] = Line(t, pick[k])
  BY DEF AreLines
<1>2. n \in Nat /\ Len(new) = n + 1
  OBVIOUS
<1>3. new[n + 1] = Line(t, i) /\ \A k \in 1..n : new[k] = lines[k]
  OBVIOUS
<1> DEFINE pick2 == [k \in 1..(n + 1) |-> IF k = n + 1 THEN i ELSE pick[k]]
<1>4. \A k \in 1..(n + 1) : k # n + 1 => k \in 1..n
  BY <1>2
<1>5. pick2 \in [1..(n + 1) -> starts \cup {i}]
  BY <1>1, <1>4
<1>6. pick2[n + 1] = i /\ \A k \in 1..n : pick2[k] = pick[k] /\ pick[k] \in starts
  BY <1>1, <1>2
<1>7. \A k \in 1..n : k \in 1..(n + 1)
  BY <1>2
<1>8. n + 1 \in 1..(n + 1)
  BY <1>2
<1> HIDE DEF pick2, new, n
<1>9. ASSUME NEW j \in 1..(n + 1), NEW k \in 1..(n + 1), j < k PROVE pick2[j] < pick2[k]
  <2>1. j \in 1..n
    BY <1>2, <1>9
  <2>2. CASE k = n + 1
    BY <1>6, <2>1, <2>2
  <2>3. CASE k # n + 1
    BY <1>1, <1>4, <1>6, <1>9, <2>1, <2>3
  <2> QED BY <2>2, <2>3
<1>10. \A j \in starts \cup {i} : \E k \in 1..(n + 1) : pick2[k] = j
  BY <1>1, <1>6, <1>7, <1>8
<1>11. \A k \in 1..(n + 1) : new[k] = Line(t, pick2[k])
  BY <1>1, <1>3, <1>4, <1>6
<1>12. AreLines(new, t, starts \cup {i})
  <2>1. Len(new) = n + 1
    BY <1>2
  <2> QED BY <1>5, <1>9, <1>10, <1>11, <2>1 DEF AreLines
<1> QED BY <1>12 DEF new

-----------------------------------------------------------------------------
LEMMA Bytes ==
  ASSUME SearchTypes
  PROVE  /\ file \in Seq(Range(file)) /\ Len(file) \in Nat
         /\ \A i \in 1..Len(file) : file[i] \in Range(file) /\ file[i] # ZERO
         /\ s \in Seq(Range(s)) /\ Len(s) \in Nat /\ Len(s) > 0
         /\ BUFSIZE \in Nat /\ BUFSIZE > 0
<1>1. file \in Seq(Range(file)) /\ ZERO \notin Range(file)
  BY SearchAssumption DEF SearchTypes
<1>2. s \in Seq(Range(s)) /\ s # <<>>
  BY SearchAssumption DEF SearchTypes
<1>3. \A i \in 1..Len(file) : file[i] \in Range(file)
  BY <1>1
<1>4. Len(s) \in Nat /\ Len(s) > 0
  BY <1>2
<1> QED BY <1>1, <1>2, <1>3, <1>4, SearchAssumption

\* The string that ends at a ZERO.
LEMMA StringIs ==
  ASSUME NEW f, DOMAIN f = 0..BUFSIZE, NEW a \in Nat, NEW e \in a..BUFSIZE,
         f[e] = ZERO, \A i \in a..(e - 1) : f[i] # ZERO
  PROVE  StringEnd(f, a) = e
<1> DEFINE ends == {i \in DOMAIN f : i >= a /\ f[i] = ZERO}
<1>0. BUFSIZE \in Nat
  BY SearchAssumption
<1>1. e \in ends
  BY <1>0
<1>2. \A i \in ends : e <= i
  <2> SUFFICES ASSUME NEW i \in ends, ~(e <= i) PROVE FALSE
    OBVIOUS
  <2>1. i \in a..(e - 1)
    BY <1>0
  <2> QED BY <2>1
<1>3. \A i \in ends : (\A j \in ends : i <= j) => i = e
  <2> SUFFICES ASSUME NEW i \in ends, \A j \in ends : i <= j PROVE i = e
    OBVIOUS
  <2>1. i <= e /\ e <= i /\ i \in Int /\ e \in Int
    BY <1>0, <1>1, <1>2
  <2> QED BY <2>1
<1>4. (CHOOSE i \in ends : \A other \in ends : i <= other) = e
  <2> HIDE DEF ends
  <2> QED BY <1>1, <1>2, <1>3
<1> QED BY <1>4 DEF StringEnd

\* The inner loop finds the first EOL of what is left in the buffer.
LEMMA LineEndInBuffer ==
  ASSUME SearchCore, pc = "line"
  PROVE  /\ line_end \in line_start..last
         /\ line_end = last \/ data[line_end] = EOL
         /\ \A i \in line_start..(line_end - 1) : data[i] # EOL
<1>1. line_start \in Nat /\ last \in Nat /\ line_start <= last
  BY SearchAssumption DEF SearchCore, SearchTypes
<1>2. line_end = First(data, line_start, last)
  BY DEF line_end, First
<1> QED BY <1>1, <1>2, FirstEnd

\* What is left in the buffer is text of the file.
LEMMA Live ==
  ASSUME SearchCore, pc = "line", line_start < last
  PROVE  /\ Consumed \in 0..(Len(file) - 1)
         /\ Consumed = offset - last + line_start
         /\ \A i \in line_start..(last - 1) :
              /\ Consumed + (i - line_start) + 1 \in 1..Len(file)
              /\ data[i] = file[Consumed + (i - line_start) + 1] /\ data[i] # ZERO
<1>1. SearchTypes
  BY DEF SearchCore
<1>2. Consumed = offset - last + line_start
  BY DEF Consumed, Begin
<1>3. /\ Len(file) \in Nat /\ offset \in 0..Len(file) /\ last \in Nat /\ last <= offset
      /\ line_start \in Nat
  BY <1>1, Bytes DEF SearchTypes
<1>4. ASSUME NEW i \in line_start..(last - 1)
      PROVE  /\ Consumed + (i - line_start) + 1 \in 1..Len(file)
             /\ data[i] = file[Consumed + (i - line_start) + 1]
  <2>1. data[i] = file[offset - last + i + 1]
    BY DEF SearchCore, Begin
  <2>2. Consumed + (i - line_start) + 1 = offset - last + i + 1
    BY <1>2, <1>3
  <2>3. offset - last + i + 1 \in 1..Len(file)
    BY <1>3
  <2> QED BY <2>1, <2>2, <2>3
<1> QED BY <1>1, <1>2, <1>3, <1>4, Bytes

LEMMA CutIs ==
  ASSUME SearchCore, pc = "line"
  PROVE  /\ Cut \in [0..BUFSIZE -> Stack \cup Range(file) \cup {ZERO}]
         /\ line_end \in 0..BUFSIZE /\ Cut[line_end] = ZERO
         /\ \A i \in 0..BUFSIZE : i # line_end => Cut[i] = data[i]
<1>1. data \in [0..BUFSIZE -> Stack \cup Range(file) \cup {ZERO}]
  BY DEF SearchCore, SearchTypes
<1>2. line_end \in 0..BUFSIZE
  <2>1. line_end \in line_start..last /\ line_start \in Nat /\ last \in 0..BUFSIZE
    BY LineEndInBuffer DEF SearchCore, SearchTypes
  <2> QED BY <2>1, SearchAssumption
<1> QED BY <1>1, <1>2 DEF Cut

LEMMA CutString ==
  ASSUME SearchCore, pc = "line", line_start < last
  PROVE  StringAt(Cut, line_start) =
           [k \in 1..(line_end - line_start) |-> file[Consumed + k]]
<1>0. /\ line_start \in Nat /\ last \in 0..BUFSIZE /\ BUFSIZE \in Nat
      /\ line_end \in line_start..last
  BY LineEndInBuffer, SearchAssumption DEF SearchCore, SearchTypes
<1>1. DOMAIN Cut = 0..BUFSIZE /\ Cut[line_end] = ZERO
  BY CutIs
<1>2. ASSUME NEW i \in line_start..(line_end - 1)
      PROVE  /\ Cut[i] = data[i] /\ Cut[i] # ZERO
             /\ data[i] = file[Consumed + (i - line_start) + 1]
  <2>1. i \in 0..BUFSIZE /\ i # line_end /\ i \in line_start..(last - 1)
    BY <1>0
  <2>2. Cut[i] = data[i]
    BY <2>1, CutIs
  <2> QED BY <2>1, <2>2, Live
<1>3. line_end \in line_start..BUFSIZE
  BY <1>0
<1> DEFINE a == line_start
           e == line_end
           f == Cut
<1>4. StringAt(f, a) = [k \in 1..(e - a) |-> f[a + k - 1]]
  <2>1. /\ a \in Nat /\ e \in a..BUFSIZE /\ DOMAIN f = 0..BUFSIZE /\ f[e] = ZERO
        /\ \A i \in a..(e - 1) : f[i] # ZERO
    BY <1>0, <1>1, <1>2, <1>3
  <2> HIDE DEF a, e, f
  <2>2. StringEnd(f, a) = e
    BY <2>1, StringIs
  <2> QED BY <2>2 DEF StringAt
<1>5. ASSUME NEW k \in 1..(e - a) PROVE f[a + k - 1] = file[Consumed + k]
  <2>1. a + k - 1 \in line_start..(line_end - 1) /\ ((a + k - 1) - line_start) + 1 = k
    BY <1>0
  <2>2. Consumed \in Int
    BY Live
  <2>3. Consumed + ((a + k - 1) - line_start) + 1 = Consumed + k
    BY <1>0, <2>1, <2>2
  <2> QED BY <1>2, <2>1, <2>3
<1> QED BY <1>4, <1>5

\* A round deals with a whole line: up to its EOL, or up to the end of the file.
LEMMA WholeLine ==
  ASSUME SearchCore, pc = "line", line_start < last,
         line_end < last \/ offset = Len(file)
  PROVE  /\ LineEnd(file, Consumed + 1) = Consumed + 1 + (line_end - line_start)
         /\ Line(file, Consumed + 1) = StringAt(Cut, line_start)
         /\ Found <=> Mentions(Line(file, Consumed + 1), s)
<1> DEFINE c == Consumed
           n == line_end - line_start
<1>0. SearchTypes
  BY DEF SearchCore
<1>1. /\ line_start \in Nat /\ last \in 0..BUFSIZE /\ BUFSIZE \in Nat
      /\ line_end \in line_start..last /\ c \in 0..(Len(file) - 1)
      /\ Len(file) \in Nat /\ c = offset - last + line_start
      /\ offset \in 0..Len(file)
  BY <1>0, LineEndInBuffer, Bytes, Live DEF SearchTypes
<1>2. n \in Nat /\ c + 1 \in 1..Len(file) /\ c \in Int
  BY <1>1
<1>3. \A k \in 1..n : file[c + k] = data[line_start + k - 1] /\ data[line_start + k - 1] # EOL
  <2> SUFFICES ASSUME NEW k \in 1..n
               PROVE  file[c + k] = data[line_start + k - 1] /\ data[line_start + k - 1] # EOL
    OBVIOUS
  <2>1. /\ line_start + k - 1 \in line_start..(last - 1)
        /\ line_start + k - 1 \in line_start..(line_end - 1)
        /\ c + ((line_start + k - 1) - line_start) + 1 = c + k
    BY <1>1
  <2>2. data[line_start + k - 1] = file[c + ((line_start + k - 1) - line_start) + 1]
    BY <2>1, Live
  <2> QED BY <2>1, <2>2, LineEndInBuffer
<1>4. c + 1 + n \in (c + 1)..(Len(file) + 1)
  BY <1>1
<1>5. c + 1 + n = Len(file) + 1 \/ file[c + 1 + n] = EOL
  <2>1. CASE line_end < last
    <3>1. data[line_end] = EOL /\ line_end \in line_start..(last - 1)
      BY <1>1, <2>1, LineEndInBuffer
    <3>2. data[line_end] = file[c + (line_end - line_start) + 1]
      BY <3>1, Live
    <3>3. c + (line_end - line_start) + 1 = c + 1 + n
      BY <1>1
    <3> QED BY <3>1, <3>2, <3>3
  <2>2. CASE line_end = last /\ offset = Len(file)
    BY <1>1, <2>2
  <2> QED BY <1>1, <2>1, <2>2
<1>6. \A i \in (c + 1)..((c + 1 + n) - 1) : file[i] # EOL
  <2> SUFFICES ASSUME NEW i \in (c + 1)..((c + 1 + n) - 1) PROVE file[i] # EOL
    OBVIOUS
  <2>1. i - c \in 1..n /\ c + (i - c) = i
    BY <1>2
  <2> QED BY <1>3, <2>1
<1> DEFINE b == c + 1
           e == c + 1 + n
           line == Line(file, b)
<1>7. /\ LineEnd(file, b) = e /\ line = [k \in 1..(e - b) |-> file[b + k - 1]]
      /\ Len(line) = e - b
  <2>1. b \in 1..Len(file) /\ e \in b..(Len(file) + 1)
    BY <1>2, <1>4
  <2>2. file \in Seq(Range(file))
    BY <1>0, Bytes
  <2>3. (e = Len(file) + 1 \/ file[e] = EOL) /\ \A i \in b..(e - 1) : file[i] # EOL
    BY <1>5, <1>6
  <2> HIDE DEF b, e
  <2> QED BY <2>1, <2>2, <2>3, LineIs
<1>8. e - b = n /\ \A k \in 1..n : b + k - 1 = c + k
  BY <1>2
<1>9. line = [k \in 1..n |-> file[c + k]] /\ Len(line) = n
  BY <1>7, <1>8
<1>10. line = StringAt(Cut, line_start)
  BY <1>9, CutString
<1> HIDE DEF line
<1>11. ASSUME Found PROVE Mentions(line, s)
  <2>1. PICK check \in line_start..(line_end - 1) : WordAt(check)
    BY <1>11 DEF Found
  <2> DEFINE i == check - line_start
  <2>2. Len(s) \in Nat /\ Len(s) > 0
    BY <1>0, Bytes
  <2>3. \A k \in 1..Len(s) : check + k - 1 < line_end /\ data[check + k - 1] = s[k]
    BY <2>1 DEF WordAt
  <2>4. check + Len(s) - 1 < line_end
    <3>1. Len(s) \in 1..Len(s)
      BY <2>2
    <3> QED BY <2>3, <3>1
  <2>5. i \in 0..(Len(line) - Len(s))
    BY <1>1, <1>9, <2>2, <2>4
  <2>6. ASSUME NEW k \in 1..Len(s) PROVE line[i + k] = s[k]
    <3>1. i + k \in 1..n /\ line_start + (i + k) - 1 = check + k - 1
      BY <1>1, <1>9, <2>2, <2>5
    <3>2. line[i + k] = file[c + (i + k)]
      BY <1>9, <3>1
    <3>3. file[c + (i + k)] = data[line_start + (i + k) - 1]
      BY <1>3, <3>1
    <3> QED BY <2>3, <3>1, <3>2, <3>3
  <2> QED BY <2>5, <2>6 DEF Mentions
<1>12. ASSUME Mentions(line, s) PROVE Found
  <2>1. PICK i \in 0..(Len(line) - Len(s)) : \A k \in 1..Len(s) : line[i + k] = s[k]
    BY <1>12 DEF Mentions
  <2> DEFINE check == line_start + i
  <2>2. Len(s) \in Nat /\ Len(s) > 0
    BY <1>0, Bytes
  <2>3. check \in line_start..(line_end - 1)
    BY <1>1, <1>9, <2>2
  <2>4. ASSUME NEW k \in 1..Len(s) PROVE check + k - 1 < line_end /\ data[check + k - 1] = s[k]
    <3>1. i + k \in 1..n /\ line_start + (i + k) - 1 = check + k - 1
      BY <1>1, <1>9, <2>2
    <3>2. line[i + k] = file[c + (i + k)]
      BY <1>9, <3>1
    <3>3. file[c + (i + k)] = data[line_start + (i + k) - 1]
      BY <1>3, <3>1
    <3>4. check + k - 1 < line_end
      BY <1>1, <3>1
    <3> QED BY <2>1, <3>1, <3>2, <3>3, <3>4
  <2>5. WordAt(check)
    BY <2>4 DEF WordAt
  <2> QED BY <2>3, <2>5 DEF Found
<1> QED BY <1>7, <1>10, <1>11, <1>12 DEF line

LEMMA ZeroIsNoEnd == ZERO # EOL
BY Zenon DEF ZERO, EOL

LEMMA ReadCore ==
  ASSUME SearchCore, Read
  PROVE  SearchCore'
<1> DEFINE n == IF BUFSIZE - last <= Len(file) - offset THEN BUFSIZE - last
                                                        ELSE Len(file) - offset
           stop == IF 0 < n /\ n < BUFSIZE - last THEN {last + n} ELSE {}
<1>0. SearchTypes
  BY DEF SearchCore
<1>1. /\ pc = "read" /\ pc' = "line" /\ cnt' = n /\ offset' = offset + n /\ last' = last + n
      /\ data' = [i \in DOMAIN data |->
                    CASE i \in last..(last + n - 1) -> file[offset + i - last + 1]
                      [] i \in stop -> ZERO
                      [] OTHER -> data[i]]
      /\ line_start' = 0 /\ UNCHANGED <<file, s, found, junk>>
  BY DEF Read
<1>2. /\ BUFSIZE \in Nat /\ BUFSIZE > 0 /\ Len(file) \in Nat
      /\ offset \in 0..Len(file) /\ last \in 0..BUFSIZE /\ last <= offset /\ last < BUFSIZE
  BY <1>0, <1>1, Bytes DEF SearchCore, SearchTypes
<1>3. /\ n \in Nat /\ offset + n \in 0..Len(file) /\ last + n \in 0..BUFSIZE
      /\ last + n <= offset + n /\ (last + n < BUFSIZE \/ n = 0 => offset + n = Len(file))
  BY <1>2
<1>14. \A i \in stop : i = last + n
  OBVIOUS
<1> HIDE DEF n, stop
<1>4. \A i \in last..(last + n - 1) : offset + i - last + 1 \in 1..Len(file)
  BY <1>2, <1>3
<1>5. DOMAIN data = 0..BUFSIZE
  BY <1>0 DEF SearchTypes
<1>6. /\ \A i \in last..(last + n - 1) : data'[i] = file[offset + i - last + 1]
      /\ \A i \in 0..BUFSIZE :
           i \notin last..(last + n - 1) => data'[i] = data[i] \/ data'[i] = ZERO
      /\ \A i \in 0..(last - 1) : data'[i] = data[i]
  <2>1. \A i \in last..(last + n - 1) : i \in 0..BUFSIZE /\ i \notin stop
    BY <1>2, <1>3, <1>14
  <2>2. \A i \in 0..(last - 1) :
          i \in 0..BUFSIZE /\ i \notin stop /\ i \notin last..(last + n - 1)
    BY <1>2, <1>3, <1>14
  <2>3. \A i \in 0..BUFSIZE :
          data'[i] = CASE i \in last..(last + n - 1) -> file[offset + i - last + 1]
                       [] i \in stop -> ZERO
                       [] OTHER -> data[i]
    BY <1>1, <1>5
  <2>4. \A i \in last..(last + n - 1) : data'[i] = file[offset + i - last + 1]
    BY <2>1, <2>3
  <2>5. \A i \in 0..BUFSIZE :
          i \notin last..(last + n - 1) => data'[i] = data[i] \/ data'[i] = ZERO
    BY <2>3
  <2>6. \A i \in 0..(last - 1) : data'[i] = data[i]
    BY <2>2, <2>3
  <2> QED BY <2>4, <2>5, <2>6
<1>7. SearchTypes'
  <2>1. data' \in [0..BUFSIZE -> Stack \cup Range(file) \cup {ZERO}]
    <3>1. ASSUME NEW i \in 0..BUFSIZE PROVE data'[i] \in Stack \cup Range(file) \cup {ZERO}
      <4>1. CASE i \in last..(last + n - 1)
        BY <1>0, <1>4, <1>6, <4>1, Bytes
      <4>2. CASE i \notin last..(last + n - 1)
        BY <1>0, <1>6, <4>2 DEF SearchTypes
      <4> QED BY <4>1, <4>2
    <3> QED BY <1>1, <1>5, <3>1
  <2> QED BY <1>0, <1>1, <1>3, <2>1 DEF SearchTypes
<1>8. data'[BUFSIZE] # EOL
  <2>1. BUFSIZE \in 0..BUFSIZE /\ BUFSIZE \notin last..(last + n - 1)
    BY <1>2, <1>3
  <2> QED BY <1>6, <2>1, ZeroIsNoEnd DEF SearchCore
<1>9. Begin' = 0 /\ Begin = 0 /\ Consumed' = Consumed
  <2>1. Begin' = 0 /\ Begin = 0
    BY <1>1 DEF Begin
  <2>2. (offset + n) - (last + n) + 0 = offset - last + 0
    BY <1>2, <1>3
  <2> QED BY <1>1, <2>1, <2>2 DEF Consumed
<1>10. ASSUME NEW i \in 0..((last + n) - 1)
       PROVE  data'[i] = file[(offset + n) - (last + n) + i + 1]
  <2>1. CASE i < last
    <3>1. i \in 0..(last - 1)
      BY <1>2, <2>1
    <3>2. data[i] = file[offset - last + i + 1]
      BY <1>9, <3>1 DEF SearchCore
    <3>3. (offset + n) - (last + n) + i + 1 = offset - last + i + 1
      BY <1>2, <1>3
    <3> QED BY <1>6, <3>1, <3>2, <3>3
  <2>2. CASE i >= last
    <3>1. i \in last..(last + n - 1)
      BY <1>2, <1>3, <2>2
    <3>2. (offset + n) - (last + n) + i + 1 = offset + i - last + 1
      BY <1>2, <1>3
    <3> QED BY <1>6, <3>1, <3>2
  <2> QED BY <1>2, <2>1, <2>2
<1>11. \A i \in Begin'..(last' - 1) : data'[i] = file'[offset' - last' + i + 1]
  BY <1>1, <1>9, <1>10
<1>12. /\ line_start' <= last' /\ (line_start' # 0 => line_start' < last')
       /\ (last' < BUFSIZE \/ cnt' = 0) => offset' = Len(file')
  BY <1>1, <1>2, <1>3
<1>13. Boundary(file, Consumed)' /\ AreLines(found, file, Hits(file, s, Consumed))'
  <2>1. Boundary(file, Consumed) /\ AreLines(found, file, Hits(file, s, Consumed))
    BY DEF SearchCore
  <2> QED BY <1>1, <1>9, <2>1
<1> QED BY <1>1, <1>7, <1>8, <1>11, <1>12, <1>13 DEF SearchCore

LEMMA MoveCore ==
  ASSUME SearchCore, MoveLine
  PROVE  SearchCore'
<1>0. SearchTypes
  BY DEF SearchCore
<1>1. /\ pc = "line" /\ pc' = "read" /\ data' = MovedDown(Cut) /\ last' = last - line_start
      /\ UNCHANGED <<file, s, offset, line_start, cnt, found, junk>>
      /\ data[line_end] # EOL /\ line_start # 0
  BY DEF MoveLine, MustMove
<1>2. /\ BUFSIZE \in Nat /\ Len(file) \in Nat /\ line_start \in Nat
      /\ offset \in 0..Len(file) /\ last \in 0..BUFSIZE /\ last <= offset
      /\ line_start < last
  BY <1>0, <1>1, Bytes DEF SearchCore, SearchTypes
<1>3. line_end = last
  BY <1>1, LineEndInBuffer
<1> DEFINE n == last - line_start
           text == [k \in 1..n |-> file[Consumed + k]]
<1>4. StringAt(Cut, line_start) = text
  BY <1>1, <1>2, <1>3, CutString
<1>5. n \in Nat /\ n > 0 /\ n < BUFSIZE
  BY <1>1, <1>2
<1>6. Consumed = offset - last + line_start /\ Consumed \in Nat
  BY <1>1, <1>2, Live
<1>7. \A k \in 1..n : Consumed + k \in 1..Len(file)
  BY <1>2, <1>6
<1>8. text \in Seq(Range(file) \cup {ZERO}) /\ Len(text) = n
  <2>1. \A k \in 1..n : file[Consumed + k] \in Range(file) \cup {ZERO}
    BY <1>0, <1>7, Bytes
  <2> QED BY <1>5, <2>1
<1> DEFINE rest == text \o <<ZERO>>
<1>9. /\ Len(rest) = n + 1 /\ rest[n + 1] = ZERO
      /\ \A k \in 1..n : rest[k] = file[Consumed + k]
  <2>1. \A k \in 1..n : text[k] = file[Consumed + k]
    OBVIOUS
  <2> HIDE DEF text
  <2> QED BY <1>5, <1>8, <2>1
<1>10. data' = [i \in DOMAIN Cut |-> IF i < Len(rest) THEN rest[i + 1] ELSE Cut[i]]
  BY <1>1, <1>4 DEF MovedDown
<1> HIDE DEF rest, text
<1>11. DOMAIN Cut = 0..BUFSIZE /\ \A i \in 0..BUFSIZE : Cut[i] \in Stack \cup Range(file) \cup {ZERO}
  BY <1>1, CutIs
<1>12. \A i \in 0..BUFSIZE : data'[i] = IF i < n + 1 THEN rest[i + 1] ELSE Cut[i]
  BY <1>9, <1>10, <1>11
<1>13. ASSUME NEW i \in 0..(n - 1) PROVE data'[i] = file[Consumed + i + 1]
  <2>1. i \in 0..BUFSIZE /\ i < n + 1 /\ i + 1 \in 1..n /\ Consumed + (i + 1) = Consumed + i + 1
    BY <1>2, <1>5, <1>6
  <2>2. data'[i] = rest[i + 1]
    BY <1>12, <2>1
  <2> QED BY <1>9, <2>1, <2>2
<1>14. SearchTypes'
  <2>1. ASSUME NEW i \in 0..BUFSIZE PROVE data'[i] \in Stack \cup Range(file) \cup {ZERO}
    <3>1. CASE i \in 0..(n - 1)
      <4>1. Consumed + i + 1 \in 1..Len(file)
        BY <1>2, <1>6, <3>1
      <4> QED BY <1>0, <1>13, <3>1, <4>1, Bytes
    <3>2. CASE i = n
      BY <1>5, <1>9, <1>12, <3>2
    <3>3. CASE i > n
      <4>1. ~(i < n + 1)
        BY <1>5, <3>3
      <4> QED BY <1>11, <1>12, <4>1
    <3> QED BY <1>5, <3>1, <3>2, <3>3
  <2>2. data' \in [0..BUFSIZE -> Stack \cup Range(file) \cup {ZERO}]
    BY <1>10, <1>11, <2>1
  <2>3. last' \in 0..BUFSIZE /\ last' <= offset'
    BY <1>1, <1>2, <1>5
  <2> QED BY <1>0, <1>1, <2>2, <2>3 DEF SearchTypes
<1>15. data'[BUFSIZE] # EOL
  <2>1. BUFSIZE \in 0..BUFSIZE /\ ~(BUFSIZE < n + 1)
    BY <1>2, <1>5
  <2>2. data'[BUFSIZE] = Cut[BUFSIZE]
    BY <1>12, <2>1
  <2>3. CASE BUFSIZE = line_end
    BY <1>1, <2>2, <2>3, CutIs, ZeroIsNoEnd
  <2>4. CASE BUFSIZE # line_end
    <3>1. data[BUFSIZE] # EOL
      BY DEF SearchCore
    <3>2. Cut[BUFSIZE] = data[BUFSIZE]
      BY <1>1, <2>1, <2>4, CutIs
    <3> QED BY <2>2, <3>1, <3>2
  <2> QED BY <2>3, <2>4
<1>16. Begin' = 0 /\ Consumed' = Consumed /\ Consumed = offset - last'
  <2>1. Begin' = 0
    BY <1>1 DEF Begin
  <2>2. offset - (last - line_start) + 0 = offset - last + line_start
    BY <1>2
  <2> QED BY <1>1, <1>2, <1>6, <2>1, <2>2 DEF Consumed
<1>17. \A i \in Begin'..(last' - 1) : data'[i] = file'[offset' - last' + i + 1]
  BY <1>1, <1>13, <1>16
<1>18. Boundary(file, Consumed)' /\ AreLines(found, file, Hits(file, s, Consumed))'
  <2>1. Boundary(file, Consumed) /\ AreLines(found, file, Hits(file, s, Consumed))
    BY DEF SearchCore
  <2> QED BY <1>1, <1>16, <2>1
<1> QED BY <1>1, <1>5, <1>14, <1>15, <1>17, <1>18 DEF SearchCore

\* A line that reaches the end of the buffer and is not moved is the last one.
LEMMA LastLine ==
  ASSUME SearchCore, LinesFit, pc = "line", ~MustMove, line_end = last
  PROVE  offset = Len(file)
<1>0. SearchTypes
  BY DEF SearchCore
<1>1. /\ BUFSIZE \in Nat /\ BUFSIZE > 0 /\ Len(file) \in Nat /\ line_start \in Nat
      /\ offset \in 0..Len(file) /\ last \in 0..BUFSIZE /\ last <= offset
  BY <1>0, Bytes DEF SearchTypes
<1>2. SUFFICES ASSUME offset # Len(file) PROVE FALSE
  OBVIOUS
<1>3. last = BUFSIZE /\ cnt # 0
  BY <1>1, <1>2 DEF SearchCore
<1>4. data[line_end] # EOL
  BY <1>3 DEF SearchCore
<1>5. line_start = 0
  BY <1>3, <1>4 DEF MustMove
<1>6. line_start < last
  BY <1>1, <1>3, <1>5
<1> DEFINE b == Consumed + 1
           e == LineEnd(file, b)
<1>7. Consumed = offset - BUFSIZE /\ Consumed \in 0..(Len(file) - 1) /\ b \in 1..Len(file)
  BY <1>1, <1>3, <1>5, <1>6, Live
<1>8. file \in Seq(Range(file))
  BY <1>0, Bytes
<1>9. b \in LineStarts(file)
  <2>1. Boundary(file, Consumed) /\ Consumed # Len(file)
    BY <1>1, <1>7 DEF SearchCore
  <2>2. b - 1 = Consumed /\ (Consumed = 0 => b = 1)
    BY <1>7
  <2> QED BY <1>7, <2>1, <2>2 DEF Boundary, LineStarts
<1>10. /\ e \in b..(Len(file) + 1) /\ (e = Len(file) + 1 \/ file[e] = EOL)
       /\ \A k \in b..(e - 1) : file[k] # EOL
  <2> HIDE DEF b
  <2> QED BY <1>7, <1>8, LineEndIs
<1>11. Len(Line(file, b)) = e - b
  <2> HIDE DEF b, e
  <2> QED BY <1>7, <1>8, <1>10, LineIs
<1>12. e - b < BUFSIZE
  BY <1>9, <1>11 DEF LinesFit
<1>13. e <= offset /\ e # Len(file) + 1 /\ e - b \in 0..(BUFSIZE - 1)
  BY <1>1, <1>7, <1>10, <1>12
<1>14. data[e - b] # EOL
  <2>1. e - b \in line_start..(line_end - 1)
    BY <1>3, <1>5, <1>13
  <2> QED BY <2>1, LineEndInBuffer
<1>15. data[e - b] = file[e]
  <2>1. e - b \in line_start..(last - 1)
    BY <1>3, <1>5, <1>13
  <2>2. Consumed + ((e - b) - line_start) + 1 = e
    <3>1. Consumed \in Int /\ e \in Int
      BY <1>7, <1>10
    <3> HIDE DEF e
    <3> QED BY <1>5, <3>1
  <2> QED BY <1>6, <2>1, <2>2, Live
<1> QED BY <1>10, <1>13, <1>14, <1>15

LEMMA SearchLineCore ==
  ASSUME SearchCore, LinesFit, SearchLine
  PROVE  SearchCore'
<1>0. SearchTypes
  BY DEF SearchCore
<1>1. /\ pc = "line" /\ ~MustMove /\ data' = Cut /\ line_start' = line_end + 1
      /\ found' = IF Found THEN Append(found, StringAt(Cut, line_start)) ELSE found
      /\ IF line_end + 1 < last
           THEN UNCHANGED <<last, pc>>
           ELSE last' = 0 /\ pc' = IF cnt = 0 THEN "done" ELSE "read"
      /\ UNCHANGED <<file, s, offset, cnt, junk>>
  BY DEF SearchLine
<1>2. /\ BUFSIZE \in Nat /\ BUFSIZE > 0 /\ Len(file) \in Nat /\ line_start \in Nat
      /\ offset \in 0..Len(file) /\ last \in 0..BUFSIZE /\ last <= offset
      /\ line_end \in line_start..last /\ line_start <= last
      /\ (line_start # 0 => line_start < last)
      /\ ((last < BUFSIZE \/ cnt = 0) => offset = Len(file))
      /\ found \in Seq({Line(file, i) : i \in LineStarts(file)})
      /\ file \in Seq(Range(file))
  <2>1. /\ BUFSIZE \in Nat /\ BUFSIZE > 0 /\ Len(file) \in Nat /\ file \in Seq(Range(file))
    BY <1>0, Bytes
  <2>2. line_end \in line_start..last
    BY <1>1, LineEndInBuffer
  <2>3. /\ line_start \in Nat /\ offset \in 0..Len(file) /\ last \in 0..BUFSIZE
        /\ last <= offset /\ found \in Seq({Line(file, i) : i \in LineStarts(file)})
    BY <1>0 DEF SearchTypes
  <2>4. /\ line_start <= last /\ (line_start # 0 => line_start < last)
        /\ ((last < BUFSIZE \/ cnt = 0) => offset = Len(file))
    BY <1>1 DEF SearchCore
  <2> QED BY <2>1, <2>2, <2>3, <2>4
<1>3. pc' = "line" <=> line_end + 1 < last
  BY <1>1
<1>4. /\ Boundary(file, Consumed)
      /\ AreLines(found, file, Hits(file, s, Consumed))
      /\ Consumed = offset - last + line_start
  BY <1>1 DEF SearchCore, Consumed, Begin
<1>5. Consumed' = IF line_end < last THEN Consumed + 1 + (line_end - line_start) ELSE offset
  <2>1. CASE line_end + 1 < last
    <3>1. Consumed' = offset - last + (line_end + 1) /\ line_end < last
      BY <1>1, <1>2, <2>1 DEF Consumed, Begin
    <3> QED BY <1>2, <1>4, <3>1
  <2>2. CASE ~(line_end + 1 < last)
    <3>1. Consumed' = offset - 0 + 0
      BY <1>1, <2>2 DEF Consumed, Begin
    <3>2. line_end < last => line_end + 1 = last
      BY <1>2, <2>2
    <3> QED BY <1>2, <1>4, <3>1, <3>2
  <2> QED BY <2>1, <2>2
<1>6. line_end = last => offset = Len(file)
  BY <1>1, LastLine
<1>7. line_start < last =>
        /\ Consumed \in 0..(Len(file) - 1)
        /\ LineEnd(file, Consumed + 1) = Consumed + 1 + (line_end - line_start)
        /\ Line(file, Consumed + 1) = StringAt(Cut, line_start)
        /\ Found <=> Mentions(Line(file, Consumed + 1), s)
  BY <1>1, <1>2, <1>6, WholeLine, Live
<1>8. line_start < last => /\ Consumed' \in (Consumed + 1)..Len(file)
                           /\ Consumed' <= LineEnd(file, Consumed + 1)
  BY <1>2, <1>4, <1>5, <1>6, <1>7
<1>9. line_start < last => /\ Consumed + 1 \in LineStarts(file)
                           /\ Hits(file, s, Consumed') = Hits(file, s, Consumed) \cup
                                (IF Mentions(Line(file, Consumed + 1), s) THEN {Consumed + 1} ELSE {})
  BY <1>2, <1>4, <1>7, <1>8, HitsNext
<1>10. Boundary(file, Consumed)'
  <2>1. Boundary(file, Consumed')
    <3>1. CASE line_end = last
      <4>1. ~(line_end < last)
        BY <1>2, <3>1
      <4> QED BY <1>5, <1>6, <3>1, <4>1 DEF Boundary
    <3>2. CASE line_end < last
      <4>1. line_start < last
        BY <1>2, <3>2
      <4>2. Consumed' = LineEnd(file, Consumed + 1)
        BY <1>5, <1>7, <3>2, <4>1
      <4>3. Consumed + 1 \in 1..Len(file) /\ Consumed' \in 1..Len(file)
        BY <1>2, <1>7, <1>8, <4>1
      <4>4. file[LineEnd(file, Consumed + 1)] = EOL
        <5> DEFINE b == Consumed + 1
        <5>1. b \in 1..Len(file)
          BY <4>3
        <5> HIDE DEF b
        <5>2. LineEnd(file, b) = Len(file) + 1 \/ file[LineEnd(file, b)] = EOL
          BY <1>2, <5>1, LineEndIs
        <5> QED BY <1>2, <4>2, <4>3, <5>2 DEF b
      <4> QED BY <4>2, <4>4 DEF Boundary
    <3> QED BY <1>2, <3>1, <3>2
  <2> QED BY <1>1, <2>1 DEF Boundary
<1>11. found' \in Seq({Line(file, i) : i \in LineStarts(file)})
  <2>1. CASE line_start < last
    <3>1. Line(file, Consumed + 1) \in {Line(file, i) : i \in LineStarts(file)}
      BY <1>9, <2>1
    <3>2. StringAt(Cut, line_start) \in {Line(file, i) : i \in LineStarts(file)}
      BY <1>7, <2>1, <3>1
    <3> QED BY <1>1, <1>2, <3>2
  <2>2. CASE line_start = last
    <3>1. ~Found
      BY <1>2, <2>2 DEF Found
    <3> QED BY <1>1, <1>2, <3>1
  <2> QED BY <1>2, <2>1, <2>2
<1>12. AreLines(found', file, Hits(file, s, Consumed'))
  <2>1. CASE line_start < last
    <3>1. CASE Found
      <4> DEFINE i == Consumed + 1
      <4>1. Hits(file, s, Consumed') = Hits(file, s, Consumed) \cup {i}
        BY <1>7, <1>9, <2>1, <3>1
      <4>2. found' = Append(found, Line(file, i))
        BY <1>1, <1>7, <2>1, <3>1
      <4>3. i \in Nat /\ Hits(file, s, Consumed) \subseteq Nat
        BY <1>7, <2>1 DEF Hits, LineStarts
      <4>4. \A j \in Hits(file, s, Consumed) : j < i
        BY <1>7, <2>1, <4>3 DEF Hits
      <4> HIDE DEF i
      <4>5. AreLines(Append(found, Line(file, i)), file, Hits(file, s, Consumed) \cup {i})
        BY <1>2, <1>4, <4>3, <4>4, AppendLines
      <4> QED BY <4>1, <4>2, <4>5
    <3>2. CASE ~Found
      <4>1. Hits(file, s, Consumed') = Hits(file, s, Consumed)
        BY <1>7, <1>9, <2>1, <3>2
      <4> QED BY <1>1, <1>4, <3>2, <4>1
    <3> QED BY <3>1, <3>2
  <2>2. CASE line_start = last
    <3>1. ~Found /\ line_end = last
      BY <1>2, <2>2 DEF Found
    <3>2. Consumed' = Consumed
      BY <1>2, <1>4, <1>5, <2>2, <3>1
    <3> QED BY <1>1, <1>4, <3>1, <3>2
  <2> QED BY <1>2, <2>1, <2>2
<1>13. AreLines(found, file, Hits(file, s, Consumed))'
  BY <1>1, <1>12
<1>14. SearchTypes'
  <2>1. data' \in [0..BUFSIZE -> Stack \cup Range(file) \cup {ZERO}]
    BY <1>1, CutIs
  <2>2. last' \in 0..BUFSIZE /\ last' <= offset' /\ line_start' \in Nat
    BY <1>1, <1>2
  <2>3. pc' \in {"read", "line", "done"}
    BY <1>1
  <2> QED BY <1>0, <1>1, <1>11, <2>1, <2>2, <2>3 DEF SearchTypes
<1>15. data'[BUFSIZE] # EOL
  <2>1. BUFSIZE \in 0..BUFSIZE
    BY <1>2
  <2>2. CASE BUFSIZE = line_end
    BY <1>1, <2>2, CutIs, ZeroIsNoEnd
  <2>3. CASE BUFSIZE # line_end
    BY <1>1, <2>1, <2>3, CutIs DEF SearchCore
  <2> QED BY <2>2, <2>3
<1>16. \A i \in Begin'..(last' - 1) : data'[i] = file'[offset' - last' + i + 1]
  <2>1. CASE line_end + 1 < last
    <3>1. Begin' = line_end + 1 /\ last' = last /\ offset' = offset /\ file' = file
      BY <1>1, <2>1 DEF Begin
    <3>2. ASSUME NEW i \in (line_end + 1)..(last - 1) PROVE data'[i] = file[offset - last + i + 1]
      <4>1. i \in Begin..(last - 1) /\ i \in 0..BUFSIZE /\ i # line_end
        BY <1>1, <1>2 DEF Begin
      <4>2. data'[i] = data[i]
        BY <1>1, <4>1, CutIs
      <4> QED BY <4>1, <4>2 DEF SearchCore
    <3> QED BY <3>1, <3>2
  <2>2. CASE ~(line_end + 1 < last)
    <3>1. Begin' = 0 /\ last' = 0
      BY <1>1, <2>2 DEF Begin
    <3> QED BY <3>1
  <2> QED BY <2>1, <2>2
<1>17. pc' = "read" => last' < BUFSIZE
  BY <1>1, <1>2
<1>18. pc' = "line" => /\ line_start' <= last' /\ (line_start' # 0 => line_start' < last')
                       /\ (last' < BUFSIZE \/ cnt' = 0) => offset' = Len(file')
  BY <1>1, <1>2
<1>19. pc' = "done" => Consumed' = Len(file')
  <2> SUFFICES ASSUME pc' = "done" PROVE Consumed' = Len(file)
    BY <1>1
  <2>1. cnt = 0 /\ ~(line_end + 1 < last)
    BY <1>1
  <2>2. offset = Len(file)
    BY <1>2, <2>1
  <2>3. line_end < last => line_end + 1 = last
    BY <1>2, <2>1
  <2>4. Consumed' = offset
    BY <1>2, <1>4, <1>5, <2>3
  <2> QED BY <2>2, <2>4
<1> QED BY <1>10, <1>13, <1>14, <1>15, <1>16, <1>17, <1>18, <1>19 DEF SearchCore

LEMMA NoLines == AreLines(<<>>, file, {})
<1> DEFINE none == [k \in 1..0 |-> 0]
<1>1. none \in [1..0 -> {}] /\ Len(<<>>) = 0
  OBVIOUS
<1> QED BY <1>1 DEF AreLines

LEMMA SearchInitInv == AlgorithmsInit => SearchInv
<1>1. ASSUME SearchInit, junk # EOL PROVE SearchCore
  <2>0. BUFSIZE \in Nat /\ BUFSIZE > 0
    BY SearchAssumption
  <2>1. file \in Seq(Range(file)) /\ Len(file) \in Nat
    BY <1>1, SearchAssumption DEF SearchInit
  <2>2. SearchTypes
    <3>1. data \in [0..BUFSIZE -> Stack \cup Range(file) \cup {ZERO}]
      BY <1>1 DEF SearchInit
    <3>2. <<>> \in Seq({Line(file, i) : i \in LineStarts(file)})
      OBVIOUS
    <3> QED BY <1>1, <2>0, <2>1, <3>1, <3>2 DEF SearchInit, SearchTypes
  <2>3. Begin = 0 /\ Consumed = 0
    BY <1>1 DEF SearchInit, Begin, Consumed
  <2>4. Hits(file, s, 0) = {}
    BY DEF Hits, LineStarts
  <2>5. AreLines(found, file, Hits(file, s, Consumed))
    BY <1>1, <2>3, <2>4, NoLines DEF SearchInit
  <2>6. data[BUFSIZE] # EOL
    BY <1>1 DEF SearchInit
  <2> QED BY <1>1, <2>0, <2>2, <2>3, <2>5, <2>6 DEF SearchInit, SearchCore, Boundary
<1> QED BY <1>1 DEF AlgorithmsInit, SearchInv

LEMMA SearchStepInv == SearchInv /\ [AlgorithmsNext]_algorithm_vars => SearchInv'
<1> SUFFICES ASSUME SearchInv, [AlgorithmsNext]_algorithm_vars PROVE SearchInv'
  OBVIOUS
<1>1. CASE UNCHANGED <<search_vars, program>>
  BY <1>1 DEF search_vars, SearchInv, SearchIdle, LinesFit, SearchCore, SearchTypes, Begin, Consumed
<1>2. CASE Grep
  <2>1. program = "grep" /\ program' = "grep" /\ do_one_file
    BY <1>2 DEF Grep
  <2>2. UNCHANGED <<file, junk>>
    BY <2>1 DEF do_one_file, Read, MoveLine, SearchLine
  <2>3. LinesFit' <=> LinesFit
    BY <2>2 DEF LinesFit
  <2>4. ASSUME LinesFit, junk # EOL PROVE SearchCore'
    <3>1. SearchCore
      BY <2>1, <2>4 DEF SearchInv
    <3> QED BY <2>1, <2>4, <3>1, ReadCore, MoveCore, SearchLineCore DEF do_one_file
  <2> QED BY <2>1, <2>2, <2>3, <2>4 DEF SearchInv
<1> QED BY <1>1, <1>2 DEF AlgorithmsNext, Fish, algorithm_vars

\* do_one_file of grep, for a buffer of any size, any text and any word: when
\* the search ends, what was written are the lines that contain the word, each
\* once, whole and in order, whatever the reads cut, if every line fits and
\* data[BUFSIZE] was no EOL.
THEOREM GrepExact == AlgorithmsSpec => []SearchExact
<1>1. SearchInv => SearchExact
  <2> SUFFICES ASSUME SearchInv, pc = "done", LinesFit, junk # EOL
               PROVE  AreLines(found, file, {i \in LineStarts(file) : Mentions(Line(file, i), s)})
    BY DEF SearchExact
  <2>1. CASE program = "fish" /\ SearchIdle
    <3>1. file = <<>> /\ found = <<>>
      BY <2>1 DEF SearchIdle
    <3>2. LineStarts(file) = {}
      <4>1. Len(file) = 0
        BY <3>1
      <4> QED BY <4>1 DEF LineStarts
    <3> QED BY <3>1, <3>2, NoLines
  <2>2. CASE SearchCore
    <3>1. AreLines(found, file, Hits(file, s, Len(file)))
      BY <2>2 DEF SearchCore
    <3>2. Len(file) \in Nat
      BY <2>2, Bytes DEF SearchCore
    <3>3. Hits(file, s, Len(file)) = {i \in LineStarts(file) : Mentions(Line(file, i), s)}
      BY <3>2 DEF Hits, LineStarts
    <3> QED BY <3>1, <3>3
  <2> QED BY <2>1, <2>2 DEF SearchInv
<1> QED BY <1>1, SearchInitInv, SearchStepInv, PTL DEF AlgorithmsSpec
=============================================================================
