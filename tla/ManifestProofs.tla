--------------------------- MODULE ManifestProofs ---------------------------
(***************************************************************************)
(* Proofs about ManifestScan: in every regular document, whatever its      *)
(* length, the scanner finds what ManifestNesting reads.                   *)
(***************************************************************************)
EXTENDS ManifestNesting, FiniteSetTheorems, WellFoundedInduction, TLAPS

-----------------------------------------------------------------------------
(* Sets of lines, read in order.                                            *)

(* A line after all others comes last in their order.                       *)
LEMMA InOrderAppends ==
    ASSUME NEW S \in SUBSET Nat, IsFiniteSet(S), NEW i \in Nat, \A j \in S : j < i
    PROVE  /\ Cardinality(S) \in Nat
           /\ InOrder(S \union {i}) =
                 [n \in 1..(Cardinality(S) + 1) |->
                     IF n = Cardinality(S) + 1 THEN i ELSE InOrder(S)[n]]
<1> DEFINE T == S \union {i}
<1>1. /\ i \notin S /\ Cardinality(S) \in Nat
      /\ IsFiniteSet(T) /\ Cardinality(T) = Cardinality(S) + 1
  BY FS_AddElement, FS_CardinalityType
<1>2. ASSUME NEW x \in S
      PROVE  /\ {j \in T : j <= x} = {j \in S : j <= x}
             /\ Cardinality({j \in S : j <= x}) \in Nat
             /\ Cardinality({j \in S : j <= x}) <= Cardinality(S)
  <2>1. x < i /\ ~(i <= x)
    OBVIOUS
  <2>2. {j \in T : j <= x} = {j \in S : j <= x}
    BY <2>1, Zenon
  <2>. QED
    BY <2>2, FS_Subset, FS_CardinalityType
<1>3. {j \in T : j <= i} = T
  <2>1. \A j \in T : j <= i
    OBVIOUS
  <2>. QED
    BY <2>1
<1>4. ASSUME NEW n \in 1..Cardinality(S) PROVE Ranked(T, n) = Ranked(S, n)
  <2>1. Cardinality({j \in T : j <= i}) # n
    BY <1>1, <1>3
  <2>2. \A x \in S : Cardinality({j \in T : j <= x}) = Cardinality({j \in S : j <= x})
    BY <1>2
  <2> HIDE DEF T
  <2>3. \A x : x \in T <=> x \in S \/ x = i
    BY DEF T
  <2>. QED
    BY <1>1, <2>1, <2>2, <2>3, Zenon DEF Ranked
<1>5. Ranked(T, Cardinality(S) + 1) = {i}
  <2>1. ASSUME NEW x \in S PROVE Cardinality({j \in T : j <= x}) # Cardinality(S) + 1
    BY <1>1, <1>2
  <2>2. Cardinality({j \in T : j <= i}) = Cardinality(S) + 1
    BY <1>1, <1>3
  <2> HIDE DEF T
  <2>3. \A x : x \in T <=> x \in S \/ x = i
    BY DEF T
  <2>. QED
    BY <1>1, <2>1, <2>2, <2>3, Zenon DEF Ranked
<1> DEFINE pick(n) == CHOOSE x \in Ranked(T, n) : TRUE
<1>6. ASSUME NEW n \in 1..(Cardinality(S) + 1)
      PROVE  pick(n) = IF n = Cardinality(S) + 1 THEN i ELSE InOrder(S)[n]
  <2>1. CASE n \in 1..Cardinality(S)
    <3>1. pick(n) = InOrder(S)[n]
      BY <1>4, <2>1 DEF InOrder
    <3> HIDE DEF pick
    <3>. QED
      BY <1>1, <2>1, <3>1
  <2>2. CASE n = Cardinality(S) + 1
    BY <1>5, <2>2
  <2>. QED
    BY <1>1, <2>1, <2>2
<1>7. InOrder(T) = [n \in 1..(Cardinality(S) + 1) |-> pick(n)]
  BY <1>1 DEF InOrder
<1> HIDE DEF pick, T
<1>8. InOrder(T) = [n \in 1..(Cardinality(S) + 1) |->
                       IF n = Cardinality(S) + 1 THEN i ELSE InOrder(S)[n]]
  BY <1>6, <1>7
<1>. QED
  BY <1>1, <1>8 DEF T

(* Every set of numbers has a least one: what takes the place of induction. *)
LEMMA LeastNatural ==
    ASSUME NEW S \in SUBSET Nat, S # {}
    PROVE  \E x \in S : \A y \in S : x <= y
<1>1. PICK x \in S : \A y \in S : ~ (<<y, x>> \in OpToRel(<, Nat))
  BY NatLessThanWellFounded, WFMin
<1>2. \A y \in S : ~ (y < x)
  BY <1>1 DEF OpToRel
<1>. QED
  BY <1>2

(* The lines of a document.                                                 *)
LEMMA LineFacts ==
    ASSUME NEW d \in Seq(LineType), NEW i \in DOMAIN d
    PROVE  /\ i \in Nat /\ i >= 1 /\ i <= Len(d) /\ 1..(i - 1) \subseteq DOMAIN d
           /\ d[i].indent \in Nat /\ d[i].dash \in BOOLEAN /\ d[i].key \in STRING
           /\ d[i].value \in Seq(STRING)
<1>1. d[i] \in LineType
  OBVIOUS
<1>2. d[i] \in [indent : Nat, dash : BOOLEAN, key : STRING, value : Seq(STRING)]
  BY <1>1, Zenon DEF LineType
<1>. QED
  BY <1>2

(* A list with one more element, as a function.                             *)
LEMMA AppendIs ==
    ASSUME NEW n \in Nat, NEW s, s = [k \in 1..n |-> s[k]], NEW x
    PROVE  Append(s, x) = [k \in 1..(n + 1) |-> IF k = n + 1 THEN x ELSE s[k]]
<1>1. s \in Seq({s[k] : k \in 1..n})
  <2> DEFINE A == {s[k] : k \in 1..n}
  <2>1. \A k \in 1..n : s[k] \in A
    OBVIOUS
  <2> HIDE DEF A
  <2>2. s \in [1..n -> A]
    BY <2>1
  <2>. QED
    BY <2>2 DEF A
<1>2. Len(s) = n
  BY <1>1
<1>. QED
  BY <1>1, <1>2

(* The greatest of some lines is the one that came last.                    *)
LEMMA MaxIsLast ==
    ASSUME NEW S \in SUBSET Nat, NEW i \in S, \A j \in S : j <= i
    PROVE  Max(S) = i
<1>1. ASSUME NEW x \in S, \A j \in S : x >= j PROVE x = i
  BY <1>1
<1>2. \A j \in S : i >= j
  OBVIOUS
<1>. QED
  BY <1>1, <1>2 DEF Max

LEMMA MaxIsIn ==
    ASSUME NEW S \in SUBSET Nat, S # {}, NEW n \in Nat, \A j \in S : j <= n
    PROVE  Max(S) \in S /\ \A j \in S : j <= Max(S)
<1> DEFINE T == {n - j : j \in S}
<1>1. T \in SUBSET Nat /\ T # {}
  <2>1. \A j \in S : n - j \in Nat
    OBVIOUS
  <2>. QED
    BY <2>1, Zenon
<1>2. PICK x \in T : \A y \in T : x <= y
  <2> HIDE DEF T
  <2>. QED
    BY <1>1, LeastNatural
<1>3. PICK i \in S : x = n - i
  BY <1>2
<1>4. \A j \in S : n - i <= n - j
  BY <1>2, <1>3
<1>5. \A j \in S : j <= i
  BY <1>4
<1>. QED
  BY <1>5, MaxIsLast

(* Lines in order are those lines, each after the one before it.            *)
Ordered(S) ==
    /\ InOrder(S) \in [1..Cardinality(S) -> S]
    /\ \A n, k \in 1..Cardinality(S) : n < k => InOrder(S)[n] < InOrder(S)[k]
    /\ \A i \in S : \E n \in 1..Cardinality(S) : InOrder(S)[n] = i

LEMMA InOrderIsOrdered ==
    ASSUME NEW S \in SUBSET Nat, NEW b \in Nat, \A j \in S : j < b
    PROVE  Ordered(S)
<1> DEFINE Wrong(n) == \E R \in SUBSET Nat : (\A j \in R : j < n) /\ ~Ordered(R)
           T == {n \in Nat : Wrong(n)}
<1>1. SUFFICES ASSUME T # {} PROVE FALSE
  <2>1. Wrong(b) => T # {}
    OBVIOUS
  <2>. QED
    BY <1>1, <2>1
<1>2. PICK n \in T : \A k \in T : n <= k
  <2> HIDE DEF T
  <2>1. T \in SUBSET Nat
    BY DEF T
  <2>. QED
    BY <1>1, <2>1, LeastNatural
<1>3. PICK R \in SUBSET Nat : (\A j \in R : j < n) /\ ~Ordered(R)
  BY <1>2
<1>4. n \in Nat /\ n # 0
  <2> DEFINE pick(k) == CHOOSE i \in Ranked({}, k) : TRUE
  <2>1. Cardinality({}) = 0 /\ 1..0 = {}
    BY FS_EmptySet
  <2>4. InOrder({}) = [k \in {} |-> pick(k)]
    BY <2>1 DEF InOrder
  <2> HIDE DEF pick
  <2>2. Ordered({})
    BY <2>1, <2>4 DEF Ordered
  <2>3. n = 0 => R = {}
    BY <1>3
  <2>. QED
    BY <1>3, <2>2, <2>3
<1>5. ASSUME NEW Q \in SUBSET Nat, \A j \in Q : j < n - 1 PROVE Ordered(Q)
  <2>1. n - 1 \in Nat /\ n - 1 \notin T
    BY <1>2, <1>4
  <2>. QED
    BY <1>5, <2>1
<1> DEFINE i == n - 1
           Q == R \ {i}
<1>6. /\ i \in Nat /\ Q \in SUBSET Nat /\ (\A j \in Q : j < i) /\ IsFiniteSet(Q)
      /\ i \in R /\ R = Q \union {i}
  <2>1. i \in Nat /\ Q \in SUBSET Nat /\ \A j \in Q : j < i
    BY <1>3, <1>4
  <2>2. i \in R
    BY <1>3, <1>4, <1>5
  <2>3. IsFiniteSet(Q)
    <3>1. \A j \in Q : j <= i
      BY <2>1
    <3> HIDE DEF Q, i
    <3>. QED
      BY <2>1, <3>1, FS_BoundedSetOfNaturals
  <2>. QED
    BY <2>1, <2>2, <2>3
<1>7. Ordered(Q)
  BY <1>5, <1>6
<1> DEFINE N == Cardinality(Q)
<1> HIDE DEF i, Q
<1>8. /\ N \in Nat
      /\ InOrder(R) = [k \in 1..(N + 1) |-> IF k = N + 1 THEN i ELSE InOrder(Q)[k]]
      /\ Cardinality(R) = N + 1
  <2>1. i \notin Q
    BY <1>6
  <2>. QED
    BY <1>6, <2>1, InOrderAppends, FS_AddElement, FS_CardinalityType
<1>9. Ordered(R)
  <2>1. \A k \in 1..(N + 1) : k # N + 1 => k \in 1..N
    BY <1>8
  <2> HIDE DEF N
  <2>2. /\ InOrder(Q) \in [1..N -> Q]
        /\ \A k, l \in 1..N : k < l => InOrder(Q)[k] < InOrder(Q)[l]
        /\ \A x \in Q : \E k \in 1..N : InOrder(Q)[k] = x
    BY <1>7 DEF Ordered, N
  <2>3. InOrder(R) \in [1..(N + 1) -> R]
    BY <1>6, <1>8, <2>1, <2>2
  <2>4. ASSUME NEW k \in 1..(N + 1), NEW l \in 1..(N + 1), k < l
        PROVE  InOrder(R)[k] < InOrder(R)[l]
    <3>1. k \in 1..N /\ k # N + 1
      BY <1>8, <2>4
    <3>2. InOrder(R)[k] = InOrder(Q)[k] /\ InOrder(Q)[k] \in Q
      BY <1>8, <2>2, <3>1
    <3>3. CASE l = N + 1
      <4>1. InOrder(R)[l] = i
        BY <1>8, <3>3
      <4>. QED
        BY <1>6, <3>2, <4>1
    <3>4. CASE l # N + 1
      <4>1. l \in 1..N /\ InOrder(R)[l] = InOrder(Q)[l]
        BY <1>8, <2>1, <3>4
      <4>. QED
        BY <2>2, <2>4, <3>1, <3>2, <4>1
    <3>. QED
      BY <3>3, <3>4
  <2>5. ASSUME NEW x \in R PROVE \E k \in 1..(N + 1) : InOrder(R)[k] = x
    <3>1. CASE x = i
      BY <1>8, <3>1
    <3>2. CASE x \in Q
      <4>1. PICK k \in 1..N : InOrder(Q)[k] = x
        BY <2>2, <3>2
      <4>2. k \in 1..(N + 1) /\ k # N + 1
        BY <1>8
      <4>. QED
        BY <1>8, <4>1, <4>2
    <3>. QED
      BY <1>6, <3>1, <3>2
  <2>. QED
    BY <1>8, <2>3, <2>4, <2>5 DEF Ordered
<1>. QED
  BY <1>3, <1>9

LEMMA LastInOrder ==
    ASSUME NEW S \in SUBSET Nat, NEW i \in S, \A j \in S : j <= i
    PROVE  LET n == Cardinality(S) IN
           /\ n \in Nat \ {0} /\ DOMAIN InOrder(S) = 1..n
           /\ InOrder(S)[n] = i
           /\ \A k \in 1..n : k # n => InOrder(S)[k] \in S \ {i}
<1> DEFINE n == Cardinality(S)
<1>1. IsFiniteSet(S) /\ n \in Nat
  BY FS_BoundedSetOfNaturals, FS_CardinalityType
<1>2. Ordered(S)
  <2>1. i + 1 \in Nat /\ \A j \in S : j < i + 1
    OBVIOUS
  <2>. QED
    BY <2>1, InOrderIsOrdered
<1> HIDE DEF n
<1>3. /\ InOrder(S) \in [1..n -> S]
      /\ \A k, l \in 1..n : k < l => InOrder(S)[k] < InOrder(S)[l]
      /\ \E k \in 1..n : InOrder(S)[k] = i
  BY <1>2 DEF Ordered, n
<1>4. PICK k \in 1..n : InOrder(S)[k] = i
  BY <1>3
<1>5. n \in 1..n /\ n # 0
  BY <1>1
<1>6. InOrder(S)[n] \in S
  BY <1>3, <1>5
<1>7. k = n
  <2>1. k < n => i < InOrder(S)[n]
    BY <1>3, <1>4, <1>5
  <2>2. i \in Nat /\ InOrder(S)[n] \in Nat
    BY <1>6
  <2>. QED
    BY <1>1, <1>6, <2>1, <2>2
<1>8. ASSUME NEW l \in 1..n, l # n PROVE InOrder(S)[l] \in S \ {i}
  <2>1. l < n /\ InOrder(S)[l] \in S
    BY <1>1, <1>3, <1>8
  <2>2. InOrder(S)[l] < i
    BY <1>3, <1>4, <1>7, <2>1
  <2>. QED
    BY <2>1, <2>2
<1>. QED
  BY <1>1, <1>3, <1>4, <1>5, <1>7, <1>8 DEF n

LEMMA LatestIsLast ==
    ASSUME NEW d, NEW S \in SUBSET Nat, NEW i \in Nat, \A j \in S : j < i
    PROVE  Latest(d, S \union {i}) = d[i].value
<1> DEFINE T == S \union {i}
<1>1. T \in SUBSET Nat /\ i \in T /\ \A j \in T : j <= i
  OBVIOUS
<1>2. Max(T) = i
  <2> HIDE DEF T
  <2>. QED
    BY <1>1, MaxIsLast
<1>. QED
  BY <1>1, <1>2 DEF Latest

-----------------------------------------------------------------------------
(* One more line of a document.                                             *)

(* A line that is no comment is the nearest above the next, for every       *)
(* column it reaches.                                                       *)
LEMMA OpenerStep ==
    ASSUME NEW d \in Seq(LineType), NEW i \in DOMAIN d, NEW c \in Nat
    PROVE  /\ Opener(d, 1, c) = 0
           /\ Opener(d, i + 1, c) =
                 IF ~Comment(d[i]) /\ d[i].indent <= c THEN i ELSE Opener(d, i, c)
<1>0. i \in Nat /\ i >= 1
  OBVIOUS
<1>1. Outer(d, 1, c) = {}
  BY DEF Outer
<1>2. CASE ~Comment(d[i]) /\ d[i].indent <= c
  <2>1. /\ i \in Outer(d, i + 1, c) /\ \A k \in Outer(d, i + 1, c) : k <= i
        /\ Outer(d, i + 1, c) \in SUBSET Nat
    BY <1>0, <1>2 DEF Outer
  <2>2. Max(Outer(d, i + 1, c)) = i
    BY <2>1, MaxIsLast
  <2>. QED
    BY <1>1, <1>2, <2>1, <2>2 DEF Opener
<1>3. CASE ~(~Comment(d[i]) /\ d[i].indent <= c)
  <2>1. Outer(d, i + 1, c) = Outer(d, i, c)
    BY <1>0, <1>3 DEF Outer
  <2>. QED
    BY <1>1, <1>3, <2>1 DEF Opener
<1>. QED
  BY <1>2, <1>3

(* The nearest line above is above, and the one above it is above both.     *)
LEMMA OpenerIsAbove ==
    ASSUME NEW d \in Seq(LineType), NEW i \in DOMAIN d, NEW c \in Nat
    PROVE  LET j == Opener(d, i, c) IN
           /\ j \in 0..(i - 1)
           /\ j # 0 => j \in DOMAIN d /\ ~Comment(d[j]) /\ d[j].indent <= c
           /\ \A k \in 1..(i - 1) : ~Comment(d[k]) /\ d[k].indent <= c => k <= j
           /\ j # 0 => \A b \in Nat : b < d[j].indent => Opener(d, i, b) = Opener(d, j, b)
<1> DEFINE j == Opener(d, i, c)
           S == Outer(d, i, c)
<1>0. i \in Nat /\ i >= 1 /\ i <= Len(d)
  OBVIOUS
<1>1. S \in SUBSET Nat /\ \A k \in S : k <= i
  BY <1>0 DEF Outer
<1>2. CASE S = {}
  <2>1. j = 0
    BY <1>2 DEF Opener
  <2>. QED
    BY <1>0, <1>2, <2>1 DEF Outer
<1>3. CASE S # {}
  <2>1. j \in S /\ \A k \in S : k <= j
    <3> HIDE DEF S
    <3>1. Max(S) \in S /\ \A k \in S : k <= Max(S)
      BY <1>0, <1>1, <1>3, MaxIsIn
    <3>. QED
      BY <1>3, <3>1 DEF Opener, S
  <2>2. /\ j \in 1..(i - 1) /\ j \in DOMAIN d /\ ~Comment(d[j]) /\ d[j].indent <= c
        /\ \A k \in 1..(i - 1) : ~Comment(d[k]) /\ d[k].indent <= c => k <= j
    BY <1>0, <2>1 DEF Outer
  <2>3. ASSUME NEW b \in Nat, b < d[j].indent PROVE Opener(d, i, b) = Opener(d, j, b)
    <3> HIDE DEF j
    <3>0. d[j].indent \in Nat
      BY <2>2, LineFacts
    <3>1. \A k \in Outer(d, i, b) : k <= j /\ k # j
      <4>1. \A k \in 1..(i - 1) : d[k].indent \in Nat
        BY <1>0, LineFacts
      <4>. QED
        BY <2>2, <2>3, <3>0, <4>1 DEF Outer
    <3>2. Outer(d, i, b) = Outer(d, j, b)
      BY <1>0, <2>2, <3>1 DEF Outer
    <3>. QED
      BY <3>2 DEF Opener
  <2>. QED
    BY <2>2, <2>3
<1>. QED
  BY <1>2, <1>3

LEMMA LabelStep ==
    ASSUME NEW d \in Seq(LineType), NEW i \in DOMAIN d, NEW c \in Nat
    PROVE  /\ Label(d, 1, c) = ""
           /\ Label(d, i + 1, c) =
                 IF ~Comment(d[i]) /\ d[i].indent <= c
                 THEN IF d[i].indent = c THEN KeyOf(d[i]) ELSE ""
                 ELSE Label(d, i, c)
<1>1. i # 0
  OBVIOUS
<1>. QED
  BY <1>1, OpenerStep DEF Label

(* The lines at a place, before and after line i.                           *)
Adds(d, i, where) == ~Comment(d[i]) /\ d[i].dash /\ Place(d, i) = where
Sets(d, i, where, key) == ~Comment(d[i]) /\ ~d[i].dash /\ d[i].key = key /\ Place(d, i) = where

LEMMA ItemLinesStep ==
    ASSUME NEW d \in Seq(LineType), NEW i \in DOMAIN d, NEW where
    PROVE  /\ ItemLines(d, Places(d, i), where) \in SUBSET Nat
           /\ IsFiniteSet(ItemLines(d, Places(d, i), where))
           /\ \A j \in ItemLines(d, Places(d, i), where) : j < i
           /\ Adds(d, i, where) =>
                 ItemLines(d, Places(d, i + 1), where) = ItemLines(d, Places(d, i), where) \union {i}
           /\ ~Adds(d, i, where) =>
                 ItemLines(d, Places(d, i + 1), where) = ItemLines(d, Places(d, i), where)
<1> DEFINE items(n) == {j \in 1..(n - 1) : Adds(d, j, where)}
<1>0. i \in Nat /\ i >= 1
  OBVIOUS
<1>1. ASSUME NEW n PROVE ItemLines(d, Places(d, n), where) = items(n)
  BY DEF ItemLines, Places, Adds
<1>2. items(i) \in SUBSET Nat /\ \A j \in items(i) : j < i
  BY <1>0
<1>3. IsFiniteSet(items(i))
  <2>1. \A j \in items(i) : j <= i
    BY <1>0, <1>2
  <2>. QED
    BY <1>0, <1>2, <2>1, FS_BoundedSetOfNaturals
<1>4. /\ Adds(d, i, where) => items(i + 1) = items(i) \union {i}
      /\ ~Adds(d, i, where) => items(i + 1) = items(i)
  BY <1>0
<1> HIDE DEF items
<1>. QED
  BY <1>1, <1>2, <1>3, <1>4

LEMMA KeyLinesStep ==
    ASSUME NEW d \in Seq(LineType), NEW i \in DOMAIN d, NEW where, NEW key
    PROVE  /\ KeyLines(d, Places(d, i), where, key) \in SUBSET Nat
           /\ \A j \in KeyLines(d, Places(d, i), where, key) : j < i
           /\ Sets(d, i, where, key) =>
                 KeyLines(d, Places(d, i + 1), where, key)
                    = KeyLines(d, Places(d, i), where, key) \union {i}
           /\ ~Sets(d, i, where, key) =>
                 KeyLines(d, Places(d, i + 1), where, key) = KeyLines(d, Places(d, i), where, key)
<1> DEFINE keyed(n) == {j \in 1..(n - 1) : Sets(d, j, where, key)}
<1>0. i \in Nat /\ i >= 1
  OBVIOUS
<1>1. ASSUME NEW n PROVE KeyLines(d, Places(d, n), where, key) = keyed(n)
  BY DEF KeyLines, Places, Sets
<1>2. keyed(i) \in SUBSET Nat /\ \A j \in keyed(i) : j < i
  BY <1>0
<1>3. /\ Sets(d, i, where, key) => keyed(i + 1) = keyed(i) \union {i}
      /\ ~Sets(d, i, where, key) => keyed(i + 1) = keyed(i)
  BY <1>0
<1> HIDE DEF keyed
<1>. QED
  BY <1>1, <1>2, <1>3

(* What a line does to a list that has an entry f[h] for every item h.      *)
Listed(S, f) == [n \in DOMAIN InOrder(S) |-> f[InOrder(S)[n]]]

LEMMA ListStep ==
    ASSUME NEW d \in Seq(LineType), NEW i \in DOMAIN d, NEW where, NEW f, NEW g
    PROVE  LET S == ItemLines(d, Places(d, i), where)
               T == ItemLines(d, Places(d, i + 1), where)
           IN /\ Adds(d, i, where) /\ (\A j \in S : g[j] = f[j]) =>
                    /\ Listed(T, g) = Append(Listed(S, f), g[i])
                    /\ Cardinality(T) = Len(Listed(S, f)) + 1
              /\ ~Adds(d, i, where) => T = S
              /\ ~Adds(d, i, where) /\ (\A j \in S : g[j] = f[j]) => Listed(T, g) = Listed(S, f)
<1> DEFINE S == ItemLines(d, Places(d, i), where)
           T == ItemLines(d, Places(d, i + 1), where)
           N == Cardinality(S)
<1>0. /\ S \in SUBSET Nat /\ IsFiniteSet(S) /\ (\A j \in S : j < i) /\ i \in Nat
      /\ Adds(d, i, where) => T = S \union {i}
      /\ ~Adds(d, i, where) => T = S
  BY ItemLinesStep, LineFacts
<1> HIDE DEF S, T
<1>1. N \in Nat /\ Ordered(S)
  BY <1>0, FS_CardinalityType, InOrderIsOrdered
<1>2. DOMAIN InOrder(S) = 1..N /\ \A n \in 1..N : InOrder(S)[n] \in S
  BY <1>1 DEF Ordered
<1> HIDE DEF N
<1>3. ASSUME Adds(d, i, where), \A j \in S : g[j] = f[j]
      PROVE  Listed(T, g) = Append(Listed(S, f), g[i]) /\ Cardinality(T) = Len(Listed(S, f)) + 1
  <2>1. InOrder(T) = [n \in 1..(N + 1) |-> IF n = N + 1 THEN i ELSE InOrder(S)[n]]
    BY <1>0, <1>3, InOrderAppends DEF N
  <2> DEFINE old == Listed(S, f)
  <2>2. old = [n \in 1..N |-> old[n]] /\ \A n \in 1..N : old[n] = f[InOrder(S)[n]]
    BY <1>2 DEF Listed
  <2> HIDE DEF old
  <2>3. Append(old, g[i]) = [n \in 1..(N + 1) |-> IF n = N + 1 THEN g[i] ELSE old[n]]
    BY <1>1, <2>2, AppendIs
  <2> DEFINE t == InOrder(T)
  <2>4. DOMAIN t = 1..(N + 1) /\ t[N + 1] = i /\ \A n \in 1..N : t[n] = InOrder(S)[n]
    BY <1>1, <2>1
  <2>5. Listed(T, g) = [n \in 1..(N + 1) |-> g[t[n]]]
    BY <2>4 DEF Listed
  <2> HIDE DEF t
  <2>6. \A n \in 1..(N + 1) : g[t[n]] = IF n = N + 1 THEN g[i] ELSE old[n]
    <3>1. \A n \in 1..N : g[t[n]] = old[n]
      BY <1>2, <1>3, <2>2, <2>4
    <3>. QED
      BY <1>1, <2>4, <3>1
  <2>7. Len(old) = N
    BY <1>1, <2>2
  <2>8. Cardinality(T) = N + 1
    BY <1>0, <1>3, FS_AddElement, SMTT(30) DEF N
  <2>. QED
    BY <2>3, <2>5, <2>6, <2>7, <2>8 DEF old
<1>4. ASSUME ~Adds(d, i, where), \A j \in S : g[j] = f[j] PROVE Listed(T, g) = Listed(S, f)
  BY <1>0, <1>2, <1>4 DEF Listed
<1>. QED
  BY <1>0, <1>3, <1>4 DEF S, T, N

(* The last item of a list has changed, the others not.                     *)
Changed(s, n, x) == [s EXCEPT ![n] = x]

LEMMA ListChanges ==
    ASSUME NEW d \in Seq(LineType), NEW i \in DOMAIN d, NEW where, NEW f, NEW g,
           ~Adds(d, i, where), NEW h \in ItemLines(d, Places(d, i), where),
           \A j \in ItemLines(d, Places(d, i), where) : j <= h,
           \A j \in ItemLines(d, Places(d, i), where) \ {h} : g[j] = f[j]
    PROVE  LET S == ItemLines(d, Places(d, i), where)
               T == ItemLines(d, Places(d, i + 1), where)
               n == Cardinality(S)
           IN /\ T = S /\ n # 0 /\ Listed(S, f)[n] = f[h]
              /\ Listed(T, g) = Changed(Listed(S, f), n, g[h])
<1> DEFINE S == ItemLines(d, Places(d, i), where)
           T == ItemLines(d, Places(d, i + 1), where)
           N == Cardinality(S)
<1>1. S \in SUBSET Nat /\ T = S /\ (\A j \in S : j < i) /\ i \in Nat /\ h \in S
      /\ (\A j \in S : j <= h) /\ \A j \in S \ {h} : g[j] = f[j]
  BY ItemLinesStep, LineFacts
<1> HIDE DEF S, T
<1>2. DOMAIN InOrder(S) = 1..N
  BY DEF InOrder
<1>3. /\ N \in Nat \ {0} /\ InOrder(S)[N] = h
      /\ \A k \in 1..N : k # N => InOrder(S)[k] \in S \ {h}
  BY <1>1, LastInOrder DEF N
<1>4. T = S
  BY <1>1
<1> HIDE DEF N
<1> DEFINE s == InOrder(S)
<1>5. DOMAIN s = 1..N /\ s[N] = h /\ \A k \in 1..N : k # N => s[k] \in S \ {h}
  BY <1>2, <1>3
<1>6. Listed(T, g) = [n \in 1..N |-> g[s[n]]] /\ Listed(S, f) = [n \in 1..N |-> f[s[n]]]
  BY <1>4, <1>5 DEF Listed
<1> HIDE DEF s
<1>7. \A n \in 1..N : g[s[n]] = IF n = N THEN g[h] ELSE f[s[n]]
  BY <1>1, <1>5
<1> DEFINE a == Listed(S, f)
<1>8. N \in 1..N /\ a = [n \in 1..N |-> a[n]] /\ \A n \in 1..N : a[n] = f[s[n]]
  BY <1>3, <1>6
<1> HIDE DEF a
<1>9. Changed(a, N, g[h]) = [n \in 1..N |-> IF n = N THEN g[h] ELSE a[n]]
  BY <1>8 DEF Changed
<1>10. T = S /\ N # 0 /\ Listed(S, f)[N] = f[h] /\ Listed(T, g) = Changed(Listed(S, f), N, g[h])
  <2>1. [n \in 1..N |-> g[s[n]]] = [n \in 1..N |-> IF n = N THEN g[h] ELSE a[n]]
    BY <1>7, <1>8
  <2>2. Listed(T, g) = Changed(a, N, g[h])
    BY <1>6, <1>9, <2>1
  <2>3. a[N] = f[h]
    BY <1>5, <1>8
  <2>. QED
    BY <1>3, <1>4, <2>2, <2>3 DEF a
<1>. QED
  BY <1>10 DEF S, T, N

(* Only lines of the document are listed.                                   *)
LEMMA LinesListed ==
    ASSUME NEW d \in Seq(LineType), NEW i \in DOMAIN d, NEW n \in {i, i + 1}, NEW where
    PROVE  LET s == InOrder(ItemLines(d, Places(d, n), where)) IN \A k \in DOMAIN s : s[k] \in DOMAIN d
<1> DEFINE S == ItemLines(d, Places(d, n), where)
<1>1. S \in SUBSET Nat /\ S \subseteq DOMAIN d /\ \A j \in S : j < i + 1
  BY LineFacts, ItemLinesStep DEF ItemLines, Places
<1>2. i + 1 \in Nat
  BY LineFacts
<1> HIDE DEF S
<1>3. Ordered(S)
  BY <1>1, <1>2, InOrderIsOrdered
<1>. QED
  BY <1>1, <1>3 DEF Ordered, S

(* What a line adds to a list, and to the value of a key.                   *)
LEMMA ItemsStep ==
    ASSUME NEW d \in Seq(LineType), NEW i \in DOMAIN d, NEW where
    PROVE  /\ Adds(d, i, where) =>
                 ItemsAt(d, Places(d, i + 1), where)
                    = Append(ItemsAt(d, Places(d, i), where), Item(d[i]))
           /\ ~Adds(d, i, where) =>
                 ItemsAt(d, Places(d, i + 1), where) = ItemsAt(d, Places(d, i), where)
<1> DEFINE f == [j \in DOMAIN d |-> Item(d[j])]
<1>1. ASSUME NEW n \in {i, i + 1}
      PROVE  ItemsAt(d, Places(d, n), where) = Listed(ItemLines(d, Places(d, n), where), f)
  <2> DEFINE s == InOrder(ItemLines(d, Places(d, n), where))
  <2>1. \A k \in DOMAIN s : s[k] \in DOMAIN d
    BY LinesListed
  <2>2. /\ ItemsAt(d, Places(d, n), where) = [k \in DOMAIN s |-> Item(d[s[k]])]
        /\ Listed(ItemLines(d, Places(d, n), where), f) = [k \in DOMAIN s |-> f[s[k]]]
    BY DEF ItemsAt, Each, Listed
  <2> HIDE DEF s
  <2>. QED
    BY <2>1, <2>2
<1>2. f[i] = Item(d[i])
  OBVIOUS
<1> HIDE DEF f
<1>. QED
  BY <1>1, <1>2, ListStep

LEMMA ValueStep ==
    ASSUME NEW d \in Seq(LineType), NEW i \in DOMAIN d, NEW where, NEW key
    PROVE  /\ Sets(d, i, where, key) =>
                 ValueAt(d, Places(d, i + 1), where, key) = d[i].value
           /\ ~Sets(d, i, where, key) =>
                 ValueAt(d, Places(d, i + 1), where, key) = ValueAt(d, Places(d, i), where, key)
<1> DEFINE S == KeyLines(d, Places(d, i), where, key)
<1>1. i \in Nat
  OBVIOUS
<1>2. S \in SUBSET Nat /\ \A j \in S : j < i
  BY KeyLinesStep
<1>3. Latest(d, S \union {i}) = d[i].value
  <2> HIDE DEF S
  <2>. QED
    BY <1>1, <1>2, LatestIsLast
<1>. QED
  <2>1. /\ Sets(d, i, where, key) => KeyLines(d, Places(d, i + 1), where, key) = S \union {i}
        /\ ~Sets(d, i, where, key) => KeyLines(d, Places(d, i + 1), where, key) = S
    BY KeyLinesStep
  <2>. QED
    BY <1>3, <2>1 DEF ValueAt

(* The lines of an item, before and after line i.                           *)
LEMMA InsideStep ==
    ASSUME NEW d \in Seq(LineType), NEW i \in DOMAIN d, NEW h, NEW where, NEW key
    PROVE  LET S == Inside(d, Places(d, i), h, where, key)
               T == Inside(d, Places(d, i + 1), h, where, key)
               in == Sets(d, i, where, key) /\ Opener(d, i, d[h].indent) = h
           IN /\ S \in SUBSET Nat /\ \A j \in S : j < i
              /\ in => T = S \union {i}
              /\ ~in => T = S
<1> DEFINE K == KeyLines(d, Places(d, i), where, key)
           L == KeyLines(d, Places(d, i + 1), where, key)
<1>1. K \in SUBSET Nat /\ \A j \in K : j < i
  BY KeyLinesStep
<1>2. (Sets(d, i, where, key) => L = K \union {i}) /\ (~Sets(d, i, where, key) => L = K)
  BY KeyLinesStep
<1> HIDE DEF K, L
<1>. QED
  BY <1>1, <1>2 DEF Inside, K, L

-----------------------------------------------------------------------------
(* What a line does to the verifier whose item it stands in.                *)
InVerifier == <<"verifiers", "-">>
InPolicy == <<"verifiers", "-", "policy">>
InSuccess == <<"verifiers", "-", "success">>

(* The places are different.                                                *)
LEMMA VerifierPlaces ==
    /\ InVerifier # InPolicy /\ InVerifier # InSuccess /\ InPolicy # InSuccess
    /\ <<"verifiers">> \notin {InVerifier, InPolicy, InSuccess}
  BY DEF InVerifier, InPolicy, InSuccess

LEMMA VerifierStep ==
    ASSUME NEW d \in Seq(LineType), NEW i \in DOMAIN d, NEW h, d[h].indent = 2
    PROVE  LET V == VerifierAt(d, Places(d, i), h)
               W == VerifierAt(d, Places(d, i + 1), h)
               own == ~Comment(d[i]) /\ ~d[i].dash /\ Opener(d, i, 2) = h
           IN /\ ~(own /\ Place(d, i) \in {InVerifier, InPolicy, InSuccess}) => W = V
              /\ own /\ Place(d, i) = InVerifier => W = VerifierField(V, d[i].key, d[i].value)
              /\ own /\ Place(d, i) = InPolicy => W = PolicyField(V, d[i].key, d[i].value)
              /\ own /\ Place(d, i) = InSuccess =>
                    W = IF d[i].key = "exit_code" THEN [V EXCEPT !.exit_code = Number(d[i].value)]
                        ELSE V
<1> DEFINE P == Places(d, i)
           Q == Places(d, i + 1)
           V == VerifierAt(d, P, h)
           W == VerifierAt(d, Q, h)
           own == ~Comment(d[i]) /\ ~d[i].dash /\ Opener(d, i, 2) = h
           At(where, key) == own /\ Place(d, i) = where /\ d[i].key = key
           Pol(p, key) == {j \in Inside(d, p, h, InPolicy, key) :
                              \A k \in Inside(d, p, h, InVerifier, "policy") : k < j}
<1>1. ASSUME NEW where, NEW key
      PROVE  /\ At(where, key) =>
                   Latest(d, Inside(d, Q, h, where, key)) = d[i].value
             /\ ~At(where, key) => Inside(d, Q, h, where, key) = Inside(d, P, h, where, key)
  <2> DEFINE S == Inside(d, P, h, where, key)
             T == Inside(d, Q, h, where, key)
  <2>1. S \in SUBSET Nat /\ (\A j \in S : j < i) /\ i \in Nat
    BY InsideStep, LineFacts
  <2>2. (At(where, key) => T = S \union {i}) /\ (~At(where, key) => T = S)
    <3>1. At(where, key) <=> Sets(d, i, where, key) /\ Opener(d, i, d[h].indent) = h
      BY DEF Sets
    <3> HIDE DEF At
    <3>. QED
      BY <3>1, InsideStep
  <2> HIDE DEF S, T
  <2>. QED
    BY <2>1, <2>2, LatestIsLast DEF S, T
<1>2. At(InVerifier, "policy") => /\ Inside(d, Q, h, InVerifier, "policy") # {}
                                  /\ \A key : Pol(Q, key) = {}
  <2> SUFFICES ASSUME At(InVerifier, "policy")
               PROVE  /\ Inside(d, Q, h, InVerifier, "policy") # {}
                      /\ \A key : Pol(Q, key) = {}
    OBVIOUS
  <2>1. i \in Inside(d, Q, h, InVerifier, "policy")
    <3>1. Inside(d, Q, h, InVerifier, "policy") = Inside(d, P, h, InVerifier, "policy") \union {i}
      BY InsideStep DEF Sets
    <3>. QED
      BY <3>1
  <2>2. ASSUME NEW key PROVE \A j \in Inside(d, Q, h, InPolicy, key) : j < i /\ j \in Nat
    <3>1. Inside(d, Q, h, InPolicy, key) = Inside(d, P, h, InPolicy, key)
      BY <1>1, VerifierPlaces
    <3>. QED
      BY <3>1, InsideStep
  <2>3. ASSUME NEW key, NEW j \in Pol(Q, key) PROVE FALSE
    <3>1. j < i /\ j \in Nat /\ i < j
      BY <2>1, <2>2
    <3>. QED
      BY <3>1, LineFacts
  <2>. QED
    BY <2>1, <2>3
<1>3. ~At(InVerifier, "policy") =>
         Inside(d, Q, h, InVerifier, "policy") = Inside(d, P, h, InVerifier, "policy")
  BY <1>1
<1>4. ASSUME NEW key, ~At(InVerifier, "policy"), ~At(InPolicy, key)
      PROVE  Pol(Q, key) = Pol(P, key)
  BY <1>1, <1>4
<1>5. ASSUME NEW key, At(InPolicy, key) PROVE Latest(d, Pol(Q, key)) = d[i].value
  <2>1. /\ Inside(d, Q, h, InPolicy, key) = Inside(d, P, h, InPolicy, key) \union {i}
        /\ Inside(d, P, h, InPolicy, key) \in SUBSET Nat
        /\ \A j \in Inside(d, P, h, InPolicy, key) : j < i
    <3>1. Sets(d, i, InPolicy, key) /\ Opener(d, i, d[h].indent) = h
      BY <1>5 DEF Sets
    <3>. QED
      BY <3>1, InsideStep
  <2>2. /\ Inside(d, Q, h, InVerifier, "policy") = Inside(d, P, h, InVerifier, "policy")
        /\ \A k \in Inside(d, P, h, InVerifier, "policy") : k < i
    BY <1>1, <1>5, VerifierPlaces, InsideStep
  <2>3. Pol(Q, key) = Pol(P, key) \union {i}
    BY <2>1, <2>2
  <2>4. Pol(P, key) \in SUBSET Nat /\ \A j \in Pol(P, key) : j < i
    BY <2>1
  <2> HIDE DEF Pol
  <2>5. i \in Nat
    BY LineFacts
  <2>. QED
    BY <2>3, <2>4, <2>5, LatestIsLast
<1> DEFINE L(p, where, key) == Latest(d, Inside(d, p, h, where, key))
           R(p) == [type |-> d[h].value, name |-> L(p, InVerifier, "name"),
                    cmd |-> L(p, InVerifier, "cmd"), run |-> L(p, InVerifier, "run"),
                    cwd |-> L(p, InVerifier, "cwd"), schemaRef |-> L(p, InVerifier, "schemaRef"),
                    policy |-> [declared |-> Inside(d, p, h, InVerifier, "policy") # {},
                                executable |-> Latest(d, Pol(p, "executable")),
                                cwd |-> Latest(d, Pol(p, "cwd")),
                                timeout_ms |-> Number(Latest(d, Pol(p, "timeout_ms")))],
                    exit_code |-> Number(L(p, InSuccess, "exit_code"))]
<1>6. V = R(P) /\ W = R(Q)
  BY DEF VerifierAt, InVerifier, InPolicy, InSuccess
<1>7. ASSUME NEW where, NEW key
      PROVE  L(Q, where, key) = IF At(where, key) THEN d[i].value ELSE L(P, where, key)
  BY <1>1
<1>8. ASSUME NEW key
      PROVE  Latest(d, Pol(Q, key)) = IF At(InPolicy, key) THEN d[i].value
                                      ELSE IF At(InVerifier, "policy") THEN <<>>
                                      ELSE Latest(d, Pol(P, key))
  <2>1. At(InVerifier, "policy") => ~At(InPolicy, key)
    BY VerifierPlaces
  <2>2. Latest(d, {}) = <<>>
    BY DEF Latest
  <2> HIDE DEF Pol, At
  <2>. QED
    BY <1>2, <1>4, <1>5, <2>1, <2>2
<1>9. At(InVerifier, "policy") => Inside(d, Q, h, InVerifier, "policy") # {}
  BY <1>2
<1> HIDE DEF P, Q, Pol, L
<1>10. ~(own /\ Place(d, i) \in {InVerifier, InPolicy, InSuccess}) => W = V
  <2> SUFFICES ASSUME ~(own /\ Place(d, i) \in {InVerifier, InPolicy, InSuccess})
               PROVE  R(Q) = R(P)
    BY <1>6
  <2>1. \A key : /\ ~At(InVerifier, key) /\ ~At(InPolicy, key) /\ ~At(InSuccess, key)
    OBVIOUS
  <2>2. \A key : /\ L(Q, InVerifier, key) = L(P, InVerifier, key)
                            /\ L(Q, InSuccess, key) = L(P, InSuccess, key)
                            /\ Latest(d, Pol(Q, key)) = Latest(d, Pol(P, key))
    BY <1>7, <1>8, <2>1
  <2>3. Inside(d, Q, h, InVerifier, "policy") = Inside(d, P, h, InVerifier, "policy")
    BY <1>3, <2>1
  <2>4. /\ L(Q, InVerifier, "name") = L(P, InVerifier, "name")
        /\ L(Q, InVerifier, "cmd") = L(P, InVerifier, "cmd")
        /\ L(Q, InVerifier, "run") = L(P, InVerifier, "run")
        /\ L(Q, InVerifier, "cwd") = L(P, InVerifier, "cwd")
        /\ L(Q, InVerifier, "schemaRef") = L(P, InVerifier, "schemaRef")
        /\ L(Q, InSuccess, "exit_code") = L(P, InSuccess, "exit_code")
    BY <2>2
  <2>5. /\ Latest(d, Pol(Q, "executable")) = Latest(d, Pol(P, "executable"))
        /\ Latest(d, Pol(Q, "cwd")) = Latest(d, Pol(P, "cwd"))
        /\ Latest(d, Pol(Q, "timeout_ms")) = Latest(d, Pol(P, "timeout_ms"))
    BY <2>2
  <2>. QED
    BY <2>3, <2>4, <2>5
<1>11. own /\ Place(d, i) = InVerifier => W = VerifierField(V, d[i].key, d[i].value)
  <2> SUFFICES ASSUME own, Place(d, i) = InVerifier
               PROVE  R(Q) = VerifierField(R(P), d[i].key, d[i].value)
    BY <1>6
  <2>1. \A key : /\ At(InVerifier, key) <=> d[i].key = key
                            /\ ~At(InPolicy, key) /\ ~At(InSuccess, key)
    BY VerifierPlaces
  <2>2. \A key :
          /\ L(Q, InVerifier, key) = IF d[i].key = key THEN d[i].value ELSE L(P, InVerifier, key)
          /\ L(Q, InSuccess, key) = L(P, InSuccess, key)
          /\ Latest(d, Pol(Q, key)) = IF d[i].key = "policy" THEN <<>> ELSE Latest(d, Pol(P, key))
    BY <1>7, <1>8, <2>1
  <2>3. CASE d[i].key = "policy"
    <3>1. Number(<<>>) = 0
      BY DEF Number
    <3> DEFINE declared(p) == Inside(d, p, h, InVerifier, "policy") # {}
    <3>4. declared(Q) = TRUE
      BY <1>9, <2>1, <2>3
    <3> HIDE DEF declared
    <3>3. R(Q) = [R(P) EXCEPT !.policy = [declared |-> TRUE, executable |-> <<>>, cwd |-> <<>>,
                                          timeout_ms |-> 0]]
      <4>1. R(Q) = [type |-> d[h].value, name |-> L(Q, InVerifier, "name"),
                    cmd |-> L(Q, InVerifier, "cmd"), run |-> L(Q, InVerifier, "run"),
                    cwd |-> L(Q, InVerifier, "cwd"), schemaRef |-> L(Q, InVerifier, "schemaRef"),
                    policy |-> [declared |-> declared(Q),
                                executable |-> Latest(d, Pol(Q, "executable")),
                                cwd |-> Latest(d, Pol(Q, "cwd")),
                                timeout_ms |-> Number(Latest(d, Pol(Q, "timeout_ms")))],
                    exit_code |-> Number(L(Q, InSuccess, "exit_code"))]
        BY DEF declared
      <4>2. /\ Latest(d, Pol(Q, "executable")) = <<>> /\ Latest(d, Pol(Q, "cwd")) = <<>>
            /\ Number(Latest(d, Pol(Q, "timeout_ms"))) = 0
        BY <2>2, <2>3, <3>1
      <4>3. [declared |-> declared(Q), executable |-> Latest(d, Pol(Q, "executable")),
             cwd |-> Latest(d, Pol(Q, "cwd")),
             timeout_ms |-> Number(Latest(d, Pol(Q, "timeout_ms")))]
              = [declared |-> TRUE, executable |-> <<>>, cwd |-> <<>>, timeout_ms |-> 0]
        BY <3>4, <4>2, Zenon
      <4> DEFINE new == [declared |-> TRUE, executable |-> <<>>, cwd |-> <<>>, timeout_ms |-> 0]
                 before == [declared |-> declared(P), executable |-> Latest(d, Pol(P, "executable")),
                            cwd |-> Latest(d, Pol(P, "cwd")),
                            timeout_ms |-> Number(Latest(d, Pol(P, "timeout_ms")))]
      <4>4. R(P) = [type |-> d[h].value, name |-> L(P, InVerifier, "name"),
                    cmd |-> L(P, InVerifier, "cmd"), run |-> L(P, InVerifier, "run"),
                    cwd |-> L(P, InVerifier, "cwd"), schemaRef |-> L(P, InVerifier, "schemaRef"),
                    policy |-> before, exit_code |-> Number(L(P, InSuccess, "exit_code"))]
        BY DEF declared
      <4>5. R(Q) = [type |-> d[h].value, name |-> L(Q, InVerifier, "name"),
                    cmd |-> L(Q, InVerifier, "cmd"), run |-> L(Q, InVerifier, "run"),
                    cwd |-> L(Q, InVerifier, "cwd"), schemaRef |-> L(Q, InVerifier, "schemaRef"),
                    policy |-> new, exit_code |-> Number(L(Q, InSuccess, "exit_code"))]
        BY <4>1, <4>3, Zenon
      <4>6. /\ L(Q, InVerifier, "name") = L(P, InVerifier, "name")
            /\ L(Q, InVerifier, "cmd") = L(P, InVerifier, "cmd")
            /\ L(Q, InVerifier, "run") = L(P, InVerifier, "run")
            /\ L(Q, InVerifier, "cwd") = L(P, InVerifier, "cwd")
            /\ L(Q, InVerifier, "schemaRef") = L(P, InVerifier, "schemaRef")
            /\ L(Q, InSuccess, "exit_code") = L(P, InSuccess, "exit_code")
        BY <2>2, <2>3
      <4> HIDE DEF new, before, R
      <4>7. R(Q) = [R(P) EXCEPT !.policy = new]
        BY <4>4, <4>5, <4>6
      <4>. QED
        BY <4>7 DEF new
    <3>. QED
      BY <2>3, <3>3, ZenonT(30) DEF VerifierField, NoPolicy
  <2>4. CASE d[i].key # "policy"
    <3>1. Inside(d, Q, h, InVerifier, "policy") = Inside(d, P, h, InVerifier, "policy")
      BY <1>3, <2>1, <2>4
    <3>2. CASE d[i].key = "name"
      BY <2>2, <3>1, <3>2 DEF VerifierField
    <3>3. CASE d[i].key = "cmd"
      BY <2>2, <3>1, <3>3 DEF VerifierField
    <3>4. CASE d[i].key = "run"
      BY <2>2, <3>1, <3>4 DEF VerifierField
    <3>5. CASE d[i].key = "cwd"
      BY <2>2, <3>1, <3>5 DEF VerifierField
    <3>6. CASE d[i].key = "schemaRef"
      BY <2>2, <3>1, <3>6 DEF VerifierField
    <3>7. CASE d[i].key \notin {"name", "cmd", "run", "cwd", "schemaRef"}
      BY <2>2, <2>4, <3>1, <3>7 DEF VerifierField
    <3>. QED
      BY <3>2, <3>3, <3>4, <3>5, <3>6, <3>7
  <2>. QED
    BY <2>3, <2>4
<1>12. own /\ Place(d, i) = InPolicy => W = PolicyField(V, d[i].key, d[i].value)
  <2> SUFFICES ASSUME own, Place(d, i) = InPolicy
               PROVE  R(Q) = PolicyField(R(P), d[i].key, d[i].value)
    BY <1>6
  <2>1. \A key : /\ At(InPolicy, key) <=> d[i].key = key
                            /\ ~At(InVerifier, key) /\ ~At(InSuccess, key)
    BY VerifierPlaces
  <2>2. \A key :
          /\ L(Q, InVerifier, key) = L(P, InVerifier, key)
          /\ L(Q, InSuccess, key) = L(P, InSuccess, key)
          /\ Latest(d, Pol(Q, key)) = IF d[i].key = key THEN d[i].value ELSE Latest(d, Pol(P, key))
    BY <1>7, <1>8, <2>1
  <2>3. Inside(d, Q, h, InVerifier, "policy") = Inside(d, P, h, InVerifier, "policy")
    BY <1>3, <2>1
  <2>4. CASE d[i].key = "executable"
    BY <2>2, <2>3, <2>4 DEF PolicyField
  <2>5. CASE d[i].key = "cwd"
    BY <2>2, <2>3, <2>5 DEF PolicyField
  <2>6. CASE d[i].key = "timeout_ms"
    BY <2>2, <2>3, <2>6 DEF PolicyField
  <2>7. CASE d[i].key \notin {"executable", "cwd", "timeout_ms"}
    BY <2>2, <2>3, <2>7 DEF PolicyField
  <2>. QED
    BY <2>4, <2>5, <2>6, <2>7
<1>13. own /\ Place(d, i) = InSuccess =>
          W = IF d[i].key = "exit_code" THEN [V EXCEPT !.exit_code = Number(d[i].value)] ELSE V
  <2> SUFFICES ASSUME own, Place(d, i) = InSuccess
               PROVE  R(Q) = IF d[i].key = "exit_code"
                             THEN [R(P) EXCEPT !.exit_code = Number(d[i].value)] ELSE R(P)
    BY <1>6
  <2>1. \A key : /\ At(InSuccess, key) <=> d[i].key = key
                            /\ ~At(InVerifier, key) /\ ~At(InPolicy, key)
    BY VerifierPlaces
  <2>2. \A key :
          /\ L(Q, InVerifier, key) = L(P, InVerifier, key)
          /\ L(Q, InSuccess, key) = IF d[i].key = key THEN d[i].value ELSE L(P, InSuccess, key)
          /\ Latest(d, Pol(Q, key)) = Latest(d, Pol(P, key))
    BY <1>7, <1>8, <2>1
  <2>3. Inside(d, Q, h, InVerifier, "policy") = Inside(d, P, h, InVerifier, "policy")
    BY <1>3, <2>1
  <2>. QED
    BY <2>2, <2>3
<1>. QED
  BY <1>10, <1>11, <1>12, <1>13 DEF P, Q
(* The same of the pattern that item h begins, with any of its keys.        *)
InPattern == <<"redaction", "patterns", "-">>

LEMMA PatternStep ==
    ASSUME NEW d \in Seq(LineType), NEW i \in DOMAIN d, NEW h \in DOMAIN d, h < i, d[h].indent = 4
    PROVE  LET V == PatternAt(d, Places(d, i), h)
               W == PatternAt(d, Places(d, i + 1), h)
               own == ~Comment(d[i]) /\ ~d[i].dash /\ Opener(d, i, 4) = h
           IN /\ ~(own /\ Place(d, i) = InPattern) => W = V
              /\ own /\ Place(d, i) = InPattern => W = PatternField(V, d[i].key, d[i].value)
<1> DEFINE P == Places(d, i)
           Q == Places(d, i + 1)
           V == PatternAt(d, P, h)
           W == PatternAt(d, Q, h)
           own == ~Comment(d[i]) /\ ~d[i].dash /\ Opener(d, i, 4) = h
           At(key) == own /\ Place(d, i) = InPattern /\ d[i].key = key
           Own(p, key) == Inside(d, p, h, InPattern, key) \union (IF d[h].key = key THEN {h} ELSE {})
           L(p, key) == Latest(d, Own(p, key))
           R(p) == [name |-> L(p, "name"), regex |-> L(p, "regex"),
                    secret_group |-> Number(L(p, "secret_group"))]
<1>1. V = R(P) /\ W = R(Q)
  BY DEF PatternAt, InPattern
<1>2. ASSUME NEW key PROVE L(Q, key) = IF At(key) THEN d[i].value ELSE L(P, key)
  <2> DEFINE S == Inside(d, P, h, InPattern, key)
             T == Inside(d, Q, h, InPattern, key)
             A == Own(P, key)
             B == Own(Q, key)
  <2>1. S \in SUBSET Nat /\ (\A j \in S : j < i) /\ i \in Nat /\ h \in Nat
    BY InsideStep, LineFacts
  <2>2. (At(key) => T = S \union {i}) /\ (~At(key) => T = S)
    <3>1. At(key) <=> Sets(d, i, InPattern, key) /\ Opener(d, i, d[h].indent) = h
      BY DEF Sets
    <3> HIDE DEF At
    <3>. QED
      BY <3>1, InsideStep
  <2> HIDE DEF S, T, At
  <2>3. /\ A = S \union (IF d[h].key = key THEN {h} ELSE {})
        /\ B = T \union (IF d[h].key = key THEN {h} ELSE {})
    BY DEF S, T
  <2> HIDE DEF A, B
  <2>4. A \in SUBSET Nat /\ \A j \in A : j < i
    BY <2>1, <2>3
  <2>5. (At(key) => B = A \union {i}) /\ (~At(key) => B = A)
    BY <2>2, <2>3
  <2>. QED
    BY <2>1, <2>4, <2>5, LatestIsLast, ZenonT(30) DEF A, B
<1> HIDE DEF L
<1>3. ASSUME ~(own /\ Place(d, i) = InPattern) PROVE R(Q) = R(P)
  BY <1>2, <1>3
<1>4. ASSUME own, Place(d, i) = InPattern PROVE R(Q) = PatternField(R(P), d[i].key, d[i].value)
  <2>1. \A key : L(Q, key) = IF d[i].key = key THEN d[i].value ELSE L(P, key)
    BY <1>2, <1>4
  <2>2. CASE d[i].key = "name"
    BY <2>1, <2>2 DEF PatternField
  <2>3. CASE d[i].key = "regex"
    BY <2>1, <2>3 DEF PatternField
  <2>4. CASE d[i].key = "secret_group"
    BY <2>1, <2>4 DEF PatternField
  <2>5. CASE d[i].key \notin {"name", "regex", "secret_group"}
    BY <2>1, <2>5 DEF PatternField
  <2>. QED
    BY <2>2, <2>3, <2>4, <2>5
<1>. QED
  BY <1>1, <1>3, <1>4 DEF P, Q

(* Nothing is inside an item before its line.                               *)
LEMMA NewItem ==
    ASSUME NEW d \in Seq(LineType), NEW i \in DOMAIN d, d[i].dash, NEW where, NEW key
    PROVE  Inside(d, Places(d, i + 1), i, where, key) = {}
<1>1. Inside(d, Places(d, i + 1), i, where, key) = Inside(d, Places(d, i), i, where, key)
  <2>1. ~Sets(d, i, where, key)
    BY DEF Sets
  <2>. QED
    BY <2>1, InsideStep
<1>2. ASSUME NEW j \in Inside(d, Places(d, i), i, where, key) PROVE FALSE
  <2>1. j \in 1..(i - 1) /\ Opener(d, j, d[i].indent) = i
    BY DEF Inside, KeyLines, Places
  <2>2. j \in DOMAIN d /\ d[i].indent \in Nat /\ i \in Nat
    BY <2>1, LineFacts
  <2>3. Opener(d, j, d[i].indent) \in 0..(j - 1)
    BY <2>2, OpenerIsAbove
  <2>. QED
    BY <2>1, <2>2, <2>3
<1>. QED
  BY <1>1, <1>2

LEMMA NewItemIs ==
    ASSUME NEW d \in Seq(LineType), NEW i \in DOMAIN d, d[i].dash
    PROVE  /\ VerifierAt(d, Places(d, i + 1), i) = NewCheck(d[i].value)
           /\ d[i].key \in {"name", "regex", "secret_group"} =>
                 PatternAt(d, Places(d, i + 1), i) = PatternField(NewPattern, d[i].key, d[i].value)
<1> DEFINE Q == Places(d, i + 1)
<1>1. \A where, key : Inside(d, Q, i, where, key) = {}
  BY NewItem
<1>2. Latest(d, {}) = <<>> /\ Number(<<>>) = 0 /\ Latest(d, {i}) = d[i].value
  <2>1. i \in Nat /\ {} \in SUBSET Nat /\ \A j \in {} : j < i
    BY LineFacts
  <2>2. Latest(d, {} \union {i}) = d[i].value
    BY <2>1, LatestIsLast
  <2>3. {} \union {i} = {i}
    OBVIOUS
  <2>. QED
    BY <2>2, <2>3 DEF Latest, Number
<1> HIDE DEF Q
<1>3. VerifierAt(d, Q, i) = NewCheck(d[i].value)
  <2> DEFINE L(where, key) == Latest(d, Inside(d, Q, i, where, key))
             Pol(key) == {j \in Inside(d, Q, i, InPolicy, key) :
                              \A k \in Inside(d, Q, i, InVerifier, "policy") : k < j}
             declared == Inside(d, Q, i, InVerifier, "policy") # {}
  <2>1. VerifierAt(d, Q, i) =
           [type |-> d[i].value, name |-> L(InVerifier, "name"),
            cmd |-> L(InVerifier, "cmd"), run |-> L(InVerifier, "run"),
            cwd |-> L(InVerifier, "cwd"), schemaRef |-> L(InVerifier, "schemaRef"),
            policy |-> [declared |-> declared,
                        executable |-> Latest(d, Pol("executable")),
                        cwd |-> Latest(d, Pol("cwd")),
                        timeout_ms |-> Number(Latest(d, Pol("timeout_ms")))],
            exit_code |-> Number(L(InSuccess, "exit_code"))]
    BY DEF VerifierAt, InVerifier, InPolicy, InSuccess
  <2>2. \A where, key : L(where, key) = <<>>
    BY <1>1, <1>2
  <2>3. \A key : Pol(key) = {}
    BY <1>1
  <2>4. declared = FALSE
    BY <1>1
  <2> HIDE DEF L, Pol, declared
  <2>5. /\ Latest(d, Pol("executable")) = <<>> /\ Latest(d, Pol("cwd")) = <<>>
        /\ Number(Latest(d, Pol("timeout_ms"))) = 0 /\ Number(L(InSuccess, "exit_code")) = 0
        /\ L(InVerifier, "name") = <<>> /\ L(InVerifier, "cmd") = <<>>
        /\ L(InVerifier, "run") = <<>> /\ L(InVerifier, "cwd") = <<>>
        /\ L(InVerifier, "schemaRef") = <<>>
    BY <1>2, <2>2, <2>3
  <2>6. VerifierAt(d, Q, i) =
           [type |-> d[i].value, name |-> <<>>, cmd |-> <<>>, run |-> <<>>, cwd |-> <<>>,
            schemaRef |-> <<>>,
            policy |-> [declared |-> FALSE, executable |-> <<>>, cwd |-> <<>>, timeout_ms |-> 0],
            exit_code |-> 0]
    BY <2>1, <2>4, <2>5, Zenon
  <2>. QED
    BY <2>6 DEF NewCheck, NoPolicy
<1>4. ASSUME d[i].key \in {"name", "regex", "secret_group"}
      PROVE  PatternAt(d, Q, i) = PatternField(NewPattern, d[i].key, d[i].value)
  <2> DEFINE L(key) == Latest(d, Inside(d, Q, i, InPattern, key)
                                 \union (IF d[i].key = key THEN {i} ELSE {}))
  <2>1. PatternAt(d, Q, i) = [name |-> L("name"), regex |-> L("regex"),
                              secret_group |-> Number(L("secret_group"))]
    BY DEF PatternAt, InPattern
  <2>2. \A key : L(key) = IF d[i].key = key THEN d[i].value ELSE <<>>
    BY <1>1, <1>2
  <2> HIDE DEF L
  <2>. QED
    BY <1>2, <1>4, <2>1, <2>2 DEF PatternField, NewPattern
<1>. QED
  BY <1>3, <1>4 DEF Q
-----------------------------------------------------------------------------
(* Regular documents: what a line is, from the lines it stands under.       *)

KeyShaped(where, key) ==
    \/ where = <<>> /\ key \in Heads \union {"capabilities", "tools", "permissions",
                          "inputs", "outputs", "verifiers", "redaction", "recovery"}
    \/ where = <<"capabilities">> /\ key = "requires"
    \/ where = <<"capabilities", "requires">> /\ key \in Needs
    \/ where = <<"permissions">> /\ key \in {"network", "filesystem", "shell"}
    \/ where = <<"permissions", "filesystem">> /\ key \in {"read", "write"}
    \/ where = <<"permissions", "shell">> /\ key = "allow"
    \/ where = <<"inputs">> /\ key = "repo_path"
    \/ where = <<"outputs">> /\ key = "required"
    \/ where = InVerifier /\ key \in {"name", "cmd", "run", "cwd", "schemaRef", "policy",
                                      "success"}
    \/ where = InPolicy /\ key \in {"executable", "cwd", "timeout_ms"}
    \/ where = InSuccess /\ key = "exit_code"
    \/ where = <<"redaction">> /\ key \in {"keys", "patterns"}
    \/ where = InPattern /\ key \in {"name", "regex", "secret_group"}
    \/ where = <<"recovery">> /\ key \in {"strategy", "intervals"}

LEMMA KeyShape ==
    ASSUME NEW where, NEW key \in KnownKeys(where)
    PROVE  KeyShaped(where, key)
  BY SMTT(30) DEF KeyShaped, KnownKeys, InVerifier, InPolicy, InSuccess, InPattern

LEMMA PlaceIs ==
    ASSUME NEW d \in Seq(LineType), NEW i \in DOMAIN d, d[i].indent = 2 * Len(Place(d, i))
    PROVE  /\ Place(d, i) = <<>> => d[i].indent = 0
           /\ \A a : Place(d, i) = <<a>> => d[i].indent = 2 /\ Label(d, i, 0) = a
           /\ \A a, b : Place(d, i) = <<a, b>> =>
                 d[i].indent = 4 /\ Label(d, i, 0) = a /\ Label(d, i, 2) = b
           /\ \A a, b, c : Place(d, i) = <<a, b, c>> =>
                 /\ d[i].indent = 6
                 /\ Label(d, i, 0) = a /\ Label(d, i, 2) = b /\ Label(d, i, 4) = c
<1> DEFINE where == Place(d, i)
           lab(n) == Label(d, i, 2 * n - 2)
<1>1. where = [n \in 1..(d[i].indent \div 2) |-> lab(n)]
  BY DEF Place
<1> HIDE DEF where
<1>2. \A n \in DOMAIN where : where[n] = lab(n)
  BY <1>1
<1>3. lab(1) = Label(d, i, 0) /\ lab(2) = Label(d, i, 2) /\ lab(3) = Label(d, i, 4)
  OBVIOUS
<1> HIDE DEF lab
<1>4. where = <<>> => d[i].indent = 0
  BY DEF where
<1>5. ASSUME NEW a, where = <<a>> PROVE d[i].indent = 2 /\ Label(d, i, 0) = a
  BY <1>2, <1>3, <1>5 DEF where
<1>6. ASSUME NEW a, NEW b, where = <<a, b>>
      PROVE  d[i].indent = 4 /\ Label(d, i, 0) = a /\ Label(d, i, 2) = b
  BY <1>2, <1>3, <1>6 DEF where
<1>7. ASSUME NEW a, NEW b, NEW c, where = <<a, b, c>>
      PROVE  /\ d[i].indent = 6
             /\ Label(d, i, 0) = a /\ Label(d, i, 2) = b /\ Label(d, i, 4) = c
  BY <1>2, <1>3, <1>7 DEF where
<1>. QED
  BY <1>4, <1>5, <1>6, <1>7 DEF where
LEMMA PlaceOf ==
    ASSUME NEW d, NEW i
    PROVE  /\ d[i].indent = 2 => Place(d, i) = <<Label(d, i, 0)>>
           /\ d[i].indent = 4 => Place(d, i) = <<Label(d, i, 0), Label(d, i, 2)>>
<1> DEFINE lab(n) == Label(d, i, 2 * n - 2)
<1>1. Place(d, i) = [n \in 1..(d[i].indent \div 2) |-> lab(n)]
  BY DEF Place
<1>2. lab(1) = Label(d, i, 0) /\ lab(2) = Label(d, i, 2)
  OBVIOUS
<1> HIDE DEF lab
<1>3. ASSUME d[i].indent = 2 PROVE Place(d, i) = <<lab(1)>>
  <2>1. d[i].indent \div 2 = 1
    BY <1>3
  <2>. QED
    BY <1>1, <2>1
<1>4. ASSUME d[i].indent = 4 PROVE Place(d, i) = <<lab(1), lab(2)>>
  <2>1. d[i].indent \div 2 = 2
    BY <1>4
  <2>. QED
    BY <1>1, <2>1
<1>. QED
  BY <1>2, <1>3, <1>4

(* A line of a regular document by its key, or its item.                    *)
LEMMA RegularLine ==
    ASSUME NEW d \in Seq(LineType), Regular(d), NEW i \in DOMAIN d, ~Comment(d[i])
    PROVE  /\ d[i].indent = 2 * Len(Place(d, i))
           /\ d[i].dash => KnownItem(Place(d, i), d[i])
           /\ ~d[i].dash => d[i].key \in KnownKeys(Place(d, i)) /\ d[i].key # "-" /\ d[i].key # ""
           /\ d[i].key \in Blocks => d[i].value = <<>>
<1>1. /\ d[i].indent = 2 * Len(Place(d, i))
      /\ d[i].dash => KnownItem(Place(d, i), d[i])
      /\ ~d[i].dash => d[i].key \in KnownKeys(Place(d, i))
      /\ d[i].key \in Blocks => d[i].value = <<>>
  BY LineFacts DEF Regular
<1>2. \A where, key : key \in KnownKeys(where) => key # "-" /\ key # ""
  BY KeyShape DEF KeyShaped, Heads, Needs
<1>. QED
  BY <1>1, <1>2

(* The item that a line stands in is the last one above it.                 *)
LEMMA HeadIs ==
    ASSUME NEW d \in Seq(LineType), Regular(d), NEW i \in DOMAIN d, NEW c \in Nat,
           Label(d, i, c) = "-"
    PROVE  LET h == Opener(d, i, c) IN
           /\ h \in DOMAIN d /\ h < i /\ ~Comment(d[h]) /\ d[h].dash /\ d[h].indent = c
           /\ \A b \in Nat : b < c => Label(d, h, b) = Label(d, i, b)
           /\ \A k \in 1..(i - 1) : ~Comment(d[k]) /\ d[k].indent <= c => k <= h
<1> DEFINE h == Opener(d, i, c)
<1>1. h # 0 /\ d[h].indent = c /\ KeyOf(d[h]) = "-"
  BY DEF Label
<1>2. /\ h \in 0..(i - 1) /\ h \in DOMAIN d /\ ~Comment(d[h])
      /\ \A k \in 1..(i - 1) : ~Comment(d[k]) /\ d[k].indent <= c => k <= h
      /\ \A b \in Nat : b < c => Opener(d, i, b) = Opener(d, h, b)
  BY <1>1, OpenerIsAbove
<1>3. h < i
  BY <1>2, LineFacts
<1>4. d[h].dash
  BY <1>1, <1>2, RegularLine, LineFacts DEF KeyOf
<1>5. \A b \in Nat : b < c => Label(d, h, b) = Label(d, i, b)
  BY <1>2 DEF Label
<1>. QED
  BY <1>1, <1>2, <1>3, <1>4, <1>5

LEMMA VerifierHead ==
    ASSUME NEW d \in Seq(LineType), Regular(d), NEW i \in DOMAIN d,
           Label(d, i, 0) = "verifiers", Label(d, i, 2) = "-"
    PROVE  LET h == Opener(d, i, 2)
               S == ItemLines(d, Places(d, i), <<"verifiers">>)
           IN h \in S /\ \A j \in S : j <= h
<1> DEFINE h == Opener(d, i, 2)
           S == ItemLines(d, Places(d, i), <<"verifiers">>)
<1>1. /\ h \in DOMAIN d /\ h < i /\ ~Comment(d[h]) /\ d[h].dash /\ d[h].indent = 2
      /\ Label(d, h, 0) = "verifiers"
      /\ \A k \in 1..(i - 1) : ~Comment(d[k]) /\ d[k].indent <= 2 => k <= h
  BY HeadIs
<1>2. h \in 1..(i - 1)
  BY <1>1, LineFacts
<1>3. Place(d, h) = <<"verifiers">>
  BY <1>1, PlaceOf
<1>4. h \in S
  BY <1>1, <1>2, <1>3 DEF ItemLines, Places
<1>5. ASSUME NEW j \in S PROVE j <= h
  <2>1. j \in 1..(i - 1) /\ ~Comment(d[j]) /\ Place(d, j) = <<"verifiers">>
    BY DEF ItemLines, Places
  <2>2. j \in DOMAIN d
    BY <2>1, LineFacts
  <2>3. d[j].indent = 2
    <3>1. d[j].indent = 2 * Len(Place(d, j))
      BY <2>1, <2>2, RegularLine
    <3>. QED
      BY <2>1, <2>2, <3>1, PlaceIs
  <2>. QED
    BY <1>1, <2>1, <2>3
<1>. QED
  BY <1>4, <1>5

LEMMA PatternHead ==
    ASSUME NEW d \in Seq(LineType), Regular(d), NEW i \in DOMAIN d,
           Label(d, i, 0) = "redaction", Label(d, i, 2) = "patterns", Label(d, i, 4) = "-"
    PROVE  LET h == Opener(d, i, 4)
               S == ItemLines(d, Places(d, i), <<"redaction", "patterns">>)
           IN h \in S /\ \A j \in S : j <= h
<1> DEFINE h == Opener(d, i, 4)
           S == ItemLines(d, Places(d, i), <<"redaction", "patterns">>)
<1>1. /\ h \in DOMAIN d /\ h < i /\ ~Comment(d[h]) /\ d[h].dash /\ d[h].indent = 4
      /\ Label(d, h, 0) = "redaction" /\ Label(d, h, 2) = "patterns"
      /\ \A k \in 1..(i - 1) : ~Comment(d[k]) /\ d[k].indent <= 4 => k <= h
  BY HeadIs
<1>2. h \in 1..(i - 1)
  BY <1>1, LineFacts
<1>3. Place(d, h) = <<"redaction", "patterns">>
  BY <1>1, PlaceOf
<1>4. h \in S
  BY <1>1, <1>2, <1>3 DEF ItemLines, Places
<1>5. ASSUME NEW j \in S PROVE j <= h
  <2>1. j \in 1..(i - 1) /\ ~Comment(d[j]) /\ Place(d, j) = <<"redaction", "patterns">>
    BY DEF ItemLines, Places
  <2>2. j \in DOMAIN d
    BY <2>1, LineFacts
  <2>3. d[j].indent = 4
    <3>1. d[j].indent = 2 * Len(Place(d, j))
      BY <2>1, <2>2, RegularLine
    <3>. QED
      BY <2>1, <2>2, <3>1, PlaceIs
  <2>. QED
    BY <1>1, <2>1, <2>3
<1>. QED
  BY <1>4, <1>5
-----------------------------------------------------------------------------
(* What a line of a regular document adds to the lists of its manifest.     *)

AllowedAt(d, n) == Each(InOrder(ItemLines(d, Places(d, n), <<"permissions", "shell", "allow">>)),
                        LAMBDA h : d[h].value)
VerifiersAt(d, n) == Each(InOrder(ItemLines(d, Places(d, n), <<"verifiers">>)),
                          LAMBDA h : VerifierAt(d, Places(d, n), h))
PatternsAt(d, n) == Each(InOrder(ItemLines(d, Places(d, n), <<"redaction", "patterns">>)),
                         LAMBDA h : PatternAt(d, Places(d, n), h))

LEMMA AllowedStep ==
    ASSUME NEW d \in Seq(LineType), NEW i \in DOMAIN d
    PROVE  LET where == <<"permissions", "shell", "allow">> IN
           /\ Adds(d, i, where) => AllowedAt(d, i + 1) = Append(AllowedAt(d, i), d[i].value)
           /\ ~Adds(d, i, where) => AllowedAt(d, i + 1) = AllowedAt(d, i)
<1> DEFINE f == [j \in DOMAIN d |-> d[j].value]
           where == <<"permissions", "shell", "allow">>
<1>1. ASSUME NEW n \in {i, i + 1}
      PROVE  AllowedAt(d, n) = Listed(ItemLines(d, Places(d, n), where), f)
  <2> DEFINE s == InOrder(ItemLines(d, Places(d, n), where))
  <2>1. \A k \in DOMAIN s : s[k] \in DOMAIN d
    BY LinesListed
  <2>2. /\ AllowedAt(d, n) = [k \in DOMAIN s |-> d[s[k]].value]
        /\ Listed(ItemLines(d, Places(d, n), where), f) = [k \in DOMAIN s |-> f[s[k]]]
    BY DEF AllowedAt, Each, Listed
  <2> HIDE DEF s
  <2>. QED
    BY <2>1, <2>2
<1>2. f[i] = d[i].value
  OBVIOUS
<1> HIDE DEF f
<1>. QED
  BY <1>1, <1>2, ListStep

LEMMA VerifiersStep ==
    ASSUME NEW d \in Seq(LineType), Regular(d), NEW i \in DOMAIN d
    PROVE  LET S == ItemLines(d, Places(d, i), <<"verifiers">>)
               T == ItemLines(d, Places(d, i + 1), <<"verifiers">>)
               s == VerifiersAt(d, i)
               t == VerifiersAt(d, i + 1)
               c == Cardinality(S)
               inside == ~Comment(d[i]) /\ ~d[i].dash
           IN /\ Adds(d, i, <<"verifiers">>) =>
                    t = Append(s, NewCheck(d[i].value)) /\ Cardinality(T) = Len(s) + 1
              /\ ~Adds(d, i, <<"verifiers">>) => Cardinality(T) = c
              /\ inside /\ Place(d, i) \in {InVerifier, InPolicy, InSuccess} => c # 0
              /\ inside /\ Place(d, i) = InVerifier =>
                    t = [s EXCEPT ![c] = VerifierField(s[c], d[i].key, d[i].value)]
              /\ inside /\ Place(d, i) = InPolicy =>
                    t = [s EXCEPT ![c] = PolicyField(s[c], d[i].key, d[i].value)]
              /\ inside /\ Place(d, i) = InSuccess =>
                    t = [s EXCEPT ![c] = [s[c] EXCEPT !.exit_code = Number(d[i].value)]]
              /\ ~Adds(d, i, <<"verifiers">>)
                 /\ ~(inside /\ Place(d, i) \in {InVerifier, InPolicy, InSuccess}) => t = s
<1> DEFINE where == <<"verifiers">>
           S == ItemLines(d, Places(d, i), where)
           T == ItemLines(d, Places(d, i + 1), where)
           f == [j \in DOMAIN d |-> VerifierAt(d, Places(d, i), j)]
           g == [j \in DOMAIN d |-> VerifierAt(d, Places(d, i + 1), j)]
           inside == ~Comment(d[i]) /\ ~d[i].dash
           deeper == inside /\ Place(d, i) \in {InVerifier, InPolicy, InSuccess}
<1>1. ASSUME NEW n \in {i, i + 1}
      PROVE  VerifiersAt(d, n) = Listed(ItemLines(d, Places(d, n), where),
                                        [j \in DOMAIN d |-> VerifierAt(d, Places(d, n), j)])
  <2> DEFINE s == InOrder(ItemLines(d, Places(d, n), where))
             e == [j \in DOMAIN d |-> VerifierAt(d, Places(d, n), j)]
  <2>1. \A k \in DOMAIN s : s[k] \in DOMAIN d
    BY LinesListed
  <2>2. /\ VerifiersAt(d, n) = [k \in DOMAIN s |-> VerifierAt(d, Places(d, n), s[k])]
        /\ Listed(ItemLines(d, Places(d, n), where), e) = [k \in DOMAIN s |-> e[s[k]]]
    BY DEF VerifiersAt, Each, Listed
  <2> HIDE DEF s
  <2>. QED
    BY <2>1, <2>2
<1>2. VerifiersAt(d, i) = Listed(S, f) /\ VerifiersAt(d, i + 1) = Listed(T, g)
  BY <1>1
<1>3. ASSUME NEW j \in S PROVE j \in DOMAIN d /\ d[j].indent = 2 /\ j < i
  <2>1. j \in 1..(i - 1) /\ ~Comment(d[j]) /\ Place(d, j) = <<"verifiers">>
    BY DEF ItemLines, Places
  <2>2. j \in DOMAIN d /\ j < i
    BY <2>1, LineFacts
  <2>3. d[j].indent = 2 * Len(Place(d, j))
    BY <2>1, <2>2, RegularLine
  <2>. QED
    BY <2>1, <2>2, <2>3, PlaceIs
<1>4. \A j \in S : ~(deeper /\ Opener(d, i, 2) = j) => g[j] = f[j]
  BY <1>3, VerifierStep
<1>5. ASSUME Adds(d, i, where) PROVE g[i] = NewCheck(d[i].value) /\ \A j \in S : g[j] = f[j]
  <2>1. d[i].dash /\ ~deeper
    BY <1>5 DEF Adds
  <2>. QED
    BY <1>4, <2>1, NewItemIs
<1>6. ASSUME ~Adds(d, i, where), ~deeper PROVE \A j \in S : g[j] = f[j]
  BY <1>4, <1>6
<1>7. ASSUME deeper
      PROVE  LET h == Opener(d, i, 2) IN
             /\ ~Adds(d, i, where)
             /\ h \in S /\ (\A j \in S : j <= h) /\ \A j \in S \ {h} : g[j] = f[j]
             /\ Place(d, i) = InVerifier => g[h] = VerifierField(f[h], d[i].key, d[i].value)
             /\ Place(d, i) = InPolicy => g[h] = PolicyField(f[h], d[i].key, d[i].value)
             /\ Place(d, i) = InSuccess => g[h] = [f[h] EXCEPT !.exit_code = Number(d[i].value)]
  <2> DEFINE h == Opener(d, i, 2)
  <2>1. d[i].indent = 2 * Len(Place(d, i)) /\ d[i].key \in KnownKeys(Place(d, i))
    BY <1>7, RegularLine
  <2>2. Label(d, i, 0) = "verifiers" /\ Label(d, i, 2) = "-"
    BY <1>7, <2>1, PlaceIs DEF InVerifier, InPolicy, InSuccess
  <2>3. h \in S /\ \A j \in S : j <= h
    BY <2>2, VerifierHead
  <2>4. h \in DOMAIN d /\ d[h].indent = 2
    BY <1>3, <2>3
  <2>5. Place(d, i) = InSuccess => d[i].key = "exit_code"
    BY <2>1 DEF KnownKeys, InSuccess
  <2>6. ~Adds(d, i, where)
    BY <1>7 DEF Adds
  <2>7. /\ Place(d, i) = InVerifier => g[h] = VerifierField(f[h], d[i].key, d[i].value)
        /\ Place(d, i) = InPolicy => g[h] = PolicyField(f[h], d[i].key, d[i].value)
        /\ Place(d, i) = InSuccess => g[h] = [f[h] EXCEPT !.exit_code = Number(d[i].value)]
    BY <1>7, <2>4, <2>5, VerifierStep
  <2>. QED
    BY <1>4, <2>3, <2>6, <2>7
<1> HIDE DEF f, g
<1>8. CASE Adds(d, i, where)
  <2>1. ~inside
    BY <1>8 DEF Adds
  <2>2. Listed(T, g) = Append(Listed(S, f), g[i]) /\ Cardinality(T) = Len(Listed(S, f)) + 1
    BY <1>5, <1>8, ListStep
  <2> HIDE DEF inside, S, T
  <2>3. VerifiersAt(d, i + 1) = Append(VerifiersAt(d, i), NewCheck(d[i].value))
        /\ Cardinality(T) = Len(VerifiersAt(d, i)) + 1
    BY <1>2, <1>5, <1>8, <2>2
  <2>. QED
    BY <1>8, <2>1, <2>3 DEF S, T, inside
<1>9. CASE ~Adds(d, i, where) /\ ~deeper
  BY <1>2, <1>6, <1>9, ListStep
<1>10. CASE deeper
  <2> DEFINE h == Opener(d, i, 2)
             N == Cardinality(S)
  <2>1. N # 0 /\ Listed(S, f)[N] = f[h] /\ T = S /\ Listed(T, g) = [Listed(S, f) EXCEPT ![N] = g[h]]
    <3>1. h \in S /\ ~Adds(d, i, where) /\ (\A j \in S : j <= h) /\ \A j \in S \ {h} : g[j] = f[j]
      BY <1>7, <1>10
    <3>2. ASSUME NEW x \in S, \A j \in S : j <= x, \A j \in S \ {x} : g[j] = f[j]
          PROVE  N # 0 /\ Listed(S, f)[N] = f[x] /\ T = S /\ Listed(T, g) = Changed(Listed(S, f), N, g[x])
      BY <3>1, <3>2, ListChanges
    <3> HIDE DEF h, S, T, N
    <3>. QED
      BY <3>1, <3>2 DEF Changed
  <2>2. ~Adds(d, i, where)
    BY <1>7, <1>10
  <2>. QED
    BY <1>2, <1>7, <1>10, <2>1, <2>2
<1>. QED
  BY <1>8, <1>9, <1>10
LEMMA PatternsStep ==
    ASSUME NEW d \in Seq(LineType), Regular(d), NEW i \in DOMAIN d
    PROVE  LET where == <<"redaction", "patterns">>
               S == ItemLines(d, Places(d, i), where)
               T == ItemLines(d, Places(d, i + 1), where)
               s == PatternsAt(d, i)
               t == PatternsAt(d, i + 1)
               c == Cardinality(S)
               inside == ~Comment(d[i]) /\ ~d[i].dash /\ Place(d, i) = InPattern
           IN /\ Adds(d, i, where) =>
                    /\ t = Append(s, PatternField(NewPattern, d[i].key, d[i].value))
                    /\ Cardinality(T) = Len(s) + 1
              /\ ~Adds(d, i, where) => Cardinality(T) = c
              /\ inside => c # 0 /\ t = [s EXCEPT ![c] = PatternField(s[c], d[i].key, d[i].value)]
              /\ ~Adds(d, i, where) /\ ~inside => t = s
<1> DEFINE where == <<"redaction", "patterns">>
           S == ItemLines(d, Places(d, i), where)
           T == ItemLines(d, Places(d, i + 1), where)
           f == [j \in DOMAIN d |-> PatternAt(d, Places(d, i), j)]
           g == [j \in DOMAIN d |-> PatternAt(d, Places(d, i + 1), j)]
           inside == ~Comment(d[i]) /\ ~d[i].dash /\ Place(d, i) = InPattern
           N == Cardinality(S)
<1>1. ASSUME NEW n \in {i, i + 1}
      PROVE  PatternsAt(d, n) = Listed(ItemLines(d, Places(d, n), where),
                                       [j \in DOMAIN d |-> PatternAt(d, Places(d, n), j)])
  <2> DEFINE s == InOrder(ItemLines(d, Places(d, n), where))
             e == [j \in DOMAIN d |-> PatternAt(d, Places(d, n), j)]
  <2>1. \A k \in DOMAIN s : s[k] \in DOMAIN d
    BY LinesListed
  <2>2. /\ PatternsAt(d, n) = [k \in DOMAIN s |-> PatternAt(d, Places(d, n), s[k])]
        /\ Listed(ItemLines(d, Places(d, n), where), e) = [k \in DOMAIN s |-> e[s[k]]]
    BY DEF PatternsAt, Each, Listed
  <2> HIDE DEF s
  <2>. QED
    BY <2>1, <2>2
<1>2. PatternsAt(d, i) = Listed(S, f) /\ PatternsAt(d, i + 1) = Listed(T, g)
  BY <1>1
<1>3. ASSUME NEW j \in S PROVE j \in DOMAIN d /\ d[j].indent = 4 /\ j < i
  <2>1. j \in 1..(i - 1) /\ ~Comment(d[j]) /\ Place(d, j) = where
    BY DEF ItemLines, Places
  <2>2. j \in DOMAIN d /\ j < i
    BY <2>1, LineFacts
  <2>3. d[j].indent = 2 * Len(Place(d, j))
    BY <2>1, <2>2, RegularLine
  <2>. QED
    BY <2>1, <2>2, <2>3, PlaceIs
<1>4. \A j \in S : /\ ~(inside /\ Opener(d, i, 4) = j) => g[j] = f[j]
                   /\ inside /\ Opener(d, i, 4) = j => g[j] = PatternField(f[j], d[i].key, d[i].value)
  BY <1>3, PatternStep
<1>5. ASSUME Adds(d, i, where)
      PROVE  /\ g[i] = PatternField(NewPattern, d[i].key, d[i].value)
             /\ \A j \in S : g[j] = f[j]
  <2>1. d[i].dash /\ ~inside /\ KnownItem(where, d[i])
    BY <1>5, RegularLine DEF Adds
  <2>2. d[i].key \in {"name", "regex", "secret_group"}
    BY <2>1 DEF KnownItem, Plain
  <2>. QED
    BY <1>4, <2>1, <2>2, NewItemIs
<1>6. ASSUME ~inside PROVE \A j \in S : g[j] = f[j]
  BY <1>4, <1>6
<1>7. ASSUME inside
      PROVE  LET h == Opener(d, i, 4) IN
             /\ ~Adds(d, i, where)
             /\ h \in S /\ (\A j \in S : j <= h) /\ \A j \in S \ {h} : g[j] = f[j]
             /\ g[h] = PatternField(f[h], d[i].key, d[i].value)
  <2>1. d[i].indent = 2 * Len(Place(d, i))
    BY <1>7, RegularLine
  <2>2. Label(d, i, 0) = "redaction" /\ Label(d, i, 2) = "patterns" /\ Label(d, i, 4) = "-"
    BY <1>7, <2>1, PlaceIs DEF InPattern
  <2>3. Opener(d, i, 4) \in S /\ \A j \in S : j <= Opener(d, i, 4)
    BY <2>2, PatternHead
  <2>4. ~Adds(d, i, where)
    BY <1>7 DEF Adds
  <2>. QED
    BY <1>4, <1>7, <2>3, <2>4
<1> HIDE DEF f, g
<1>8. CASE Adds(d, i, where)
  <2>1. ~inside
    BY <1>8 DEF Adds
  <2>2. Listed(T, g) = Append(Listed(S, f), g[i]) /\ Cardinality(T) = Len(Listed(S, f)) + 1
    BY <1>5, <1>8, ListStep
  <2> HIDE DEF inside, S, T
  <2>. QED
    BY <1>2, <1>5, <1>8, <2>1, <2>2 DEF S, T, inside
<1>9. CASE ~Adds(d, i, where) /\ ~inside
  BY <1>2, <1>6, <1>9, ListStep
<1>10. CASE inside
  <2> DEFINE h == Opener(d, i, 4)
  <2>1. /\ h \in S /\ ~Adds(d, i, where) /\ (\A j \in S : j <= h) /\ \A j \in S \ {h} : g[j] = f[j]
        /\ g[h] = PatternField(f[h], d[i].key, d[i].value)
    BY <1>7, <1>10
  <2>2. ASSUME NEW x \in S, \A j \in S : j <= x, \A j \in S \ {x} : g[j] = f[j]
        PROVE  N # 0 /\ Listed(S, f)[N] = f[x] /\ T = S /\ Listed(T, g) = Changed(Listed(S, f), N, g[x])
    <3> HIDE DEF where, inside, h
    <3>. QED
      BY <2>1, <2>2, ListChanges
  <2> HIDE DEF h, S, T, N
  <2>3. N # 0 /\ Listed(S, f)[N] = f[h] /\ T = S /\ Listed(T, g) = [Listed(S, f) EXCEPT ![N] = g[h]]
    BY <2>1, <2>2 DEF Changed
  <2>. QED
    BY <1>2, <1>10, <2>1, <2>3 DEF S, T, N
<1>. QED
  BY <1>8, <1>9, <1>10
-----------------------------------------------------------------------------
(* What a line of a regular document adds to its manifest.                  *)

HeadAt(d, n) == [k \in Heads |-> ValueAt(d, Places(d, n), <<>>, k)]
NeedsAt(d, n) == [k \in Needs |-> ValueAt(d, Places(d, n), <<"capabilities", "requires">>, k)]
NetworkAt(d, n) == ValueAt(d, Places(d, n), <<"permissions">>, "network") = <<"true">>

LEMMA NestedIs ==
    ASSUME NEW d, NEW n
    PROVE  Nested(d, n) =
             [head |-> HeadAt(d, n), needs |-> NeedsAt(d, n),
              tools |-> ItemsAt(d, Places(d, n), <<"tools">>),
              required |-> ItemsAt(d, Places(d, n), <<"outputs", "required">>),
              repo_path |-> ValueAt(d, Places(d, n), <<"inputs">>, "repo_path"),
              network |-> NetworkAt(d, n),
              read |-> ItemsAt(d, Places(d, n), <<"permissions", "filesystem", "read">>),
              write |-> ItemsAt(d, Places(d, n), <<"permissions", "filesystem", "write">>),
              allow |-> AllowedAt(d, n), verifiers |-> VerifiersAt(d, n),
              keys |-> ItemsAt(d, Places(d, n), <<"redaction", "keys">>),
              patterns |-> PatternsAt(d, n)]
  BY Zenon DEF Nested, HeadAt, NeedsAt, NetworkAt, AllowedAt, VerifiersAt, PatternsAt

LEMMA ValuesStep ==
    ASSUME NEW d \in Seq(LineType), NEW i \in DOMAIN d
    PROVE  LET line(where) == ~Comment(d[i]) /\ ~d[i].dash /\ Place(d, i) = where IN
           /\ line(<<>>) => HeadAt(d, i + 1) = IF d[i].key \in Heads
                                               THEN [HeadAt(d, i) EXCEPT ![d[i].key] = d[i].value]
                                               ELSE HeadAt(d, i)
           /\ ~line(<<>>) => HeadAt(d, i + 1) = HeadAt(d, i)
           /\ line(<<"capabilities", "requires">>) =>
                 NeedsAt(d, i + 1) = IF d[i].key \in Needs
                                     THEN [NeedsAt(d, i) EXCEPT ![d[i].key] = d[i].value]
                                     ELSE NeedsAt(d, i)
           /\ ~line(<<"capabilities", "requires">>) => NeedsAt(d, i + 1) = NeedsAt(d, i)
           /\ line(<<"permissions">>) =>
                 NetworkAt(d, i + 1) = IF d[i].key = "network" THEN d[i].value = <<"true">>
                                       ELSE NetworkAt(d, i)
           /\ ~line(<<"permissions">>) => NetworkAt(d, i + 1) = NetworkAt(d, i)
<1> DEFINE line(where) == ~Comment(d[i]) /\ ~d[i].dash /\ Place(d, i) = where
           V(n, where, key) == ValueAt(d, Places(d, n), where, key)
<1>1. ASSUME NEW where, NEW key
      PROVE  V(i + 1, where, key) = IF line(where) /\ d[i].key = key THEN d[i].value
                                    ELSE V(i, where, key)
  BY ValueStep DEF Sets
<1>2. \A n : /\ HeadAt(d, n) = [k \in Heads |-> V(n, <<>>, k)]
             /\ NeedsAt(d, n) = [k \in Needs |-> V(n, <<"capabilities", "requires">>, k)]
             /\ NetworkAt(d, n) = (V(n, <<"permissions">>, "network") = <<"true">>)
  BY Zenon DEF HeadAt, NeedsAt, NetworkAt
<1> HIDE DEF V, line
<1>3. /\ line(<<>>) => HeadAt(d, i + 1) = IF d[i].key \in Heads
                                          THEN [HeadAt(d, i) EXCEPT ![d[i].key] = d[i].value]
                                          ELSE HeadAt(d, i)
      /\ ~line(<<>>) => HeadAt(d, i + 1) = HeadAt(d, i)
  BY <1>1, <1>2
<1>4. /\ line(<<"capabilities", "requires">>) =>
            NeedsAt(d, i + 1) = IF d[i].key \in Needs
                                THEN [NeedsAt(d, i) EXCEPT ![d[i].key] = d[i].value]
                                ELSE NeedsAt(d, i)
      /\ ~line(<<"capabilities", "requires">>) => NeedsAt(d, i + 1) = NeedsAt(d, i)
  BY <1>1, <1>2
<1>5. /\ line(<<"permissions">>) =>
            NetworkAt(d, i + 1) = IF d[i].key = "network" THEN d[i].value = <<"true">>
                                  ELSE NetworkAt(d, i)
      /\ ~line(<<"permissions">>) => NetworkAt(d, i + 1) = NetworkAt(d, i)
  <2>1. V(i + 1, <<"permissions">>, "network") =
           IF line(<<"permissions">>) /\ d[i].key = "network" THEN d[i].value
           ELSE V(i, <<"permissions">>, "network")
    BY <1>1
  <2>. QED
    BY <1>2, <2>1, Zenon
<1>. QED
  BY <1>3, <1>4, <1>5, Zenon DEF line
(* The lines of a regular document, section by section.                     *)
LEMMA KeyShapes ==
    ASSUME NEW d \in Seq(LineType), Regular(d), NEW i \in DOMAIN d, ~Comment(d[i]), ~d[i].dash
    PROVE  LET l == d[i]
               where == Place(d, i)
               At1(a) == l.indent = 2 /\ Label(d, i, 0) = a
               At2(a, b) == l.indent = 4 /\ Label(d, i, 0) = a /\ Label(d, i, 2) = b
               At3(a, b, c) == /\ l.indent = 6
                               /\ Label(d, i, 0) = a /\ Label(d, i, 2) = b /\ Label(d, i, 4) = c
           IN /\ l.key # "" /\ l.key # "-"
              /\ \/ where = <<>> /\ l.indent = 0
                 \/ where = <<"capabilities">> /\ At1("capabilities") /\ l.key = "requires"
                 \/ where = <<"capabilities", "requires">> /\ At2("capabilities", "requires") /\ l.key \in Needs
                 \/ where = <<"permissions">> /\ At1("permissions")
                 \/ where = <<"permissions", "filesystem">> /\ At2("permissions", "filesystem")
                 \/ where = <<"permissions", "shell">> /\ At2("permissions", "shell")
                 \/ where = <<"inputs">> /\ At1("inputs") /\ l.key = "repo_path"
                 \/ where = <<"outputs">> /\ At1("outputs")
                 \/ where = InVerifier /\ At2("verifiers", "-")
                 \/ where = InPolicy /\ At3("verifiers", "-", "policy")
                 \/ where = InSuccess /\ At3("verifiers", "-", "success") /\ l.key = "exit_code"
                 \/ where = <<"redaction">> /\ At1("redaction")
                 \/ where = InPattern /\ At3("redaction", "patterns", "-")
                 \/ where = <<"recovery">> /\ At1("recovery")
<1> DEFINE l == d[i]
           where == Place(d, i)
           At1(a) == l.indent = 2 /\ Label(d, i, 0) = a
           At2(a, b) == l.indent = 4 /\ Label(d, i, 0) = a /\ Label(d, i, 2) = b
           At3(a, b, c) == /\ l.indent = 6
                           /\ Label(d, i, 0) = a /\ Label(d, i, 2) = b /\ Label(d, i, 4) = c
<1>1. l.key \in KnownKeys(where) /\ l.key # "" /\ l.key # "-" /\ l.indent = 2 * Len(where)
  BY RegularLine
<1>2. /\ where = <<>> => l.indent = 0
      /\ \A a : where = <<a>> => At1(a)
      /\ \A a, b : where = <<a, b>> => At2(a, b)
      /\ \A a, b, c : where = <<a, b, c>> => At3(a, b, c)
  BY <1>1, PlaceIs
<1> HIDE DEF l, where, At1, At2, At3
<1> DEFINE top == <<>>
           cap == <<"capabilities">>
           req == <<"capabilities", "requires">>
           per == <<"permissions">>
           fil == <<"permissions", "filesystem">>
           she == <<"permissions", "shell">>
           inp == <<"inputs">>
           out == <<"outputs">>
           red == <<"redaction">>
           rec == <<"recovery">>
<1>3. /\ where = top => l.indent = 0
      /\ where = cap => At1("capabilities")
      /\ where = req => At2("capabilities", "requires")
      /\ where = per => At1("permissions")
      /\ where = fil => At2("permissions", "filesystem")
      /\ where = she => At2("permissions", "shell")
      /\ where = inp => At1("inputs")
      /\ where = out => At1("outputs")
      /\ where = InVerifier => At2("verifiers", "-")
      /\ where = InPolicy => At3("verifiers", "-", "policy")
      /\ where = InSuccess => At3("verifiers", "-", "success")
      /\ where = red => At1("redaction")
      /\ where = InPattern => At3("redaction", "patterns", "-")
      /\ where = rec => At1("recovery")
  BY <1>2 DEF InVerifier, InPolicy, InSuccess, InPattern
<1> HIDE DEF top, cap, req, per, fil, she, inp, out, red, rec
<1>4. /\ l.key # "" /\ l.key # "-"
      /\ \/ where = top /\ l.indent = 0
         \/ where = cap /\ At1("capabilities") /\ l.key = "requires"
         \/ where = req /\ At2("capabilities", "requires") /\ l.key \in Needs
         \/ where = per /\ At1("permissions")
         \/ where = fil /\ At2("permissions", "filesystem")
         \/ where = she /\ At2("permissions", "shell")
         \/ where = inp /\ At1("inputs") /\ l.key = "repo_path"
         \/ where = out /\ At1("outputs")
         \/ where = InVerifier /\ At2("verifiers", "-")
         \/ where = InPolicy /\ At3("verifiers", "-", "policy")
         \/ where = InSuccess /\ At3("verifiers", "-", "success") /\ l.key = "exit_code"
         \/ where = red /\ At1("redaction")
         \/ where = InPattern /\ At3("redaction", "patterns", "-")
         \/ where = rec /\ At1("recovery")
  <2>1. KeyShaped(where, l.key)
    BY <1>1, KeyShape
  <2>2. \/ where = top
        \/ where = cap /\ l.key = "requires"
        \/ where = req /\ l.key \in Needs
        \/ where = per
        \/ where = fil
        \/ where = she
        \/ where = inp /\ l.key = "repo_path"
        \/ where = out
        \/ where = InVerifier
        \/ where = InPolicy
        \/ where = InSuccess /\ l.key = "exit_code"
        \/ where = red
        \/ where = InPattern
        \/ where = rec
    BY <2>1, Zenon DEF KeyShaped, top, cap, req, per, fil, she, inp, out, red, rec
  <2>. QED
    BY <1>1, <1>3, <2>2 DEF At1, At2, At3
<1>. QED
  BY <1>4, Zenon DEF top, cap, req, per, fil, she, inp, out, red, rec, l, where, At1, At2, At3

LEMMA ItemShapes ==
    ASSUME NEW d \in Seq(LineType), Regular(d), NEW i \in DOMAIN d, ~Comment(d[i]), d[i].dash
    PROVE  LET l == d[i]
               where == Place(d, i)
               At1(a) == l.indent = 2 /\ Label(d, i, 0) = a
               At2(a, b) == l.indent = 4 /\ Label(d, i, 0) = a /\ Label(d, i, 2) = b
               At3(a, b, c) == /\ l.indent = 6
                               /\ Label(d, i, 0) = a /\ Label(d, i, 2) = b /\ Label(d, i, 4) = c
           IN \/ where = <<"tools">> /\ At1("tools")
              \/ where = <<"outputs", "required">> /\ At2("outputs", "required")
              \/ where = <<"permissions", "filesystem", "read">> /\ At3("permissions", "filesystem", "read") /\ l.key = ""
              \/ where = <<"permissions", "filesystem", "write">> /\ At3("permissions", "filesystem", "write") /\ l.key = ""
              \/ where = <<"permissions", "shell", "allow">> /\ At3("permissions", "shell", "allow") /\ l.key = "run"
              \/ where = <<"redaction", "keys">> /\ At2("redaction", "keys")
              \/ where = <<"verifiers">> /\ At1("verifiers") /\ l.key = "type"
              \/ where = <<"redaction", "patterns">> /\ At2("redaction", "patterns") /\ l.key \in {"name", "regex", "secret_group"}
<1> DEFINE l == d[i]
           where == Place(d, i)
           At1(a) == l.indent = 2 /\ Label(d, i, 0) = a
           At2(a, b) == l.indent = 4 /\ Label(d, i, 0) = a /\ Label(d, i, 2) = b
           At3(a, b, c) == /\ l.indent = 6
                           /\ Label(d, i, 0) = a /\ Label(d, i, 2) = b /\ Label(d, i, 4) = c
<1>1. KnownItem(where, l) /\ l.indent = 2 * Len(where)
  BY RegularLine
<1>2. /\ where = <<>> => l.indent = 0
      /\ \A a : where = <<a>> => At1(a)
      /\ \A a, b : where = <<a, b>> => At2(a, b)
      /\ \A a, b, c : where = <<a, b, c>> => At3(a, b, c)
  BY <1>1, PlaceIs
<1> HIDE DEF l, where, At1, At2, At3
<1>3. \/ where = <<"tools">> /\ At1("tools")
      \/ where = <<"outputs", "required">> /\ At2("outputs", "required")
      \/ where = <<"permissions", "filesystem", "read">> /\ At3("permissions", "filesystem", "read") /\ l.key = ""
      \/ where = <<"permissions", "filesystem", "write">> /\ At3("permissions", "filesystem", "write") /\ l.key = ""
      \/ where = <<"permissions", "shell", "allow">> /\ At3("permissions", "shell", "allow") /\ l.key = "run"
      \/ where = <<"redaction", "keys">> /\ At2("redaction", "keys")
      \/ where = <<"verifiers">> /\ At1("verifiers") /\ l.key = "type"
      \/ where = <<"redaction", "patterns">> /\ At2("redaction", "patterns") /\ l.key \in {"name", "regex", "secret_group"}
  BY <1>1, <1>2, Zenon DEF KnownItem, Plain, HasKey
<1>. QED
  BY <1>3, Zenon DEF l, where, At1, At2, At3

(* The manifest that has these fields.                                      *)
Made(head, needs, tools, required, repo_path, network, read, write, allow, verifiers, keys,
     patterns) ==
    [head |-> head, needs |-> needs, tools |-> tools, required |-> required,
     repo_path |-> repo_path, network |-> network, read |-> read, write |-> write,
     allow |-> allow, verifiers |-> verifiers, keys |-> keys, patterns |-> patterns]

(* The keys of a document, whatever else it says.                           *)
LEMMA KeyLineStep ==
    ASSUME NEW d \in Seq(LineType), Regular(d), NEW i \in DOMAIN d, ~Comment(d[i]), ~d[i].dash
    PROVE  LET n == Nested(d, i)
               o == Nested(d, i + 1)
               l == d[i]
               c == Cardinality(ItemLines(d, Places(d, i), <<"verifiers">>))
               p == Cardinality(ItemLines(d, Places(d, i), <<"redaction", "patterns">>))
           IN /\ Place(d, i) = <<>> => o = IF l.key \in Heads THEN [n EXCEPT !.head[l.key] = l.value]
                                           ELSE n
              /\ Place(d, i) = <<"capabilities", "requires">> /\ l.key \in Needs =>
                    o = [n EXCEPT !.needs[l.key] = l.value]
              /\ Place(d, i) = <<"permissions">> =>
                    o = IF l.key = "network" THEN [n EXCEPT !.network = (l.value = <<"true">>)] ELSE n
              /\ Place(d, i) = <<"inputs">> /\ l.key = "repo_path" => o = [n EXCEPT !.repo_path = l.value]
              /\ Place(d, i) = InVerifier =>
                    c # 0 /\ o = [n EXCEPT !.verifiers[c] = VerifierField(@, l.key, l.value)]
              /\ Place(d, i) = InPolicy =>
                    c # 0 /\ o = [n EXCEPT !.verifiers[c] = PolicyField(@, l.key, l.value)]
              /\ Place(d, i) = InSuccess =>
                    c # 0 /\ o = [n EXCEPT !.verifiers[c] = [@ EXCEPT !.exit_code = Number(l.value)]]
              /\ Place(d, i) = InPattern =>
                    p # 0 /\ o = [n EXCEPT !.patterns[p] = PatternField(@, l.key, l.value)]
              /\ Place(d, i) \in {<<"capabilities">>, <<"permissions", "filesystem">>,
                                  <<"permissions", "shell">>, <<"outputs">>, <<"redaction">>,
                                  <<"recovery">>} => o = n
<1> DEFINE n == Nested(d, i)
           o == Nested(d, i + 1)
           l == d[i]
           w == Place(d, i)
           Items(e, where) == ItemsAt(d, Places(d, e), where)
           RepoPath(e) == ValueAt(d, Places(d, e), <<"inputs">>, "repo_path")
           c == Cardinality(ItemLines(d, Places(d, i), <<"verifiers">>))
           p == Cardinality(ItemLines(d, Places(d, i), <<"redaction", "patterns">>))
           tools == Items(i, <<"tools">>)
           required == Items(i, <<"outputs", "required">>)
           read == Items(i, <<"permissions", "filesystem", "read">>)
           write == Items(i, <<"permissions", "filesystem", "write">>)
           keys == Items(i, <<"redaction", "keys">>)
           allow == AllowedAt(d, i)
           Own(h, ne, re, net, ve, pa) ==
               Made(h, ne, tools, required, re, net, read, write, allow, ve, keys, pa)
           head == HeadAt(d, i)
           needs == NeedsAt(d, i)
           network == NetworkAt(d, i)
           verifiers == VerifiersAt(d, i)
           patterns == PatternsAt(d, i)
<1>1. /\ \A where : Items(i + 1, where) = Items(i, where)
      /\ AllowedAt(d, i + 1) = AllowedAt(d, i)
  BY ItemsStep, AllowedStep DEF Adds
<1>2. /\ n = Own(head, needs, RepoPath(i), network, verifiers, patterns)
      /\ o = Own(HeadAt(d, i + 1), NeedsAt(d, i + 1), RepoPath(i + 1), NetworkAt(d, i + 1),
                 VerifiersAt(d, i + 1), PatternsAt(d, i + 1))
  <2> HIDE DEF Items, RepoPath
  <2>1. \A e : Nested(d, e) =
           Made(HeadAt(d, e), NeedsAt(d, e), Items(e, <<"tools">>),
                Items(e, <<"outputs", "required">>), RepoPath(e), NetworkAt(d, e),
                Items(e, <<"permissions", "filesystem", "read">>),
                Items(e, <<"permissions", "filesystem", "write">>), AllowedAt(d, e),
                VerifiersAt(d, e), Items(e, <<"redaction", "keys">>), PatternsAt(d, e))
    BY NestedIs, Zenon DEF Items, RepoPath, Made
  <2>. QED
    BY <1>1, <2>1
<1>3. /\ w = <<"inputs">> /\ l.key = "repo_path" => RepoPath(i + 1) = l.value
      /\ ~(w = <<"inputs">> /\ l.key = "repo_path") => RepoPath(i + 1) = RepoPath(i)
  BY ValueStep DEF Sets
<1>4. /\ w = <<>> => HeadAt(d, i + 1) = IF l.key \in Heads
                                        THEN [HeadAt(d, i) EXCEPT ![l.key] = l.value] ELSE HeadAt(d, i)
      /\ w # <<>> => HeadAt(d, i + 1) = HeadAt(d, i)
      /\ w = <<"capabilities", "requires">> /\ l.key \in Needs =>
            NeedsAt(d, i + 1) = [NeedsAt(d, i) EXCEPT ![l.key] = l.value]
      /\ w # <<"capabilities", "requires">> => NeedsAt(d, i + 1) = NeedsAt(d, i)
  BY ValuesStep
<1>5. /\ w = <<"permissions">> =>
            NetworkAt(d, i + 1) = IF l.key = "network" THEN l.value = <<"true">> ELSE NetworkAt(d, i)
      /\ w # <<"permissions">> => NetworkAt(d, i + 1) = NetworkAt(d, i)
  BY ValuesStep
<1>6. /\ w \in {InVerifier, InPolicy, InSuccess} => c # 0
      /\ w = InVerifier =>
            VerifiersAt(d, i + 1) = [VerifiersAt(d, i) EXCEPT
                                        ![c] = VerifierField(VerifiersAt(d, i)[c], l.key, l.value)]
      /\ w = InPolicy =>
            VerifiersAt(d, i + 1) = [VerifiersAt(d, i) EXCEPT
                                        ![c] = PolicyField(VerifiersAt(d, i)[c], l.key, l.value)]
      /\ w = InSuccess =>
            VerifiersAt(d, i + 1) = [VerifiersAt(d, i) EXCEPT
                             ![c] = [VerifiersAt(d, i)[c] EXCEPT !.exit_code = Number(l.value)]]
      /\ w \notin {InVerifier, InPolicy, InSuccess} => VerifiersAt(d, i + 1) = VerifiersAt(d, i)
  BY VerifiersStep DEF Adds
<1>7. /\ w = InPattern => /\ p # 0
                          /\ PatternsAt(d, i + 1) = [PatternsAt(d, i) EXCEPT
                                ![p] = PatternField(PatternsAt(d, i)[p], l.key, l.value)]
      /\ w # InPattern => PatternsAt(d, i + 1) = PatternsAt(d, i)
  BY PatternsStep DEF Adds
<1> HIDE DEF n, o, l, w, Items, RepoPath, c, p, tools, required, read, write, keys, allow
<1> DEFINE Same(key) ==
               /\ key # "head" => HeadAt(d, i + 1) = head
               /\ key # "needs" => NeedsAt(d, i + 1) = needs
               /\ key # "repo_path" => RepoPath(i + 1) = RepoPath(i)
               /\ key # "network" => NetworkAt(d, i + 1) = network
               /\ key # "verifiers" => VerifiersAt(d, i + 1) = verifiers
               /\ key # "patterns" => PatternsAt(d, i + 1) = patterns
<1>8. ASSUME w = <<>>
       PROVE  o = IF l.key \in Heads THEN [n EXCEPT !.head[l.key] = l.value] ELSE n
  <2>1. Same("head")
    BY <1>3, <1>4, <1>5, <1>6, <1>7, <1>8 DEF InVerifier, InPolicy, InSuccess, InPattern
  <2> DEFINE x == HeadAt(d, i + 1)
  <2>2. o = Own(x, needs, RepoPath(i), network, verifiers, patterns)
    BY <1>2, <2>1
  <2>3. x = IF l.key \in Heads THEN [head EXCEPT ![l.key] = l.value] ELSE head
    BY <1>4, <1>8
  <2> HIDE DEF x
  <2>4. o = [n EXCEPT !.head = x] /\ n.head = head /\ (x = head => o = n)
    BY <1>2, <2>2 DEF Made
  <2>. QED
    BY <1>8, <2>3, <2>4
<1>9. ASSUME w = <<"capabilities", "requires">> /\ l.key \in Needs
       PROVE  o = [n EXCEPT !.needs[l.key] = l.value]
  <2>1. Same("needs")
    BY <1>3, <1>4, <1>5, <1>6, <1>7, <1>9 DEF InVerifier, InPolicy, InSuccess, InPattern
  <2> DEFINE x == NeedsAt(d, i + 1)
  <2>2. o = Own(head, x, RepoPath(i), network, verifiers, patterns)
    BY <1>2, <2>1
  <2>3. x = [needs EXCEPT ![l.key] = l.value]
    BY <1>4, <1>9
  <2> HIDE DEF x
  <2>4. o = [n EXCEPT !.needs = x] /\ n.needs = needs
    BY <1>2, <2>2 DEF Made
  <2>. QED
    BY <1>9, <2>3, <2>4
<1>10. ASSUME w = <<"permissions">>
       PROVE  o = IF l.key = "network" THEN [n EXCEPT !.network = (l.value = <<"true">>)] ELSE n
  <2>1. Same("network")
    BY <1>3, <1>4, <1>5, <1>6, <1>7, <1>10 DEF InVerifier, InPolicy, InSuccess, InPattern
  <2> DEFINE x == NetworkAt(d, i + 1)
  <2>2. o = Own(head, needs, RepoPath(i), x, verifiers, patterns)
    BY <1>2, <2>1
  <2>3. CASE l.key = "network"
    <3>1. x = (l.value = <<"true">>)
      BY <1>5, <1>10, <2>3
    <3> HIDE DEF x
    <3>2. o = [n EXCEPT !.network = x]
      BY <1>2, <2>2 DEF Made
    <3>. QED
      BY <1>10, <2>3, <3>1, <3>2, Zenon
  <2>4. CASE l.key # "network"
    <3>1. x = network
      BY <1>5, <1>10, <2>4
    <3>. QED
      BY <1>2, <1>10, <2>2, <2>4, <3>1
  <2>. QED
    BY <2>3, <2>4
<1>11. ASSUME w = <<"inputs">> /\ l.key = "repo_path"
       PROVE  o = [n EXCEPT !.repo_path = l.value]
  <2>1. Same("repo_path")
    BY <1>3, <1>4, <1>5, <1>6, <1>7, <1>11 DEF InVerifier, InPolicy, InSuccess, InPattern
  <2> DEFINE x == RepoPath(i + 1)
  <2>2. o = Own(head, needs, x, network, verifiers, patterns)
    BY <1>2, <2>1
  <2>3. x = l.value
    BY <1>3, <1>11
  <2> HIDE DEF x
  <2>4. o = [n EXCEPT !.repo_path = x] /\ n.repo_path = RepoPath(i)
    BY <1>2, <2>2 DEF Made
  <2>. QED
    BY <1>11, <2>3, <2>4
<1>12. ASSUME w = InVerifier
       PROVE  c # 0 /\ o = [n EXCEPT !.verifiers[c] = VerifierField(@, l.key, l.value)]
  <2>1. Same("verifiers")
    BY <1>3, <1>4, <1>5, <1>6, <1>7, <1>12 DEF InVerifier, InPolicy, InSuccess, InPattern
  <2> DEFINE x == VerifiersAt(d, i + 1)
  <2>2. o = Own(head, needs, RepoPath(i), network, x, patterns)
    BY <1>2, <2>1
  <2>3. c # 0 /\ x = [verifiers EXCEPT ![c] = VerifierField(verifiers[c], l.key, l.value)]
    BY <1>6, <1>12
  <2> HIDE DEF x
  <2>4. o = [n EXCEPT !.verifiers = x] /\ n.verifiers = verifiers
    BY <1>2, <2>2 DEF Made
  <2>. QED
    BY <1>12, <2>3, <2>4
<1>13. ASSUME w = InPolicy
       PROVE  c # 0 /\ o = [n EXCEPT !.verifiers[c] = PolicyField(@, l.key, l.value)]
  <2>1. Same("verifiers")
    BY <1>3, <1>4, <1>5, <1>6, <1>7, <1>13 DEF InVerifier, InPolicy, InSuccess, InPattern
  <2> DEFINE x == VerifiersAt(d, i + 1)
  <2>2. o = Own(head, needs, RepoPath(i), network, x, patterns)
    BY <1>2, <2>1
  <2>3. c # 0 /\ x = [verifiers EXCEPT ![c] = PolicyField(verifiers[c], l.key, l.value)]
    BY <1>6, <1>13
  <2> HIDE DEF x
  <2>4. o = [n EXCEPT !.verifiers = x] /\ n.verifiers = verifiers
    BY <1>2, <2>2 DEF Made
  <2>. QED
    BY <1>13, <2>3, <2>4
<1>14. ASSUME w = InSuccess
       PROVE  c # 0 /\ o = [n EXCEPT !.verifiers[c] = [@ EXCEPT !.exit_code = Number(l.value)]]
  <2>1. Same("verifiers")
    BY <1>3, <1>4, <1>5, <1>6, <1>7, <1>14 DEF InVerifier, InPolicy, InSuccess, InPattern
  <2> DEFINE x == VerifiersAt(d, i + 1)
  <2>2. o = Own(head, needs, RepoPath(i), network, x, patterns)
    BY <1>2, <2>1
  <2>3. c # 0 /\ x = [verifiers EXCEPT ![c] = [verifiers[c] EXCEPT !.exit_code = Number(l.value)]]
    BY <1>6, <1>14
  <2> HIDE DEF x
  <2>4. o = [n EXCEPT !.verifiers = x] /\ n.verifiers = verifiers
    BY <1>2, <2>2 DEF Made
  <2>. QED
    BY <1>14, <2>3, <2>4
<1>15. ASSUME w = InPattern
       PROVE  p # 0 /\ o = [n EXCEPT !.patterns[p] = PatternField(@, l.key, l.value)]
  <2>1. Same("patterns")
    BY <1>3, <1>4, <1>5, <1>6, <1>7, <1>15 DEF InVerifier, InPolicy, InSuccess, InPattern
  <2> DEFINE x == PatternsAt(d, i + 1)
  <2>2. o = Own(head, needs, RepoPath(i), network, verifiers, x)
    BY <1>2, <2>1
  <2>3. p # 0 /\ x = [patterns EXCEPT ![p] = PatternField(patterns[p], l.key, l.value)]
    BY <1>7, <1>15
  <2> HIDE DEF x
  <2>4. o = [n EXCEPT !.patterns = x] /\ n.patterns = patterns
    BY <1>2, <2>2 DEF Made
  <2>. QED
    BY <1>15, <2>3, <2>4
<1>16. ASSUME w \in {<<"capabilities">>, <<"permissions", "filesystem">>, <<"permissions", "shell">>,
                     <<"outputs">>, <<"redaction">>, <<"recovery">>}
       PROVE  o = n
  <2>1. /\ w \notin {<<>>, <<"capabilities", "requires">>, <<"permissions">>, <<"inputs">>}
        /\ w \notin {InVerifier, InPolicy, InSuccess} /\ w # InPattern
    <3>1. CASE w = <<"capabilities">>
      BY <3>1 DEF InVerifier, InPolicy, InSuccess, InPattern
    <3>2. CASE w = <<"permissions", "filesystem">>
      BY <3>2 DEF InVerifier, InPolicy, InSuccess, InPattern
    <3>3. CASE w = <<"permissions", "shell">>
      BY <3>3 DEF InVerifier, InPolicy, InSuccess, InPattern
    <3>4. CASE w = <<"outputs">>
      BY <3>4 DEF InVerifier, InPolicy, InSuccess, InPattern
    <3>5. CASE w = <<"redaction">>
      BY <3>5 DEF InVerifier, InPolicy, InSuccess, InPattern
    <3>6. CASE w = <<"recovery">>
      BY <3>6 DEF InVerifier, InPolicy, InSuccess, InPattern
    <3>. QED
      BY <1>16, <3>1, <3>2, <3>3, <3>4, <3>5, <3>6
  <2>2. /\ HeadAt(d, i + 1) = head /\ NeedsAt(d, i + 1) = needs /\ RepoPath(i + 1) = RepoPath(i)
        /\ NetworkAt(d, i + 1) = network /\ VerifiersAt(d, i + 1) = verifiers
        /\ PatternsAt(d, i + 1) = patterns
    BY <1>3, <1>4, <1>5, <1>6, <1>7, <2>1
  <2> HIDE DEF Own, head, needs, network, verifiers, patterns
  <2>. QED
    BY <1>2, <2>2
<1> HIDE DEF Own
<1>. QED
  BY <1>8, <1>9, <1>10, <1>11, <1>12, <1>13, <1>14, <1>15, <1>16 DEF n, o, l, w, c, p
LEMMA ItemLineStep ==
    ASSUME NEW d \in Seq(LineType), Regular(d), NEW i \in DOMAIN d, ~Comment(d[i]), d[i].dash
    PROVE  LET n == Nested(d, i)
               o == Nested(d, i + 1)
               l == d[i]
           IN /\ Place(d, i) = <<"tools">> => o = [n EXCEPT !.tools = Append(@, Item(l))]
              /\ Place(d, i) = <<"outputs", "required">> => o = [n EXCEPT !.required = Append(@, Item(l))]
              /\ Place(d, i) = <<"permissions", "filesystem", "read">> => o = [n EXCEPT !.read = Append(@, Item(l))]
              /\ Place(d, i) = <<"permissions", "filesystem", "write">> => o = [n EXCEPT !.write = Append(@, Item(l))]
              /\ Place(d, i) = <<"redaction", "keys">> => o = [n EXCEPT !.keys = Append(@, Item(l))]
              /\ Place(d, i) = <<"permissions", "shell", "allow">> => o = [n EXCEPT !.allow = Append(@, l.value)]
              /\ Place(d, i) = <<"verifiers">> => o = [n EXCEPT !.verifiers = Append(@, NewCheck(l.value))]
              /\ Place(d, i) = <<"redaction", "patterns">> => o = [n EXCEPT !.patterns = Append(@, PatternField(NewPattern, l.key, l.value))]
<1> DEFINE n == Nested(d, i)
           o == Nested(d, i + 1)
           l == d[i]
           w == Place(d, i)
           head == HeadAt(d, i)
           needs == NeedsAt(d, i)
           network == NetworkAt(d, i)
           repo_path == ValueAt(d, Places(d, i), <<"inputs">>, "repo_path")
           Own(t, rq, rd, wr, al, ve, ke, pa) ==
               Made(head, needs, t, rq, repo_path, network, rd, wr, al, ve, ke, pa)
           tools(e) == ItemsAt(d, Places(d, e), <<"tools">>)
           required(e) == ItemsAt(d, Places(d, e), <<"outputs", "required">>)
           read(e) == ItemsAt(d, Places(d, e), <<"permissions", "filesystem", "read">>)
           write(e) == ItemsAt(d, Places(d, e), <<"permissions", "filesystem", "write">>)
           keys(e) == ItemsAt(d, Places(d, e), <<"redaction", "keys">>)
           allow(e) == AllowedAt(d, e)
           verifiers(e) == VerifiersAt(d, e)
           patterns(e) == PatternsAt(d, e)
<1>1. /\ HeadAt(d, i + 1) = head /\ NeedsAt(d, i + 1) = needs /\ NetworkAt(d, i + 1) = network
      /\ ValueAt(d, Places(d, i + 1), <<"inputs">>, "repo_path") = repo_path
  BY ValuesStep, ValueStep DEF Sets
<1>2. /\ n = Own(tools(i), required(i), read(i), write(i), allow(i), verifiers(i), keys(i), patterns(i))
      /\ o = Own(tools(i + 1), required(i + 1), read(i + 1), write(i + 1), allow(i + 1), verifiers(i + 1), keys(i + 1), patterns(i + 1))
  BY <1>1, NestedIs, Zenon DEF Made
<1>3. /\ w = <<"tools">> => tools(i + 1) = Append(tools(i), Item(l))
      /\ w # <<"tools">> => tools(i + 1) = tools(i)
  BY ItemsStep DEF Adds
<1>4. /\ w = <<"outputs", "required">> => required(i + 1) = Append(required(i), Item(l))
      /\ w # <<"outputs", "required">> => required(i + 1) = required(i)
  BY ItemsStep DEF Adds
<1>5. /\ w = <<"permissions", "filesystem", "read">> => read(i + 1) = Append(read(i), Item(l))
      /\ w # <<"permissions", "filesystem", "read">> => read(i + 1) = read(i)
  BY ItemsStep DEF Adds
<1>6. /\ w = <<"permissions", "filesystem", "write">> => write(i + 1) = Append(write(i), Item(l))
      /\ w # <<"permissions", "filesystem", "write">> => write(i + 1) = write(i)
  BY ItemsStep DEF Adds
<1>7. /\ w = <<"redaction", "keys">> => keys(i + 1) = Append(keys(i), Item(l))
      /\ w # <<"redaction", "keys">> => keys(i + 1) = keys(i)
  BY ItemsStep DEF Adds
<1>8. /\ w = <<"permissions", "shell", "allow">> => allow(i + 1) = Append(allow(i), l.value)
      /\ w # <<"permissions", "shell", "allow">> => allow(i + 1) = allow(i)
  BY AllowedStep DEF Adds
<1>9. /\ w = <<"verifiers">> => verifiers(i + 1) = Append(verifiers(i), NewCheck(l.value))
      /\ w # <<"verifiers">> => verifiers(i + 1) = verifiers(i)
  BY VerifiersStep DEF Adds
<1>10. /\ w = <<"redaction", "patterns">> => patterns(i + 1) = Append(patterns(i), PatternField(NewPattern, l.key, l.value))
       /\ w # <<"redaction", "patterns">> => patterns(i + 1) = patterns(i)
  BY PatternsStep DEF Adds
<1> HIDE DEF n, o, l, w, head, needs, network, repo_path, tools, required, read, write, keys, allow,
             verifiers, patterns
<1>11. ASSUME w = <<"tools">> PROVE o = [n EXCEPT !.tools = Append(@, Item(l))]
  <2> DEFINE x == tools(i + 1)
  <2>1. /\ required(i + 1) = required(i) /\ read(i + 1) = read(i) /\ write(i + 1) = write(i) /\ keys(i + 1) = keys(i)
        /\ allow(i + 1) = allow(i) /\ verifiers(i + 1) = verifiers(i) /\ patterns(i + 1) = patterns(i)
    BY <1>3, <1>4, <1>5, <1>6, <1>7, <1>8, <1>9, <1>10, <1>11
  <2>2. o = Own(x, required(i), read(i), write(i), allow(i), verifiers(i), keys(i), patterns(i))
    BY <1>2, <2>1
  <2>3. x = Append(tools(i), Item(l))
    BY <1>3, <1>11
  <2> HIDE DEF x
  <2>4. o = [n EXCEPT !.tools = x] /\ n.tools = tools(i)
    BY <1>2, <2>2 DEF Made
  <2>. QED
    BY <2>3, <2>4
<1>12. ASSUME w = <<"outputs", "required">> PROVE o = [n EXCEPT !.required = Append(@, Item(l))]
  <2> DEFINE x == required(i + 1)
  <2>1. /\ tools(i + 1) = tools(i) /\ read(i + 1) = read(i) /\ write(i + 1) = write(i) /\ keys(i + 1) = keys(i)
        /\ allow(i + 1) = allow(i) /\ verifiers(i + 1) = verifiers(i) /\ patterns(i + 1) = patterns(i)
    BY <1>3, <1>4, <1>5, <1>6, <1>7, <1>8, <1>9, <1>10, <1>12
  <2>2. o = Own(tools(i), x, read(i), write(i), allow(i), verifiers(i), keys(i), patterns(i))
    BY <1>2, <2>1
  <2>3. x = Append(required(i), Item(l))
    BY <1>4, <1>12
  <2> HIDE DEF x
  <2>4. o = [n EXCEPT !.required = x] /\ n.required = required(i)
    BY <1>2, <2>2 DEF Made
  <2>. QED
    BY <2>3, <2>4
<1>13. ASSUME w = <<"permissions", "filesystem", "read">> PROVE o = [n EXCEPT !.read = Append(@, Item(l))]
  <2> DEFINE x == read(i + 1)
  <2>1. /\ tools(i + 1) = tools(i) /\ required(i + 1) = required(i) /\ write(i + 1) = write(i) /\ keys(i + 1) = keys(i)
        /\ allow(i + 1) = allow(i) /\ verifiers(i + 1) = verifiers(i) /\ patterns(i + 1) = patterns(i)
    BY <1>3, <1>4, <1>5, <1>6, <1>7, <1>8, <1>9, <1>10, <1>13
  <2>2. o = Own(tools(i), required(i), x, write(i), allow(i), verifiers(i), keys(i), patterns(i))
    BY <1>2, <2>1
  <2>3. x = Append(read(i), Item(l))
    BY <1>5, <1>13
  <2> HIDE DEF x
  <2>4. o = [n EXCEPT !.read = x] /\ n.read = read(i)
    BY <1>2, <2>2 DEF Made
  <2>. QED
    BY <2>3, <2>4
<1>14. ASSUME w = <<"permissions", "filesystem", "write">> PROVE o = [n EXCEPT !.write = Append(@, Item(l))]
  <2> DEFINE x == write(i + 1)
  <2>1. /\ tools(i + 1) = tools(i) /\ required(i + 1) = required(i) /\ read(i + 1) = read(i) /\ keys(i + 1) = keys(i)
        /\ allow(i + 1) = allow(i) /\ verifiers(i + 1) = verifiers(i) /\ patterns(i + 1) = patterns(i)
    BY <1>3, <1>4, <1>5, <1>6, <1>7, <1>8, <1>9, <1>10, <1>14
  <2>2. o = Own(tools(i), required(i), read(i), x, allow(i), verifiers(i), keys(i), patterns(i))
    BY <1>2, <2>1
  <2>3. x = Append(write(i), Item(l))
    BY <1>6, <1>14
  <2> HIDE DEF x
  <2>4. o = [n EXCEPT !.write = x] /\ n.write = write(i)
    BY <1>2, <2>2 DEF Made
  <2>. QED
    BY <2>3, <2>4
<1>15. ASSUME w = <<"redaction", "keys">> PROVE o = [n EXCEPT !.keys = Append(@, Item(l))]
  <2> DEFINE x == keys(i + 1)
  <2>1. /\ tools(i + 1) = tools(i) /\ required(i + 1) = required(i) /\ read(i + 1) = read(i) /\ write(i + 1) = write(i)
        /\ allow(i + 1) = allow(i) /\ verifiers(i + 1) = verifiers(i) /\ patterns(i + 1) = patterns(i)
    BY <1>3, <1>4, <1>5, <1>6, <1>7, <1>8, <1>9, <1>10, <1>15
  <2>2. o = Own(tools(i), required(i), read(i), write(i), allow(i), verifiers(i), x, patterns(i))
    BY <1>2, <2>1
  <2>3. x = Append(keys(i), Item(l))
    BY <1>7, <1>15
  <2> HIDE DEF x
  <2>4. o = [n EXCEPT !.keys = x] /\ n.keys = keys(i)
    BY <1>2, <2>2 DEF Made
  <2>. QED
    BY <2>3, <2>4
<1>16. ASSUME w = <<"permissions", "shell", "allow">> PROVE o = [n EXCEPT !.allow = Append(@, l.value)]
  <2> DEFINE x == allow(i + 1)
  <2>1. /\ tools(i + 1) = tools(i) /\ required(i + 1) = required(i) /\ read(i + 1) = read(i) /\ write(i + 1) = write(i)
        /\ keys(i + 1) = keys(i) /\ verifiers(i + 1) = verifiers(i) /\ patterns(i + 1) = patterns(i)
    BY <1>3, <1>4, <1>5, <1>6, <1>7, <1>8, <1>9, <1>10, <1>16
  <2>2. o = Own(tools(i), required(i), read(i), write(i), x, verifiers(i), keys(i), patterns(i))
    BY <1>2, <2>1
  <2>3. x = Append(allow(i), l.value)
    BY <1>8, <1>16
  <2> HIDE DEF x
  <2>4. o = [n EXCEPT !.allow = x] /\ n.allow = allow(i)
    BY <1>2, <2>2 DEF Made
  <2>. QED
    BY <2>3, <2>4
<1>17. ASSUME w = <<"verifiers">> PROVE o = [n EXCEPT !.verifiers = Append(@, NewCheck(l.value))]
  <2> DEFINE x == verifiers(i + 1)
  <2>1. /\ tools(i + 1) = tools(i) /\ required(i + 1) = required(i) /\ read(i + 1) = read(i) /\ write(i + 1) = write(i)
        /\ keys(i + 1) = keys(i) /\ allow(i + 1) = allow(i) /\ patterns(i + 1) = patterns(i)
    BY <1>3, <1>4, <1>5, <1>6, <1>7, <1>8, <1>9, <1>10, <1>17
  <2>2. o = Own(tools(i), required(i), read(i), write(i), allow(i), x, keys(i), patterns(i))
    BY <1>2, <2>1
  <2>3. x = Append(verifiers(i), NewCheck(l.value))
    BY <1>9, <1>17
  <2> HIDE DEF x
  <2>4. o = [n EXCEPT !.verifiers = x] /\ n.verifiers = verifiers(i)
    BY <1>2, <2>2 DEF Made
  <2>. QED
    BY <2>3, <2>4
<1>18. ASSUME w = <<"redaction", "patterns">> PROVE o = [n EXCEPT !.patterns = Append(@, PatternField(NewPattern, l.key, l.value))]
  <2> DEFINE x == patterns(i + 1)
  <2>1. /\ tools(i + 1) = tools(i) /\ required(i + 1) = required(i) /\ read(i + 1) = read(i) /\ write(i + 1) = write(i)
        /\ keys(i + 1) = keys(i) /\ allow(i + 1) = allow(i) /\ verifiers(i + 1) = verifiers(i)
    BY <1>3, <1>4, <1>5, <1>6, <1>7, <1>8, <1>9, <1>10, <1>18
  <2>2. o = Own(tools(i), required(i), read(i), write(i), allow(i), verifiers(i), keys(i), x)
    BY <1>2, <2>1
  <2>3. x = Append(patterns(i), PatternField(NewPattern, l.key, l.value))
    BY <1>10, <1>18
  <2> HIDE DEF x
  <2>4. o = [n EXCEPT !.patterns = x] /\ n.patterns = patterns(i)
    BY <1>2, <2>2 DEF Made
  <2>. QED
    BY <2>3, <2>4
<1>. QED
  BY <1>11, <1>12, <1>13, <1>14, <1>15, <1>16, <1>17, <1>18 DEF n, o, l, w

LEMMA CommentStep ==
    ASSUME NEW d \in Seq(LineType), Regular(d), NEW i \in DOMAIN d, Comment(d[i])
    PROVE  /\ Nested(d, i + 1) = Nested(d, i)
           /\ \A where : ItemLines(d, Places(d, i + 1), where) = ItemLines(d, Places(d, i), where)
<1>1. i \in Nat
  BY LineFacts
<1>2. Places(d, i + 1) = Places(d, i)
  BY <1>1 DEF Places
<1>3. /\ HeadAt(d, i + 1) = HeadAt(d, i) /\ NeedsAt(d, i + 1) = NeedsAt(d, i)
      /\ NetworkAt(d, i + 1) = NetworkAt(d, i)
  BY ValuesStep
<1>4. /\ AllowedAt(d, i + 1) = AllowedAt(d, i) /\ VerifiersAt(d, i + 1) = VerifiersAt(d, i)
      /\ PatternsAt(d, i + 1) = PatternsAt(d, i)
  BY AllowedStep, VerifiersStep, PatternsStep DEF Adds
<1>5. Nested(d, i + 1) = Nested(d, i)
  BY <1>2, <1>3, <1>4, NestedIs, Zenon
<1>. QED
  BY <1>2, <1>5
-----------------------------------------------------------------------------
(* Where the scanner is: what it keeps of the lines above tells what the    *)
(* next line stands under.                                                  *)
ItemsBefore(d, i, where) == Cardinality(ItemLines(d, Places(d, i), where))

Position(d, i, section, key, verifier, rule) ==
    LET L0 == Label(d, i, 0)
        L2 == Label(d, i, 2)
        L4 == Label(d, i, 4)
    IN /\ section = L0
       /\ L0 \in {"capabilities", "outputs", "redaction"} => key = IF L2 = "" THEN <<>> ELSE <<L2>>
       /\ L0 = "permissions" => key = IF L2 = "" THEN <<>> ELSE IF L4 = "" THEN <<L2>> ELSE <<L2, L4>>
       /\ L0 = "verifiers" /\ L2 = "-" => /\ verifier = ItemsBefore(d, i, <<"verifiers">>)
                                          /\ L4 = "policy" => key = <<"verifier_policy">>
                                          /\ L4 = "success" => key = <<"verifier_success">>
       /\ L0 = "redaction" /\ L2 = "patterns" /\ L4 = "-" =>
             rule = ItemsBefore(d, i, <<"redaction", "patterns">>)

Scanned(n) ==
    m = Nested(doc, n) /\ Position(doc, n, current, sub, check, pattern)

LEMMA LabelsAfter ==
    ASSUME NEW d \in Seq(LineType), NEW i \in DOMAIN d, ~Comment(d[i])
    PROVE  LET L0 == Label(d, i, 0)
               L2 == Label(d, i, 2)
               L4 == Label(d, i, 4)
               K == KeyOf(d[i])
               M0 == Label(d, i + 1, 0)
               M2 == Label(d, i + 1, 2)
               M4 == Label(d, i + 1, 4)
           IN /\ d[i].indent = 0 => M0 = K /\ M2 = "" /\ M4 = ""
              /\ d[i].indent = 2 => M0 = L0 /\ M2 = K /\ M4 = ""
              /\ d[i].indent = 4 => M0 = L0 /\ M2 = L2 /\ M4 = K
              /\ d[i].indent = 6 => M0 = L0 /\ M2 = L2 /\ M4 = L4
<1> DEFINE n == d[i].indent
           K == KeyOf(d[i])
           after(c) == IF n <= c THEN IF n = c THEN K ELSE "" ELSE Label(d, i, c)
<1>1. \A c \in Nat : Label(d, i + 1, c) = after(c)
  BY LabelStep
<1>2. /\ Label(d, i + 1, 0) = after(0) /\ Label(d, i + 1, 2) = after(2)
      /\ Label(d, i + 1, 4) = after(4)
  BY <1>1
<1> HIDE DEF n, K
<1>3. n = 0 => after(0) = K /\ after(2) = "" /\ after(4) = ""
  OBVIOUS
<1>4. n = 2 => after(0) = Label(d, i, 0) /\ after(2) = K /\ after(4) = ""
  OBVIOUS
<1>5. n = 4 => after(0) = Label(d, i, 0) /\ after(2) = Label(d, i, 2) /\ after(4) = K
  OBVIOUS
<1>6. n = 6 => /\ after(0) = Label(d, i, 0) /\ after(2) = Label(d, i, 2)
               /\ after(4) = Label(d, i, 4)
  OBVIOUS
<1> HIDE DEF after
<1>. QED
  BY <1>2, <1>3, <1>4, <1>5, <1>6 DEF n, K

LEMMA SkipCommentReads ==
    ASSUME doc \in Seq(LineType), Regular(doc), at \in DOMAIN doc, Scanned(at), SkipComment
    PROVE  Scanned(at)' /\ at' = at + 1 /\ UNCHANGED doc
<1>1. /\ Comment(doc[at]) /\ at' = at + 1
      /\ UNCHANGED <<doc, current, sub, check, pattern, m>>
  BY DEF SkipComment, Advance, Line
<1>2. /\ Nested(doc, at + 1) = Nested(doc, at)
      /\ \A where : ItemLines(doc, Places(doc, at + 1), where) = ItemLines(doc, Places(doc, at), where)
  BY <1>1, CommentStep
<1>3. \A c \in Nat : Label(doc, at + 1, c) = Label(doc, at, c)
  BY <1>1, LabelStep
<1>4. /\ Label(doc, at + 1, 0) = Label(doc, at, 0) /\ Label(doc, at + 1, 2) = Label(doc, at, 2)
      /\ Label(doc, at + 1, 4) = Label(doc, at, 4)
  BY <1>3
<1>5. m = Nested(doc, at + 1) /\ Position(doc, at + 1, current, sub, check, pattern)
  BY <1>2, <1>4, Zenon DEF Position, Scanned, ItemsBefore
<1>. QED
  BY <1>1, <1>5, Zenon DEF Scanned
LEMMA ScanSectionReads ==
    ASSUME doc \in Seq(LineType), Regular(doc), at \in DOMAIN doc, Scanned(at), ScanSection
    PROVE  Scanned(at)' /\ at' = at + 1 /\ UNCHANGED doc
<1> DEFINE l == doc[at]
<1>1. /\ ~Comment(l) /\ l.indent = 0 /\ ~l.dash /\ at' = at + 1 /\ UNCHANGED doc
      /\ HasKey(l) => current' = l.key /\ sub' = <<>>
  BY DEF ScanSection, Section, Advance, Line
<1>2. HasKey(l) => m' = IF l.key \in Heads THEN [m EXCEPT !.head[l.key] = l.value] ELSE m
  BY Zenon DEF ScanSection, Line
<1>3. Place(doc, at) = <<>> /\ l.key # ""
  <2>1. l.key # "" /\ (Place(doc, at) = <<>> \/ l.indent = 2 \/ l.indent = 4 \/ l.indent = 6)
    BY <1>1, KeyShapes, Zenon
  <2>2. l.indent # 2 /\ l.indent # 4 /\ l.indent # 6
    BY <1>1
  <2>. QED
    BY <2>1, <2>2, Zenon
<1>4. m' = Nested(doc, at + 1)
  <2>1. Nested(doc, at + 1) = IF l.key \in Heads THEN [Nested(doc, at) EXCEPT !.head[l.key] = l.value]
                              ELSE Nested(doc, at)
    BY <1>1, <1>3, KeyLineStep, Zenon
  <2>2. HasKey(l) /\ m = Nested(doc, at)
    BY <1>3 DEF HasKey, Scanned
  <2>3. CASE l.key \in Heads
    BY <1>2, <2>1, <2>2, <2>3, Zenon
  <2>4. CASE l.key \notin Heads
    BY <1>2, <2>1, <2>2, <2>4, Zenon
  <2>. QED
    BY <2>3, <2>4
<1>5. /\ Label(doc, at + 1, 0) = l.key /\ Label(doc, at + 1, 2) = "" /\ Label(doc, at + 1, 4) = ""
  BY <1>1, LabelsAfter DEF KeyOf
<1>6. Position(doc, at + 1, current', sub', check', pattern')
  BY <1>1, <1>3, <1>5 DEF Position, HasKey
<1>. QED
  BY <1>1, <1>4, <1>6, Zenon DEF Scanned

LEMMA ScanCapabilitiesReads ==
    ASSUME doc \in Seq(LineType), Regular(doc), at \in DOMAIN doc, Scanned(at), ScanCapabilities
    PROVE  Scanned(at)' /\ at' = at + 1 /\ UNCHANGED doc
<1> DEFINE l == doc[at]
           L2 == Label(doc, at, 2)
<1>1. /\ ~Comment(l) /\ ~Section(l) /\ at' = at + 1 /\ UNCHANGED <<doc, current>>
      /\ current = "capabilities"
      /\ sub' = IF l.indent = 2 /\ HasKey(l) THEN <<KeyOf(l)>> ELSE sub
  BY DEF ScanCapabilities, Reading, Advance, Line
<1>2. m' = IF l.indent = 4 /\ sub = <<"requires">> /\ KeyOf(l) \in Needs
           THEN [m EXCEPT !.needs[l.key] = l.value] ELSE m
  BY Zenon DEF ScanCapabilities, Line
<1>3. /\ Label(doc, at, 0) = "capabilities" /\ sub = IF L2 = "" THEN <<>> ELSE <<L2>>
      /\ m = Nested(doc, at)
  BY <1>1 DEF Scanned, Position
<1>4. ~l.dash /\ l.key # "" /\ \/ Place(doc, at) = <<"capabilities">> /\ l.indent = 2
                               \/ /\ Place(doc, at) = <<"capabilities", "requires">>
                                  /\ l.indent = 4 /\ L2 = "requires" /\ l.key \in Needs
  <2>1. ~l.dash
    BY <1>1, <1>3, ItemShapes
  <2>. QED
    BY <1>1, <1>3, <2>1, KeyShapes DEF Section
<1>5. CASE Place(doc, at) = <<"capabilities">> /\ l.indent = 2
  <2>1. Nested(doc, at + 1) = Nested(doc, at)
    BY <1>1, <1>4, <1>5, KeyLineStep, Zenon
  <2>2. l.indent # 4
    BY <1>5
  <2>3. m' = Nested(doc, at + 1)
    BY <1>2, <1>3, <2>1, <2>2, Zenon
  <2>4. Label(doc, at + 1, 0) = "capabilities" /\ Label(doc, at + 1, 2) = l.key
    BY <1>1, <1>3, <1>4, <1>5, LabelsAfter DEF KeyOf
  <2>5. Position(doc, at + 1, current', sub', check', pattern')
    BY <1>1, <1>4, <1>5, <2>4 DEF Position, HasKey, KeyOf
  <2>. QED
    BY <1>1, <2>3, <2>5, Zenon DEF Scanned
<1>6. CASE /\ Place(doc, at) = <<"capabilities", "requires">>
           /\ l.indent = 4 /\ L2 = "requires" /\ l.key \in Needs
  <2>1. Nested(doc, at + 1) = [Nested(doc, at) EXCEPT !.needs[l.key] = l.value]
    BY <1>1, <1>4, <1>6, KeyLineStep, Zenon
  <2>2. sub = <<"requires">> /\ KeyOf(l) \in Needs
    BY <1>3, <1>4, <1>6 DEF KeyOf
  <2>3. m' = Nested(doc, at + 1)
    BY <1>2, <1>3, <1>6, <2>1, <2>2, Zenon
  <2>4. Label(doc, at + 1, 0) = "capabilities" /\ Label(doc, at + 1, 2) = "requires" /\ sub' = sub
    BY <1>1, <1>3, <1>4, <1>6, LabelsAfter
  <2>5. Position(doc, at + 1, current', sub', check', pattern')
    BY <1>1, <2>2, <2>4 DEF Position
  <2>. QED
    BY <1>1, <2>3, <2>5, Zenon DEF Scanned
<1>. QED
  BY <1>4, <1>5, <1>6
LEMMA ScanToolsReads ==
    ASSUME doc \in Seq(LineType), Regular(doc), at \in DOMAIN doc, Scanned(at), ScanTools
    PROVE  Scanned(at)' /\ at' = at + 1 /\ UNCHANGED doc
<1> DEFINE l == doc[at]
<1>1. /\ ~Comment(l) /\ ~Section(l) /\ at' = at + 1
      /\ UNCHANGED <<doc, current, sub, check, pattern>> /\ current = "tools"
  BY DEF ScanTools, Reading, Advance, Line
<1>2. m' = IF l.dash THEN [m EXCEPT !.tools = Append(@, Item(l))] ELSE m
  BY Zenon DEF ScanTools, Line
<1>3. Label(doc, at, 0) = "tools" /\ m = Nested(doc, at)
  BY <1>1 DEF Scanned, Position
<1>4. l.dash
  BY <1>1, <1>3, KeyShapes DEF Section
<1>5. Place(doc, at) = <<"tools">> /\ l.indent = 2
  BY <1>1, <1>3, <1>4, ItemShapes
<1>6. m' = Nested(doc, at + 1)
  <2>1. Nested(doc, at + 1) = [Nested(doc, at) EXCEPT !.tools = Append(@, Item(l))]
    BY <1>1, <1>4, <1>5, ItemLineStep, Zenon
  <2>. QED
    BY <1>2, <1>3, <1>4, <2>1, Zenon
<1>7. Label(doc, at + 1, 0) = "tools"
  BY <1>1, <1>3, <1>5, LabelsAfter
<1>8. Position(doc, at + 1, current', sub', check', pattern')
  BY <1>1, <1>7 DEF Position
<1>. QED
  BY <1>1, <1>6, <1>8, Zenon DEF Scanned

LEMMA ScanInputsReads ==
    ASSUME doc \in Seq(LineType), Regular(doc), at \in DOMAIN doc, Scanned(at), ScanInputs
    PROVE  Scanned(at)' /\ at' = at + 1 /\ UNCHANGED doc
<1> DEFINE l == doc[at]
<1>1. /\ ~Comment(l) /\ ~Section(l) /\ at' = at + 1
      /\ UNCHANGED <<doc, current, sub, check, pattern>> /\ current = "inputs"
  BY DEF ScanInputs, Reading, Advance, Line
<1>2. m' = IF KeyOf(l) = "repo_path" THEN [m EXCEPT !.repo_path = l.value] ELSE m
  BY Zenon DEF ScanInputs, Line
<1>3. Label(doc, at, 0) = "inputs" /\ m = Nested(doc, at)
  BY <1>1 DEF Scanned, Position
<1>4. ~l.dash
  BY <1>1, <1>3, ItemShapes
<1>5. Place(doc, at) = <<"inputs">> /\ l.indent = 2 /\ l.key = "repo_path"
  BY <1>1, <1>3, <1>4, KeyShapes DEF Section
<1>6. m' = Nested(doc, at + 1)
  <2>1. Nested(doc, at + 1) = [Nested(doc, at) EXCEPT !.repo_path = l.value]
    BY <1>1, <1>4, <1>5, KeyLineStep, Zenon
  <2>2. KeyOf(l) = "repo_path"
    BY <1>4, <1>5 DEF KeyOf
  <2>. QED
    BY <1>2, <1>3, <2>1, <2>2, Zenon
<1>7. Label(doc, at + 1, 0) = "inputs"
  BY <1>1, <1>3, <1>5, LabelsAfter
<1>8. Position(doc, at + 1, current', sub', check', pattern')
  BY <1>1, <1>7 DEF Position
<1>. QED
  BY <1>1, <1>6, <1>8, Zenon DEF Scanned

LEMMA ScanOutputsReads ==
    ASSUME doc \in Seq(LineType), Regular(doc), at \in DOMAIN doc, Scanned(at), ScanOutputs
    PROVE  Scanned(at)' /\ at' = at + 1 /\ UNCHANGED doc
<1> DEFINE l == doc[at]
           L2 == Label(doc, at, 2)
<1>1. /\ ~Comment(l) /\ ~Section(l) /\ at' = at + 1 /\ UNCHANGED <<doc, current>>
      /\ current = "outputs"
      /\ sub' = IF l.indent = 2 THEN <<KeyOf(l)>> ELSE sub
  BY DEF ScanOutputs, Reading, Advance, Line
<1>2. m' = IF l.indent # 2 /\ sub = <<"required">> /\ l.dash
           THEN [m EXCEPT !.required = Append(@, Item(l))] ELSE m
  BY Zenon DEF ScanOutputs, Line
<1>3. /\ Label(doc, at, 0) = "outputs" /\ sub = IF L2 = "" THEN <<>> ELSE <<L2>>
      /\ m = Nested(doc, at)
  BY <1>1 DEF Scanned, Position
<1>4. CASE ~l.dash
  <2>1. Place(doc, at) = <<"outputs">> /\ l.indent = 2 /\ l.key # ""
    BY <1>1, <1>3, <1>4, KeyShapes DEF Section
  <2>2. Nested(doc, at + 1) = Nested(doc, at)
    BY <1>1, <1>4, <2>1, KeyLineStep, Zenon
  <2>3. m' = Nested(doc, at + 1)
    BY <1>2, <1>3, <1>4, <2>2, Zenon
  <2>4. Label(doc, at + 1, 0) = "outputs" /\ Label(doc, at + 1, 2) = l.key
    BY <1>1, <1>3, <1>4, <2>1, LabelsAfter DEF KeyOf
  <2>5. Position(doc, at + 1, current', sub', check', pattern')
    BY <1>1, <1>4, <2>1, <2>4 DEF Position, KeyOf
  <2>. QED
    BY <1>1, <2>3, <2>5, Zenon DEF Scanned
<1>5. CASE l.dash
  <2>1. Place(doc, at) = <<"outputs", "required">> /\ l.indent = 4 /\ L2 = "required"
    BY <1>1, <1>3, <1>5, ItemShapes
  <2>2. Nested(doc, at + 1) = [Nested(doc, at) EXCEPT !.required = Append(@, Item(l))]
    BY <1>1, <1>5, <2>1, ItemLineStep, Zenon
  <2>3. sub = <<"required">> /\ l.indent # 2 /\ sub' = sub
    <3>1. l.indent # 2 /\ L2 # ""
      <4>1. l.indent = 4
        BY <2>1, Zenon
      <4>2. L2 = "required"
        BY <2>1, Zenon
      <4>3. l.indent # 2
        BY <4>1
      <4>4. L2 # ""
        BY <4>2, Zenon
      <4>. QED
        BY <4>3, <4>4
    <3>2. sub = <<L2>>
      BY <1>3, <3>1, Zenon
    <3>. QED
      BY <1>1, <2>1, <3>1, <3>2, Zenon
  <2>4. m' = Nested(doc, at + 1)
    BY <1>2, <1>3, <1>5, <2>2, <2>3, Zenon
  <2>5. Label(doc, at + 1, 0) = "outputs" /\ Label(doc, at + 1, 2) = "required"
    BY <1>1, <1>3, <2>1, LabelsAfter
  <2>6. Position(doc, at + 1, current', sub', check', pattern')
    BY <1>1, <2>3, <2>5 DEF Position
  <2>. QED
    BY <1>1, <2>4, <2>6, Zenon DEF Scanned
<1>. QED
  BY <1>4, <1>5

LEMMA SkipLineReads ==
    ASSUME doc \in Seq(LineType), Regular(doc), at \in DOMAIN doc, Scanned(at), SkipLine
    PROVE  Scanned(at)' /\ at' = at + 1 /\ UNCHANGED doc
<1> DEFINE l == doc[at]
           L0 == Label(doc, at, 0)
<1>1. /\ ~Comment(l) /\ ~Section(l) /\ at' = at + 1
      /\ UNCHANGED <<doc, current, sub, check, pattern, m>>
      /\ current \notin {"capabilities", "tools", "inputs", "outputs", "permissions", "verifiers",
                         "redaction"}
  BY DEF SkipLine, Advance, Line
<1>2. current = L0 /\ m = Nested(doc, at)
  BY DEF Scanned, Position
<1>3. ~l.dash
  BY <1>1, <1>2, ItemShapes
<1>4. Place(doc, at) = <<"recovery">> /\ l.indent = 2
  BY <1>1, <1>2, <1>3, KeyShapes DEF Section
<1>5. m' = Nested(doc, at + 1)
  <2>1. Nested(doc, at + 1) = Nested(doc, at)
    BY <1>1, <1>3, <1>4, KeyLineStep, Zenon
  <2>. QED
    BY <1>1, <1>2, <2>1
<1>6. Label(doc, at + 1, 0) = L0
  BY <1>1, <1>4, LabelsAfter
<1>7. Position(doc, at + 1, current', sub', check', pattern')
  BY <1>1, <1>2, <1>6 DEF Position
<1>. QED
  BY <1>1, <1>5, <1>7, Zenon DEF Scanned
(* The scopes a line of the permissions is granted in.                      *)
LEMMA GrantedIs ==
    ASSUME NEW p, NEW l
    PROVE  /\ Granted(p, l, <<"filesystem", "read">>) = [p EXCEPT !.read = Append(@, Item(l))]
           /\ Granted(p, l, <<"filesystem", "write">>) = [p EXCEPT !.write = Append(@, Item(l))]
           /\ l.key = "run" =>
                 Granted(p, l, <<"shell", "allow">>) = [p EXCEPT !.allow = Append(@, l.value)]
<1>1. /\ <<"filesystem", "write">> # <<"filesystem", "read">>
      /\ <<"shell", "allow">> # <<"filesystem", "read">>
      /\ <<"shell", "allow">> # <<"filesystem", "write">>
  OBVIOUS
<1>2. Granted(p, l, <<"filesystem", "read">>) = [p EXCEPT !.read = Append(@, Item(l))]
  BY <1>1, Zenon DEF Granted
<1>3. Granted(p, l, <<"filesystem", "write">>) = [p EXCEPT !.write = Append(@, Item(l))]
  BY <1>1, Zenon DEF Granted
<1>4. ASSUME l.key = "run"
      PROVE  Granted(p, l, <<"shell", "allow">>) = [p EXCEPT !.allow = Append(@, l.value)]
  BY <1>1, <1>4, Zenon DEF Granted
<1>. QED
  BY <1>2, <1>3, <1>4, Zenon

LEMMA ScanPermissionsReads ==
    ASSUME doc \in Seq(LineType), Regular(doc), at \in DOMAIN doc, Scanned(at), ScanPermissions
    PROVE  Scanned(at)' /\ at' = at + 1 /\ UNCHANGED doc
<1> DEFINE l == doc[at]
           L2 == Label(doc, at, 2)
           L4 == Label(doc, at, 4)
<1>1. /\ ~Comment(l) /\ ~Section(l) /\ at' = at + 1 /\ UNCHANGED <<doc, current>>
      /\ current = "permissions"
      /\ sub' = IF ~HasKey(l) \/ l.indent \notin {2, 4} THEN sub
                ELSE IF l.indent = 2 THEN <<KeyOf(l)>>
                ELSE <<IF sub = <<>> THEN "" ELSE sub[1], KeyOf(l)>>
  BY DEF ScanPermissions, Reading, Advance, Line
<1>2. m' = IF l.indent = 2
           THEN IF KeyOf(l) = "network" THEN [m EXCEPT !.network = (l.value = <<"true">>)] ELSE m
           ELSE IF l.indent # 4 /\ l.dash THEN Granted(m, l, sub) ELSE m
  BY Zenon DEF ScanPermissions, Line
<1>3. /\ Label(doc, at, 0) = "permissions" /\ m = Nested(doc, at)
      /\ sub = IF L2 = "" THEN <<>> ELSE IF L4 = "" THEN <<L2>> ELSE <<L2, L4>>
  BY <1>1 DEF Scanned, Position
<1>4. ASSUME ~l.dash, Place(doc, at) = <<"permissions">>, l.indent = 2, l.key # ""
      PROVE  Scanned(at)'
  <2>1. KeyOf(l) = l.key /\ sub' = <<l.key>>
    BY <1>1, <1>4 DEF KeyOf, HasKey
  <2>2. Nested(doc, at + 1) = IF l.key = "network"
                              THEN [Nested(doc, at) EXCEPT !.network = (l.value = <<"true">>)]
                              ELSE Nested(doc, at)
    BY <1>1, <1>4, KeyLineStep, Zenon
  <2>3. m' = Nested(doc, at + 1)
    <3>1. CASE l.key = "network"
      BY <1>2, <1>3, <1>4, <2>1, <2>2, <3>1, Zenon
    <3>2. CASE l.key # "network"
      BY <1>2, <1>3, <1>4, <2>1, <2>2, <3>2, Zenon
    <3>. QED
      BY <3>1, <3>2
  <2>4. /\ Label(doc, at + 1, 0) = "permissions" /\ Label(doc, at + 1, 2) = l.key
        /\ Label(doc, at + 1, 4) = ""
    BY <1>1, <1>3, <1>4, <2>1, LabelsAfter
  <2>5. Position(doc, at + 1, current', sub', check', pattern')
    BY <1>1, <1>4, <2>1, <2>4 DEF Position
  <2>. QED
    BY <1>1, <2>3, <2>5, Zenon DEF Scanned
<1>5. ASSUME ~l.dash, Place(doc, at) \in {<<"permissions", "filesystem">>, <<"permissions", "shell">>},
             l.indent = 4, L2 \in {"filesystem", "shell"}, l.key # ""
      PROVE  Scanned(at)'
  <2>1. KeyOf(l) = l.key /\ sub' = <<L2, l.key>>
    <3>1. KeyOf(l) = l.key /\ HasKey(l) /\ l.indent # 2 /\ l.indent \in {2, 4}
      <4>1. l.indent = 4
        BY <1>5, Zenon
      <4>2. l.indent # 2 /\ l.indent \in {2, 4}
        BY <4>1
      <4>3. KeyOf(l) = l.key /\ HasKey(l)
        BY <1>5, Zenon DEF KeyOf, HasKey
      <4>. QED
        BY <4>2, <4>3
    <3>2. L2 # ""
      BY <1>5
    <3>3. sub # <<>> /\ sub[1] = L2
      <4>1. CASE L4 = ""
        <5>1. sub = <<L2>>
          BY <1>3, <3>2, <4>1, Zenon
        <5>. QED
          BY <5>1
      <4>2. CASE L4 # ""
        <5>1. sub = <<L2, L4>>
          BY <1>3, <3>2, <4>2, Zenon
        <5>. QED
          BY <5>1
      <4>. QED
        BY <4>1, <4>2
    <3>. QED
      BY <1>1, <3>1, <3>3, Zenon
  <2>2. Nested(doc, at + 1) = Nested(doc, at)
    BY <1>1, <1>5, KeyLineStep, Zenon
  <2>3. m' = Nested(doc, at + 1)
    <3>1. l.indent = 4
      BY <1>5, Zenon
    <3>2. l.indent # 2
      BY <3>1
    <3>. QED
      BY <1>2, <1>3, <1>5, <2>2, <3>2, Zenon
  <2>4. /\ Label(doc, at + 1, 0) = "permissions" /\ Label(doc, at + 1, 2) = L2
        /\ Label(doc, at + 1, 4) = l.key
    BY <1>1, <1>3, <1>5, <2>1, LabelsAfter
  <2>5. Position(doc, at + 1, current', sub', check', pattern')
    BY <1>1, <1>5, <2>1, <2>4 DEF Position
  <2>. QED
    BY <1>1, <2>3, <2>5, Zenon DEF Scanned
<1>6. ASSUME l.indent = 6, L2 # "", L4 # "", l.dash,
             Granted(m, l, <<L2, L4>>) = Nested(doc, at + 1)
      PROVE  Scanned(at)'
  <2>1. sub = <<L2, L4>>
    BY <1>3, <1>6, Zenon
  <2>2. l.indent # 2 /\ l.indent # 4 /\ l.indent \notin {2, 4}
    <3>1. l.indent = 6
      BY <1>6, Zenon
    <3>. QED
      BY <3>1
  <2>3. sub' = sub
    BY <1>1, <2>2, Zenon
  <2>4. m' = Nested(doc, at + 1)
    BY <1>2, <1>6, <2>1, <2>2, Zenon
  <2>5. /\ Label(doc, at + 1, 0) = "permissions" /\ Label(doc, at + 1, 2) = L2
        /\ Label(doc, at + 1, 4) = L4
    BY <1>1, <1>3, <1>6, LabelsAfter
  <2>6. Position(doc, at + 1, current', sub', check', pattern')
    BY <1>1, <1>3, <2>3, <2>5 DEF Position
  <2>. QED
    BY <1>1, <2>4, <2>6, Zenon DEF Scanned
<1>7. CASE ~l.dash
  <2>1. \/ Place(doc, at) = <<"permissions">> /\ l.indent = 2
        \/ /\ Place(doc, at) = <<"permissions", "filesystem">>
           /\ l.indent = 4 /\ L2 = "filesystem"
        \/ /\ Place(doc, at) = <<"permissions", "shell">>
           /\ l.indent = 4 /\ L2 = "shell"
    BY <1>1, <1>3, <1>7, KeyShapes DEF Section
  <2>2. l.key # ""
    BY <1>1, <1>7, KeyShapes
  <2>. QED
    BY <1>1, <1>4, <1>5, <1>7, <2>1, <2>2
<1>8. CASE l.dash
  <2>1. /\ l.indent = 6
        /\ \/ Place(doc, at) = <<"permissions", "filesystem", "read">> /\ L2 = "filesystem" /\ L4 = "read"
           \/ Place(doc, at) = <<"permissions", "filesystem", "write">> /\ L2 = "filesystem" /\ L4 = "write"
           \/ /\ Place(doc, at) = <<"permissions", "shell", "allow">>
              /\ L2 = "shell" /\ L4 = "allow" /\ l.key = "run"
    BY <1>1, <1>3, <1>8, ItemShapes
  <2>2. CASE Place(doc, at) = <<"permissions", "filesystem", "read">> /\ L2 = "filesystem" /\ L4 = "read"
    <3>1. Nested(doc, at + 1) = [Nested(doc, at) EXCEPT !.read = Append(@, Item(l))]
      BY <1>1, <1>8, <2>2, ItemLineStep, Zenon
    <3>2. Granted(m, l, <<L2, L4>>) = [m EXCEPT !.read = Append(@, Item(l))]
      BY <2>2, GrantedIs, ZenonT(30)
    <3>3. Granted(m, l, <<L2, L4>>) = Nested(doc, at + 1)
      BY <1>3, <3>1, <3>2, Zenon
    <3>. QED
      BY <1>1, <1>6, <1>8, <2>1, <2>2, <3>3
  <2>3. CASE Place(doc, at) = <<"permissions", "filesystem", "write">> /\ L2 = "filesystem" /\ L4 = "write"
    <3>1. Nested(doc, at + 1) = [Nested(doc, at) EXCEPT !.write = Append(@, Item(l))]
      BY <1>1, <1>8, <2>3, ItemLineStep, Zenon
    <3>2. Granted(m, l, <<L2, L4>>) = [m EXCEPT !.write = Append(@, Item(l))]
      BY <2>3, GrantedIs, ZenonT(30)
    <3>3. Granted(m, l, <<L2, L4>>) = Nested(doc, at + 1)
      BY <1>3, <3>1, <3>2, Zenon
    <3>. QED
      BY <1>1, <1>6, <1>8, <2>1, <2>3, <3>3
  <2>4. CASE /\ Place(doc, at) = <<"permissions", "shell", "allow">>
             /\ L2 = "shell" /\ L4 = "allow" /\ l.key = "run"
    <3>1. Nested(doc, at + 1) = [Nested(doc, at) EXCEPT !.allow = Append(@, l.value)]
      BY <1>1, <1>8, <2>4, ItemLineStep, Zenon
    <3>2. Granted(m, l, <<L2, L4>>) = [m EXCEPT !.allow = Append(@, l.value)]
      BY <2>4, GrantedIs, Zenon
    <3>3. Granted(m, l, <<L2, L4>>) = Nested(doc, at + 1)
      BY <1>3, <3>1, <3>2, Zenon
    <3>. QED
      BY <1>1, <1>6, <1>8, <2>1, <2>4, <3>3
  <2>. QED
    BY <2>1, <2>2, <2>3, <2>4
<1>. QED
  BY <1>1, <1>7, <1>8
LEMMA ScanVerifierReads ==
    ASSUME doc \in Seq(LineType), Regular(doc), at \in DOMAIN doc, Scanned(at), ScanVerifier
    PROVE  Scanned(at)' /\ at' = at + 1 /\ UNCHANGED doc
<1> DEFINE l == doc[at]
<1>1. /\ ~Comment(l) /\ at' = at + 1 /\ UNCHANGED <<doc, current>>
      /\ current = "verifiers" /\ l.dash
      /\ check' = Len(m.verifiers) + 1
  BY DEF ScanVerifier, Reading, Advance, Line
<1>2. m' = [m EXCEPT !.verifiers = Append(@, NewCheck(l.value))]
  BY Zenon DEF ScanVerifier, Line
<1>3. Label(doc, at, 0) = "verifiers" /\ m = Nested(doc, at)
  BY <1>1 DEF Scanned, Position
<1>4. Place(doc, at) = <<"verifiers">> /\ l.indent = 2
  BY <1>1, <1>3, ItemShapes
<1>5. m' = Nested(doc, at + 1)
  <2>1. Nested(doc, at + 1) = [Nested(doc, at) EXCEPT !.verifiers = Append(@, NewCheck(l.value))]
    BY <1>1, <1>4, ItemLineStep, Zenon
  <2>. QED
    BY <1>2, <1>3, <2>1, Zenon
<1>6. /\ Label(doc, at + 1, 0) = "verifiers" /\ Label(doc, at + 1, 2) = "-"
      /\ Label(doc, at + 1, 4) = ""
  <2>1. KeyOf(l) = "-"
    BY <1>1 DEF KeyOf
  <2>. QED
    BY <1>1, <1>3, <1>4, <2>1, LabelsAfter
<1>7. check' = ItemsBefore(doc, at + 1, <<"verifiers">>)
  <2>1. m.verifiers = VerifiersAt(doc, at)
    BY <1>3, NestedIs
  <2>2. Adds(doc, at, <<"verifiers">>)
    BY <1>1, <1>4 DEF Adds
  <2>3. ItemsBefore(doc, at + 1, <<"verifiers">>) = Len(VerifiersAt(doc, at)) + 1
    BY <2>2, VerifiersStep, Zenon DEF ItemsBefore
  <2>. QED
    BY <1>1, <2>1, <2>3, Zenon
<1>8. Position(doc, at + 1, current', sub', check', pattern')
  BY <1>1, <1>6, <1>7 DEF Position
<1>. QED
  BY <1>1, <1>5, <1>8, Zenon DEF Scanned

LEMMA ScanVerifierLineReads ==
    ASSUME doc \in Seq(LineType), Regular(doc), at \in DOMAIN doc, Scanned(at), ScanVerifierLine
    PROVE  Scanned(at)' /\ at' = at + 1 /\ UNCHANGED doc
<1> DEFINE l == doc[at]
           L4 == Label(doc, at, 4)
           v == m.verifiers[check]
           c == ItemsBefore(doc, at, <<"verifiers">>)
<1>1. /\ ~Comment(l) /\ ~Section(l) /\ at' = at + 1 /\ UNCHANGED <<doc, current, check>>
      /\ current = "verifiers" /\ ~(l.dash /\ l.key = "type")
  BY DEF ScanVerifierLine, Reading, Advance, Line
<1>2. m' = IF check = 0 THEN m
           ELSE [m EXCEPT !.verifiers[check] =
                    CASE l.indent = 4 -> VerifierField(v, KeyOf(l), l.value)
                      [] l.indent = 6 /\ sub = <<"verifier_policy">> ->
                            PolicyField(v, KeyOf(l), l.value)
                      [] l.indent # 4 /\ sub = <<"verifier_success">> /\ NamesExitCode(l) ->
                            [v EXCEPT !.exit_code = Number(l.value)]
                      [] OTHER -> v]
  BY Zenon DEF ScanVerifierLine, Line
<1>3. sub' = IF check = 0 \/ l.indent # 4 THEN sub
             ELSE CASE KeyOf(l) = "policy"  -> <<"verifier_policy">>
                    [] KeyOf(l) = "success" -> <<"verifier_success">>
                    [] OTHER -> sub
  BY Zenon DEF ScanVerifierLine, Line
<1>4. Label(doc, at, 0) = "verifiers" /\ m = Nested(doc, at)
  BY <1>1 DEF Scanned, Position
<1>5. ~l.dash
  BY <1>1, <1>4, ItemShapes
<1>6. /\ Label(doc, at, 2) = "-" /\ l.indent \in {4, 6}
      /\ \/ Place(doc, at) = InVerifier /\ l.indent = 4
         \/ Place(doc, at) = InPolicy /\ l.indent = 6 /\ L4 = "policy"
         \/ Place(doc, at) = InSuccess /\ l.indent = 6 /\ L4 = "success" /\ l.key = "exit_code"
  BY <1>1, <1>4, <1>5, KeyShapes DEF Section
<1>7. /\ check = c /\ (L4 = "policy" => sub = <<"verifier_policy">>)
      /\ L4 = "success" => sub = <<"verifier_success">>
  BY <1>4, <1>6 DEF Scanned, Position
<1>8. check # 0 /\ KeyOf(l) = l.key
  <2>1. c # 0
    BY <1>1, <1>5, <1>6, KeyLineStep, Zenon DEF ItemsBefore
  <2>. QED
    BY <1>5, <1>7, <2>1 DEF KeyOf
<1>9. ItemsBefore(doc, at + 1, <<"verifiers">>) = c
  <2>1. ~Adds(doc, at, <<"verifiers">>)
    BY <1>5 DEF Adds
  <2>. QED
    BY <2>1, VerifiersStep, Zenon DEF ItemsBefore
<1>10. CASE Place(doc, at) = InVerifier /\ l.indent = 4
  <2>1. Nested(doc, at + 1) = [Nested(doc, at) EXCEPT !.verifiers[c] = VerifierField(@, l.key, l.value)]
    BY <1>1, <1>5, <1>10, KeyLineStep, Zenon DEF ItemsBefore
  <2>2. m' = Nested(doc, at + 1)
    <3>1. l.indent # 6
      BY <1>10
    <3>. QED
      BY <1>2, <1>4, <1>7, <1>8, <1>10, <2>1, <3>1, Zenon
  <2>3. /\ Label(doc, at + 1, 0) = "verifiers" /\ Label(doc, at + 1, 2) = "-"
        /\ Label(doc, at + 1, 4) = l.key
    BY <1>1, <1>4, <1>6, <1>8, <1>10, LabelsAfter
  <2>4. /\ l.key = "policy" => sub' = <<"verifier_policy">>
        /\ l.key = "success" => sub' = <<"verifier_success">>
    <3>1. "policy" # "success"
      OBVIOUS
    <3>. QED
      BY <1>3, <1>8, <1>10, <3>1, Zenon
  <2>5. Position(doc, at + 1, current', sub', check', pattern')
    BY <1>1, <1>7, <1>9, <2>3, <2>4 DEF Position
  <2>. QED
    BY <1>1, <2>2, <2>5, Zenon DEF Scanned
<1>11. ASSUME l.indent = 6, m' = Nested(doc, at + 1)
       PROVE  Scanned(at)'
  <2>1. l.indent # 4
    <3>1. l.indent = 6
      BY <1>11, Zenon
    <3>. QED
      BY <3>1
  <2>2. sub' = sub
    BY <1>3, <2>1, Zenon
  <2>3. /\ Label(doc, at + 1, 0) = "verifiers" /\ Label(doc, at + 1, 2) = "-"
        /\ Label(doc, at + 1, 4) = L4
    BY <1>1, <1>4, <1>6, <1>11, LabelsAfter
  <2>4. Position(doc, at + 1, current', sub', check', pattern')
    BY <1>1, <1>7, <1>9, <2>2, <2>3 DEF Position
  <2>. QED
    BY <1>1, <1>11, <2>4, Zenon DEF Scanned
<1>12. CASE Place(doc, at) = InPolicy /\ l.indent = 6 /\ L4 = "policy"
  <2>1. Nested(doc, at + 1) = [Nested(doc, at) EXCEPT !.verifiers[c] = PolicyField(@, l.key, l.value)]
    BY <1>1, <1>5, <1>12, KeyLineStep, Zenon DEF ItemsBefore
  <2>2. l.indent # 4 /\ <<"verifier_policy">> # <<"verifier_success">>
    BY <1>12
  <2>3. m' = Nested(doc, at + 1)
    BY <1>2, <1>4, <1>7, <1>8, <1>12, <2>1, <2>2, Zenon
  <2>. QED
    BY <1>1, <1>11, <1>12, <2>3
<1>13. CASE Place(doc, at) = InSuccess /\ l.indent = 6 /\ L4 = "success" /\ l.key = "exit_code"
  <2>1. Nested(doc, at + 1) =
           [Nested(doc, at) EXCEPT !.verifiers[c] = [@ EXCEPT !.exit_code = Number(l.value)]]
    BY <1>1, <1>5, <1>13, KeyLineStep, Zenon DEF ItemsBefore
  <2>2. l.indent # 4 /\ <<"verifier_success">> # <<"verifier_policy">> /\ NamesExitCode(l)
    BY <1>13, ExitKeysAssumption DEF NamesExitCode
  <2>3. m' = Nested(doc, at + 1)
    BY <1>2, <1>4, <1>7, <1>8, <1>13, <2>1, <2>2, Zenon
  <2>. QED
    BY <1>1, <1>11, <1>13, <2>3
<1>. QED
  BY <1>1, <1>6, <1>10, <1>12, <1>13
LEMMA ScanRedactionKeyReads ==
    ASSUME doc \in Seq(LineType), Regular(doc), at \in DOMAIN doc, Scanned(at), ScanRedactionKey
    PROVE  Scanned(at)' /\ at' = at + 1 /\ UNCHANGED doc
<1> DEFINE l == doc[at]
           L2 == Label(doc, at, 2)
           L4 == Label(doc, at, 4)
<1>1. /\ ~Comment(l) /\ ~Section(l) /\ at' = at + 1 /\ UNCHANGED <<doc, current>>
      /\ current = "redaction" /\ (l.indent = 2 \/ sub = <<"keys">>)
  BY DEF ScanRedactionKey, Reading, Advance, Line
<1>2. /\ l.indent = 2 => m' = m /\ sub' = IF HasKey(l) THEN <<KeyOf(l)>> ELSE sub
      /\ l.indent # 2 => /\ sub' = sub
                         /\ m' = IF l.indent = 4 /\ l.dash
                                 THEN [m EXCEPT !.keys = Append(@, Item(l))] ELSE m
  BY Zenon DEF ScanRedactionKey, Line
<1>3. /\ Label(doc, at, 0) = "redaction" /\ m = Nested(doc, at)
      /\ sub = IF L2 = "" THEN <<>> ELSE <<L2>>
  BY <1>1 DEF Scanned, Position
<1>4. CASE l.indent = 2
  <2>. /\ l.indent # 0 /\ l.indent # 4 /\ l.indent # 6
       /\ Label(doc, at, 0) = "redaction"
    <3>1. l.indent # 0 /\ l.indent # 4 /\ l.indent # 6
      BY <1>4
    <3>. QED
      BY <1>3, <3>1, Zenon
  <2>1. ~l.dash
    BY <1>1, ItemShapes
  <2>2. Place(doc, at) = <<"redaction">> /\ l.key # ""
    BY <1>1, <2>1, KeyShapes
  <2>3. m' = Nested(doc, at + 1)
    <3>1. Nested(doc, at + 1) = Nested(doc, at)
      BY <1>1, <2>1, <2>2, KeyLineStep, Zenon
    <3>. QED
      BY <1>2, <1>3, <1>4, <3>1, Zenon
  <2>4. KeyOf(l) = l.key /\ sub' = <<l.key>>
    BY <1>2, <1>4, <2>1, <2>2 DEF KeyOf, HasKey
  <2>5. /\ Label(doc, at + 1, 0) = "redaction" /\ Label(doc, at + 1, 2) = l.key
        /\ Label(doc, at + 1, 4) = ""
    BY <1>1, <1>3, <1>4, <2>4, LabelsAfter
  <2>6. Position(doc, at + 1, current', sub', check', pattern')
    BY <1>1, <2>2, <2>4, <2>5 DEF Position
  <2>. QED
    BY <1>1, <2>3, <2>6, Zenon DEF Scanned
<1>5. CASE l.indent # 2
  <2>1. sub = <<"keys">> /\ sub' = sub
    BY <1>1, <1>2, <1>5, Zenon
  <2>2. L2 = "keys"
    <3>1. CASE L2 = ""
      <4>1. sub = <<>>
        BY <1>3, <3>1, Zenon
      <4>. QED
        BY <2>1, <4>1
    <3>2. CASE L2 # ""
      <4>1. <<L2>> = <<"keys">>
        BY <1>3, <2>1, <3>2, Zenon
      <4>. QED
        BY <4>1
    <3>. QED
      BY <3>1, <3>2
  <2>3. l.dash
    BY <1>1, <1>3, <1>5, <2>2, KeyShapes DEF Section
  <2>4. Place(doc, at) = <<"redaction", "keys">> /\ l.indent = 4
    BY <1>1, <1>3, <2>2, <2>3, ItemShapes
  <2>5. m' = Nested(doc, at + 1)
    <3>1. Nested(doc, at + 1) = [Nested(doc, at) EXCEPT !.keys = Append(@, Item(l))]
      BY <1>1, <2>3, <2>4, ItemLineStep, Zenon
    <3>. QED
      BY <1>2, <1>3, <1>5, <2>3, <2>4, <3>1, Zenon
  <2>6. Label(doc, at + 1, 0) = "redaction" /\ Label(doc, at + 1, 2) = "keys"
    BY <1>1, <1>3, <2>2, <2>4, LabelsAfter
  <2>7. Position(doc, at + 1, current', sub', check', pattern')
    BY <1>1, <2>1, <2>6 DEF Position
  <2>. QED
    BY <1>1, <2>5, <2>7, Zenon DEF Scanned
<1>. QED
  BY <1>1, <1>4, <1>5

LEMMA ScanRedactionPatternReads ==
    ASSUME doc \in Seq(LineType), Regular(doc), at \in DOMAIN doc, Scanned(at), ScanRedactionPattern
    PROVE  Scanned(at)' /\ at' = at + 1 /\ UNCHANGED doc
<1> DEFINE l == doc[at]
           L2 == Label(doc, at, 2)
           L4 == Label(doc, at, 4)
           where == <<"redaction", "patterns">>
<1>1. /\ ~Comment(l) /\ at' = at + 1 /\ UNCHANGED <<doc, current, sub>>
      /\ ~Section(l) /\ current = "redaction" /\ l.indent # 2 /\ sub # <<"keys">>
  BY DEF ScanRedactionPattern, Reading, Advance, Line
<1>2. ASSUME sub = <<"patterns">>, l.indent = 4, l.indent # 6, l.dash, HasKey(l)
      PROVE  /\ m' = [m EXCEPT !.patterns = Append(@, PatternField(NewPattern, l.key, l.value))]
             /\ pattern' = Len(m.patterns) + 1
  BY <1>2, Zenon DEF ScanRedactionPattern, Line
<1>3. ASSUME sub = <<"patterns">>, l.indent # 4, l.indent = 6, pattern # 0
      PROVE  /\ m' = [m EXCEPT !.patterns[pattern] = PatternField(@, KeyOf(l), l.value)]
             /\ pattern' = pattern
  BY <1>3, Zenon DEF ScanRedactionPattern, Line
<1>4. /\ Label(doc, at, 0) = "redaction" /\ m = Nested(doc, at)
      /\ sub = IF L2 = "" THEN <<>> ELSE <<L2>>
      /\ L2 = "patterns" /\ L4 = "-" => pattern = ItemsBefore(doc, at, where)
  BY <1>1 DEF Scanned, Position
<1>5. CASE l.dash
  <2>1. L2 # "keys"
    BY <1>1, <1>4
  <2>2. /\ Place(doc, at) = where /\ l.indent = 4 /\ L2 = "patterns"
        /\ l.key \in {"name", "regex", "secret_group"}
    BY <1>1, <1>4, <1>5, <2>1, ItemShapes
  <2>3. l.indent # 6 /\ HasKey(l) /\ sub = <<"patterns">>
    <3>1. l.indent # 6
      BY <2>2
    <3>2. HasKey(l)
      BY <2>2 DEF HasKey
    <3>3. L2 # "" /\ L2 = "patterns"
      BY <2>2
    <3>. QED
      BY <1>4, <3>1, <3>2, <3>3, Zenon
  <2>4. m' = Nested(doc, at + 1)
    <3>1. Nested(doc, at + 1) =
             [Nested(doc, at) EXCEPT !.patterns = Append(@, PatternField(NewPattern, l.key, l.value))]
      BY <1>1, <1>5, <2>2, ItemLineStep, Zenon
    <3>. QED
      BY <1>2, <1>4, <1>5, <2>2, <2>3, <3>1, Zenon
  <2>5. pattern' = ItemsBefore(doc, at + 1, where)
    <3>1. m.patterns = PatternsAt(doc, at)
      BY <1>4, NestedIs
    <3>2. Adds(doc, at, where)
      BY <1>1, <1>5, <2>2 DEF Adds
    <3>3. ItemsBefore(doc, at + 1, where) = Len(PatternsAt(doc, at)) + 1
      BY <3>2, PatternsStep, Zenon DEF ItemsBefore
    <3>. QED
      BY <1>2, <1>5, <2>2, <2>3, <3>1, <3>3, Zenon
  <2>6. Label(doc, at + 1, 0) = "redaction" /\ Label(doc, at + 1, 2) = "patterns"
    BY <1>1, <1>4, <2>2, LabelsAfter
  <2>7. Position(doc, at + 1, current', sub', check', pattern')
    BY <1>1, <2>3, <2>5, <2>6 DEF Position
  <2>. QED
    BY <1>1, <2>4, <2>7, Zenon DEF Scanned
<1>6. CASE ~l.dash
  <2>1. Place(doc, at) = InPattern /\ l.indent = 6 /\ L2 = "patterns" /\ L4 = "-"
    BY <1>1, <1>4, <1>6, KeyShapes DEF Section
  <2>2. pattern = ItemsBefore(doc, at, where) /\ pattern # 0
    BY <1>1, <1>4, <1>6, <2>1, KeyLineStep, Zenon DEF ItemsBefore
  <2>3. l.indent # 4 /\ KeyOf(l) = l.key /\ sub = <<"patterns">>
    <3>1. l.indent # 4
      BY <2>1
    <3>2. KeyOf(l) = l.key
      BY <1>6 DEF KeyOf
    <3>3. L2 # "" /\ L2 = "patterns"
      BY <2>1
    <3>. QED
      BY <1>4, <3>1, <3>2, <3>3, Zenon
  <2>4. m' = Nested(doc, at + 1)
    <3>1. Nested(doc, at + 1) =
             [Nested(doc, at) EXCEPT !.patterns[pattern] = PatternField(@, l.key, l.value)]
      BY <1>1, <1>6, <2>1, <2>2, KeyLineStep, Zenon DEF ItemsBefore
    <3>. QED
      BY <1>3, <1>4, <2>1, <2>2, <2>3, <3>1, Zenon
  <2>5. pattern' = ItemsBefore(doc, at + 1, where)
    <3>1. ~Adds(doc, at, where)
      BY <1>6 DEF Adds
    <3>2. ItemsBefore(doc, at + 1, where) = ItemsBefore(doc, at, where)
      BY <3>1, PatternsStep, Zenon DEF ItemsBefore
    <3>. QED
      BY <1>3, <2>1, <2>2, <2>3, <3>2, Zenon
  <2>6. Label(doc, at + 1, 0) = "redaction" /\ Label(doc, at + 1, 2) = "patterns"
    BY <1>1, <1>4, <2>1, LabelsAfter
  <2>7. Position(doc, at + 1, current', sub', check', pattern')
    BY <1>1, <2>3, <2>5, <2>6 DEF Position
  <2>. QED
    BY <1>1, <2>4, <2>7, Zenon DEF Scanned
<1>. QED
  BY <1>1, <1>5, <1>6-----------------------------------------------------------------------------
(* From the first line to the last.                                         *)

(* No line says nothing.                                                    *)
LEMMA NestedBlank ==
    ASSUME NEW d
    PROVE  Nested(d, 1) = Blank /\ \A c : Label(d, 1, c) = ""
<1>1. \A where, key : ItemLines(d, Places(d, 1), where) = {} /\ KeyLines(d, Places(d, 1), where, key) = {}
  BY DEF Places, ItemLines, KeyLines
<1>2. InOrder({}) = <<>>
  BY FS_EmptySet DEF InOrder
<1> DEFINE s == InOrder({})
<1>3. \A where, key : ItemsAt(d, Places(d, 1), where) = <<>> /\ ValueAt(d, Places(d, 1), where, key) = <<>>
  <2>1. ASSUME NEW where PROVE ItemsAt(d, Places(d, 1), where) = [n \in DOMAIN s |-> Item(d[s[n]])]
    BY <1>1, Zenon DEF ItemsAt, Each
  <2>2. ASSUME NEW where, NEW key PROVE ValueAt(d, Places(d, 1), where, key) = <<>>
    BY <1>1, Zenon DEF ValueAt, Latest
  <2>3. [n \in DOMAIN s |-> Item(d[s[n]])] = <<>>
    BY <1>2
  <2>. QED
    BY <2>1, <2>2, <2>3
<1>4. AllowedAt(d, 1) = <<>> /\ VerifiersAt(d, 1) = <<>> /\ PatternsAt(d, 1) = <<>>
  <2>1. /\ AllowedAt(d, 1) = [n \in DOMAIN s |-> d[s[n]].value]
        /\ VerifiersAt(d, 1) = [n \in DOMAIN s |-> VerifierAt(d, Places(d, 1), s[n])]
        /\ PatternsAt(d, 1) = [n \in DOMAIN s |-> PatternAt(d, Places(d, 1), s[n])]
    BY <1>1, Zenon DEF AllowedAt, VerifiersAt, PatternsAt, Each
  <2>2. DOMAIN s = {}
    BY <1>2
  <2> HIDE DEF s
  <2>. QED
    BY <2>1, <2>2
<1>5. /\ HeadAt(d, 1) = [k \in Heads |-> <<>>] /\ NeedsAt(d, 1) = [k \in Needs |-> <<>>]
      /\ NetworkAt(d, 1) = FALSE
  BY <1>3 DEF HeadAt, NeedsAt, NetworkAt
<1>6. Nested(d, 1) = Blank
  BY <1>3, <1>4, <1>5, NestedIs, Zenon DEF Blank
<1>7. \A c : Label(d, 1, c) = ""
  BY DEF Label, Opener, Outer
<1>. QED
  BY <1>6, <1>7

(* Every step but the last reads one line.                                  *)
LEMMA LineByLine ==
    ASSUME ScanNext, ~ScanEnds
    PROVE  load = "scan" /\ at <= Len(doc) /\ at' = at + 1 /\ UNCHANGED <<doc, load>>
BY DEF ScanNext, SkipComment, ScanSection, ScanCapabilities, ScanTools, ScanInputs, ScanOutputs,
       ScanPermissions, ScanVerifier, ScanVerifierLine, ScanRedactionKey, ScanRedactionPattern,
       SkipLine, Reading, Advance

(* What LoadManifest accepts.                                               *)
Loads(n) == Complete(n) /\ \A p \in Range(n.patterns) : Compiles(p)

(* Before its last line the scanner has read the lines above as they are    *)
(* nested; then the manifest is accepted or refused for what they say.      *)
Progress ==
    LET n == Nested(doc, Len(doc) + 1) IN
    /\ load = "scan" => Scanned(at)
    /\ load = "loaded" => Loads(n) /\ m = Expanded(n)
    /\ load = "refused" => ~Loads(n)

ScanInv ==
    /\ doc \in Documents
    /\ at \in 1..(Len(doc) + 1)
    /\ load \in {"scan", "loaded", "refused"}
    /\ load # "scan" => at = Len(doc) + 1
    /\ Regular(doc) => Progress

LEMMA ScanStarts == ScanInit => ScanInv
<1> SUFFICES ASSUME ScanInit PROVE ScanInv
  OBVIOUS
<1>1. doc \in Documents /\ at = 1 /\ load = "scan" /\ doc \in Seq(LineType)
  BY DocumentsAssumption DEF ScanInit
<1>2. m = Nested(doc, 1)
  BY NestedBlank DEF ScanInit
<1>3. Position(doc, 1, current, sub, check, pattern)
  BY NestedBlank DEF ScanInit, Position
<1>4. Scanned(at)
  BY <1>1, <1>2, <1>3 DEF Scanned
<1>. QED
  BY <1>1, <1>4 DEF ScanInv, Progress

LEMMA ScanSteps == ScanInv /\ ScanNext => ScanInv'
<1> SUFFICES ASSUME ScanInv, ScanNext PROVE ScanInv'
  OBVIOUS
<1>1. doc \in Seq(LineType) /\ at \in 1..(Len(doc) + 1) /\ Len(doc) \in Nat
  BY DocumentsAssumption DEF ScanInv
<1>2. CASE ScanEnds
  <2>1. /\ load = "scan" /\ at = Len(doc) + 1 /\ UNCHANGED <<doc, at>>
        /\ Loads(m) => load' = "loaded" /\ m' = Expanded(m)
        /\ ~Loads(m) => load' = "refused" /\ UNCHANGED m
    BY <1>1, <1>2 DEF ScanEnds, Loads
  <2>2. ASSUME Regular(doc) PROVE Progress'
    <3>1. m = Nested(doc, Len(doc) + 1)
      BY <2>1, <2>2 DEF ScanInv, Progress, Scanned
    <3>2. "loaded" # "scan" /\ "refused" # "scan" /\ "loaded" # "refused"
      OBVIOUS
    <3>. QED
      BY <2>1, <3>1, <3>2, Zenon DEF Progress
  <2>3. load' \in {"loaded", "refused"}
    BY <2>1, Zenon
  <2>. QED
    BY <2>1, <2>2, <2>3 DEF ScanInv
<1>3. CASE ~ScanEnds
  <2>1. load = "scan" /\ at <= Len(doc) /\ at' = at + 1 /\ UNCHANGED <<doc, load>>
    BY <1>3, LineByLine
  <2>2. at \in DOMAIN doc
    BY <1>1, <2>1
  <2>3. ASSUME Regular(doc) PROVE Scanned(at)'
    <3>1. Scanned(at)
      BY <2>1, <2>3 DEF ScanInv, Progress
    <3>. QED
      BY <1>1, <1>3, <2>2, <2>3, <3>1, SkipCommentReads, ScanSectionReads, ScanCapabilitiesReads,
         ScanToolsReads, ScanInputsReads, ScanOutputsReads, ScanPermissionsReads,
         ScanVerifierReads, ScanVerifierLineReads, ScanRedactionKeyReads,
         ScanRedactionPatternReads, SkipLineReads, Zenon DEF ScanNext
  <2>4. ASSUME Regular(doc) PROVE Progress'
    BY <2>1, <2>3, <2>4 DEF Progress
  <2>5. at' \in 1..(Len(doc') + 1)
    BY <1>1, <2>1
  <2>. QED
    BY <2>1, <2>4, <2>5 DEF ScanInv
<1>. QED
  BY <1>2, <1>3

LEMMA ScanRests == ScanInv /\ UNCHANGED scanner => ScanInv'
BY Zenon DEF ScanInv, Progress, Scanned, scanner
=============================================================================
