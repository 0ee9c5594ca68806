------------------------------ MODULE LookupProofs ------------------------------
(***************************************************************************)
(* Proofs about Lookup: what a merge keeps, that the nearest solution is   *)
(* comparable where one was promised, that constraints are honoured, that  *)
(* a search which starts in the graph is never thrown out of it, and that  *)
(* a solution which is reflected can be derived.                           *)
(***************************************************************************)
EXTENDS Lookup, TLAPS, NaturalsInduction, WellFoundedInduction, FiniteSetTheorems

---------------------------------------------------------------------------
(* Numbers.                                                                *)

(* A set of natural numbers that is not empty has a smallest one.          *)
LEMMA Smallest ==
  ASSUME NEW T \in SUBSET Nat, T # {}
  PROVE \E x \in T : \A y \in T : x <= y
<1>1. IsWellFoundedOn(OpToRel(<, Nat), Nat)
  BY NatLessThanWellFounded
<1>2. \A x, y \in Nat : x < y => <<x, y>> \in OpToRel(<, Nat)
  BY DEF OpToRel
<1>3. \E R : IsWellFoundedOn(R, Nat) /\ \A x, y \in Nat : x < y => <<x, y>> \in R
  BY <1>1, <1>2, Zenon
<1>4. PICK R : IsWellFoundedOn(R, Nat) /\ \A x, y \in Nat : x < y => <<x, y>> \in R
  BY <1>3
<1>5. PICK x \in T : \A y \in T : ~(<<y, x>> \in R)
  <2>1. IsWellFoundedOn(R, Nat) /\ T \subseteq Nat /\ T # {}
    BY <1>4
  <2> QED BY <2>1, WFMin, Zenon
<1>6. \A y \in T : x <= y
  <2> TAKE y \in T
  <2>1. x \in Nat /\ y \in Nat
    OBVIOUS
  <2>2. ~(y < x)
    BY <1>4, <1>5, <2>1, Zenon
  <2> QED BY <2>1, <2>2
<1> QED BY <1>6

(* A set that has 0, and with a number the next one, has all of them.      *)
LEMMA AllNumbers ==
  ASSUME NEW T \in SUBSET Nat, 0 \in T, \A n \in T : n + 1 \in T
  PROVE T = Nat
<1> SUFFICES ASSUME T # Nat PROVE FALSE
  OBVIOUS
<1>1. PICK x \in Nat \ T : \A y \in Nat \ T : x <= y
  BY Smallest
<1>2. x # 0 /\ x - 1 \in Nat /\ x - 1 \in T
  BY <1>1
<1> QED BY <1>2, <1>1

---------------------------------------------------------------------------
(* The sequence of turns.  There is such a sequence: one for every length, *)
(* each of which continues the shorter ones.                               *)

TurnsUpTo(n, f) ==
  /\ f \in [0 .. n -> BOOLEAN]
  /\ \A i \in 0 .. n :
       f[i] = (IF i = 0 THEN TRUE ELSE IF i % 2 = 0 THEN f[i \div 2] ELSE ~f[i \div 2])

(* Halves of whole numbers.                                                *)
LEMMA Halves ==
  \A i \in Nat : /\ i \div 2 \in Nat /\ (i # 0 => i \div 2 < i)
                 /\ (2 * i) % 2 = 0 /\ (2 * i) \div 2 = i
                 /\ (2 * i + 1) % 2 = 1 /\ (2 * i + 1) \div 2 = i
                 /\ (i % 2 = 0 => i = 2 * (i \div 2)) /\ (i % 2 # 0 => i = 2 * (i \div 2) + 1)
OBVIOUS

(* Sequences of turns of every length.                                     *)
LEMMA TurnsOfAnyLength == \A n \in Nat : \E f : TurnsUpTo(n, f)
<1> DEFINE T == {n \in Nat : \E f : TurnsUpTo(n, f)}
<1>1. 0 \in T
  <2>1. TurnsUpTo(0, [i \in 0 .. 0 |-> TRUE])
    BY DEF TurnsUpTo
  <2> QED BY <2>1
<1>2. ASSUME NEW n \in T PROVE n + 1 \in T
  <2>1. PICK f : TurnsUpTo(n, f)
    OBVIOUS
  <2> DEFINE h == (n + 1) \div 2
             e == IF (n + 1) % 2 = 0 THEN f[h] ELSE ~f[h]
             next == [i \in 0 .. n + 1 |-> IF i = n + 1 THEN e ELSE f[i]]
  <2>2. h \in 0 .. n
    BY Halves
  <2>3. e \in BOOLEAN
    BY <2>1, <2>2 DEF TurnsUpTo
  <2>4. next \in [0 .. n + 1 -> BOOLEAN]
    <3> HIDE DEF e
    <3> QED BY <2>1, <2>3 DEF TurnsUpTo
  <2>5. ASSUME NEW i \in 0 .. n + 1
        PROVE next[i] = (IF i = 0 THEN TRUE ELSE IF i % 2 = 0 THEN next[i \div 2] ELSE ~next[i \div 2])
    <3>1. CASE i = n + 1
      <4>1. next[i] = e /\ next[i \div 2] = f[h] /\ i # 0
        BY <3>1, <2>2
      <4>2. e = (IF i % 2 = 0 THEN f[h] ELSE ~f[h])
        BY <3>1
      <4> HIDE DEF next, e, h
      <4> QED BY <4>1, <4>2, Zenon
    <3>2. CASE i # n + 1
      <4>1. i \in 0 .. n /\ i \div 2 \in 0 .. n
        BY <3>2, Halves
      <4>2. next[i] = f[i] /\ next[i \div 2] = f[i \div 2]
        BY <4>1
      <4> QED BY <4>1, <4>2, <2>1 DEF TurnsUpTo
    <3> QED BY <3>1, <3>2
  <2>6. TurnsUpTo(n + 1, next)
    <3> HIDE DEF next
    <3> QED BY <2>4, <2>5 DEF TurnsUpTo
  <2> QED BY <2>6
<1>3. T = Nat
  <2> HIDE DEF T
  <2>1. T \subseteq Nat
    BY DEF T
  <2> QED BY <1>1, <1>2, <2>1, AllNumbers
<1> QED BY <1>3

(* Two of them agree as far as both go.                                    *)
LEMMA OneSequenceOfTurns ==
  ASSUME NEW m \in Nat, NEW n \in Nat, NEW f, NEW h, TurnsUpTo(m, f), TurnsUpTo(n, h)
  PROVE \A i \in (0 .. m) \cap (0 .. n) : f[i] = h[i]
<1> SUFFICES ASSUME \E i \in (0 .. m) \cap (0 .. n) : f[i] # h[i] PROVE FALSE
  OBVIOUS
<1> DEFINE T == {i \in (0 .. m) \cap (0 .. n) : f[i] # h[i]}
<1>1. PICK i \in T : \A j \in T : i <= j
  <2>1. T \in SUBSET Nat /\ T # {}
    OBVIOUS
  <2> HIDE DEF T
  <2> QED BY <2>1, Smallest
<1>2. i \in Nat /\ i \in 0 .. m /\ i \in 0 .. n /\ f[i] # h[i]
  BY <1>1
<1>3. i # 0
  BY <1>2 DEF TurnsUpTo
<1>4. i \div 2 \in 0 .. m /\ i \div 2 \in 0 .. n /\ i \div 2 < i
  BY <1>2, <1>3, Halves
<1>5. f[i \div 2] = h[i \div 2]
  BY <1>1, <1>4
<1>6. f[i] = (IF i % 2 = 0 THEN f[i \div 2] ELSE ~f[i \div 2])
  BY <1>2, <1>3 DEF TurnsUpTo
<1>7. h[i] = (IF i % 2 = 0 THEN h[i \div 2] ELSE ~h[i \div 2])
  BY <1>2, <1>3 DEF TurnsUpTo
<1> QED BY <1>2, <1>5, <1>6, <1>7

(* ThueMorse is what its equation says (get_thue_morse).                   *)
LEMMA ThueMorseIs ==
  \A i \in Nat :
    /\ ThueMorse[i] \in BOOLEAN
    /\ ThueMorse[i] = (IF i = 0 THEN TRUE ELSE IF i % 2 = 0 THEN ThueMorse[i \div 2]
                                                            ELSE ~ThueMorse[i \div 2])
<1> DEFINE upTo(n) == CHOOSE f : TurnsUpTo(n, f)
           all == [i \in Nat |-> upTo(i)[i]]
<1>1. \A n \in Nat : TurnsUpTo(n, upTo(n))
  BY TurnsOfAnyLength
<1> HIDE DEF upTo
<1>2. ASSUME NEW i \in Nat
      PROVE /\ all[i] \in BOOLEAN
            /\ all[i] = (IF i = 0 THEN TRUE ELSE IF i % 2 = 0 THEN all[i \div 2] ELSE ~all[i \div 2])
  <2>1. TurnsUpTo(i, upTo(i)) /\ TurnsUpTo(i \div 2, upTo(i \div 2))
    BY <1>1, Halves
  <2>2. all[i] = upTo(i)[i] /\ all[i \div 2] = upTo(i \div 2)[i \div 2]
    BY Halves
  <2>3. i \div 2 \in (0 .. i) \cap (0 .. i \div 2)
    BY Halves
  <2>4. i \div 2 \in Nat
    BY Halves
  <2>5. upTo(i \div 2)[i \div 2] = upTo(i)[i \div 2]
    BY <2>1, <2>3, <2>4, OneSequenceOfTurns
  <2> HIDE DEF all
  <2>6. i \in 0 .. i
    OBVIOUS
  <2>7. upTo(i)[i] \in BOOLEAN
    BY <2>1, <2>6 DEF TurnsUpTo
  <2>8. upTo(i)[i] = (IF i = 0 THEN TRUE ELSE IF i % 2 = 0 THEN upTo(i)[i \div 2] ELSE ~upTo(i)[i \div 2])
    BY <2>1, <2>6, Zenon DEF TurnsUpTo
  <2> QED BY <2>2, <2>5, <2>7, <2>8, Zenon
<1>3. all = [i \in Nat |-> IF i = 0 THEN TRUE ELSE IF i % 2 = 0 THEN all[i \div 2] ELSE ~all[i \div 2]]
  <2>1. \A i \in Nat : all[i] = (IF i = 0 THEN TRUE ELSE IF i % 2 = 0 THEN all[i \div 2] ELSE ~all[i \div 2])
    BY <1>2
  <2>2. all = [i \in Nat |-> all[i]]
    OBVIOUS
  <2> HIDE DEF all
  <2> QED BY <2>1, <2>2
<1>4. ThueMorse = [i \in Nat |-> IF i = 0 THEN TRUE ELSE IF i % 2 = 0 THEN ThueMorse[i \div 2]
                                                                    ELSE ~ThueMorse[i \div 2]]
  <2> HIDE DEF all
  <2> QED BY <1>3 DEF ThueMorse
<1>5. \A i \in Nat : ThueMorse[i] = (IF i = 0 THEN TRUE ELSE IF i % 2 = 0 THEN ThueMorse[i \div 2]
                                                                    ELSE ~ThueMorse[i \div 2])
  BY <1>4, Zenon
<1>6. \A i \in Nat : ThueMorse[i] \in BOOLEAN
  <2> SUFFICES ASSUME \E i \in Nat : ThueMorse[i] \notin BOOLEAN PROVE FALSE
    OBVIOUS
  <2> DEFINE T == {i \in Nat : ThueMorse[i] \notin BOOLEAN}
  <2>1. PICK i \in T : \A j \in T : i <= j
    <3>1. T \in SUBSET Nat /\ T # {}
      OBVIOUS
    <3> HIDE DEF T
    <3> QED BY <3>1, Smallest
  <2>2. i \in Nat /\ i # 0 /\ (i % 2 = 0 => ThueMorse[i] = ThueMorse[i \div 2])
    BY <1>5, <2>1
  <2>3. ThueMorse[i \div 2] \in BOOLEAN
    BY <2>1, <2>2, Halves
  <2> QED BY <1>5, <2>1, <2>2, <2>3
<1> QED BY <1>5, <1>6, Zenon

(* Every second turn goes to the one that did not go first before it.      *)
LEMMA TurnsTaken ==
  \A i \in Nat : i % 2 # 0 => i - 1 \in Nat /\ ThueMorse[i] = ~ThueMorse[i - 1]
<1> SUFFICES ASSUME NEW i \in Nat, i % 2 # 0
             PROVE i - 1 \in Nat /\ ThueMorse[i] = ~ThueMorse[i - 1]
  OBVIOUS
<1> DEFINE h == i \div 2
<1>1. h \in Nat /\ i = 2 * h + 1 /\ i - 1 = 2 * h /\ (2 * h) % 2 = 0 /\ (2 * h) \div 2 = h /\ i # 0
  BY Halves
<1>2. ThueMorse[i] = ~ThueMorse[h]
  BY <1>1, ThueMorseIs
<1>3. ThueMorse[i - 1] = ThueMorse[h]
  <2>1. CASE h = 0
    BY <1>1, <2>1, ThueMorseIs
  <2>2. CASE h # 0
    <3>1. i - 1 \in Nat /\ i - 1 # 0 /\ (i - 1) % 2 = 0 /\ (i - 1) \div 2 = h
      BY <1>1, <2>2
    <3>2. \A j \in Nat : j # 0 /\ j % 2 = 0 => ThueMorse[j] = ThueMorse[j \div 2]
      <4> TAKE j \in Nat
      <4>1. ThueMorse[j] = (IF j = 0 THEN TRUE ELSE IF j % 2 = 0 THEN ThueMorse[j \div 2]
                                                               ELSE ~ThueMorse[j \div 2])
        BY ThueMorseIs
      <4> HAVE j # 0 /\ j % 2 = 0
      <4> QED BY <4>1, Zenon
    <3>3. ThueMorse[i - 1] = ThueMorse[(i - 1) \div 2]
      BY <3>1, <3>2, Zenon
    <3> QED BY <3>1, <3>3, Zenon
  <2> QED BY <2>1, <2>2
<1> QED BY <1>1, <1>2, <1>3

---------------------------------------------------------------------------
(* Something is at every rank: of a finite set of candidates at whole      *)
(* distances, there is one at every rank below their number (nth_element). *)

Nearer(S, d, k) == {o \in S : d[o] < d[k]}
AsNear(S, d, k) == {o \in S : d[o] = d[k]}

(* What is nearer, or as near, can be counted.                             *)
LEMMA Counted ==
  ASSUME NEW S, IsFiniteSet(S), NEW d \in [S -> Int]
  PROVE \A k \in S : /\ IsFiniteSet(Nearer(S, d, k)) /\ IsFiniteSet(AsNear(S, d, k))
                     /\ Cardinality(Nearer(S, d, k)) \in Nat
                     /\ Cardinality(AsNear(S, d, k)) \in Nat
<1> TAKE k \in S
<1>1. Nearer(S, d, k) \in SUBSET S /\ AsNear(S, d, k) \in SUBSET S
  BY DEF Nearer, AsNear
<1>2. IsFiniteSet(Nearer(S, d, k)) /\ IsFiniteSet(AsNear(S, d, k))
  BY <1>1, FS_Subset
<1> QED BY <1>2, FS_CardinalityType

(* Fewer are nearer than a nearer one.                                     *)
LEMMA FewerAreNearer ==
  ASSUME NEW S, IsFiniteSet(S), NEW d \in [S -> Int], NEW k \in S, NEW o \in Nearer(S, d, k)
  PROVE o \in S /\ Cardinality(Nearer(S, d, o)) < Cardinality(Nearer(S, d, k))
<1>1. o \in S
  BY DEF Nearer
<1>2. Nearer(S, d, o) \in SUBSET Nearer(S, d, k) /\ o \notin Nearer(S, d, o)
  BY DEF Nearer
<1>3. IsFiniteSet(Nearer(S, d, k)) /\ Cardinality(Nearer(S, d, o)) \in Nat
      /\ Cardinality(Nearer(S, d, k)) \in Nat
  BY <1>1, Counted
<1>4. /\ Cardinality(Nearer(S, d, o)) <= Cardinality(Nearer(S, d, k))
      /\ Cardinality(Nearer(S, d, o)) = Cardinality(Nearer(S, d, k)) => Nearer(S, d, o) = Nearer(S, d, k)
  BY <1>2, <1>3, FS_Subset
<1> QED BY <1>1, <1>2, <1>3, <1>4

(* There is an nth element.                                                *)
LEMMA NthElement ==
  ASSUME NEW S, IsFiniteSet(S), NEW d \in [S -> Int], NEW rank \in Nat, rank < Cardinality(S)
  PROVE \E k \in S : /\ Cardinality(Nearer(S, d, k)) <= rank
                     /\ rank < Cardinality(Nearer(S, d, k)) + Cardinality(AsNear(S, d, k))
<1> DEFINE N(k) == Cardinality(Nearer(S, d, k))
           E(k) == Cardinality(AsNear(S, d, k))
<1>1. \A k \in S : N(k) \in Nat /\ E(k) \in Nat
  BY Counted
<1>2. \A k \in S : \A o \in Nearer(S, d, k) : o \in S /\ N(o) < N(k)
  BY FewerAreNearer
<1> HIDE DEF N, E
<1>3. S # {} /\ Cardinality(S) \in Nat
  BY FS_CardinalityType, FS_EmptySet
<1>4. \E k \in S : N(k) <= rank
  <2> DEFINE T == {N(k) : k \in S}
  <2>1. PICK n \in T : \A y \in T : n <= y
    <3>1. T \in SUBSET Nat /\ T # {}
      BY <1>1, <1>3
    <3> HIDE DEF T
    <3> QED BY <3>1, Smallest
  <2>2. PICK k \in S : n = N(k)
    OBVIOUS
  <2>3. \A o \in S : N(k) <= N(o)
    BY <2>1, <2>2
  <2>4. Nearer(S, d, k) = {}
    BY <1>1, <1>2, <2>3
  <2>5. N(k) = 0
    BY <2>4, FS_EmptySet DEF N
  <2> QED BY <2>5
<1>5. PICK k \in S : N(k) <= rank /\ \A o \in S : N(o) <= rank => N(o) <= N(k)
  <2> DEFINE T == {rank - N(o) : o \in {q \in S : N(q) <= rank}}
  <2>1. PICK n \in T : \A y \in T : n <= y
    <3>1. T \in SUBSET Nat
      BY <1>1
    <3>2. T # {}
      BY <1>4
    <3> HIDE DEF T
    <3> QED BY <3>1, <3>2, Smallest
  <2>2. PICK k \in S : N(k) <= rank /\ n = rank - N(k)
    OBVIOUS
  <2>3. ASSUME NEW o \in S, N(o) <= rank PROVE N(o) <= N(k)
    <3>1. rank - N(o) \in T
      BY <2>3
    <3>2. rank - N(k) <= rank - N(o)
      BY <2>1, <2>2, <3>1
    <3> QED BY <1>1, <3>2
  <2> QED BY <2>2, <2>3
<1>6. rank < N(k) + E(k)
  <2> SUFFICES ASSUME N(k) + E(k) <= rank PROVE FALSE
    BY <1>1
  <2> DEFINE near == Nearer(S, d, k) \cup AsNear(S, d, k)
             far == {o \in S : d[k] < d[o]}
  <2>1. IsFiniteSet(near) /\ Cardinality(near) = N(k) + E(k)
    <3>1. Nearer(S, d, k) \cap AsNear(S, d, k) = {}
      BY DEF Nearer, AsNear
    <3>2. /\ IsFiniteSet(near)
          /\ Cardinality(near) = Cardinality(Nearer(S, d, k)) + Cardinality(AsNear(S, d, k))
                                 - Cardinality(Nearer(S, d, k) \cap AsNear(S, d, k))
      BY Counted, FS_Union
    <3>3. Cardinality(Nearer(S, d, k) \cap AsNear(S, d, k)) = 0
      BY <3>1, FS_EmptySet, Zenon
    <3>4. N(k) = Cardinality(Nearer(S, d, k)) /\ E(k) = Cardinality(AsNear(S, d, k))
      BY DEF N, E
    <3> HIDE DEF near
    <3> QED BY <3>2, <3>3, <3>4, <1>1
  <2>2. far # {}
    <3> SUFFICES ASSUME far = {} PROVE FALSE
      OBVIOUS
    <3>1. near = S
      BY DEF Nearer, AsNear
    <3>2. Cardinality(S) = N(k) + E(k)
      BY <3>1, <2>1, Zenon
    <3> QED BY <3>2, <1>1, <1>3
  <2> DEFINE T == {N(o) : o \in far}
  <2>3. PICK n \in T : \A y \in T : n <= y
    <3>1. T \in SUBSET Nat /\ T # {}
      BY <1>1, <2>2
    <3> HIDE DEF T
    <3> QED BY <3>1, Smallest
  <2>4. PICK o \in far : n = N(o)
    OBVIOUS
  <2>5. o \in S /\ d[k] < d[o] /\ \A q \in far : N(o) <= N(q)
    BY <2>3, <2>4
  <2>6. Nearer(S, d, o) = near
    <3>1. near \subseteq Nearer(S, d, o)
      BY <2>5 DEF Nearer, AsNear
    <3>2. ASSUME NEW q \in Nearer(S, d, o), q \notin near PROVE FALSE
      <4>1. q \in S /\ N(q) < N(o)
        BY <1>2, <2>5
      <4>2. q \in far
        BY <3>2, <4>1 DEF Nearer, AsNear
      <4> QED BY <4>1, <4>2, <2>5, <1>1
    <3> QED BY <3>1, <3>2
  <2>7. N(o) = N(k) + E(k)
    BY <2>1, <2>6 DEF N
  <2>8. E(k) # 0
    <3>1. k \in AsNear(S, d, k)
      BY DEF AsNear
    <3> QED BY <3>1, Counted, FS_EmptySet DEF E
  <2> QED BY <1>1, <1>5, <2>5, <2>7, <2>8
<1> QED BY <1>5, <1>6 DEF N, E

---------------------------------------------------------------------------
(* Distances.  Without the workspaces, whose term has a sign, the distance *)
(* of two geometries is the same both ways.                                *)

Plain(g, h) ==
  LET apart(i) == Abs(Metric(g)[i] - Metric(h)[i]) IN
  apart(1) + apart(2) + apart(3) + apart(4) + apart(5) + apart(6)
  + Unit * Cardinality(SymDiff(Features(g), Features(h)))
  + Unit * Cardinality({p \in DOMAIN Lines(g) : Lines(g)[p] # Lines(h)[p]})

(* Few are finitely many.                                                  *)
LEMMA FewAreFinite ==
  /\ \A a, b, c : IsFiniteSet({a, b, c})
  /\ \A n \in Nat : IsFiniteSet(1 .. n) /\ Cardinality(1 .. n) = n
<1>1. ASSUME NEW a, NEW b, NEW c PROVE IsFiniteSet({a, b, c})
  <2>1. IsFiniteSet({a})
    BY FS_Singleton
  <2>2. IsFiniteSet({a} \cup {b})
    BY <2>1, FS_AddElement
  <2>3. IsFiniteSet(({a} \cup {b}) \cup {c})
    BY <2>2, FS_AddElement
  <2>4. ({a} \cup {b}) \cup {c} = {a, b, c}
    OBVIOUS
  <2> QED BY <2>3, <2>4, Zenon
<1>2. ASSUME NEW n \in Nat PROVE IsFiniteSet(1 .. n) /\ Cardinality(1 .. n) = n
  <2>1. 1 \in Int /\ n \in Int
    OBVIOUS
  <2>2. IsFiniteSet(1 .. n) /\ Cardinality(1 .. n) = (IF 1 > n THEN 0 ELSE n - 1 + 1)
    BY <2>1, FS_Interval, Zenon
  <2> QED BY <2>2
<1> QED BY <1>1, <1>2

(* Logarithms of known sizes and workspaces are natural numbers.           *)
LEMMA LogsAreNumbers ==
  ASSUME NEW g, IsKnown(g)
  PROVE /\ \A x \in {g.m, g.n, g.k, g.ld["A"], g.ld["B"], g.ld["C"]} : x \in Sizes /\ Log2Of[x] \in Nat
        /\ g.ws \in Workspaces /\ LogOf[g.ws] \in Nat /\ 200 * LogOf[g.ws] <= Unit
<1>1. {g.m, g.n, g.k, g.ld["A"], g.ld["B"], g.ld["C"]} \subseteq SizesOf(g)
  BY DEF SizesOf, Mats
<1>2. {g.m, g.n, g.k, g.ld["A"], g.ld["B"], g.ld["C"]} \subseteq Sizes /\ g.ws \in Workspaces
  BY <1>1 DEF IsKnown
<1>3. \A x \in Sizes : Log2Of[x] \in Nat
  <2> TAKE x \in Sizes
  <2>1. 40 * Unit \in Int /\ Log2Of[x] \in 0 .. 40 * Unit
    BY LogsAssumption, UnitAssumption
  <2> QED BY <2>1
<1> QED BY <1>2, <1>3, LogsAssumption

(* So are the coordinates of a geometry, but for their sign.               *)
LEMMA MetricIsNumber ==
  ASSUME NEW g, IsKnown(g)
  PROVE /\ \A i \in 1 .. 6 : Metric(g)[i] \in Int
        /\ Metric(g)[1] = 5 * Log2Of[g.k]
        /\ Metric(g)[2] = 5 * (Log2Of[g.m] - Log2Of[g.n]) /\ Metric(g)[3] = 5 * (Log2Of[g.m] + Log2Of[g.n])
        /\ Metric(g)[4] = Log2Of[g.ld["A"]] /\ Metric(g)[5] = Log2Of[g.ld["B"]]
        /\ Metric(g)[6] = Log2Of[g.ld["C"]]
<1> DEFINE L(x) == Log2Of[x]
<1>1. L(g.k) \in Nat /\ L(g.m) \in Nat /\ L(g.n) \in Nat /\ L(g.ld["A"]) \in Nat /\ L(g.ld["B"]) \in Nat
      /\ L(g.ld["C"]) \in Nat
  BY LogsAreNumbers
<1>2. Metric(g) = <<5 * L(g.k), 5 * (L(g.m) - L(g.n)), 5 * (L(g.m) + L(g.n)),
                    L(g.ld["A"]), L(g.ld["B"]), L(g.ld["C"])>>
  BY DEF Metric
<1> HIDE DEF L
<1>3. /\ Metric(g)[1] = 5 * L(g.k) /\ Metric(g)[2] = 5 * (L(g.m) - L(g.n))
      /\ Metric(g)[3] = 5 * (L(g.m) + L(g.n)) /\ Metric(g)[4] = L(g.ld["A"])
      /\ Metric(g)[5] = L(g.ld["B"]) /\ Metric(g)[6] = L(g.ld["C"])
  BY <1>2
<1>4. \A i \in 1 .. 6 : Metric(g)[i] \in Int
  BY <1>1, <1>3
<1> QED BY <1>3, <1>4 DEF L

(* A number of features costs as many units, at least one if there is one. *)
LEMMA UnitTimes == \A f \in Nat : Unit * f \in Nat /\ (f # 0 => Unit <= Unit * f)
<1> TAKE f \in Nat
<1>1. Unit \in Nat /\ Unit > 0
  BY UnitAssumption
<1>2. Unit * f \in Nat
  BY <1>1
<1>3. f # 0 => Unit <= Unit * f
  <2> SUFFICES ASSUME f # 0 PROVE Unit <= Unit * f
    OBVIOUS
  <2>1. f - 1 \in Nat /\ Unit * (f - 1) \in Nat /\ Unit * f = Unit * (f - 1) + Unit
    BY <1>1
  <2> QED BY <1>1, <1>2, <2>1
<1> QED BY <1>2, <1>3

(* There are finitely many features and lines to differ in.                *)
LEMMA FewFeatures ==
  /\ IsFiniteSet({2, 4, 8} \X Mats) /\ IsFiniteSet({256, 512, 1024} \X Mats)
  /\ \A g : IsFiniteSet(Features(g))
<1>1. IsFiniteSet(Mats)
  BY FewAreFinite DEF Mats
<1>2. IsFiniteSet({2, 4, 8})
  <2>1. {2, 4, 8} \in SUBSET (1 .. 8)
    OBVIOUS
  <2>2. IsFiniteSet(1 .. 8) /\ Cardinality(1 .. 8) = 8
    BY FewAreFinite
  <2> QED BY <2>1, <2>2, FS_Subset, Zenon
<1>6. IsFiniteSet({256, 512, 1024})
  <2>1. PICK a, b, c : a = 256 /\ b = 512 /\ c = 1024
    OBVIOUS
  <2>2. IsFiniteSet({a, b, c})
    BY FewAreFinite, Zenon
  <2> QED BY <2>1, <2>2
<1>3. IsFiniteSet({2, 4, 8} \X Mats) /\ IsFiniteSet({256, 512, 1024} \X Mats)
  BY <1>1, <1>2, <1>6, FS_Product
<1>4. IsFiniteSet({"sufficient"} \X (1 .. 5))
  <2>1. IsFiniteSet({"sufficient"}) /\ IsFiniteSet(1 .. 5)
    BY FewAreFinite, FS_Singleton
  <2> QED BY <2>1, FS_Product, Zenon
<1>5. ASSUME NEW g PROVE IsFiniteSet(Features(g))
  <2>1. Features(g) \in SUBSET (({2, 4, 8} \X Mats) \cup ({"sufficient"} \X (1 .. 5)))
    BY DEF Features
  <2>2. IsFiniteSet(({2, 4, 8} \X Mats) \cup ({"sufficient"} \X (1 .. 5)))
    BY <1>3, <1>4, FS_Union
  <2> QED BY <2>1, <2>2, FS_Subset
<1> QED BY <1>3, <1>5

(* The plain distance is a number, and the same both ways; no coordinate   *)
(* is further apart, and none of the features for less than a unit.        *)
LEMMA PlainDistance ==
  ASSUME NEW g, NEW h, IsKnown(g), IsKnown(h)
  PROVE /\ Plain(g, h) \in Nat /\ Plain(g, h) = Plain(h, g)
        /\ \A i \in 1 .. 6 : Abs(Metric(g)[i] - Metric(h)[i]) <= Plain(g, h)
        /\ Plain(g, h) < Unit => Features(g) = Features(h) /\ Lines(g) = Lines(h)
<1> DEFINE f == Cardinality(SymDiff(Features(g), Features(h)))
           l == Cardinality({p \in DOMAIN Lines(g) : Lines(g)[p] # Lines(h)[p]})
<1>1. f \in Nat /\ f = Cardinality(SymDiff(Features(h), Features(g))) /\ (f = 0 => Features(g) = Features(h))
  <2>1. SymDiff(Features(g), Features(h)) = SymDiff(Features(h), Features(g))
    BY DEF SymDiff
  <2>2. SymDiff(Features(g), Features(h)) \in SUBSET (Features(g) \cup Features(h))
    BY DEF SymDiff
  <2>3. IsFiniteSet(Features(g) \cup Features(h))
    BY FewFeatures, FS_Union
  <2>4. IsFiniteSet(SymDiff(Features(g), Features(h)))
    BY <2>2, <2>3, FS_Subset
  <2>5. SymDiff(Features(g), Features(h)) = {} => Features(g) = Features(h)
    BY DEF SymDiff
  <2> QED BY <2>1, <2>4, <2>5, FS_CardinalityType, FS_EmptySet
<1>2. l \in Nat /\ l = Cardinality({p \in DOMAIN Lines(h) : Lines(h)[p] # Lines(g)[p]})
      /\ (l = 0 => Lines(g) = Lines(h))
  <2>1. DOMAIN Lines(g) = {256, 512, 1024} \X Mats /\ DOMAIN Lines(h) = {256, 512, 1024} \X Mats
    BY DEF Lines
  <2>2. {p \in DOMAIN Lines(g) : Lines(g)[p] # Lines(h)[p]}
        = {p \in DOMAIN Lines(h) : Lines(h)[p] # Lines(g)[p]}
    BY <2>1
  <2>3. {p \in DOMAIN Lines(g) : Lines(g)[p] # Lines(h)[p]} \in SUBSET ({256, 512, 1024} \X Mats)
    BY <2>1
  <2>4. IsFiniteSet({p \in DOMAIN Lines(g) : Lines(g)[p] # Lines(h)[p]})
    BY <2>3, FewFeatures, FS_Subset
  <2>5. {p \in DOMAIN Lines(g) : Lines(g)[p] # Lines(h)[p]} = {} => Lines(g) = Lines(h)
    <3> DEFINE D == {256, 512, 1024} \X Mats
               x == Lines(g)
               y == Lines(h)
    <3>1. x = [p \in D |-> x[p]] /\ y = [p \in D |-> y[p]] /\ DOMAIN x = D
      BY DEF Lines
    <3> HIDE DEF D, x, y
    <3>2. {p \in DOMAIN x : x[p] # y[p]} = {} => x = y
      BY <3>1
    <3> QED BY <3>2 DEF x, y
  <2> QED BY <2>2, <2>4, <2>5, FS_CardinalityType, FS_EmptySet
<1> DEFINE apart == [i \in 1 .. 6 |-> Abs(Metric(g)[i] - Metric(h)[i])]
           back == [i \in 1 .. 6 |-> Abs(Metric(h)[i] - Metric(g)[i])]
<1>3. \A i \in 1 .. 6 : apart[i] \in Nat /\ apart[i] = back[i]
  <2> TAKE i \in 1 .. 6
  <2>1. PICK a, b \in Int : Metric(g)[i] = a /\ Metric(h)[i] = b
    BY MetricIsNumber
  <2>2. apart[i] = Abs(a - b) /\ back[i] = Abs(b - a)
    BY <2>1
  <2> HIDE DEF apart, back
  <2> QED BY <2>1, <2>2 DEF Abs
<1> DEFINE uf == Unit * f
           ul == Unit * l
<1>4. /\ Plain(g, h) = apart[1] + apart[2] + apart[3] + apart[4] + apart[5] + apart[6] + uf + ul
      /\ Plain(h, g) = back[1] + back[2] + back[3] + back[4] + back[5] + back[6] + uf + ul
  BY <1>1, <1>2 DEF Plain
<1>5. uf \in Nat /\ ul \in Nat /\ (f # 0 => Unit <= uf) /\ (l # 0 => Unit <= ul)
  BY <1>1, <1>2, UnitTimes
<1>6. \A i \in 1 .. 6 : apart[i] = Abs(Metric(g)[i] - Metric(h)[i])
  OBVIOUS
<1> HIDE DEF apart, back, uf, ul, f, l
<1>7. \A i \in {1, 2, 3, 4, 5, 6} : apart[i] \in Nat /\ apart[i] = back[i]
  BY <1>3
<1>8. Plain(g, h) \in Nat /\ Plain(g, h) = Plain(h, g)
  BY <1>4, <1>5, <1>7
<1>9. \A i \in 1 .. 6 : apart[i] <= Plain(g, h)
  BY <1>4, <1>5, <1>7
<1>10. uf <= Plain(g, h) /\ ul <= Plain(g, h)
  BY <1>4, <1>5, <1>7
<1>11. Plain(g, h) < Unit => f = 0 /\ l = 0
  BY <1>1, <1>2, <1>5, <1>8, <1>10, UnitAssumption
<1> QED BY <1>1, <1>2, <1>6, <1>8, <1>9, <1>11

(* The distance of two geometries, from the plain one and the workspaces.  *)
LEMMA GeometriesApart ==
  ASSUME NEW g, NEW h
  PROVE GeometryDistance(g, h) =
          IF SameTransposes(g, h) THEN Plain(g, h) + (LogOf[g.ws] - LogOf[h.ws]) ELSE MaxDistance
<1> DEFINE f == Unit * Cardinality(SymDiff(Features(g), Features(h)))
           l == Unit * Cardinality({p \in DOMAIN Lines(g) : Lines(g)[p] # Lines(h)[p]})
           apart(i) == Abs(Metric(g)[i] - Metric(h)[i])
           w == LogOf[g.ws] - LogOf[h.ws]
<1>1. Plain(g, h) = apart(1) + apart(2) + apart(3) + apart(4) + apart(5) + apart(6) + f + l
  BY DEF Plain
<1>2. GeometryDistance(g, h) = IF ~SameTransposes(g, h) THEN MaxDistance
        ELSE apart(1) + apart(2) + apart(3) + apart(4) + apart(5) + apart(6) + f + l + w
  BY DEF GeometryDistance
<1> HIDE DEF apart, f, l, w
<1>3. CASE SameTransposes(g, h)
  <2>1. GeometryDistance(g, h) = Plain(g, h) + w
    BY <1>1, <1>2, <1>3, Zenon
  <2> QED BY <1>3, <2>1 DEF w
<1>4. CASE ~SameTransposes(g, h)
  BY <1>2, <1>4
<1> QED BY <1>3, <1>4

(* Two keys of known geometries.                                           *)
IsKnownKey(k) == IsKnown(k.gg)

(* Keys of other transposes are as far apart as can be.  A key at no       *)
(* distance, or at less than none, has the same constraints, and the       *)
(* workspaces make up for all the rest.                                    *)
LEMMA KeysApart ==
  ASSUME NEW k, NEW l, IsKnownKey(k), IsKnownKey(l)
  PROVE /\ KeyDistance(k, l) \in Int
        /\ ~SameTransposes(k.gg, l.gg) => KeyDistance(k, l) = MaxDistance
        /\ KeyDistance(k, l) < TenthOfMax =>
             SameTransposes(k.gg, l.gg) /\ KeyDistance(l, k) < MaxDistance
        /\ KeyDistance(k, l) <= 0 =>
             /\ SameTransposes(k.gg, l.gg) /\ k.con = l.con
             /\ Plain(k.gg, l.gg) <= LogOf[l.gg.ws] - LogOf[k.gg.ws]
             /\ k.dvc # l.dvc => Plain(k.gg, l.gg) < LogOf[l.gg.ws] - LogOf[k.gg.ws]
<1> DEFINE s == SameTransposes(k.gg, l.gg)
           p == Plain(k.gg, l.gg)
           u == LogOf[k.gg.ws]
           v == LogOf[l.gg.ws]
           dvc == IF k.dvc # l.dvc THEN Unit \div 200000 ELSE 0
           con == IF k.con # l.con THEN 5 * Unit ELSE 0
<1>1. p \in Nat /\ u \in Nat /\ v \in Nat /\ 200 * u <= Unit /\ 200 * v <= Unit /\ s \in BOOLEAN
  BY PlainDistance, LogsAreNumbers DEF SameTransposes, IsKnownKey
<1>2. /\ dvc \in Nat /\ 200000 * dvc <= Unit /\ (k.dvc # l.dvc => dvc > 0)
      /\ con \in {0, 5 * Unit} /\ (con = 0 => k.con = l.con)
  BY UnitAssumption
<1>3. SameTransposes(l.gg, k.gg) = s
  BY DEF SameTransposes
<1>4. Plain(l.gg, k.gg) = p
  BY PlainDistance DEF IsKnownKey
<1>5. GeometryDistance(k.gg, l.gg) = IF s THEN p + (u - v) ELSE MaxDistance
  BY GeometriesApart
<1>6. GeometryDistance(l.gg, k.gg) = IF s THEN p + (v - u) ELSE MaxDistance
  BY GeometriesApart, <1>3, <1>4
<1>7. KeyDistance(k, l) = LET d == GeometryDistance(k.gg, l.gg) IN
                          IF d = MaxDistance THEN d ELSE d + dvc + con
  BY DEF KeyDistance
<1>8. KeyDistance(l, k) = LET d == GeometryDistance(l.gg, k.gg) IN
                          IF d = MaxDistance THEN d ELSE d + dvc + con
  <2>1. (IF l.dvc # k.dvc THEN Unit \div 200000 ELSE 0) = dvc
        /\ (IF l.con # k.con THEN 5 * Unit ELSE 0) = con
    OBVIOUS
  <2> QED BY <2>1 DEF KeyDistance
<1> DEFINE differ == k.dvc # l.dvc
<1>9. Unit \in Nat /\ Unit > 0 /\ MaxDistance = 5000 * Unit /\ TenthOfMax = 2000 * Unit
  BY UnitAssumption DEF MaxDistance, TenthOfMax
<1> HIDE DEF s, p, u, v, dvc, con
<1>10. KeyDistance(k, l) \in Int
  BY <1>1, <1>2, <1>5, <1>7, <1>9
<1>11. ~s => KeyDistance(k, l) = MaxDistance
  BY <1>5, <1>7
<1>12. KeyDistance(k, l) < TenthOfMax => s /\ KeyDistance(l, k) < MaxDistance
  BY <1>1, <1>2, <1>5, <1>6, <1>7, <1>8, <1>9
<1>13. KeyDistance(k, l) <= 0 => s /\ k.con = l.con /\ p + dvc <= v - u
  BY <1>1, <1>2, <1>5, <1>7, <1>9
<1>14. KeyDistance(k, l) <= 0 => p <= v - u /\ (k.dvc # l.dvc => p < v - u)
  BY <1>1, <1>2, <1>13
<1> QED BY <1>10, <1>11, <1>12, <1>13, <1>14 DEF s, u, v, p

(* Where one within the threshold was promised, there is one at its rank,  *)
(* and all that are at it are comparable.                                  *)
LEMMA NearestIsThere ==
  ASSUME NEW kc, IsFiniteSet(DOMAIN kc), NEW ck, NEW graph, NEW rank \in Nat,
         IsKnownKey(ck), \A k \in DOMAIN kc : IsKnownKey(k),
         IsWithin(ck, graph, kc, TenthOfMax, rank)
  PROVE /\ Nearest(ck, graph, kc, rank) # {}
        /\ Nearest(ck, graph, kc, rank) \subseteq Candidates(ck, graph, kc)
        /\ \A k \in Nearest(ck, graph, kc, rank) : SameTransposes(ck.gg, k.gg)
<1> DEFINE S == Candidates(ck, graph, kc)
           d == [k \in S |-> KeyDistance(ck, k)]
           W == {k \in S : KeyDistance(k, ck) < TenthOfMax}
<1>1. S \in SUBSET DOMAIN kc
  BY DEF Candidates
<1>2. IsFiniteSet(S)
  BY <1>1, FS_Subset, Zenon
<1>3. W \in SUBSET S /\ Cardinality(W) > rank
  BY DEF IsWithin
<1>9. \A k \in S : IsKnownKey(k)
  BY <1>1
<1> HIDE DEF S
<1>4. d \in [S -> Int]
  BY <1>9, KeysApart
<1>5. IsFiniteSet(W) /\ Cardinality(W) <= Cardinality(S) /\ Cardinality(W) \in Nat /\ Cardinality(S) \in Nat
  BY <1>2, <1>3, FS_Subset, FS_CardinalityType
<1>6. Nearest(ck, graph, kc, rank) =
        {k \in S : /\ Cardinality(Nearer(S, d, k)) <= rank
                   /\ rank < Cardinality(Nearer(S, d, k)) + Cardinality(AsNear(S, d, k))}
  <2>1. \A k \in S : /\ Nearer(S, d, k) = {o \in S : KeyDistance(ck, o) < KeyDistance(ck, k)}
                     /\ AsNear(S, d, k) = {o \in S : KeyDistance(ck, o) = KeyDistance(ck, k)}
    BY DEF Nearer, AsNear
  <2>2. Nearest(ck, graph, kc, rank) =
          {k \in S : /\ Cardinality({o \in S : KeyDistance(ck, o) < KeyDistance(ck, k)}) <= rank
                     /\ rank < Cardinality({o \in S : KeyDistance(ck, o) < KeyDistance(ck, k)})
                               + Cardinality({o \in S : KeyDistance(ck, o) = KeyDistance(ck, k)})}
    BY DEF Nearest, S
  <2> HIDE DEF d
  <2> QED BY <2>1, <2>2
<1> HIDE DEF d, W
<1>7. Nearest(ck, graph, kc, rank) # {}
  <2>1. rank < Cardinality(S)
    BY <1>3, <1>5
  <2>2. \E k \in S : /\ Cardinality(Nearer(S, d, k)) <= rank
                     /\ rank < Cardinality(Nearer(S, d, k)) + Cardinality(AsNear(S, d, k))
    BY <1>2, <1>4, <2>1, NthElement, Zenon
  <2> QED BY <1>6, <2>2
<1>8. ASSUME NEW k \in Nearest(ck, graph, kc, rank), ~SameTransposes(ck.gg, k.gg) PROVE FALSE
  <2>1. k \in S /\ Cardinality(Nearer(S, d, k)) <= rank
    BY <1>6
  <2>2. d[k] = MaxDistance
    BY <1>8, <1>9, <2>1, KeysApart DEF d
  <2>3. ASSUME NEW o \in W PROVE o \in Nearer(S, d, k)
    <3>1. o \in S /\ KeyDistance(o, ck) < TenthOfMax
      BY <2>3 DEF W
    <3>2. KeyDistance(ck, o) < MaxDistance
      BY <1>9, <3>1, KeysApart
    <3> QED BY <2>2, <3>1, <3>2 DEF Nearer, d
  <2>4. W \in SUBSET Nearer(S, d, k)
    BY <2>3
  <2>5. IsFiniteSet(Nearer(S, d, k)) /\ Cardinality(Nearer(S, d, k)) \in Nat
    BY <1>2, <1>4, <2>1, Counted
  <2>6. Cardinality(W) <= Cardinality(Nearer(S, d, k))
    BY <2>4, <2>5, FS_Subset, Zenon
  <2> QED BY <1>3, <1>5, <2>1, <2>5, <2>6
<1> QED BY <1>6, <1>7, <1>8 DEF S

---------------------------------------------------------------------------
(* The graph.  Edges end in the table they start in.                       *)

ClosedTable(e) == DOMAIN e \subseteq Int /\ \A v \in DOMAIN e : e[v] \subseteq DOMAIN e
Loopless(e) == \A v \in DOMAIN e : v \notin e[v]

(* A table of edges leads to values that it has, and none to itself: the   *)
(* one of yes and no.                                                      *)
LEMMA BinaryTable == ClosedTable(g_binary) /\ Loopless(g_binary)
BY DEF ClosedTable, Loopless, g_binary, NO, YES

(* So do those of the parameters of A and of B.                            *)
LEMMA ChiTables ==
  \A p \in Chi : ClosedTable(ChiEdges[p]) /\ Loopless(ChiEdges[p])
<1>1. ClosedTable(ChiEdges["MIC"]) /\ Loopless(ChiEdges["MIC"])
  BY DEF ClosedTable, Loopless, ChiEdges
<1>2. ClosedTable(ChiEdges["PAD"]) /\ Loopless(ChiEdges["PAD"])
  BY DEF ClosedTable, Loopless, ChiEdges
<1>3. ClosedTable(ChiEdges["VEW"]) /\ Loopless(ChiEdges["VEW"])
  BY DEF ClosedTable, Loopless, ChiEdges
<1>4. ClosedTable(ChiEdges["WOS"]) /\ Loopless(ChiEdges["WOS"])
  BY DEF ClosedTable, Loopless, ChiEdges, UNUSED, COPY, NFORM
<1>5. /\ ChiEdges["PLU"] = g_binary /\ ChiEdges["LIW"] = g_binary /\ ChiEdges["MIW"] = g_binary
  BY DEF ChiEdges
<1> QED BY <1>1, <1>2, <1>3, <1>4, <1>5, BinaryTable DEF Chi

(* The only value that leads back to itself is a MAC of 64.                *)
LEMMA MacTables ==
  ASSUME NEW g, NEW device
  PROVE /\ ClosedTable(MacEdges(g, device))
        /\ \A v \in DOMAIN MacEdges(g, device) : v \in MacEdges(g, device)[v] => v = 64
<1> DEFINE Good(e) == ClosedTable(e) /\ \A v \in DOMAIN e : v \in e[v] => v = 64
<1>1. Good(TinyMacs)
  BY DEF ClosedTable, TinyMacs
<1>2. Good([v \in {64, 256} |-> {64, 256} \ {v}])
  BY DEF ClosedTable
<1>3. Good([v \in {32, 64, 128, 256} |->
              CASE v = 32 -> {64, 256}  [] v = 64 -> {32, 128, 256}
                [] v = 128 -> {64, 256}  [] v = 256 -> {64}])
  BY DEF ClosedTable
<1>4. Good(MacEdges(g, device))
  <2> HIDE DEF Good
  <2> QED BY <1>1, <1>2, <1>3 DEF MacEdges, MacsUpTo
<1> QED BY <1>4

(* So do those of the parameters of C, but for MAC 64, which has an edge   *)
(* to itself.                                                              *)
LEMMA CTables ==
  ASSUME NEW g, NEW device
  PROVE \A p \in NonChi : /\ ClosedTable(CEdges(g, device)[p])
                          /\ p # "MAC" => Loopless(CEdges(g, device)[p])
                          /\ \A v \in DOMAIN CEdges(g, device)[p] : v \in CEdges(g, device)[p][v] => v = 64
<1> DEFINE e == CEdges(g, device)
           Good(p) == ClosedTable(e[p]) /\ Loopless(e[p])
<1>1. Good("UNR")
  BY DEF ClosedTable, Loopless, CEdges
<1>2. Good("NAW")
  BY DEF ClosedTable, Loopless, CEdges
<1>3. Good("GAL")
  BY DEF ClosedTable, Loopless, CEdges, BYROW, BYCOL, SUCOL
<1>4. Good("SKW")
  BY DEF ClosedTable, Loopless, CEdges
<1>5. Good("ICE")
  <2> DEFINE t == [v \in 1 .. 14 |->
              CASE v = 1 -> {2}  [] v = 2 -> {1, 3, 4}  [] v = 3 -> {1, 2, 4, 6}
                [] v = 4 -> {1, 3, 5, 7}  [] v = 5 -> {1, 2, 4, 6, 8}
                [] v = 6 -> {1, 3, 5, 7, 9}  [] v = 7 -> {4, 6, 8, 10}
                [] v = 8 -> {1, 5, 7, 9, 11}  [] v = 9 -> {6, 8, 10, 12}
                [] v = 10 -> {1, 7, 9, 11, 13}  [] v = 11 -> {8, 10, 12, 14}
                [] v = 12 -> {1, 9, 11, 13, 14}  [] v = 13 -> {10, 12, 14}
                [] v = 14 -> {1, 11, 13}]
  <2>1. e["ICE"] = t
    BY DEF CEdges
  <2>2. ASSUME NEW v \in 1 .. 14 PROVE t[v] \subseteq 1 .. 14 /\ v \notin t[v]
    BY SMTT(30)
  <2>3. DOMAIN t = 1 .. 14
    OBVIOUS
  <2> HIDE DEF t, e
  <2> QED BY <2>1, <2>2, <2>3 DEF ClosedTable, Loopless
<1>6. \A p \in {"PUN", "IWI", "UFO", "AFI", "MIA", "SZT", "MAD"} : e[p] = g_binary
  BY DEF CEdges
<1>7. e["MAC"] = MacEdges(g, device)
  BY DEF CEdges
<1>8. ClosedTable(e["MAC"]) /\ \A v \in DOMAIN e["MAC"] : v \in e["MAC"][v] => v = 64
  BY <1>7, MacTables
<1>9. \A p \in {"PUN", "IWI", "UFO", "AFI", "MIA", "SZT", "MAD"} : Good(p)
  <2> HIDE DEF e
  <2> QED BY <1>6, BinaryTable
<1>10. \A p \in NonChi \ {"MAC"} : Good(p)
  <2> HIDE DEF Good
  <2> QED BY <1>1, <1>2, <1>3, <1>4, <1>5, <1>9 DEF NonChi
<1> HIDE DEF e
<1>11. ASSUME NEW p \in NonChi
       PROVE /\ ClosedTable(e[p]) /\ (p # "MAC" => Loopless(e[p]))
             /\ \A v \in DOMAIN e[p] : v \in e[p][v] => v = 64
  BY <1>8, <1>10 DEF Loopless
<1> QED BY <1>11 DEF e

(* What a graph is to the neighbours: tables that are closed, of which     *)
(* that of MAC alone leads from one of its values, 64, back to it.         *)
GraphTables(graph) ==
  \A x \in Mats : \A p \in XChi(x) :
    LET e == graph[x][p].edges IN
    /\ ClosedTable(e)
    /\ p # "MAC" => Loopless(e)
    /\ \A v \in DOMAIN e : v \in e[v] => v = 64

(* Every graph is made of such tables, and has one value where there is a  *)
(* constraint.                                                             *)
LEMMA GraphHasTables ==
  ASSUME NEW g, NEW device, NEW cons, AreConstraints(cons.range)
  PROVE /\ GraphTables(Graph(g, device, cons))
        /\ \A x \in Mats : \A p \in DOMAIN cons.range[x] :
             p \in XChi(x) /\ RangeOf(Graph(g, device, cons), x, p) = {cons.range[x][p]}
<1> DEFINE graph == Graph(g, device, cons)
           fixed(x, p) == [v \in {cons.range[x][p]} |-> {}]
<1>1. \A x \in Mats : \A p \in XChi(x) :
        graph[x][p].edges = IF Defined(cons.range[x], p) THEN fixed(x, p) ELSE EdgesOf(g, device, x)[p]
  BY DEF Graph
<1>2. \A x \in Mats : \A p \in XChi(x) :
        LET e == EdgesOf(g, device, x)[p] IN
        /\ ClosedTable(e) /\ (p # "MAC" => Loopless(e))
        /\ \A v \in DOMAIN e : v \in e[v] => v = 64
  <2> SUFFICES ASSUME NEW x \in Mats, NEW p \in XChi(x)
               PROVE LET e == EdgesOf(g, device, x)[p] IN
                     /\ ClosedTable(e) /\ (p # "MAC" => Loopless(e))
                     /\ \A v \in DOMAIN e : v \in e[v] => v = 64
    OBVIOUS
  <2>1. CASE x = "C"
    <3>1. p \in NonChi /\ EdgesOf(g, device, x) = CEdges(g, device)
      BY <2>1 DEF XChi, EdgesOf
    <3> QED BY <3>1, CTables
  <2>2. CASE x # "C"
    <3>1. p \in Chi /\ EdgesOf(g, device, x) = ChiEdges
      BY <2>2 DEF XChi, EdgesOf
    <3> QED BY <3>1, ChiTables DEF Loopless
  <2> QED BY <2>1, <2>2
<1>3. \A x \in Mats : \A p \in DOMAIN cons.range[x] : p \in XChi(x) /\ cons.range[x][p] \in Int
  BY DEF AreConstraints
<1>4. \A x \in Mats : \A p \in DOMAIN cons.range[x] :
        /\ ClosedTable(fixed(x, p)) /\ Loopless(fixed(x, p))
        /\ \A v \in DOMAIN fixed(x, p) : v \notin fixed(x, p)[v]
        /\ DOMAIN fixed(x, p) = {cons.range[x][p]}
  BY <1>3 DEF ClosedTable, Loopless
<1> HIDE DEF graph, fixed
<1>5. GraphTables(graph)
  <2> SUFFICES ASSUME NEW x \in Mats, NEW p \in XChi(x)
               PROVE LET e == graph[x][p].edges IN
                     /\ ClosedTable(e) /\ (p # "MAC" => Loopless(e))
                     /\ \A v \in DOMAIN e : v \in e[v] => v = 64
    BY DEF GraphTables
  <2>1. CASE Defined(cons.range[x], p)
    <3>1. graph[x][p].edges = fixed(x, p) /\ p \in DOMAIN cons.range[x]
      BY <1>1, <2>1 DEF Defined
    <3> QED BY <1>4, <3>1
  <2>2. CASE ~Defined(cons.range[x], p)
    BY <1>1, <1>2, <2>2
  <2> QED BY <2>1, <2>2
<1>6. ASSUME NEW x \in Mats, NEW p \in DOMAIN cons.range[x]
      PROVE  p \in XChi(x) /\ RangeOf(graph, x, p) = {cons.range[x][p]}
  <2>1. p \in XChi(x) /\ DOMAIN fixed(x, p) = {cons.range[x][p]}
    BY <1>3, <1>4
  <2>2. graph[x][p].edges = fixed(x, p)
    BY <1>1, <2>1 DEF Defined
  <2> QED BY <2>1, <2>2 DEF RangeOf
<1> QED BY <1>5, <1>6 DEF graph

---------------------------------------------------------------------------
(* Neighbours of what is in the graph are in the graph.                    *)

(* One number changes to another of its range.                             *)
LEMMA WithStays ==
  ASSUME NEW graph, GraphTables(graph), NEW h, IsHyPas(h), InGraph(graph, h),
         NEW x \in Mats, NEW p \in XChi(x), NEW v \in RangeOf(graph, x, p)
  PROVE IsHyPas(With(h, x, p, v)) /\ InGraph(graph, With(h, x, p, v))
<1> DEFINE n == With(h, x, p, v)
<1>1. v \in Int
  BY DEF GraphTables, ClosedTable, RangeOf
<1>2. DOMAIN n = Mats /\ n[x] = [h[x] EXCEPT ![p] = v] /\ \A y \in Mats \ {x} : n[y] = h[y]
  BY DEF With, IsHyPas
<1>3. n[x] \in [XChi(x) -> Int] /\ n[x][p] = v /\ \A q \in XChi(x) \ {p} : n[x][q] = h[x][q]
  <2>1. h[x] \in [XChi(x) -> Int]
    BY DEF IsHyPas
  <2> HIDE DEF n
  <2> QED BY <1>1, <1>2, <2>1
<1> HIDE DEF n
<1>4. IsHyPas(n)
  BY <1>2, <1>3 DEF IsHyPas
<1>5. InGraph(graph, n)
  <2> SUFFICES ASSUME NEW y \in Mats, NEW q \in XChi(y) PROVE n[y][q] \in RangeOf(graph, y, q)
    BY DEF InGraph
  <2>1. h[y][q] \in RangeOf(graph, y, q)
    BY DEF InGraph
  <2> QED BY <1>2, <1>3, <2>1
<1> QED BY <1>4, <1>5 DEF n

(* The two of them that change in a coupled pair.                          *)
LEMMA CoupledPairs ==
  \A c \in PCoupled :
    /\ c[1][1] \in Mats /\ c[1][2] \in XChi(c[1][1]) /\ c[2][1] \in Mats /\ c[2][2] \in XChi(c[2][1])
    /\ c[1] # c[2] /\ c[1][2] # "MAC" /\ c[2][2] # "MAC"
    /\ <<c[1][1], c[1][2]>> # <<c[2][1], c[2][2]>>
  BY DEF PCoupled, Mats, XChi, Chi, NonChi

(* A neighbour with one parameter changed is in the graph.                 *)
LEMMA OneAwayStays ==
  ASSUME NEW graph, GraphTables(graph), NEW h, IsHyPas(h), InGraph(graph, h),
         NEW n \in OneAways(graph, h)
  PROVE /\ IsHyPas(n) /\ InGraph(graph, n)
        /\ \E x \in Mats : \E p \in XChi(x) : \E v \in Int : n = With(h, x, p, v)
<1>1. PICK s \in Mats \X (Chi \cup NonChi) :
        /\ s[2] \in XChi(s[1])
        /\ \E v \in graph[s[1]][s[2]].edges[h[s[1]][s[2]]] : n = With(h, s[1], s[2], v)
  BY DEF OneAways
<1>2. s[1] \in Mats
  BY <1>1
<1>3. PICK v \in graph[s[1]][s[2]].edges[h[s[1]][s[2]]] : n = With(h, s[1], s[2], v)
  BY <1>1
<1>4. v \in RangeOf(graph, s[1], s[2])
  BY <1>1, <1>2 DEF GraphTables, ClosedTable, RangeOf, InGraph
<1>5. v \in Int
  BY <1>1, <1>2, <1>4 DEF GraphTables, ClosedTable, RangeOf
<1> QED BY <1>1, <1>2, <1>3, <1>4, <1>5, WithStays

(* So is one with two that are changed together.                           *)
LEMMA CoupledStays ==
  ASSUME NEW graph, GraphTables(graph), NEW h, IsHyPas(h), InGraph(graph, h),
         NEW n \in PCoupledAway(graph, h)
  PROVE /\ IsHyPas(n) /\ InGraph(graph, n) /\ n["C"]["MAC"] = h["C"]["MAC"]
        /\ \E x, y \in Mats : \E p \in XChi(x), q \in XChi(y) :
             <<x, p>> # <<y, q>> /\ n[x][p] # h[x][p] /\ n[y][q] # h[y][q]
<1>1. PICK c \in PCoupled :
        \E f \in graph[c[1][1]][c[1][2]].edges[h[c[1][1]][c[1][2]]]
                 \X graph[c[2][1]][c[2][2]].edges[h[c[2][1]][c[2][2]]] :
          n = With(With(h, c[1][1], c[1][2], f[1]), c[2][1], c[2][2], f[2])
  BY DEF PCoupledAway
<1> DEFINE x == c[1][1]
           p == c[1][2]
           y == c[2][1]
           q == c[2][2]
<1>2. x \in Mats /\ p \in XChi(x) /\ y \in Mats /\ q \in XChi(y) /\ <<x, p>> # <<y, q>>
      /\ p # "MAC" /\ q # "MAC"
  BY CoupledPairs
<1>3. PICK f \in graph[x][p].edges[h[x][p]] \X graph[y][q].edges[h[y][q]] :
        n = With(With(h, x, p, f[1]), y, q, f[2])
  BY <1>1
<1> HIDE DEF x, p, y, q
<1> DEFINE v == f[1]
           w == f[2]
           m == With(h, x, p, v)
<1>4. v \in graph[x][p].edges[h[x][p]] /\ w \in graph[y][q].edges[h[y][q]] /\ n = With(m, y, q, w)
  BY <1>3
<1> HIDE DEF v, w
<1>5. v \in RangeOf(graph, x, p) /\ w \in RangeOf(graph, y, q) /\ v # h[x][p] /\ w # h[y][q]
  <2>1. h[x][p] \in DOMAIN graph[x][p].edges /\ h[y][q] \in DOMAIN graph[y][q].edges
    BY <1>2 DEF InGraph, RangeOf
  <2> QED BY <1>2, <1>4, <2>1 DEF GraphTables, ClosedTable, Loopless, RangeOf
<1>6. IsHyPas(m) /\ InGraph(graph, m)
  BY <1>2, <1>5, WithStays
<1>7. IsHyPas(n) /\ InGraph(graph, n)
  <2> HIDE DEF m
  <2> QED BY <1>2, <1>4, <1>5, <1>6, WithStays
<1>8. m[x][p] = v /\ \A z \in Mats : \A r \in XChi(z) : <<z, r>> # <<x, p>> => m[z][r] = h[z][r]
  BY <1>2 DEF With, IsHyPas
<1>9. n[y][q] = w /\ \A z \in Mats : \A r \in XChi(z) : <<z, r>> # <<y, q>> => n[z][r] = m[z][r]
  <2> HIDE DEF m
  <2> QED BY <1>2, <1>4, <1>6 DEF With, IsHyPas
<1>10. n[x][p] = v
  BY <1>2, <1>8, <1>9
<1>11. "C" \in Mats /\ "MAC" \in XChi("C")
  BY DEF Mats, XChi, NonChi
<1>12. n["C"]["MAC"] = h["C"]["MAC"]
  BY <1>2, <1>8, <1>9, <1>11
<1> QED BY <1>2, <1>5, <1>7, <1>9, <1>10, <1>12

(* A good grid of 64 has sides by which one can divide.                    *)
LEMMA GridOf64 ==
  ASSUME NEW skew, Grid(64, skew).isGood
  PROVE \A x \in Chiral : \A z \in Int : (z * Grid(64, skew)[x]) \div Grid(64, skew)[x] = z
<1> DEFINE e == (Log2(64) \div 2) + (Log2(64) % 2) - (skew - Skew0)
<1>1. Grid(64, skew) = IF e \in 0 .. 29 /\ 64 % 2^e = 0
                       THEN [isGood |-> TRUE, A |-> 2^e, B |-> 64 \div 2^e]
                       ELSE [isGood |-> FALSE, A |-> 0, B |-> 0]
  BY DEF Grid
<1> HIDE DEF e
<1>2. e \in 0 .. 29 /\ 64 % 2^e = 0
  BY <1>1
<1>3. Grid(64, skew)["A"] = 2^e /\ Grid(64, skew)["B"] = 64 \div 2^e
  BY <1>1, <1>2
<1> DEFINE pow == [i \in 0 .. 29 |-> 2^i]
<1>4. pow[e] = 2^e
  BY <1>2
<1>5. <<pow[e], 64 \div pow[e]>>
        \in {<<1, 64>>, <<2, 32>>, <<4, 16>>, <<8, 8>>, <<16, 4>>, <<32, 2>>, <<64, 1>>}
  <2>1. pow[0] = 1 /\ pow[1] = 2 /\ pow[2] = 4 /\ pow[3] = 8 /\ pow[4] = 16 /\ pow[5] = 32
        /\ pow[6] = 64 /\ pow[7] = 128 /\ pow[8] = 256 /\ pow[9] = 512 /\ pow[10] = 1024
        /\ pow[11] = 2048 /\ pow[12] = 4096 /\ pow[13] = 8192 /\ pow[14] = 16384
        /\ pow[15] = 32768 /\ pow[16] = 65536 /\ pow[17] = 131072 /\ pow[18] = 262144
        /\ pow[19] = 524288 /\ pow[20] = 1048576 /\ pow[21] = 2097152
        /\ pow[22] = 4194304 /\ pow[23] = 8388608 /\ pow[24] = 16777216
        /\ pow[25] = 33554432 /\ pow[26] = 67108864 /\ pow[27] = 134217728
        /\ pow[28] = 268435456 /\ pow[29] = 536870912
    OBVIOUS
  <2>2. 64 % 128 # 0 /\ 64 % 256 # 0 /\ 64 % 512 # 0 /\ 64 % 1024 # 0 /\ 64 % 2048 # 0
        /\ 64 % 4096 # 0 /\ 64 % 8192 # 0 /\ 64 % 16384 # 0 /\ 64 % 32768 # 0
        /\ 64 % 65536 # 0 /\ 64 % 131072 # 0 /\ 64 % 262144 # 0 /\ 64 % 524288 # 0
        /\ 64 % 1048576 # 0 /\ 64 % 2097152 # 0 /\ 64 % 4194304 # 0 /\ 64 % 8388608 # 0
        /\ 64 % 16777216 # 0 /\ 64 % 33554432 # 0 /\ 64 % 67108864 # 0
        /\ 64 % 134217728 # 0 /\ 64 % 268435456 # 0 /\ 64 % 536870912 # 0
    OBVIOUS
  <2>3. e \in {0, 1, 2, 3, 4, 5, 6, 7, 8, 9, 10, 11, 12, 13, 14, 15, 16, 17, 18, 19, 20, 21, 22,
               23, 24, 25, 26, 27, 28, 29}
    BY <1>2
  <2>4. 64 % pow[e] = 0
    BY <1>2, <1>4
  <2> HIDE DEF pow
  <2>5. pow[e] \in {1, 2, 4, 8, 16, 32, 64}
    BY <2>1, <2>2, <2>3, <2>4
  <2>6. 64 \div 1 = 64 /\ 64 \div 2 = 32 /\ 64 \div 4 = 16 /\ 64 \div 8 = 8 /\ 64 \div 16 = 4
        /\ 64 \div 32 = 2 /\ 64 \div 64 = 1
    OBVIOUS
  <2> QED BY <2>5, <2>6
<1>6. \A x \in Chiral : Grid(64, skew)[x] \in {1, 2, 4, 8, 16, 32, 64}
  <2> HIDE DEF pow
  <2> QED BY <1>3, <1>4, <1>5 DEF Chiral
<1>7. \A a \in {1, 2, 4, 8, 16, 32, 64} : \A z \in Int : (z * a) \div a = z
  OBVIOUS
<1> QED BY <1>6, <1>7

(* So is one with another macro grid, of which a micro tile is made to     *)
(* fit.                                                                    *)
LEMMA MicMacStays ==
  ASSUME NEW graph, GraphTables(graph), NEW h, IsHyPas(h), InGraph(graph, h),
         NEW n \in MicMacTransformed(graph, h)
  PROVE /\ IsHyPas(n) /\ InGraph(graph, n) /\ n["C"]["MAC"] # h["C"]["MAC"]
        /\ \E x \in Chiral : n[x]["MIC"] # h[x]["MIC"]
<1> DEFINE now == MacroGrid(h)
           skew == h["C"]["SKW"]
           mic(x, mac) == (h[x]["MIC"] * now[x]) \div Grid(mac, skew)[x]
           fits(x, mac) == mic(x, mac) # h[x]["MIC"] /\ mic(x, mac) \in RangeOf(graph, x, "MIC")
           macs == {mac \in graph["C"]["MAC"].edges[h["C"]["MAC"]] : Grid(mac, skew).isGood}
           to(xs, mac) == [x \in Mats |->
                             IF x \in xs THEN [h[x] EXCEPT !["MIC"] = mic(x, mac)]
                             ELSE IF x = "C" THEN [h[x] EXCEPT !["MAC"] = mac] ELSE h[x]]
<1>1. MicMacTransformed(graph, h) =
        UNION {{to(xs, mac) : xs \in {ys \in SUBSET Chiral : ys # {} /\ \A x \in ys : fits(x, mac)}} :
                 mac \in macs}
  BY DEF MicMacTransformed
<1>2. PICK mac \in macs : \E xs \in SUBSET Chiral : xs # {} /\ (\A x \in xs : fits(x, mac)) /\ n = to(xs, mac)
  <2> HIDE DEF to, fits, macs
  <2> QED BY <1>1
<1>3. PICK xs \in SUBSET Chiral : xs # {} /\ (\A x \in xs : fits(x, mac)) /\ n = to(xs, mac)
  BY <1>2
<1>4. /\ "C" \in Mats /\ "MAC" \in XChi("C") /\ "SKW" \in XChi("C") /\ "C" \notin Chiral
      /\ Chiral \subseteq Mats /\ \A x \in Chiral : "MIC" \in XChi(x) /\ x # "C"
  BY DEF Mats, XChi, NonChi, Chiral, Chi
<1>5. h["C"]["MAC"] \in RangeOf(graph, "C", "MAC")
  BY <1>4 DEF InGraph
<1>6. /\ mac \in graph["C"]["MAC"].edges[h["C"]["MAC"]] /\ Grid(mac, skew).isGood
      /\ mac \in RangeOf(graph, "C", "MAC") /\ mac \in Int
      /\ mac = h["C"]["MAC"] => mac = 64
  BY <1>4, <1>5 DEF GraphTables, ClosedTable, RangeOf
<1>7. mac # h["C"]["MAC"]
  <2> SUFFICES ASSUME mac = h["C"]["MAC"] PROVE FALSE
    OBVIOUS
  <2>1. PICK x \in Chiral : x \in xs /\ fits(x, mac)
    BY <1>3
  <2>2. mac = 64 /\ now = Grid(64, skew)
    BY <1>6 DEF MacroGrid
  <2>3. h[x]["MIC"] \in Int
    BY <1>4 DEF IsHyPas
  <2>4. mic(x, mac) = h[x]["MIC"]
    BY <1>6, <2>2, <2>3, GridOf64
  <2> QED BY <2>1, <2>4
<1>8. \A x \in xs : mic(x, mac) \in RangeOf(graph, x, "MIC") /\ mic(x, mac) # h[x]["MIC"]
                    /\ mic(x, mac) \in Int
  BY <1>3, <1>4 DEF GraphTables, ClosedTable, RangeOf
<1> DEFINE f == [x \in Mats |-> mic(x, mac)]
<1>9. \A x \in xs : f[x] \in RangeOf(graph, x, "MIC") /\ f[x] # h[x]["MIC"] /\ f[x] \in Int
  BY <1>4, <1>8
<1>10. n = [x \in Mats |-> IF x \in xs THEN [h[x] EXCEPT !["MIC"] = f[x]]
                           ELSE IF x = "C" THEN [h[x] EXCEPT !["MAC"] = mac] ELSE h[x]]
  BY <1>3
<1> HIDE DEF f, mic, fits, macs, to, now, skew
<1>11. IsHyPas(n)
  <2>1. ASSUME NEW x \in Mats PROVE n[x] \in [XChi(x) -> Int]
    <3>1. h[x] \in [XChi(x) -> Int]
      BY DEF IsHyPas
    <3>2. CASE x \in xs
      BY <1>4, <1>9, <1>10, <3>1, <3>2
    <3>3. CASE x \notin xs
      BY <1>4, <1>6, <1>10, <3>1, <3>3
    <3> QED BY <3>2, <3>3
  <2> QED BY <1>10, <2>1 DEF IsHyPas
<1>12. n["C"]["MAC"] = mac
  BY <1>4, <1>10 DEF IsHyPas
<1>13. \A x \in xs : n[x]["MIC"] = f[x]
  BY <1>4, <1>10 DEF IsHyPas
<1>14. InGraph(graph, n)
  <2> SUFFICES ASSUME NEW x \in Mats, NEW p \in XChi(x) PROVE n[x][p] \in RangeOf(graph, x, p)
    BY DEF InGraph
  <2>1. h[x][p] \in RangeOf(graph, x, p) /\ h[x] \in [XChi(x) -> Int]
    BY DEF InGraph, IsHyPas
  <2>2. CASE x \in xs
    BY <1>9, <1>10, <2>1, <2>2
  <2>3. CASE x \notin xs
    BY <1>6, <1>10, <2>1, <2>3
  <2> QED BY <2>2, <2>3
<1> QED BY <1>3, <1>7, <1>9, <1>11, <1>12, <1>13, <1>14

(* What is in the graph is accepted, with all of its neighbours.           *)
LEMMA NeighborsStay ==
  ASSUME NEW graph, GraphTables(graph), NEW h, IsHyPas(h), InGraph(graph, h)
  PROVE /\ \A n \in Neighbors(graph, h) : IsHyPas(n) /\ InGraph(graph, n)
        /\ NeighborsPossible(graph, h) /\ NeighborsDiffer(graph, h)
<1>1. \A n \in Neighbors(graph, h) : IsHyPas(n) /\ InGraph(graph, n)
  BY OneAwayStays, CoupledStays, MicMacStays DEF Neighbors
<1>2. OneAways(graph, h) \cap PCoupledAway(graph, h) = {}
  <2> SUFFICES ASSUME NEW n \in OneAways(graph, h), n \in PCoupledAway(graph, h) PROVE FALSE
    OBVIOUS
  <2>1. PICK x \in Mats : \E p \in XChi(x) : \E v \in Int : n = With(h, x, p, v)
    BY OneAwayStays
  <2>2. PICK p \in XChi(x), v \in Int : n = With(h, x, p, v)
    BY <2>1
  <2>3. \A y \in Mats : \A q \in XChi(y) : <<y, q>> # <<x, p>> => n[y][q] = h[y][q]
    BY <2>2 DEF With, IsHyPas
  <2>4. PICK y, z \in Mats : \E q \in XChi(y), r \in XChi(z) :
          <<y, q>> # <<z, r>> /\ n[y][q] # h[y][q] /\ n[z][r] # h[z][r]
    BY CoupledStays
  <2> QED BY <2>3, <2>4
<1>3. OneAways(graph, h) \cap MicMacTransformed(graph, h) = {}
  <2> SUFFICES ASSUME NEW n \in OneAways(graph, h), n \in MicMacTransformed(graph, h) PROVE FALSE
    OBVIOUS
  <2>1. PICK x \in Mats : \E p \in XChi(x) : \E v \in Int : n = With(h, x, p, v)
    BY OneAwayStays
  <2>2. PICK p \in XChi(x), v \in Int : n = With(h, x, p, v)
    BY <2>1
  <2>3. \A y \in Mats : \A q \in XChi(y) : <<y, q>> # <<x, p>> => n[y][q] = h[y][q]
    BY <2>2 DEF With, IsHyPas
  <2>4. n["C"]["MAC"] # h["C"]["MAC"] /\ \E y \in Chiral : n[y]["MIC"] # h[y]["MIC"]
    BY MicMacStays
  <2>5. /\ "C" \in Mats /\ "MAC" \in XChi("C")
        /\ \A y \in Chiral : y \in Mats /\ "MIC" \in XChi(y) /\ y # "C"
    BY DEF Mats, XChi, NonChi, Chiral, Chi
  <2> QED BY <2>3, <2>4, <2>5
<1>4. PCoupledAway(graph, h) \cap MicMacTransformed(graph, h) = {}
  BY CoupledStays, MicMacStays
<1>5. NeighborsDiffer(graph, h)
  BY <1>2, <1>3, <1>4 DEF NeighborsDiffer
<1> QED BY <1>1, <1>5 DEF NeighborsPossible

---------------------------------------------------------------------------
(* Hyper-parameters and constraints.                                       *)

(* The matrices, and which parameters they have.                           *)
LEMMA MatsAre ==
  /\ Mats = {"A", "B", "C"} /\ Chiral = {"A", "B"} /\ Mats # {}
  /\ XChi("A") = Chi /\ XChi("B") = Chi /\ XChi("C") = NonChi
  /\ Neutral \subseteq NonChi
BY DEF Mats, Chiral, XChi, Neutral

(* What is read of a string are constraints: of a key that is there        *)
(* several times, there is a last.                                         *)
LEMMA ParsedAreConstraints ==
  ASSUME NEW frags, IsString(frags), Readable(frags)
  PROVE AreConstraints(Parsed(frags))
<1>1. frags \in Seq(Mats \X STRING \X Int)
  BY DEF IsString
<1>2. DOMAIN frags = 1 .. Len(frags) /\ Len(frags) \in Nat
      /\ \A i \in 1 .. Len(frags) : frags[i] \in Mats \X STRING \X Int
  BY <1>1
<1>3. ASSUME NEW x \in Mats, NEW p \in Keys(frags, x) PROVE Parsed(frags)[x][p] \in Int
  <2> DEFINE I == {i \in DOMAIN frags : frags[i][1] = x /\ frags[i][2] = p}
             T == {Len(frags) - i : i \in I}
             isLast(i) == frags[i][1] = x /\ frags[i][2] = p
                          /\ \A j \in DOMAIN frags : frags[j][1] = x /\ frags[j][2] = p => j <= i
  <2>1. \E n \in T : \A y \in T : n <= y
    <3>1. T \in SUBSET Nat
      BY <1>2
    <3>2. T # {}
      BY DEF Keys
    <3> HIDE DEF T
    <3> QED BY <3>1, <3>2, Smallest
  <2>2. PICK i \in I : \A j \in I : Len(frags) - i <= Len(frags) - j
    BY <2>1
  <2>3. \A j \in I : j <= i
    BY <1>2, <2>2
  <2>4. \E k \in DOMAIN frags : isLast(k)
    BY <2>3
  <2> DEFINE last == CHOOSE k \in DOMAIN frags : isLast(k)
  <2>5. last \in DOMAIN frags
    BY <2>4
  <2>6. Parsed(frags)[x][p] = frags[last][3]
    BY DEF Parsed
  <2> HIDE DEF last
  <2> QED BY <1>2, <2>5, <2>6
<1>4. ASSUME NEW x \in Mats
      PROVE DOMAIN Parsed(frags)[x] \subseteq XChi(x)
            /\ Parsed(frags)[x] \in [DOMAIN Parsed(frags)[x] -> Int]
  <2> DEFINE v(p) == frags[CHOOSE i \in DOMAIN frags :
                /\ frags[i][1] = x /\ frags[i][2] = p
                /\ \A j \in DOMAIN frags : frags[j][1] = x /\ frags[j][2] = p => j <= i][3]
  <2>1. Parsed(frags)[x] = [p \in Keys(frags, x) |-> v(p)]
    BY DEF Parsed
  <2>2. \A p \in Keys(frags, x) : v(p) \in Int
    BY <1>3, <2>1
  <2>3. Keys(frags, x) \subseteq XChi(x)
    BY DEF Readable
  <2> HIDE DEF v
  <2> QED BY <2>1, <2>2, <2>3
<1> QED BY <1>4 DEF AreConstraints, Parsed

(* What is in the graph of constraints honours them.                       *)
LEMMA InGraphHonours ==
  ASSUME NEW g, NEW device, NEW cons, AreConstraints(cons.range),
         NEW h, InGraph(Graph(g, device, cons), h)
  PROVE Honours(h, cons.range)
<1> DEFINE graph == Graph(g, device, cons)
<1>1. \A x \in Mats : \A p \in DOMAIN cons.range[x] :
        p \in XChi(x) /\ RangeOf(graph, x, p) = {cons.range[x][p]}
  BY GraphHasTables
<1> HIDE DEF graph
<1>2. \A x \in Mats : \A p \in XChi(x) : h[x][p] \in RangeOf(graph, x, p)
  BY DEF InGraph, graph
<1> QED BY <1>1, <1>2 DEF Honours

(* So does the generic solution, once it is constrained.                   *)
LEMMA GenericHonours ==
  ASSUME NEW g, NEW c, AreConstraints(c)
  PROVE /\ IsHyPas(ReplaceWhereDefined(Generic(g), c))
        /\ Honours(ReplaceWhereDefined(Generic(g), c), c)
<1> DEFINE h == Generic(g)
           n == ReplaceWhereDefined(h, c)
<1>1. \A x \in Mats : \A p \in XChi(x) : h[x][p] \in Int
  <2>1. \A mic, pad, liw, miw \in Int : \A p \in Chi : GenericChi(mic, pad, liw, miw)[p] \in Int
    BY DEF GenericChi, Chi
  <2>2. \A unr, gal, pun, iwi, szt, naw, mac, afi, mia \in Int : \A p \in NonChi :
          GenericC(unr, gal, pun, iwi, szt, naw, mac, afi, mia)[p] \in Int
    BY DEF GenericC, NonChi
  <2>3. CASE g.m >= 1000 /\ g.n >= 1000
    <3>1. h = [A |-> GenericChi(5, 2, 1, 1), B |-> GenericChi(4, 2, 0, 1),
               C |-> GenericC(16, 1, 0, 0, 0, 64, 256, 1, 1)]
      BY <2>3 DEF Generic
    <3>2. /\ \A p \in Chi : GenericChi(5, 2, 1, 1)[p] \in Int /\ GenericChi(4, 2, 0, 1)[p] \in Int
          /\ \A p \in NonChi : GenericC(16, 1, 0, 0, 0, 64, 256, 1, 1)[p] \in Int
      BY <2>1, <2>2
    <3> HIDE DEF h
    <3> QED BY <3>1, <3>2, MatsAre
  <2>4. CASE ~(g.m >= 1000 /\ g.n >= 1000) /\ g.m >= 100 /\ g.n >= 100
    <3>1. h = [A |-> GenericChi(1, 0, 0, 1), B |-> GenericChi(2, 1, 1, 0),
               C |-> GenericC(64, 3, 1, 1, 0, 16, 64, 1, 1)]
      BY <2>4 DEF Generic
    <3>2. /\ \A p \in Chi : GenericChi(1, 0, 0, 1)[p] \in Int /\ GenericChi(2, 1, 1, 0)[p] \in Int
          /\ \A p \in NonChi : GenericC(64, 3, 1, 1, 0, 16, 64, 1, 1)[p] \in Int
      BY <2>1, <2>2
    <3> HIDE DEF h
    <3> QED BY <3>1, <3>2, MatsAre
  <2>5. CASE ~(g.m >= 1000 /\ g.n >= 1000) /\ ~(g.m >= 100 /\ g.n >= 100)
    <3>1. h = [A |-> GenericChi(1, 2, 1, 1), B |-> GenericChi(1, 2, 1, 1),
               C |-> GenericC(4, 1, 0, 0, 1, 64, 1, 0, 0)]
      BY <2>5 DEF Generic
    <3>2. /\ \A p \in Chi : GenericChi(1, 2, 1, 1)[p] \in Int /\ GenericChi(1, 2, 1, 1)[p] \in Int
          /\ \A p \in NonChi : GenericC(4, 1, 0, 0, 1, 64, 1, 0, 0)[p] \in Int
      BY <2>1, <2>2
    <3> HIDE DEF h
    <3> QED BY <3>1, <3>2, MatsAre
  <2> QED BY <2>3, <2>4, <2>5
<1> HIDE DEF h
<1>2. \A x \in Mats : DOMAIN c[x] \subseteq XChi(x) /\ \A p \in DOMAIN c[x] : c[x][p] \in Int
  BY DEF AreConstraints
<1>3. n = [x \in Mats |-> [p \in XChi(x) |-> IF p \in DOMAIN c[x] THEN c[x][p] ELSE h[x][p]]]
  BY DEF ReplaceWhereDefined, Defined
<1> HIDE DEF n
<1>4. IsHyPas(n)
  BY <1>1, <1>2, <1>3 DEF IsHyPas
<1>5. Honours(n, c)
  BY <1>2, <1>3 DEF Honours
<1> QED BY <1>4, <1>5 DEF n, h

(* A random start is in the graph.                                         *)
LEMMA StartsInGraph ==
  ASSUME NEW graph, GraphTables(graph), NEW device, GraphPossible(graph, device),
         NEW h \in RandomStarts(graph)
  PROVE IsHyPas(h) /\ InGraph(graph, h)
<1>1. DOMAIN h = Mats /\ h["A"] \in StartChi(graph, "A") /\ h["B"] \in StartChi(graph, "B")
      /\ h["C"] \in StartC(graph)
  BY DEF RandomStarts, Mats
<1>2. ASSUME NEW x \in Mats, NEW f \in StartChi(graph, x)
      PROVE DOMAIN f = Chi /\ \A p \in Chi : f[p] \in graph[x][p].start
  BY DEF StartChi, Chi
<1>3. ASSUME NEW f \in StartC(graph)
      PROVE DOMAIN f = NonChi /\ \A p \in NonChi : f[p] \in graph["C"][p].start
  BY DEF StartC, NonChi
<1>4. \A x \in Mats : /\ DOMAIN h[x] = XChi(x)
                      /\ \A p \in XChi(x) : h[x][p] \in graph[x][p].start
  BY <1>1, <1>2, <1>3, MatsAre
<1>5. \A x \in Mats : \A p \in XChi(x) : h[x][p] \in RangeOf(graph, x, p)
  BY <1>4 DEF GraphPossible
<1>6. \A x \in Mats : \A p \in XChi(x) : RangeOf(graph, x, p) \subseteq Int
  BY DEF GraphTables, ClosedTable, RangeOf
<1>7. \A x \in Mats : h[x] = [p \in XChi(x) |-> h[x][p]]
  <2>1. h["A"] = [p \in Chi |-> h["A"][p]]
    BY <1>1 DEF StartChi, Chi
  <2>2. h["B"] = [p \in Chi |-> h["B"][p]]
    BY <1>1 DEF StartChi, Chi
  <2>3. h["C"] = [p \in NonChi |-> h["C"][p]]
    BY <1>1 DEF StartC, NonChi
  <2> QED BY <2>1, <2>2, <2>3, MatsAre
<1>8. \A x \in Mats : h[x] \in [XChi(x) -> Int]
  BY <1>5, <1>6, <1>7
<1> QED BY <1>1, <1>5, <1>8 DEF InGraph, IsHyPas

(* A reflection exchanges A and B, and leaves the neutral numbers of C.     *)
LEMMA ReflectionKeeps ==
  ASSUME NEW h, IsHyPas(h), NEW swap \in BOOLEAN
  PROVE /\ IsHyPas(Reflected(h, swap))
        /\ \A p \in Neutral : Reflected(h, swap)["C"][p] = h["C"][p]
        /\ ~swap => Reflected(h, swap) = h
<1>1. h["A"] \in [Chi -> Int] /\ h["B"] \in [Chi -> Int] /\ h["C"] \in [NonChi -> Int]
  BY MatsAre DEF IsHyPas
<1>2. ReflectC(h["C"]) \in [NonChi -> Int] /\ \A p \in Neutral : ReflectC(h["C"])[p] = h["C"][p]
  <2> DEFINE c == h["C"]
             skew == ReflectedSkew(c["MAC"], c["SKW"])
  <2>1. c \in [NonChi -> Int] /\ "SKW" \in NonChi /\ "MAC" \in NonChi
    BY <1>1 DEF NonChi
  <2>2. skew \in Int
    BY <2>1 DEF ReflectedSkew, Skew0
  <2>3. ReflectC(c) = [p \in NonChi |->
          CASE p = "SKW" /\ Defined(c, "MAC") -> skew
            [] p = "GAL" /\ c[p] \in {1, 2} -> 1 + 2 - c[p]
            [] p \in {"AFI", "MIA"} /\ c[p] \in {0, 1} -> 1 - c[p]
            [] OTHER -> c[p]]
    BY <2>1 DEF ReflectC, BYROW, BYCOL, NO, YES
  <2> HIDE DEF c, skew
  <2>4. \A p \in NonChi : ReflectC(c)[p] \in Int
    BY <2>1, <2>2, <2>3
  <2>5. \A p \in Neutral : ReflectC(c)[p] = c[p]
    BY <2>1, <2>3 DEF Neutral
  <2>6. ReflectC(c) \in [NonChi -> Int]
    <3>1. ReflectC(c) = [p \in NonChi |-> ReflectC(c)[p]]
      BY <2>3
    <3> QED BY <2>4, <3>1
  <2> QED BY <2>5, <2>6 DEF c
<1>3. CASE swap
  <2> DEFINE n == Reflected(h, swap)
  <2>1. n = [A |-> h["B"], B |-> h["A"], C |-> ReflectC(h["C"])]
    BY <1>3 DEF Reflected
  <2>2. DOMAIN n = Mats /\ n["A"] = h["B"] /\ n["B"] = h["A"] /\ n["C"] = ReflectC(h["C"])
    BY <2>1 DEF Mats
  <2> HIDE DEF n
  <2>3. IsHyPas(n)
    BY <1>1, <1>2, <2>2, MatsAre DEF IsHyPas
  <2> QED BY <1>2, <1>3, <2>2, <2>3 DEF n
<1>4. CASE ~swap
  BY <1>4 DEF Reflected
<1> QED BY <1>3, <1>4

---------------------------------------------------------------------------
(* Caches.                                                                 *)

(* There are no keys in an empty cache.                                    *)
LEMMA NothingIsCache == IsCache(<<>>)
<1>1. DOMAIN <<>> = {}
  OBVIOUS
<1>2. <<>> = [kk \in DOMAIN <<>> |-> <<>>[kk]]
  OBVIOUS
<1>3. IsFiniteSet(DOMAIN <<>>)
  BY <1>1, FS_EmptySet
<1> QED BY <1>1, <1>2, <1>3 DEF IsCache

(* With a reduced workspace a key is a key, of the same canonical geometry. *)
LEMMA ReducedKeyIsKey ==
  ASSUME NEW kc, NEW kk, IsKey(kk)
  PROVE IsKey(ReducedKey(kc, kk))
<1> DEFINE r == ReducedKey(kc, kk)
           w == RequiredWorkspace(kc[kk], kk.gg)
           g == kk.gg
           h == [g EXCEPT !.ws = w]
<1>1. g = [cm |-> g.cm, t |-> g.t, ld |-> g.ld, m |-> g.m, n |-> g.n, k |-> g.k, ws |-> g.ws, ft |-> g.ft]
  BY DEF IsKey, IsGeometry
<1>2. r = [kk EXCEPT !.gg = h]
  BY DEF ReducedKey
<1> HIDE DEF r, w, g
<1>3. h = [cm |-> g.cm, t |-> g.t, ld |-> g.ld, m |-> g.m, n |-> g.n, k |-> g.k, ws |-> w, ft |-> g.ft]
  BY <1>1
<1>4. h.cm = g.cm /\ h.t = g.t /\ h.ld = g.ld /\ h.m = g.m /\ h.n = g.n /\ h.k = g.k /\ h.ws = w /\ h.ft = g.ft
  BY <1>3
<1> HIDE DEF h
<1>5. IsGeometry(h)
  BY <1>3, <1>4 DEF IsKey, IsGeometry, g
<1>6. Redirected(h) = Redirected(g)
  BY <1>4 DEF Redirected
<1>7. ~IsNotCanonical(h)
  BY <1>6 DEF IsKey, IsNotCanonical, g
<1>8. r = [dvc |-> kk.dvc, con |-> kk.con, gg |-> h]
  <2>1. kk = [dvc |-> kk.dvc, con |-> kk.con, gg |-> kk.gg]
    BY DEF IsKey
  <2> QED BY <1>2, <2>1
<1>9. r.dvc = kk.dvc /\ r.con = kk.con /\ r.gg = h
  BY <1>8
<1> QED BY <1>5, <1>7, <1>8, <1>9 DEF IsKey, r

(* A cache of which the workspaces are reduced is a cache.                 *)
LEMMA ReducedIsCache ==
  ASSUME NEW kc, IsCache(kc)
  PROVE IsCache(Reduced(kc))
<1> DEFINE old(kk) == CHOOSE k \in DOMAIN kc : ReducedKey(kc, k) = kk
           D == {ReducedKey(kc, k) : k \in DOMAIN kc}
           f == [k \in DOMAIN kc |-> ReducedKey(kc, k)]
<1>1. Reduced(kc) = [kk \in D |-> kc[old(kk)]]
  BY DEF Reduced
<1>2. \A kk \in D : old(kk) \in DOMAIN kc
  OBVIOUS
<1>3. \A kk \in D : IsKey(kk)
  BY ReducedKeyIsKey DEF IsCache
<1>4. IsFiniteSet(D)
  <2>1. f \in Surjection(DOMAIN kc, D)
    BY DEF Surjection
  <2>2. IsFiniteSet(DOMAIN kc)
    BY DEF IsCache
  <2> HIDE DEF f, D
  <2> QED BY <2>1, <2>2, FS_Surjection
<1> HIDE DEF old, D
<1>5. \A kk \in D : IsHyPas(kc[old(kk)])
  BY <1>2 DEF IsCache
<1>6. DOMAIN Reduced(kc) = D /\ Reduced(kc) = [kk \in D |-> Reduced(kc)[kk]]
      /\ \A kk \in D : Reduced(kc)[kk] = kc[old(kk)]
  BY <1>1
<1> QED BY <1>3, <1>4, <1>5, <1>6 DEF IsCache

(* A key more.                                                             *)
LEMMA AddedIsCache ==
  ASSUME NEW kc, IsCache(kc), NEW k, IsKey(k), NEW h, IsHyPas(h), k \notin DOMAIN kc
  PROVE /\ IsCache(Added(kc, k, h)) /\ DOMAIN Added(kc, k, h) = DOMAIN kc \cup {k}
        /\ Added(kc, k, h)[k] = h
        /\ \A l \in DOMAIN kc : Added(kc, k, h)[l] = kc[l]
<1> DEFINE n == Added(kc, k, h)
<1>1. n = [l \in DOMAIN kc \cup {k} |-> IF l \in DOMAIN kc THEN kc[l] ELSE h]
  BY DEF Added, Present
<1> HIDE DEF n
<1>2. DOMAIN n = DOMAIN kc \cup {k} /\ n[k] = h /\ \A l \in DOMAIN kc : n[l] = kc[l]
  BY <1>1
<1>3. n = [l \in DOMAIN n |-> n[l]]
  BY <1>1
<1>4. IsFiniteSet(DOMAIN n)
  BY <1>2, FS_AddElement DEF IsCache
<1>5. IsCache(n)
  BY <1>2, <1>3, <1>4 DEF IsCache
<1> QED BY <1>2, <1>5 DEF n

---------------------------------------------------------------------------
(* The merge.                                                              *)

(* Two solutions for a key, of which one is taken that can be derived if   *)
(* any can, are what Kept asks for.                                        *)
LEMMA CommonHad ==
  ASSUME NEW k \in Common
  PROVE Had(k) = {kc1[k], kc2[k]}
BY DEF Common, Had, Present

(* Both caches are as they were read, and nothing is merged.               *)
LEMMA MergeInitially == MergeInit /\ at = "reduce" => Merging /\ FairDuel
<1> SUFFICES ASSUME MergeInit, at = "reduce" PROVE Merging /\ FairDuel
  OBVIOUS
<1>1. IsCache(kc1) /\ IsCache(kc2) /\ IsCache(cache)
  BY CachesAssumption, NothingIsCache DEF MergeInit
<1>2. DOMAIN both = {"d", "f"}
  BY DEF MergeInit
<1>3. Merging
  BY <1>1, <1>2 DEF Merging
<1>4. duel = [key |-> <<>>, first |-> <<0, 0>>, wins |-> <<0, 0>>]
  BY DEF MergeInit, NoDuel
<1>5. duel.key = <<>> /\ duel.first[1] = 0 /\ duel.first[2] = 0 /\ duel.wins[1] = 0 /\ duel.wins[2] = 0
  BY <1>4
<1>6. FairDuel
  BY <1>4, <1>5 DEF FairDuel, Turns
<1> QED BY <1>3, <1>6

(* No duel is fair.                                                        *)
LEMMA NoDuelIsFair == duel' = NoDuel /\ at' # "duel" => FairDuel'
<1> SUFFICES ASSUME duel' = NoDuel, at' # "duel" PROVE FairDuel'
  OBVIOUS
<1>1. duel' = [key |-> <<>>, first |-> <<0, 0>>, wins |-> <<0, 0>>]
  BY DEF NoDuel
<1>2. duel'.key = <<>> /\ duel'.first[1] = 0 /\ duel'.first[2] = 0 /\ duel'.wins[1] = 0 /\ duel'.wins[2] = 0
  BY <1>1
<1> QED BY <1>1, <1>2 DEF FairDuel, Turns

(* A duel of which nothing changes stays fair.                             *)
LEMMA FairDuelStays ==
  ASSUME FairDuel, UNCHANGED duel, at' # "duel"
  PROVE FairDuel'
BY DEF FairDuel, Turns

(* With reduced workspaces the second cache is a cache.                    *)
LEMMA ReduceKeeps ==
  ASSUME Merging, FairDuel, ReduceWorkspaces
  PROVE Merging' /\ FairDuel'
<1>1. IsCache(kc2')
  BY ReducedIsCache DEF Merging, ReduceWorkspaces
<1>2. at' \in {"collect", "thrown"} /\ UNCHANGED <<kc1, cache, both, duel>>
  BY DEF ReduceWorkspaces
<1>3. FairDuel'
  BY <1>2, FairDuelStays
<1>4. Merging'
  BY <1>1, <1>2 DEF Merging
<1> QED BY <1>3, <1>4

(* What only one of them has is taken from it, the rest is still to        *)
(* decide.                                                                 *)
LEMMA CollectKeeps ==
  ASSUME Merging, FairDuel, Collect
  PROVE Merging' /\ FairDuel'
<1>1. at' = "populate doubles" /\ UNCHANGED <<kc1, kc2, duel>>
  BY DEF Collect
<1>2. FairDuel'
  BY <1>1, FairDuelStays
<1> DEFINE D == SymDiff(DOMAIN kc1, DOMAIN kc2)
           v(k) == IF Present(kc1, k) THEN kc1[k] ELSE kc2[k]
<1>3. cache' = [k \in D |-> v(k)]
  BY DEF Collect
<1>4. D = (DOMAIN kc1 \cup DOMAIN kc2) \ Common
  BY DEF SymDiff, Common
<1>5. both' = [ft \in {"d", "f"} |-> {k \in Common : k.gg.ft = ft}]
  BY DEF Collect
<1>6. \A k \in Common : k.gg.ft \in {"d", "f"}
  BY DEF Common, Merging, IsCache, IsKey, IsGeometry
<1>7. DOMAIN cache' = (DOMAIN kc1 \cup DOMAIN kc2) \ (both'["d"] \cup both'["f"])
  <2>1. both'["d"] \cup both'["f"] = Common
    BY <1>5, <1>6
  <2> QED BY <1>3, <1>4, <2>1
<1>8. ASSUME NEW k \in D PROVE IsKey(k) /\ IsHyPas(v(k)) /\ Had(k) = {v(k)}
  <2>1. CASE k \in DOMAIN kc1
    <3>1. k \notin DOMAIN kc2
      BY <1>4, <1>8, <2>1 DEF Common
    <3>2. v(k) = kc1[k]
      BY <2>1 DEF Present
    <3>3. IsKey(k) /\ IsHyPas(kc1[k])
      BY <2>1 DEF Merging, IsCache
    <3>4. {c \in {kc1, kc2} : Present(c, k)} = {kc1}
      BY <2>1, <3>1 DEF Present
    <3>5. Had(k) = {kc1[k]}
      BY <3>4 DEF Had
    <3> HIDE DEF v
    <3> QED BY <3>2, <3>3, <3>5
  <2>2. CASE k \notin DOMAIN kc1
    <3>1. k \in DOMAIN kc2
      BY <1>4, <1>8, <2>2
    <3>2. v(k) = kc2[k]
      BY <2>2 DEF Present
    <3>3. IsKey(k) /\ IsHyPas(kc2[k])
      BY <3>1 DEF Merging, IsCache
    <3>4. {c \in {kc1, kc2} : Present(c, k)} = {kc2}
      BY <2>2, <3>1 DEF Present
    <3>5. Had(k) = {kc2[k]}
      BY <3>4 DEF Had
    <3> HIDE DEF v
    <3> QED BY <3>2, <3>3, <3>5
  <2> QED BY <2>1, <2>2
<1>9. IsCache(cache')
  <2>1. IsFiniteSet(D)
    <3>1. IsFiniteSet(DOMAIN kc1 \cup DOMAIN kc2)
      BY FS_Union DEF Merging, IsCache
    <3> QED BY <1>4, <3>1, FS_Subset
  <2> HIDE DEF D, v
  <2> QED BY <1>3, <1>8, <2>1 DEF IsCache
<1>10. Kept'
  <2>1. \A k : Had(k)' = Had(k)
    BY <1>1 DEF Had, Present
  <2> HIDE DEF D, v
  <2>2. ASSUME NEW k \in DOMAIN cache' PROVE Had(k) = {cache'[k]}
    BY <1>3, <1>8
  <2> QED BY <2>1, <2>2 DEF Kept
<1>11. Common' = Common
  BY <1>1 DEF Common
<1>12. Merging'
  BY <1>1, <1>5, <1>7, <1>9, <1>10, <1>11 DEF Merging
<1> QED BY <1>2, <1>12

(* The doubles are left as they are.                                       *)
LEMMA PopulateDoublesKeeps ==
  ASSUME Merging, FairDuel, PopulateDoubles
  PROVE Merging' /\ FairDuel'
<1>1. at = "populate doubles" /\ at' \in {"thrown", "populate floats"} /\ UNCHANGED mergeVars
  BY DEF PopulateDoubles
<1>2. FairDuel'
  BY <1>1, FairDuelStays DEF mergeVars
<1>3. (\A k : Had(k)' = Had(k)) /\ Common' = Common
  BY <1>1 DEF Had, Present, Common, mergeVars
<1>4. Kept' = Kept
  BY <1>1, <1>3 DEF Kept, mergeVars
<1>5. Merging'
  BY <1>1, <1>3, <1>4 DEF Merging, mergeVars
<1> QED BY <1>2, <1>5

(* A key that both have is decided for one of the two solutions, for one   *)
(* that can be derived if any can.                                         *)
LEMMA DecisionKeeps ==
  ASSUME Merging, at \in {"populate floats", "duel"}, at' = "populate floats",
         NEW k \in both["f"], NEW h \in {kc1[k], kc2[k]},
         Derivable(kc1[k], k.gg) \/ Derivable(kc2[k], k.gg) => Derivable(h, k.gg),
         cache' = Added(cache, k, h), both' = [both EXCEPT !["f"] = @ \ {k}],
         UNCHANGED <<kc1, kc2>>
  PROVE Merging'
<1>1. k \in Common /\ k.gg.ft = "f" /\ k \notin DOMAIN cache
  BY DEF Merging
<1>2. IsKey(k) /\ IsHyPas(kc1[k]) /\ IsHyPas(kc2[k])
  BY <1>1 DEF Merging, IsCache, Common
<1>3. IsHyPas(h)
  BY <1>2
<1>4. /\ IsCache(cache') /\ DOMAIN cache' = DOMAIN cache \cup {k}
      /\ cache'[k] = h /\ \A l \in DOMAIN cache : cache'[l] = cache[l]
  <2>1. IsCache(cache)
    BY DEF Merging
  <2>2. /\ IsCache(Added(cache, k, h)) /\ DOMAIN Added(cache, k, h) = DOMAIN cache \cup {k}
        /\ Added(cache, k, h)[k] = h
        /\ \A l \in DOMAIN cache : Added(cache, k, h)[l] = cache[l]
    <3>1. IsCache(cache) /\ IsKey(k) /\ IsHyPas(h) /\ k \notin DOMAIN cache
      BY <1>1, <1>2, <1>3, <2>1
    <3>2. IsCache(Added(cache, k, h))
      BY <3>1, AddedIsCache
    <3>3. DOMAIN Added(cache, k, h) = DOMAIN cache \cup {k}
      BY <3>1, AddedIsCache
    <3>4. Added(cache, k, h)[k] = h
      BY <3>1 DEF Added, Present
    <3>5. \A l \in DOMAIN cache : Added(cache, k, h)[l] = cache[l]
      BY DEF Added, Present
    <3> QED BY <3>2, <3>3, <3>4, <3>5
  <2>3. cache' = Added(cache, k, h)
    OBVIOUS
  <2> QED BY <2>2, <2>3
<1>5. (\A l : Had(l)' = Had(l)) /\ Common' = Common
  BY DEF Had, Present, Common
<1>6. Had(k) = {kc1[k], kc2[k]}
  BY <1>1, CommonHad
<1>7. Kept'
  <2>1. h \in Had(k) /\ ((\E o \in Had(k) : Derivable(o, k.gg)) => Derivable(h, k.gg))
    BY <1>6
  <2>2. Kept
    BY DEF Merging
  <2>3. ASSUME NEW l \in DOMAIN cache'
        PROVE /\ cache'[l] \in Had(l)
              /\ (\E o \in Had(l) : Derivable(o, l.gg)) => Derivable(cache'[l], l.gg)
    <3>1. CASE l = k
      BY <1>4, <2>1, <3>1
    <3>2. CASE l \in DOMAIN cache
      BY <1>4, <2>2, <3>2 DEF Kept
    <3> QED BY <1>4, <3>1, <3>2
  <2> QED BY <1>5, <2>3 DEF Kept
<1>8. /\ DOMAIN both' = {"d", "f"} /\ both'["d"] = both["d"] /\ both'["f"] = both["f"] \ {k}
  BY DEF Merging
<1>9. DOMAIN cache' = (DOMAIN kc1 \cup DOMAIN kc2) \ (both'["d"] \cup both'["f"])
  <2>1. k \in DOMAIN kc1 /\ k \notin both["d"]
    BY <1>1 DEF Common, Merging
  <2>2. DOMAIN cache = (DOMAIN kc1 \cup DOMAIN kc2) \ (both["d"] \cup both["f"])
    BY DEF Merging
  <2> QED BY <1>4, <1>8, <2>1, <2>2
<1> QED BY <1>4, <1>5, <1>7, <1>8, <1>9 DEF Merging

(* Where the two caches agree, there is nothing to decide.                 *)
LEMMA AgreeKeeps ==
  ASSUME Merging, FairDuel, Agree
  PROVE Merging' /\ FairDuel'
<1>1. PICK k \in both["f"] : /\ kc1[k] = kc2[k] /\ cache' = Added(cache, k, kc1[k])
                             /\ both' = [both EXCEPT !["f"] = @ \ {k}]
  BY DEF Agree
<1>2. at = "populate floats" /\ UNCHANGED <<at, kc1, kc2, duel>>
  BY DEF Agree
<1>3. Merging'
  BY <1>1, <1>2, DecisionKeeps
<1> QED BY <1>2, <1>3, FairDuelStays

(* Nobody has won before the first turn.                                   *)
LEMMA BeginDuelKeeps ==
  ASSUME Merging, FairDuel, BeginDuel
  PROVE Merging' /\ FairDuel'
<1>1. PICK k \in both["f"] : duel' = [NoDuel EXCEPT !.key = k]
  BY DEF BeginDuel
<1>2. at = "populate floats" /\ at' = "duel" /\ UNCHANGED <<kc1, kc2, cache, both>>
  BY DEF BeginDuel
<1>3. (\A l : Had(l)' = Had(l)) /\ Common' = Common
  BY <1>2 DEF Had, Present, Common
<1>4. Kept' = Kept
  BY <1>2, <1>3 DEF Kept
<1>5. Merging'
  BY <1>2, <1>3, <1>4 DEF Merging
<1>6. duel' = [key |-> k, first |-> <<0, 0>>, wins |-> <<0, 0>>]
  BY <1>1 DEF NoDuel
<1>7. duel'.key = k /\ duel'.first[1] = 0 /\ duel'.first[2] = 0 /\ duel'.wins[1] = 0 /\ duel'.wins[2] = 0
  BY <1>6
<1>8. Turns' = 0
  BY <1>7 DEF Turns
<1>9. duel' = [key |-> duel'.key, first |-> <<duel'.first[1], duel'.first[2]>>,
               wins |-> <<duel'.wins[1], duel'.wins[2]>>]
  BY <1>6, <1>7
<1>10. duel'.key \in both'["f"]
  BY <1>2, <1>7
<1>11. FairDuel'
  BY <1>7, <1>8, <1>9, <1>10 DEF FairDuel
<1> QED BY <1>5, <1>11

(* After every other turn both have gone first as often; one that cannot   *)
(* be derived does not win a turn from one that can.                       *)
LEMMA RoundKeeps ==
  ASSUME Merging, FairDuel, Round
  PROVE Merging' /\ FairDuel'
<1> DEFINE f == duel.first
           w == duel.wins
           d1 == Derivable(kc1[duel.key], duel.key.gg)
           d2 == Derivable(kc2[duel.key], duel.key.gg)
<1>1. PICK won \in Outcomes(duel.key) :
        duel' = [duel EXCEPT !.first = IF ThueMorse[Turns] THEN <<@[1] + 1, @[2]>>
                                                           ELSE <<@[1], @[2] + 1>>,
                             !.wins = <<@[1] + won[1], @[2] + won[2]>>]
  BY DEF Round
<1>2. at = "duel" /\ UNCHANGED <<at, kc1, kc2, cache, both>>
  BY DEF Round
<1>3. (\A l : Had(l)' = Had(l)) /\ Common' = Common
  BY <1>2 DEF Had, Present, Common
<1>4. Kept' = Kept
  BY <1>2, <1>3 DEF Kept
<1>5. Merging'
  BY <1>2, <1>3, <1>4 DEF Merging
<1>6. /\ won[1] \in {0, 1} /\ won[2] \in {0, 1} /\ won[1] + won[2] <= 1
      /\ (d1 /\ ~d2 => won[1] = 1 /\ won[2] = 0) /\ (~d1 /\ d2 => won[1] = 0)
  BY DEF Outcomes
<1>7. /\ f[1] \in Nat /\ f[2] \in Nat /\ w[1] \in Nat /\ w[2] \in Nat /\ w[1] + w[2] <= Turns
      /\ Turns = f[1] + f[2]
  BY DEF FairDuel, Turns
<1>8. duel = [key |-> duel.key, first |-> <<f[1], f[2]>>, wins |-> <<w[1], w[2]>>]
  BY DEF FairDuel
<1>9. duel' = [key |-> duel.key,
               first |-> IF ThueMorse[Turns] THEN <<f[1] + 1, f[2]>> ELSE <<f[1], f[2] + 1>>,
               wins |-> <<w[1] + won[1], w[2] + won[2]>>]
  BY <1>1, <1>8
<1>10. /\ duel'.key = duel.key
       /\ duel'.first = (IF ThueMorse[Turns] THEN <<f[1] + 1, f[2]>> ELSE <<f[1], f[2] + 1>>)
       /\ duel'.wins = <<w[1] + won[1], w[2] + won[2]>>
  BY <1>9
<1>11. /\ duel'.first[1] = (IF ThueMorse[Turns] THEN f[1] + 1 ELSE f[1])
       /\ duel'.first[2] = (IF ThueMorse[Turns] THEN f[2] ELSE f[2] + 1)
       /\ duel'.wins[1] = w[1] + won[1] /\ duel'.wins[2] = w[2] + won[2]
  BY <1>10
<1>12. f[1] - f[2] = (IF Turns % 2 = 0 THEN 0 ELSE IF ThueMorse[Turns - 1] THEN 1 ELSE -1)
  BY DEF FairDuel
<1>13. d1 /\ ~d2 => w[1] = Turns /\ w[2] = 0
  BY <1>2 DEF FairDuel
<1>14. ~d1 /\ d2 => w[1] = 0
  BY <1>2 DEF FairDuel
<1>15. duel.key \in both["f"]
  BY <1>2 DEF FairDuel
<1>16. Derivable(kc1[duel.key], duel.key.gg)' = d1 /\ Derivable(kc2[duel.key], duel.key.gg)' = d2
  BY <1>2, <1>10
<1> HIDE DEF f, w, d1, d2
<1>17. Turns' = Turns + 1 /\ Turns \in Nat
  <2>1. Turns' = duel'.first[1] + duel'.first[2]
    BY DEF Turns
  <2> QED BY <1>7, <1>11, <2>1
<1>18. duel'.first[1] - duel'.first[2] =
         (IF Turns' % 2 = 0 THEN 0 ELSE IF ThueMorse[Turns' - 1] THEN 1 ELSE -1)
  <2> DEFINE T == Turns
  <2>1. Turns' - 1 = T /\ T \in Nat
    BY <1>17
  <2>2. T % 2 # 0 => T - 1 \in Nat /\ ThueMorse[T] = ~ThueMorse[T - 1]
    BY <2>1, TurnsTaken
  <2>3. ThueMorse[T] \in BOOLEAN
    BY <2>1, ThueMorseIs
  <2>4. Turns' % 2 = 0 <=> T % 2 # 0
    BY <1>17
  <2>5. duel'.first[1] - duel'.first[2] = f[1] - f[2] + (IF ThueMorse[T] THEN 1 ELSE -1)
    BY <1>7, <1>11
  <2>6. f[1] - f[2] = (IF T % 2 = 0 THEN 0 ELSE IF ThueMorse[T - 1] THEN 1 ELSE -1)
    BY <1>12
  <2> HIDE DEF T
  <2>7. CASE T % 2 = 0
    BY <1>7, <2>1, <2>4, <2>5, <2>6, <2>7
  <2>8. CASE T % 2 # 0 /\ ThueMorse[T]
    <3>1. ~ThueMorse[T - 1]
      BY <2>2, <2>8, Zenon
    <3>2. f[1] - f[2] = -1
      BY <2>6, <2>8, <3>1
    <3> QED BY <1>7, <2>4, <2>5, <2>8, <3>2
  <2>9. CASE T % 2 # 0 /\ ~ThueMorse[T]
    <3>1. ThueMorse[T - 1]
      BY <2>2, <2>9
    <3>2. f[1] - f[2] = 1
      BY <2>6, <2>9, <3>1
    <3> QED BY <1>7, <2>4, <2>5, <2>9, <3>2
  <2> QED BY <2>7, <2>8, <2>9
<1>19. duel' = [key |-> duel'.key, first |-> <<duel'.first[1], duel'.first[2]>>,
                wins |-> <<duel'.wins[1], duel'.wins[2]>>]
  <2>1. duel'.first = <<duel'.first[1], duel'.first[2]>>
    BY <1>10
  <2>2. duel'.wins = <<duel'.wins[1], duel'.wins[2]>>
    BY <1>10
  <2>3. duel' = [key |-> duel'.key, first |-> duel'.first, wins |-> duel'.wins]
    BY <1>9
  <2> QED BY <2>1, <2>2, <2>3
<1>20. {duel'.first[1], duel'.first[2], duel'.wins[1], duel'.wins[2]} \subseteq Nat
  BY <1>6, <1>7, <1>11
<1>21. duel'.wins[1] + duel'.wins[2] <= Turns'
  BY <1>6, <1>7, <1>11, <1>17
<1>22. d1 /\ ~d2 => duel'.wins[1] = Turns' /\ duel'.wins[2] = 0
  BY <1>6, <1>11, <1>13, <1>17
<1>23. ~d1 /\ d2 => duel'.wins[1] = 0
  BY <1>6, <1>11, <1>14
<1>24. FairDuel'
  <2>1. duel'.key \in both'["f"]
    BY <1>2, <1>10, <1>15
  <2> QED BY <1>16, <1>18, <1>19, <1>20, <1>21, <1>22, <1>23, <2>1 DEF FairDuel
<1> QED BY <1>5, <1>24

(* The duel ends for a solution that can be derived, if there is one.      *)
LEMMA EndDuelKeeps ==
  ASSUME Merging, FairDuel, EndDuel
  PROVE Merging' /\ FairDuel'
<1> DEFINE k == duel.key
           h == IF duel.wins[1] > duel.wins[2] THEN kc1[k] ELSE kc2[k]
           d1 == Derivable(kc1[k], k.gg)
           d2 == Derivable(kc2[k], k.gg)
<1>1. at = "duel" /\ (Turns = Rounds \/ Decided) /\ Award(h)
  BY DEF EndDuel
<1>2. k \in both["f"] /\ (d1 /\ ~d2 => duel.wins[1] = Turns /\ duel.wins[2] = 0)
      /\ (~d1 /\ d2 => duel.wins[1] = 0)
  BY <1>1 DEF FairDuel
<1>3. duel.wins[1] \in Nat /\ duel.wins[2] \in Nat /\ Turns \in Nat
  BY DEF FairDuel, Turns
<1>4. both' = [both EXCEPT !["f"] = @ \ {k}] /\ duel' = NoDuel /\ UNCHANGED <<kc1, kc2>>
  BY <1>1 DEF Award
<1>5. at' # "duel"
  BY <1>1 DEF Award
<1>6. FairDuel'
  BY <1>4, <1>5, NoDuelIsFair
<1>7. k \in Common /\ k \notin DOMAIN cache /\ IsKey(k)
  BY <1>1, <1>2 DEF Merging, IsCache, Common
<1>8. Addable(cache, k)
  BY <1>7 DEF Addable, Present, IsKey
<1>9. at' = "populate floats" /\ cache' = Added(cache, k, h)
  BY <1>1, <1>8 DEF Award
<1>10. h \in {kc1[k], kc2[k]}
  OBVIOUS
<1>11. d1 \/ d2 => Derivable(h, k.gg)
  <2>1. CASE d1 /\ d2
    BY <2>1
  <2>2. CASE d1 /\ ~d2
    <3>1. Turns > 0
      <4>1. CASE Turns = Rounds
        BY <4>1, RoundsAssumption
      <4>2. CASE Decided
        <5>1. duel.wins[1] > duel.wins[2] + Lead \/ duel.wins[2] > duel.wins[1] + Lead
          BY <4>2 DEF Decided
        <5> QED BY <1>2, <1>3, <2>2, <5>1, RoundsAssumption
      <4> QED BY <1>1, <4>1, <4>2
    <3>2. duel.wins[1] > duel.wins[2]
      BY <1>2, <1>3, <2>2, <3>1
    <3> QED BY <2>2, <3>2
  <2>3. CASE ~d1 /\ d2
    <3>1. ~(duel.wins[1] > duel.wins[2])
      BY <1>2, <1>3, <2>3
    <3> QED BY <2>3, <3>1
  <2> QED BY <2>1, <2>2, <2>3
<1> HIDE DEF h, k
<1>12. Merging'
  BY <1>1, <1>2, <1>4, <1>9, <1>10, <1>11, DecisionKeeps
<1> QED BY <1>6, <1>12

(* A duel that the device ends leaves everything as it was.                *)
LEMMA DuelThrowsKeeps ==
  ASSUME Merging, FairDuel, DuelThrows
  PROVE Merging' /\ FairDuel'
<1>1. at' = "thrown" /\ UNCHANGED mergeVars
  BY DEF DuelThrows
<1>2. FairDuel'
  BY <1>1, FairDuelStays DEF mergeVars
<1>3. Merging'
  BY <1>1 DEF Merging, mergeVars
<1> QED BY <1>2, <1>3

(* The merge ends when all is decided.                                     *)
LEMMA EndMergeKeeps ==
  ASSUME Merging, FairDuel, EndMerge
  PROVE Merging' /\ FairDuel'
<1>1. at = "populate floats" /\ both["f"] = {} /\ at' = "merged" /\ UNCHANGED mergeVars
  BY DEF EndMerge
<1>2. FairDuel'
  BY <1>1, FairDuelStays DEF mergeVars
<1>3. (\A k : Had(k)' = Had(k)) /\ Common' = Common
  BY <1>1 DEF Had, Present, Common, mergeVars
<1>4. Kept' = Kept
  BY <1>1, <1>3 DEF Kept, mergeVars
<1>5. Merging'
  BY <1>1, <1>3, <1>4 DEF Merging, mergeVars
<1> QED BY <1>2, <1>5

(* Every step of the merge: the first cache stays.                         *)
LEMMA MergeStays ==
  ASSUME Merging, FairDuel, MergeNext
  PROVE /\ Merging' /\ FairDuel' /\ kc1' = kc1
        /\ at \in BeforeRequest /\ at' \in BeforeRequest \cup {"thrown"}
<1>1. CASE ReduceWorkspaces
  BY <1>1, ReduceKeeps DEF ReduceWorkspaces, BeforeRequest
<1>2. CASE Collect
  BY <1>2, CollectKeeps DEF Collect, BeforeRequest
<1>3. CASE PopulateDoubles
  BY <1>3, PopulateDoublesKeeps DEF PopulateDoubles, mergeVars, BeforeRequest
<1>4. CASE Agree
  BY <1>4, AgreeKeeps DEF Agree, BeforeRequest
<1>5. CASE BeginDuel
  BY <1>5, BeginDuelKeeps DEF BeginDuel, BeforeRequest
<1>6. CASE Round
  BY <1>6, RoundKeeps DEF Round, BeforeRequest
<1>7. CASE EndDuel
  BY <1>7, EndDuelKeeps DEF EndDuel, Award, BeforeRequest
<1>8. CASE EndMerge
  BY <1>8, EndMergeKeeps DEF EndMerge, mergeVars, BeforeRequest
<1>9. CASE DuelThrows
  BY <1>9, DuelThrowsKeeps DEF DuelThrows, mergeVars, BeforeRequest
<1> QED BY <1>1, <1>2, <1>3, <1>4, <1>5, <1>6, <1>7, <1>8, <1>9 DEF MergeNext

---------------------------------------------------------------------------
(* The invariant.                                                          *)

(* Keys and hyper-parameters are records, and not nothing.                 *)
LEMMA NotNothing ==
  /\ \A k : IsKey(k) => k # <<>>
  /\ \A h : IsHyPas(h) => h # <<>>
<1>1. DOMAIN <<>> = {}
  OBVIOUS
<1>2. ASSUME NEW k, IsKey(k) PROVE k # <<>>
  <2>1. k = [dvc |-> k.dvc, con |-> k.con, gg |-> k.gg]
    BY <1>2 DEF IsKey
  <2>2. DOMAIN k = {"dvc", "con", "gg"}
    BY <2>1
  <2> QED BY <1>1, <2>2
<1>3. ASSUME NEW h, IsHyPas(h) PROVE h # <<>>
  BY <1>1, <1>3, MatsAre DEF IsHyPas
<1> QED BY <1>2, <1>3

(* Three numbers that are one from 0 at most.                              *)
LEMMA AtMostOneApart == \A i \in {-1, 0, 1} : Abs(i) <= 1
<1>1. \A i \in Int : i <= 1 /\ -1 <= i => Abs(i) <= 1
  BY DEF Abs
<1> QED BY <1>1

(* What the merge and the answer keep is of the right types.               *)
LEMMA TypesNext ==
  ASSUME Merging', FairDuel', at' \in Places, why' \in Places \cup {""}, steps' \in 0 .. MaxSteps,
         kc1' \in Caches \cup {<<>>}, hp' = <<>> \/ IsHyPas(hp')
  PROVE TypeOK'
<1>1. DOMAIN both' = {"d", "f"}
  BY DEF Merging
<1>2. \A k \in DOMAIN cache' : ~IsNotCanonical(k.gg) /\ IsHyPas(cache'[k])
  BY DEF Merging, IsCache, IsKey
<1>3. duel'.wins[1] + duel'.wins[2] <= Turns'
  BY DEF FairDuel
<1>4. Abs(duel'.first[1] - duel'.first[2]) <= 1
  <2>1. duel'.first[1] - duel'.first[2] \in {-1, 0, 1}
    BY DEF FairDuel
  <2> QED BY <2>1, AtMostOneApart
<1> QED BY <1>1, <1>2, <1>3, <1>4 DEF TypeOK

(* A merge says nothing of requests.                                       *)
LEMMA MergeKeeps ==
  ASSUME IInv, Merge
  PROVE IInv'
<1>1. MergeNext /\ why' = (IF at' = "thrown" THEN at ELSE why) /\ UNCHANGED <<req, key, hp, steps>>
  BY DEF Merge
<1>2. Merging /\ FairDuel /\ TypeOK /\ Answering
  BY DEF IInv
<1>3. /\ Merging' /\ FairDuel' /\ kc1' = kc1
      /\ at \in BeforeRequest /\ at' \in BeforeRequest \cup {"thrown"}
  BY <1>1, <1>2, MergeStays
<1>4. hp = <<>> /\ key = <<>> /\ why = ""
  BY <1>2, <1>3 DEF Answering, BeforeAnswer, BeforeRequest
<1>5. hp' = <<>> /\ key' = <<>> /\ why' # "solved" /\ (at' # "thrown" => why' = "")
      /\ why' \in Places \cup {""} /\ at' \in Places
  BY <1>1, <1>3, <1>4 DEF BeforeRequest, Places
<1>6. TypeOK'
  <2>1. steps' \in 0 .. MaxSteps /\ kc1' \in Caches \cup {<<>>}
    BY <1>1, <1>2, <1>3 DEF TypeOK
  <2> QED BY <1>3, <1>5, <2>1, TypesNext
<1>7. ConstraintsHonoured' /\ SearchAccepted'
  BY <1>5 DEF ConstraintsHonoured, SearchAccepted
<1>8. Answering'
  BY <1>3, <1>5 DEF Answering, BeforeAnswer, BeforeRequest
<1> QED BY <1>3, <1>6, <1>7, <1>8 DEF IInv

(* All else leaves the merged cache alone.                                 *)
LEMMA MergedStays ==
  ASSUME Merging, FairDuel, UNCHANGED mergeVars, at' \notin BeforeRequest
  PROVE Merging' /\ FairDuel'
<1>1. UNCHANGED <<kc1, kc2, cache, both, duel>>
  BY DEF mergeVars
<1>2. Merging'
  BY <1>1 DEF Merging, BeforeRequest
<1>3. at' # "duel"
  BY DEF BeforeRequest
<1> QED BY <1>1, <1>2, <1>3, FairDuelStays

(* What is made of a request stays with it.                                *)
LEMMA SameRequest ==
  ASSUME UNCHANGED req
  PROVE /\ Cons' = Cons /\ Device' = Device /\ ReqGraph' = ReqGraph /\ ReqKey' = ReqKey
        /\ Swap' = Swap
BY DEF Cons, Device, ReqGraph, ReqKey, Swap

(* The graph of a request that was read has its constraints.               *)
LEMMA RequestIsRead ==
  ASSUME req \in Requests, Readable(req.range)
  PROVE /\ GraphTables(ReqGraph) /\ Swap \in BOOLEAN /\ req.rank \in Nat
        /\ req.enoc \in {"GENERIC", "RANDOM"}
        /\ AreConstraints(Cons.range)
        /\ \A h : InGraph(ReqGraph, h) => Honours(h, Cons.range)
        /\ \A h : Honours(h, Cons.range) =>
             \A p \in Neutral \cap DOMAIN Cons.range["C"] : h["C"][p] = Cons.range["C"][p]
<1>1. IsString(req.range) /\ req.rank \in Nat /\ req.enoc \in {"GENERIC", "RANDOM"}
  BY RequestsAssumption
<1>2. AreConstraints(Cons.range)
  BY <1>1, ParsedAreConstraints DEF Cons
<1>3. GraphTables(ReqGraph)
  BY <1>2, GraphHasTables DEF ReqGraph
<1>4. \A h : InGraph(ReqGraph, h) => Honours(h, Cons.range)
  BY <1>2, InGraphHonours DEF ReqGraph
<1>5. Swap \in BOOLEAN
  BY DEF Swap, IsNotCanonical
<1>6. \A h : Honours(h, Cons.range) =>
             \A p \in Neutral \cap DOMAIN Cons.range["C"] : h["C"][p] = Cons.range["C"][p]
  BY MatsAre DEF Honours
<1> QED BY <1>1, <1>2, <1>3, <1>4, <1>5, <1>6

(* A step that chooses nothing and goes to where less is asked for.        *)
LEMMA ThrowKeeps ==
  ASSUME IInv, Throw, at \notin BeforeRequest \cup {"thrown"}, UNCHANGED <<mergeVars, req, key, hp, steps>>,
         at = "solved" => Swap /\ key # <<>>
  PROVE IInv'
<1>1. Merging /\ FairDuel /\ TypeOK /\ Answering /\ ConstraintsHonoured
  BY DEF IInv
<1>2. at' = "thrown" /\ why' = at
  BY DEF Throw
<1>3. Merging' /\ FairDuel'
  BY <1>1, <1>2, MergedStays DEF BeforeRequest
<1>4. UNCHANGED <<req, key, hp, steps, kc1>>
  BY DEF mergeVars
<1>5. TypeOK'
  <2>1. at' \in Places /\ why' \in Places \cup {""} /\ steps' \in 0 .. MaxSteps
        /\ kc1' \in Caches \cup {<<>>} /\ (hp' = <<>> \/ IsHyPas(hp'))
    BY <1>1, <1>2, <1>4 DEF TypeOK, Places
  <2> QED BY <1>3, <2>1, TypesNext
<1>6. Swap' = Swap /\ Cons' = Cons
  BY <1>4, SameRequest
<1>7. ConstraintsHonoured'
  BY <1>1, <1>4, <1>6 DEF ConstraintsHonoured
<1>8. SearchAccepted'
  BY <1>2, <1>4, <1>6 DEF SearchAccepted
<1>9. Answering'
  <2>1. req \in Requests /\ Readable(req.range) /\ Readable(req.start)
    BY <1>1 DEF Answering
  <2>2. hp # <<>> => IsHyPas(hp)
    BY <1>1 DEF Answering
  <2> QED BY <1>2, <1>4, <2>1, <2>2 DEF Answering, BeforeAnswer, BeforeRequest
<1> QED BY <1>3, <1>5, <1>7, <1>8, <1>9 DEF IInv

(* A step that goes on without choosing, to a place before the answer.     *)
LEMMA GotoKeeps ==
  ASSUME IInv, NEW place \in {"within", "get", "generic", "random", "solved"}, Goto(place),
         at \in {"request", "within", "bundle"}, UNCHANGED <<mergeVars, req, key, hp, steps>>,
         at = "bundle" <=> place = "solved",
         GraphPossible(ReqGraph, Device),
         place = "get" => IsWithin(ReqKey, ReqGraph, cache, TenthOfMax, req.rank),
         place = "generic" => req.enoc = "GENERIC"
  PROVE IInv'
<1>1. Merging /\ FairDuel /\ TypeOK /\ Answering /\ ConstraintsHonoured
  BY DEF IInv
<1>2. at' = place /\ why' = why /\ why = ""
  BY <1>1 DEF Goto, Answering
<1>3. Merging' /\ FairDuel'
  BY <1>1, <1>2, MergedStays DEF BeforeRequest
<1>4. UNCHANGED <<req, key, hp, steps, kc1, cache>>
  BY DEF mergeVars
<1>5. TypeOK'
  <2>1. at' \in Places /\ why' \in Places \cup {""} /\ steps' \in 0 .. MaxSteps
        /\ kc1' \in Caches \cup {<<>>} /\ (hp' = <<>> \/ IsHyPas(hp'))
    BY <1>1, <1>2, <1>4 DEF TypeOK, Places
  <2> QED BY <1>3, <2>1, TypesNext
<1>6. Swap' = Swap /\ Cons' = Cons /\ ReqGraph' = ReqGraph /\ ReqKey' = ReqKey /\ Device' = Device
  BY <1>4, SameRequest
<1>7. ConstraintsHonoured'
  BY <1>1, <1>4, <1>6 DEF ConstraintsHonoured
<1>8. SearchAccepted'
  BY <1>2 DEF SearchAccepted
<1>9. Answering'
  <2>1. req \in Requests /\ Readable(req.range) /\ Readable(req.start)
    BY <1>1 DEF Answering, BeforeRequest
  <2>2. CASE at = "bundle"
    BY <1>1, <1>2, <1>4, <1>6, <2>1, <2>2 DEF Answering, BeforeAnswer, BeforeRequest
  <2>3. CASE at # "bundle"
    <3>1. hp = <<>> /\ key = <<>>
      BY <1>1, <2>3 DEF Answering, BeforeAnswer, BeforeRequest
    <3> QED BY <1>2, <1>4, <1>6, <2>1, <2>3, <3>1 DEF Answering
  <2> QED BY <2>2, <2>3
<1> QED BY <1>3, <1>5, <1>7, <1>8, <1>9 DEF IInv

(* A step that chooses hyper-parameters.                                   *)
LEMMA ChoiceKeeps ==
  ASSUME IInv, NEW place \in {"bundle", "solved"}, Goto(place),
         at \in {"get", "generic", "random", "solved"}, UNCHANGED <<mergeVars, req>>,
         place = "solved" <=> at = "solved", steps' \in 0 .. MaxSteps,
         IsHyPas(hp'),
         \A p \in Neutral \cap DOMAIN Cons.range["C"] : hp'["C"][p] = Cons.range["C"][p],
         ~Swap \/ key' = <<>> => Honours(hp', Cons.range),
         req.enoc = "RANDOM" /\ (~Swap \/ key' = <<>>) => InGraph(ReqGraph, hp'),
         at # "get" => key' = key,
         at = "get" => key' \in Nearest(ReqKey, ReqGraph, cache, req.rank)
  PROVE IInv'
<1>1. Merging /\ FairDuel /\ TypeOK /\ Answering
  BY DEF IInv
<1>2. at' = place /\ why' = why /\ why = ""
  BY <1>1 DEF Goto, Answering
<1>3. Merging' /\ FairDuel'
  BY <1>1, <1>2, MergedStays DEF BeforeRequest
<1>4. UNCHANGED <<req, kc1, cache>>
  BY DEF mergeVars
<1>5. TypeOK'
  <2>1. at' \in Places /\ why' \in Places \cup {""} /\ kc1' \in Caches \cup {<<>>}
    BY <1>1, <1>2, <1>4 DEF TypeOK, Places
  <2> QED BY <1>3, <2>1, TypesNext
<1>6. Swap' = Swap /\ Cons' = Cons /\ ReqGraph' = ReqGraph /\ ReqKey' = ReqKey /\ Device' = Device
  BY <1>4, SameRequest
<1>7. ConstraintsHonoured'
  BY <1>6 DEF ConstraintsHonoured
<1>8. SearchAccepted'
  BY <1>2 DEF SearchAccepted
<1>9. Answering'
  <2>1. req \in Requests /\ Readable(req.range) /\ Readable(req.start) /\ GraphPossible(ReqGraph, Device)
    BY <1>1 DEF Answering, BeforeRequest
  <2>2. hp' # <<>>
    BY NotNothing
  <2>3. CASE at = "get"
    <3>1. IsWithin(ReqKey, ReqGraph, cache, TenthOfMax, req.rank)
      BY <1>1, <2>3 DEF Answering
    <3> QED BY <1>2, <1>4, <1>6, <2>1, <2>2, <2>3, <3>1 DEF Answering, BeforeAnswer, BeforeRequest
  <2>4. CASE at \in {"generic", "random"}
    <3>1. key' = <<>>
      BY <1>1, <2>4 DEF Answering, BeforeAnswer
    <3> QED BY <1>2, <1>4, <1>6, <2>1, <2>2, <2>4, <3>1 DEF Answering, BeforeAnswer, BeforeRequest
  <2>5. CASE at = "solved"
    BY <1>2, <1>4, <1>6, <2>1, <2>2, <2>5 DEF Answering, BeforeAnswer, BeforeRequest
  <2> QED BY <2>3, <2>4, <2>5
<1> QED BY <1>3, <1>5, <1>7, <1>8, <1>9 DEF IInv

(* A request is read, or refused.                                          *)
LEMMA MakeConstraintsKeeps ==
  ASSUME IInv, MakeConstraints
  PROVE IInv'
<1>1. Merging /\ FairDuel /\ TypeOK /\ Answering
  BY DEF IInv
<1>2. /\ at = "merged" /\ req' \in Requests /\ kc1' = <<>> /\ kc2' = <<>>
      /\ UNCHANGED <<cache, both, duel, key, hp, steps>>
      /\ \/ at' = "request" /\ why' = why /\ Readable(req'.range) /\ Readable(req'.start)
         \/ at' = "thrown" /\ why' = at
  BY DEF MakeConstraints, Goto, Throw
<1>3. hp' = <<>> /\ key' = <<>> /\ why = ""
  BY <1>1, <1>2 DEF Answering, BeforeAnswer, BeforeRequest
<1>4. Merging'
  BY <1>1, <1>2, NothingIsCache DEF Merging
<1>5. FairDuel'
  BY <1>1, <1>2, FairDuelStays
<1>6. TypeOK'
  <2>1. at' \in Places /\ why' \in Places \cup {""} /\ steps' \in 0 .. MaxSteps
        /\ kc1' \in Caches \cup {<<>>}
    BY <1>1, <1>2, <1>3 DEF TypeOK, Places
  <2> QED BY <1>3, <1>4, <1>5, <2>1, TypesNext
<1>7. ConstraintsHonoured' /\ SearchAccepted'
  BY <1>2, <1>3 DEF ConstraintsHonoured, SearchAccepted
<1>8. Answering'
  BY <1>2, <1>3 DEF Answering, BeforeAnswer, BeforeRequest
<1> QED BY <1>4, <1>5, <1>6, <1>7, <1>8 DEF IInv

(* Behind the first steps the graph is one that the constructor passed.    *)
LEMMA LookKeeps ==
  ASSUME IInv, MakeKeyAndGraph \/ LookWithin
  PROVE IInv'
<1>1. CASE MakeKeyAndGraph
  <2>1. at = "request" /\ UNCHANGED <<mergeVars, req, key, hp, steps>>
        /\ (Throw \/ (GraphPossible(ReqGraph, Device) /\ Goto("within")))
    BY <1>1 DEF MakeKeyAndGraph
  <2>2. CASE Throw
    BY <2>1, <2>2, ThrowKeeps DEF BeforeRequest
  <2>3. CASE GraphPossible(ReqGraph, Device) /\ Goto("within")
    BY <2>1, <2>3, GotoKeeps
  <2> QED BY <2>1, <2>2, <2>3
<1>2. CASE LookWithin
  <2>1. at = "within" /\ UNCHANGED <<mergeVars, req, key, hp, steps>>
        /\ \/ IsWithin(ReqKey, ReqGraph, cache, TenthOfMax, req.rank) /\ Goto("get")
           \/ req.enoc = "GENERIC" /\ Goto("generic")
           \/ Goto("random")
    BY <1>2 DEF LookWithin
  <2>2. GraphPossible(ReqGraph, Device)
    BY <2>1 DEF IInv, Answering, BeforeRequest
  <2>3. CASE IsWithin(ReqKey, ReqGraph, cache, TenthOfMax, req.rank) /\ Goto("get")
    BY <2>1, <2>2, <2>3, GotoKeeps
  <2>4. CASE req.enoc = "GENERIC" /\ Goto("generic")
    BY <2>1, <2>2, <2>4, GotoKeeps
  <2>5. CASE Goto("random")
    BY <2>1, <2>2, <2>5, GotoKeeps
  <2> QED BY <2>1, <2>3, <2>4, <2>5
<1> QED BY <1>1, <1>2

(* What is in the cache for a problem honours its constraints, and what a  *)
(* reflection makes of it those that a reflection leaves alone.            *)
LEMMA GetNearestKeeps ==
  ASSUME IInv, GetNearest
  PROVE IInv'
<1>1. at = "get" /\ Goto("bundle") /\ UNCHANGED <<mergeVars, req, steps>>
  BY DEF GetNearest
<1>2. PICK k \in Nearest(ReqKey, ReqGraph, cache, req.rank) : key' = k /\ hp' = Reflected(cache[k], Swap)
  BY DEF GetNearest
<1>3. Merging /\ TypeOK /\ Answering
  BY DEF IInv
<1>4. req \in Requests /\ Readable(req.range)
      /\ IsWithin(ReqKey, ReqGraph, cache, TenthOfMax, req.rank)
  BY <1>1, <1>3 DEF Answering, BeforeRequest
<1>5. k \in DOMAIN cache /\ InGraph(ReqGraph, cache[k])
  BY DEF Nearest, Candidates
<1>6. IsKey(k) /\ IsHyPas(cache[k])
  BY <1>3, <1>5 DEF Merging, IsCache
<1>7. k # <<>>
  BY <1>6, NotNothing
<1>8. /\ Swap \in BOOLEAN
      /\ Honours(cache[k], Cons.range)
      /\ \A p \in Neutral \cap DOMAIN Cons.range["C"] : cache[k]["C"][p] = Cons.range["C"][p]
  BY <1>4, <1>5, RequestIsRead
<1>9. /\ IsHyPas(hp') /\ \A p \in Neutral : hp'["C"][p] = cache[k]["C"][p]
      /\ ~Swap => hp' = cache[k]
  BY <1>2, <1>6, <1>8, ReflectionKeeps
<1>10. steps' \in 0 .. MaxSteps
  BY <1>1, <1>3 DEF TypeOK
<1>11. \A p \in Neutral \cap DOMAIN Cons.range["C"] : hp'["C"][p] = Cons.range["C"][p]
  BY <1>8, <1>9
<1>12. ~Swap \/ key' = <<>> => Honours(hp', Cons.range) /\ InGraph(ReqGraph, hp')
  BY <1>2, <1>5, <1>7, <1>8, <1>9
<1> QED BY <1>1, <1>2, <1>9, <1>10, <1>11, <1>12, ChoiceKeeps

(* The generic solution is made to honour the constraints.                 *)
LEMMA GetGenericKeeps ==
  ASSUME IInv, GetGeneric
  PROVE IInv'
<1>1. at = "generic" /\ UNCHANGED <<mergeVars, req, key, steps>>
      /\ \/ hp' = ConstrainedGeneric /\ Goto("bundle")
         \/ Throw /\ UNCHANGED hp
  BY DEF GetGeneric
<1>2. CASE Throw /\ UNCHANGED hp
  BY <1>1, <1>2, ThrowKeeps DEF BeforeRequest
<1>3. CASE hp' = ConstrainedGeneric /\ Goto("bundle")
  <2>1. TypeOK /\ Answering
    BY DEF IInv
  <2>2. req \in Requests /\ Readable(req.range)
    BY <1>1, <2>1 DEF Answering, BeforeRequest
  <2>3. IsHyPas(hp') /\ Honours(hp', Cons.range)
    BY <1>3, <2>2, RequestIsRead, GenericHonours DEF ConstrainedGeneric
  <2>4. \A p \in Neutral \cap DOMAIN Cons.range["C"] : hp'["C"][p] = Cons.range["C"][p]
    BY <2>2, <2>3, RequestIsRead
  <2>5. steps' \in 0 .. MaxSteps
    BY <1>1, <2>1 DEF TypeOK
  <2>6. req.enoc # "RANDOM"
    BY <1>1, <2>1 DEF Answering
  <2> QED BY <1>1, <1>3, <2>3, <2>4, <2>5, <2>6, ChoiceKeeps
<1> QED BY <1>1, <1>2, <1>3

(* A random start is in the graph, and so are all neighbours of what is.   *)
LEMMA StartKeeps ==
  ASSUME IInv, GetRandomValidStart \/ GiveUp
  PROVE IInv'
<1>1. TypeOK /\ Answering
  BY DEF IInv
<1>2. CASE GiveUp
  BY <1>2, ThrowKeeps DEF GiveUp, BeforeRequest
<1>3. CASE GetRandomValidStart
  <2>1. at = "random" /\ Goto("bundle") /\ UNCHANGED <<mergeVars, req, key, steps>>
        /\ hp' \in RandomStarts(ReqGraph)
    BY <1>3 DEF GetRandomValidStart
  <2>2. req \in Requests /\ Readable(req.range) /\ GraphPossible(ReqGraph, Device)
    BY <1>1, <2>1 DEF Answering, BeforeRequest
  <2>3. IsHyPas(hp') /\ InGraph(ReqGraph, hp')
    BY <2>1, <2>2, RequestIsRead, StartsInGraph
  <2>4. /\ Honours(hp', Cons.range)
        /\ \A p \in Neutral \cap DOMAIN Cons.range["C"] : hp'["C"][p] = Cons.range["C"][p]
    BY <2>2, <2>3, RequestIsRead
  <2>5. steps' \in 0 .. MaxSteps
    BY <1>1, <2>1 DEF TypeOK
  <2> QED BY <2>1, <2>3, <2>4, <2>5, ChoiceKeeps
<1> QED BY <1>2, <1>3

(* A bundle is made of what was chosen, or is refused.                     *)
LEMMA MakeBundleKeeps ==
  ASSUME IInv, MakeBundle
  PROVE IInv'
<1>1. at = "bundle" /\ UNCHANGED <<mergeVars, req, key, hp, steps>> /\ (Goto("solved") \/ Throw)
  BY DEF MakeBundle
<1>2. GraphPossible(ReqGraph, Device)
  BY <1>1 DEF IInv, Answering, BeforeRequest
<1>3. CASE Goto("solved")
  BY <1>1, <1>2, <1>3, GotoKeeps
<1>4. CASE Throw
  BY <1>1, <1>4, ThrowKeeps DEF BeforeRequest
<1> QED BY <1>1, <1>3, <1>4

(* A search is thrown out of only where it had begun outside the graph.    *)
LEMMA StepKeeps ==
  ASSUME IInv, Step
  PROVE IInv'
<1>1. at = "solved" /\ req.enoc = "RANDOM" /\ steps < MaxSteps /\ UNCHANGED <<mergeVars, req, key>>
  BY DEF Step
<1>2. TypeOK /\ Answering
  BY DEF IInv
<1>3. req \in Requests /\ Readable(req.range) /\ IsHyPas(hp)
  BY <1>1, <1>2 DEF Answering, BeforeRequest
<1>4. GraphTables(ReqGraph)
  BY <1>3, RequestIsRead
<1>5. InGraph(ReqGraph, hp) => NeighborsAccepted
  BY <1>3, <1>4, NeighborsStay DEF NeighborsAccepted
<1>6. CASE NeighborsAccepted
  <2>1. hp' \in Neighbors(ReqGraph, hp) /\ steps' = steps + 1 /\ Goto("solved")
    BY <1>6 DEF Step, Wave
  <2>2. InGraph(ReqGraph, hp)
    BY <1>6 DEF NeighborsAccepted, NeighborsPossible
  <2>3. IsHyPas(hp') /\ InGraph(ReqGraph, hp')
    BY <1>3, <1>4, <2>1, <2>2, NeighborsStay
  <2>4. /\ Honours(hp', Cons.range)
        /\ \A p \in Neutral \cap DOMAIN Cons.range["C"] : hp'["C"][p] = Cons.range["C"][p]
    BY <1>3, <2>3, RequestIsRead
  <2>5. steps' \in 0 .. MaxSteps
    <3>1. MaxSteps \in Nat
      BY RequestsAssumption
    <3>2. steps \in 0 .. MaxSteps
      BY <1>2 DEF TypeOK
    <3> QED BY <1>1, <2>1, <3>1, <3>2
  <2> QED BY <1>1, <2>1, <2>3, <2>4, <2>5, ChoiceKeeps
<1>7. CASE ~NeighborsAccepted
  <2>1. Throw /\ UNCHANGED <<hp, steps>>
    BY <1>7 DEF Step
  <2>2. Swap /\ key # <<>>
    BY <1>1, <1>2, <1>5, <1>7 DEF Answering
  <2> QED BY <1>1, <2>1, <2>2, ThrowKeeps DEF BeforeRequest
<1> QED BY <1>6, <1>7

(* Before the merge nothing has been asked for.                            *)
LEMMA Initially == Init => IInv
<1> SUFFICES ASSUME Init PROVE IInv
  OBVIOUS
<1>1. at = "reduce" /\ MergeInit /\ key = <<>> /\ hp = <<>> /\ steps = 0 /\ why = ""
  BY DEF Init
<1>2. Merging /\ FairDuel
  BY <1>1, MergeInitially
<1>3. TypeOK
  <2>1. duel = [key |-> <<>>, first |-> <<0, 0>>, wins |-> <<0, 0>>]
    BY <1>1 DEF MergeInit, NoDuel
  <2>2. duel.first[1] = 0 /\ duel.first[2] = 0 /\ duel.wins[1] = 0 /\ duel.wins[2] = 0
    BY <2>1
  <2>3. Abs(duel.first[1] - duel.first[2]) <= 1
    BY <2>2, AtMostOneApart
  <2>4. \A k \in DOMAIN cache : ~IsNotCanonical(k.gg) /\ IsHyPas(cache[k])
    BY <1>2 DEF Merging, IsCache, IsKey
  <2>5. DOMAIN both = {"d", "f"}
    BY <1>2 DEF Merging
  <2>6. duel.wins[1] + duel.wins[2] <= Turns
    BY <1>2 DEF FairDuel
  <2>7. at \in Places /\ why \in Places \cup {""} /\ kc1 \in Caches \cup {<<>>}
    BY <1>1 DEF Places, MergeInit
  <2>8. steps \in 0 .. MaxSteps
    <3>1. MaxSteps \in Nat
      BY RequestsAssumption
    <3>2. 0 \in 0 .. MaxSteps
      BY <3>1
    <3>3. steps = 0
      BY <1>1
    <3> QED BY <3>2, <3>3, Zenon
  <2> QED BY <1>1, <2>3, <2>4, <2>5, <2>6, <2>7, <2>8 DEF TypeOK
<1>4. ConstraintsHonoured /\ SearchAccepted
  BY <1>1 DEF ConstraintsHonoured, SearchAccepted
<1>5. Answering
  BY <1>1 DEF Answering, BeforeAnswer, BeforeRequest
<1> QED BY <1>2, <1>3, <1>4, <1>5 DEF IInv

(* Whatever the caches, the requests and the rounds of a duel are, the     *)
(* conditions of IInv hold all along a merge, a lookup and a search.       *)
THEOREM Invariance == Spec => []IInv
<1>1. Init => IInv
  BY Initially
<1>2. IInv /\ [Next]_vars => IInv'
  <2> SUFFICES ASSUME IInv, [Next]_vars PROVE IInv'
    OBVIOUS
  <2>1. CASE Merge
    BY <2>1, MergeKeeps
  <2>2. CASE MakeConstraints
    BY <2>2, MakeConstraintsKeeps
  <2>3. CASE MakeKeyAndGraph \/ LookWithin
    BY <2>3, LookKeeps
  <2>4. CASE GetNearest
    BY <2>4, GetNearestKeeps
  <2>5. CASE GetGeneric
    BY <2>5, GetGenericKeeps
  <2>6. CASE GetRandomValidStart \/ GiveUp
    BY <2>6, StartKeeps
  <2>7. CASE MakeBundle
    BY <2>7, MakeBundleKeeps
  <2>8. CASE Step
    BY <2>8, StepKeeps
  <2>9. CASE UNCHANGED vars
    <3>1. UNCHANGED <<at, kc1, kc2, cache, both, duel, req, key, hp, steps, why>>
      BY <2>9 DEF vars, mergeVars
    <3>2. Cons' = Cons /\ Device' = Device /\ ReqGraph' = ReqGraph /\ ReqKey' = ReqKey
          /\ Swap' = Swap
      BY <3>1, SameRequest
    <3>3. (\A k : Had(k)' = Had(k)) /\ Common' = Common /\ Turns' = Turns
      BY <3>1 DEF Had, Present, Common, Turns
    <3>4. Kept' = Kept
      BY <3>1, <3>3 DEF Kept
    <3>5. TypeOK'
      BY <3>1, <3>3 DEF IInv, TypeOK
    <3>6. Merging' /\ FairDuel'
      BY <3>1, <3>3, <3>4 DEF IInv, Merging, FairDuel
    <3>7. Answering' /\ ConstraintsHonoured' /\ SearchAccepted'
      BY <3>1, <3>2 DEF IInv, Answering, ConstraintsHonoured, SearchAccepted
    <3> QED BY <3>5, <3>6, <3>7 DEF IInv
  <2> QED BY <2>1, <2>2, <2>3, <2>4, <2>5, <2>6, <2>7, <2>8, <2>9 DEF Next
<1> QED BY <1>1, <1>2, PTL DEF Spec

(* The types: a merged cache has canonical keys with whole solutions, and  *)
(* no solution goes first two turns more often than the other.             *)
THEOREM TypeCorrect == Spec => []TypeOK
<1>1. IInv => TypeOK
  BY DEF IInv
<1> QED BY <1>1, Invariance, PTL

(* What is chosen honours the constraints.                                 *)
THEOREM Honoured == Spec => []ConstraintsHonoured
<1>1. IInv => ConstraintsHonoured
  BY DEF IInv
<1> QED BY <1>1, Invariance, PTL

(* A search that begins in its graph is not thrown out of.                 *)
THEOREM Accepted == Spec => []SearchAccepted
<1>1. IInv => SearchAccepted
  BY DEF IInv
<1> QED BY <1>1, Invariance, PTL

(* A merge loses no key but the doubles of both, and keeps a solution that *)
(* can be derived where there is one.                                      *)
THEOREM MergedAsPromised == Spec => []MergedKeys
<1>1. IInv => MergedKeys
  BY DEF IInv, Merging, MergedKeys
<1> QED BY <1>1, Invariance, PTL

---------------------------------------------------------------------------
(* What is found for a problem that is itself in the cache.                *)

(* Sizes with the same logarithm are the same, and a workspace is no       *)
(* larger than one with no smaller a logarithm.                            *)
LEMMA LogsTell ==
  /\ \A x, y \in Sizes : {x, y} \subseteq Nat /\ Log2Of[x] = Log2Of[y] => x = y
  /\ \A w, v \in Workspaces : LogOf[w] <= LogOf[v] => w <= v
<1>1. ASSUME NEW x \in Sizes, NEW y \in Sizes, {x, y} \subseteq Nat, Log2Of[x] = Log2Of[y] PROVE x = y
  <2>1. x < y \/ y < x \/ x = y
    BY <1>1
  <2>2. (x < y => Log2Of[x] < Log2Of[y]) /\ (y < x => Log2Of[y] < Log2Of[x])
    BY LogsAssumption
  <2>3. 40 * Unit \in Int /\ Log2Of[x] \in 0 .. 40 * Unit
    BY LogsAssumption, UnitAssumption
  <2>4. ~(Log2Of[x] < Log2Of[x])
    BY <2>3
  <2> QED BY <1>1, <2>1, <2>2, <2>4
<1>2. ASSUME NEW w \in Workspaces, NEW v \in Workspaces, LogOf[w] <= LogOf[v] PROVE w <= v
  <2>1. w \in Nat /\ v \in Nat /\ LogOf[w] \in Nat /\ LogOf[v] \in Nat
    BY LogsAssumption
  <2>2. v < w => LogOf[v] < LogOf[w]
    BY LogsAssumption
  <2> QED BY <1>2, <2>1, <2>2
<1> QED BY <1>1, <1>2

(* The canonical form is a geometry, of the same numbers.                  *)
LEMMA CanonicalIsGeometry ==
  ASSUME NEW g, IsGeometry(g)
  PROVE /\ IsGeometry(Canonical(g)) /\ Canonical(g).ws = g.ws
        /\ SizesOf(Canonical(g)) \subseteq SizesOf(g)
<1> DEFINE M == {g.m, g.n}
           O == [ldx : {g.ld["A"], g.ld["B"]}, emat : Chiral]
           R == [cm : BOOLEAN, tA : BOOLEAN, tB : BOOLEAN, tC : BOOLEAN, m : M, n : M, a : O, b : O]
           r0 == [cm |-> g.cm, tA |-> g.t["A"], tB |-> g.t["B"], tC |-> g.t["C"],
                  m |-> g.m, n |-> g.n,
                  a |-> [ldx |-> g.ld["A"], emat |-> "A"],
                  b |-> [ldx |-> g.ld["B"], emat |-> "B"]]
<1>1. r0 \in R
  <2>1. g.t["A"] \in BOOLEAN /\ g.t["B"] \in BOOLEAN /\ g.t["C"] \in BOOLEAN /\ g.cm \in BOOLEAN
    BY DEF IsGeometry, Mats
  <2>2. [ldx |-> g.ld["A"], emat |-> "A"] \in O /\ [ldx |-> g.ld["B"], emat |-> "B"] \in O
    BY DEF Chiral
  <2>3. g.m \in M /\ g.n \in M
    OBVIOUS
  <2> HIDE DEF M, O
  <2> QED BY <2>1, <2>2, <2>3
<1> DEFINE r == Redirected(g)
<1>2. r = RedirectBase(r0)
  BY DEF Redirected
<1> HIDE DEF M, O, r0
<1>3. ASSUME NEW q \in R PROVE Exchanged(q) \in R
  BY DEF Exchanged
<1>4. ASSUME NEW q \in R PROVE ToColMajor(q) \in R
  BY <1>3 DEF ToColMajor
<1>5. ASSUME NEW q \in R PROVE UntransposeC(q) \in R
  BY <1>3 DEF UntransposeC
<1>6. r \in R
  BY <1>1, <1>2, <1>4, <1>5 DEF RedirectBase
<1> HIDE DEF r
<1>7. r.m \in {g.m, g.n} /\ r.n \in {g.m, g.n} /\ r.a.ldx \in {g.ld["A"], g.ld["B"]}
      /\ r.b.ldx \in {g.ld["A"], g.ld["B"]} /\ r.cm \in BOOLEAN
      /\ r.tA \in BOOLEAN /\ r.tB \in BOOLEAN /\ r.tC \in BOOLEAN
  BY <1>6 DEF M, O
<1> DEFINE h == Canonical(g)
           t == [A |-> r.tA, B |-> r.tB, C |-> r.tC]
           ld == [A |-> r.a.ldx, B |-> r.b.ldx, C |-> g.ld["C"]]
<1>8. g = [cm |-> g.cm, t |-> g.t, ld |-> g.ld, m |-> g.m, n |-> g.n, k |-> g.k, ws |-> g.ws, ft |-> g.ft]
  BY DEF IsGeometry
<1>9. h = [g EXCEPT !.cm = r.cm, !.t = t, !.ld = ld, !.m = r.m, !.n = r.n]
  BY DEF Canonical, r
<1> HIDE DEF h
<1>10. t \in [Mats -> BOOLEAN]
  BY <1>7 DEF Mats
<1>11. ld \in [Mats -> Nat]
  <2>1. g.ld["A"] \in Nat /\ g.ld["B"] \in Nat /\ g.ld["C"] \in Nat
    BY DEF IsGeometry, Mats
  <2> QED BY <1>7, <2>1 DEF Mats
<1>12. ld["A"] = r.a.ldx /\ ld["B"] = r.b.ldx /\ ld["C"] = g.ld["C"]
  OBVIOUS
<1> HIDE DEF t, ld
<1>13. h = [cm |-> r.cm, t |-> t, ld |-> ld, m |-> r.m, n |-> r.n, k |-> g.k, ws |-> g.ws, ft |-> g.ft]
  BY <1>8, <1>9
<1>14. h.cm = r.cm /\ h.t = t /\ h.ld = ld /\ h.m = r.m /\ h.n = r.n /\ h.k = g.k /\ h.ws = g.ws
       /\ h.ft = g.ft
  BY <1>13
<1>15. IsGeometry(h)
  <2>1. {g.m, g.n, g.k} \subseteq Nat /\ g.ft \in {"d", "f"}
    BY DEF IsGeometry
  <2> QED BY <1>7, <1>10, <1>11, <1>13, <1>14, <2>1 DEF IsGeometry
<1>16. SizesOf(h) \subseteq SizesOf(g)
  <2>1. {h.ld[x] : x \in Mats} \subseteq {g.ld[x] : x \in Mats}
    BY <1>7, <1>12, <1>14 DEF Mats
  <2>2. {h.m, h.n, h.k} \subseteq {g.m, g.n, g.k}
    BY <1>7, <1>14
  <2> QED BY <2>1, <2>2 DEF SizesOf
<1> QED BY <1>14, <1>15, <1>16 DEF h

(* A reduction changes no more of a geometry than its workspace.           *)
LEMMA ReducedIsKnown ==
  ASSUME NEW kc \in Caches, NEW k \in DOMAIN kc, IsKey(k), IsKnown(k.gg)
  PROVE IsKnown(ReducedKey(kc, k).gg)
<1> DEFINE g == k.gg
           w == RequiredWorkspace(kc[k], k.gg)
           h == [g EXCEPT !.ws = w]
<1>1. g = [cm |-> g.cm, t |-> g.t, ld |-> g.ld, m |-> g.m, n |-> g.n, k |-> g.k, ws |-> g.ws, ft |-> g.ft]
  BY DEF IsKey, IsGeometry
<1>2. k = [dvc |-> k.dvc, con |-> k.con, gg |-> g]
  BY DEF IsKey
<1>3. ReducedKey(kc, k) = [k EXCEPT !.gg = h]
  BY DEF ReducedKey
<1>4. w \in Workspaces
  BY DEF Workspaces
<1>5. IsKnown(g)
  OBVIOUS
<1> HIDE DEF g, w
<1>6. h.m = g.m /\ h.n = g.n /\ h.k = g.k /\ h.ld = g.ld /\ h.ws = w
  BY <1>1
<1> HIDE DEF h
<1>7. ReducedKey(kc, k).gg = h
  BY <1>2, <1>3
<1>8. SizesOf(h) = SizesOf(g)
  BY <1>6 DEF SizesOf
<1> QED BY <1>4, <1>5, <1>6, <1>7, <1>8 DEF IsKnown

(* Every key comes from one of the two caches.                             *)
LEMMA KnownStays ==
  ASSUME IInv, KnownKeys, Next
  PROVE KnownKeys'
<1>1. Merging
  BY DEF IInv
<1>2. CASE ReduceWorkspaces
  <2>1. at' # "reduce" /\ UNCHANGED <<kc1, cache>>
        /\ (kc2' = kc2 \/ (ReducePossible(kc2) /\ kc2' = Reduced(kc2)))
    BY <1>2 DEF ReduceWorkspaces
  <2>2. kc2 \in Caches
    BY <1>2 DEF KnownKeys, ReduceWorkspaces
  <2>3. CASE kc2' = kc2
    BY <2>1, <2>3 DEF KnownKeys
  <2>4. CASE kc2' = Reduced(kc2)
    <3>1. DOMAIN kc2' = {ReducedKey(kc2, k) : k \in DOMAIN kc2}
      BY <2>4 DEF Reduced
    <3>2. ASSUME NEW k \in DOMAIN kc2 PROVE IsKnown(ReducedKey(kc2, k).gg)
      <4>1. IsKey(k) /\ IsKnown(k.gg)
        BY <1>1, <3>2 DEF Merging, IsCache, KnownKeys
      <4> QED BY <2>2, <4>1, ReducedIsKnown
    <3> QED BY <2>1, <3>1, <3>2 DEF KnownKeys
  <2> QED BY <2>1, <2>3, <2>4
<1>3. CASE MergeNext /\ ~ReduceWorkspaces
  <2>1. UNCHANGED <<kc1, kc2>> /\ at' # "reduce"
    BY <1>3 DEF MergeNext, Collect, PopulateDoubles, Agree, BeginDuel, Round, DuelThrows, EndDuel, Award,
                EndMerge, mergeVars
  <2>2. UNCHANGED cache \/ at' \in {"populate doubles", "populate floats", "duel", "merged"}
    BY <1>3 DEF MergeNext, Collect, PopulateDoubles, Agree, BeginDuel, Round, DuelThrows, EndDuel, Award,
                EndMerge, mergeVars
  <2>3. Merging'
    BY <1>3, MergeStays DEF IInv
  <2>4. DOMAIN cache' \subseteq DOMAIN kc1' \cup DOMAIN kc2' \cup DOMAIN cache
    BY <2>2, <2>3 DEF Merging
  <2> QED BY <2>1, <2>4 DEF KnownKeys
<1>4. CASE MakeConstraints
  <2>1. kc1' = <<>> /\ kc2' = <<>> /\ UNCHANGED cache /\ at' # "reduce"
    BY <1>4 DEF MakeConstraints, Goto, Throw
  <2>2. DOMAIN <<>> = {}
    OBVIOUS
  <2> QED BY <2>1, <2>2 DEF KnownKeys
<1>5. CASE MakeKeyAndGraph \/ LookWithin \/ GetNearest \/ GetGeneric \/ GetRandomValidStart \/ GiveUp
           \/ MakeBundle \/ Step
  <2>1. UNCHANGED mergeVars /\ at' # "reduce"
    BY <1>5 DEF MakeKeyAndGraph, LookWithin, GetNearest, GetGeneric, GetRandomValidStart, GiveUp,
                MakeBundle, Step, Goto, Throw
  <2> QED BY <2>1 DEF KnownKeys, mergeVars
<1> QED BY <1>2, <1>3, <1>4, <1>5 DEF Next, Merge

(* A geometry of which the floattype does not count.                       *)
LEMMA SetAside ==
  ASSUME NEW g, IsGeometry(g)
  PROVE [g EXCEPT !.ft = "f"] =
          [cm |-> g.cm, t |-> g.t, ld |-> g.ld, m |-> g.m, n |-> g.n, k |-> g.k, ws |-> g.ws, ft |-> "f"]
<1>1. PICK cm, t, ld, m, n, k, ws, ft :
        g = [cm |-> cm, t |-> t, ld |-> ld, m |-> m, n |-> n, k |-> k, ws |-> ws, ft |-> ft]
  BY DEF IsGeometry
<1>2. g.cm = cm /\ g.t = t /\ g.ld = ld /\ g.m = m /\ g.n = n /\ g.k = k /\ g.ws = ws
  BY <1>1
<1>3. [g EXCEPT !.ft = "f"] =
        [cm |-> cm, t |-> t, ld |-> ld, m |-> m, n |-> n, k |-> k, ws |-> ws, ft |-> "f"]
  <2>1. PICK h : h = [g EXCEPT !.ft = "f"]
    OBVIOUS
  <2>2. h = [cm |-> cm, t |-> t, ld |-> ld, m |-> m, n |-> n, k |-> k, ws |-> ws, ft |-> "f"]
    BY <1>1, <2>1
  <2> QED BY <2>1, <2>2
<1> QED BY <1>2, <1>3

(* Geometries that are not far apart have logarithms that are not.         *)
LEMMA LogsApart ==
  ASSUME NEW g, NEW h, IsKnown(g), IsKnown(h), NEW b \in Nat, Plain(g, h) <= b
  PROVE \A f \in {<<g.m, h.m>>, <<g.n, h.n>>, <<g.k, h.k>>} \cup {<<g.ld[x], h.ld[x]>> : x \in Mats} :
          /\ Abs(Log2Of[f[1]] - Log2Of[f[2]]) <= b
          /\ f[1] \in Sizes /\ f[2] \in Sizes /\ (b = 0 => Log2Of[f[1]] = Log2Of[f[2]])
<1> DEFINE Near(x, y) == /\ Abs(Log2Of[x] - Log2Of[y]) <= b
                         /\ x \in Sizes /\ y \in Sizes /\ (b = 0 => Log2Of[x] = Log2Of[y])
<1>1. ASSUME NEW i \in 1 .. 6, NEW x \in Int, NEW y \in Int, Metric(g)[i] = x, Metric(h)[i] = y
      PROVE x - y <= b /\ y - x <= b
  <2>1. Abs(x - y) <= Plain(g, h) /\ Plain(g, h) \in Nat
    BY <1>1, PlainDistance
  <2> QED BY <2>1 DEF Abs
<1>2. ASSUME NEW x \in Sizes, NEW y \in Sizes, Log2Of[x] \in Nat, Log2Of[y] \in Nat,
             Log2Of[x] - Log2Of[y] <= b, Log2Of[y] - Log2Of[x] <= b
      PROVE Near(x, y)
  BY <1>2 DEF Abs
<1>3. /\ g.m \in Sizes /\ g.n \in Sizes /\ g.k \in Sizes /\ g.ld["A"] \in Sizes /\ g.ld["B"] \in Sizes
      /\ g.ld["C"] \in Sizes /\ Log2Of[g.m] \in Nat /\ Log2Of[g.n] \in Nat /\ Log2Of[g.k] \in Nat
      /\ Log2Of[g.ld["A"]] \in Nat /\ Log2Of[g.ld["B"]] \in Nat /\ Log2Of[g.ld["C"]] \in Nat
  BY LogsAreNumbers
<1>4. /\ h.m \in Sizes /\ h.n \in Sizes /\ h.k \in Sizes /\ h.ld["A"] \in Sizes /\ h.ld["B"] \in Sizes
      /\ h.ld["C"] \in Sizes /\ Log2Of[h.m] \in Nat /\ Log2Of[h.n] \in Nat /\ Log2Of[h.k] \in Nat
      /\ Log2Of[h.ld["A"]] \in Nat /\ Log2Of[h.ld["B"]] \in Nat /\ Log2Of[h.ld["C"]] \in Nat
  BY LogsAreNumbers
<1>5. Near(g.k, h.k)
  <2>1. 5 * Log2Of[g.k] - 5 * Log2Of[h.k] <= b /\ 5 * Log2Of[h.k] - 5 * Log2Of[g.k] <= b
    BY <1>1, <1>3, <1>4, MetricIsNumber
  <2>2. Log2Of[g.k] - Log2Of[h.k] <= b /\ Log2Of[h.k] - Log2Of[g.k] <= b
    BY <1>3, <1>4, <2>1
  <2> QED BY <1>2, <1>3, <1>4, <2>2
<1>6. Near(g.m, h.m) /\ Near(g.n, h.n)
  <2> DEFINE m1 == Log2Of[g.m]
             m2 == Log2Of[h.m]
             n1 == Log2Of[g.n]
             n2 == Log2Of[h.n]
  <2>1. m1 \in Nat /\ m2 \in Nat /\ n1 \in Nat /\ n2 \in Nat
    BY <1>3, <1>4
  <2>2. /\ Metric(g)[2] = 5 * (m1 - n1) /\ Metric(h)[2] = 5 * (m2 - n2)
        /\ Metric(g)[3] = 5 * (m1 + n1) /\ Metric(h)[3] = 5 * (m2 + n2)
    BY MetricIsNumber
  <2> HIDE DEF m1, m2, n1, n2
  <2>3. 5 * (m1 - n1) - 5 * (m2 - n2) <= b /\ 5 * (m2 - n2) - 5 * (m1 - n1) <= b
    BY <1>1, <2>1, <2>2
  <2>4. 5 * (m1 + n1) - 5 * (m2 + n2) <= b /\ 5 * (m2 + n2) - 5 * (m1 + n1) <= b
    BY <1>1, <2>1, <2>2
  <2>5. m1 - m2 <= b /\ m2 - m1 <= b /\ n1 - n2 <= b /\ n2 - n1 <= b
    BY <2>1, <2>3, <2>4
  <2> QED BY <1>2, <1>3, <1>4, <2>5 DEF m1, m2, n1, n2
<1>7. ASSUME NEW x \in Mats PROVE Near(g.ld[x], h.ld[x])
  <2>1. Log2Of[g.ld[x]] - Log2Of[h.ld[x]] <= b /\ Log2Of[h.ld[x]] - Log2Of[g.ld[x]] <= b
    <3>1. CASE x = "A"
      BY <1>1, <1>3, <1>4, <3>1, MetricIsNumber
    <3>2. CASE x = "B"
      BY <1>1, <1>3, <1>4, <3>2, MetricIsNumber
    <3>3. CASE x = "C"
      BY <1>1, <1>3, <1>4, <3>3, MetricIsNumber
    <3> QED BY <1>7, <3>1, <3>2, <3>3 DEF Mats
  <2>2. /\ g.ld[x] \in Sizes /\ h.ld[x] \in Sizes
        /\ Log2Of[g.ld[x]] \in Nat /\ Log2Of[h.ld[x]] \in Nat
    BY <1>3, <1>4, <1>7 DEF Mats
  <2> QED BY <1>2, <2>1, <2>2
<1> HIDE DEF Near
<1>8. ASSUME NEW f \in {<<g.m, h.m>>, <<g.n, h.n>>, <<g.k, h.k>>} \cup {<<g.ld[x], h.ld[x]>> : x \in Mats}
      PROVE Near(f[1], f[2])
  BY <1>5, <1>6, <1>7
<1> QED BY <1>8 DEF Near

(* A key that is no further from another than that is from itself has the  *)
(* same constraints, and sizes close to its own; and those very sizes, if  *)
(* it has no more workspace.                                               *)
LEMMA SameButForWorkspace ==
  ASSUME NEW k, NEW l, IsKey(l), IsGeometry(k.gg), IsKnownKey(k), IsKnownKey(l),
         KeyDistance(k, l) <= 0
  PROVE /\ l.con = k.con /\ Close(l.gg, k.gg) /\ l.gg.ws >= k.gg.ws
        /\ l.gg.ws = k.gg.ws =>
             /\ l.dvc = k.dvc
             /\ [l.gg EXCEPT !.ft = "f"] = [k.gg EXCEPT !.ft = "f"]
<1> DEFINE g == k.gg
           h == l.gg
           p == Plain(h, g)
           u == LogOf[g.ws]
           v == LogOf[h.ws]
<1>1. p \in Nat /\ p = Plain(g, h) /\ (p < Unit => Features(h) = Features(g) /\ Lines(h) = Lines(g))
  BY PlainDistance DEF IsKnownKey
<1>2. SameTransposes(g, h) /\ l.con = k.con /\ p <= v - u /\ (k.dvc # l.dvc => p < v - u)
  BY <1>1, KeysApart
<1>3. IsKnown(g) /\ IsKnown(h) /\ g.ws \in Workspaces /\ h.ws \in Workspaces
  BY DEF IsKnownKey, IsKnown
<1>4. u \in Nat /\ v \in Nat /\ 200 * v <= Unit
  BY <1>3, LogsAssumption
<1>5. IsGeometry(g) /\ IsGeometry(h)
  BY DEF IsKey
<1> HIDE DEF g, h, p, u, v
<1>6. u <= v /\ 200 * p <= Unit /\ p < Unit
  BY <1>1, <1>2, <1>4, UnitAssumption
<1>7. h.ws >= g.ws
  <2>1. g.ws <= h.ws
    BY <1>3, <1>6, LogsTell DEF u, v
  <2>2. g.ws \in Nat /\ h.ws \in Nat
    BY <1>3, LogsAssumption
  <2> QED BY <2>1, <2>2
<1> DEFINE Sides == {<<h.m, g.m>>, <<h.n, g.n>>, <<h.k, g.k>>} \cup {<<h.ld[x], g.ld[x]>> : x \in Mats}
<1>8. \A f \in Sides :
        /\ Abs(Log2Of[f[1]] - Log2Of[f[2]]) <= p
        /\ f[1] \in Sizes /\ f[2] \in Sizes /\ (p = 0 => Log2Of[f[1]] = Log2Of[f[2]])
  BY <1>1, <1>3, LogsApart DEF p
<1>9. Close(h, g)
  <2>1. ASSUME NEW f \in Sides PROVE 200 * Abs(Log2Of[f[1]] - Log2Of[f[2]]) <= Unit
    <3>1. Abs(Log2Of[f[1]] - Log2Of[f[2]]) <= p /\ f[1] \in Sizes /\ f[2] \in Sizes
      BY <1>8
    <3>2. 40 * Unit \in Int /\ Log2Of[f[1]] \in 0 .. 40 * Unit /\ Log2Of[f[2]] \in 0 .. 40 * Unit
      BY <3>1, LogsAssumption, UnitAssumption
    <3>3. PICK a, b \in Int : a = Log2Of[f[1]] /\ b = Log2Of[f[2]]
      BY <3>2
    <3>4. Abs(a - b) \in Int /\ Abs(a - b) <= p
      BY <3>1, <3>3 DEF Abs
    <3>5. 200 * Abs(a - b) <= Unit
      BY <1>1, <1>6, <3>4, UnitAssumption
    <3> QED BY <3>3, <3>5
  <2> HIDE DEF Sides
  <2>2. Features(h) = Features(g) /\ Lines(h) = Lines(g)
    BY <1>1, <1>6
  <2> QED BY <2>1, <2>2 DEF Close, Sides
<1>10. ASSUME h.ws = g.ws
       PROVE l.dvc = k.dvc /\ [h EXCEPT !.ft = "f"] = [g EXCEPT !.ft = "f"]
  <2>1. u = v
    BY <1>10 DEF u, v
  <2>2. p = 0 /\ l.dvc = k.dvc
    BY <1>1, <1>2, <1>4, <2>1
  <2>3. /\ {g.m, g.n, g.k} \subseteq Nat /\ {h.m, h.n, h.k} \subseteq Nat
        /\ g.ld \in [Mats -> Nat] /\ h.ld \in [Mats -> Nat]
    BY <1>5 DEF IsGeometry
  <2>4. \A f \in Sides : {f[1], f[2]} \subseteq Nat
    BY <2>3
  <2>5. \A f \in Sides : f[1] = f[2]
    <3> TAKE f \in Sides
    <3>1. f[1] \in Sizes /\ f[2] \in Sizes /\ Log2Of[f[1]] = Log2Of[f[2]] /\ {f[1], f[2]} \subseteq Nat
      BY <1>8, <2>2, <2>4
    <3> QED BY <3>1, LogsTell
  <2>6. <<h.m, g.m>> \in Sides /\ <<h.n, g.n>> \in Sides /\ <<h.k, g.k>> \in Sides
        /\ \A x \in Mats : <<h.ld[x], g.ld[x]>> \in Sides
    OBVIOUS
  <2> HIDE DEF Sides
  <2>7. \A x, y : <<x, y>> \in Sides => x = y
    <3> TAKE x, y
    <3>1. <<x, y>>[1] = x /\ <<x, y>>[2] = y
      OBVIOUS
    <3> QED BY <2>5, <3>1
  <2>8. h.m = g.m /\ h.n = g.n /\ h.k = g.k /\ \A x \in Mats : h.ld[x] = g.ld[x]
    BY <2>6, <2>7
  <2>9. h.ld = g.ld
    BY <2>3, <2>8
  <2>10. h.t = g.t /\ h.cm = g.cm
    BY <1>2 DEF SameTransposes
  <2>11. [g EXCEPT !.ft = "f"] =
           [cm |-> g.cm, t |-> g.t, ld |-> g.ld, m |-> g.m, n |-> g.n, k |-> g.k, ws |-> g.ws, ft |-> "f"]
    BY <1>5, SetAside
  <2>12. [h EXCEPT !.ft = "f"] =
           [cm |-> h.cm, t |-> h.t, ld |-> h.ld, m |-> h.m, n |-> h.n, k |-> h.k, ws |-> h.ws, ft |-> "f"]
    BY <1>5, SetAside
  <2> QED BY <1>10, <2>2, <2>8, <2>9, <2>10, <2>11, <2>12
<1> QED BY <1>2, <1>7, <1>9, <1>10 DEF g, h

(* A key is no distance from itself.                                       *)
LEMMA NoDistance ==
  ASSUME NEW k, IsKnownKey(k)
  PROVE KeyDistance(k, k) = 0
<1> DEFINE g == k.gg
<1>1. SameTransposes(g, g) /\ IsKnown(g)
  BY DEF SameTransposes, IsKnownKey
<1>2. Plain(g, g) = 0
  <2> DEFINE apart == [i \in 1 .. 6 |-> Abs(Metric(g)[i] - Metric(g)[i])]
             f == Unit * Cardinality(SymDiff(Features(g), Features(g)))
             l == Unit * Cardinality({p \in DOMAIN Lines(g) : Lines(g)[p] # Lines(g)[p]})
  <2>1. f = 0 /\ l = 0
    <3>1. SymDiff(Features(g), Features(g)) = {}
      BY DEF SymDiff
    <3>2. {p \in DOMAIN Lines(g) : Lines(g)[p] # Lines(g)[p]} = {}
      OBVIOUS
    <3>3. Cardinality({}) = 0 /\ Unit * 0 = 0
      BY FS_EmptySet, UnitAssumption
    <3> QED BY <3>1, <3>2, <3>3
  <2>2. ASSUME NEW i \in 1 .. 6 PROVE apart[i] = 0
    <3>1. Metric(g)[i] \in Int
      BY <1>1, MetricIsNumber
    <3>2. Metric(g)[i] - Metric(g)[i] = 0
      BY <3>1
    <3>3. Abs(0) = 0
      BY DEF Abs
    <3> QED BY <3>2, <3>3
  <2>3. Plain(g, g) = apart[1] + apart[2] + apart[3] + apart[4] + apart[5] + apart[6] + f + l
    BY DEF Plain
  <2> HIDE DEF apart, f, l
  <2> QED BY <2>1, <2>2, <2>3
<1>3. GeometryDistance(g, g) = 0
  <2> DEFINE w == LogOf[g.ws]
  <2>1. GeometryDistance(g, g) = Plain(g, g) + (w - w)
    BY <1>1, GeometriesApart
  <2>2. w \in Nat
    BY <1>1, LogsAreNumbers
  <2> HIDE DEF w
  <2> QED BY <1>2, <2>1, <2>2
<1>4. MaxDistance # 0
  BY UnitAssumption DEF MaxDistance
<1> QED BY <1>3, <1>4 DEF KeyDistance

(* Nothing is found before what is at rank 0.                              *)
LEMMA NothingNearer ==
  ASSUME NEW kc, IsFiniteSet(DOMAIN kc), NEW ck, NEW graph, NEW k \in Nearest(ck, graph, kc, 0)
  PROVE \A o \in Candidates(ck, graph, kc) : ~(KeyDistance(ck, o) < KeyDistance(ck, k))
<1> DEFINE S == Candidates(ck, graph, kc)
           N == {o \in S : KeyDistance(ck, o) < KeyDistance(ck, k)}
<1>1. Cardinality(N) <= 0
  BY DEF Nearest
<1>2. N \in SUBSET DOMAIN kc
  BY DEF Candidates
<1>3. IsFiniteSet(N)
  BY <1>2, FS_Subset
<1> HIDE DEF N
<1>4. Cardinality(N) = 0
  BY <1>1, <1>3, FS_CardinalityType
<1>5. N = {}
  BY <1>3, <1>4, FS_EmptySet
<1> QED BY <1>5 DEF N

(* What is_within has promised is found, for a problem of the same         *)
(* transposes; and what is found for a problem that is in the cache is     *)
(* close to it, or the same.                                               *)
LEMMA NearestIsComparable ==
  ASSUME IInv, KnownKeys
  PROVE NearestComparable
<1>1. Merging /\ Answering
  BY DEF IInv
<1>2. IsFiniteSet(DOMAIN cache) /\ \A k \in DOMAIN cache : IsKnownKey(k)
  BY <1>1 DEF Merging, IsCache, KnownKeys, IsKnownKey
<1>3. ASSUME at = "get" \/ (at = "bundle" /\ key # <<>>)
      PROVE /\ req \in Requests /\ req.rank \in Nat
            /\ IsWithin(ReqKey, ReqGraph, cache, TenthOfMax, req.rank)
  <2>1. req \in Requests /\ Readable(req.range)
    BY <1>1, <1>3 DEF Answering, BeforeRequest
  <2> QED BY <1>1, <1>3, <2>1, RequestIsRead DEF Answering
<1>4. ASSUME req \in Requests
      PROVE IsGeometry(ReqKey.gg) /\ IsKnownKey(ReqKey)
  <2>1. IsGeometry(req.gg)
    BY <1>4, RequestsAssumption
  <2>2. req.gg \in Geometries
    BY <1>4 DEF Geometries
  <2>3. SizesOf(req.gg) \subseteq Sizes /\ req.gg.ws \in Workspaces
    BY <2>2 DEF Sizes, Workspaces
  <2>4. ReqKey.gg = Canonical(req.gg)
    BY DEF ReqKey, CacheKey
  <2> QED BY <2>1, <2>3, <2>4, CanonicalIsGeometry DEF IsKnownKey, IsKnown
<1>5. at = "get" => Nearest(ReqKey, ReqGraph, cache, req.rank) # {}
  BY <1>2, <1>3, <1>4, NearestIsThere
<1>6. ASSUME at = "bundle", key # <<>>
      PROVE /\ key.gg.t = ReqKey.gg.t /\ key.gg.cm = ReqKey.gg.cm
            /\ ReqKey \in Candidates(ReqKey, ReqGraph, cache) /\ req.rank = 0 =>
                 /\ key.con = ReqKey.con /\ Close(key.gg, ReqKey.gg)
                 /\ key.gg.ws >= ReqKey.gg.ws
                 /\ key.gg.ws = ReqKey.gg.ws =>
                      /\ key.dvc = ReqKey.dvc
                      /\ [key.gg EXCEPT !.ft = "f"] = [ReqKey.gg EXCEPT !.ft = "f"]
  <2>1. key \in Nearest(ReqKey, ReqGraph, cache, req.rank)
    BY <1>1, <1>6 DEF Answering
  <2>2. IsGeometry(ReqKey.gg) /\ IsKnownKey(ReqKey)
    BY <1>3, <1>4, <1>6
  <2>3. SameTransposes(ReqKey.gg, key.gg)
    BY <1>2, <1>3, <1>6, <2>1, <2>2, NearestIsThere
  <2>4. key \in DOMAIN cache
    BY <2>1 DEF Nearest, Candidates
  <2>5. IsKey(key) /\ IsKnownKey(key)
    BY <1>1, <1>2, <2>4 DEF Merging, IsCache
  <2>6. ASSUME ReqKey \in Candidates(ReqKey, ReqGraph, cache), req.rank = 0
        PROVE KeyDistance(ReqKey, key) <= 0
    <3>1. ~(KeyDistance(ReqKey, ReqKey) < KeyDistance(ReqKey, key))
      BY <1>2, <2>1, <2>6, NothingNearer
    <3>2. KeyDistance(ReqKey, ReqKey) = 0 /\ KeyDistance(ReqKey, key) \in Int
      BY <2>2, <2>5, NoDistance, KeysApart
    <3> QED BY <3>1, <3>2
  <2>7. ASSUME ReqKey \in Candidates(ReqKey, ReqGraph, cache), req.rank = 0
        PROVE /\ key.con = ReqKey.con /\ Close(key.gg, ReqKey.gg)
              /\ key.gg.ws >= ReqKey.gg.ws
              /\ key.gg.ws = ReqKey.gg.ws =>
                   /\ key.dvc = ReqKey.dvc
                   /\ [key.gg EXCEPT !.ft = "f"] = [ReqKey.gg EXCEPT !.ft = "f"]
    BY <2>2, <2>5, <2>6, <2>7, SameButForWorkspace
  <2> QED BY <2>3, <2>7 DEF SameTransposes
<1> QED BY <1>5, <1>6 DEF NearestComparable

(* What is found is comparable, whatever the sizes, and whatever the unit  *)
(* of the logarithms.                                                      *)
THEOREM FoundIsComparable == Spec => []NearestComparable
<1>1. Init => KnownKeys
  <2> SUFFICES ASSUME Init PROVE KnownKeys
    OBVIOUS
  <2>1. kc1 \in Caches /\ kc2 \in Caches /\ cache = <<>>
    BY DEF Init, MergeInit
  <2>2. DOMAIN <<>> = {}
    OBVIOUS
  <2>3. ASSUME NEW kc \in Caches, NEW k \in DOMAIN kc PROVE IsKnown(k.gg)
    <3>1. k.gg \in Geometries
      BY DEF Geometries
    <3> QED BY <3>1 DEF IsKnown, Sizes, Workspaces
  <2> QED BY <2>1, <2>2, <2>3 DEF KnownKeys
<1>2. IInv /\ KnownKeys /\ [Next]_vars => KnownKeys'
  <2> SUFFICES ASSUME IInv, KnownKeys, [Next]_vars PROVE KnownKeys'
    OBVIOUS
  <2>1. CASE Next
    BY <2>1, KnownStays
  <2>2. CASE UNCHANGED vars
    BY <2>2 DEF vars, mergeVars, KnownKeys
  <2> QED BY <2>1, <2>2
<1>3. IInv /\ KnownKeys => NearestComparable
  BY NearestIsComparable
<1> QED BY <1>1, <1>2, <1>3, Invariance, PTL DEF Spec

---------------------------------------------------------------------------
(* What becomes of a solution that is reflected.                           *)

(* Powers of 2 grow.                                                       *)
LEMMA PowersGrow ==
  ASSUME NEW a \in 0 .. 29, NEW b \in 0 .. 29, a < b
  PROVE 2^a < 2^b
<1> DEFINE pow == [i \in 0 .. 29 |-> 2^i]
           T == {n \in Nat : n <= 29 => \A m \in 0 .. n : pow[m] <= pow[n] /\ (m < n => pow[m] < pow[n])}
<1>1. \A i \in 0 .. 28 : pow[i] \in Nat /\ pow[i] > 0 /\ pow[i + 1] = 2 * pow[i]
  <2>1. pow[0] = 1 /\ pow[1] = 2 /\ pow[2] = 4 /\ pow[3] = 8 /\ pow[4] = 16 /\ pow[5] = 32
        /\ pow[6] = 64 /\ pow[7] = 128 /\ pow[8] = 256 /\ pow[9] = 512 /\ pow[10] = 1024
        /\ pow[11] = 2048 /\ pow[12] = 4096 /\ pow[13] = 8192 /\ pow[14] = 16384
        /\ pow[15] = 32768 /\ pow[16] = 65536 /\ pow[17] = 131072 /\ pow[18] = 262144
        /\ pow[19] = 524288 /\ pow[20] = 1048576 /\ pow[21] = 2097152
        /\ pow[22] = 4194304 /\ pow[23] = 8388608 /\ pow[24] = 16777216
        /\ pow[25] = 33554432 /\ pow[26] = 67108864 /\ pow[27] = 134217728
        /\ pow[28] = 268435456 /\ pow[29] = 536870912
    OBVIOUS
  <2> HIDE DEF pow
  <2> QED BY <2>1
<1>2. pow[a] = 2^a /\ pow[b] = 2^b
  OBVIOUS
<1> HIDE DEF pow
<1>3. pow[0] \in Nat
  BY <1>1
<1>4. 0 \in T
  BY <1>3
<1>5. ASSUME NEW n \in T PROVE n + 1 \in T
  <2>1. CASE n + 1 <= 29
    <3>1. n \in 0 .. 28 /\ \A m \in 0 .. n : pow[m] <= pow[n]
      BY <2>1
    <3>2. pow[n] \in Nat /\ pow[n] > 0 /\ pow[n + 1] = 2 * pow[n]
      BY <1>1, <3>1
    <3>3. ASSUME NEW m \in 0 .. n + 1
          PROVE pow[m] <= pow[n + 1] /\ (m < n + 1 => pow[m] < pow[n + 1])
      <4>1. CASE m = n + 1
        BY <3>2, <4>1
      <4>2. CASE m \in 0 .. n
        <5>1. pow[m] <= pow[n]
          BY <3>1, <4>2
        <5>2. m \in 0 .. 28
          BY <3>1, <4>2
        <5>3. pow[m] \in Nat
          BY <1>1, <5>2
        <5> QED BY <3>2, <4>2, <5>1, <5>3
      <4> QED BY <3>1, <4>1, <4>2
    <3> QED BY <3>1, <3>3
  <2>2. CASE ~(n + 1 <= 29)
    BY <2>2
  <2> QED BY <2>1, <2>2
<1>6. T = Nat
  <2>1. T \in SUBSET Nat
    OBVIOUS
  <2> HIDE DEF T
  <2> QED BY <1>4, <1>5, <2>1, AllNumbers
<1>7. b \in T
  BY <1>6
<1> QED BY <1>2, <1>7

(* The logarithm of a power of 2 is its exponent.                          *)
LEMMA LogOfPower == \A a \in 0 .. 29 : Log2(2^a) = a
<1> TAKE a \in 0 .. 29
<1>1. ASSUME NEW e \in 1 .. 29 PROVE 2^e <= 2^a <=> e <= a
  <2> DEFINE x == 2^e
             y == 2^a
  <2>1. e \in 0 .. 29 /\ x \in Int /\ y \in Int
    OBVIOUS
  <2>2. (e < a => x < y) /\ (a < e => y < x)
    BY <2>1, PowersGrow
  <2>3. e = a => x = y
    OBVIOUS
  <2> HIDE DEF x, y
  <2>4. x <= y <=> e <= a
    BY <2>1, <2>2, <2>3
  <2> QED BY <2>4 DEF x, y
<1>2. {e \in 1 .. 29 : 2^e <= 2^a} = {e \in 1 .. 29 : e <= a}
  BY <1>1
<1>3. {e \in 1 .. 29 : e <= a} = 1 .. a
  OBVIOUS
<1>4. Cardinality(1 .. a) = a
  BY FewAreFinite
<1> QED BY <1>2, <1>3, <1>4 DEF Log2

(* Powers of 2 are positive, and the next is twice as large.               *)
LEMMA PowersDouble ==
  /\ \A e \in 0 .. 29 : 2^e \in Nat /\ 2^e > 0
  /\ \A e \in 0 .. 28 : 2^(e + 1) = 2 * 2^e
  /\ \A e \in 0 .. 14 : 4^e = 2^(2 * e)
  /\ \A e \in 0 .. 29, f \in 0 .. 15 : f = 15 => 2^e < 4^f
<1> DEFINE pow == [i \in 0 .. 29 |-> 2^i]
           quad == [i \in 0 .. 15 |-> 4^i]
<1>1. pow[0] = 1 /\ pow[1] = 2 /\ pow[2] = 4 /\ pow[3] = 8 /\ pow[4] = 16 /\ pow[5] = 32
      /\ pow[6] = 64 /\ pow[7] = 128 /\ pow[8] = 256 /\ pow[9] = 512 /\ pow[10] = 1024
      /\ pow[11] = 2048 /\ pow[12] = 4096 /\ pow[13] = 8192 /\ pow[14] = 16384
      /\ pow[15] = 32768 /\ pow[16] = 65536 /\ pow[17] = 131072 /\ pow[18] = 262144
      /\ pow[19] = 524288 /\ pow[20] = 1048576 /\ pow[21] = 2097152
      /\ pow[22] = 4194304 /\ pow[23] = 8388608 /\ pow[24] = 16777216
      /\ pow[25] = 33554432 /\ pow[26] = 67108864 /\ pow[27] = 134217728
      /\ pow[28] = 268435456 /\ pow[29] = 536870912
  OBVIOUS
<1>2. quad[0] = 1 /\ quad[1] = 4 /\ quad[2] = 16 /\ quad[3] = 64 /\ quad[4] = 256 /\ quad[5] = 1024
      /\ quad[6] = 4096 /\ quad[7] = 16384 /\ quad[8] = 65536 /\ quad[9] = 262144 /\ quad[10] = 1048576
      /\ quad[11] = 4194304 /\ quad[12] = 16777216 /\ quad[13] = 67108864 /\ quad[14] = 268435456
      /\ quad[15] = 1073741824
  OBVIOUS
<1>4. (\A e \in 0 .. 29 : pow[e] = 2^e) /\ (\A e \in 0 .. 15 : quad[e] = 4^e)
  OBVIOUS
<1> HIDE DEF pow, quad
<1>5. \A e \in 0 .. 29 : pow[e] \in Nat /\ pow[e] > 0
  BY <1>1
<1>6. \A e \in 0 .. 28 : pow[e + 1] = 2 * pow[e]
  BY <1>1
<1>7. \A e \in 0 .. 14 : quad[e] = pow[2 * e]
  BY <1>1, <1>2
<1>8. \A e \in 0 .. 28 : 2^(e + 1) = 2 * 2^e
  <2> TAKE e \in 0 .. 28
  <2>1. e + 1 \in 0 .. 29 /\ e \in 0 .. 29
    OBVIOUS
  <2>2. pow[e + 1] = 2^(e + 1) /\ pow[e] = 2^e
    BY <1>4, <2>1
  <2> QED BY <1>6, <2>2
<1>9. \A e \in 0 .. 14 : 4^e = 2^(2 * e)
  <2> TAKE e \in 0 .. 14
  <2>1. 2 * e \in 0 .. 29 /\ e \in 0 .. 15
    OBVIOUS
  <2>2. pow[2 * e] = 2^(2 * e) /\ quad[e] = 4^e
    BY <1>4, <2>1
  <2> QED BY <1>7, <2>2
<1>10. \A e \in 0 .. 29 : pow[e] < quad[15]
  BY <1>1, <1>2
<1>11. \A e \in 0 .. 29, f \in 0 .. 15 : f = 15 => 2^e < 4^f
  <2> TAKE e \in 0 .. 29, f \in 0 .. 15
  <2>1. pow[e] = 2^e /\ quad[f] = 4^f
    BY <1>4
  <2>2. pow[e] < quad[15]
    BY <1>10
  <2> QED BY <2>1, <2>2
<1>12. \A e \in 0 .. 29 : 2^e \in Nat /\ 2^e > 0
  BY <1>4, <1>5
<1> QED BY <1>8, <1>9, <1>11, <1>12

(* The product of two powers of 2.                                         *)
LEMMA PowersMultiply ==
  ASSUME NEW a \in 0 .. 29, NEW b \in 0 .. 29, a + b <= 29
  PROVE  2^(a + b) = 2^a * 2^b
<1> DEFINE pow == [i \in 0 .. 29 |-> 2^i]
           T == {n \in Nat : a + n <= 29 => pow[a + n] = pow[a] * pow[n]}
<1>1. \A i \in 0 .. 29 : pow[i] = 2^i /\ pow[i] \in Nat
  BY PowersDouble
<1>2. \A i \in 0 .. 28 : pow[i + 1] = 2 * pow[i]
  <2> TAKE i \in 0 .. 28
  <2>1. i + 1 \in 0 .. 29 /\ i \in 0 .. 29
    OBVIOUS
  <2> QED BY <1>1, <2>1, PowersDouble
<1>3. pow[0] = 1
  OBVIOUS
<1> HIDE DEF pow
<1>4. 0 \in T
  <2>1. a + 0 = a /\ pow[a] \in Nat
    BY <1>1
  <2> QED BY <1>3, <2>1
<1>5. ASSUME NEW n \in T PROVE n + 1 \in T
  <2> SUFFICES ASSUME a + (n + 1) <= 29 PROVE pow[a + (n + 1)] = pow[a] * pow[n + 1]
    OBVIOUS
  <2>1. a + n \in 0 .. 28 /\ n \in 0 .. 28 /\ a + (n + 1) = (a + n) + 1 /\ n \in 0 .. 29
    OBVIOUS
  <2>2. pow[a + n] = pow[a] * pow[n]
    BY <2>1
  <2>3. pow[(a + n) + 1] = 2 * pow[a + n] /\ pow[n + 1] = 2 * pow[n]
    BY <1>2, <2>1
  <2>4. pow[a] \in Nat /\ pow[n] \in Nat
    BY <1>1, <2>1
  <2> DEFINE u == pow[a]
             v == pow[n]
  <2>5. u \in Nat /\ v \in Nat
    BY <2>4
  <2> HIDE DEF u, v
  <2>6. 2 * (u * v) = u * (2 * v)
    BY <2>5
  <2> QED BY <2>1, <2>2, <2>3, <2>6 DEF u, v
<1>6. b \in T
  <2>1. T \in SUBSET Nat
    OBVIOUS
  <2> HIDE DEF T
  <2> QED BY <1>4, <1>5, <2>1, AllNumbers
<1>7. a \in 0 .. 29 /\ b \in 0 .. 29 /\ a + b \in 0 .. 29
  OBVIOUS
<1> QED BY <1>1, <1>6, <1>7

(* Different powers of 2 have different exponents.                         *)
LEMMA PowersDiffer ==
  ASSUME NEW a \in 0 .. 29, NEW b \in 0 .. 29, 2^a = 2^b
  PROVE  a = b
<1> DEFINE x == 2^a
           y == 2^b
<1>1. x \in Nat /\ y \in Nat
  BY PowersDouble
<1>2. (a < b => x < y) /\ (b < a => y < x)
  BY PowersGrow
<1>3. x = y
  OBVIOUS
<1> HIDE DEF x, y
<1> QED BY <1>1, <1>2, <1>3

(* A power of 2 is a square if its exponent is even.                       *)
LEMMA SquaresAreEven ==
  ASSUME NEW a \in 0 .. 29
  PROVE  MacIsSquare(2^a) <=> a % 2 = 0
<1>1. ASSUME NEW e \in 0 .. 15, 2^a = 4^e PROVE a % 2 = 0
  <2>1. CASE e = 15
    <3> DEFINE x == 2^a
    <3>1. x < 4^e /\ x \in Nat
      BY <2>1, PowersDouble
    <3>2. x = 4^e
      BY <1>1
    <3> HIDE DEF x
    <3>3. x < x
      BY <3>1, <3>2
    <3> QED BY <3>1, <3>3
  <2>2. CASE e # 15
    <3>1. e \in 0 .. 14 /\ 2 * e \in 0 .. 29
      BY <2>2
    <3>2. 2^a = 2^(2 * e)
      BY <1>1, <3>1, PowersDouble
    <3>3. a = 2 * e
      BY <3>1, <3>2, PowersDiffer
    <3> QED BY <3>1, <3>3
  <2> QED BY <2>1, <2>2
<1>2. ASSUME a % 2 = 0 PROVE MacIsSquare(2^a)
  <2>1. a \div 2 \in 0 .. 14 /\ a = 2 * (a \div 2)
    BY <1>2
  <2>2. 4^(a \div 2) = 2^a
    BY <2>1, PowersDouble
  <2>3. a \div 2 \in 0 .. 15
    BY <2>1
  <2> QED BY <2>2, <2>3 DEF MacIsSquare
<1> QED BY <1>1, <1>2 DEF MacIsSquare

(* A product is divided by either of its factors.                          *)
LEMMA FactorsDivide ==
  ASSUME NEW a \in Nat, NEW b \in Nat, a > 0
  PROVE  (a * b) \div a = b /\ (a * b) % a = 0
OBVIOUS

(* The sides of the grid of a reflected skew are those of the grid, the    *)
(* other way round (Grid, reflect_c).                                      *)
LEMMA GridReflects ==
  ASSUME NEW mac \in Powers, NEW skew \in Int, Grid(mac, skew).isGood
  PROVE  /\ Grid(mac, ReflectedSkew(mac, skew)) =
              [isGood |-> TRUE, A |-> Grid(mac, skew).B, B |-> Grid(mac, skew).A]
         /\ Grid(mac, skew).A \in Nat /\ Grid(mac, skew).A > 0
         /\ Grid(mac, skew).B \in Nat /\ Grid(mac, skew).B > 0
<1>1. PICK a \in 0 .. 29 : mac = 2^a
  BY DEF Powers
<1>2. Log2(mac) = a /\ (MacIsSquare(mac) <=> a % 2 = 0)
  BY <1>1, LogOfPower, SquaresAreEven
<1> DEFINE s == ReflectedSkew(mac, skew)
           e == (Log2(mac) \div 2) + (Log2(mac) % 2) - (skew - Skew0)
           f == (Log2(mac) \div 2) + (Log2(mac) % 2) - (s - Skew0)
<1>3. Grid(mac, skew) = IF e \in 0 .. 29 /\ mac % 2^e = 0
                        THEN [isGood |-> TRUE, A |-> 2^e, B |-> mac \div 2^e]
                        ELSE [isGood |-> FALSE, A |-> 0, B |-> 0]
  BY DEF Grid
<1>4. Grid(mac, s) = IF f \in 0 .. 29 /\ mac % 2^f = 0
                     THEN [isGood |-> TRUE, A |-> 2^f, B |-> mac \div 2^f]
                     ELSE [isGood |-> FALSE, A |-> 0, B |-> 0]
  BY DEF Grid
<1>5. e + f = a /\ e \in Int /\ f \in Int
  <2>1. s = 20 - skew + (IF a % 2 = 0 THEN 0 ELSE 1)
    BY <1>2 DEF ReflectedSkew, Skew0
  <2>2. e = (a \div 2) + (a % 2) - (skew - 10) /\ f = (a \div 2) + (a % 2) - (s - 10)
    BY <1>2 DEF Skew0
  <2> HIDE DEF s, e, f
  <2> QED BY <2>1, <2>2
<1> HIDE DEF s, e, f
<1>6. e \in 0 .. 29 /\ mac % 2^e = 0
  BY <1>3
<1>7. e <= a
  <2> SUFFICES ASSUME a < e PROVE FALSE
    BY <1>6
  <2>1. mac < 2^e /\ mac \in Nat /\ mac > 0 /\ 2^e \in Nat
    BY <1>1, <1>6, PowersGrow, PowersDouble
  <2> DEFINE b == 2^e
  <2> HIDE DEF b
  <2>2. mac % b = mac
    BY <2>1 DEF b
  <2> QED BY <1>6, <2>1, <2>2 DEF b
<1>8. f \in 0 .. 29
  BY <1>5, <1>6, <1>7
<1> DEFINE x == 2^e
           y == 2^f
<1>9. x \in Nat /\ x > 0 /\ y \in Nat /\ y > 0
  BY <1>6, <1>8, PowersDouble
<1>10. mac = x * y
  <2>1. e + f <= 29
    BY <1>5
  <2>2. 2^(e + f) = 2^e * 2^f
    BY <1>6, <1>8, <2>1, PowersMultiply
  <2> QED BY <1>1, <1>5, <2>2
<1>11. Grid(mac, skew) = [isGood |-> TRUE, A |-> x, B |-> mac \div x]
  BY <1>3, <1>6
<1>12. Grid(mac, s) = IF mac % y = 0 THEN [isGood |-> TRUE, A |-> y, B |-> mac \div y]
                      ELSE [isGood |-> FALSE, A |-> 0, B |-> 0]
  BY <1>4, <1>8
<1> HIDE DEF x, y
<1>13. mac \div x = y
  BY <1>9, <1>10, FactorsDivide
<1>14. mac % y = 0 /\ mac \div y = x
  <2>1. x * y = y * x
    BY <1>9
  <2> QED BY <1>9, <1>10, <2>1, FactorsDivide
<1>15. Grid(mac, s) = [isGood |-> TRUE, A |-> y, B |-> x]
  BY <1>12, <1>14
<1>16. Grid(mac, skew).A = x /\ Grid(mac, skew).B = y
  BY <1>11, <1>13
<1>17. Grid(mac, s) = [isGood |-> TRUE, A |-> Grid(mac, skew).B, B |-> Grid(mac, skew).A]
  BY <1>15, <1>16
<1> QED BY <1>9, <1>16, <1>17 DEF s

(* Which of three things are so, counted, is odd.                          *)
LEMMA OddOfThree ==
  ASSUME NEW b1 \in BOOLEAN, NEW b2 \in BOOLEAN, NEW b3 \in BOOLEAN
  PROVE  Cardinality({i \in 1 .. 3 : <<b1, b2, b3>>[i]}) % 2 = 1 <=>
           (b1 /\ b2 /\ b3) \/ (b1 /\ ~b2 /\ ~b3) \/ (~b1 /\ b2 /\ ~b3) \/ (~b1 /\ ~b2 /\ b3)
<1> DEFINE S == {i \in 1 .. 3 : <<b1, b2, b3>>[i]}
<1>1. /\ 1 \in S <=> b1
      /\ 2 \in S <=> b2
      /\ 3 \in S <=> b3
      /\ \A i \in S : i = 1 \/ i = 2 \/ i = 3
  OBVIOUS
<1> HIDE DEF S
<1>2. /\ Cardinality({}) = 0 /\ IsFiniteSet({})
      /\ \A i : IsFiniteSet({i}) /\ Cardinality({i}) = 1
  BY FS_EmptySet, FS_Singleton
<1>3. \A i, j : i # j => IsFiniteSet({i} \cup {j}) /\ Cardinality({i} \cup {j}) = 2
  <2> TAKE i, j
  <2> HAVE i # j
  <2>1. IsFiniteSet({i}) /\ Cardinality({i}) = 1 /\ j \notin {i}
    BY <1>2
  <2> QED BY <2>1, FS_AddElement
<1>4. Cardinality(1 .. 3) = 3
  <2>1. 1 \in Int /\ 3 \in Int
    OBVIOUS
  <2>2. Cardinality(1 .. 3) = (IF 1 > 3 THEN 0 ELSE 3 - 1 + 1)
    BY <2>1, FS_Interval, Zenon
  <2> QED BY <2>2
<1>5. ASSUME b1 /\ b2 /\ b3
      PROVE  Cardinality(S) = 3
  <2>1. S = 1 .. 3
    BY <1>1, <1>5
  <2> QED BY <1>4, <1>5, <2>1
<1>6. ASSUME ~b1 /\ ~b2 /\ ~b3
      PROVE  Cardinality(S) = 0
  <2>1. S = {}
    BY <1>1, <1>6
  <2> QED BY <1>2, <1>6, <2>1
<1>7. ASSUME b1 /\ ~b2 /\ ~b3
      PROVE  Cardinality(S) = 1
  <2>1. S = {1}
    BY <1>1, <1>7
  <2> QED BY <1>2, <1>7, <2>1
<1>8. ASSUME ~b1 /\ b2 /\ ~b3
      PROVE  Cardinality(S) = 1
  <2>1. S = {2}
    BY <1>1, <1>8
  <2> QED BY <1>2, <1>8, <2>1
<1>9. ASSUME ~b1 /\ ~b2 /\ b3
      PROVE  Cardinality(S) = 1
  <2>1. S = {3}
    BY <1>1, <1>9
  <2> QED BY <1>2, <1>9, <2>1
<1>10. ASSUME b1 /\ b2 /\ ~b3
      PROVE  Cardinality(S) = 2
  <2>1. S = {1} \cup {2}
    BY <1>1, <1>10
  <2>2. 1 # 2
    OBVIOUS
  <2>3. Cardinality({1} \cup {2}) = 2
    BY <1>3, <2>2, Zenon
  <2> QED BY <2>1, <2>3
<1>11. ASSUME b1 /\ ~b2 /\ b3
      PROVE  Cardinality(S) = 2
  <2>1. S = {1} \cup {3}
    BY <1>1, <1>11
  <2>2. 1 # 3
    OBVIOUS
  <2>3. Cardinality({1} \cup {3}) = 2
    BY <1>3, <2>2, Zenon
  <2> QED BY <2>1, <2>3
<1>12. ASSUME ~b1 /\ b2 /\ b3
      PROVE  Cardinality(S) = 2
  <2>1. S = {2} \cup {3}
    BY <1>1, <1>12
  <2>2. 2 # 3
    OBVIOUS
  <2>3. Cardinality({2} \cup {3}) = 2
    BY <1>3, <2>2, Zenon
  <2> QED BY <2>1, <2>3
<1>13. Cardinality(S) % 2 = 1 <=>
         (b1 /\ b2 /\ b3) \/ (b1 /\ ~b2 /\ ~b3) \/ (~b1 /\ b2 /\ ~b3) \/ (~b1 /\ ~b2 /\ b3)
  BY <1>5, <1>6, <1>7, <1>8, <1>9, <1>10, <1>11, <1>12
<1> QED BY <1>13 DEF S

(* What redirect_base makes of a geometry, spelt out.                      *)
RedirectedTo(g, swap, tA, tB) ==
  [cm |-> TRUE, tA |-> tA, tB |-> tB, tC |-> FALSE,
   m |-> IF swap THEN g.n ELSE g.m, n |-> IF swap THEN g.m ELSE g.n,
   a |-> IF swap THEN [ldx |-> g.ld["B"], emat |-> "B"] ELSE [ldx |-> g.ld["A"], emat |-> "A"],
   b |-> IF swap THEN [ldx |-> g.ld["A"], emat |-> "A"] ELSE [ldx |-> g.ld["B"], emat |-> "B"]]

(* What a redirection gives is made of the parts it is given.              *)
LEMMA RedirectedParts ==
  ASSUME NEW g, IsGeometry(g)
  PROVE  /\ g.cm /\ ~g.t["C"] => Redirected(g) = RedirectedTo(g, FALSE, g.t["A"], g.t["B"])
         /\ g.cm /\ g.t["C"] => Redirected(g) = RedirectedTo(g, TRUE, ~g.t["B"], ~g.t["A"])
         /\ ~g.cm /\ ~g.t["C"] => Redirected(g) = RedirectedTo(g, TRUE, g.t["B"], g.t["A"])
         /\ ~g.cm /\ g.t["C"] => Redirected(g) = RedirectedTo(g, FALSE, ~g.t["A"], ~g.t["B"])
<1> DEFINE r == [cm |-> g.cm, tA |-> g.t["A"], tB |-> g.t["B"], tC |-> g.t["C"],
                 m |-> g.m, n |-> g.n,
                 a |-> [ldx |-> g.ld["A"], emat |-> "A"],
                 b |-> [ldx |-> g.ld["B"], emat |-> "B"]]
<1>0. /\ g.cm \in BOOLEAN /\ g.t["C"] \in BOOLEAN /\ g.t["A"] \in BOOLEAN /\ g.t["B"] \in BOOLEAN
  BY DEF IsGeometry, Mats
<1>1. Redirected(g) = UntransposeC(ToColMajor(r))
  BY DEF Redirected, RedirectBase
<1>2. CASE g.cm /\ ~g.t["C"]
  <2>1. ToColMajor(r) = r
    BY <1>2 DEF ToColMajor
  <2>2. UntransposeC(r) = r
    BY <1>2 DEF UntransposeC
  <2>3. r = RedirectedTo(g, FALSE, g.t["A"], g.t["B"])
    BY <1>0, <1>2 DEF RedirectedTo
  <2> QED BY <1>1, <1>2, <2>1, <2>2, <2>3
<1>3. CASE g.cm /\ g.t["C"]
  <2>1. ToColMajor(r) = r
    BY <1>3 DEF ToColMajor
  <2>2. UntransposeC(r) = RedirectedTo(g, TRUE, ~g.t["B"], ~g.t["A"])
    BY <1>0, <1>3 DEF UntransposeC, Exchanged, RedirectedTo
  <2> QED BY <1>1, <1>3, <2>1, <2>2
<1> DEFINE s == [cm |-> TRUE, tA |-> g.t["B"], tB |-> g.t["A"], tC |-> g.t["C"],
                 m |-> g.n, n |-> g.m, a |-> r.b, b |-> r.a]
<1>4. ~g.cm => ToColMajor(r) = s
  BY <1>0 DEF ToColMajor, Exchanged
<1>5. CASE ~g.cm /\ ~g.t["C"]
  <2>1. UntransposeC(s) = s
    BY <1>5 DEF UntransposeC
  <2>2. s = RedirectedTo(g, TRUE, g.t["B"], g.t["A"])
    BY <1>0, <1>5 DEF RedirectedTo
  <2> QED BY <1>1, <1>4, <1>5, <2>1, <2>2
<1>6. CASE ~g.cm /\ g.t["C"]
  <2>1. UntransposeC(s) = RedirectedTo(g, FALSE, ~g.t["A"], ~g.t["B"])
    BY <1>0, <1>6 DEF UntransposeC, Exchanged, RedirectedTo
  <2> QED BY <1>1, <1>4, <1>6, <2>1
<1> QED BY <1>0, <1>2, <1>3, <1>5, <1>6

(* Where the side x of a solution goes when it is reflected.               *)
SideOf(swap, x) == IF swap THEN (IF x = "A" THEN "B" ELSE "A") ELSE x

LEMMA SidesAre ==
  ASSUME NEW swap, NEW x \in Chiral
  PROVE  SideOf(swap, x) \in Chiral /\ SideOf(swap, SideOf(swap, x)) = x
BY DEF SideOf, Chiral

(* Nothing that a kernel is derived from tells a geometry from its         *)
(* canonical form, but that A and B may have changed places.               *)
Alike(g, h, swap) ==
  /\ h.k = g.k /\ h.ws = g.ws
  /\ \A x \in Chiral : /\ NonKDim(h, SideOf(swap, x)) = NonKDim(g, x)
                        /\ h.ld[SideOf(swap, x)] = g.ld[x]
                        /\ CoalIsPllK(h, SideOf(swap, x)) = CoalIsPllK(g, x)

(* The parity that CoalIsPllK counts.                                      *)
LEMMA LinesAlongK ==
  ASSUME NEW g, IsGeometry(g)
  PROVE  /\ CoalIsPllK(g, "A") <=> (g.cm <=> g.t["A"])
         /\ CoalIsPllK(g, "B") <=> ~(g.cm <=> g.t["B"])
<1>1. g.cm \in BOOLEAN /\ g.t["A"] \in BOOLEAN /\ g.t["B"] \in BOOLEAN
  BY DEF IsGeometry, Mats
<1>2. CoalIsPllK(g, "A") <=> (g.cm <=> g.t["A"])
  <2> DEFINE cm == g.cm
             tx == g.t["A"]
             isA == "A" = "A"
  <2>1. isA \in BOOLEAN /\ cm \in BOOLEAN /\ tx \in BOOLEAN /\ isA
    BY <1>1
  <2>2. CoalIsPllK(g, "A") <=> Cardinality({i \in 1 .. 3 : <<cm, tx, isA>>[i]}) % 2 = 1
    BY DEF CoalIsPllK
  <2> HIDE DEF cm, tx, isA
  <2>3. CoalIsPllK(g, "A") <=>
          (cm /\ tx /\ isA) \/ (cm /\ ~tx /\ ~isA) \/ (~cm /\ tx /\ ~isA) \/ (~cm /\ ~tx /\ isA)
    BY <2>1, <2>2, OddOfThree
  <2> QED BY <2>1, <2>3, Zenon DEF cm, tx
<1>3. CoalIsPllK(g, "B") <=> ~(g.cm <=> g.t["B"])
  <2> DEFINE cm == g.cm
             tx == g.t["B"]
             isA == "B" = "A"
  <2>1. isA \in BOOLEAN /\ cm \in BOOLEAN /\ tx \in BOOLEAN /\ ~isA
    BY <1>1
  <2>2. CoalIsPllK(g, "B") <=> Cardinality({i \in 1 .. 3 : <<cm, tx, isA>>[i]}) % 2 = 1
    BY DEF CoalIsPllK
  <2> HIDE DEF cm, tx, isA
  <2>3. CoalIsPllK(g, "B") <=>
          (cm /\ tx /\ isA) \/ (cm /\ ~tx /\ ~isA) \/ (~cm /\ tx /\ ~isA) \/ (~cm /\ ~tx /\ isA)
    BY <2>1, <2>2, OddOfThree
  <2> QED BY <2>1, <2>3, Zenon DEF cm, tx
<1> QED BY <1>2, <1>3

(* The canonical form of a geometry, part by part.                         *)
LEMMA CanonicalIs ==
  ASSUME NEW g, IsGeometry(g), NEW h, h = Canonical(g)
  PROVE  /\ h.k = g.k /\ h.ws = g.ws /\ h.cm
         /\ ~IsNotCanonical(g) =>
              /\ h.m = g.m /\ h.n = g.n /\ h.ld["A"] = g.ld["A"] /\ h.ld["B"] = g.ld["B"]
              /\ h.t["A"] <=> (g.t["A"] <=> g.cm)
              /\ h.t["B"] <=> (g.t["B"] <=> g.cm)
         /\ IsNotCanonical(g) =>
              /\ h.m = g.n /\ h.n = g.m /\ h.ld["A"] = g.ld["B"] /\ h.ld["B"] = g.ld["A"]
              /\ h.t["A"] <=> (g.t["B"] <=> ~g.cm)
              /\ h.t["B"] <=> (g.t["A"] <=> ~g.cm)
<1>0. /\ g.cm \in BOOLEAN /\ g.t["C"] \in BOOLEAN /\ g.t["A"] \in BOOLEAN /\ g.t["B"] \in BOOLEAN
      /\ g = [cm |-> g.cm, t |-> g.t, ld |-> g.ld, m |-> g.m, n |-> g.n, k |-> g.k,
              ws |-> g.ws, ft |-> g.ft]
  BY DEF IsGeometry, Mats
<1>1. ASSUME NEW swap \in BOOLEAN, NEW tA \in BOOLEAN, NEW tB \in BOOLEAN,
             Redirected(g) = RedirectedTo(g, swap, tA, tB)
      PROVE  /\ h.k = g.k /\ h.ws = g.ws /\ h.cm
             /\ IsNotCanonical(g) <=> swap
             /\ h.t["A"] <=> tA
             /\ h.t["B"] <=> tB
             /\ h.ld["A"] = IF swap THEN g.ld["B"] ELSE g.ld["A"]
             /\ h.ld["B"] = IF swap THEN g.ld["A"] ELSE g.ld["B"]
             /\ h.m = IF swap THEN g.n ELSE g.m
             /\ h.n = IF swap THEN g.m ELSE g.n
  <2> DEFINE t == [A |-> tA, B |-> tB, C |-> FALSE]
             ld == [A |-> IF swap THEN g.ld["B"] ELSE g.ld["A"],
                    B |-> IF swap THEN g.ld["A"] ELSE g.ld["B"], C |-> g.ld["C"]]
             m == IF swap THEN g.n ELSE g.m
             n == IF swap THEN g.m ELSE g.n
  <2>1. h = [g EXCEPT !.cm = TRUE, !.t = t, !.ld = ld, !.m = m, !.n = n]
    BY <1>1 DEF Canonical, RedirectedTo
  <2>2. IsNotCanonical(g) <=> swap
    BY <1>1 DEF IsNotCanonical, RedirectedTo
  <2>3. /\ t["A"] = tA /\ t["B"] = tB
        /\ ld["A"] = IF swap THEN g.ld["B"] ELSE g.ld["A"]
        /\ ld["B"] = IF swap THEN g.ld["A"] ELSE g.ld["B"]
    OBVIOUS
  <2> HIDE DEF t, ld, m, n
  <2>4. h = [cm |-> TRUE, t |-> t, ld |-> ld, m |-> m, n |-> n, k |-> g.k, ws |-> g.ws, ft |-> g.ft]
    BY <1>0, <2>1
  <2>5. h.cm = TRUE /\ h.t = t /\ h.ld = ld /\ h.m = m /\ h.n = n /\ h.k = g.k /\ h.ws = g.ws
    BY <2>4
  <2> QED BY <2>2, <2>3, <2>5 DEF m, n
<1>2. CASE g.cm /\ ~g.t["C"]
  <2>1. Redirected(g) = RedirectedTo(g, FALSE, g.t["A"], g.t["B"])
    BY <1>2, RedirectedParts
  <2> QED BY <1>0, <1>1, <1>2, <2>1
<1>3. CASE g.cm /\ g.t["C"]
  <2>1. Redirected(g) = RedirectedTo(g, TRUE, ~g.t["B"], ~g.t["A"])
    BY <1>3, RedirectedParts
  <2> QED BY <1>0, <1>1, <1>3, <2>1
<1>4. CASE ~g.cm /\ ~g.t["C"]
  <2>1. Redirected(g) = RedirectedTo(g, TRUE, g.t["B"], g.t["A"])
    BY <1>4, RedirectedParts
  <2> QED BY <1>0, <1>1, <1>4, <2>1
<1>5. CASE ~g.cm /\ g.t["C"]
  <2>1. Redirected(g) = RedirectedTo(g, FALSE, ~g.t["A"], ~g.t["B"])
    BY <1>5, RedirectedParts
  <2> QED BY <1>0, <1>1, <1>5, <2>1
<1> QED BY <1>0, <1>2, <1>3, <1>4, <1>5

(* The canonical form is like the geometry, the other way round or not.    *)
LEMMA CanonicalIsAlike ==
  ASSUME NEW g, IsGeometry(g)
  PROVE  Alike(g, Canonical(g), IsNotCanonical(g)) /\ IsNotCanonical(g) \in BOOLEAN
<1> DEFINE h == Canonical(g)
<1>1. /\ h.k = g.k /\ h.ws = g.ws /\ h.cm
      /\ ~IsNotCanonical(g) =>
           /\ h.m = g.m /\ h.n = g.n /\ h.ld["A"] = g.ld["A"] /\ h.ld["B"] = g.ld["B"]
           /\ h.t["A"] <=> (g.t["A"] <=> g.cm)
           /\ h.t["B"] <=> (g.t["B"] <=> g.cm)
      /\ IsNotCanonical(g) =>
           /\ h.m = g.n /\ h.n = g.m /\ h.ld["A"] = g.ld["B"] /\ h.ld["B"] = g.ld["A"]
           /\ h.t["A"] <=> (g.t["B"] <=> ~g.cm)
           /\ h.t["B"] <=> (g.t["A"] <=> ~g.cm)
  BY CanonicalIs
<1>2. IsGeometry(h)
  BY CanonicalIsGeometry
<1> HIDE DEF h
<1>3. /\ CoalIsPllK(g, "A") <=> (g.cm <=> g.t["A"])
      /\ CoalIsPllK(g, "B") <=> ~(g.cm <=> g.t["B"])
      /\ CoalIsPllK(h, "A") <=> (h.cm <=> h.t["A"])
      /\ CoalIsPllK(h, "B") <=> ~(h.cm <=> h.t["B"])
  BY <1>2, LinesAlongK
<1>4. \A x \in Chiral : CoalIsPllK(g, x) \in BOOLEAN /\ CoalIsPllK(h, x) \in BOOLEAN
  BY DEF CoalIsPllK
<1>5. IsNotCanonical(g) \in BOOLEAN
  BY DEF IsNotCanonical
<1>6. "A" \in Chiral /\ "B" \in Chiral
  BY DEF Chiral
<1>7. CASE IsNotCanonical(g)
  <2>1. /\ CoalIsPllK(h, "B") <=> CoalIsPllK(g, "A")
        /\ CoalIsPllK(h, "A") <=> CoalIsPllK(g, "B")
    BY <1>1, <1>3, <1>7, Zenon
  <2>2. /\ CoalIsPllK(h, "B") = CoalIsPllK(g, "A")
        /\ CoalIsPllK(h, "A") = CoalIsPllK(g, "B")
    BY <1>4, <1>6, <2>1, Zenon
  <2> QED BY <1>1, <1>7, <2>2 DEF Alike, NonKDim, SideOf, Chiral, h
<1>8. CASE ~IsNotCanonical(g)
  <2>1. /\ CoalIsPllK(h, "A") <=> CoalIsPllK(g, "A")
        /\ CoalIsPllK(h, "B") <=> CoalIsPllK(g, "B")
    BY <1>1, <1>3, <1>8, Zenon
  <2>2. /\ CoalIsPllK(h, "A") = CoalIsPllK(g, "A")
        /\ CoalIsPllK(h, "B") = CoalIsPllK(g, "B")
    BY <1>4, <1>6, <2>1, Zenon
  <2>3. IsNotCanonical(g) = FALSE
    BY <1>5, <1>8
  <2> QED BY <1>1, <1>5, <1>8, <2>2, <2>3 DEF Alike, NonKDim, SideOf, Chiral, h
<1> QED BY <1>5, <1>7, <1>8

(* The two solutions are the same, but that A and B may have changed       *)
(* places: r[x] is h[SideOf(swap, x)], and so is the side of the grid.     *)
SameKernel(h, r, swap) ==
  /\ MacroGrid(r).isGood /\ MacroGrid(h).isGood
  /\ \A x \in Chiral : /\ r[x] = h[SideOf(swap, x)]
                        /\ MacroGrid(r)[x] = MacroGrid(h)[SideOf(swap, x)]
  /\ \A p \in {"UNR", "UFO", "NAW", "ICE"} : r["C"][p] = h["C"][p]
  /\ r["C"]["GAL"] = SUCOL <=> h["C"]["GAL"] = SUCOL

(* They have the same tiles, and pack matrices into workspaces of the      *)
(* same size, but for a copy of a matrix that has changed its place.       *)
LEMMA SameTiles ==
  ASSUME NEW h, NEW r, NEW g, NEW c, NEW swap \in BOOLEAN, Alike(g, c, swap), SameKernel(h, r, swap),
         NEW x \in Chiral, NEW y, y = SideOf(swap, x)
  PROVE  /\ MacroTile(r, x) = MacroTile(h, y)
         /\ ElementsInUnroll(r, x) = ElementsInUnroll(h, y)
         /\ Cw2LoadPerItem(r, x) = Cw2LoadPerItem(h, y)
         /\ NGroups(r, g, x) = NGroups(h, c, y)
<1>1. /\ r[x] = h[y] /\ MacroGrid(r)[x] = MacroGrid(h)[y] /\ r["C"]["UNR"] = h["C"]["UNR"]
      /\ NonKDim(c, y) = NonKDim(g, x)
  BY DEF Alike, SameKernel
<1>2. MacroTile(r, x) = MacroTile(h, y)
  BY <1>1 DEF MacroTile
<1>3. ElementsInUnroll(r, x) = ElementsInUnroll(h, y)
  BY <1>1, <1>2 DEF ElementsInUnroll
<1>4. NGroups(r, g, x) = NGroups(h, c, y)
  <2>1. PreshiftFinalTile(r, g, x) = PreshiftFinalTile(h, c, y)
    BY <1>1, <1>2 DEF PreshiftFinalTile
  <2> QED BY <1>1, <1>2, <2>1 DEF NGroups
<1> QED BY <1>2, <1>3, <1>4 DEF Cw2LoadPerItem

(* The lines of copies are as long where the sides keep their places.      *)
LEMMA SameCopies ==
  ASSUME NEW g, NEW c, IsGeometry(g), IsGeometry(c), NEW swap \in BOOLEAN, ~swap, Alike(g, c, swap),
         NEW x \in Chiral
  PROVE  TargetLdx(g, x) = TargetLdx(c, x) /\ Uncoal(g, x) = Uncoal(c, x)
<1>1. /\ c.k = g.k /\ NonKDim(c, x) = NonKDim(g, x)
      /\ CoalIsPllK(c, x) = CoalIsPllK(g, x)
  BY DEF Alike, SideOf
<1>2. TargetLdx(g, x) = TargetLdx(c, x)
  BY <1>1 DEF TargetLdx, SmallestLdx
<1>3. ASSUME NEW e, IsGeometry(e)
      PROVE  Uncoal(e, x) = IF CoalIsPllK(e, x) THEN NonKDim(e, x) ELSE e.k
  <2>1. /\ CoalIsPllK(e, "A") <=> (e.cm <=> e.t["A"])
        /\ CoalIsPllK(e, "B") <=> ~(e.cm <=> e.t["B"])
    BY <1>3, LinesAlongK
  <2>2. e.cm \in BOOLEAN /\ e.t["A"] \in BOOLEAN /\ e.t["B"] \in BOOLEAN
    BY <1>3 DEF IsGeometry, Mats
  <2>3. CASE x = "A"
    <3>1. ((e.t["A"] = e.cm) = FALSE) <=> ~CoalIsPllK(e, "A")
      BY <2>1, <2>2, Zenon
    <3> QED BY <2>3, <3>1 DEF Uncoal, PadlessDim, NonKDim
  <2>4. CASE x = "B"
    <3>1. ((e.t["B"] = e.cm) = FALSE) <=> CoalIsPllK(e, "B")
      BY <2>1, <2>2, Zenon
    <3> QED BY <2>4, <3>1 DEF Uncoal, PadlessDim, NonKDim
  <2> QED BY <2>3, <2>4 DEF Chiral
<1>4. Uncoal(g, x) = Uncoal(c, x)
  BY <1>1, <1>3
<1> QED BY <1>2, <1>4

(* What the two need of a copy is the same.                                *)
CopiesAlike(h, g, c, swap) ==
  \A x \in Chiral :
    h[SideOf(swap, x)]["WOS"] = COPY =>
      /\ TargetLdx(g, x) = TargetLdx(c, SideOf(swap, x))
      /\ Uncoal(g, x) = Uncoal(c, SideOf(swap, x))

(* Then both can be derived, or neither: every test of set_fragile has the *)
(* same outcome, side by side.                                             *)
LEMMA SameDerivability ==
  ASSUME NEW h, NEW r, NEW g, NEW c, NEW swap \in BOOLEAN, Alike(g, c, swap), SameKernel(h, r, swap),
         CopiesAlike(h, g, c, swap), IsWhole(h),
         WorkItems(r) = WorkItems(h), RequiredWorkspace(r, g) = RequiredWorkspace(h, c)
  PROVE  Derivable(h, c) => Derivable(r, g)
<1>1. ASSUME NEW x \in Chiral, NEW y, y = SideOf(swap, x)
      PROVE  /\ NonKDim(c, y) >= MacroTile(h, y) <=> NonKDim(g, x) >= MacroTile(r, x)
             /\ Divides(h, y) <=> Divides(r, x)
             /\ Tileable(h, y) <=> Tileable(r, x)
             /\ Vectorizable(h, c, y) <=> Vectorizable(r, g, x)
  <2>1. /\ r[x] = h[y] /\ r["C"]["UNR"] = h["C"]["UNR"]
        /\ NonKDim(c, y) = NonKDim(g, x) /\ c.ld[y] = g.ld[x] /\ c.k = g.k
        /\ CoalIsPllK(c, y) = CoalIsPllK(g, x)
    BY <1>1 DEF Alike, SameKernel
  <2>2. /\ MacroTile(r, x) = MacroTile(h, y)
        /\ ElementsInUnroll(r, x) = ElementsInUnroll(h, y)
        /\ Cw2LoadPerItem(r, x) = Cw2LoadPerItem(h, y)
    BY <1>1, SameTiles
  <2>3. LoadPerItem(r, x) = LoadPerItem(h, y)
    BY <2>2 DEF LoadPerItem
  <2>4. Divides(h, y) <=> Divides(r, x)
    BY <2>1, <2>2 DEF Divides
  <2>5. Tileable(h, y) <=> Tileable(r, x)
    BY <2>1, <2>2, <2>3 DEF Tileable
  <2>6. MicroTile(r, x) = MicroTile(h, y)
    BY <2>1, <2>2, <2>3 DEF MicroTile
  <2>7. MicroTilesPllUnroll(r, x) = MicroTilesPllUnroll(h, y)
    BY <2>1, <2>6 DEF MicroTilesPllUnroll
  <2>8. ASSUME NEW pllK \in BOOLEAN
        PROVE  Stride(r, g, x, pllK, FALSE, r[x]["WOS"]) = Stride(h, c, y, pllK, FALSE, h[y]["WOS"])
    <3>1. (CoalIsPllK(c, y) = pllK) <=> (CoalIsPllK(g, x) = pllK)
      BY <2>1
    <3>2. h[y]["WOS"] = COPY => TargetLdx(g, x) = TargetLdx(c, y)
      BY <1>1 DEF CopiesAlike
    <3>3. h[y]["WOS"] \in {UNUSED, COPY, NFORM}
      BY <1>1, SidesAre DEF IsWhole
    <3>4. CASE h[y]["WOS"] = UNUSED
      BY <2>1, <3>1, <3>4 DEF Stride, UNUSED, COPY, NFORM
    <3>5. CASE h[y]["WOS"] = COPY
      BY <2>1, <3>1, <3>2, <3>5 DEF Stride, UNUSED, COPY, NFORM
    <3>6. CASE h[y]["WOS"] = NFORM
      BY <2>1, <2>2, <3>6 DEF Stride, UNUSED, COPY, NFORM
    <3> QED BY <3>3, <3>4, <3>5, <3>6
  <2>9. Vectorizable(h, c, y) <=> Vectorizable(r, g, x)
    <3>1. /\ Stride(r, g, x, TRUE, FALSE, r[x]["WOS"]) = Stride(h, c, y, TRUE, FALSE, h[y]["WOS"])
          /\ Stride(r, g, x, FALSE, FALSE, r[x]["WOS"]) = Stride(h, c, y, FALSE, FALSE, h[y]["WOS"])
      BY <2>8
    <3> QED BY <2>1, <2>6, <2>7, <3>1 DEF Vectorizable
  <2> QED BY <2>1, <2>2, <2>4, <2>5, <2>9
<1>2. ASSUME Derivable(h, c) PROVE BeforeTiles(h, c) /\ AllTileable(h) /\ AfterTiles(h, c)
  BY <1>2 DEF Derivable, Derivability
<1>3. ASSUME Derivable(h, c) PROVE Derivable(r, g)
  <2>1. \A x \in Chiral : SideOf(swap, x) \in Chiral
    BY SidesAre
  <2>2. BeforeTiles(r, g)
    <3>1. TilesInside(r, g)
      <4> SUFFICES ASSUME NEW x \in Chiral PROVE NonKDim(g, x) >= MacroTile(r, x)
        BY DEF TilesInside
      <4>1. NonKDim(c, SideOf(swap, x)) >= MacroTile(h, SideOf(swap, x))
        BY <1>2, <1>3, <2>1 DEF BeforeTiles, TilesInside
      <4> QED BY <1>1, <4>1
    <3>2. WorkspaceSuffices(r, g)
      BY <1>2, <1>3 DEF BeforeTiles, WorkspaceSuffices, Alike
    <3>3. \A x \in Chiral : Divides(r, x)
      BY <1>1, <1>2, <1>3, <2>1 DEF BeforeTiles
    <3> QED BY <3>1, <3>2, <3>3 DEF BeforeTiles, SameKernel
  <2>3. AllTileable(r)
    BY <1>1, <1>2, <1>3, <2>1 DEF AllTileable
  <2>4. AfterTiles(r, g)
    <3>1. \A x \in Chiral : Vectorizable(r, g, x)
      BY <1>1, <1>2, <1>3, <2>1 DEF AfterTiles
    <3>2. /\ r["C"]["UFO"] = h["C"]["UFO"] /\ r["C"]["UNR"] = h["C"]["UNR"] /\ g.k = c.k
          /\ r["C"]["GAL"] = SUCOL <=> h["C"]["GAL"] = SUCOL
          /\ r["C"]["NAW"] = h["C"]["NAW"] /\ r["C"]["ICE"] = h["C"]["ICE"]
      BY DEF SameKernel, Alike
    <3>3. SuperColumnWidth(r) = SuperColumnWidth(h)
      BY <3>2 DEF SuperColumnWidth
    <3> QED BY <1>2, <1>3, <3>1, <3>2, <3>3 DEF AfterTiles
  <2> QED BY <2>2, <2>3, <2>4 DEF Derivable, Derivability
<1> QED BY <1>3
(* A solution that is reflected stays the same, but for its sides.         *)
LEMMA ReflectionIsSame ==
  ASSUME NEW h, IsHyPas(h), h["C"]["MAC"] \in Powers, MacroGrid(h).isGood
  PROVE  /\ SameKernel(h, Reflected(h, TRUE), TRUE)
         /\ \A x \in Chiral : MacroGrid(h)[x] \in Nat /\ MacroGrid(h)[x] > 0
<1> DEFINE r == Reflected(h, TRUE)
           q == ReflectC(h["C"])
<1>1. r["A"] = h["B"] /\ r["B"] = h["A"] /\ r["C"] = q
  BY DEF Reflected
<1>2. h["C"] \in [NonChi -> Int]
  BY DEF IsHyPas, XChi, Mats
<1>3. \A p \in NonChi :
        q[p] = CASE p = "SKW" /\ Defined(h["C"], "MAC") -> ReflectedSkew(h["C"]["MAC"], h["C"]["SKW"])
                 [] p = "GAL" /\ h["C"][p] \in {BYROW, BYCOL} -> BYROW + BYCOL - h["C"][p]
                 [] p \in {"AFI", "MIA"} /\ h["C"][p] \in {NO, YES} -> YES - h["C"][p]
                 [] OTHER -> h["C"][p]
  BY <1>2 DEF ReflectC
<1>4. \A p \in {"UNR", "UFO", "NAW", "ICE", "MAC"} : p \in NonChi /\ q[p] = h["C"][p]
  <2> TAKE p \in {"UNR", "UFO", "NAW", "ICE", "MAC"}
  <2>1. p \in NonChi /\ p # "SKW" /\ p # "GAL" /\ p \notin {"AFI", "MIA"}
    BY DEF NonChi
  <2> QED BY <1>3, <2>1
<1>5. q["SKW"] = ReflectedSkew(h["C"]["MAC"], h["C"]["SKW"])
  <2>1. "SKW" \in NonChi /\ Defined(h["C"], "MAC")
    BY <1>2 DEF NonChi, Defined
  <2>2. "SKW" # "GAL" /\ "SKW" \notin {"AFI", "MIA"}
    OBVIOUS
  <2> QED BY <1>3, <2>1, <2>2
<1>6. q["GAL"] = SUCOL <=> h["C"]["GAL"] = SUCOL
  <2>1. "GAL" \in NonChi /\ "GAL" # "SKW" /\ "GAL" \notin {"AFI", "MIA"}
    BY DEF NonChi
  <2>2. q["GAL"] = IF h["C"]["GAL"] \in {BYROW, BYCOL} THEN BYROW + BYCOL - h["C"]["GAL"]
                   ELSE h["C"]["GAL"]
    BY <1>3, <2>1
  <2> QED BY <2>2 DEF BYROW, BYCOL, SUCOL
<1> HIDE DEF q, r
<1>7. h["C"]["SKW"] \in Int
  BY <1>2 DEF NonChi
<1>8. MacroGrid(h) = Grid(h["C"]["MAC"], h["C"]["SKW"])
  BY DEF MacroGrid
<1>9. MacroGrid(r) = [isGood |-> TRUE, A |-> MacroGrid(h).B, B |-> MacroGrid(h).A]
  BY <1>1, <1>4, <1>5, <1>7, <1>8, GridReflects DEF MacroGrid
<1>10. /\ MacroGrid(h)["A"] \in Nat /\ MacroGrid(h)["A"] > 0
       /\ MacroGrid(h)["B"] \in Nat /\ MacroGrid(h)["B"] > 0
  BY <1>7, <1>8, GridReflects
<1>11. /\ MacroGrid(r).isGood
       /\ MacroGrid(r)["A"] = MacroGrid(h)["B"] /\ MacroGrid(r)["B"] = MacroGrid(h)["A"]
  BY <1>9
<1>12. SameKernel(h, r, TRUE)
  BY <1>1, <1>4, <1>6, <1>11 DEF SameKernel, SideOf, Chiral
<1> QED BY <1>10, <1>12 DEF r, Chiral

(* A work group has as many work items, and the problem needs as large a   *)
(* workspace, when the sides are exchanged.                                *)
LEMMA SameSums ==
  ASSUME NEW h, NEW r, NEW g, NEW c, IsHyPas(h), IsWhole(h), IsGeometry(g), IsGeometry(c),
         NEW swap \in BOOLEAN, SideOf(swap, "A") = "B", SideOf(swap, "B") = "A",
         Alike(g, c, swap), SameKernel(h, r, swap),
         \A x \in Chiral : /\ MacroGrid(h)[x] \in Nat /\ MacroGrid(h)[x] > 0
                           /\ h[x]["WOS"] # COPY
  PROVE  WorkItems(r) = WorkItems(h) /\ RequiredWorkspace(r, g) = RequiredWorkspace(h, c)
<1>1. "A" \in Chiral /\ "B" \in Chiral /\ SideOf(swap, "A") = "B" /\ SideOf(swap, "B") = "A"
  BY DEF Chiral
<1>2. /\ MacroTile(r, "A") = MacroTile(h, "B") /\ MacroTile(r, "B") = MacroTile(h, "A")
      /\ NGroups(r, g, "A") = NGroups(h, c, "B") /\ NGroups(r, g, "B") = NGroups(h, c, "A")
  <2>1. ASSUME NEW x \in Chiral, NEW y, y = SideOf(swap, x)
        PROVE  MacroTile(r, x) = MacroTile(h, y) /\ NGroups(r, g, x) = NGroups(h, c, y)
    BY <2>1, SameTiles
  <2> QED BY <1>1, <2>1
<1>3. r["A"] = h["B"] /\ r["B"] = h["A"] /\ c.k = g.k
  BY <1>1 DEF SameKernel, Alike
<1>4. ASSUME NEW x \in Chiral
      PROVE  /\ h[x]["MIC"] \in Int /\ h[x]["MIC"] > 0
             /\ MacroTile(h, x) \in Nat /\ MacroTile(h, x) > 0
  <2>1. h[x] \in [Chi -> Int]
    BY DEF IsHyPas, XChi, Mats, Chiral
  <2>2. h[x]["MIC"] \in Int /\ h[x]["MIC"] > 0
    BY <2>1 DEF IsWhole, Chi
  <2> DEFINE s == MacroGrid(h)[x]
             m == h[x]["MIC"]
  <2>3. s \in Nat /\ s > 0 /\ m \in Nat /\ m > 0
    BY <2>2
  <2> HIDE DEF s, m
  <2>4. s * m \in Nat /\ s * m > 0
    BY <2>3
  <2> QED BY <2>2, <2>4 DEF MacroTile, s, m
<1>5. WorkItems(r) = WorkItems(h)
  <2> DEFINE ta == MacroTile(h, "A")
             tb == MacroTile(h, "B")
             ma == h["A"]["MIC"]
             mb == h["B"]["MIC"]
  <2>1. WorkItems(h) = (ta * tb) \div (ma * mb)
    BY DEF WorkItems
  <2>2. WorkItems(r) = (tb * ta) \div (mb * ma)
    BY <1>2, <1>3 DEF WorkItems
  <2>3. ta \in Int /\ tb \in Int /\ ma \in Int /\ mb \in Int
    BY <1>1, <1>4
  <2> HIDE DEF ta, tb, ma, mb
  <2>4. tb * ta = ta * tb /\ mb * ma = ma * mb
    BY <2>3
  <2> QED BY <2>1, <2>2, <2>4
<1>6. ASSUME NEW x \in Chiral
      PROVE  CwElements(h, c, x) \in Int
  <2>1. h[x]["WOS"] = UNUSED \/ h[x]["WOS"] = NFORM
    BY DEF IsWhole
  <2>2. c.k \in Int /\ NonKDim(c, x) \in Int
    BY DEF IsGeometry, NonKDim
  <2> DEFINE d == NonKDim(c, x)
             t == MacroTile(h, x)
  <2>3. d \in Int /\ t \in Nat /\ t > 0
    BY <1>4, <2>2
  <2>4. NGroups(h, c, x) = (d \div t) + (IF PreshiftFinalTile(h, c, x) # t THEN 1 ELSE 0)
    BY DEF NGroups
  <2>5. NGroups(h, c, x) \in Int
    <3> HIDE DEF d, t
    <3>1. d \div t \in Int
      BY <2>3
    <3> QED BY <2>4, <3>1
  <2>6. CASE h[x]["WOS"] = UNUSED
    BY <2>6 DEF CwElements, UNUSED, COPY, NFORM
  <2>7. CASE h[x]["WOS"] = NFORM
    <3>1. CwElements(h, c, x) = NGroups(h, c, x) * t * c.k
      BY <2>7 DEF CwElements, UNUSED, COPY, NFORM
    <3> DEFINE n == NGroups(h, c, x)
               k == c.k
    <3>2. n \in Int /\ t \in Int /\ k \in Int
      BY <2>2, <2>3, <2>5
    <3> HIDE DEF n, k, t
    <3>3. n * t * k \in Int
      BY <3>2
    <3> QED BY <3>1, <3>3 DEF n, k
  <2> QED BY <2>1, <2>6, <2>7
<1>7. CwElements(r, g, "A") = CwElements(h, c, "B") /\ CwElements(r, g, "B") = CwElements(h, c, "A")
  <2>1. h["A"]["WOS"] \in {UNUSED, NFORM} /\ h["B"]["WOS"] \in {UNUSED, NFORM}
    BY <1>1 DEF IsWhole
  <2>2. CwElements(r, g, "A") = CwElements(h, c, "B")
    BY <1>2, <1>3, <2>1 DEF CwElements, UNUSED, COPY, NFORM
  <2>3. CwElements(r, g, "B") = CwElements(h, c, "A")
    BY <1>2, <1>3, <2>1 DEF CwElements, UNUSED, COPY, NFORM
  <2> QED BY <2>2, <2>3
<1>8. RequiredWorkspace(r, g) = RequiredWorkspace(h, c)
  <2>1. CwElements(h, c, "A") \in Int /\ CwElements(h, c, "B") \in Int
    BY <1>1, <1>6
  <2> QED BY <1>7, <2>1 DEF RequiredWorkspace
<1> QED BY <1>5, <1>8

(* What is derivable for the canonical geometry, and is reflected where    *)
(* the given one is another, is derivable for the given one.               *)
LEMMA ReflectionDerivable ==
  ASSUME NEW h, IsHyPas(h), IsWhole(h), NEW g, IsGeometry(g), Derivable(h, Canonical(g)),
         IsNotCanonical(g) =>
           (\A x \in Chiral : h[x]["WOS"] # COPY) /\ h["C"]["MAC"] \in Powers
  PROVE  Derivable(Reflected(h, IsNotCanonical(g)), g)
<1> DEFINE c == Canonical(g)
<1>1. Alike(g, c, IsNotCanonical(g)) /\ IsNotCanonical(g) \in BOOLEAN
  BY CanonicalIsAlike
<1>2. IsGeometry(c)
  BY CanonicalIsGeometry
<1> HIDE DEF c
<1>3. Derivable(h, c) /\ MacroGrid(h).isGood
  BY DEF Derivable, Derivability, BeforeTiles, c
<1>4. CASE IsNotCanonical(g)
  <2> DEFINE swap == IsNotCanonical(g)
             r == Reflected(h, swap)
  <2>1. swap \in BOOLEAN /\ swap = TRUE /\ Alike(g, c, swap)
    BY <1>1, <1>4
  <2> HIDE DEF swap
  <2>2. SameKernel(h, r, swap) /\ \A x \in Chiral : MacroGrid(h)[x] \in Nat /\ MacroGrid(h)[x] > 0
    BY <1>3, <1>4, <2>1, ReflectionIsSame
  <2> HIDE DEF r
  <2>3. SideOf(swap, "A") = "B" /\ SideOf(swap, "B") = "A"
    BY <2>1 DEF SideOf
  <2>4. WorkItems(r) = WorkItems(h) /\ RequiredWorkspace(r, g) = RequiredWorkspace(h, c)
    BY <1>2, <1>4, <2>1, <2>2, <2>3, SameSums
  <2>5. CopiesAlike(h, g, c, swap)
    BY <1>4, SidesAre DEF CopiesAlike
  <2>6. Derivable(r, g)
    BY <1>3, <2>1, <2>2, <2>4, <2>5, SameDerivability
  <2> QED BY <2>6 DEF r, swap
<1>5. CASE ~IsNotCanonical(g)
  <2> DEFINE swap == IsNotCanonical(g)
  <2>1. swap \in BOOLEAN /\ swap = FALSE /\ Alike(g, c, swap)
    BY <1>1, <1>5
  <2> HIDE DEF swap
  <2>2. \A x \in Chiral : SideOf(swap, x) = x
    BY <2>1 DEF SideOf
  <2>3. SameKernel(h, h, swap)
    BY <1>3, <2>2 DEF SameKernel
  <2>4. CopiesAlike(h, g, c, swap)
    BY <1>2, <2>1, <2>2, SameCopies DEF CopiesAlike
  <2>5. RequiredWorkspace(h, g) = RequiredWorkspace(h, c)
    <3>1. ASSUME NEW x \in Chiral
          PROVE  NGroups(h, g, x) = NGroups(h, c, x) /\ MacroTile(h, x) = MacroTile(h, x)
      <4>1. x = SideOf(swap, x)
        BY <2>2
      <4> QED BY <2>1, <2>3, <4>1, SameTiles
    <3>2. \A x \in Chiral : TargetLdx(g, x) = TargetLdx(c, x) /\ Uncoal(g, x) = Uncoal(c, x)
      BY <1>2, <2>1, SameCopies
    <3>3. g.k = c.k
      BY <2>1 DEF Alike
    <3>4. ASSUME NEW x \in Chiral PROVE CwElements(h, g, x) = CwElements(h, c, x)
      BY <3>1, <3>2, <3>3 DEF CwElements
    <3> QED BY <3>4 DEF RequiredWorkspace, Chiral
  <2>6. Derivable(h, g)
    BY <1>3, <2>1, <2>3, <2>4, <2>5, SameDerivability
  <2>7. Reflected(h, swap) = h
    BY <2>1 DEF Reflected
  <2> QED BY <2>6, <2>7 DEF swap
<1> QED BY <1>4, <1>5
(* Solutions are whole wherever they are kept: they come from the caches   *)
(* that were read.                                                         *)
LEMMA WholeStays ==
  ASSUME IInv, WholeCaches, Next
  PROVE  WholeCaches'
<1> DEFINE Whole(kc) == \A k \in DOMAIN kc : IsWhole(kc[k])
<1>1. Merging /\ Whole(kc1) /\ Whole(kc2) /\ Whole(cache)
  BY DEF IInv, WholeCaches
<1>2. Whole(kc1') /\ Whole(kc2') /\ Whole(cache') => WholeCaches'
  BY DEF WholeCaches
<1>3. CASE ReduceWorkspaces
  <2>1. UNCHANGED <<kc1, cache>> /\ (kc2' = kc2 \/ kc2' = Reduced(kc2))
    BY <1>3 DEF ReduceWorkspaces
  <2>2. Whole(Reduced(kc2))
    <3> DEFINE old(kk) == CHOOSE k \in DOMAIN kc2 : ReducedKey(kc2, k) = kk
               D == {ReducedKey(kc2, k) : k \in DOMAIN kc2}
    <3>1. Reduced(kc2) = [kk \in D |-> kc2[old(kk)]]
      BY DEF Reduced
    <3>2. \A kk \in D : old(kk) \in DOMAIN kc2
      OBVIOUS
    <3> HIDE DEF old, D
    <3>3. DOMAIN Reduced(kc2) = D /\ \A kk \in D : Reduced(kc2)[kk] = kc2[old(kk)]
      BY <3>1
    <3> QED BY <1>1, <3>2, <3>3
  <2> HIDE DEF Whole
  <2> QED BY <1>1, <1>2, <2>1, <2>2
<1>4. CASE MergeNext /\ ~ReduceWorkspaces
  <2>1. UNCHANGED <<kc1, kc2>>
    BY <1>4 DEF MergeNext, Collect, PopulateDoubles, Agree, BeginDuel, Round, DuelThrows, EndDuel, Award,
                EndMerge, mergeVars
  <2>2. UNCHANGED cache \/ at' \in {"populate doubles", "populate floats", "duel", "merged"}
    BY <1>4 DEF MergeNext, Collect, PopulateDoubles, Agree, BeginDuel, Round, DuelThrows, EndDuel, Award,
                EndMerge, mergeVars
  <2>3. CASE UNCHANGED cache
    <3> HIDE DEF Whole
    <3> QED BY <1>1, <1>2, <2>1, <2>3
  <2>4. CASE at' \in {"populate doubles", "populate floats", "duel", "merged"}
    <3>1. Merging'
      BY <1>4, MergeStays DEF IInv
    <3>2. \A k \in DOMAIN cache' : cache'[k] \in Had(k)'
      BY <2>4, <3>1 DEF Merging, Kept
    <3>3. \A k : \A h \in Had(k)' : IsWhole(h)
      BY <1>1, <2>1 DEF Had, Present
    <3>4. Whole(cache')
      BY <3>2, <3>3
    <3> HIDE DEF Whole
    <3> QED BY <1>1, <1>2, <2>1, <3>4
  <2> QED BY <2>2, <2>3, <2>4
<1>5. CASE MakeConstraints
  <2>1. kc1' = <<>> /\ kc2' = <<>> /\ UNCHANGED cache
    BY <1>5 DEF MakeConstraints
  <2>2. Whole(<<>>)
    OBVIOUS
  <2> HIDE DEF Whole
  <2> QED BY <1>1, <1>2, <2>1, <2>2
<1>6. CASE MakeKeyAndGraph \/ LookWithin \/ GetNearest \/ GetGeneric \/ GetRandomValidStart \/ GiveUp
           \/ MakeBundle \/ Step
  <2>1. UNCHANGED <<kc1, kc2, cache>>
    BY <1>6 DEF MakeKeyAndGraph, LookWithin, GetNearest, GetGeneric, GetRandomValidStart, GiveUp,
                MakeBundle, Step, mergeVars
  <2> HIDE DEF Whole
  <2> QED BY <1>1, <1>2, <2>1
<1> QED BY <1>3, <1>4, <1>5, <1>6 DEF Next, Merge

(* What a bundle is made of is what was just derived, or found.            *)
LEMMA ChosenStays ==
  ASSUME IInv, Chosen, Next
  PROVE  Chosen'
<1>1. Answering
  BY DEF IInv
<1>2. CASE GetNearest
  <2>1. PICK k \in Nearest(ReqKey, ReqGraph, cache, req.rank) :
          key' = k /\ hp' = Reflected(cache[k], Swap)
    BY <1>2 DEF GetNearest
  <2>2. UNCHANGED <<req, cache>>
    BY <1>2 DEF GetNearest, mergeVars
  <2>3. key' # <<>>
    <3>1. k \in DOMAIN cache /\ IsCache(cache)
      BY <2>1 DEF Nearest, Candidates, IInv, Merging
    <3>2. k = [dvc |-> k.dvc, con |-> k.con, gg |-> k.gg]
      BY <3>1 DEF IsCache, IsKey
    <3>3. DOMAIN k = {"dvc", "con", "gg"} /\ DOMAIN <<>> = {}
      BY <3>2
    <3> QED BY <2>1, <3>3
  <2>4. Swap' = Swap
    BY <2>2, SameRequest
  <2> QED BY <2>1, <2>2, <2>3, <2>4 DEF Chosen
<1>3. CASE GetGeneric \/ GetRandomValidStart
  <2>1. key' = <<>> /\ UNCHANGED req
    BY <1>1, <1>3 DEF GetGeneric, GetRandomValidStart, Answering, BeforeAnswer
  <2>2. at' = "bundle" => Derivable(hp', req.gg)
    BY <1>3 DEF GetGeneric, GetRandomValidStart, Goto, Throw
  <2> QED BY <2>1, <2>2 DEF Chosen
<1>4. CASE Merge \/ MakeConstraints \/ MakeKeyAndGraph \/ LookWithin \/ GiveUp \/ MakeBundle \/ Step
  <2>1. at' # "bundle"
    BY <1>4 DEF Merge, MergeNext, ReduceWorkspaces, Collect, PopulateDoubles, Agree, BeginDuel, Round,
                DuelThrows, EndDuel, Award, EndMerge, MakeConstraints, MakeKeyAndGraph, LookWithin, GiveUp,
                MakeBundle, Step, Goto, Throw
  <2> QED BY <2>1 DEF Chosen
<1> QED BY <1>2, <1>3, <1>4 DEF Next

(* What was found was derivable for the canonical geometry.                *)
LEMMA FoundIsDerivable ==
  ASSUME IInv, at = "bundle", key # <<>>
  PROVE  /\ key \in DOMAIN cache /\ IsHyPas(cache[key])
         /\ Derivable(cache[key], Canonical(req.gg)) /\ IsGeometry(req.gg)
<1>1. req \in Requests /\ key \in Nearest(ReqKey, ReqGraph, cache, req.rank) /\ IsCache(cache)
  BY DEF IInv, Answering, BeforeRequest, Merging
<1>2. key \in DOMAIN cache /\ Derivable(cache[key], ReqKey.gg)
  BY <1>1 DEF Nearest, Candidates
<1>3. ReqKey.gg = Canonical(req.gg)
  BY DEF ReqKey, CacheKey
<1> QED BY <1>1, <1>2, <1>3, RequestsAssumption DEF IsCache

(* Only a bundle that was reflected fails, and that for one of the two     *)
(* reasons: MakeBundle is the one step that throws at "bundle".            *)
LEMMA ReflectedStays ==
  ASSUME IInv, WholeCaches, Chosen, ReflectedDerivable, Next
  PROVE  ReflectedDerivable'
<1>1. CASE MakeBundle
  <2>1. UNCHANGED <<req, key, hp, cache>>
    BY <1>1 DEF MakeBundle, mergeVars
  <2>2. Swap' = Swap
    BY <2>1, SameRequest
  <2>3. CASE Derivable(hp, req.gg)
    <3>1. why' = why /\ why = ""
      BY <1>1, <2>3 DEF MakeBundle, Goto, IInv, Answering
    <3> QED BY <3>1 DEF ReflectedDerivable
  <2>4. CASE ~Derivable(hp, req.gg)
    <3>1. at = "bundle"
      BY <1>1 DEF MakeBundle
    <3>2. key # <<>> /\ hp = Reflected(cache[key], Swap)
      BY <2>4, <3>1 DEF Chosen
    <3> DEFINE h == cache[key]
               g == req.gg
    <3>3. IsHyPas(h) /\ Derivable(h, Canonical(g)) /\ IsGeometry(g) /\ IsWhole(h)
      BY <3>1, <3>2, FoundIsDerivable DEF WholeCaches
    <3>4. hp = Reflected(h, IsNotCanonical(g)) /\ ~Derivable(hp, g)
      BY <2>4, <3>2 DEF Swap
    <3> HIDE DEF h, g
    <3>5. /\ IsNotCanonical(g)
          /\ ~((\A x \in Chiral : h[x]["WOS"] # COPY) /\ h["C"]["MAC"] \in Powers)
      BY <3>3, <3>4, ReflectionDerivable
    <3>6. hp["A"] = h["B"] /\ hp["B"] = h["A"] /\ hp["C"] = ReflectC(h["C"])
      BY <3>4, <3>5 DEF Reflected
    <3>7. hp["C"]["MAC"] = h["C"]["MAC"]
      <4>1. h["C"] \in [NonChi -> Int] /\ "MAC" \in NonChi
        BY <3>3 DEF IsHyPas, XChi, Mats, NonChi
      <4>2. "MAC" # "SKW" /\ "MAC" # "GAL" /\ "MAC" \notin {"AFI", "MIA"}
        OBVIOUS
      <4> QED BY <3>6, <4>1, <4>2 DEF ReflectC
    <3>8. (\E x \in Chiral : hp[x]["WOS"] = COPY) \/ hp["C"]["MAC"] \notin Powers
      BY <3>5, <3>6, <3>7 DEF Chiral
    <3>9. Swap
      BY <3>5 DEF Swap, g
    <3> QED BY <2>1, <2>2, <3>8, <3>9 DEF ReflectedDerivable
  <2> QED BY <2>3, <2>4
<1>2. CASE Merge \/ MakeConstraints \/ MakeKeyAndGraph \/ LookWithin \/ GetNearest \/ GetGeneric
           \/ GetRandomValidStart \/ GiveUp \/ Step
  <2>1. at # "thrown" /\ at # "bundle" /\ (why' = why \/ why' = at)
    BY <1>2 DEF Merge, MergeNext, ReduceWorkspaces, Collect, PopulateDoubles, Agree, BeginDuel, Round,
                DuelThrows, EndDuel, Award, EndMerge, MakeConstraints, MakeKeyAndGraph, LookWithin, GetNearest,
                GetGeneric, GetRandomValidStart, GiveUp, Step, Goto, Throw
  <2>2. why = ""
    BY <2>1 DEF IInv, Answering
  <2>3. why' # "bundle"
    BY <2>1, <2>2
  <2> QED BY <2>3 DEF ReflectedDerivable
<1> QED BY <1>1, <1>2 DEF Next

(* A solution for the canonical geometry that was reflected can be derived *)
(* for the given one, for caches of whole solutions, unless it copies a    *)
(* matrix or its work items are no power of 2.                             *)
THEOREM ReflectionsDerivable ==
  ASSUME WholeInputs
  PROVE Spec => []ReflectedDerivable
<1>1. Init => WholeCaches /\ Chosen /\ ReflectedDerivable
  <2> SUFFICES ASSUME Init PROVE WholeCaches /\ Chosen /\ ReflectedDerivable
    OBVIOUS
  <2>1. kc1 \in Caches /\ kc2 \in Caches /\ cache = <<>> /\ at = "reduce" /\ why = ""
    BY DEF Init, MergeInit
  <2>2. DOMAIN <<>> = {}
    OBVIOUS
  <2> QED BY <2>1, <2>2 DEF WholeCaches, WholeInputs, Chosen, ReflectedDerivable
<1>2. /\ IInv /\ WholeCaches /\ Chosen /\ ReflectedDerivable /\ [Next]_vars
      => WholeCaches' /\ Chosen' /\ ReflectedDerivable'
  <2> SUFFICES ASSUME IInv, WholeCaches, Chosen, ReflectedDerivable, [Next]_vars
               PROVE  WholeCaches' /\ Chosen' /\ ReflectedDerivable'
    OBVIOUS
  <2>1. CASE Next
    BY <2>1, WholeStays, ChosenStays, ReflectedStays
  <2>2. CASE UNCHANGED vars
    <3>1. UNCHANGED <<at, kc1, kc2, cache, req, key, hp, why>>
      BY <2>2 DEF vars, mergeVars
    <3>2. Swap' = Swap
      BY <3>1, SameRequest
    <3> QED BY <3>1, <3>2 DEF WholeCaches, Chosen, ReflectedDerivable
  <2> QED BY <2>1, <2>2
<1> QED BY <1>1, <1>2, Invariance, PTL DEF Spec
================================================================================
