------------------------------ MODULE ProblemProofs ------------------------------
(***************************************************************************)
(* Theorems about problems, for all hyper-parameters and geometries: what  *)
(* the host computes without a device, the tiles that can always be found, *)
(* work groups and their unrolls, what the packing kernels write, what the *)
(* main kernel loads, sums and writes, that work groups have the tiles of  *)
(* C and the shares of the summation among them, each once, and that this  *)
(* adds up to what the host computes. No state is spoken of here.          *)
(***************************************************************************)
EXTENDS MainShares, HyperParams, TLAPS, NaturalsInduction, WellFoundedInduction, FiniteSetTheorems

---------------------------------------------------------------------------
(* What the host computes.                                                 *)


Geometries ==
  [cm : BOOLEAN, t : [Mats -> BOOLEAN], ld : [Mats -> Nat],
   m : Nat, n : Nat, k : Nat, ws : Nat, ft : {"f", "d"}]

(* What redirect_base makes of a geometry, spelt out.                      *)
RedirectedTo(g, swap, tA, tB) ==
  [cm |-> TRUE, tA |-> tA, tB |-> tB, tC |-> FALSE,
   m |-> IF swap THEN g.n ELSE g.m, n |-> IF swap THEN g.m ELSE g.n,
   a |-> IF swap THEN [ldx |-> g.ld["B"], emat |-> "B"] ELSE [ldx |-> g.ld["A"], emat |-> "A"],
   b |-> IF swap THEN [ldx |-> g.ld["A"], emat |-> "A"] ELSE [ldx |-> g.ld["B"], emat |-> "B"]]

(* What a redirection gives is made of the parts it is given.              *)
LEMMA RedirectedParts ==
  ASSUME NEW g \in Geometries
  PROVE  /\ g.cm /\ ~g.t["C"] => Redirected(g) = RedirectedTo(g, FALSE, g.t["A"], g.t["B"])
         /\ g.cm /\ g.t["C"] => Redirected(g) = RedirectedTo(g, TRUE, ~g.t["B"], ~g.t["A"])
         /\ ~g.cm /\ ~g.t["C"] => Redirected(g) = RedirectedTo(g, TRUE, g.t["B"], g.t["A"])
         /\ ~g.cm /\ g.t["C"] => Redirected(g) = RedirectedTo(g, FALSE, ~g.t["A"], ~g.t["B"])
<1> DEFINE r == [cm |-> g.cm, tA |-> g.t["A"], tB |-> g.t["B"], tC |-> g.t["C"],
                 m |-> g.m, n |-> g.n,
                 a |-> [ldx |-> g.ld["A"], emat |-> "A"],
                 b |-> [ldx |-> g.ld["B"], emat |-> "B"]]
<1>0. /\ g.cm \in BOOLEAN /\ g.t["C"] \in BOOLEAN /\ g.t["A"] \in BOOLEAN /\ g.t["B"] \in BOOLEAN
  BY DEF Geometries, Mats
<1>1. Redirected(g) = UntransposeC(ToColMajor(r))
  BY DEF Redirected, RedirectBase
<1>2. CASE g.cm /\ ~g.t["C"]
  <2>1. ToColMajor(r) = r
    BY <1>2 DEF ToColMajor
  <2>2. UntransposeC(r) = r
    BY <1>2 DEF UntransposeC
  <2>3. r = RedirectedTo(g, FALSE, g.t["A"], g.t["B"])
    BY <1>0, <1>2 DEF RedirectedTo
  <2> QED BY <1>1, <1>2, <2>1, <2>2, <2>3
<1>3. CASE g.cm /\ g.t["C"]
  <2>1. ToColMajor(r) = r
    BY <1>3 DEF ToColMajor
  <2>2. UntransposeC(r) = RedirectedTo(g, TRUE, ~g.t["B"], ~g.t["A"])
    BY <1>0, <1>3 DEF UntransposeC, Exchanged, RedirectedTo
  <2> QED BY <1>1, <1>3, <2>1, <2>2
<1> DEFINE s == [cm |-> TRUE, tA |-> g.t["B"], tB |-> g.t["A"], tC |-> g.t["C"],
                 m |-> g.n, n |-> g.m, a |-> r.b, b |-> r.a]
<1>4. ~g.cm => ToColMajor(r) = s
  BY <1>0 DEF ToColMajor, Exchanged
<1>5. CASE ~g.cm /\ ~g.t["C"]
  <2>1. UntransposeC(s) = s
    BY <1>5 DEF UntransposeC
  <2>2. s = RedirectedTo(g, TRUE, g.t["B"], g.t["A"])
    BY <1>0, <1>5 DEF RedirectedTo
  <2> QED BY <1>1, <1>4, <1>5, <2>1, <2>2
<1>6. CASE ~g.cm /\ g.t["C"]
  <2>1. UntransposeC(s) = RedirectedTo(g, FALSE, ~g.t["A"], ~g.t["B"])
    BY <1>0, <1>6 DEF UntransposeC, Exchanged, RedirectedTo
  <2> QED BY <1>1, <1>4, <1>6, <2>1
<1> QED BY <1>0, <1>2, <1>3, <1>5, <1>6

(* Whether A and B change places.                                          *)
Swapped(g) == ~(g.cm <=> ~g.t["C"])

(* The canonical geometry is made of the parts of the geometry.            *)
LEMMA CanonicalParts ==
  ASSUME NEW g \in Geometries
  PROVE  /\ Canonical(g) \in Geometries
         /\ Canonical(g).cm /\ ~Canonical(g).t["C"]
         /\ IsNotCanonical(g) <=> Swapped(g)
         /\ ~Swapped(g) =>
              /\ Canonical(g).m = g.m /\ Canonical(g).n = g.n
              /\ Canonical(g).ld["A"] = g.ld["A"] /\ Canonical(g).ld["B"] = g.ld["B"]
              /\ Canonical(g).t["A"] <=> (g.t["A"] <=> g.cm)
              /\ Canonical(g).t["B"] <=> (g.t["B"] <=> g.cm)
         /\ Swapped(g) =>
              /\ Canonical(g).m = g.n /\ Canonical(g).n = g.m
              /\ Canonical(g).ld["A"] = g.ld["B"] /\ Canonical(g).ld["B"] = g.ld["A"]
              /\ Canonical(g).t["A"] <=> (g.t["B"] <=> ~g.cm)
              /\ Canonical(g).t["B"] <=> (g.t["A"] <=> ~g.cm)
         /\ Canonical(g).ld["C"] = g.ld["C"] /\ Canonical(g).k = g.k
<1>0. /\ g.cm \in BOOLEAN /\ g.t["C"] \in BOOLEAN /\ g.t["A"] \in BOOLEAN /\ g.t["B"] \in BOOLEAN
      /\ g.ld["A"] \in Nat /\ g.ld["B"] \in Nat /\ g.ld["C"] \in Nat
      /\ g.m \in Nat /\ g.n \in Nat /\ g.k \in Nat /\ g.ws \in Nat /\ g.ft \in {"f", "d"}
  BY DEF Geometries, Mats
<1>1. ASSUME NEW swap \in BOOLEAN, NEW tA \in BOOLEAN, NEW tB \in BOOLEAN,
             Redirected(g) = RedirectedTo(g, swap, tA, tB)
      PROVE  /\ Canonical(g) = [g EXCEPT !.cm = TRUE, !.t = [A |-> tA, B |-> tB, C |-> FALSE],
                   !.ld = [A |-> IF swap THEN g.ld["B"] ELSE g.ld["A"],
                           B |-> IF swap THEN g.ld["A"] ELSE g.ld["B"], C |-> g.ld["C"]],
                   !.m = IF swap THEN g.n ELSE g.m, !.n = IF swap THEN g.m ELSE g.n]
             /\ IsNotCanonical(g) <=> swap
  BY <1>1 DEF Canonical, IsNotCanonical, RedirectedTo
<1>2. ASSUME NEW swap \in BOOLEAN, NEW tA \in BOOLEAN, NEW tB \in BOOLEAN,
             Redirected(g) = RedirectedTo(g, swap, tA, tB)
      PROVE  /\ Canonical(g) \in Geometries
             /\ Canonical(g).cm /\ ~Canonical(g).t["C"]
             /\ Canonical(g).t["A"] <=> tA
             /\ Canonical(g).t["B"] <=> tB
             /\ Canonical(g).ld["A"] = IF swap THEN g.ld["B"] ELSE g.ld["A"]
             /\ Canonical(g).ld["B"] = IF swap THEN g.ld["A"] ELSE g.ld["B"]
             /\ Canonical(g).ld["C"] = g.ld["C"] /\ Canonical(g).k = g.k
             /\ Canonical(g).m = IF swap THEN g.n ELSE g.m
             /\ Canonical(g).n = IF swap THEN g.m ELSE g.n
  <2> DEFINE t == [A |-> tA, B |-> tB, C |-> FALSE]
             ld == [A |-> IF swap THEN g.ld["B"] ELSE g.ld["A"],
                    B |-> IF swap THEN g.ld["A"] ELSE g.ld["B"], C |-> g.ld["C"]]
             m == IF swap THEN g.n ELSE g.m
             n == IF swap THEN g.m ELSE g.n
  <2>1. t \in [Mats -> BOOLEAN] /\ ld \in [Mats -> Nat] /\ m \in Nat /\ n \in Nat
    <3>1. t = [x \in Mats |-> t[x]] /\ ld = [x \in Mats |-> ld[x]]
      BY DEF Mats
    <3>2. t["A"] \in BOOLEAN /\ t["B"] \in BOOLEAN /\ t["C"] \in BOOLEAN
      OBVIOUS
    <3>3. ld["A"] \in Nat /\ ld["B"] \in Nat /\ ld["C"] \in Nat
      BY <1>0
    <3>4. m \in Nat /\ n \in Nat
      BY <1>0
    <3> HIDE DEF t, ld, m, n
    <3>5. t \in [Mats -> BOOLEAN]
      <4>1. \A x \in Mats : t[x] \in BOOLEAN
        BY <3>2 DEF Mats
      <4> QED BY <3>1, <4>1, Zenon
    <3> QED BY <3>1, <3>3, <3>4, <3>5 DEF Mats
  <2>2. Canonical(g) = [g EXCEPT !.cm = TRUE, !.t = t, !.ld = ld, !.m = m, !.n = n]
    BY <1>1, <1>2
  <2>3. /\ t["A"] <=> tA
        /\ t["B"] <=> tB
        /\ ~t["C"]
    OBVIOUS
  <2>4. /\ ld["A"] = IF swap THEN g.ld["B"] ELSE g.ld["A"]
        /\ ld["B"] = IF swap THEN g.ld["A"] ELSE g.ld["B"]
        /\ ld["C"] = g.ld["C"]
    OBVIOUS
  <2> HIDE DEF t, ld, m, n
  <2>5. Canonical(g) \in Geometries
    BY <1>0, <2>1, <2>2 DEF Geometries
  <2>6. /\ Canonical(g).cm = TRUE /\ Canonical(g).t = t /\ Canonical(g).ld = ld
        /\ Canonical(g).m = m /\ Canonical(g).n = n /\ Canonical(g).k = g.k
    BY <2>2 DEF Geometries
  <2> QED BY <2>3, <2>4, <2>5, <2>6 DEF m, n
<1> QED BY <1>0, <1>1, <1>2, RedirectedParts DEF Swapped

---------------------------------------------------------------------------

(* The reference GEMM of the host never throws for a geometry that could   *)
(* be constructed: what it is redirected to is canonical, and its leading  *)
(* dimensions are still large enough (redirect, confirm_redirection).      *)
THEOREM CpuAlwaysPossible ==
  ASSUME NEW g \in Geometries, LdxConsistent(g)
  PROVE  CpuPossible(g)
<1> DEFINE h == Canonical(g)
<1>0. /\ g.cm \in BOOLEAN /\ g.t["C"] \in BOOLEAN /\ g.t["A"] \in BOOLEAN /\ g.t["B"] \in BOOLEAN
  BY DEF Geometries, Mats
<1>1. /\ g.ld["A"] >= Coal(g, "A")
      /\ g.ld["B"] >= Coal(g, "B")
      /\ g.ld["C"] >= Coal(g, "C")
  BY DEF LdxConsistent, Mats
<1>2. RedirectionDone(h)
  BY CanonicalParts DEF RedirectionDone
<1>3. h.cm \in BOOLEAN /\ h.t["C"] \in BOOLEAN /\ h.t["A"] \in BOOLEAN /\ h.t["B"] \in BOOLEAN
  BY CanonicalParts DEF Geometries, Mats
<1>4. /\ Coal(h, "A") = IF h.t["A"] THEN h.k ELSE h.m
      /\ Coal(h, "B") = IF h.t["B"] THEN h.n ELSE h.k
      /\ Coal(h, "C") = h.m
  BY <1>3, CanonicalParts DEF Coal, PadlessDim
<1>5. /\ Coal(g, "A") = IF g.t["A"] <=> g.cm THEN g.k ELSE g.m
      /\ Coal(g, "B") = IF g.t["B"] <=> g.cm THEN g.n ELSE g.k
      /\ Coal(g, "C") = IF g.t["C"] <=> g.cm THEN g.n ELSE g.m
  BY <1>0 DEF Coal, PadlessDim
<1>6. CASE ~Swapped(g)
  BY <1>0, <1>1, <1>2, <1>4, <1>5, <1>6, CanonicalParts
  DEF CpuPossible, LdxConsistent, Mats, Swapped
<1>7. CASE Swapped(g)
  BY <1>0, <1>1, <1>2, <1>4, <1>5, <1>7, CanonicalParts
  DEF CpuPossible, LdxConsistent, Mats, Swapped
<1> QED BY <1>6, <1>7

(* The parts of the four threads cover a host matrix of any size, also one *)
(* that four does not divide: nothing of it is left as it was (fill_uni).  *)
THEOREM FilledWhole ==
  ASSUME NEW size \in Nat
  PROVE  Filled(size) = [i \in 0 .. size - 1 |-> i]
<1>1. ASSUME NEW i \in 0 .. size - 1
      PROVE  \E t \in 0 .. FillThreads - 1 : i \in FillPart(size, t)
  <2>1. /\ (0 * size) \div 4 = 0
        /\ (4 * size) \div 4 = size
    BY SMT
  <2>2. /\ (1 * size) \div 4 \in Nat /\ (2 * size) \div 4 \in Nat /\ (3 * size) \div 4 \in Nat
    BY SMT
  <2>3. \/ (0 * size) \div 4 <= i /\ i < (1 * size) \div 4
        \/ (1 * size) \div 4 <= i /\ i < (2 * size) \div 4
        \/ (2 * size) \div 4 <= i /\ i < (3 * size) \div 4
        \/ (3 * size) \div 4 <= i /\ i < (4 * size) \div 4
    BY <2>1, <2>2
  <2> QED BY <2>1, <2>2, <2>3 DEF FillPart, FillThreads
<1> QED BY <1>1 DEF Filled

(* No element of a host matrix is written by two of the threads, which do   *)
(* not wait for each other (fill_uni).                                     *)
THEOREM FilledByOne ==
  ASSUME NEW size \in Nat, NEW t \in 0 .. FillThreads - 1, NEW u \in 0 .. FillThreads - 1,
         NEW i \in FillPart(size, t) \cap FillPart(size, u)
  PROVE  t = u
<1>1. ASSUME NEW a \in 0 .. 3, NEW b \in 0 .. 3, a < b
      PROVE  ((a + 1) * size) \div 4 <= (b * size) \div 4
  <2>1. (a + 1) * size <= b * size
    BY <1>1
  <2> QED BY <2>1
<1> QED BY <1>1 DEF FillPart, FillThreads

---------------------------------------------------------------------------

GoodC(c) ==
  /\ DOMAIN c \subseteq NonChi
  /\ "SKW" \in DOMAIN c => c["SKW"] \in Int
  /\ "GAL" \in DOMAIN c => c["GAL"] \in {BYROW, BYCOL, SUCOL}
  /\ \A p \in {"AFI", "MIA"} \cap DOMAIN c : c[p] \in {NO, YES}

(* Reflection is an involution on constraints of C, and on all of its       *)
(* hyper-parameters: what is cached for the canonical problem after it was *)
(* found for another is what is found again (reflect_c).                   *)
THEOREM ReflectionUndone ==
  ASSUME NEW c, c = [p \in DOMAIN c |-> c[p]], GoodC(c)
  PROVE  ReflectC(ReflectC(c)) = c
<1> DEFINE d == ReflectC(c)
<1>1. DOMAIN d = DOMAIN c
  BY DEF ReflectC
<1>2. ASSUME NEW p \in DOMAIN c
      PROVE  ReflectC(d)[p] = c[p]
  <2>0. "MAC" \in DOMAIN c => d["MAC"] = c["MAC"]
    BY DEF ReflectC
  <2>1. CASE p = "SKW" /\ Defined(c, "MAC")
    <3>1. d[p] = ReflectedSkew(c["MAC"], c["SKW"])
      BY <2>1 DEF ReflectC
    <3>2. ReflectC(d)[p] = ReflectedSkew(c["MAC"], d["SKW"])
      BY <1>1, <2>0, <2>1 DEF ReflectC, Defined
    <3> QED BY <2>1, <3>1, <3>2 DEF ReflectedSkew, GoodC, Skew0
  <2>2. CASE p = "SKW" /\ ~Defined(c, "MAC")
    BY <1>1, <2>2 DEF ReflectC, Defined
  <2>3. CASE p = "GAL"
    BY <1>1, <2>3 DEF ReflectC, GoodC, BYROW, BYCOL, SUCOL
  <2>4. CASE p \in {"AFI", "MIA"}
    BY <1>1, <2>4 DEF ReflectC, GoodC, YES, NO
  <2>5. CASE p \notin {"SKW", "GAL", "AFI", "MIA"}
    BY <1>1, <2>5 DEF ReflectC
  <2> QED BY <2>1, <2>2, <2>3, <2>4, <2>5
<1>3. ReflectC(d) = [p \in DOMAIN c |-> ReflectC(d)[p]]
  BY <1>1 DEF ReflectC
<1> QED BY <1>2, <1>3

---------------------------------------------------------------------------
(* Numbers.                                                                *)

(* A set of natural numbers that is not empty has a smallest one.          *)
LEMMA Smallest ==
  ASSUME NEW T \in SUBSET Nat, T # {}
  PROVE \E x \in T : \A y \in T : x <= y
<1>1. IsWellFoundedOn(OpToRel(<, Nat), Nat)
  BY NatLessThanWellFounded
<1>2. \A x, y \in Nat : x < y => <<x, y>> \in OpToRel(<, Nat)
  BY DEF OpToRel
<1>3. \E R : IsWellFoundedOn(R, Nat) /\ \A x, y \in Nat : x < y => <<x, y>> \in R
  BY <1>1, <1>2, Zenon
<1>4. PICK R : IsWellFoundedOn(R, Nat) /\ \A x, y \in Nat : x < y => <<x, y>> \in R
  BY <1>3
<1>5. PICK x \in T : \A y \in T : ~(<<y, x>> \in R)
  <2>1. IsWellFoundedOn(R, Nat) /\ T \subseteq Nat /\ T # {}
    BY <1>4
  <2> QED BY <2>1, WFMin, Zenon
<1>6. \A y \in T : x <= y
  <2> TAKE y \in T
  <2>1. x \in Nat /\ y \in Nat
    OBVIOUS
  <2>2. ~(y < x)
    BY <1>4, <1>5, <2>1, Zenon
  <2> QED BY <2>1, <2>2
<1> QED BY <1>6

(* A set of numbers up to n that is not empty has a largest one, Max.      *)
LEMMA Largest ==
  ASSUME NEW n \in Nat, NEW T \in SUBSET (0 .. n), T # {}
  PROVE Max(T) \in T /\ \A y \in T : y <= Max(T)
<1> DEFINE D == {n - y : y \in T}
<1>1. PICK d \in D : \A e \in D : d <= e
  <2>1. \A y \in T : n - y \in Nat
    OBVIOUS
  <2>2. D \in SUBSET Nat /\ D # {}
    BY <2>1
  <2> HIDE DEF D
  <2> QED BY <2>2, Smallest
<1>2. PICK x \in T : d = n - x
  OBVIOUS
<1>3. \A y \in T : y <= x
  <2> TAKE y \in T
  <2>1. n - y \in D /\ y \in Int /\ x \in Int
    OBVIOUS
  <2>2. n - x <= n - y
    BY <1>1, <1>2, <2>1
  <2> QED BY <2>1, <2>2
<1>4. \E z \in T : \A y \in T : z >= y
  BY <1>3
<1> QED BY <1>4 DEF Max

(* Division with rest.                                                     *)
LEMMA DivMod ==
  ASSUME NEW a \in Int, NEW b \in Nat, b > 0
  PROVE  /\ a \div b \in Int /\ a % b \in Nat /\ a % b < b
         /\ a = b * (a \div b) + (a % b)
         /\ a >= 0 => a \div b \in Nat
OBVIOUS

(* Laws of multiplication.                                                 *)
LEMMA Products ==
  ASSUME NEW a \in Int, NEW b \in Int, NEW f \in Int
  PROVE  /\ a * b \in Int /\ a * b = b * a /\ (a * b) * f = a * (b * f)
         /\ a * (b + f) = a * b + a * f /\ a * (b - f) = a * b - a * f
         /\ a * 1 = a /\ a * 0 = 0
         /\ a >= 0 /\ b >= 0 => a * b >= 0
         /\ a > 0 /\ b > 0 => a * b > 0 /\ a * b >= a /\ a * b >= b
OBVIOUS

(* The last of three factors comes second.                                 *)
LEMMA Regrouped ==
  ASSUME NEW a \in Int, NEW b \in Int, NEW f \in Int
  PROVE  (a * b) * f = a * (f * b) /\ a * b = b * a
BY Products

(* Multiplication grows.                                                   *)
LEMMA ProductsGrow ==
  ASSUME NEW a \in Int, NEW b \in Int, NEW f \in Nat
  PROVE  /\ a <= b => f * a <= f * b
         /\ f > 0 /\ a < b => f * a < f * b
         /\ f > 0 /\ f * a < f * b => a < b
         /\ f > 0 /\ f * a <= f * b => a <= b
         /\ f > 0 /\ f * a = f * b => a = b
OBVIOUS

(* What is rounded up is a number.                                         *)
LEMMA CeilDivIsNatural ==
  ASSUME NEW a \in Nat, NEW b \in Nat, b > 0
  PROVE  CeilDiv(a, b) \in Nat
BY DivMod DEF CeilDiv

(* There is one quotient, with one rest.                                   *)
LEMMA DivUnique ==
  ASSUME NEW b \in Nat, NEW q \in Int, NEW r \in Int, 0 <= r, r < b
  PROVE  (b * q + r) \div b = q /\ (b * q + r) % b = r
<1> DEFINE a == b * q + r
<1>1. a \in Int /\ b > 0
  OBVIOUS
<1>2. PICK p \in Int, s \in Nat : p = a \div b /\ s = a % b /\ s < b /\ a = b * p + s
  BY <1>1, DivMod
<1>3. b * (p - q) = r - s
  BY <1>2, Products
<1>4. p = q
  <2>1. CASE p > q
    <3>1. b * 1 <= b * (p - q)
      BY <2>1, ProductsGrow
    <3> QED BY <3>1, <1>3, <1>2
  <2>2. CASE p < q
    <3>1. b * (p - q) <= b * (-1)
      BY <2>2, ProductsGrow
    <3> QED BY <3>1, <1>3, <1>2
  <2> QED BY <2>1, <2>2
<1> QED BY <1>2, <1>4

(* A product is divided by either of its factors.                          *)
LEMMA DivExact ==
  ASSUME NEW b \in Nat, NEW q \in Int, b > 0
  PROVE  (b * q) \div b = q /\ (b * q) % b = 0 /\ (q * b) \div b = q /\ (q * b) % b = 0
<1>1. (b * q + 0) \div b = q /\ (b * q + 0) % b = 0
  BY DivUnique
<1>2. b * q + 0 = b * q /\ q * b = b * q
  BY Products
<1> QED BY <1>1, <1>2

(* What is divided without a rest is a product.                            *)
LEMMA NoRest ==
  ASSUME NEW a \in Nat, NEW b \in Nat, b > 0, a % b = 0
  PROVE  a \div b \in Nat /\ a = b * (a \div b) /\ (a > 0 => a \div b > 0 /\ b <= a)
<1>1. a \div b \in Nat /\ a = b * (a \div b) + (a % b)
  BY DivMod
<1>2. ASSUME a > 0 PROVE a \div b > 0
  <2>1. a \div b = 0 => b * (a \div b) = 0
    BY Products
  <2> QED BY <1>1, <1>2, <2>1
<1>3. ASSUME a > 0 PROVE b <= a
  BY <1>1, <1>2, <1>3, Products
<1> QED BY <1>1, <1>2, <1>3

---------------------------------------------------------------------------
(* Tiles.                                                                  *)

(* The largest divisor that a and b have in common is a sum of multiples   *)
(* of the two.                                                             *)
LEMMA Bezout ==
  ASSUME NEW a \in Nat, NEW b \in Nat, a > 0, b > 0, NEW d \in Nat, d > 0, a % d = 0, b % d = 0,
         \A e \in Nat : e > 0 /\ a % e = 0 /\ b % e = 0 => e <= d
  PROVE \E x, y \in Int : d = a * x + b * y
<1> DEFINE Sum(n) == \E x, y \in Int : n = a * x + b * y
           L == {n \in Nat : n > 0 /\ Sum(n)}
<1>0. L \in SUBSET Nat /\ \A n : n \in L <=> n \in Nat /\ n > 0 /\ Sum(n)
  OBVIOUS
<1> HIDE DEF L
<1>1. Sum(a) /\ Sum(b)
  <2>1. a = a * 1 + b * 0 /\ b = a * 0 + b * 1
    BY Products
  <2>2. 0 \in Int /\ 1 \in Int
    OBVIOUS
  <2> QED BY <2>1, <2>2, Zenon
<1>2. PICK e \in L : \A n \in L : e <= n
  <2>1. L # {}
    BY <1>0, <1>1
  <2> QED BY <1>0, <2>1, Smallest
<1>3. PICK x \in Int, y \in Int : e = a * x + b * y
  BY <1>0
<1>4. e \in Nat /\ e > 0
  BY <1>0
<1> HIDE DEF Sum
<1>5. ASSUME NEW n \in {a, b} PROVE n % e = 0
  <2> DEFINE q == n \div e
             r == n % e
  <2>1. q \in Int /\ r \in Nat /\ r < e /\ n = e * q + r
    BY <1>4, DivMod
  <2>2. PICK u \in Int, v \in Int : n = a * u + b * v
    BY <1>1, <1>5 DEF Sum
  <2> HIDE DEF q, r
  <2>3. e * q = a * (x * q) + b * (y * q)
    BY <1>3, <2>1, Products
  <2>4. r = a * (u - x * q) + b * (v - y * q) /\ u - x * q \in Int /\ v - y * q \in Int
    BY <2>1, <2>2, <2>3, Products
  <2>5. Sum(r)
    BY <2>4 DEF Sum
  <2>6. ~(r > 0)
    BY <1>0, <1>2, <1>4, <2>1, <2>5
  <2> QED BY <2>1, <2>6 DEF r
<1>6. e <= d
  BY <1>4, <1>5
<1>7. \E p, q \in Nat : a = d * p /\ b = d * q
  <2>1. a \div d \in Nat /\ a = d * (a \div d) /\ b \div d \in Nat /\ b = d * (b \div d)
    BY NoRest
  <2> QED BY <2>1, Zenon
<1> PICK p \in Nat, q \in Nat : a = d * p /\ b = d * q
  BY <1>7
<1>8. e = d * (p * x + q * y) /\ p * x + q * y \in Int
  BY <1>3, <1>7, Products
<1>9. p * x + q * y >= 1
  <2>1. p * x + q * y <= 0 => d * (p * x + q * y) <= d * 0
    BY <1>8, ProductsGrow
  <2>2. d * 0 = 0
    BY Products
  <2> QED BY <1>4, <1>8, <2>1, <2>2
<1>10. d <= e
  BY <1>8, <1>9, Products
<1>11. d = a * x + b * y
  BY <1>3, <1>4, <1>6, <1>10
<1> QED BY <1>11, Zenon

(* What is left of a without the largest divisor it has in common with b   *)
(* divides r, if a divides b * r.                                          *)
LEMMA Euclid ==
  ASSUME NEW a \in Nat, NEW b \in Nat, a > 0, b > 0, NEW d \in Nat, d > 0, a % d = 0, b % d = 0,
         \A e \in Nat : e > 0 /\ a % e = 0 /\ b % e = 0 => e <= d,
         NEW r \in Nat, NEW s \in Int, b * r = a * s
  PROVE a \div d > 0 /\ r % (a \div d) = 0
<1>1. PICK x \in Int, y \in Int : d = a * x + b * y
  BY Bezout
<1> DEFINE q == a \div d
           t == r * x + s * y
<1>2. q \in Nat /\ q > 0 /\ a = d * q
  BY NoRest
<1>3. t \in Int
  BY Products
<1>4. r * d = a * t
  <2>1. r * d = a * (r * x) + (b * r) * y
    BY <1>1, Products
  <2>2. (b * r) * y = a * (s * y)
    BY Products
  <2> QED BY <2>1, <2>2, Products
<1> HIDE DEF q, t
<1>5. d * r = d * (q * t)
  BY <1>2, <1>3, <1>4, Products
<1>6. r = q * t
  BY <1>2, <1>3, <1>5, ProductsGrow
<1>7. r % q = 0
  BY <1>2, <1>3, <1>6, DivExact
<1> QED BY <1>2, <1>7 DEF q

(* If areas divide, a tile is found, which divides on both sides.          *)
LEMMA TileFound ==
  ASSUME NEW TH \in Nat, NEW TW \in Nat, NEW tS \in Nat, TH > 0, TW > 0, tS > 0, (TH * TW) % tS = 0,
         NEW t, t = TileNoChecks(TH, TW, tS)
  PROVE  /\ t = <<t[1], t[2]>> /\ t[1] \in Nat /\ t[2] \in Nat /\ t[1] > 0 /\ t[2] > 0
         /\ t[1] * t[2] = tS /\ TH % t[1] = 0 /\ TW % t[2] = 0 /\ t # NoTile
<1> DEFINE D == {e \in 1 .. TH : TH % e = 0 /\ tS % e = 0}
           fit == {e \in Multiples(TH) : tS % e = 0 /\ tS \div e <= TW}
<1>0. \A e \in 1 .. TH : e \in D <=> TH % e = 0 /\ tS % e = 0
  OBVIOUS
<1>1. \A e \in fit : e \in D /\ tS \div e <= TW
  BY DEF Multiples
<1>2. \A e \in D : tS \div e <= TW => e \in fit
  BY DEF Multiples
<1>3. D \in SUBSET (0 .. TH) /\ 1 \in D
  <2>1. TH = 1 * TH /\ tS = 1 * tS
    BY Products
  <2>2. TH % 1 = 0 /\ tS % 1 = 0
    BY <2>1, DivExact
  <2> QED BY <2>2
<1> HIDE DEF fit, D
<1> DEFINE d == Max(D)
<1>4. d \in D /\ \A e \in D : e <= d
  BY <1>3, Largest
<1> HIDE DEF d
<1>5. d \in Nat /\ d > 0 /\ TH % d = 0 /\ tS % d = 0
  BY <1>0, <1>3, <1>4
<1>6. ASSUME NEW e \in Nat, e > 0, tS % e = 0, TH % e = 0 PROVE e <= d
  <2>1. e <= TH
    BY <1>6, NoRest
  <2> QED BY <1>0, <1>4, <1>6, <2>1
<1>7. tS \div d \in Nat /\ tS = d * (tS \div d)
  BY <1>5, NoRest
<1>8. TH * TW = tS * ((TH * TW) \div tS) /\ (TH * TW) \div tS \in Int
  BY NoRest, Products
<1>9. tS \div d > 0 /\ TW % (tS \div d) = 0
  BY <1>5, <1>6, <1>8, Euclid
<1>10. tS \div d <= TW
  BY <1>7, <1>9, NoRest
<1>11. d \in fit /\ \A e \in fit : e <= d
  BY <1>1, <1>2, <1>4, <1>10
<1>12. fit \in SUBSET (0 .. TH)
  BY <1>1, <1>3
<1>13. Max(fit) \in fit /\ \A e \in fit : e <= Max(fit)
  BY <1>11, <1>12, Largest
<1>14. Max(fit) = d
  <2>1. Max(fit) <= d /\ d <= Max(fit)
    BY <1>11, <1>13
  <2>2. \A e \in fit : e \in Int
    BY <1>12
  <2>3. Max(fit) \in Int
    BY <1>13, <2>2
  <2> QED BY <1>5, <2>1, <2>3
<1>15. t = <<d, tS \div d>>
  <2>1. t = IF fit = {} THEN NoTile ELSE <<Max(fit), tS \div Max(fit)>>
    BY DEF TileNoChecks, fit
  <2> QED BY <1>11, <1>14, <2>1
<1>16. t[1] = d /\ t[2] = tS \div d
  BY <1>15
<1> QED BY <1>5, <1>7, <1>9, <1>15, <1>16 DEF NoTile

---------------------------------------------------------------------------
(* What is derived.                                                        *)

(* Powers of 2 are positive.                                               *)
LEMMA PowersArePositive ==
  \A e \in 0 .. 29 : 2^e \in Nat /\ 2^e > 0
<1> DEFINE pow == [i \in 0 .. 29 |-> 2^i]
<1>1. pow[0] = 1 /\ pow[1] = 2 /\ pow[2] = 4 /\ pow[3] = 8 /\ pow[4] = 16 /\ pow[5] = 32
      /\ pow[6] = 64 /\ pow[7] = 128 /\ pow[8] = 256 /\ pow[9] = 512 /\ pow[10] = 1024
      /\ pow[11] = 2048 /\ pow[12] = 4096 /\ pow[13] = 8192 /\ pow[14] = 16384
      /\ pow[15] = 32768 /\ pow[16] = 65536 /\ pow[17] = 131072 /\ pow[18] = 262144
      /\ pow[19] = 524288 /\ pow[20] = 1048576 /\ pow[21] = 2097152
      /\ pow[22] = 4194304 /\ pow[23] = 8388608 /\ pow[24] = 16777216
      /\ pow[25] = 33554432 /\ pow[26] = 67108864 /\ pow[27] = 134217728
      /\ pow[28] = 268435456 /\ pow[29] = 536870912
  OBVIOUS
<1>2. \A e \in 0 .. 29 : pow[e] = 2^e
  OBVIOUS
<1> HIDE DEF pow
<1>3. \A e \in 0 .. 29 : pow[e] \in Nat /\ pow[e] > 0
  BY <1>1
<1> QED BY <1>2, <1>3

(* A good grid has MAC work items.                                         *)
LEMMA GoodGrid ==
  ASSUME NEW mac \in Nat, mac > 0, NEW skew, NEW r, r = Grid(mac, skew), r.isGood
  PROVE  /\ r["A"] \in Nat /\ r["A"] > 0 /\ r["B"] \in Nat /\ r["B"] > 0
         /\ r["A"] * r["B"] = mac
<1> DEFINE e == (Log2(mac) \div 2) + (Log2(mac) % 2) - (skew - Skew0)
<1>1. r = IF e \in 0 .. 29 /\ mac % 2^e = 0
          THEN [isGood |-> TRUE, A |-> 2^e, B |-> mac \div 2^e]
          ELSE [isGood |-> FALSE, A |-> 0, B |-> 0]
  BY DEF Grid
<1> HIDE DEF e
<1>2. e \in 0 .. 29 /\ mac % 2^e = 0 /\ r["A"] = 2^e /\ r["B"] = mac \div 2^e
  BY <1>1
<1>3. 2^e \in Nat /\ 2^e > 0
  BY <1>2, PowersArePositive
<1> QED BY <1>2, <1>3, NoRest

(* A problem, part by part: what can be calculated with.                   *)
LEMMA ProblemParts ==
  ASSUME NEW p, IsProblem(p)
  PROVE  /\ \A x \in Chiral :
              /\ p.hp[x]["MIC"] \in Nat /\ p.hp[x]["MIC"] > 0
              /\ p.hp[x]["VEW"] \in Nat /\ p.hp[x]["VEW"] > 0
              /\ p.hp[x]["PAD"] \in Nat /\ p.hp[x]["LIW"] \in Int
              /\ p.hp[x]["MIW"] \in Int /\ p.hp[x]["PLU"] \in Int
              /\ p.gg.ld[x] \in Nat /\ p.gg.ld[x] >= Coal(p.gg, x)
         /\ p.hp["C"]["UNR"] \in Nat /\ p.hp["C"]["UNR"] > 0
         /\ p.hp["C"]["ICE"] \in Nat /\ p.hp["C"]["ICE"] > 0
         /\ p.hp["C"]["MAC"] \in Nat /\ p.hp["C"]["MAC"] > 0
         /\ p.hp["C"]["NAW"] \in Nat
         /\ p.gg.m \in Nat /\ p.gg.n \in Nat /\ p.gg.k \in Nat /\ p.gg.ws \in Nat
         /\ p.off["W"] \in Nat /\ \A x \in Mats : p.off[x] \in Nat /\ p.tail[x] \in Nat
<1>1. IsHyPas(p.hp) /\ IsGeometry(p.gg) /\ LdxConsistent(p.gg)
  BY DEF IsProblem
<1>2. \A x \in Chiral : \A key \in Chi : p.hp[x][key] \in Int
  BY <1>1 DEF IsHyPas, Chiral, Mats, XChi
<1>3. \A key \in NonChi : p.hp["C"][key] \in Int
  BY <1>1 DEF IsHyPas, Mats, XChi
<1>4. \A x \in Chiral :
        /\ p.hp[x]["MIC"] \in Int /\ p.hp[x]["VEW"] \in Int /\ p.hp[x]["PAD"] \in Int
        /\ p.hp[x]["LIW"] \in Int /\ p.hp[x]["MIW"] \in Int /\ p.hp[x]["PLU"] \in Int
        /\ p.hp[x]["MIC"] > 0 /\ p.hp[x]["VEW"] > 0 /\ p.hp[x]["PAD"] >= 0
  BY <1>2 DEF Chi, IsProblem
<1>5. /\ p.hp["C"]["UNR"] \in Int /\ p.hp["C"]["ICE"] \in Int /\ p.hp["C"]["MAC"] \in Int
      /\ p.hp["C"]["NAW"] \in Int
      /\ p.hp["C"]["UNR"] > 0 /\ p.hp["C"]["ICE"] > 0 /\ p.hp["C"]["MAC"] > 0
      /\ p.hp["C"]["NAW"] >= 0
  BY <1>3 DEF NonChi, IsProblem
<1>6. \A x \in Chiral : p.gg.ld[x] \in Nat /\ p.gg.ld[x] >= Coal(p.gg, x)
  BY <1>1 DEF IsGeometry, LdxConsistent, Chiral, Mats
<1>7. p.gg.m \in Nat /\ p.gg.n \in Nat /\ p.gg.k \in Nat /\ p.gg.ws \in Nat
  BY <1>1 DEF IsGeometry, IsProblem
<1>8. p.off["W"] \in Nat /\ \A x \in Mats : p.off[x] \in Nat /\ p.tail[x] \in Nat
  BY DEF IsProblem
<1> QED BY <1>4, <1>5, <1>6, <1>7, <1>8

(* A good grid, and the work items, tiles and elements that come of it.    *)
LEMMA Tiled ==
  ASSUME NEW p, IsProblem(p), MacroGrid(p.hp).isGood
  PROVE  /\ \A x \in Chiral :
              /\ MacroGrid(p.hp)[x] \in Nat /\ MacroGrid(p.hp)[x] > 0
              /\ MacroTile(p.hp, x) \in Nat /\ MacroTile(p.hp, x) > 0
              /\ ElementsInUnroll(p.hp, x) \in Nat /\ ElementsInUnroll(p.hp, x) > 0
         /\ WorkItems(p.hp) = MacroGrid(p.hp)["A"] * MacroGrid(p.hp)["B"]
         /\ WorkItems(p.hp) = p.hp["C"]["MAC"]
         /\ WorkItems(p.hp) \in Nat /\ WorkItems(p.hp) > 0
<1> DEFINE a == MacroGrid(p.hp)["A"]
           b == MacroGrid(p.hp)["B"]
           mA == p.hp["A"]["MIC"]
           mB == p.hp["B"]["MIC"]
           unr == p.hp["C"]["UNR"]
<1>1. a \in Nat /\ a > 0 /\ b \in Nat /\ b > 0 /\ a * b = p.hp["C"]["MAC"]
  BY ProblemParts, GoodGrid DEF MacroGrid
<1>2. mA \in Nat /\ mA > 0 /\ mB \in Nat /\ mB > 0 /\ unr \in Nat /\ unr > 0
  BY ProblemParts DEF Chiral
<1>3. MacroTile(p.hp, "A") = a * mA /\ MacroTile(p.hp, "B") = b * mB
  BY DEF MacroTile
<1>4. \A x \in Chiral : ElementsInUnroll(p.hp, x) = MacroTile(p.hp, x) * unr
  BY DEF ElementsInUnroll
<1>5. WorkItems(p.hp) = (MacroTile(p.hp, "A") * MacroTile(p.hp, "B")) \div (mA * mB)
  BY DEF WorkItems
<1> HIDE DEF a, b, mA, mB, unr
<1>6. (a * mA) * (b * mB) = (a * b) * (mA * mB)
  BY <1>1, <1>2, Products
<1>7. mA * mB \in Nat /\ mA * mB > 0 /\ a * b \in Nat /\ a * b > 0
  BY <1>1, <1>2, Products
<1>8. ((a * b) * (mA * mB)) \div (mA * mB) = a * b
  BY <1>7, DivExact
<1>9. WorkItems(p.hp) = a * b
  BY <1>3, <1>5, <1>6, <1>8
<1>10. \A x \in Chiral : MacroTile(p.hp, x) \in Nat /\ MacroTile(p.hp, x) > 0
  BY <1>1, <1>2, <1>3, Products DEF Chiral
<1>11. \A x \in Chiral : ElementsInUnroll(p.hp, x) \in Nat /\ ElementsInUnroll(p.hp, x) > 0
  BY <1>2, <1>4, <1>10, Products
<1>12. \A x \in Chiral : MacroGrid(p.hp)[x] \in Nat /\ MacroGrid(p.hp)[x] > 0
  BY <1>1 DEF a, b, Chiral
<1> QED BY <1>1, <1>7, <1>9, <1>10, <1>11, <1>12 DEF a, b

(* What an item loads, if the elements are shared evenly by so many.        *)
LEMMA Shared ==
  ASSUME NEW total \in Nat, total > 0, NEW items \in Nat, items > 0, total % items = 0
  PROVE  /\ total \div items \in Nat /\ total \div items > 0
         /\ total = (total \div items) * items /\ total % (total \div items) = 0
<1> DEFINE q == total \div items
<1>1. q \in Nat /\ q > 0 /\ total = items * q
  BY NoRest
<1> HIDE DEF q
<1>2. total = q * items
  BY <1>1, Products
<1>3. total % q = 0
  BY <1>1, <1>2, DivExact
<1> QED BY <1>1, <1>2, <1>3 DEF q

(* Where all divides, tiles are found.                                     *)
LEMMA DividesIsTileable ==
  ASSUME NEW p, IsProblem(p), MacroGrid(p.hp).isGood, NEW x \in Chiral, Divides(p.hp, x)
  PROVE  Tileable(p.hp, x)
<1> DEFINE TH == MacroTile(p.hp, x)
           TW == p.hp["C"]["UNR"]
<1>1. TH \in Nat /\ TH > 0 /\ TW \in Nat /\ TW > 0 /\ ElementsInUnroll(p.hp, x) = TH * TW
      /\ TH * TW \in Nat /\ TH * TW > 0
  BY Tiled, ProblemParts, Products DEF ElementsInUnroll
<1>2. WorkItems(p.hp) \in Nat /\ WorkItems(p.hp) > 0 /\ Cw2LocalWorkSize \in Nat /\ Cw2LocalWorkSize > 0
  BY Tiled DEF Cw2LocalWorkSize
<1> HIDE DEF TH, TW
<1>3. ASSUME NEW items \in Nat, items > 0, (TH * TW) % items = 0
      PROVE Tileability(TH, TW, (TH * TW) \div items) = "yes"
  <2> DEFINE tS == (TH * TW) \div items
             t == TileNoChecks(TH, TW, tS)
  <2>1. tS \in Nat /\ tS > 0 /\ (TH * TW) % tS = 0
    BY <1>1, <1>3, Shared
  <2> HIDE DEF tS
  <2>2. t[1] * t[2] = tS /\ TW % t[2] = 0 /\ t # NoTile
    BY <1>1, <2>1, TileFound
  <2> HIDE DEF t
  <2>3. Tileability(TH, TW, tS) =
          IF tS = 0 \/ t = NoTile THEN "throws"
          ELSE IF TW % t[2] # 0 \/ t[1] * t[2] # tS THEN "throws" ELSE "yes"
    BY DEF Tileability, t
  <2>4. Tileability(TH, TW, tS) = "yes"
    BY <2>1, <2>2, <2>3
  <2> QED BY <2>4 DEF tS
<1>4. Tileability(TH, TW, LoadPerItem(p.hp, x)) = "yes"
  BY <1>1, <1>2, <1>3 DEF Divides, LoadPerItem
<1>5. p.hp[x]["WOS"] = NFORM => Tileability(TH, TW, Cw2LoadPerItem(p.hp, x)) = "yes"
  BY <1>1, <1>2, <1>3 DEF Divides, Cw2LoadPerItem
<1> QED BY <1>4, <1>5 DEF Tileable, TH, TW

(* get_tileability, which could only ever throw, never does: the tiles of   *)
(* whatever derivedparams.cpp has let through fit.                         *)
LEMMA NeverThrows ==
  ASSUME NEW p, IsProblem(p)
  PROVE  Derivability(p.hp, p.gg) # "throws"
<1>1. CASE BeforeTiles(p.hp, p.gg)
  <2>1. AllTileable(p.hp)
    BY <1>1, DividesIsTileable DEF BeforeTiles, AllTileable
  <2> QED BY <2>1 DEF Derivability
<1>2. CASE ~BeforeTiles(p.hp, p.gg)
  BY <1>2 DEF Derivability
<1> QED BY <1>1, <1>2

---------------------------------------------------------------------------
(* What the items of a group load.                                         *)

(* What is true of a solution that can be derived.                         *)
LEMMA DerivableParts ==
  ASSUME NEW p, IsProblem(p), Derivable(p.hp, p.gg)
  PROVE  /\ MacroGrid(p.hp).isGood
         /\ TilesInside(p.hp, p.gg) /\ WorkspaceSuffices(p.hp, p.gg)
         /\ \A x \in Chiral : Divides(p.hp, x) /\ Vectorizable(p.hp, p.gg, x)
         /\ p.hp["C"]["UFO"] = YES => p.gg.k > p.hp["C"]["UNR"]
         /\ p.hp["C"]["GAL"] = SUCOL => SuperColumnWidth(p.hp) # 0
<1>1. BeforeTiles(p.hp, p.gg) /\ AfterTiles(p.hp, p.gg)
  BY DEF Derivable, Derivability
<1> QED BY <1>1 DEF BeforeTiles, AfterTiles

(* Blocks of b, one after the other.                                       *)
LEMMA Blocked ==
  ASSUME NEW n \in Nat, NEW b \in Nat, NEW u \in 0 .. n - 1, NEW i \in 0 .. b - 1
  PROVE  b * u + i \in 0 .. b * n - 1
<1>1. b * u <= b * (n - 1) /\ b * (n - 1) = b * n - b /\ b * u \in Nat
  <2>1. b * u \in Int /\ b * n \in Int /\ b * (n - 1) = b * n - b * 1 /\ b * 1 = b /\ b * u >= 0
    BY Products
  <2>2. b * u <= b * (n - 1)
    BY ProductsGrow
  <2> QED BY <2>1, <2>2
<1> QED BY <1>1

(* Strides of n, one in the other.                                         *)
LEMMA Strided ==
  ASSUME NEW n \in Nat, NEW b \in Nat, NEW u \in 0 .. n - 1, NEW i \in 0 .. b * n - 1, i % n = 0
  PROVE  u + i \in 0 .. b * n - 1
<1> DEFINE q == i \div n
<1>1. q \in Nat /\ i = n * q
  BY DivMod
<1>2. n * b = b * n /\ n * b \in Int
  BY Products
<1> HIDE DEF q
<1>3. q < b
  BY <1>1, <1>2, ProductsGrow
<1>4. n * q + u \in 0 .. n * b - 1
  BY <1>1, <1>3, Blocked
<1> QED BY <1>1, <1>2, <1>4

(* There are as many tiles h * v in the macro tile as items share it.      *)
LEMMA ItemsShareTile ==
  ASSUME NEW TH \in Nat, NEW TW \in Nat, NEW items \in Nat, NEW h \in Nat, NEW v \in Nat,
         h > 0, v > 0, TH % h = 0, TW % v = 0, NEW tS \in Nat, tS > 0, h * v = tS, TH * TW = tS * items
  PROVE  items = (TH \div h) * (TW \div v)
<1> DEFINE a == TH \div h
           b == TW \div v
           r == a * b
<1>1. a \in Nat /\ TH = h * a /\ b \in Nat /\ TW = v * b
  BY NoRest
<1> HIDE DEF a, b
<1>2. (h * v) * (a * b) = (h * a) * (v * b) /\ a * b \in Int
  BY <1>1, Products
<1>3. r \in Int /\ tS * r = tS * items
  BY <1>1, <1>2
<1> HIDE DEF r
<1>4. r = items
  BY <1>3, ProductsGrow
<1> QED BY <1>4 DEF r, a, b

(* The tile that an item loads divides the macro tile on both sides, and   *)
(* there is one for each item.                                             *)
LEMMA LoadTile ==
  ASSUME NEW p, IsProblem(p), Derivable(p.hp, p.gg), NEW x \in Chiral,
         NEW t, t = MicroTile(p.hp, x)
  PROVE  /\ t[1] \in Nat /\ t[1] > 0 /\ MacroTile(p.hp, x) % t[1] = 0
         /\ t[2] \in Nat /\ t[2] > 0 /\ p.hp["C"]["UNR"] % t[2] = 0
         /\ t[1] * t[2] = LoadPerItem(p.hp, x)
         /\ WorkItems(p.hp) = (MacroTile(p.hp, x) \div t[1]) * (p.hp["C"]["UNR"] \div t[2])
<1> DEFINE TH == MacroTile(p.hp, x)
           TW == p.hp["C"]["UNR"]
           items == WorkItems(p.hp)
           tS == LoadPerItem(p.hp, x)
<1>1. TH \in Nat /\ TH > 0 /\ TW \in Nat /\ TW > 0 /\ TH * TW \in Nat /\ TH * TW > 0
  BY DerivableParts, Tiled, ProblemParts, Products
<1>2. items \in Nat /\ items > 0 /\ (TH * TW) % items = 0 /\ tS = (TH * TW) \div items
  BY DerivableParts, Tiled DEF Divides, ElementsInUnroll, LoadPerItem
<1>3. t = IF p.hp[x]["PLU"] = 0 THEN TileNoChecks(TH, TW, tS)
          ELSE <<TileNoChecks(TW, TH, tS)[2], TileNoChecks(TW, TH, tS)[1]>>
  BY DEF MicroTile, TileDimensions
<1> HIDE DEF TH, TW, items, tS
<1>4. tS \in Nat /\ tS > 0 /\ TH * TW = tS * items /\ (TH * TW) % tS = 0
  BY <1>1, <1>2, Shared
<1>5. TW * TH = TH * TW
  BY <1>1, Products
<1>6. /\ t[1] \in Nat /\ t[1] > 0 /\ TH % t[1] = 0
      /\ t[2] \in Nat /\ t[2] > 0 /\ TW % t[2] = 0 /\ t[1] * t[2] = tS
  <2>1. CASE p.hp[x]["PLU"] = 0
    BY <1>1, <1>3, <1>4, <2>1, TileFound
  <2>2. CASE p.hp[x]["PLU"] # 0
    <3> DEFINE s == TileNoChecks(TW, TH, tS)
    <3>1. /\ s[1] \in Nat /\ s[1] > 0 /\ TW % s[1] = 0
          /\ s[2] \in Nat /\ s[2] > 0 /\ TH % s[2] = 0 /\ s[1] * s[2] = tS
      BY <1>1, <1>4, <1>5, TileFound
    <3>2. t[1] = s[2] /\ t[2] = s[1]
      BY <1>3, <2>2
    <3> HIDE DEF s
    <3>3. s[2] * s[1] = s[1] * s[2]
      BY <3>1, Products
    <3> QED BY <3>1, <3>2, <3>3
  <2> QED BY <2>1, <2>2
<1> DEFINE h == t[1]
           v == t[2]
<1>7. /\ h \in Nat /\ h > 0 /\ TH % h = 0 /\ v \in Nat /\ v > 0 /\ TW % v = 0 /\ h * v = tS
      /\ TH \in Nat /\ TW \in Nat /\ items \in Nat /\ tS \in Nat /\ tS > 0 /\ TH * TW = tS * items
  BY <1>1, <1>2, <1>4, <1>6
<1> HIDE DEF h, v
<1>8. items = (TH \div h) * (TW \div v)
  BY <1>7, ItemsShareTile
<1> QED BY <1>6, <1>8 DEF TH, TW, items, tS, h, v

(* Where along the unroll and across it, in vectors, an item loads.        *)
LEMMA LoadInTile ==
  ASSUME NEW p, IsProblem(p), Derivable(p.hp, p.gg), NEW x \in Chiral,
         NEW item \in 0 .. WorkItems(p.hp) - 1,
         NEW i \in LoadPll(p.hp, x), NEW j \in LoadPerp(p.hp, x)
  PROVE  /\ LoadOffset(p.hp, x, item).pll + i \in 0 .. p.hp["C"]["UNR"] - 1
         /\ LoadOffset(p.hp, x, item).perpV + j \in 0 .. (MacroTile(p.hp, x) \div p.hp[x]["VEW"]) - 1
         /\ LoadOffset(p.hp, x, item).pll \in Nat /\ LoadOffset(p.hp, x, item).perpV \in Nat
         /\ i \in Nat /\ j \in Nat
<1> DEFINE t == MicroTile(p.hp, x)
           TH == MacroTile(p.hp, x)
           TW == p.hp["C"]["UNR"]
           v == p.hp[x]["VEW"]
           h == t[1]
           b == t[2]
           n == TW \div b
           q == TH \div h
           a == h \div v
           o == LoadOffset(p.hp, x, item)
<1>1. /\ h \in Nat /\ h > 0 /\ TH % h = 0 /\ b \in Nat /\ b > 0 /\ TW % b = 0
      /\ WorkItems(p.hp) = q * n
  BY LoadTile
<1>2. TH \in Nat /\ TH > 0 /\ TW \in Nat /\ TW > 0 /\ v \in Nat /\ v > 0
  BY DerivableParts, Tiled, ProblemParts
<1>3. h % v = 0
  <2>1. CASE v = 1
    <3>1. 1 * h = h
      BY <1>1, Products
    <3>2. (1 * h) % 1 = 0
      BY <1>1, DivExact
    <3> QED BY <2>1, <3>1, <3>2
  <2>2. CASE v # 1
    BY <2>2, DerivableParts DEF Vectorizable
  <2> QED BY <2>1, <2>2
<1>4. o = IF p.hp[x]["LIW"] = 0 THEN [pll |-> b * (item % n), perpV |-> a * (item \div n)]
          ELSE [pll |-> item % n, perpV |-> item \div n]
  BY DEF LoadOffset, MicroTilesPllUnroll
<1>5. i \in IF p.hp[x]["LIW"] = 0 THEN 0 .. b - 1 ELSE EveryUpTo(TW, n)
  BY DEF LoadPll
<1>6. j \in IF p.hp[x]["LIW"] = 0 THEN 0 .. a - 1 ELSE EveryUpTo(TH \div v, q)
  BY DEF LoadPerp
<1> HIDE DEF t, TH, TW, v, h, b, o
<1>7. n \in Nat /\ TW = b * n /\ n > 0 /\ q \in Nat /\ TH = h * q /\ q > 0 /\ a \in Nat /\ h = v * a
  BY <1>1, <1>2, <1>3, NoRest
<1> HIDE DEF n, q, a
<1>8. TH \div v = a * q
  <2>1. TH = v * (a * q) /\ a * q \in Int
    BY <1>2, <1>7, Products
  <2> QED BY <1>2, <2>1, DivExact
<1>9. item % n \in 0 .. n - 1 /\ item \div n \in 0 .. q - 1
  <2>1. item \in Nat /\ item < q * n
    <3>1. q * n \in Int
      BY <1>7, Products
    <3> QED BY <1>1, <3>1
  <2>2. item \div n \in Nat /\ item % n \in Nat /\ item % n < n /\ item = n * (item \div n) + (item % n)
    BY <1>7, <2>1, DivMod
  <2>3. n * (item \div n) \in Int /\ n * q = q * n /\ n * q \in Int
    BY <1>7, <2>2, Products
  <2>4. n * (item \div n) < n * q
    BY <2>1, <2>2, <2>3
  <2>5. item \div n < q
    BY <1>7, <2>2, <2>4, ProductsGrow
  <2> QED BY <1>7, <2>2, <2>5
<1>10. CASE p.hp[x]["LIW"] = 0
  <2>1. o.pll = b * (item % n) /\ o.perpV = a * (item \div n) /\ i \in 0 .. b - 1 /\ j \in 0 .. a - 1
    BY <1>4, <1>5, <1>6, <1>10
  <2>2. b * (item % n) + i \in 0 .. b * n - 1
    BY <1>1, <1>7, <1>9, <2>1, Blocked
  <2>3. a * (item \div n) + j \in 0 .. a * q - 1
    BY <1>7, <1>9, <2>1, Blocked
  <2>4. b * (item % n) \in Nat /\ a * (item \div n) \in Nat
    BY <1>1, <1>7, <1>9, Products
  <2> QED BY <1>7, <1>8, <2>1, <2>2, <2>3, <2>4 DEF o, TH, TW, v
<1>11. CASE p.hp[x]["LIW"] # 0
  <2>1. o.pll = item % n /\ o.perpV = item \div n
    BY <1>4, <1>11
  <2>2. i \in 0 .. b * n - 1 /\ i % n = 0 /\ j \in 0 .. a * q - 1 /\ j % q = 0
    BY <1>5, <1>6, <1>7, <1>8, <1>11 DEF EveryUpTo
  <2>3. (item % n) + i \in 0 .. b * n - 1
    BY <1>1, <1>7, <1>9, <2>2, Strided
  <2>4. item \div n + j \in 0 .. a * q - 1
    BY <1>7, <1>9, <2>2, Strided
  <2>5. i \in Nat /\ j \in Nat
    <3>1. b * n \in Int /\ a * q \in Int
      BY <1>1, <1>7, Products
    <3> QED BY <2>2, <3>1
  <2> QED BY <1>7, <1>8, <1>9, <2>1, <2>3, <2>4, <2>5 DEF o, TH, TW, v
<1> QED BY <1>10, <1>11

(* Local memory is never left: whatever an item loads, wherever its tile   *)
(* is, goes to a place of the padded unroll.                               *)
LEMMA LocalPlaces ==
  ASSUME NEW p, IsProblem(p), Derivable(p.hp, p.gg), NEW x \in Chiral,
         NEW item \in 0 .. WorkItems(p.hp) - 1, NEW tile, NEW z, NEW n,
         NEW s \in Loads(p.hp, p.gg, p.off, tile, z, item, x, n)
  PROVE  s.to \in 0 .. ElementsInPaddedUnroll(p.hp, x) - 1
<1> DEFINE TH == MacroTile(p.hp, x)
           TW == p.hp["C"]["UNR"]
           v == p.hp[x]["VEW"]
           pad == p.hp[x]["PAD"]
           row == PaddedTile(p.hp, x) \div v
           o == LoadOffset(p.hp, x, item)
           along == Stride(p.hp, p.gg, x, TRUE, FALSE, p.hp[x]["WOS"])
           across == Stride(p.hp, p.gg, x, FALSE, FALSE, p.hp[x]["WOS"])
           origin == IF Packed(p.hp, x) THEN p.off["W"] + CwGlobalOffset(p.hp, p.gg, x) ELSE p.off[x]
           start == origin
                    + ReadStart(p.hp, p.gg, tile, x) * Stride(p.hp, p.gg, x, FALSE, TRUE, p.hp[x]["WOS"])
                    + (KStart(p.hp, p.gg, tile, z) + o.pll) * along
                    + v * (across * o.perpV + n * ((along * Jump(p.hp)) \div v))
           load(i, j, lane) ==
             [to |-> v * (row * (o.pll + i) + o.perpV + j) + lane,
              from |-> start + v * ((i * along + v * j * across) \div v) + lane,
              depth |-> o.pll + i]
<1>0. Loads(p.hp, p.gg, p.off, tile, z, item, x, n) =
        {load(i, j, lane) : i \in LoadPll(p.hp, x), j \in LoadPerp(p.hp, x), lane \in 0 .. v - 1}
  BY DEF Loads
<1> HIDE DEF start
<1>1. PICK i \in LoadPll(p.hp, x), j \in LoadPerp(p.hp, x), lane \in 0 .. v - 1 :
        s.to = v * (row * (o.pll + i) + o.perpV + j) + lane
  <2> HIDE DEF load
  <2>1. PICK i \in LoadPll(p.hp, x), j \in LoadPerp(p.hp, x), lane \in 0 .. v - 1 : s = load(i, j, lane)
    BY <1>0
  <2> USE DEF load
  <2>2. s.to = v * (row * (o.pll + i) + o.perpV + j) + lane
    BY <2>1
  <2> QED BY <2>2
<1> DEFINE d == o.pll + i
           q == o.perpV + j
<1>2. d \in 0 .. TW - 1 /\ q \in 0 .. (TH \div v) - 1
  BY LoadInTile
<1>3. TH \in Nat /\ TH > 0 /\ TW \in Nat /\ TW > 0 /\ v \in Nat /\ v > 0 /\ pad \in Nat
  BY DerivableParts, Tiled, ProblemParts
<1>4. ElementsInPaddedUnroll(p.hp, x) = (TH + v * pad) * TW /\ row = (TH + v * pad) \div v
  BY DEF ElementsInPaddedUnroll, PaddedTile
<1>5. TH % v = 0
  <2> DEFINE t == MicroTile(p.hp, x)
  <2>1. CASE v = 1
    <3>1. 1 * TH = TH
      BY <1>3, Products
    <3>2. (1 * TH) % 1 = 0
      BY <1>3, DivExact
    <3> QED BY <2>1, <3>1, <3>2
  <2>2. CASE v # 1
    <3>1. t[1] % v = 0
      BY <2>2, DerivableParts DEF Vectorizable
    <3>2. t[1] \in Nat /\ t[1] > 0 /\ TH % t[1] = 0
      BY LoadTile
    <3> DEFINE h == t[1]
               a == h \div v
               b == TH \div h
    <3>3. h \in Nat /\ h = v * a /\ a \in Nat /\ TH = h * b /\ b \in Nat
      BY <1>3, <3>1, <3>2, NoRest
    <3> HIDE DEF TH, v, t, h, a, b
    <3>4. TH = v * (a * b) /\ a * b \in Int
      BY <1>3, <3>3, Products
    <3> QED BY <1>3, <3>4, DivExact
  <2> QED BY <2>1, <2>2
<1> DEFINE a == TH \div v
<1>6. a \in Nat /\ TH = v * a
  BY <1>3, <1>5, NoRest
<1> HIDE DEF TH, TW, v, pad, a
<1>7. TH + v * pad = v * (a + pad)
  BY <1>3, <1>6, Products
<1>8. row = a + pad
  BY <1>3, <1>4, <1>6, <1>7, DivExact
<1> HIDE DEF row
<1>9. q \in 0 .. row - 1 /\ row \in Nat
  BY <1>2, <1>3, <1>6, <1>8 DEF a
<1>10. o.pll + i \in Int /\ o.perpV + j = q /\ s.to = v * (row * d + q) + lane
  <2>1. d \in Int
    BY <1>2
  <2>2. s.to = v * (row * d + o.perpV + j) + lane
    BY <1>1
  <2>3. o.perpV \in Nat /\ j \in Nat
    BY LoadInTile
  <2>4. row * d + o.perpV + j = row * d + (o.perpV + j)
    <3> DEFINE m == row * d
    <3>1. m \in Int
      BY <1>9, <2>1, Products
    <3> HIDE DEF m
    <3>2. m + o.perpV + j = m + (o.perpV + j)
      BY <2>3, <3>1
    <3> QED BY <3>2 DEF m
  <2> QED BY <2>1, <2>2, <2>4
<1> HIDE DEF d, q
<1>11. row * d + q \in 0 .. row * TW - 1
  BY <1>2, <1>3, <1>9, Blocked
<1>12. v * (row * d + q) + lane \in 0 .. v * (row * TW) - 1
  <2>1. row * TW \in Nat
    BY <1>3, <1>9, Products
  <2> QED BY <1>3, <1>11, <2>1, Blocked
<1>13. v * (row * TW) = ElementsInPaddedUnroll(p.hp, x)
  BY <1>3, <1>4, <1>7, <1>8, <1>9, Products
<1> QED BY <1>10, <1>12, <1>13

---------------------------------------------------------------------------
(* The work groups and their unrolls.                                      *)

(* There is a number of work groups, and of groups along each side, which  *)
(* is one at least, as the geometry is not smaller than a tile.            *)
LEMMA GroupsAreCounted ==
  ASSUME NEW p, IsProblem(p), Derivable(p.hp, p.gg)
  PROVE  /\ MainWorkGroups(p.hp, p.gg) \in Nat
         /\ \A x \in Chiral : NGroups(p.hp, p.gg, x) \in Nat /\ NGroups(p.hp, p.gg, x) > 0
<1>1. \A x \in Chiral : MacroTile(p.hp, x) \in Nat /\ MacroTile(p.hp, x) > 0
  BY DerivableParts, Tiled
<1>2. p.gg.m \in Nat /\ p.gg.n \in Nat /\ p.hp["C"]["ICE"] \in Nat
  BY ProblemParts
<1>3. \A dim \in Nat : \A x \in Chiral :
        dim \div MacroTile(p.hp, x) \in Nat /\ CeilDiv(dim, MacroTile(p.hp, x)) \in Nat
  BY <1>1, DivMod DEF CeilDiv
<1>4. CeilDiv(p.gg.m, MacroTile(p.hp, "A")) \in Nat /\ CeilDiv(p.gg.n, MacroTile(p.hp, "B")) \in Nat
  BY <1>2, <1>3 DEF Chiral
<1>5. MainWorkGroups(p.hp, p.gg) \in Nat
  <2> DEFINE a == CeilDiv(p.gg.m, MacroTile(p.hp, "A"))
             b == CeilDiv(p.gg.n, MacroTile(p.hp, "B"))
             ice == p.hp["C"]["ICE"]
  <2>1. MainWorkGroups(p.hp, p.gg) = ice * a * b
    BY DEF MainWorkGroups
  <2>2. a \in Nat /\ b \in Nat /\ ice \in Nat
    BY <1>2, <1>4
  <2> HIDE DEF a, b, ice
  <2>3. ice * a \in Nat
    BY <2>2, Products
  <2>4. ice * a * b \in Nat
    BY <2>2, <2>3, Products
  <2> QED BY <2>1, <2>4
<1>6. ASSUME NEW x \in Chiral PROVE NGroups(p.hp, p.gg, x) \in Nat /\ NGroups(p.hp, p.gg, x) > 0
  <2> DEFINE dim == NonKDim(p.gg, x)
             tile == MacroTile(p.hp, x)
             q == dim \div tile
  <2>1. dim \in Nat /\ tile \in Nat /\ tile > 0
    BY <1>1, <1>2 DEF NonKDim
  <2>2. dim >= tile
    BY DerivableParts DEF TilesInside
  <2>3. NGroups(p.hp, p.gg, x) = q + (IF PreshiftFinalTile(p.hp, p.gg, x) # tile THEN 1 ELSE 0)
    BY DEF NGroups
  <2> HIDE DEF dim, tile
  <2>4. q \in Nat /\ dim % tile < tile /\ dim = tile * q + (dim % tile)
    BY <2>1, DivMod
  <2> HIDE DEF q
  <2>5. q # 0
    <3>1. q = 0 => tile * q = 0
      BY <2>1, Products
    <3>2. dim % tile \in Nat
      BY <2>1, DivMod
    <3> QED BY <2>1, <2>2, <2>4, <3>1, <3>2
  <2> QED BY <2>3, <2>4, <2>5
<1> QED BY <1>5, <1>6

(* The offset of the unrolls is less than an unroll.                       *)
LEMMA OffsetOfUnrolls ==
  ASSUME NEW p, IsProblem(p), NEW tile, tile["A"] \in Int, tile["B"] \in Int
  PROVE  UnrollOffset(p.hp, tile) \in Nat /\ UnrollOffset(p.hp, tile) < p.hp["C"]["UNR"]
<1> DEFINE unr == p.hp["C"]["UNR"]
           a == tile["A"]
           b == tile["B"]
<1>1. unr \in Nat /\ unr > 0 /\ a \in Int /\ b \in Int
  BY ProblemParts
<1>2. UnrollOffset(p.hp, tile) = IF p.hp["C"]["UFO"] = YES THEN (13 * a + 7 * b) % unr ELSE 0
  BY DEF UnrollOffset
<1> HIDE DEF unr, a, b
<1>3. 13 * a + 7 * b \in Int
  BY <1>1
<1>4. (13 * a + 7 * b) % unr \in Nat /\ (13 * a + 7 * b) % unr < unr
  BY <1>1, <1>3, DivMod
<1> QED BY <1>1, <1>2, <1>4 DEF unr

(* A group has no fewer than no unrolls, and one at least if it does the   *)
(* first on its own.                                                       *)
LEMMA UnrollsAreCounted ==
  ASSUME NEW p, IsProblem(p), Derivable(p.hp, p.gg), NEW z \in Nat,
         NEW tile, tile["A"] \in Int, tile["B"] \in Int
  PROVE  /\ UnrollsRemaining(p.hp, p.gg, tile, z) \in Nat
         /\ HasFirst(p.hp, z) => UnrollsRemaining(p.hp, p.gg, tile, z) > 0
<1> DEFINE unr == p.hp["C"]["UNR"]
           ice == p.hp["C"]["ICE"]
           k == EffectiveK(p.hp, p.gg, tile)
           more == WorkGroupsWith1More(p.hp, p.gg, tile)
<1>1. unr \in Nat /\ unr > 0 /\ ice \in Nat /\ ice > 0 /\ k \in Nat
  BY ProblemParts, OffsetOfUnrolls DEF EffectiveK
<1>2. p.hp["C"]["UFO"] = YES => k > unr
  BY DerivableParts, ProblemParts, OffsetOfUnrolls DEF EffectiveK
<1>3. more = (k % (ice * unr)) \div unr
  BY DEF WorkGroupsWith1More, GUnroll
<1>4. UnrollsRemaining(p.hp, p.gg, tile, z) =
        IF ~SplitOnK(p.hp) THEN k \div unr
        ELSE k \div (ice * unr) + (IF z < more THEN 1 ELSE 0)
  BY DEF UnrollsRemaining, GUnroll
<1>5. HasFirst(p.hp, z) => p.hp["C"]["UFO"] = YES /\ (SplitOnK(p.hp) => z = 0)
  BY DEF HasFirst
<1> HIDE DEF unr, ice, k, more
<1>6. ice * unr \in Nat /\ ice * unr > 0 /\ ice * unr >= unr
  BY <1>1, Products
<1>7. \A d \in Nat : d > 0 => k \div d \in Nat /\ (k >= d => k \div d > 0)
  <2> TAKE d \in Nat
  <2> HAVE d > 0
  <2>1. k \div d \in Nat /\ k % d \in Nat /\ k % d < d /\ k = d * (k \div d) + (k % d)
    BY <1>1, DivMod
  <2>2. k \div d = 0 => d * (k \div d) = 0
    BY Products
  <2> QED BY <1>1, <2>1, <2>2
<1>8. k < ice * unr => more = k \div unr
  <2>1. ASSUME k < ice * unr PROVE k % (ice * unr) = k
    <3>1. (ice * unr) * 0 = 0
      BY <1>6, Products
    <3>2. ((ice * unr) * 0 + k) % (ice * unr) = k
      BY <1>1, <1>6, <2>1, DivUnique
    <3> QED BY <1>1, <3>1, <3>2
  <2> QED BY <1>3, <2>1
<1>9. k \div unr \in Nat /\ k \div (ice * unr) \in Nat
  BY <1>1, <1>6, <1>7
<1>10. k > unr /\ SplitOnK(p.hp) /\ z = 0 => k \div (ice * unr) + (IF z < more THEN 1 ELSE 0) > 0
  <2>1. CASE k >= ice * unr
    BY <1>1, <1>6, <1>7, <2>1
  <2>2. CASE k < ice * unr
    BY <1>1, <1>7, <1>8, <1>9, <2>2
  <2> QED BY <1>1, <1>6, <2>1, <2>2
<1>11. k > unr => k \div unr > 0
  BY <1>1, <1>7
<1> QED BY <1>2, <1>4, <1>5, <1>9, <1>10, <1>11

(* The width of the super-columns is a natural number.                     *)
LEMMA WidthIsNatural ==
  ASSUME NEW p, IsProblem(p)
  PROVE  SuperColumnWidth(p.hp) \in Nat
<1> DEFINE naw == p.hp["C"]["NAW"]
           ice == p.hp["C"]["ICE"]
           widths == {s \in 0 .. naw : s * s * ice <= naw}
<1>1. naw \in Nat /\ ice \in Nat
  BY ProblemParts
<1>2. SuperColumnWidth(p.hp) = Max(widths)
  BY DEF SuperColumnWidth
<1> HIDE DEF naw, ice
<1>3. 0 \in widths /\ widths \in SUBSET (0 .. naw)
  <2>1. 0 * 0 = 0 /\ 0 * ice = 0
    BY <1>1, Products
  <2> QED BY <1>1, <2>1
<1>4. \A s \in widths : s \in Nat
  OBVIOUS
<1> HIDE DEF widths
<1>5. Max(widths) \in widths
  BY <1>1, <1>3, Largest
<1> QED BY <1>2, <1>4, <1>5

(* Identifiers are natural numbers.                                        *)
LEMMA IdsAreNatural ==
  ASSUME NEW p, IsProblem(p), NEW id \in Nat
  PROVE  /\ GroupId(p.hp, p.gg, id) \in Nat /\ Xy(p.hp, p.gg, id) \in Nat
         /\ GroupZ(p.hp, p.gg, id) \in Nat /\ GroupZ(p.hp, p.gg, id) < p.hp["C"]["ICE"]
<1> DEFINE modulus == TintC(p.hp, p.gg)
           ice == p.hp["C"]["ICE"]
<1>1. modulus \in Nat /\ modulus > 0
  <2>1. 2^16 \in Nat /\ 2^16 > 0 /\ 2^28 \in Nat /\ 2^28 > 0
    BY PowersArePositive
  <2> QED BY <2>1 DEF TintC, TintModulus, ShortModulus, SizeModulus
<1>2. ice \in Nat /\ ice > 0
  BY ProblemParts
<1>3. GroupId(p.hp, p.gg, id) = id % modulus
  BY DEF GroupId
<1> HIDE DEF modulus
<1>4. GroupId(p.hp, p.gg, id) \in Nat
  BY <1>1, <1>3, DivMod
<1> DEFINE n == GroupId(p.hp, p.gg, id)
<1>5. Xy(p.hp, p.gg, id) = n \div ice /\ GroupZ(p.hp, p.gg, id) = n % ice
  BY DEF Xy, GroupZ
<1> HIDE DEF n, ice
<1>6. n \div ice \in Nat /\ n % ice \in Nat /\ n % ice < ice
  <2>1. n \in Nat
    BY <1>4 DEF n
  <2> QED BY <1>2, <2>1, DivMod
<1> QED BY <1>4, <1>5, <1>6 DEF ice

(* The tile of a group has a number on each side.                          *)
LEMMA TilesAreNumbered ==
  ASSUME NEW p, IsProblem(p), Derivable(p.hp, p.gg), NEW id \in Nat
  PROVE  TileOf(p.hp, p.gg, id)["A"] \in Int /\ TileOf(p.hp, p.gg, id)["B"] \in Int
<1> DEFINE xy == Xy(p.hp, p.gg, id)
           nA == NGroups(p.hp, p.gg, "A")
           nB == NGroups(p.hp, p.gg, "B")
           wd == SuperColumnWidth(p.hp)
           last == LastSuperColumnWidth(p.hp, p.gg)
           t == TileOf(p.hp, p.gg, id)
<1>1. xy \in Nat /\ nA \in Nat /\ nA > 0 /\ nB \in Nat /\ nB > 0 /\ wd \in Nat
  BY IdsAreNatural, GroupsAreCounted, WidthIsNatural DEF Chiral
<1>2. p.hp["C"]["GAL"] \in {BYROW, BYCOL, SUCOL} /\ (p.hp["C"]["GAL"] = SUCOL => wd > 0)
  <2>1. p.hp["C"]["GAL"] = BYROW \/ p.hp["C"]["GAL"] = BYCOL \/ p.hp["C"]["GAL"] = SUCOL
    BY DEF IsProblem
  <2>2. p.hp["C"]["GAL"] = SUCOL => wd # 0
    BY DerivableParts
  <2> QED BY <1>1, <2>1, <2>2
<1>3. /\ p.hp["C"]["GAL"] = BYCOL => t = [A |-> xy % nA, B |-> xy \div nA]
      /\ p.hp["C"]["GAL"] = BYROW => t = [A |-> xy \div nB, B |-> xy % nB]
      /\ p.hp["C"]["GAL"] = SUCOL => t = SuperColumns(p.hp, p.gg, xy)
  BY DEF TileOf, Chiral, BYCOL, BYROW, SUCOL
<1>4. SuperColumns(p.hp, p.gg, xy) =
        LET column == xy \div (wd * nA) IN
        IF last = 0 \/ (last # nB /\ xy < (nB - last) * nA)
        THEN [A |-> (xy \div wd) % nA, B |-> column * wd + (xy % wd)]
        ELSE [A |-> (xy - (nB - last) * nA) \div last, B |-> column * wd + (xy % last)]
  BY DEF SuperColumns
<1>5. last = nB % wd
  BY DEF LastSuperColumnWidth
<1> HIDE DEF xy, nA, nB, wd, last, t
<1>6. /\ xy % nA \in Int /\ xy \div nA \in Int /\ xy \div nB \in Int /\ xy % nB \in Int
  BY <1>1, DivMod
<1>7. CASE p.hp["C"]["GAL"] = BYCOL
  BY <1>3, <1>6, <1>7 DEF t
<1>8. CASE p.hp["C"]["GAL"] = BYROW
  BY <1>3, <1>6, <1>8 DEF t
<1>9. CASE p.hp["C"]["GAL"] = SUCOL
  <2>1. wd > 0 /\ last \in Nat
    <3>1. wd > 0
      BY <1>2, <1>9
    <3>2. nB % wd \in Nat
      BY <1>1, <3>1, DivMod
    <3> QED BY <1>5, <3>1, <3>2
  <2>2. wd * nA \in Nat /\ wd * nA > 0
    BY <1>1, <2>1, Products
  <2> DEFINE column == xy \div (wd * nA)
             q == xy \div wd
             before == (nB - last) * nA
  <2>3. column \in Int /\ q \in Int /\ xy % wd \in Int
    BY <1>1, <2>1, <2>2, DivMod
  <2>4. before \in Int
    BY <1>1, <2>1, Products
  <2>5. q % nA \in Int /\ column * wd \in Int
    <3> HIDE DEF q, column
    <3> QED BY <1>1, <2>3, DivMod, Products
  <2>6. last > 0 => xy % last \in Int /\ (xy - before) \div last \in Int
    <3> HIDE DEF before
    <3>1. xy - before \in Int
      BY <1>1, <2>4
    <3> QED BY <1>1, <2>1, <3>1, DivMod
  <2>7. t = IF last = 0 \/ (last # nB /\ xy < before)
            THEN [A |-> q % nA, B |-> column * wd + (xy % wd)]
            ELSE [A |-> (xy - before) \div last, B |-> column * wd + (xy % last)]
    BY <1>3, <1>4, <1>9
  <2> HIDE DEF column, q, before
  <2>8. t["A"] \in Int /\ t["B"] \in Int
    BY <2>1, <2>3, <2>5, <2>6, <2>7
  <2> QED BY <2>8 DEF t
<1> QED BY <1>2, <1>7, <1>8, <1>9

---------------------------------------------------------------------------
(* What the packing kernels write.                                         *)

(* Which of three things are so, counted, is odd.                          *)
LEMMA OddOfThree ==
  ASSUME NEW b1 \in BOOLEAN, NEW b2 \in BOOLEAN, NEW b3 \in BOOLEAN
  PROVE  Cardinality({i \in 1 .. 3 : <<b1, b2, b3>>[i]}) % 2 = 1 <=>
           (b1 /\ b2 /\ b3) \/ (b1 /\ ~b2 /\ ~b3) \/ (~b1 /\ b2 /\ ~b3) \/ (~b1 /\ ~b2 /\ b3)
<1> DEFINE S == {i \in 1 .. 3 : <<b1, b2, b3>>[i]}
<1>1. /\ 1 \in S <=> b1
      /\ 2 \in S <=> b2
      /\ 3 \in S <=> b3
      /\ \A i \in S : i = 1 \/ i = 2 \/ i = 3
  OBVIOUS
<1> HIDE DEF S
<1>2. /\ Cardinality({}) = 0 /\ IsFiniteSet({})
      /\ \A i : IsFiniteSet({i}) /\ Cardinality({i}) = 1
  BY FS_EmptySet, FS_Singleton
<1>3. \A i, j : i # j => IsFiniteSet({i} \cup {j}) /\ Cardinality({i} \cup {j}) = 2
  <2> TAKE i, j
  <2> HAVE i # j
  <2>1. IsFiniteSet({i}) /\ Cardinality({i}) = 1 /\ j \notin {i}
    BY <1>2
  <2> QED BY <2>1, FS_AddElement
<1>4. Cardinality(1 .. 3) = 3
  <2>1. 1 \in Int /\ 3 \in Int
    OBVIOUS
  <2>2. Cardinality(1 .. 3) = (IF 1 > 3 THEN 0 ELSE 3 - 1 + 1)
    BY <2>1, FS_Interval, Zenon
  <2> QED BY <2>2
<1>5. ASSUME b1 /\ b2 /\ b3
      PROVE  Cardinality(S) = 3
  <2>1. S = 1 .. 3
    BY <1>1, <1>5
  <2> QED BY <1>4, <1>5, <2>1
<1>6. ASSUME ~b1 /\ ~b2 /\ ~b3
      PROVE  Cardinality(S) = 0
  <2>1. S = {}
    BY <1>1, <1>6
  <2> QED BY <1>2, <1>6, <2>1
<1>7. ASSUME b1 /\ ~b2 /\ ~b3
      PROVE  Cardinality(S) = 1
  <2>1. S = {1}
    BY <1>1, <1>7
  <2> QED BY <1>2, <1>7, <2>1
<1>8. ASSUME ~b1 /\ b2 /\ ~b3
      PROVE  Cardinality(S) = 1
  <2>1. S = {2}
    BY <1>1, <1>8
  <2> QED BY <1>2, <1>8, <2>1
<1>9. ASSUME ~b1 /\ ~b2 /\ b3
      PROVE  Cardinality(S) = 1
  <2>1. S = {3}
    BY <1>1, <1>9
  <2> QED BY <1>2, <1>9, <2>1
<1>10. ASSUME b1 /\ b2 /\ ~b3
      PROVE  Cardinality(S) = 2
  <2>1. S = {1} \cup {2}
    BY <1>1, <1>10
  <2>2. 1 # 2
    OBVIOUS
  <2>3. Cardinality({1} \cup {2}) = 2
    BY <1>3, <2>2, Zenon
  <2> QED BY <2>1, <2>3
<1>11. ASSUME b1 /\ ~b2 /\ b3
      PROVE  Cardinality(S) = 2
  <2>1. S = {1} \cup {3}
    BY <1>1, <1>11
  <2>2. 1 # 3
    OBVIOUS
  <2>3. Cardinality({1} \cup {3}) = 2
    BY <1>3, <2>2, Zenon
  <2> QED BY <2>1, <2>3
<1>12. ASSUME ~b1 /\ b2 /\ b3
      PROVE  Cardinality(S) = 2
  <2>1. S = {2} \cup {3}
    BY <1>1, <1>12
  <2>2. 2 # 3
    OBVIOUS
  <2>3. Cardinality({2} \cup {3}) = 2
    BY <1>3, <2>2, Zenon
  <2> QED BY <2>1, <2>3
<1>13. Cardinality(S) % 2 = 1 <=>
         (b1 /\ b2 /\ b3) \/ (b1 /\ ~b2 /\ ~b3) \/ (~b1 /\ b2 /\ ~b3) \/ (~b1 /\ ~b2 /\ b3)
  BY <1>5, <1>6, <1>7, <1>8, <1>9, <1>10, <1>11, <1>12
<1> QED BY <1>13 DEF S

(* A line of a matrix is along k where the code says that it is.           *)
LEMMA LinesOfMatrix ==
  ASSUME NEW p, IsProblem(p), NEW x \in Chiral
  PROVE  /\ Coal(p.gg, x) = IF CoalIsPllK(p.gg, x) THEN p.gg.k ELSE NonKDim(p.gg, x)
         /\ Uncoal(p.gg, x) = IF CoalIsPllK(p.gg, x) THEN NonKDim(p.gg, x) ELSE p.gg.k
         /\ Coal(p.gg, x) \in Nat /\ Uncoal(p.gg, x) \in Nat
<1>1. p.gg.cm \in BOOLEAN /\ p.gg.t[x] \in BOOLEAN
  BY DEF IsProblem, IsGeometry, Chiral, Mats
<1>2. CoalIsPllK(p.gg, x) <=> IF x = "A" THEN p.gg.cm = p.gg.t[x] ELSE p.gg.cm # p.gg.t[x]
  <2> DEFINE cm == p.gg.cm
             tx == p.gg.t[x]
             isA == x = "A"
  <2>1. isA \in BOOLEAN /\ cm \in BOOLEAN /\ tx \in BOOLEAN
    BY <1>1
  <2>2. CoalIsPllK(p.gg, x) <=> Cardinality({i \in 1 .. 3 : <<cm, tx, isA>>[i]}) % 2 = 1
    BY DEF CoalIsPllK
  <2> HIDE DEF cm, tx, isA
  <2>3. CoalIsPllK(p.gg, x) <=>
          (cm /\ tx /\ isA) \/ (cm /\ ~tx /\ ~isA) \/ (~cm /\ tx /\ ~isA) \/ (~cm /\ ~tx /\ isA)
    BY <2>1, <2>2, OddOfThree
  <2>4. cm = tx <=> (cm /\ tx) \/ (~cm /\ ~tx)
    BY <2>1, Zenon
  <2> QED BY <2>1, <2>3, <2>4, Zenon DEF cm, tx, isA
<1>3. p.gg.m \in Nat /\ p.gg.n \in Nat /\ p.gg.k \in Nat
  BY ProblemParts
<1>4. CASE x = "A"
  BY <1>1, <1>2, <1>3, <1>4 DEF Coal, Uncoal, PadlessDim, NonKDim
<1>5. CASE x = "B"
  BY <1>1, <1>2, <1>3, <1>5 DEF Coal, Uncoal, PadlessDim, NonKDim
<1> QED BY <1>4, <1>5 DEF Chiral

(* The lines of the workspace that a matrix is copied to are no shorter     *)
(* than those of the matrix, also where they are that short that size_t    *)
(* wraps around.                                                           *)
LEMMA TargetHolds ==
  ASSUME NEW p, IsProblem(p), NEW x \in Chiral
  PROVE  TargetLdx(p.gg, x) \in Nat /\ TargetLdx(p.gg, x) >= Coal(p.gg, x)
<1> DEFINE line == Coal(p.gg, x)
           pad == CopyPad(x)
           u == SizeT(line - pad)
           n == CeilDiv(u, 16)
<1>1. line \in Nat /\ line < SizeModulus - 32 /\ SmallestLdx(p.gg, x) = line
  BY LinesOfMatrix DEF SmallestLdx, IsProblem
<1>2. pad \in {3, 6}
  BY DEF CopyPad
<1>3. SizeModulus = 268435456
  BY DEF SizeModulus
<1>4. TargetLdx(p.gg, x) = SizeT(16 * n + pad)
  BY <1>1 DEF TargetLdx, Target
<1>5. \A a \in Int : 0 <= a /\ a < SizeModulus => SizeT(a) = a
  <2> TAKE a \in Int
  <2> HAVE 0 <= a /\ a < SizeModulus
  <2>1. (SizeModulus * 0 + a) % SizeModulus = a
    BY <1>3, DivUnique
  <2> QED BY <1>3, <2>1 DEF SizeT
<1> HIDE DEF line, pad
<1>6. ASSUME line >= pad PROVE u = line - pad
  BY <1>1, <1>2, <1>3, <1>5, <1>6
<1>7. ASSUME line < pad PROVE u = 268435456 + (line - pad)
  <2> DEFINE r == 268435456 + (line - pad)
  <2>1. (268435456 * (-1) + r) % 268435456 = r
    BY <1>1, <1>2, <1>7, DivUnique
  <2>2. 268435456 * (-1) + r = line - pad
    BY <1>1, <1>2
  <2> QED BY <1>3, <2>1, <2>2 DEF SizeT
<1> HIDE DEF u
<1>8. u \in Nat
  BY <1>1, <1>2, <1>6, <1>7
<1>9. n \in Nat /\ u <= 16 * n /\ 16 * n <= u + 15
  <2> DEFINE q == u \div 16
             r == u % 16
  <2>1. q \in Nat /\ r \in Nat /\ r < 16 /\ u = 16 * q + r
    BY <1>8, DivMod
  <2>2. n = q + (IF r # 0 THEN 1 ELSE 0)
    BY DEF CeilDiv
  <2> HIDE DEF q, r, n
  <2> QED BY <2>1, <2>2
<1> HIDE DEF n
<1>10. CASE line >= pad
  <2>1. SizeT(16 * n + pad) = 16 * n + pad
    BY <1>1, <1>2, <1>3, <1>5, <1>6, <1>9, <1>10
  <2> QED BY <1>1, <1>2, <1>4, <1>6, <1>9, <1>10, <2>1 DEF line
<1>11. CASE line < pad
  <2>1. 16 * n = 268435456
    BY <1>1, <1>2, <1>7, <1>9, <1>11
  <2>2. (268435456 * 1 + pad) % 268435456 = pad
    BY <1>2, DivUnique
  <2>3. SizeT(16 * n + pad) = pad
    BY <1>3, <2>1, <2>2 DEF SizeT
  <2> QED BY <1>1, <1>2, <1>4, <1>11, <2>3 DEF line
<1> QED BY <1>1, <1>2, <1>10, <1>11

(* There is one way to write a number with a last digit.                   *)
LEMMA Digits ==
  ASSUME NEW b \in Nat, NEW q \in Int, NEW e \in Int, NEW r \in 0 .. b - 1, NEW s \in 0 .. b - 1,
         b * q + r = b * e + s
  PROVE  q = e /\ r = s
<1>1. (b * q + r) \div b = q /\ (b * q + r) % b = r
  BY DivUnique
<1>2. (b * e + s) \div b = e /\ (b * e + s) % b = s
  BY DivUnique
<1> QED BY <1>1, <1>2

(* An item that has as much of a line as it can have.                      *)
LEMMA CellInFull ==
  ASSUME NEW lines \in Nat, NEW full \in Nat, NEW per \in Nat, per > 0,
         NEW u \in Nat, NEW r \in Nat, r < full, full * u + r < full * lines, NEW i \in 0 .. per - 1
  PROVE  /\ u \in 0 .. lines - 1 /\ per * r + i \in 0 .. per * full - 1
         /\ (per * r + i) \div per = r
<1>1. full * u < full * lines
  <2>1. full * u \in Int /\ full * lines \in Int
    BY Products
  <2> QED BY <2>1
<1>2. u < lines
  BY <1>1, ProductsGrow
<1>3. per * r + i \in 0 .. per * full - 1
  BY Blocked
<1>4. (per * r + i) \div per = r
  <2>1. per \in Nat /\ r \in Int /\ i \in Int /\ 0 <= i /\ i < per
    OBVIOUS
  <2> QED BY ONLY <2>1, DivUnique
<1> QED BY <1>2, <1>3, <1>4

(* An item that has the rest of a line.                                    *)
LEMMA CellInRest ==
  ASSUME NEW lines \in Nat, NEW full \in Nat,
         NEW id \in Nat, ~(id < full * lines), id < (full + 1) * lines,
         NEW v, v = id - full * lines
  PROVE  /\ v \in 0 .. lines - 1 /\ v % lines = v /\ id = full * lines + v
         /\ full * lines = 0 => full = 0
<1>1. full * lines \in Int /\ (full + 1) * lines = full * lines + lines
  <2>1. (full + 1) * lines = lines * full + lines * 1 /\ lines * full = full * lines /\ lines * 1 = lines
    BY Products
  <2> QED BY <2>1, Products
<1>2. v \in 0 .. lines - 1 /\ id = full * lines + v
  BY <1>1
<1>3. v % lines = v
  <2>1. (lines * 0 + v) % lines = v
    BY <1>2, DivUnique
  <2>2. lines * 0 = 0
    BY Products
  <2> QED BY <1>2, <2>1, <2>2
<1>4. full > 0 => full * lines > 0
  BY <1>2, Products
<1> QED BY <1>1, <1>2, <1>3, <1>4

(* What goes by line stays in its line, and it can be told from an element *)
(* of the matrix which item has it.                                        *)
LEMMA CellsOfLine ==
  ASSUME NEW gg, NEW x, Coal(gg, x) \in Nat, Uncoal(gg, x) \in Nat, NEW per \in Nat, per > 0,
         NEW id \in Nat, NEW cell \in ByLine(gg, x, per, id)
  PROVE  LET full == Coal(gg, x) \div per IN
         /\ cell = <<cell[1], cell[2]>>
         /\ cell[1] \in 0 .. Uncoal(gg, x) - 1 /\ cell[2] \in 0 .. Coal(gg, x) - 1
         /\ id = IF cell[2] < per * full THEN full * cell[1] + (cell[2] \div per)
                 ELSE full * Uncoal(gg, x) + cell[1]
<1> DEFINE line == Coal(gg, x)
           lines == Uncoal(gg, x)
           full == line \div per
           rest == line % per
           nFull == full * lines
           ceil == CeilDiv(line, per)
           n == ceil * lines
           start == CASE nFull # 0 /\ id < nFull -> <<id \div full, per * (id % full)>>
                      [] nFull # 0 /\ nFull <= id /\ id < n -> <<(id - nFull) % lines, per * full>>
                      [] nFull # 0 /\ id >= n -> <<0, 0>>
                      [] nFull = 0 -> <<id % lines, 0>>
           work == IF id < nFull THEN per ELSE IF id < n THEN rest ELSE 0
<1>1. ByLine(gg, x, per, id) = {<<start[1], start[2] + i>> : i \in 0 .. work - 1}
  BY DEF ByLine
<1>2. /\ line \in Nat /\ lines \in Nat /\ full \in Nat /\ rest \in Nat /\ rest < per
      /\ line = per * full + rest
  BY DivMod
<1>3. ceil = full + (IF rest # 0 THEN 1 ELSE 0)
  BY DEF CeilDiv
<1> HIDE DEF line, lines, full, rest, ceil
<1>4. nFull = full * lines /\ n = ceil * lines /\ nFull \in Nat /\ n \in Int
  BY <1>2, <1>3, Products
<1> HIDE DEF nFull, n
<1>5. /\ id < nFull => start = <<id \div full, per * (id % full)>> /\ work = per
      /\ nFull # 0 /\ nFull <= id /\ id < n => start = <<(id - nFull) % lines, per * full>>
      /\ nFull = 0 => start = <<id % lines, 0>>
      /\ ~(id < nFull) => work = IF id < n THEN rest ELSE 0
  <2>1. id < nFull => nFull # 0 /\ ~(nFull <= id) /\ ~(nFull = 0)
    BY <1>4
  <2>2. (id < n => ~(id >= n)) /\ (nFull <= id => ~(id < nFull))
    BY <1>4
  <2>3. id < nFull => start = <<id \div full, per * (id % full)>>
    <3>1. full * lines <= ceil * lines
      <4>1. lines * full <= lines * ceil /\ lines * full = full * lines /\ lines * ceil = ceil * lines
        BY <1>2, <1>3, Products, ProductsGrow
      <4> QED BY <4>1
    <3>2. id < nFull => ~(id >= n)
      BY <1>4, <3>1
    <3> QED BY <2>1, <3>2, Zenon
  <2>4. nFull # 0 /\ nFull <= id /\ id < n => start = <<(id - nFull) % lines, per * full>>
    BY <2>2, Zenon
  <2>5. nFull = 0 => start = <<id % lines, 0>>
    BY Zenon
  <2> HIDE DEF start
  <2> QED BY <2>3, <2>4, <2>5
<1> HIDE DEF start, work
<1>6. PICK i \in 0 .. work - 1 : cell = <<start[1], start[2] + i>>
  BY <1>1
<1>7. cell[1] = start[1] /\ cell[2] = start[2] + i /\ cell = <<cell[1], cell[2]>>
  BY <1>6
<1>8. ASSUME id < nFull
      PROVE  /\ cell[1] \in 0 .. lines - 1 /\ cell[2] \in 0 .. line - 1
             /\ id = IF cell[2] < per * full THEN full * cell[1] + (cell[2] \div per)
                     ELSE full * lines + cell[1]
  <2> DEFINE u == id \div full
             r == id % full
  <2>1. i \in 0 .. per - 1 /\ start = <<u, per * r>>
    BY <1>5, <1>6, <1>8
  <2>2. full > 0
    <3>1. full = 0 => full * lines = 0
      BY <1>2, Products
    <3> QED BY <1>2, <1>4, <1>8, <3>1
  <2>3. u \in Nat /\ r \in Nat /\ r < full /\ id = full * u + r
    BY <1>2, <2>2, DivMod
  <2> HIDE DEF u, r
  <2>4. cell[1] = u /\ cell[2] = per * r + i
    BY <1>7, <2>1
  <2>5. full * u + r < full * lines
    BY <1>4, <1>8, <2>3
  <2>6. u \in 0 .. lines - 1 /\ per * r + i \in 0 .. per * full - 1 /\ (per * r + i) \div per = r
    BY <1>2, <2>1, <2>3, <2>5, CellInFull
  <2>7. cell[2] < per * full /\ cell[2] \in 0 .. line - 1
    <3>1. per * full \in Int
      BY <1>2, Products
    <3> QED BY <1>2, <2>4, <2>6, <3>1
  <2> QED BY <2>3, <2>4, <2>6, <2>7
<1>9. ASSUME ~(id < nFull)
      PROVE  /\ cell[1] \in 0 .. lines - 1 /\ cell[2] \in 0 .. line - 1
             /\ id = IF cell[2] < per * full THEN full * cell[1] + (cell[2] \div per)
                     ELSE full * lines + cell[1]
  <2>1. id < n /\ i \in 0 .. rest - 1 /\ rest # 0
    BY <1>2, <1>5, <1>6, <1>9
  <2> DEFINE v == id - nFull
  <2>2. id < (full + 1) * lines
    BY <1>2, <1>3, <1>4, <2>1
  <2>3. v \in 0 .. lines - 1 /\ v % lines = v /\ id = full * lines + v /\ (full * lines = 0 => full = 0)
    BY <1>2, <1>4, <1>9, <2>2, CellInRest
  <2>4. start = <<v, per * full>>
    <3>1. CASE nFull # 0
      BY <1>4, <1>5, <1>9, <2>1, <2>3, <3>1
    <3>2. CASE nFull = 0
      <4>1. per * full = 0 /\ v = id
        BY <1>2, <1>4, <2>3, <3>2, Products
      <4>2. id % lines = v
        BY <2>3, <4>1
      <4> QED BY <1>5, <3>2, <4>1, <4>2
    <3> QED BY <3>1, <3>2
  <2> HIDE DEF v
  <2>5. cell[1] = v /\ cell[2] = per * full + i
    BY <1>7, <2>4
  <2>6. ~(cell[2] < per * full) /\ cell[2] \in 0 .. line - 1
    <3>1. per * full \in Nat
      BY <1>2, Products
    <3> QED BY <1>2, <2>1, <2>5, <3>1
  <2> QED BY <2>3, <2>5, <2>6
<1> QED BY <1>7, <1>8, <1>9 DEF line, lines, full

(* What a matrix takes of the workspace is a number of elements, and the   *)
(* workspace has room for both.                                            *)
LEMMA Room ==
  ASSUME NEW p, IsProblem(p), Derivable(p.hp, p.gg)
  PROVE  /\ \A x \in Chiral : CwElements(p.hp, p.gg, x) \in Nat /\ CwGlobalOffset(p.hp, p.gg, x) \in Nat
         /\ CwElements(p.hp, p.gg, "A") + CwElements(p.hp, p.gg, "B") <= p.gg.ws
<1>1. ASSUME NEW x \in Chiral PROVE CwElements(p.hp, p.gg, x) \in Nat
  <2>1. TargetLdx(p.gg, x) * Uncoal(p.gg, x) \in Nat
    BY TargetHolds, LinesOfMatrix, Products
  <2>2. NGroups(p.hp, p.gg, x) * MacroTile(p.hp, x) * p.gg.k \in Nat
    <3> DEFINE a == NGroups(p.hp, p.gg, x)
               b == MacroTile(p.hp, x)
               kk == p.gg.k
    <3>1. a \in Nat /\ b \in Nat /\ kk \in Nat
      BY GroupsAreCounted, DerivableParts, Tiled, ProblemParts
    <3> HIDE DEF a, b, kk
    <3>2. a * b \in Nat
      BY <3>1, Products
    <3>3. a * b * kk \in Nat
      BY <3>1, <3>2, Products
    <3> QED BY <3>3 DEF a, b, kk
  <2> QED BY <2>1, <2>2 DEF CwElements, COPY, NFORM
<1>2. \A x \in Chiral : CwGlobalOffset(p.hp, p.gg, x) \in Nat
  BY <1>1 DEF CwGlobalOffset, Chiral
<1>3. p.gg.ws >= RequiredWorkspace(p.hp, p.gg) /\ p.gg.ws \in Nat
  BY DerivableParts, ProblemParts DEF WorkspaceSuffices
<1> QED BY <1>1, <1>2, <1>3 DEF RequiredWorkspace, Chiral

(* The elements of a matrix have a place along k and one across.           *)
ElementsOf(p, x) ==
  {p.off[x] + i * p.gg.ld[x] + j : i \in 0 .. Uncoal(p.gg, x) - 1, j \in 0 .. Coal(p.gg, x) - 1}

(* The address of an element is one of its matrix.                         *)
LEMMA ElementAt ==
  ASSUME NEW p, IsProblem(p), NEW x \in Chiral, NEW d \in 0 .. p.gg.k - 1,
         NEW e \in 0 .. NonKDim(p.gg, x) - 1, NEW isMacro \in BOOLEAN, NEW isMacro2 \in BOOLEAN
  PROVE  p.off[x] + Stride(p.hp, p.gg, x, FALSE, isMacro, UNUSED) * e
                  + Stride(p.hp, p.gg, x, TRUE, isMacro2, UNUSED) * d \in ElementsOf(p, x)
<1> DEFINE ld == p.gg.ld[x]
           o == p.off[x]
           in(i, j) == o + i * ld + j
<1>1. /\ Stride(p.hp, p.gg, x, FALSE, isMacro, UNUSED) = IF CoalIsPllK(p.gg, x) THEN ld ELSE 1
      /\ Stride(p.hp, p.gg, x, TRUE, isMacro2, UNUSED) = IF CoalIsPllK(p.gg, x) THEN 1 ELSE ld
  <2>1. CoalIsPllK(p.gg, x) \in BOOLEAN
    BY DEF CoalIsPllK
  <2> QED BY <2>1 DEF Stride, UNUSED, COPY, NFORM
<1>2. ElementsOf(p, x) = {in(i, j) : i \in 0 .. Uncoal(p.gg, x) - 1, j \in 0 .. Coal(p.gg, x) - 1}
  BY DEF ElementsOf
<1>3. ld \in Nat /\ o \in Nat /\ d \in Nat /\ e \in Int
  BY ProblemParts DEF Chiral, Mats
<1> HIDE DEF ld, o
<1>4. ld * e = e * ld /\ ld * d = d * ld /\ e * ld \in Int /\ d * ld \in Int /\ 1 * e = e /\ 1 * d = d
  <2>1. ld * e = e * ld /\ e * ld \in Int
    BY <1>3, Products
  <2>2. ld * d = d * ld /\ d * ld \in Int
    BY <1>3, Products
  <2>3. 1 * e = e /\ 1 * d = d
    BY <1>3
  <2> QED BY <2>1, <2>2, <2>3
<1>5. CASE CoalIsPllK(p.gg, x)
  <2>1. e \in 0 .. Uncoal(p.gg, x) - 1 /\ d \in 0 .. Coal(p.gg, x) - 1
    BY <1>5, LinesOfMatrix
  <2>2. in(e, d) \in ElementsOf(p, x)
    <3> HIDE DEF in
    <3> QED BY <1>2, <2>1
  <2>3. in(e, d) = o + ld * e + 1 * d
    BY <1>4
  <2> QED BY <1>1, <1>5, <2>2, <2>3 DEF o
<1>6. CASE ~CoalIsPllK(p.gg, x)
  <2>1. d \in 0 .. Uncoal(p.gg, x) - 1 /\ e \in 0 .. Coal(p.gg, x) - 1
    BY <1>6, LinesOfMatrix
  <2>2. in(d, e) \in ElementsOf(p, x)
    <3> HIDE DEF in
    <3> QED BY <1>2, <2>1
  <2>3. in(d, e) = o + 1 * e + ld * d
    BY <1>3, <1>4
  <2> QED BY <1>1, <1>6, <2>2, <2>3 DEF o
<1> QED BY <1>5, <1>6

(* The tiles: all but the last are whole, and the last is pulled in so far *)
(* that it ends with the matrix.                                           *)
LEMMA TilesOfMatrix ==
  ASSUME NEW p, IsProblem(p), Derivable(p.hp, p.gg), NEW x \in Chiral,
         NEW N, N = NGroups(p.hp, p.gg, x), NEW TH, TH = MacroTile(p.hp, x),
         NEW last, last = PreshiftFinalTile(p.hp, p.gg, x)
  PROVE  /\ N \in Nat /\ N > 0 /\ TH \in Nat /\ TH > 0 /\ last \in 1 .. TH
         /\ NonKDim(p.gg, x) = TH * (N - 1) + last /\ NonKDim(p.gg, x) >= TH
         /\ N = CeilDiv(NonKDim(p.gg, x), TH)
         /\ NonKDim(p.gg, x) % TH = 0 => last = TH
<1> DEFINE n == NonKDim(p.gg, x)
           q == n \div TH
           r == n % TH
<1>1. N \in Nat /\ N > 0 /\ TH \in Nat /\ TH > 0 /\ n \in Nat /\ n >= TH
  BY GroupsAreCounted, DerivableParts, Tiled, ProblemParts DEF TilesInside, NonKDim
<1>2. last = 1 + ((n - 1) % TH) /\ N = q + (IF last # TH THEN 1 ELSE 0)
  BY DEF PreshiftFinalTile, NGroups
<1>3. CeilDiv(n, TH) = q + (IF r # 0 THEN 1 ELSE 0)
  BY DEF CeilDiv
<1> HIDE DEF n
<1>4. q \in Nat /\ r \in Nat /\ r < TH /\ n = TH * q + r
  BY <1>1, DivMod
<1> HIDE DEF q, r
<1>5. CASE r = 0
  <2>1. TH * (q - 1) = TH * q - TH * 1 /\ TH * 1 = TH /\ TH * q \in Int
    BY <1>1, <1>4, Products
  <2>2. n - 1 = TH * (q - 1) + (TH - 1)
    BY <1>1, <1>4, <1>5, <2>1
  <2>3. (TH * (q - 1) + (TH - 1)) % TH = TH - 1
    <3> DEFINE e == TH - 1
               f == q - 1
    <3>1. e \in Int /\ 0 <= e /\ e < TH /\ f \in Int
      BY <1>1, <1>4
    <3> HIDE DEF e, f
    <3>2. (TH * f + e) % TH = e
      BY <1>1, <3>1, DivUnique
    <3> QED BY <3>2 DEF e, f
  <2>4. last = TH /\ N = q
    BY <1>1, <1>2, <1>4, <2>2, <2>3
  <2> QED BY <1>1, <1>3, <1>4, <1>5, <2>1, <2>4 DEF n
<1>6. CASE r # 0
  <2>0. TH * q \in Int
    BY <1>1, <1>4, Products
  <2>1. n - 1 = TH * q + (r - 1)
    BY <1>1, <1>4, <2>0
  <2>2. (TH * q + (r - 1)) % TH = r - 1
    <3> DEFINE e == r - 1
    <3>1. e \in Int /\ 0 <= e /\ e < TH /\ q \in Int /\ TH \in Nat
      BY <1>1, <1>4, <1>6
    <3> HIDE DEF e
    <3>2. (TH * q + e) % TH = e
      BY <3>1, DivUnique
    <3> QED BY <3>2 DEF e
  <2>3. last = r /\ N = q + 1
    BY <1>1, <1>2, <1>4, <2>1, <2>2
  <2>4. N - 1 = q
    BY <1>4, <2>3
  <2>5. n % TH # 0
    BY <1>6 DEF r
  <2> QED BY <1>1, <1>3, <1>4, <1>6, <2>3, <2>4, <2>5 DEF n
<1> QED BY <1>5, <1>6

(* So no place of a tile that is pulled in is outside of the matrix.       *)
LEMMA PulledIn ==
  ASSUME NEW N \in Nat, NEW TH \in Nat, NEW last \in 1 .. TH, TH * (N - 1) + last >= TH,
         NEW u \in 0 .. N - 1, NEW e \in 0 .. TH - 1
  PROVE  TH * u - (IF u = N - 1 THEN TH - last ELSE 0) + e \in 0 .. TH * (N - 1) + last - 1
<1>1. TH * u \in Nat /\ TH * (N - 1) \in Int
  BY Products
<1>2. CASE u = N - 1
  BY <1>1, <1>2
<1>3. CASE u # N - 1
  <2>1. u \in 0 .. (N - 1) - 1
    BY <1>3
  <2>2. TH * u + e \in 0 .. TH * (N - 1) - 1
    BY <2>1, Blocked
  <2> QED BY <1>1, <1>3, <2>2
<1> QED BY <1>2, <1>3

(* A kernel that copies takes elements of its matrix, stays in its part of *)
(* the workspace, and writes no element of it twice.                       *)
LEMMA Copies ==
  ASSUME NEW p, IsProblem(p), Derivable(p.hp, p.gg), NEW x \in Chiral, p.hp[x]["WOS"] = COPY,
         NEW base, base = CwGlobalOffset(p.hp, p.gg, x) + p.off["W"],
         NEW s \in CopyWrites(p.hp, p.gg, p.off, x)
  PROVE  /\ s.to \in base .. base + CwElements(p.hp, p.gg, x) - 1
         /\ \A r \in CopyWrites(p.hp, p.gg, p.off, x) : r.to = s.to => r = s
         /\ s.from \in ElementsOf(p, x)
<1> DEFINE line == Coal(p.gg, x)
           lines == Uncoal(p.gg, x)
           t == TargetLdx(p.gg, x)
           full == line \div Cw1WorkPerThread
           write(id, cell) == [item |-> id,
                               to |-> CwGlobalOffset(p.hp, p.gg, x) + p.off["W"] + cell[1] * t + cell[2],
                               from |-> p.off[x] + cell[1] * p.gg.ld[x] + cell[2]]
           ItemOf(a, b) == IF b < Cw1WorkPerThread * full THEN full * a + (b \div Cw1WorkPerThread)
                           ELSE full * lines + a
<1>1. line \in Nat /\ lines \in Nat /\ t \in Nat /\ line <= t /\ base \in Nat
  BY LinesOfMatrix, TargetHolds, Room, ProblemParts
<1>2. CwElements(p.hp, p.gg, x) = t * lines
  BY DEF CwElements, COPY, NFORM
<1>3. ASSUME NEW q \in CopyWrites(p.hp, p.gg, p.off, x)
      PROVE  \E a \in 0 .. lines - 1, b \in 0 .. line - 1 :
               /\ q = write(ItemOf(a, b), <<a, b>>) /\ q.to = base + (t * a + b)
               /\ q.from = p.off[x] + a * p.gg.ld[x] + b
  <2>0. PICK id \in ByLineItems(p.gg, x, Cw1WorkPerThread, Cw1LocalWorkSize) :
               \E cell \in ByLine(p.gg, x, Cw1WorkPerThread, id) : q = write(id, cell)
    <3> HIDE DEF write
    <3>1. CopyWrites(p.hp, p.gg, p.off, x) =
            UNION {{write(id, cell) : cell \in ByLine(p.gg, x, Cw1WorkPerThread, id)} :
                     id \in ByLineItems(p.gg, x, Cw1WorkPerThread, Cw1LocalWorkSize)}
      BY DEF CopyWrites, write
    <3> QED BY <1>3, <3>1
  <2>1. PICK cell \in ByLine(p.gg, x, Cw1WorkPerThread, id) : q = write(id, cell)
    BY <2>0
  <2>2. id \in Nat
    BY DEF ByLineItems
  <2>3. Cw1WorkPerThread \in Nat /\ Cw1WorkPerThread > 0
    BY DEF Cw1WorkPerThread
  <2> DEFINE a == cell[1]
             b == cell[2]
  <2>4. /\ cell = <<a, b>> /\ a \in 0 .. lines - 1 /\ b \in 0 .. line - 1
        /\ id = ItemOf(a, b)
    BY <1>1, <2>2, <2>3, CellsOfLine
  <2>5. /\ q.to = CwGlobalOffset(p.hp, p.gg, x) + p.off["W"] + a * t + b
        /\ q.from = p.off[x] + a * p.gg.ld[x] + b
    BY <2>1
  <2> HIDE DEF a, b, line, lines, t, write, ItemOf
  <2>6. a * t \in Int /\ a * t = t * a
    BY <1>1, <2>4, Products
  <2>7. q.to = base + (t * a + b)
    BY <1>1, <2>4, <2>5, <2>6
  <2>8. q = write(ItemOf(a, b), <<a, b>>)
    BY <2>1, <2>4
  <2> QED BY <2>4, <2>5, <2>7, <2>8
<1> HIDE DEF line, lines, t, write, ItemOf
<1>4. PICK a \in 0 .. lines - 1, b \in 0 .. line - 1 :
        /\ s = write(ItemOf(a, b), <<a, b>>) /\ s.to = base + (t * a + b)
        /\ s.from = p.off[x] + a * p.gg.ld[x] + b
  BY <1>3
<1>5. b \in 0 .. t - 1
  BY <1>1
<1>6. t * a + b \in 0 .. t * lines - 1
  BY <1>1, <1>5, Blocked
<1>7. s.to \in base .. base + CwElements(p.hp, p.gg, x) - 1
  <2>1. t * lines \in Int
    BY <1>1, Products
  <2> QED BY <1>1, <1>2, <1>4, <1>6, <2>1
<1>8. ASSUME NEW r \in CopyWrites(p.hp, p.gg, p.off, x), r.to = s.to PROVE r = s
  <2>1. PICK d \in 0 .. lines - 1, e \in 0 .. line - 1 :
          r = write(ItemOf(d, e), <<d, e>>) /\ r.to = base + (t * d + e)
    BY <1>3
  <2>2. e \in 0 .. t - 1
    BY <1>1
  <2>3. t * d + e = t * a + b
    <3>1. t * d \in Int /\ t * a \in Int
      BY <1>1, Products
    <3> QED BY <1>1, <1>4, <1>8, <2>1, <3>1
  <2>4. d = a /\ e = b
    BY <1>1, <1>5, <2>2, <2>3, Digits
  <2> QED BY <1>4, <2>1, <2>4
<1>9. s.from \in ElementsOf(p, x)
  BY <1>4 DEF ElementsOf, line, lines
<1> QED BY <1>7, <1>8, <1>9

(* The tile that an item of the packing kernel takes divides the macro     *)
(* tile on both sides, and there is one for each item.                     *)
LEMMA PackTile ==
  ASSUME NEW p, IsProblem(p), Derivable(p.hp, p.gg), NEW x \in Chiral, p.hp[x]["WOS"] = NFORM,
         NEW t, t = Cw2MicroTile(p.hp, x)
  PROVE  /\ t[1] \in Nat /\ t[1] > 0 /\ MacroTile(p.hp, x) % t[1] = 0
         /\ t[2] \in Nat /\ t[2] > 0 /\ p.hp["C"]["UNR"] % t[2] = 0
         /\ Cw2LocalWorkSize = (MacroTile(p.hp, x) \div t[1]) * (p.hp["C"]["UNR"] \div t[2])
<1> DEFINE TH == MacroTile(p.hp, x)
           TW == p.hp["C"]["UNR"]
           tS == Cw2LoadPerItem(p.hp, x)
<1>1. TH \in Nat /\ TH > 0 /\ TW \in Nat /\ TW > 0 /\ TH * TW \in Nat /\ TH * TW > 0
  BY DerivableParts, Tiled, ProblemParts, Products
<1>2. (TH * TW) % 64 = 0 /\ tS = (TH * TW) \div 64
  BY DerivableParts DEF Divides, ElementsInUnroll, Cw2LoadPerItem, Cw2LocalWorkSize
<1>3. t = TileNoChecks(TH, TW, tS)
  BY DEF Cw2MicroTile, TileDimensions
<1> HIDE DEF TH, TW, tS
<1>4. tS \in Nat /\ tS > 0 /\ (TH * TW) % tS = 0 /\ TH * TW = tS * 64
  BY <1>1, <1>2, Shared
<1>5. t[1] \in Nat /\ t[1] > 0 /\ TH % t[1] = 0 /\ t[2] \in Nat /\ t[2] > 0 /\ TW % t[2] = 0
      /\ t[1] * t[2] = tS
  BY <1>1, <1>3, <1>4, TileFound
<1>6. 64 = (TH \div t[1]) * (TW \div t[2])
  BY <1>1, <1>4, <1>5, ItemsShareTile
<1> QED BY <1>5, <1>6 DEF TH, TW, Cw2LocalWorkSize

(* How deep in k an item is: the last unroll may be a shorter one.         *)
LEMMA Depth ==
  ASSUME NEW k \in Nat, NEW unr \in Nat, unr > 0, NEW u \in 0 .. CeilDiv(k, unr) - 1, NEW d \in Nat,
         d < IF u = CeilDiv(k, unr) - 1 THEN (IF k % unr = 0 THEN unr ELSE k % unr) ELSE unr
  PROVE  d \in 0 .. unr - 1 /\ unr * u + d \in 0 .. k - 1
<1> DEFINE q == k \div unr
           r == k % unr
           n == CeilDiv(k, unr)
<1>1. q \in Nat /\ r \in Nat /\ r < unr /\ k = unr * q + r
  BY DivMod
<1>2. n = q + (IF r # 0 THEN 1 ELSE 0)
  BY DEF CeilDiv
<1>3. u \in 0 .. n - 1 /\ d < IF u = n - 1 THEN (IF r = 0 THEN unr ELSE r) ELSE unr
  OBVIOUS
<1> HIDE DEF q, r, n
<1>4. d \in 0 .. unr - 1 /\ u \in Nat
  BY <1>1, <1>2, <1>3
<1>5. CASE r # 0 /\ u = q
  <2>1. unr * u \in Nat
    BY <1>4, Products
  <2> QED BY <1>1, <1>2, <1>3, <1>4, <1>5, <2>1
<1>6. CASE ~(r # 0 /\ u = q)
  <2>1. u \in 0 .. q - 1
    BY <1>1, <1>2, <1>3, <1>6
  <2>2. unr * u + d \in 0 .. unr * q - 1
    BY <1>1, <1>4, <2>1, Blocked
  <2>3. unr * q \in Int
    BY <1>1, Products
  <2> QED BY <1>1, <2>2, <2>3
<1> QED BY <1>4, <1>5, <1>6

(* Where an element goes in the normal form: its tile, how deep it is in   *)
(* k, and where it is across.                                              *)
GoesTo(p, x, M, P, mp, me, i, j) ==
  LET t == Cw2MicroTile(p.hp, x)
      start == TileStart(p.hp, p.gg, x, NFORM, [pll |-> M, perp |-> P], [pll |-> mp, perp |-> me])
      along == i * Stride(p.hp, p.gg, x, TRUE, FALSE, NFORM) + j * Stride(p.hp, p.gg, x, FALSE, FALSE, NFORM)
  IN /\ start \in Int /\ along \in Int
     /\ start + along = MacroTile(p.hp, x) * (p.gg.k * P + (p.hp["C"]["UNR"] * M + (t[2] * mp + i)))
                        + (t[1] * me + j)

(* That is where it goes.                                                  *)
LEMMA PlaceInNormalForm ==
  ASSUME NEW p, IsProblem(p), Derivable(p.hp, p.gg), NEW x \in Chiral, p.hp[x]["WOS"] = NFORM,
         NEW M \in Nat, NEW P \in Nat, NEW mp \in Nat, NEW me \in Nat, NEW i \in Nat, NEW j \in Nat
  PROVE  GoesTo(p, x, M, P, mp, me, i, j)
<1> DEFINE t == Cw2MicroTile(p.hp, x)
           TH == MacroTile(p.hp, x)
           k == p.gg.k
           unr == p.hp["C"]["UNR"]
           t1 == t[1]
           t2 == t[2]
           start == TileStart(p.hp, p.gg, x, NFORM, [pll |-> M, perp |-> P], [pll |-> mp, perp |-> me])
           along == i * Stride(p.hp, p.gg, x, TRUE, FALSE, NFORM) + j * Stride(p.hp, p.gg, x, FALSE, FALSE, NFORM)
<1>1. TH \in Nat /\ k \in Nat /\ unr \in Nat /\ t1 \in Nat /\ t2 \in Nat
  BY DerivableParts, Tiled, ProblemParts, PackTile
<1>2. \A isMacro \in BOOLEAN :
        Stride(p.hp, p.gg, x, TRUE, isMacro, NFORM) = TH
        /\ Stride(p.hp, p.gg, x, FALSE, isMacro, NFORM) = IF isMacro THEN k ELSE 1
  BY DEF Stride, UNUSED, COPY, NFORM
<1>3. start = TH * M * unr + k * P * TH + TH * mp * t2 + 1 * me * t1
  BY <1>2 DEF TileStart
<1>4. along = i * TH + j * 1
  BY <1>2
<1> HIDE DEF t1, t2, TH, k, unr, along, start, t
<1>5. /\ TH * M * unr = TH * (unr * M) /\ k * P * TH = TH * (k * P) /\ TH * mp * t2 = TH * (t2 * mp)
      /\ 1 * me * t1 = t1 * me /\ i * TH = TH * i /\ j * 1 = j
  <2>1. TH * M * unr = TH * (unr * M)
    <3>1. (TH * M) * unr = TH * (M * unr) /\ M * unr = unr * M
      BY <1>1, Products
    <3> QED BY <3>1
  <2>2. k * P * TH = TH * (k * P)
    BY <1>1, Products
  <2>3. TH * mp * t2 = TH * (t2 * mp)
    <3>1. (TH * mp) * t2 = TH * (mp * t2) /\ mp * t2 = t2 * mp
      BY <1>1, Products
    <3> QED BY <3>1
  <2>4. 1 * me * t1 = t1 * me /\ i * TH = TH * i /\ j * 1 = j
    <3>1. 1 * me = me
      OBVIOUS
    <3>2. me * t1 = t1 * me /\ i * TH = TH * i /\ j * 1 = j
      BY <1>1, Products
    <3> QED BY <3>1, <3>2
  <2> QED BY <2>1, <2>2, <2>3, <2>4
<1>6. unr * M \in Int /\ k * P \in Int /\ t2 * mp \in Int /\ t1 * me \in Int
  BY <1>1, Products
<1>7. \A a, b, d, e \in Int : TH * (a + (b + (d + e))) = TH * a + TH * b + TH * d + TH * e
  BY <1>1, Products
<1>8. TH * (k * P + (unr * M + (t2 * mp + i))) = TH * (k * P) + TH * (unr * M) + TH * (t2 * mp) + TH * i
  <2> DEFINE a == k * P
             b == unr * M
             d == t2 * mp
  <2>1. a \in Int /\ b \in Int /\ d \in Int /\ i \in Int
    BY <1>6
  <2> HIDE DEF a, b, d
  <2>2. TH * (a + (b + (d + i))) = TH * a + TH * b + TH * d + TH * i
    BY <1>7, <2>1
  <2> QED BY <2>2 DEF a, b, d
<1>9. /\ TH * (k * P) \in Int /\ TH * (unr * M) \in Int /\ TH * (t2 * mp) \in Int /\ TH * i \in Int
  BY <1>1, <1>6, Products
<1>10. start \in Int /\ along \in Int /\ start + along = TH * (k * P + (unr * M + (t2 * mp + i))) + (t1 * me + j)
  BY <1>1, <1>3, <1>4, <1>5, <1>6, <1>8, <1>9
<1> QED BY <1>10 DEF GoesTo, t1, t2, TH, k, unr, along, start, t

(* Where the element is that goes there: its tile may be pulled in.        *)
TakenFrom(p, x, M, P, mp, me, i, j) ==
  p.off[x] + TileStart(p.hp, p.gg, x, UNUSED, [pll |-> M, perp |-> P], [pll |-> mp, perp |-> me])
  - (IF P = NGroups(p.hp, p.gg, x) - 1
     THEN Stride(p.hp, p.gg, x, FALSE, TRUE, UNUSED) * (MacroTile(p.hp, x) - PreshiftFinalTile(p.hp, p.gg, x))
     ELSE 0)
  + (i * Stride(p.hp, p.gg, x, TRUE, FALSE, UNUSED) + j * Stride(p.hp, p.gg, x, FALSE, FALSE, UNUSED))

(* How far the tile P of matrix x is pulled in.                            *)
PulledTo(p, x, P) ==
  IF P = NGroups(p.hp, p.gg, x) - 1 THEN MacroTile(p.hp, x) - PreshiftFinalTile(p.hp, p.gg, x) ELSE 0

(* It is the element of the same tile, as deep in k and as far across.     *)
TakesElement(p, x, M, P, mp, me, i, j) ==
  LET t == Cw2MicroTile(p.hp, x) IN
  TakenFrom(p, x, M, P, mp, me, i, j) =
    AddressOf(p, x, MacroTile(p.hp, x) * P - PulledTo(p, x, P) + (t[1] * me + j),
              p.hp["C"]["UNR"] * M + (t[2] * mp + i))

(* An element is taken for the place across and along k that it has.       *)
LEMMA ElementTaken ==
  ASSUME NEW p, IsProblem(p), Derivable(p.hp, p.gg), NEW x \in Chiral, p.hp[x]["WOS"] = NFORM,
         NEW M \in Nat, NEW P \in Nat, NEW mp \in Nat, NEW me \in Nat, NEW i \in Nat, NEW j \in Nat
  PROVE  TakesElement(p, x, M, P, mp, me, i, j)
<1> DEFINE t == Cw2MicroTile(p.hp, x)
           TH == MacroTile(p.hp, x)
           unr == p.hp["C"]["UNR"]
           t1 == t[1]
           t2 == t[2]
           N == NGroups(p.hp, p.gg, x)
           last == PreshiftFinalTile(p.hp, p.gg, x)
           Sk == Stride(p.hp, p.gg, x, TRUE, FALSE, UNUSED)
           Sp == Stride(p.hp, p.gg, x, FALSE, FALSE, UNUSED)
           pull == PulledTo(p, x, P)
           a == t1 * me + j
           d == unr * M + (t2 * mp + i)
           across == TH * P - pull + a
           from == TakenFrom(p, x, M, P, mp, me, i, j)
           o == p.off[x]
<1>1. TH \in Nat /\ N \in Nat /\ unr \in Nat /\ t1 \in Nat /\ t2 \in Nat /\ last \in Int
  BY ProblemParts, PackTile, TilesOfMatrix
<1>2. Stride(p.hp, p.gg, x, TRUE, TRUE, UNUSED) = Sk /\ Stride(p.hp, p.gg, x, FALSE, TRUE, UNUSED) = Sp
  BY DEF Stride, UNUSED, COPY, NFORM
<1>3. Sk \in Nat /\ Sp \in Nat /\ o \in Nat
  BY ProblemParts DEF Stride, UNUSED, COPY, NFORM, Chiral, Mats
<1>4. TileStart(p.hp, p.gg, x, UNUSED, [pll |-> M, perp |-> P], [pll |-> mp, perp |-> me])
        = Sk * M * unr + Sp * P * TH + Sk * mp * t2 + Sp * me * t1
  BY <1>2 DEF TileStart
<1>5. from = o + (Sk * M * unr + Sp * P * TH + Sk * mp * t2 + Sp * me * t1)
             - (IF P = N - 1 THEN Sp * (TH - last) ELSE 0) + (i * Sk + j * Sp)
  BY <1>2, <1>4 DEF TakenFrom
<1>6. pull = (IF P = N - 1 THEN TH - last ELSE 0)
  BY DEF PulledTo
<1>7. AddressOf(p, x, across, d) = o + Sp * across + Sk * d
  BY DEF AddressOf
<1> HIDE DEF TH, unr, t1, t2, N, last, Sk, Sp, pull, from, o
<1>8. o + (Sk * M * unr + Sp * P * TH + Sk * mp * t2 + Sp * me * t1)
        - (IF P = N - 1 THEN Sp * (TH - last) ELSE 0) + (i * Sk + j * Sp) = o + Sp * across + Sk * d
  <2>1. /\ Sk * M * unr = Sk * (unr * M) /\ Sp * P * TH = Sp * (TH * P) /\ Sk * mp * t2 = Sk * (t2 * mp)
        /\ Sp * me * t1 = Sp * (t1 * me) /\ i * Sk = Sk * i /\ j * Sp = Sp * j
    <3>1. /\ Sk \in Int /\ Sp \in Int /\ M \in Int /\ P \in Int /\ mp \in Int /\ me \in Int /\ i \in Int
          /\ j \in Int /\ unr \in Int /\ TH \in Int /\ t1 \in Int /\ t2 \in Int
      BY <1>1, <1>3
    <3>2. Sk * M * unr = Sk * (unr * M) /\ Sp * P * TH = Sp * (TH * P)
      BY ONLY <3>1, Regrouped
    <3>3. Sk * mp * t2 = Sk * (t2 * mp) /\ Sp * me * t1 = Sp * (t1 * me)
      BY ONLY <3>1, Regrouped
    <3>4. i * Sk = Sk * i /\ j * Sp = Sp * j
      BY ONLY <3>1, Regrouped
    <3> QED BY <3>2, <3>3, <3>4
  <2> DEFINE uM == unr * M
             tP == TH * P
             tm == t2 * mp
             tm1 == t1 * me
  <2>2. uM \in Int /\ tP \in Int /\ tm \in Int /\ tm1 \in Int
    BY <1>1, Products
  <2>3. d = uM + (tm + i) /\ a = tm1 + j /\ across = tP - pull + (tm1 + j)
    OBVIOUS
  <2>4. (IF P = N - 1 THEN Sp * (TH - last) ELSE 0) = Sp * pull /\ pull \in Int
    BY <1>1, <1>3, <1>6
  <2> DEFINE sum == o + (Sk * M * unr + Sp * P * TH + Sk * mp * t2 + Sp * me * t1)
                    - (IF P = N - 1 THEN Sp * (TH - last) ELSE 0) + (i * Sk + j * Sp)
  <2>5. sum = o + (Sk * uM + Sp * tP + Sk * tm + Sp * tm1) - Sp * pull + (Sk * i + Sp * j)
    BY <2>1, <2>4
  <2> HIDE DEF d, a, across, pull, uM, tP, tm, tm1, sum
  <2>6. Sk * d = Sk * uM + Sk * tm + Sk * i
    BY <1>3, <2>2, <2>3, Products
  <2>7. Sp * across = Sp * tP - Sp * pull + Sp * tm1 + Sp * j
    BY <1>3, <2>2, <2>3, <2>4, Products
  <2>8. /\ Sk * uM \in Int /\ Sk * tm \in Int /\ Sk * i \in Int
        /\ Sp * tP \in Int /\ Sp * pull \in Int /\ Sp * tm1 \in Int /\ Sp * j \in Int
    BY <1>3, <2>2, <2>4, Products
  <2>9. sum = o + Sp * across + Sk * d
    BY <1>3, <2>5, <2>6, <2>7, <2>8
  <2> QED BY <2>9 DEF sum
<1> QED BY <1>5, <1>7, <1>8 DEF TakesElement, TH, unr, t1, t2, pull, from

(* A kernel that packs in normal form takes elements of its matrix, also   *)
(* where the last tile is pulled in, stays in its part of the workspace,   *)
(* and writes no element of it twice: an address has the tile, the depth   *)
(* along k and the place across the tile as its digits.                    *)
LEMMA NormalForms ==
  ASSUME NEW p, IsProblem(p), Derivable(p.hp, p.gg), NEW x \in Chiral, p.hp[x]["WOS"] = NFORM,
         NEW base, base = CwGlobalOffset(p.hp, p.gg, x) + p.off["W"],
         NEW s \in NFormWrites(p.hp, p.gg, p.off, x)
  PROVE  /\ s.to \in base .. base + CwElements(p.hp, p.gg, x) - 1
         /\ \A r \in NFormWrites(p.hp, p.gg, p.off, x) : r.to = s.to => r = s
         /\ s.from \in ElementsOf(p, x)
<1> DEFINE t == Cw2MicroTile(p.hp, x)
           TH == MacroTile(p.hp, x)
           k == p.gg.k
           unr == p.hp["C"]["UNR"]
           t1 == t[1]
           t2 == t[2]
           nPerp == TH \div t1
           U == UnrollTiles(p.hp, p.gg)
           N == NGroups(p.hp, p.gg, x)
           Mac(id) == [pll |-> id % U, perp |-> id \div U]
           Mic(item) == [pll |-> item \div nPerp, perp |-> item % nPerp]
           depth(id) == IF Mac(id).pll = U - 1 THEN FinalUnrollDepth(p.hp, p.gg) ELSE unr
           along(type, i, j) == i * Stride(p.hp, p.gg, x, TRUE, FALSE, type)
                                + j * Stride(p.hp, p.gg, x, FALSE, FALSE, type)
           pulled(id) == IF Mac(id).perp = N - 1
                         THEN Stride(p.hp, p.gg, x, FALSE, TRUE, UNUSED)
                              * (TH - PreshiftFinalTile(p.hp, p.gg, x))
                         ELSE 0
           to(id, item, cell) ==
             CwGlobalOffset(p.hp, p.gg, x) + p.off["W"]
             + TileStart(p.hp, p.gg, x, NFORM, Mac(id), Mic(item)) + along(NFORM, cell[1], cell[2])
           write(id, item, cell) ==
             [item |-> <<id, item>>, to |-> to(id, item, cell),
              from |-> p.off[x] + TileStart(p.hp, p.gg, x, UNUSED, Mac(id), Mic(item)) - pulled(id)
                       + along(UNUSED, cell[1], cell[2])]
           cells(id, item) == {c1 \in (0 .. t2 - 1) \X (0 .. t1 - 1) : Mic(item).pll * t2 + c1[1] < depth(id)}
           ids == (0 .. U * N - 1) \X (0 .. Cw2LocalWorkSize - 1)
<1>1. NFormWrites(p.hp, p.gg, p.off, x) =
        UNION {{write(id[1], id[2], cell) : cell \in cells(id[1], id[2])} : id \in ids}
  BY DEF NFormWrites, NFormItemWrites
<1>2. /\ TH \in Nat /\ TH > 0 /\ k \in Nat /\ unr \in Nat /\ unr > 0 /\ N \in Nat
      /\ t1 \in Nat /\ t1 > 0 /\ TH % t1 = 0 /\ t2 \in Nat /\ t2 > 0 /\ base \in Nat
  BY DerivableParts, Tiled, ProblemParts, PackTile, GroupsAreCounted, Room
<1>3. U = CeilDiv(k, unr) /\ U \in Nat
      /\ FinalUnrollDepth(p.hp, p.gg) = IF k % unr = 0 THEN unr ELSE k % unr
  <2>1. U = CeilDiv(k, unr) /\ FinalUnrollDepth(p.hp, p.gg) = IF k % unr = 0 THEN unr ELSE k % unr
    BY DEF UnrollTiles, FinalUnrollDepth
  <2> HIDE DEF k, unr, U
  <2>2. k \in Nat /\ unr \in Nat /\ unr > 0
    BY <1>2
  <2>3. CeilDiv(k, unr) \in Nat
    BY ONLY <2>2, CeilDivIsNatural
  <2> QED BY <2>1, <2>3
<1>4. nPerp \in Nat /\ nPerp > 0 /\ TH = t1 * nPerp
  BY <1>2, NoRest
<1>5. CwElements(p.hp, p.gg, x) = TH * (k * N)
  <2>1. CwElements(p.hp, p.gg, x) = N * TH * k
    BY DEF CwElements, COPY, NFORM
  <2> HIDE DEF N, TH, k
  <2> QED BY <1>2, <2>1, Products
<1>8. \A isMacro \in BOOLEAN :
        Stride(p.hp, p.gg, x, TRUE, isMacro, NFORM) = TH
        /\ Stride(p.hp, p.gg, x, FALSE, isMacro, NFORM) = IF isMacro THEN k ELSE 1
  BY DEF Stride, UNUSED, COPY, NFORM
(* The digits of an address.                                               *)
<1> DEFINE Address(P, M, mp, i, me, j) == TH * (k * P + (unr * M + (t2 * mp + i))) + (t1 * me + j)
           InRange(P, M, mp, i, me, j) ==
             /\ P \in 0 .. N - 1 /\ M \in 0 .. U - 1 /\ mp \in Nat /\ i \in 0 .. t2 - 1
             /\ me \in 0 .. nPerp - 1 /\ j \in 0 .. t1 - 1
             /\ t2 * mp + i \in 0 .. unr - 1
             /\ unr * M + (t2 * mp + i) \in 0 .. k - 1
             /\ t1 * me + j \in 0 .. TH - 1
           From(P, M, mp, i, me, j) ==
             p.off[x] + TileStart(p.hp, p.gg, x, UNUSED, [pll |-> M, perp |-> P], [pll |-> mp, perp |-> me])
             - (IF P = N - 1 THEN Stride(p.hp, p.gg, x, FALSE, TRUE, UNUSED)
                                  * (TH - PreshiftFinalTile(p.hp, p.gg, x)) ELSE 0)
             + along(UNUSED, i, j)
           Written(q, P, M, mp, i, me, j) ==
             /\ InRange(P, M, mp, i, me, j)
             /\ q = write(U * P + M, nPerp * mp + me, <<i, j>>)
             /\ q.to = base + Address(P, M, mp, i, me, j)
             /\ q.from = From(P, M, mp, i, me, j)
<1>6. ASSUME NEW q \in NFormWrites(p.hp, p.gg, p.off, x)
      PROVE  \E P, M, mp, i, me, j \in Nat : Written(q, P, M, mp, i, me, j)
  <2>1. PICK id \in ids : \E cell \in cells(id[1], id[2]) : q = write(id[1], id[2], cell)
    <3> HIDE DEF write, cells, ids
    <3> QED BY <1>1, <1>6
  <2>2. PICK cell \in cells(id[1], id[2]) : q = write(id[1], id[2], cell)
    BY <2>1
  <2> DEFINE group1 == id[1]
             item == id[2]
             P == group1 \div U
             M == group1 % U
             mp == item \div nPerp
             me == item % nPerp
             i == cell[1]
             j == cell[2]
  <2>3. group1 \in 0 .. U * N - 1 /\ item \in Nat
    BY DEF Cw2LocalWorkSize
  <2>4. cell = <<i, j>> /\ i \in 0 .. t2 - 1 /\ j \in 0 .. t1 - 1 /\ mp * t2 + i < depth(group1)
    BY <2>2
  <2>5. q.to = CwGlobalOffset(p.hp, p.gg, x) + p.off["W"]
               + TileStart(p.hp, p.gg, x, NFORM, Mac(group1), Mic(item)) + along(NFORM, i, j)
    BY <2>2
  <2>19. q.from = p.off[x] + TileStart(p.hp, p.gg, x, UNUSED, Mac(group1), Mic(item)) - pulled(group1)
                  + along(UNUSED, i, j)
    BY <2>2
  <2>20. pulled(group1) = IF P = N - 1 THEN Stride(p.hp, p.gg, x, FALSE, TRUE, UNUSED)
                                            * (TH - PreshiftFinalTile(p.hp, p.gg, x)) ELSE 0
    OBVIOUS
  <2>6. q = write(group1, item, <<i, j>>)
    <3> HIDE DEF write
    <3> QED BY <2>2, <2>4
  <2>7. depth(group1) = IF M = U - 1 THEN (IF k % unr = 0 THEN unr ELSE k % unr) ELSE unr
    BY <1>3
  <2>8. Mac(group1) = [pll |-> M, perp |-> P] /\ Mic(item) = [pll |-> mp, perp |-> me]
    OBVIOUS
  <2>21. q.from = From(P, M, mp, i, me, j)
    <3> HIDE DEF pulled, along, Mac, Mic
    <3> QED BY <2>8, <2>19, <2>20
  <2> HIDE DEF From, pulled
  <2> HIDE DEF group1, item, i, j, U, N, TH, k, unr, t1, t2, nPerp, write, depth, Mac, Mic
  <2>9. U > 0 /\ P \in 0 .. N - 1 /\ M \in 0 .. U - 1 /\ group1 = U * P + M
    <3>1. U > 0
      <4>1. U = 0 => U * N = 0
        BY <1>2, Products
      <4> QED BY <1>3, <2>3, <4>1
    <3>2. group1 \in Nat /\ group1 < U * N
      <4>1. U * N \in Int
        BY <1>2, <1>3, Products
      <4> QED BY <2>3, <4>1
    <3>3. P \in Nat /\ M \in Nat /\ M < U /\ group1 = U * P + M
      BY <1>3, <3>1, <3>2, DivMod
    <3> HIDE DEF P, M
    <3>4. U * P < U * N
      <4>1. U * P \in Int /\ U * N \in Int
        BY <1>2, <1>3, <3>3, Products
      <4> QED BY <3>2, <3>3, <4>1
    <3>5. P < N
      BY <1>2, <1>3, <3>1, <3>3, <3>4, ProductsGrow
    <3> QED BY <1>2, <1>3, <3>1, <3>3, <3>5
  <2>10. mp \in Nat /\ me \in 0 .. nPerp - 1 /\ item = nPerp * mp + me
    <3>1. item \in Int /\ item >= 0 /\ nPerp \in Nat /\ nPerp > 0
      BY <1>4, <2>3
    <3>2. /\ item \div nPerp \in Nat /\ item % nPerp \in Nat /\ item % nPerp < nPerp
          /\ item = nPerp * (item \div nPerp) + (item % nPerp)
      BY <3>1, DivMod
    <3> HIDE DEF mp, me
    <3>3. mp \in Nat /\ me \in Nat /\ me < nPerp /\ item = nPerp * mp + me
      BY <3>2 DEF mp, me
    <3> QED BY <3>1, <3>3
  <2> HIDE DEF P, M, mp, me
  <2>11. t1 * me + j \in 0 .. TH - 1
    BY <1>2, <1>4, <2>4, <2>10, Blocked
  <2>12. t2 * mp + i \in 0 .. unr - 1 /\ unr * M + (t2 * mp + i) \in 0 .. k - 1
    <3>1. mp * t2 = t2 * mp /\ t2 * mp + i \in Nat
      BY <1>2, <2>4, <2>10, Products
    <3> DEFINE d == t2 * mp + i
    <3>2. d \in Nat /\ d < IF M = U - 1 THEN (IF k % unr = 0 THEN unr ELSE k % unr) ELSE unr
      BY <2>4, <2>7, <3>1
    <3> HIDE DEF d
    <3>3. M \in 0 .. CeilDiv(k, unr) - 1 /\ U = CeilDiv(k, unr)
      BY <1>3, <2>9
    <3>4. d \in 0 .. unr - 1 /\ unr * M + d \in 0 .. k - 1
      BY <1>2, <3>2, <3>3, Depth
    <3> QED BY <3>4 DEF d
  <2>13. /\ TileStart(p.hp, p.gg, x, NFORM, Mac(group1), Mic(item)) \in Int
         /\ along(NFORM, i, j) \in Int
         /\ TileStart(p.hp, p.gg, x, NFORM, Mac(group1), Mic(item)) + along(NFORM, i, j)
              = Address(P, M, mp, i, me, j)
    <3>1. M \in Nat /\ P \in Nat /\ mp \in Nat /\ me \in Nat /\ i \in Nat /\ j \in Nat
      BY <2>4, <2>9, <2>10
    <3>2. GoesTo(p, x, M, P, mp, me, i, j)
      BY <3>1, PlaceInNormalForm
    <3> DEFINE start == TileStart(p.hp, p.gg, x, NFORM, Mac(group1), Mic(item))
               st == TileStart(p.hp, p.gg, x, NFORM, [pll |-> M, perp |-> P], [pll |-> mp, perp |-> me])
               aside == i * Stride(p.hp, p.gg, x, TRUE, FALSE, NFORM)
                        + j * Stride(p.hp, p.gg, x, FALSE, FALSE, NFORM)
               addr == MacroTile(p.hp, x) * (p.gg.k * P + (p.hp["C"]["UNR"] * M + (t[2] * mp + i)))
                       + (t[1] * me + j)
    <3>3. st \in Int /\ aside \in Int /\ st + aside = addr
      BY ONLY <3>2 DEF GoesTo
    <3>4. start = st
      BY <2>8
    <3>5. aside = along(NFORM, i, j)
      OBVIOUS
    <3>6. addr = Address(P, M, mp, i, me, j)
      BY DEF TH, k, unr, t1, t2
    <3> HIDE DEF start, st, aside, addr, along, Address
    <3>7. /\ start \in Int /\ along(NFORM, i, j) \in Int
          /\ start + along(NFORM, i, j) = Address(P, M, mp, i, me, j)
      BY ONLY <3>3, <3>4, <3>5, <3>6
    <3> QED BY <3>7 DEF start
  <2>14. q.to = base + Address(P, M, mp, i, me, j)
    <3> DEFINE a == TileStart(p.hp, p.gg, x, NFORM, Mac(group1), Mic(item))
               b == along(NFORM, i, j)
    <3>1. q.to = base + a + b
      BY <2>5
    <3>2. a \in Int /\ b \in Int /\ a + b = Address(P, M, mp, i, me, j)
      BY <2>13
    <3> HIDE DEF a, b, Address
    <3>3. base + a + b = base + (a + b)
      BY <1>2, <3>2
    <3> QED BY <3>1, <3>2, <3>3
  <2>15. InRange(P, M, mp, i, me, j)
    BY <2>4, <2>9, <2>10, <2>11, <2>12
  <2>16. /\ P \in Nat /\ M \in Nat /\ mp \in Nat /\ i \in Nat /\ me \in Nat /\ j \in Nat
    BY <2>4, <2>9, <2>10
  <2>17. q = write(U * P + M, nPerp * mp + me, <<i, j>>)
    BY <2>6, <2>9, <2>10
  <2>18. Written(q, P, M, mp, i, me, j)
    BY <2>14, <2>15, <2>17, <2>21
  <2> HIDE DEF Written
  <2> QED BY <2>16, <2>18, Zenon
<1> HIDE DEF U, N, TH, k, unr, t1, t2, nPerp, write
<1> HIDE DEF InRange, Address, From
<1> HIDE DEF Written
<1>7. PICK P \in Nat, M \in Nat, mp \in Nat, i \in Nat, me \in Nat, j \in Nat :
        Written(s, P, M, mp, i, me, j)
  BY <1>6
<1> DEFINE e == t2 * mp + i
           d == unr * M + e
           a == t1 * me + j
<1>12. /\ InRange(P, M, mp, i, me, j)
       /\ s = write(U * P + M, nPerp * mp + me, <<i, j>>)
       /\ s.to = base + Address(P, M, mp, i, me, j)
       /\ s.from = From(P, M, mp, i, me, j)
  BY <1>7 DEF Written
<1>13. /\ e \in 0 .. unr - 1 /\ d \in 0 .. k - 1 /\ a \in 0 .. TH - 1
       /\ k * P + d \in 0 .. k * N - 1
       /\ Address(P, M, mp, i, me, j) = TH * (k * P + d) + a
  <2>1. P \in 0 .. N - 1 /\ e \in 0 .. unr - 1 /\ d \in 0 .. k - 1 /\ a \in 0 .. TH - 1
    BY <1>12 DEF InRange
  <2>2. Address(P, M, mp, i, me, j) = TH * (k * P + d) + a
    BY DEF Address
  <2> HIDE DEF e, d, a
  <2>3. k * P + d \in 0 .. k * N - 1
    BY <1>2, <2>1, Blocked
  <2> QED BY <2>1, <2>2, <2>3
<1>14. s.to \in base .. base + CwElements(p.hp, p.gg, x) - 1
  <2> DEFINE kP == k * P + d
             kN == k * N
  <2> HIDE DEF kP, kN, e, d, a
  <2>1. kN \in Nat /\ kP \in 0 .. kN - 1
    BY <1>2, <1>13, Products DEF kP, kN
  <2>2. TH * kP + a \in 0 .. TH * kN - 1
    BY <1>2, <1>13, <2>1, Blocked
  <2>3. s.to = base + (TH * kP + a)
    BY <1>12, <1>13 DEF kP
  <2>4. TH * kN \in Int /\ TH * kP + a \in Int
    BY <1>2, <1>13, <2>1, <2>2, Products
  <2> QED BY <1>2, <1>5, <2>2, <2>3, <2>4 DEF kN
<1>15. ASSUME NEW r \in NFormWrites(p.hp, p.gg, p.off, x), r.to = s.to PROVE r = s
  <2>1. PICK P1 \in Nat, M1 \in Nat, mp1 \in Nat, i1 \in Nat, me1 \in Nat, j1 \in Nat :
          Written(r, P1, M1, mp1, i1, me1, j1)
    BY <1>6
  <2> DEFINE e1 == t2 * mp1 + i1
             d1 == unr * M1 + e1
             a1 == t1 * me1 + j1
  <2>2. /\ InRange(P1, M1, mp1, i1, me1, j1)
        /\ r = write(U * P1 + M1, nPerp * mp1 + me1, <<i1, j1>>)
        /\ r.to = base + Address(P1, M1, mp1, i1, me1, j1)
    BY <2>1 DEF Written
  <2>3. /\ e1 \in 0 .. unr - 1 /\ d1 \in 0 .. k - 1 /\ a1 \in 0 .. TH - 1
        /\ k * P1 + d1 \in 0 .. k * N - 1
        /\ Address(P1, M1, mp1, i1, me1, j1) = TH * (k * P1 + d1) + a1
    <3>1. P1 \in 0 .. N - 1 /\ e1 \in 0 .. unr - 1 /\ d1 \in 0 .. k - 1 /\ a1 \in 0 .. TH - 1
      BY <2>2 DEF InRange
    <3>2. Address(P1, M1, mp1, i1, me1, j1) = TH * (k * P1 + d1) + a1
      BY DEF Address
    <3> HIDE DEF e1, d1, a1
    <3>3. k * P1 + d1 \in 0 .. k * N - 1
      BY <1>2, <3>1, Blocked
    <3> QED BY <3>1, <3>2, <3>3
  <2>4. /\ i \in 0 .. t2 - 1 /\ j \in 0 .. t1 - 1 /\ i1 \in 0 .. t2 - 1 /\ j1 \in 0 .. t1 - 1
    BY <1>12, <2>2 DEF InRange
  <2> DEFINE kP == k * P + d
             kP1 == k * P1 + d1
  <2>5. kP \in Int /\ kP1 \in Int /\ TH * kP + a = TH * kP1 + a1
    <3> HIDE DEF e, d, a, e1, d1, a1
    <3>1. kP \in Int /\ kP1 \in Int
      BY <1>2, <1>13, <2>3, Products
    <3> HIDE DEF kP, kP1
    <3>2. s.to = base + (TH * kP + a) /\ r.to = base + (TH * kP1 + a1)
      BY <1>12, <1>13, <2>2, <2>3 DEF kP, kP1
    <3>3. TH * kP \in Int /\ TH * kP1 \in Int
      BY <1>2, <3>1, Products
    <3> QED BY <1>2, <1>13, <1>15, <2>3, <3>1, <3>2, <3>3
  <2>6. kP = kP1 /\ a = a1
    <3> HIDE DEF e, d, a, e1, d1, a1, kP, kP1
    <3> QED BY <1>2, <1>13, <2>3, <2>5, Digits
  <2>7. P = P1 /\ d = d1
    <3> HIDE DEF e, d, a, e1, d1, a1
    <3> QED BY <1>2, <1>13, <2>3, <2>6, Digits
  <2>8. M = M1 /\ e = e1
    <3> HIDE DEF e, a, e1, a1
    <3> QED BY <1>2, <1>13, <2>3, <2>7, Digits
  <2>9. mp = mp1 /\ i = i1
    BY <1>2, <2>4, <2>8, Digits
  <2>10. me = me1 /\ j = j1
    BY <1>2, <2>4, <2>6, Digits
  <2> QED BY <1>12, <2>2, <2>7, <2>8, <2>9, <2>10
<1>16. s.from \in ElementsOf(p, x)
  <2> DEFINE last == PreshiftFinalTile(p.hp, p.gg, x)
             pull == PulledTo(p, x, P)
             across == TH * P - pull + a
  <2>1. /\ NonKDim(p.gg, x) = TH * (N - 1) + last /\ NonKDim(p.gg, x) >= TH /\ last \in 1 .. TH
    BY TilesOfMatrix DEF N, TH
  <2>2. s.from = TakenFrom(p, x, M, P, mp, me, i, j)
    BY <1>12 DEF From, TakenFrom, N, TH
  <2>3. AddressOf(p, x, across, d) = TakenFrom(p, x, M, P, mp, me, i, j)
    <3>1. TakesElement(p, x, M, P, mp, me, i, j)
      BY ElementTaken
    <3> QED BY <3>1 DEF TakesElement, TH, t1, t2, unr, t
  <2>4. pull = IF P = N - 1 THEN TH - last ELSE 0
    BY DEF PulledTo, N, TH
  <2>5. P \in 0 .. N - 1
    BY <1>12 DEF InRange
  <2> HIDE DEF last, pull
  <2>6. across \in 0 .. NonKDim(p.gg, x) - 1
    <3> HIDE DEF a
    <3>1. N \in Nat /\ TH \in Nat /\ a \in 0 .. TH - 1
      BY <1>2, <1>13
    <3> HIDE DEF N, TH
    <3> DEFINE n == TH * (N - 1) + last
    <3>2. TH * P - pull + a \in 0 .. n - 1
      BY ONLY <2>1, <2>4, <2>5, <3>1, PulledIn
    <3>3. n = NonKDim(p.gg, x)
      BY ONLY <2>1
    <3> HIDE DEF n
    <3>4. TH * P - pull + a \in 0 .. NonKDim(p.gg, x) - 1
      BY ONLY <3>2, <3>3, Zenon
    <3> QED BY ONLY <3>4
  <2>7. d \in 0 .. p.gg.k - 1
    BY <1>13 DEF k
  <2> HIDE DEF across, d
  <2>8. AddressOf(p, x, across, d) \in ElementsOf(p, x)
    BY <2>6, <2>7, ElementAt DEF AddressOf
  <2> QED BY <2>2, <2>3, <2>8
<1> QED BY <1>14, <1>15, <1>16

(* A packing kernel of either kind.                                        *)
LEMMA Packing ==
  ASSUME NEW p, IsProblem(p), Derivable(p.hp, p.gg), NEW x \in Chiral,
         NEW base, base = CwGlobalOffset(p.hp, p.gg, x) + p.off["W"],
         NEW s \in PackWrites(p.hp, p.gg, p.off, x)
  PROVE  /\ s.to \in base .. base + CwElements(p.hp, p.gg, x) - 1
         /\ \A r \in PackWrites(p.hp, p.gg, p.off, x) : r.to = s.to => r = s
         /\ Packed(p.hp, x) /\ s.from \in ElementsOf(p, x)
<1>1. p.hp[x]["WOS"] \in {COPY, NFORM}
  BY ProblemParts DEF PackWrites, UNUSED, COPY, NFORM
<1>2. CASE p.hp[x]["WOS"] = COPY
  <2>1. PackWrites(p.hp, p.gg, p.off, x) = CopyWrites(p.hp, p.gg, p.off, x)
    BY <1>2 DEF PackWrites, COPY, NFORM
  <2>2. Packed(p.hp, x)
    BY <1>2 DEF Packed, UNUSED, COPY
  <2> QED BY <1>2, <2>1, <2>2, Copies
<1>3. CASE p.hp[x]["WOS"] = NFORM
  <2>1. PackWrites(p.hp, p.gg, p.off, x) = NFormWrites(p.hp, p.gg, p.off, x)
    BY <1>3 DEF PackWrites, COPY, NFORM
  <2>2. Packed(p.hp, x)
    BY <1>3 DEF Packed, UNUSED, NFORM
  <2> QED BY <1>3, <2>1, <2>2, NormalForms
<1> QED BY <1>1, <1>2, <1>3

(* The two packing kernels write apart from each other, and neither of them *)
(* beyond the workspace.                                                   *)
LEMMA PackingsApart ==
  ASSUME NEW p, IsProblem(p), Derivable(p.hp, p.gg)
  PROVE  /\ \A x \in Chiral : \A s \in PackWrites(p.hp, p.gg, p.off, x) :
              s.to \in p.off["W"] .. p.off["W"] + p.gg.ws - 1
         /\ \A r \in PackWrites(p.hp, p.gg, p.off, "A"), s \in PackWrites(p.hp, p.gg, p.off, "B") :
              r.to # s.to
<1> DEFINE S(x) == PackWrites(p.hp, p.gg, p.off, x)
           n(x) == CwElements(p.hp, p.gg, x)
           o == p.off["W"]
           ws == p.gg.ws
           start(x) == CwGlobalOffset(p.hp, p.gg, x) + o
<1>1. o \in Nat /\ \A x \in Chiral : start(x) \in Nat /\ n(x) \in Nat
  BY Room, ProblemParts
<1>2. n("A") + n("B") <= ws /\ ws \in Nat
  BY Room, ProblemParts
<1>3. ASSUME NEW x \in Chiral, NEW s \in S(x)
      PROVE  s.to \in start(x) .. start(x) + n(x) - 1 /\ Packed(p.hp, x)
  <2> HIDE DEF start
  <2>1. start(x) = CwGlobalOffset(p.hp, p.gg, x) + p.off["W"]
    BY DEF start
  <2> QED BY <2>1, Packing
<1>4. start("A") = o /\ start("B") = (IF Packed(p.hp, "A") THEN n("A") ELSE 0) + o
  BY <1>1 DEF CwGlobalOffset
<1> HIDE DEF S, n, o, ws, start
<1>5. \A s \in S("A") : s.to \in o .. o + n("A") - 1 /\ Packed(p.hp, "A")
  BY <1>3, <1>4 DEF Chiral
<1>6. \A s \in S("B") : /\ s.to \in Int /\ s.to <= o + ws - 1
                        /\ s.to >= IF Packed(p.hp, "A") THEN o + n("A") ELSE o
  BY <1>1, <1>2, <1>3, <1>4 DEF Chiral
<1>7. \A x \in Chiral : \A s \in S(x) : s.to \in o .. o + ws - 1
  BY <1>1, <1>2, <1>5, <1>6 DEF Chiral
<1>8. \A r \in S("A"), s \in S("B") : r.to # s.to
  BY <1>1, <1>5, <1>6 DEF Chiral
<1> QED BY <1>7, <1>8 DEF S, o, ws

(* The elements of a set that have different addresses in an interval are  *)
(* as many as their addresses.                                             *)
LEMMA AsManyAddresses ==
  ASSUME NEW S, NEW lo \in Int, NEW hi \in Int,
         \A s \in S : s.to \in lo .. hi,
         \A r, s \in S : r.to = s.to => r = s
  PROVE  IsFiniteSet(S) /\ Cardinality({s.to : s \in S}) = Cardinality(S)
<1> DEFINE T == {s.to : s \in S}
           f == [s \in S |-> s.to]
<1>1. IsFiniteSet(T)
  <2>1. T \in SUBSET (lo .. hi)
    OBVIOUS
  <2>2. IsFiniteSet(lo .. hi)
    BY FS_Interval
  <2> QED BY <2>1, <2>2, FS_Subset
<1>2. f \in Bijection(S, T)
  <2>1. f \in [S -> T]
    OBVIOUS
  <2>2. \A t \in T : \E s \in S : f[s] = t
    OBVIOUS
  <2>3. \A r, s \in S : f[r] = f[s] => r = s
    OBVIOUS
  <2>4. IsInjective(f)
    BY <2>3 DEF IsInjective
  <2> QED BY <2>1, <2>2, <2>4 DEF Bijection, Injection, Surjection
<1>3. f \in Injection(S, T) /\ f \in Surjection(S, T)
  BY <1>2 DEF Bijection
<1> HIDE DEF f, T
<1>4. IsFiniteSet(S) /\ Cardinality(S) = Cardinality(T)
  BY <1>1, <1>3, FS_Injection, Zenon
<1> QED BY <1>4 DEF T

---------------------------------------------------------------------------
(* What the main kernel loads.                                             *)

(* Of so many whole unrolls and a rest, all but the first o elements.      *)
LEMMA WithinUnrolls ==
  ASSUME NEW K \in Nat, NEW unr \in Nat, unr > 0, NEW o \in 0 .. unr - 1, NEW d \in 0 .. unr - 1,
         NEW u \in Nat, u < K \div unr \/ (u = K \div unr /\ d < K % unr), u >= 1 \/ d >= o
  PROVE  unr * u + d \in o .. K - 1
<1> DEFINE W == K \div unr
           rest == K % unr
           uu == unr * u
           uW == unr * W
<1>1. W \in Nat /\ rest \in Nat /\ rest < unr /\ K = uW + rest
  BY DivMod
<1>2. uu \in Nat /\ uW \in Nat /\ (u >= 1 => uu >= unr)
  BY <1>1, Products
<1>3. u = W => uu = uW
  OBVIOUS
<1>4. u < W => uu + unr <= uW
  <2> HAVE u < W
  <2>1. unr * (u + 1) <= unr * W
    BY <1>1, ProductsGrow
  <2>2. unr * (u + 1) = unr * u + unr
    BY Products
  <2> QED BY <2>1, <2>2
<1>5. u < W \/ (u = W /\ d < rest)
  OBVIOUS
<1> HIDE DEF W, rest, uu, uW
<1>6. uu + d <= K - 1
  BY <1>1, <1>2, <1>3, <1>4, <1>5
<1>7. uu + d >= o
  BY <1>2
<1> QED BY <1>2, <1>6, <1>7 DEF uu

(* Whole unrolls are dealt out: q to each of the groups, and one more to   *)
(* the first.                                                              *)
LEMMA UnrollsAreShared ==
  ASSUME NEW K \in Nat, NEW unr \in Nat, unr > 0, NEW ice \in Nat, ice > 0
  PROVE  LET q == K \div (ice * unr)
             more == (K % (ice * unr)) \div unr
         IN  q \in Nat /\ more \in Nat /\ more < ice /\ K \div unr = ice * q + more
<1> DEFINE G == ice * unr
           r == K % G
           q == K \div G
           more == r \div unr
           rest == r % unr
           iq == ice * q
<1>1. G \in Nat /\ G > 0
  BY Products
<1>2. q \in Nat /\ r \in Nat /\ r < G /\ K = G * q + r
  BY <1>1, DivMod
<1>3. more \in Nat /\ rest \in Nat /\ rest < unr /\ r = unr * more + rest
  BY <1>2, DivMod
<1>4. more < ice
  <2>1. unr * more < unr * ice
    <3>1. unr * ice = G /\ unr * more \in Int
      BY <1>3, Products
    <3> HIDE DEF G, r, rest, more
    <3> QED BY <1>1, <1>2, <1>3, <3>1
  <2> QED BY <1>3, <2>1, ProductsGrow
<1>5. K = unr * (iq + more) + rest
  <2>1. G * q = unr * iq /\ iq \in Int
    <3>1. q \in Int
      BY <1>2
    <3>2. ice * unr = unr * ice
      BY Products
    <3>3. (unr * ice) * q = unr * (ice * q) /\ ice * q \in Int
      BY <3>1, Products
    <3> QED BY <3>2, <3>3
  <2>2. unr * (iq + more) = unr * iq + unr * more
    <3> HIDE DEF iq, G, r, rest, q, more
    <3> QED BY <1>3, <2>1, Products
  <2>3. unr * iq \in Int /\ unr * more \in Int
    BY <1>3, <2>1, Products
  <2> HIDE DEF G, r, rest, iq, q, more
  <2> QED BY <1>2, <1>3, <2>1, <2>2, <2>3
<1>6. iq + more \in Int
  BY <1>2, <1>3, Products
<1> HIDE DEF iq, rest, q, more
<1>7. (unr * (iq + more) + rest) \div unr = iq + more
  BY <1>3, <1>6, DivUnique
<1>8. K \div unr = iq + more
  BY <1>5, <1>7
<1> QED BY <1>2, <1>3, <1>4, <1>8, Zenon DEF iq, q, more

(* It is within the summation, however unrolls are shared.                 *)
LEMMA WithinSummation ==
  ASSUME NEW p, IsProblem(p), Derivable(p.hp, p.gg), NEW z \in 0 .. p.hp["C"]["ICE"] - 1,
         NEW tile, tile["A"] \in Int, tile["B"] \in Int, NEW n \in Nat, NEW d \in 0 .. p.hp["C"]["UNR"] - 1,
         Summing(p, tile, z, n, d)
  PROVE  /\ KStart(p.hp, p.gg, tile, z) \in Int /\ n * Jump(p.hp) \in Int
         /\ KStart(p.hp, p.gg, tile, z) + n * Jump(p.hp) + d \in 0 .. p.gg.k - 1
<1> DEFINE unr == p.hp["C"]["UNR"]
           ice == p.hp["C"]["ICE"]
           K == EffectiveK(p.hp, p.gg, tile)
           o == UnrollOffset(p.hp, tile)
           q == K \div (ice * unr)
           more == WorkGroupsWith1More(p.hp, p.gg, tile)
           R == UnrollsRemaining(p.hp, p.gg, tile, z)
           rest == KRemaining(p.hp, p.gg, tile)
           split == SplitOnK(p.hp)
           woven == Interwoven(p.hp)
           start == KStart(p.hp, p.gg, tile, z)
           jump == Jump(p.hp)
           first == HasFirst(p.hp, z)
           tail == HasTail(p.hp, p.gg, tile, z)
           ufo == p.hp["C"]["UFO"] = YES
           W == K \div unr
<1>1. /\ unr \in Nat /\ unr > 0 /\ ice \in Nat /\ ice > 0 /\ o \in 0 .. unr - 1
      /\ K \in Nat /\ K = p.gg.k + o /\ p.gg.k \in Nat /\ z \in Nat /\ z < ice
  BY ProblemParts, OffsetOfUnrolls DEF EffectiveK
<1>2. more = (K % (ice * unr)) \div unr /\ rest = K % unr
  BY DEF WorkGroupsWith1More, GUnroll, KRemaining
<1>3. q \in Nat /\ more \in Nat /\ more < ice /\ W = ice * q + more /\ W \in Nat
  <2>1. q \in Nat /\ more \in Nat /\ more < ice /\ W = ice * q + more
    <3> HIDE DEF K, ice, unr
    <3>1. K \in Nat /\ unr \in Nat /\ unr > 0 /\ ice \in Nat /\ ice > 0
      BY <1>1
    <3>2. more = (K % (ice * unr)) \div unr
      BY <1>2
    <3> HIDE DEF more
    <3> QED BY ONLY <3>1, <3>2, UnrollsAreShared
  <2> HIDE DEF q, more, W, ice, unr, K
  <2> QED BY <1>1, <2>1, Products
<1>4. /\ R = IF ~split THEN W ELSE q + (IF z < more THEN 1 ELSE 0)
      /\ R \in Nat /\ (first => R > 0)
  BY UnrollsAreCounted DEF UnrollsRemaining, GUnroll
<1>5. /\ start = (IF ~split THEN 0 ELSE IF woven THEN unr * z
                  ELSE (1 + q) * unr * z - (IF z > more THEN unr * (z - more) ELSE 0)) - o
      /\ jump = IF split /\ woven THEN ice * unr ELSE unr
  BY DEF KStart, Jump, GUnroll, SplitOnK, Interwoven
<1>6. first <=> ufo /\ (split => z = 0)
  BY DEF HasFirst
<1>7. tail => (split => z = IF woven THEN more ELSE ice - 1)
  BY DEF HasTail
<1>8. (ufo => p.gg.k > unr) /\ (~ufo => o = 0)
  BY DerivableParts DEF UnrollOffset
<1>9. split <=> ice # 1
  BY DEF SplitOnK
<1>10. \/ first /\ n = 0 /\ d >= o
       \/ n < R /\ (first => n > 0)
       \/ n = R /\ tail /\ d < rest
  BY DEF Summing
<1> HIDE DEF unr, ice, K, o, q, more, R, rest, split, woven, start, jump, first, tail, ufo, W
<1>11. ufo => W >= 1
  <2> HAVE ufo
  <2>1. K >= unr /\ K \in Int
    BY <1>1, <1>8
  <2>2. W = 0 => K < unr
    <3>1. K = unr * (K \div unr) + (K % unr) /\ K % unr < unr /\ K % unr \in Nat
      <4>1. K \in Int /\ unr \in Nat /\ unr > 0
        BY <1>1
      <4> QED BY <4>1, DivMod, Zenon
    <3>2. unr * 0 = 0
      BY <1>1, Products
    <3> QED BY <3>1, <3>2 DEF W
  <2> QED BY <1>1, <1>3, <2>1, <2>2
<1> DEFINE At(u) ==
             /\ u \in Nat /\ start \in Int /\ n * jump \in Int /\ start + o + n * jump = unr * u
             /\ n < R => u < W
             /\ n = R /\ tail => u = W
             /\ ufo => u >= 1 \/ (first /\ n = 0)
<1>12. \E u \in Nat : At(u)
  <2>1. CASE ~split
    <3>1. At(n)
      <4>1. n * unr = unr * n /\ n * unr \in Int
        BY <1>1, Products
      <4> QED BY <1>1, <1>4, <1>5, <1>6, <2>1, <4>1
    <3> QED BY <3>1
  <2>2. CASE split /\ woven
    <3> DEFINE iq == ice * q
               in == ice * n
               u == z + in
    <3>1. in \in Nat /\ iq \in Nat /\ (n > 0 => in >= ice)
      BY <1>1, <1>3, Products
    <3>2. n < q => in + ice <= iq
      <4> HAVE n < q
      <4>1. ice * (n + 1) <= ice * q
        BY <1>1, <1>3, ProductsGrow
      <4>2. ice * (n + 1) = ice * n + ice
        BY <1>1, Products
      <4> QED BY <4>1, <4>2
    <3>3. n = q => in = iq
      OBVIOUS
    <3>4. start + o + n * jump = unr * u /\ start \in Int /\ n * jump \in Int
      <4>1. n * (ice * unr) = unr * in /\ unr * in \in Int /\ unr * z \in Int
        <5>1. ice * unr = unr * ice /\ unr * ice \in Int
          BY <1>1, Products
        <5>2. n * (unr * ice) = (unr * ice) * n
          BY <5>1, Products
        <5>3. (unr * ice) * n = unr * (ice * n)
          BY <1>1, Products
        <5>4. unr * z \in Int /\ unr * in \in Int
          BY <1>1, <3>1, Products
        <5> QED BY <5>1, <5>2, <5>3, <5>4
      <4>2. unr * (z + in) = unr * z + unr * in
        BY <1>1, <3>1, Products
      <4> HIDE DEF in
      <4> QED BY <1>1, <1>5, <2>2, <4>1, <4>2
    <3>5. u \in Nat
      BY <1>1, <3>1
    <3>6. W = iq + more
      BY <1>3
    <3> HIDE DEF iq, in
    <3>7. n < R => u < W
      <4> HAVE n < R
      <4>1. n < q \/ (n = q /\ z < more)
        BY <1>1, <1>3, <1>4, <2>2
      <4> QED BY <1>1, <1>3, <3>1, <3>2, <3>3, <3>6, <4>1
    <3>8. n = R /\ tail => u = W
      <4> HAVE n = R /\ tail
      <4>1. z = more /\ n = q
        BY <1>3, <1>4, <1>7, <2>2
      <4> QED BY <1>3, <3>1, <3>3, <3>6, <4>1
    <3>9. ufo => u >= 1 \/ (first /\ n = 0)
      BY <1>1, <1>6, <3>1
    <3> HIDE DEF u
    <3>10. At(u)
      BY <3>4, <3>5, <3>7, <3>8, <3>9
    <3> QED BY <3>5, <3>10
  <2>3. CASE split /\ ~woven
    <3> DEFINE iq == ice * q
               qz == q * z
               least == IF z < more THEN z ELSE more
               s == qz + least
               u == s + n
    <3>1. qz \in Nat /\ iq \in Nat /\ least \in Nat /\ (q > 0 /\ z > 0 => qz >= 1)
      BY <1>1, <1>3, Products
    <3>2. qz + q <= iq /\ (z = ice - 1 => qz + q = iq)
      <4>1. q * (z + 1) <= q * ice
        BY <1>1, <1>3, ProductsGrow
      <4>2. q * (z + 1) = q * z + q /\ q * ice = ice * q
        BY <1>1, <1>3, Products
      <4>3. z = ice - 1 => z + 1 = ice
        BY <1>1
      <4> QED BY <4>1, <4>2, <4>3
    <3>3. W = iq + more
      BY <1>3
    <3>4. start + o = unr * s /\ start \in Int
      <4>1. (1 + q) * unr * z = unr * (z + qz)
        <5>1. (1 + q) * unr = unr * (1 + q) /\ 1 + q \in Int
          BY <1>1, <1>3, Products
        <5>2. (unr * (1 + q)) * z = unr * ((1 + q) * z)
          BY <1>1, <5>1, Products
        <5>3. (1 + q) * z = z + qz
          BY <1>1, <1>3, <5>1, Products
        <5> QED BY <5>1, <5>2, <5>3
      <4>2. z > more => unr * (z + qz) - unr * (z - more) = unr * (qz + more)
        <5> DEFINE a == z + qz
                   b == z - more
        <5>1. a \in Int /\ b \in Int /\ a - b = qz + more
          BY <1>1, <1>3, <3>1
        <5> HIDE DEF a, b
        <5>2. unr * (a - b) = unr * a - unr * b
          BY <1>1, <5>1, Products
        <5> QED BY <5>1, <5>2 DEF a, b
      <4>3. unr * (z + qz) \in Int /\ (z > more => unr * (z - more) \in Int)
        BY <1>1, <1>3, <3>1, Products
      <4>4. start = unr * (z + qz) - (IF z > more THEN unr * (z - more) ELSE 0) - o
        BY <1>5, <2>3, <4>1
      <4>5. s = IF z > more THEN qz + more ELSE z + qz
        BY <1>1, <1>3, <3>1
      <4> HIDE DEF qz, s, least
      <4> QED BY <1>1, <4>2, <4>3, <4>4, <4>5
    <3> HIDE DEF iq, qz
    <3>5. s \in Nat
      BY <3>1
    <3>6. start + o + n * jump = unr * u /\ n * jump \in Int
      <4> HIDE DEF s
      <4>1. unr * (s + n) = unr * s + unr * n /\ n * unr = unr * n /\ unr * n \in Int /\ unr * s \in Int
        BY <1>1, <3>5, Products
      <4> QED BY <1>1, <1>5, <2>3, <3>4, <4>1
    <3>7. n < R => u < W
      BY <1>1, <1>3, <1>4, <2>3, <3>1, <3>2, <3>3
    <3>8. n = R /\ tail => u = W
      BY <1>1, <1>3, <1>4, <1>7, <2>3, <3>1, <3>2, <3>3
    <3>9. ufo => u >= 1 \/ (first /\ n = 0)
      <4> HAVE ufo
      <4>1. CASE z = 0
        BY <1>6, <3>1, <4>1
      <4>2. CASE z > 0
        <5>1. q > 0 \/ more >= 1
          <6>1. q = 0 => iq = 0
            BY <1>1, Products DEF iq
          <6> QED BY <1>3, <1>11, <3>3, <6>1
        <5> QED BY <1>1, <1>3, <3>1, <4>2, <5>1
      <4> QED BY <1>1, <4>1, <4>2
    <3>10. u \in Nat
      BY <3>5
    <3> HIDE DEF s, u
    <3>11. At(u)
      BY <3>4, <3>6, <3>7, <3>8, <3>9, <3>10
    <3> QED BY <3>10, <3>11
  <2> QED BY <2>1, <2>2, <2>3
<1>13. PICK u \in Nat : At(u)
  BY <1>12
<1>14. u < W \/ (u = W /\ d < rest)
  BY <1>4, <1>10, <1>13
<1>15. u >= 1 \/ d >= o
  <2>1. CASE ufo
    <3>1. first /\ n = 0 => d >= o
      BY <1>4, <1>10
    <3> QED BY <1>13, <2>1, <3>1
  <2>2. CASE ~ufo
    BY <1>1, <1>8, <2>2
  <2> QED BY <2>1, <2>2
<1>16. unr * u + d \in o .. K - 1
  <2>1. d \in 0 .. unr - 1
    BY DEF unr
  <2> QED BY <1>1, <1>2, <1>14, <1>15, <2>1, WithinUnrolls DEF W
<1>17. start \in Int /\ n * jump \in Int /\ start + n * jump + d = unr * u + d - o /\ unr * u \in Int
  <2>1. start \in Int /\ n * jump \in Int /\ start + o + n * jump = unr * u
    BY <1>13
  <2>2. d \in Int
    OBVIOUS
  <2> DEFINE nj == n * jump
             uu == unr * u
  <2> HIDE DEF nj, uu, At
  <2>3. start \in Int /\ nj \in Int /\ start + o + nj = uu
    BY <2>1 DEF nj, uu
  <2>4. start + nj + d = uu + d - o /\ uu \in Int
    BY <1>1, <2>2, <2>3
  <2> QED BY <2>3, <2>4 DEF nj, uu
<1> DEFINE uu == unr * u
           nj == n * jump
<1> HIDE DEF uu, nj, At
<1>18. start + nj + d \in 0 .. p.gg.k - 1
  <2>1. uu + d \in o .. K - 1 /\ start + nj + d = uu + d - o /\ uu \in Int /\ d \in Int
    BY <1>16, <1>17 DEF uu, nj
  <2> QED BY <1>1, <2>1
<1> QED BY <1>17, <1>18 DEF nj, start, jump

(* What is less than a product is divided into digits.                     *)
LEMMA TwoDigits ==
  ASSUME NEW a \in Nat, NEW b \in Nat, NEW v \in 0 .. a * b - 1
  PROVE  a > 0 /\ b > 0 /\ v % a \in 0 .. a - 1 /\ v \div a \in 0 .. b - 1
<1>1. a > 0 /\ b > 0
  <2>1. a = 0 => a * b = 0
    BY Products
  <2>2. b = 0 => a * b = 0
    BY Products
  <2> QED BY <2>1, <2>2
<1> DEFINE q == v \div a
           r == v % a
<1>2. v \in Int /\ q \in Nat /\ r \in Nat /\ r < a /\ v = a * q + r /\ v < a * b
  <2>1. v \in Int /\ v >= 0
    BY Products
  <2> QED BY <1>1, <2>1, DivMod, Products
<1> HIDE DEF q, r
<1>3. a * q < a * b /\ q \in Int
  BY <1>2, Products
<1>4. q < b
  BY <1>1, <1>3, ProductsGrow
<1>5. q \in 0 .. b - 1 /\ r \in 0 .. a - 1
  BY <1>2, <1>4
<1> QED BY <1>1, <1>5 DEF q, r

(* The tiles of super-columns are tiles of C, those of the last one too.   *)
LEMMA SuperColumnsInside ==
  ASSUME NEW nA \in Nat, nA > 0, NEW nB \in Nat, nB > 0, NEW wd \in Nat, wd > 0,
         NEW v \in 0 .. nA * nB - 1
  PROVE  LET last == nB % wd
             column == v \div (wd * nA)
         IN IF last = 0 \/ (last # nB /\ v < (nB - last) * nA)
            THEN (v \div wd) % nA \in 0 .. nA - 1 /\ column * wd + (v % wd) \in 0 .. nB - 1
            ELSE /\ (v - (nB - last) * nA) \div last \in 0 .. nA - 1
                 /\ column * wd + (v % last) \in 0 .. nB - 1
<1> DEFINE last == nB % wd
           Q == nB \div wd
           wdQ == wd * Q
           S == wd * nA
           full == (nB - last) * nA
           lastA == last * nA
           column == v \div S
           inFull == last = 0 \/ (last # nB /\ v < full)
<1>1. Q \in Nat /\ last \in Nat /\ last < wd /\ nB = wdQ + last /\ wdQ \in Nat
  <2>1. Q \in Nat /\ last \in Nat /\ last < wd /\ nB = wdQ + last
    BY DivMod
  <2> HIDE DEF last
  <2> QED BY <2>1
<1>2. S \in Nat /\ S > 0 /\ column = v \div S
  BY Products
<1>3. v \in Nat /\ v < nA * nB /\ nA * nB \in Int
  BY Products
<1> HIDE DEF column
<1>4. column \in Nat /\ v % S \in Nat /\ v % S < S /\ v = S * column + (v % S)
  <2> HIDE DEF S
  <2> QED BY <1>2, <1>3, DivMod
<1>5. v \div wd \in Int /\ v % wd \in 0 .. wd - 1
  BY <1>3, DivMod
<1>6. (v \div wd) % nA \in 0 .. nA - 1
  <2> DEFINE y == v \div wd
  <2>1. y \in Int
    BY <1>5
  <2> HIDE DEF y
  <2>2. y % nA \in Nat /\ y % nA < nA
    BY <2>1, DivMod
  <2>3. y % nA \in 0 .. nA - 1
    BY <2>2
  <2> QED BY <2>3 DEF y
<1>7. full = S * Q
  <2>1. nB - last = wdQ
    BY <1>1
  <2>2. wdQ * nA = nA * wdQ /\ wd * nA = nA * wd
    <3> HIDE DEF wdQ, last, Q
    <3> QED BY <1>1, Products
  <2>3. (nA * wd) * Q = nA * (wd * Q)
    <3> HIDE DEF last, Q
    <3> QED BY <1>1, Products
  <2> QED BY <2>1, <2>2, <2>3
<1> HIDE DEF Q
<1>8. nA * nB = full + lastA /\ full \in Nat /\ lastA \in Nat
  <2>1. full = wdQ * nA
    BY <1>1
  <2> HIDE DEF wdQ, last
  <2>2. nA * (wdQ + last) = nA * wdQ + nA * last /\ nA * wdQ = wdQ * nA /\ nA * last = lastA
    BY <1>1, Products
  <2>3. wdQ * nA \in Nat /\ lastA \in Nat
    BY <1>1, Products
  <2> QED BY <1>1, <2>1, <2>2, <2>3
<1>9. lastA < S
  <2> HIDE DEF last
  <2>1. nA * last < nA * wd
    BY <1>1, ProductsGrow
  <2>2. nA * last = last * nA /\ nA * wd = wd * nA
    BY <1>1, Products
  <2> QED BY <2>1, <2>2
<1>10. last = 0 => lastA = 0
  BY Products
<1>11. last = nB => full = 0
  <2>1. 0 * nA = 0
    BY Products
  <2> QED BY <2>1
<1>12. column * wd = wd * column /\ wd * column \in Nat
  BY <1>4, Products
<1>13. inFull <=> last = 0 \/ (last # nB /\ v < full)
  OBVIOUS
<1> DEFINE SQ == S * Q
           area == nA * nB
<1>14. full = SQ /\ area = SQ + lastA /\ v < area /\ SQ \in Nat
  BY <1>3, <1>7, <1>8
<1> HIDE DEF last, full, lastA, inFull, area
<1>15. ASSUME inFull PROVE column * wd + (v % wd) \in 0 .. nB - 1
  <2>1. v < SQ
    <3> HIDE DEF SQ
    <3> QED BY <1>3, <1>8, <1>10, <1>13, <1>14, <1>15
  <2>2. column < Q
    <3> HIDE DEF S
    <3>1. S * column \in Int /\ S * column <= v
      BY <1>2, <1>3, <1>4, Products
    <3>2. S * column < S * Q
      BY <1>3, <1>14, <2>1, <3>1
    <3> QED BY <1>1, <1>2, <1>4, <3>2, ProductsGrow
  <2>3. wd * (column + 1) <= wd * Q /\ wd * (column + 1) = wd * column + wd
    <3>1. column + 1 \in Int /\ column + 1 <= Q /\ column \in Int /\ Q \in Int
      BY <1>1, <1>4, <2>2
    <3>2. wd * (column + 1) = wd * column + wd * 1 /\ wd * 1 = wd
      BY <3>1, Products
    <3>3. wd * (column + 1) <= wd * Q
      <4> DEFINE c1 == column + 1
      <4>1. c1 \in Int /\ c1 <= Q
        BY <3>1
      <4> HIDE DEF c1
      <4>2. wd * c1 <= wd * Q
        BY <3>1, <4>1, ProductsGrow
      <4> QED BY <4>2 DEF c1
    <3> QED BY <3>2, <3>3
  <2> DEFINE wc == wd * column
             r == v % wd
  <2>4. wc + wd <= wdQ /\ wc \in Nat /\ column * wd = wc /\ r \in 0 .. wd - 1
    BY <1>5, <1>12, <2>3
  <2> HIDE DEF wdQ, wc, r
  <2>5. wc + r \in 0 .. nB - 1
    BY <1>1, <2>4
  <2> QED BY <2>4, <2>5 DEF r
<1>16. ASSUME ~inFull
       PROVE  /\ (v - full) \div last \in 0 .. nA - 1 /\ column * wd + (v % last) \in 0 .. nB - 1
  <2>1. last > 0 /\ last \in Nat
    BY <1>1, <1>13, <1>16
  <2>2. v >= full
    <3>1. last = nB \/ ~(v < full)
      BY <1>13, <1>16
    <3> QED BY <1>3, <1>8, <1>11, <3>1
  <2> DEFINE d == v - full
             q == v % last
  <2>3. d \in 0 .. last * nA - 1 /\ d < S /\ d \in Nat
    <3>1. d \in 0 .. lastA - 1
      <4> HIDE DEF SQ
      <4> QED BY <1>3, <1>8, <1>14, <2>2
    <3> QED BY <1>2, <1>8, <1>9, <3>1 DEF lastA
  <2>4. q \in Nat /\ q < last
    BY <1>3, <2>1, DivMod
  <2>5. v = SQ + d
    <3> HIDE DEF SQ
    <3> QED BY <1>3, <1>14
  <2> HIDE DEF d, q
  <2>6. d \div last \in 0 .. nA - 1
    BY <2>1, <2>3, TwoDigits
  <2>7. column = Q
    <3> HIDE DEF S
    <3>1. (S * Q + d) \div S = Q
      BY <1>1, <1>2, <2>3, DivUnique
    <3> QED BY <1>2, <2>5, <3>1
  <2>8. column * wd = wdQ
    BY <1>12, <2>7
  <2> HIDE DEF wdQ
  <2>9. column * wd + q \in 0 .. nB - 1
    BY <1>1, <2>4, <2>8
  <2> QED BY <2>6, <2>9 DEF d, q
<1>17. IF inFull
       THEN (v \div wd) % nA \in 0 .. nA - 1 /\ column * wd + (v % wd) \in 0 .. nB - 1
       ELSE (v - full) \div last \in 0 .. nA - 1 /\ column * wd + (v % last) \in 0 .. nB - 1
  BY <1>6, <1>15, <1>16
<1> QED BY <1>17 DEF inFull, full, column, last, S

(* A work group has a tile of C, in each of the orders.                    *)
LEMMA TilesOfGroups ==
  ASSUME NEW p, IsProblem(p), Derivable(p.hp, p.gg), NEW id \in Nat, id < MainWorkGroups(p.hp, p.gg),
         NEW x \in Chiral
  PROVE  TileOf(p.hp, p.gg, id)[x] \in 0 .. NGroups(p.hp, p.gg, x) - 1
<1> DEFINE nA == NGroups(p.hp, p.gg, "A")
           nB == NGroups(p.hp, p.gg, "B")
           ice == p.hp["C"]["ICE"]
           gid == GroupId(p.hp, p.gg, id)
           v == Xy(p.hp, p.gg, id)
           wd == SuperColumnWidth(p.hp)
           last == LastSuperColumnWidth(p.hp, p.gg)
           column == v \div (wd * nA)
           gal == p.hp["C"]["GAL"]
<1>1. /\ nA \in Nat /\ nA > 0 /\ nB \in Nat /\ nB > 0
      /\ nA = CeilDiv(p.gg.m, MacroTile(p.hp, "A")) /\ nB = CeilDiv(p.gg.n, MacroTile(p.hp, "B"))
  BY TilesOfMatrix DEF Chiral, NonKDim
<1>2. ice \in Nat /\ ice > 0 /\ MainWorkGroups(p.hp, p.gg) = ice * nA * nB
  BY <1>1, ProblemParts DEF MainWorkGroups
<1>3. v \in 0 .. nA * nB - 1
  <2>1. gid \in Nat /\ gid <= id
    <3> DEFINE T == TintC(p.hp, p.gg)
    <3>1. T \in Nat /\ T > 0
      BY DEF TintC, TintModulus, ShortModulus, SizeModulus
    <3> HIDE DEF T
    <3>2. id = T * (id \div T) + (id % T) /\ id % T \in Nat /\ id \div T \in Nat
      BY <3>1, DivMod
    <3>3. T * (id \div T) >= 0 /\ T * (id \div T) \in Int
      BY <3>1, <3>2, Products
    <3>4. gid = id % T
      BY DEF GroupId, T
    <3> HIDE DEF gid
    <3> QED BY <3>2, <3>3, <3>4
  <2>2. ice * nA * nB = ice * (nA * nB) /\ nA * nB \in Nat
    <3> HIDE DEF ice, nA, nB
    <3> QED BY <1>1, <1>2, Products
  <2>3. gid \in 0 .. ice * (nA * nB) - 1
    <3> DEFINE area == nA * nB
    <3> HIDE DEF area, ice, nA, nB
    <3>1. ice * area \in Int
      BY <1>2, <2>2, Products DEF area
    <3> QED BY <1>2, <2>1, <2>2, <3>1 DEF area
  <2>4. v = gid \div ice
    BY DEF Xy
  <2> DEFINE area == nA * nB
  <2> HIDE DEF area, ice, nA, nB, gid, v
  <2>5. gid \div ice \in 0 .. area - 1
    BY <1>2, <2>2, <2>3, TwoDigits DEF area
  <2> QED BY <2>4, <2>5 DEF area
<1>4. gal \in {BYROW, BYCOL, SUCOL} /\ BYROW # BYCOL /\ BYCOL # SUCOL /\ BYROW # SUCOL
  BY DEF IsProblem, BYROW, BYCOL, SUCOL
<1>5. TileOf(p.hp, p.gg, id) =
        CASE gal = BYCOL -> [A |-> v % nA, B |-> v \div nA]
          [] gal = BYROW -> [A |-> v \div nB, B |-> v % nB]
          [] gal = SUCOL -> SuperColumns(p.hp, p.gg, v)
  BY DEF TileOf, Chiral
<1>6. SuperColumns(p.hp, p.gg, v) =
        IF last = 0 \/ (last # nB /\ v < (nB - last) * nA)
        THEN [A |-> (v \div wd) % nA, B |-> column * wd + (v % wd)]
        ELSE [A |-> (v - (nB - last) * nA) \div last, B |-> column * wd + (v % last)]
  BY DEF SuperColumns
<1>7. gal = SUCOL => wd \in Nat /\ wd > 0 /\ last = nB % wd
  BY DerivableParts, WidthIsNatural DEF LastSuperColumnWidth
<1> HIDE DEF nA, nB, ice, gid, v, wd, last, column, gal
<1>8. CASE gal = BYCOL
  <2>1. v % nA \in 0 .. nA - 1 /\ v \div nA \in 0 .. nB - 1
    BY <1>1, <1>3, TwoDigits
  <2> QED BY <1>4, <1>5, <1>8, <2>1 DEF Chiral, nA, nB
<1>9. CASE gal = BYROW
  <2>1. v \in 0 .. nB * nA - 1
    BY <1>1, <1>3, Products
  <2>2. v % nB \in 0 .. nB - 1 /\ v \div nB \in 0 .. nA - 1
    BY <1>1, <2>1, TwoDigits
  <2> QED BY <1>4, <1>5, <1>9, <2>2 DEF Chiral, nA, nB
<1>10. CASE gal = SUCOL
  <2> DEFINE inFull == last = 0 \/ (last # nB /\ v < (nB - last) * nA)
             l == nB % wd
             strip == v \div (wd * nA)
  <2>1. IF l = 0 \/ (l # nB /\ v < (nB - l) * nA)
        THEN (v \div wd) % nA \in 0 .. nA - 1 /\ strip * wd + (v % wd) \in 0 .. nB - 1
        ELSE (v - (nB - l) * nA) \div l \in 0 .. nA - 1 /\ strip * wd + (v % l) \in 0 .. nB - 1
    BY <1>1, <1>3, <1>7, <1>10, SuperColumnsInside
  <2>2. l = last /\ strip = column
    BY <1>7, <1>10 DEF column
  <2> HIDE DEF l, strip
  <2>3. IF inFull
        THEN (v \div wd) % nA \in 0 .. nA - 1 /\ column * wd + (v % wd) \in 0 .. nB - 1
        ELSE /\ (v - (nB - last) * nA) \div last \in 0 .. nA - 1
             /\ column * wd + (v % last) \in 0 .. nB - 1
    BY <2>1, <2>2
  <2>4. TileOf(p.hp, p.gg, id) =
          IF inFull THEN [A |-> (v \div wd) % nA, B |-> column * wd + (v % wd)]
          ELSE [A |-> (v - (nB - last) * nA) \div last, B |-> column * wd + (v % last)]
    BY <1>4, <1>5, <1>6, <1>10
  <2> QED BY <2>3, <2>4 DEF Chiral, nA, nB
<1> QED BY <1>4, <1>8, <1>9, <1>10

(* Vectors of VEW elements fill the part of a work item, the tile and its  *)
(* padding.                                                                *)
LEMMA VectorsInTile ==
  ASSUME NEW p, IsProblem(p), Derivable(p.hp, p.gg), NEW x \in Chiral,
         NEW v, v = p.hp[x]["VEW"]
  PROVE  LET q == p.hp[x]["MIC"] \div v
             grid == MacroGrid(p.hp)[x]
         IN /\ v \in Nat /\ v > 0 /\ q \in Nat /\ q > 0 /\ p.hp[x]["MIC"] = v * q
            /\ grid \in Nat /\ grid > 0
            /\ MacroTile(p.hp, x) = v * (grid * q) /\ MacroTile(p.hp, x) \div v = grid * q
            /\ PaddedTile(p.hp, x) \in Nat /\ PaddedTile(p.hp, x) >= MacroTile(p.hp, x)
            /\ PaddedTile(p.hp, x) \div v \in Nat
            /\ v * (PaddedTile(p.hp, x) \div v) = PaddedTile(p.hp, x)
<1> DEFINE mic == p.hp[x]["MIC"]
           grid == MacroGrid(p.hp)[x]
           q == mic \div v
           pad == p.hp[x]["PAD"]
           TH == MacroTile(p.hp, x)
           PT == PaddedTile(p.hp, x)
           gq == grid * q
<1>1. /\ v \in Nat /\ v > 0 /\ mic \in Nat /\ mic > 0 /\ pad \in Nat /\ grid \in Nat /\ grid > 0
      /\ TH \in Nat
  BY ProblemParts, Tiled, DerivableParts
<1>2. mic % v = 0
  <2>1. v # 1 => mic % v = 0
    BY DerivableParts DEF Vectorizable
  <2>2. v = 1 => mic % v = 0
    BY <1>1
  <2> QED BY <2>1, <2>2
<1>3. q \in Nat /\ q > 0 /\ mic = v * q
  <2> HIDE DEF mic
  <2> QED BY <1>1, <1>2, NoRest
<1>4. TH = grid * mic /\ PT = TH + v * pad
  BY DEF MacroTile, PaddedTile
<1> HIDE DEF mic, grid, q, pad, TH, PT
<1>5. gq \in Nat /\ gq > 0
  BY <1>1, <1>3, Products
<1>6. grid * (v * q) = v * gq
  <2>1. grid * (v * q) = (grid * v) * q /\ grid * v = v * grid /\ (v * grid) * q = v * (grid * q)
    BY <1>1, <1>3, Products
  <2> QED BY <2>1
<1> HIDE DEF gq
<1>7. TH = v * gq /\ TH \div v = gq
  BY <1>1, <1>3, <1>4, <1>5, <1>6, DivExact
<1>8. PT = v * (gq + pad) /\ gq + pad \in Nat /\ v * pad \in Nat
  <2>1. v * (gq + pad) = v * gq + v * pad /\ v * pad \in Int /\ v * pad >= 0
    BY <1>1, <1>5, Products
  <2> QED BY <1>1, <1>4, <1>5, <1>7, <2>1
<1>9. PT \div v = gq + pad
  BY <1>1, <1>8, DivExact
<1>10. PT \in Nat /\ PT >= TH
  BY <1>1, <1>4, <1>8
<1> QED BY <1>1, <1>3, <1>5, <1>7, <1>8, <1>9, <1>10 DEF gq, mic, grid, q, TH, PT

(* Vectors are loaded from where they are: of what is divided by their     *)
(* width nothing is lost.                                                  *)
LEMMA ExactVectors ==
  ASSUME NEW p, IsProblem(p), Derivable(p.hp, p.gg), NEW x \in Chiral,
         NEW i \in LoadPll(p.hp, x), i \in Nat, NEW j \in Nat
  PROVE  LET v == p.hp[x]["VEW"]
             along == Stride(p.hp, p.gg, x, TRUE, FALSE, p.hp[x]["WOS"])
             across == Stride(p.hp, p.gg, x, FALSE, FALSE, p.hp[x]["WOS"])
         IN /\ along \in Nat /\ across \in Nat /\ (v # 1 => across = 1)
            /\ v * ((i * along + v * j * across) \div v) = i * along + v * j * across
            /\ v * ((along * Jump(p.hp)) \div v) = along * Jump(p.hp)
<1> DEFINE v == p.hp[x]["VEW"]
           along == Stride(p.hp, p.gg, x, TRUE, FALSE, p.hp[x]["WOS"])
           across == Stride(p.hp, p.gg, x, FALSE, FALSE, p.hp[x]["WOS"])
           unr == p.hp["C"]["UNR"]
           t == MicroTile(p.hp, x)
           n == MicroTilesPllUnroll(p.hp, x)
           jump == Jump(p.hp)
           liw == p.hp[x]["LIW"]
           ice == p.hp["C"]["ICE"]
<1>1. /\ v \in Nat /\ v > 0 /\ unr \in Nat /\ unr > 0 /\ ice \in Nat
  BY ProblemParts
<1>2. along \in Nat /\ across \in Nat
  <2>1. TargetLdx(p.gg, x) \in Nat /\ p.gg.ld[x] \in Nat /\ MacroTile(p.hp, x) \in Nat
    BY TargetHolds, ProblemParts, TilesOfMatrix
  <2>2. p.hp[x]["WOS"] \in {UNUSED, COPY, NFORM}
    BY DEF IsProblem
  <2> QED BY <2>1, <2>2 DEF Stride, UNUSED, COPY, NFORM
<1>3. jump = (IF SplitOnK(p.hp) /\ Interwoven(p.hp) THEN ice ELSE 1) * unr
  <2>1. 1 * unr = unr
    BY <1>1, Products
  <2> QED BY <2>1 DEF Jump, GUnroll
<1>4. v # 1 => across = 1 /\ (IF liw = YES THEN along * n ELSE along) % v = 0
  BY DerivableParts DEF Vectorizable
<1>5. n \in Nat /\ n > 0 /\ t[2] \in Nat /\ unr = t[2] * n
  <2>1. t[2] \in Nat /\ t[2] > 0 /\ unr % t[2] = 0 /\ n = unr \div t[2]
    BY LoadTile DEF MicroTilesPllUnroll
  <2> HIDE DEF t, n, unr
  <2> QED BY <1>1, <2>1, NoRest
<1>6. liw = YES => i % n = 0
  BY DEF LoadPll, EveryUpTo, MicroTilesPllUnroll, YES
<1> HIDE DEF v, along, across, unr, t, n, jump, liw, ice
<1> DEFINE times == IF SplitOnK(p.hp) /\ Interwoven(p.hp) THEN ice ELSE 1
           t2 == t[2]
           Whole(y) == \E m \in Int : y = v * m
<1>7. times \in Nat /\ jump = times * unr /\ t2 \in Nat /\ unr = t2 * n
  BY <1>1, <1>3, <1>5
<1> HIDE DEF times, t2
<1>8. ASSUME NEW y \in Int, Whole(y) PROVE v * (y \div v) = y
  <2>1. PICK m \in Int : y = v * m
    BY <1>8
  <2> QED BY <1>1, <2>1, DivExact
<1>9. Whole(i * along) /\ Whole(unr * along)
  <2>1. CASE v = 1
    <3>1. i * along = v * (i * along) /\ unr * along = v * (unr * along)
          /\ i * along \in Int /\ unr * along \in Int
      BY <1>1, <1>2, <2>1, Products
    <3> QED BY <3>1
  <2>2. CASE v # 1 /\ liw = YES
    <3>1. along * n \in Nat /\ (along * n) % v = 0
      BY <1>2, <1>4, <1>5, <2>2, Products
    <3>2. PICK m \in Int : along * n = v * m
      <4> DEFINE load == along * n
      <4> HIDE DEF load
      <4>1. load \in Nat /\ load % v = 0
        BY <3>1 DEF load
      <4>2. load \div v \in Int /\ load = v * (load \div v)
        BY <1>1, <4>1, NoRest
      <4> QED BY <4>2 DEF load
    <3>3. PICK r \in Int : i = n * r
      <4>1. i \div n \in Int /\ i = n * (i \div n)
        BY <1>5, <1>6, <2>2, NoRest
      <4> QED BY <4>1
    <3>4. ASSUME NEW y \in Int PROVE (n * y) * along = v * (m * y) /\ m * y \in Int
      <4>1. (n * y) * along = along * (n * y) /\ along * (n * y) = (along * n) * y
        BY <1>2, <1>5, Products
      <4>2. (v * m) * y = v * (m * y) /\ m * y \in Int
        BY <1>1, Products
      <4> QED BY <3>2, <4>1, <4>2
    <3>5. unr = n * t2 /\ t2 \in Int
      BY <1>5, <1>7, Products
    <3> QED BY <3>3, <3>4, <3>5
  <2>3. CASE v # 1 /\ liw # YES
    <3>1. PICK m \in Int : along = v * m
      <4>1. along % v = 0
        BY <1>4, <2>3
      <4>2. along \div v \in Int /\ along = v * (along \div v)
        BY <1>1, <1>2, <4>1, NoRest
      <4> QED BY <4>2
    <3>2. ASSUME NEW y \in Int PROVE y * along = v * (m * y) /\ m * y \in Int
      <4>1. y * along = along * y /\ (v * m) * y = v * (m * y) /\ m * y \in Int
        BY <1>1, <1>2, Products
      <4> QED BY <3>1, <4>1
    <3>3. i * along = v * (m * i) /\ m * i \in Int
      BY <3>2
    <3>4. unr * along = v * (m * unr) /\ m * unr \in Int
      BY <1>1, <3>2
    <3> QED BY <3>3, <3>4
  <2> QED BY <2>1, <2>2, <2>3
<1>10. v * ((along * jump) \div v) = along * jump
  <2>1. PICK m \in Int : unr * along = v * m
    BY <1>9
  <2>2. along * jump = times * (unr * along)
    <3>1. along * (times * unr) = (times * unr) * along
      <4>1. times * unr \in Int
        BY <1>1, <1>7, Products
      <4> QED BY <1>2, <4>1, Products
    <3>2. (times * unr) * along = times * (unr * along)
      BY <1>1, <1>2, <1>7, Products
    <3> QED BY <1>7, <3>1, <3>2
  <2>3. times * (v * m) = v * (times * m) /\ times * m \in Int
    <3>1. times * (v * m) = (times * v) * m /\ times * v = v * times /\ times * m \in Int
      BY <1>1, <1>7, Products
    <3>2. (v * times) * m = v * (times * m)
      BY <1>1, <1>7, Products
    <3> QED BY <3>1, <3>2
  <2>4. along * jump = v * (times * m)
    BY <2>1, <2>2, <2>3
  <2>5. v * (times * m) \in Int
    BY <1>1, <2>3, Products
  <2> QED BY <1>8, <2>3, <2>4, <2>5
<1>11. v * ((i * along + v * j * across) \div v) = i * along + v * j * across
  <2>1. PICK m \in Int : i * along = v * m
    BY <1>9
  <2>2. v * j * across = v * (j * across) /\ j * across \in Int
    BY <1>1, <1>2, Products
  <2> DEFINE ja == j * across
  <2>3. v * j * across = v * ja /\ ja \in Int
    BY <2>2
  <2> HIDE DEF ja
  <2>4. v * (m + ja) = v * m + v * ja /\ m + ja \in Int
    BY <1>1, <2>3, Products
  <2>5. v * (m + ja) \in Int
    BY <1>1, <2>4, Products
  <2> QED BY <1>8, <2>1, <2>3, <2>4, <2>5
<1> QED BY <1>2, <1>4, <1>10, <1>11 DEF v, along, across, jump

(* Where the loads of a tile start, but for where they start along k.      *)
LoadOrigin(p, tile, x) ==
  (IF Packed(p.hp, x) THEN p.off["W"] + CwGlobalOffset(p.hp, p.gg, x) ELSE p.off[x])
  + ReadStart(p.hp, p.gg, tile, x) * Stride(p.hp, p.gg, x, FALSE, TRUE, p.hp[x]["WOS"])

(* An address so far across a tile, and as far along k as the jumps and the *)
(* depth in the unroll; it goes to the same place of a tile with padding.  *)
LoadedAt(p, tile, z, x, n, s, e) ==
  /\ s.from = LoadOrigin(p, tile, x)
              + Stride(p.hp, p.gg, x, FALSE, FALSE, p.hp[x]["WOS"]) * e
              + Stride(p.hp, p.gg, x, TRUE, FALSE, p.hp[x]["WOS"])
                * (KStart(p.hp, p.gg, tile, z) + n * Jump(p.hp) + s.depth)
  /\ s.to = PaddedTile(p.hp, x) * s.depth + e

(* All that an item loads has such an address.                             *)
LEMMA LoadAddresses ==
  ASSUME NEW p, IsProblem(p), Derivable(p.hp, p.gg), NEW x \in Chiral,
         NEW item \in 0 .. WorkItems(p.hp) - 1, NEW tile, NEW z, NEW n \in Nat,
         KStart(p.hp, p.gg, tile, z) \in Int, n * Jump(p.hp) \in Int, LoadOrigin(p, tile, x) \in Int,
         NEW s \in Loads(p.hp, p.gg, p.off, tile, z, item, x, n)
  PROVE  \E e \in 0 .. MacroTile(p.hp, x) - 1 : LoadedAt(p, tile, z, x, n, s, e)
<1> DEFINE v == p.hp[x]["VEW"]
           along == Stride(p.hp, p.gg, x, TRUE, FALSE, p.hp[x]["WOS"])
           across == Stride(p.hp, p.gg, x, FALSE, FALSE, p.hp[x]["WOS"])
           pll == LoadOffset(p.hp, x, item).pll
           perpV == LoadOffset(p.hp, x, item).perpV
           unr == p.hp["C"]["UNR"]
           TH == MacroTile(p.hp, x)
           jump == Jump(p.hp)
           row == PaddedTile(p.hp, x) \div v
           start == KStart(p.hp, p.gg, tile, z)
           left0 == ReadStart(p.hp, p.gg, tile, x) * Stride(p.hp, p.gg, x, FALSE, TRUE, p.hp[x]["WOS"])
           buffer == IF Packed(p.hp, x) THEN p.off["W"] + CwGlobalOffset(p.hp, p.gg, x) ELSE p.off[x]
           where == buffer + left0
           load(i, j, lane) ==
             [to |-> v * (row * (pll + i) + perpV + j) + lane,
              from |-> buffer + left0 + (start + pll) * along
                       + v * (across * perpV + n * ((along * jump) \div v))
                       + v * ((i * along + v * j * across) \div v) + lane,
              depth |-> pll + i]
<1>1. Loads(p.hp, p.gg, p.off, tile, z, item, x, n) =
        {load(i, j, lane) : i \in LoadPll(p.hp, x), j \in LoadPerp(p.hp, x), lane \in 0 .. v - 1}
  BY DEF Loads
<1> HIDE DEF load
<1>2. PICK i \in LoadPll(p.hp, x), j \in LoadPerp(p.hp, x), lane \in 0 .. v - 1 : s = load(i, j, lane)
  BY <1>1
<1>3. /\ pll + i \in 0 .. unr - 1 /\ perpV + j \in 0 .. (TH \div v) - 1
      /\ pll \in Nat /\ perpV \in Nat /\ i \in Nat /\ j \in Nat
  BY LoadInTile
<1>4. v \in Nat /\ v > 0 /\ TH \in Nat
  BY ProblemParts, TilesOfMatrix
<1>5. /\ along \in Nat /\ across \in Nat /\ (v # 1 => across = 1)
      /\ v * ((i * along + v * j * across) \div v) = i * along + v * j * across
      /\ v * ((along * jump) \div v) = along * jump
  BY <1>3, ExactVectors
<1>6. jump \in Int
  BY ProblemParts, Products DEF Jump, GUnroll
<1>7. s.depth = pll + i
  BY <1>2 DEF load
<1> DEFINE X == (along * jump) \div v
           Y == (i * along + v * j * across) \div v
           e == v * (perpV + j) + lane
<1>8. s.from = where + (start + pll) * along + v * (across * perpV + n * X) + v * Y + lane
  BY <1>2 DEF load
<1>0. where = LoadOrigin(p, tile, x) /\ where \in Int /\ start \in Int
  BY DEF LoadOrigin
<1> HIDE DEF along, across, jump, v, pll, perpV, unr, TH, row, start, where
<1>9. X \in Int /\ v * X = along * jump /\ v * Y = i * along + v * j * across /\ v * Y \in Int
  <2>1. along * jump \in Int
    BY <1>5, <1>6, Products
  <2>2. i * along \in Int /\ v * j \in Int
    BY <1>3, <1>4, <1>5, Products
  <2>3. i * along + v * j * across \in Int
    <3> DEFINE vj == v * j
    <3>1. vj * across \in Int
      <4> HIDE DEF vj
      <4>1. vj \in Int /\ across \in Int
        BY <1>5, <2>2 DEF vj
      <4> QED BY <4>1, Products
    <3> QED BY <2>2, <3>1
  <2>4. X \in Int
    BY <1>4, <2>1, DivMod
  <2>5. v * Y = i * along + v * j * across
    BY <1>5
  <2> HIDE DEF X, Y
  <2> QED BY <1>5, <2>3, <2>4, <2>5 DEF X
<1>10. e \in 0 .. TH - 1
  <2>1. TH \div v \in Nat /\ v * (TH \div v) <= TH
    <3>1. TH \div v \in Nat /\ TH = v * (TH \div v) + (TH % v) /\ TH % v \in Nat
      BY <1>4, DivMod
    <3>2. v * (TH \div v) \in Int
      BY <1>4, <3>1, Products
    <3> DEFINE vt == v * (TH \div v)
               r == TH % v
    <3>3. vt \in Int /\ TH = vt + r /\ r \in Nat
      BY <3>1, <3>2
    <3> HIDE DEF vt, r, TH
    <3>4. vt <= TH
      BY <1>4, <3>3
    <3> QED BY <3>1, <3>4 DEF vt
  <2> DEFINE u == perpV + j
             b == TH \div v
  <2>2. u \in 0 .. b - 1 /\ b \in Nat
    BY <1>3, <2>1
  <2> HIDE DEF u, b
  <2>3. v * u + lane \in 0 .. v * b - 1
    BY <1>4, <2>2, Blocked
  <2>4. v * b \in Int /\ v * b <= TH
    BY <1>4, <2>1, <2>2, Products DEF b
  <2>5. v * u + lane \in 0 .. TH - 1
    <3> DEFINE vb == v * b
               w0 == v * u + lane
    <3>1. vb \in Int /\ vb <= TH /\ w0 \in 0 .. vb - 1
      BY <2>3, <2>4
    <3> HIDE DEF vb, w0, TH
    <3>2. w0 \in 0 .. TH - 1
      BY <1>4, <3>1
    <3> QED BY <3>2 DEF w0
  <2> QED BY <2>5 DEF u
<1> HIDE DEF X, Y
<1> DEFINE nj == n * jump
           d == pll + i
           ap == along * pll
           ak == along * start
           an == along * nj
           ai == along * i
           cp == across * (v * perpV)
           cj == across * (v * j)
<1>11. nj \in Int
  BY DEF jump
<1>12. /\ ak \in Int /\ ap \in Int /\ an \in Int /\ ai \in Int /\ cp \in Int /\ cj \in Int /\ lane \in Int
  <2>1. v * perpV \in Int /\ v * j \in Int
    BY <1>3, <1>4, Products
  <2>2. lane \in Int
    BY <1>4
  <2> HIDE DEF nj
  <2> QED BY <1>0, <1>3, <1>5, <1>11, <2>1, <2>2, Products
<1>13. (start + pll) * along = ak + ap
  <2>1. start + pll \in Int /\ start \in Int /\ pll \in Int /\ along \in Int
    BY <1>0, <1>3, <1>5
  <2>2. (start + pll) * along = along * (start + pll)
    BY <2>1, Products
  <2> QED BY <2>1, <2>2, Products
<1>14. v * (across * perpV + n * X) = cp + an
  <2>1. across * perpV \in Int /\ n * X \in Int
    BY <1>3, <1>5, <1>9, Products
  <2>2. v * (across * perpV + n * X) = v * (across * perpV) + v * (n * X)
    BY <1>4, <2>1, Products
  <2>3. v * (across * perpV) = cp
    <3>1. v * (across * perpV) = (v * across) * perpV /\ v * across = across * v
      BY <1>3, <1>4, <1>5, Products
    <3>2. (across * v) * perpV = across * (v * perpV)
      BY <1>3, <1>4, <1>5, Products
    <3> QED BY <3>1, <3>2
  <2>4. v * (n * X) = an
    <3>1. v * (n * X) = (v * n) * X /\ v * n = n * v
      BY <1>4, <1>9, Products
    <3>2. (n * v) * X = n * (v * X)
      BY <1>4, <1>9, Products
    <3>3. n * (along * jump) = (n * along) * jump /\ n * along = along * n
      BY <1>5, <1>6, Products
    <3>4. (along * n) * jump = along * (n * jump)
      BY <1>5, <1>6, Products
    <3> QED BY <1>9, <3>1, <3>2, <3>3, <3>4
  <2> QED BY <2>2, <2>3, <2>4
<1>15. v * Y = ai + cj
  <2>1. i * along = ai /\ v * j * across = across * (v * j)
    BY <1>3, <1>4, <1>5, Products
  <2> QED BY <1>9, <2>1
<1>16. across * e = cp + cj + lane
  <2>1. v * (perpV + j) = v * perpV + v * j /\ v * perpV \in Int /\ v * j \in Int
    BY <1>3, <1>4, Products
  <2> DEFINE vp == v * perpV
             vj == v * j
  <2>2. e = vp + vj + lane /\ vp \in Int /\ vj \in Int /\ lane \in Int /\ across \in Int
    BY <1>5, <1>12, <2>1
  <2>3. across * lane = lane
    <3>1. CASE v = 1
      <4>1. lane = 0
        BY <3>1
      <4> QED BY <1>5, <4>1, Products
    <3>2. CASE v # 1
      <4>1. across = 1
        BY <1>5, <3>2
      <4> QED BY <1>12, <4>1
    <3> QED BY <3>1, <3>2
  <2>4. across * (vp + vj + lane) = across * vp + across * vj + across * lane
    <3> HIDE DEF vp, vj
    <3>1. vp + vj \in Int
      BY <2>2
    <3>2. across * ((vp + vj) + lane) = across * (vp + vj) + across * lane
      BY <2>2, <3>1, Products
    <3>3. across * (vp + vj) = across * vp + across * vj
      BY <2>2, Products
    <3> QED BY <3>2, <3>3
  <2> HIDE DEF e
  <2> QED BY <2>2, <2>3, <2>4
<1>17. along * (start + nj + d) = ak + an + (ap + ai)
  <2> HIDE DEF nj
  <2>1. start + nj \in Int /\ start \in Int /\ d \in Int /\ along \in Int /\ pll \in Int /\ i \in Int
    BY <1>0, <1>3, <1>5, <1>11
  <2>2. along * ((start + nj) + d) = along * (start + nj) + along * d
    <3> HIDE DEF d
    <3> QED BY <2>1, Products
  <2>3. along * (start + nj) = ak + an
    BY <1>11, <2>1, Products
  <2>4. along * d = ap + ai
    BY <2>1, Products
  <2> QED BY <2>2, <2>3, <2>4
<1>18. s.from = where + across * e + along * (start + nj + d)
  <2>1. s.from = where + (ak + ap) + (cp + an) + (ai + cj) + lane
    BY <1>8, <1>13, <1>14, <1>15
  <2>2. across * e = cp + cj + lane /\ along * (start + nj + d) = ak + an + (ap + ai)
    BY <1>16, <1>17
  <2> DEFINE ce == across * e
             af == along * (start + nj + d)
  <2>3. ce = cp + cj + lane /\ af = ak + an + (ap + ai)
    BY <2>2
  <2> HIDE DEF ak, ap, an, ai, cp, cj, ce, af
  <2>4. s.from = where + ce + af
    <3>1. (ak + ap) + (cp + an) + (ai + cj) + lane = ce + af
      BY <1>12, <2>3
    <3> DEFINE l1 == ak + ap
               l2 == cp + an
               l3 == ai + cj
    <3>2. l1 \in Int /\ l2 \in Int /\ l3 \in Int /\ ce \in Int /\ af \in Int
      BY <1>12, <2>3
    <3>3. s.from = where + l1 + l2 + l3 + lane /\ l1 + l2 + l3 + lane = ce + af
      BY <2>1, <3>1
    <3> HIDE DEF l1, l2, l3
    <3> QED BY <1>0, <1>12, <3>2, <3>3
  <2> QED BY <2>4 DEF ce, af
<1>19. s.from = where + across * e + along * (start + n * Jump(p.hp) + s.depth)
  BY <1>7, <1>18 DEF jump
<1>20. e \in 0 .. TH - 1
  BY <1>10
<1>21. s.to = PaddedTile(p.hp, x) * d + e
  <2> DEFINE vj == perpV + j
  <2>1. v * row = PaddedTile(p.hp, x) /\ row \in Nat
    BY VectorsInTile DEF row, v
  <2>2. s.to = v * (row * d + perpV + j) + lane
    BY <1>2 DEF load, row, v, pll, perpV
  <2>3. row * d \in Int /\ vj \in Int /\ perpV \in Int /\ d \in Int /\ row * d + perpV + j = row * d + vj
    <3>1. d \in Int
      BY <1>3
    <3>2. row * d \in Int
      BY <2>1, <3>1, Products
    <3> HIDE DEF d
    <3> QED BY <1>3, <3>1, <3>2
  <2> HIDE DEF vj, d
  <2>4. v * (row * d + vj) = v * (row * d) + v * vj /\ v * (row * d) = (v * row) * d
    BY <1>4, <2>1, <2>3, Products
  <2> DEFINE l == v * (row * d)
             h == v * vj
  <2>5. s.to = l + h + lane /\ l \in Int /\ h \in Int /\ lane \in Int /\ l = PaddedTile(p.hp, x) * d
        /\ e = h + lane
    BY <1>4, <1>12, <2>1, <2>2, <2>3, <2>4, Products DEF vj
  <2> HIDE DEF l, h, e
  <2> QED BY <2>5
<1> HIDE DEF e
<1>22. LoadedAt(p, tile, z, x, n, s, e)
  BY <1>0, <1>7, <1>19, <1>21 DEF LoadedAt, start, along, across
<1> QED BY <1>20, <1>22 DEF TH

(* Every element of every line is some item's: the first to have a share   *)
(* are those of the full shares, and then come those of the rests.         *)
LEMMA LinesAreCovered ==
  ASSUME NEW gg, NEW x, Coal(gg, x) \in Nat, Uncoal(gg, x) \in Nat, NEW per \in Nat, per > 0,
         NEW a \in 0 .. Uncoal(gg, x) - 1, NEW b \in 0 .. Coal(gg, x) - 1
  PROVE  \E id \in 0 .. CeilDiv(Coal(gg, x), per) * Uncoal(gg, x) - 1 : <<a, b>> \in ByLine(gg, x, per, id)
<1> DEFINE line == Coal(gg, x)
           lines == Uncoal(gg, x)
           full == line \div per
           rest == line % per
           nFull == full * lines
           ceil == CeilDiv(line, per)
           n == ceil * lines
           start(id) == CASE nFull # 0 /\ id < nFull -> <<id \div full, per * (id % full)>>
                          [] nFull # 0 /\ nFull <= id /\ id < n -> <<(id - nFull) % lines, per * full>>
                          [] nFull # 0 /\ id >= n -> <<0, 0>>
                          [] nFull = 0 -> <<id % lines, 0>>
           work(id) == IF id < nFull THEN per ELSE IF id < n THEN rest ELSE 0
<1>1. \A id : ByLine(gg, x, per, id) = {<<start(id)[1], start(id)[2] + i>> : i \in 0 .. work(id) - 1}
  BY DEF ByLine
<1>2. /\ line \in Nat /\ lines \in Nat /\ full \in Nat /\ rest \in Nat /\ rest < per
      /\ line = per * full + rest /\ a \in 0 .. lines - 1 /\ b \in 0 .. line - 1 /\ lines > 0
  BY DivMod
<1>3. ceil = full + (IF rest # 0 THEN 1 ELSE 0)
  BY DEF CeilDiv
<1> HIDE DEF line, lines, full, rest, ceil
<1>4. nFull = full * lines /\ n = ceil * lines /\ nFull \in Nat /\ n \in Int
  BY <1>2, <1>3, Products
<1>5. (rest = 0 => n = nFull) /\ (rest # 0 => n = nFull + lines)
  <2>1. (full + 1) * lines = full * lines + lines
    <3>1. (full + 1) * lines = lines * (full + 1) /\ lines * (full + 1) = lines * full + lines
          /\ lines * full = full * lines
      BY <1>2, Products
    <3> QED BY <3>1
  <2> QED BY <1>2, <1>3, <1>4, <2>1
<1>6. full = 0 <=> nFull = 0
  <2>1. full > 0 => full * lines > 0
    BY <1>2, Products
  <2>2. full = 0 => full * lines = 0
    BY <1>2, Products
  <2> QED BY <1>2, <1>4, <2>1, <2>2
<1> HIDE DEF nFull, n
<1>7. ASSUME NEW id \in 0 .. n - 1, NEW i \in 0 .. work(id) - 1, start(id)[1] = a, start(id)[2] + i = b
      PROVE  \E id1 \in 0 .. n - 1 : <<a, b>> \in ByLine(gg, x, per, id1)
  <2> HIDE DEF start, work
  <2>1. <<a, b>> \in ByLine(gg, x, per, id)
    BY <1>1, <1>7
  <2> QED BY <2>1
<1>8. CASE b < per * full
  <2> DEFINE q == b \div per
             r == b % per
             id == full * a + q
  <2>1. q \in Nat /\ r \in Nat /\ r < per /\ b = per * q + r
    BY <1>2, DivMod
  <2> HIDE DEF q, r
  <2>2. q < full
    <3>1. per * q \in Int /\ per * full \in Int
      BY <1>2, <2>1, Products
    <3>2. per * q < per * full
      BY <1>8, <2>1, <3>1
    <3> QED BY <1>2, <2>1, <3>2, ProductsGrow
  <2>3. id \in 0 .. full * lines - 1
    <3>1. q \in 0 .. full - 1
      BY <1>2, <2>1, <2>2
    <3> QED BY <1>2, <3>1, Blocked
  <2>4. id \div full = a /\ id % full = q
    <3>1. a \in Int /\ full \in Nat /\ q \in Int /\ 0 <= q /\ q < full
      BY <1>2, <2>1, <2>2
    <3>2. (full * a + q) \div full = a /\ (full * a + q) % full = q
      BY <3>1, DivUnique, Zenon
    <3> QED BY <3>2
  <2> HIDE DEF id
  <2>5. id \in Nat /\ id < nFull /\ nFull # 0 /\ id \in 0 .. n - 1
    <3>1. id \in Nat /\ id < nFull
      BY <1>4, <2>3
    <3> QED BY <1>2, <1>4, <1>5, <3>1
  <2>6. start(id) = <<a, per * q>> /\ work(id) = per
    <3>1. ~(id >= n) /\ ~(nFull <= id) /\ ~(nFull = 0)
      BY <1>4, <2>5
    <3>2. start(id) = <<id \div full, per * (id % full)>>
      BY <2>5, <3>1, Zenon
    <3>3. work(id) = per
      BY <2>5
    <3> HIDE DEF start, work
    <3> QED BY <2>4, <3>2, <3>3
  <2> HIDE DEF start, work
  <2>7. r \in 0 .. work(id) - 1 /\ start(id)[1] = a /\ start(id)[2] + r = b
    BY <1>2, <2>1, <2>6
  <2> QED BY <1>7, <2>5, <2>7 DEF n, ceil, lines, line
<1>9. CASE ~(b < per * full)
  <2> DEFINE r == b - per * full
             id == nFull + a
  <2>1. r \in 0 .. rest - 1 /\ per * full \in Int
    <3>1. per * full \in Int
      BY <1>2, Products
    <3> QED BY <1>2, <1>9, <3>1
  <2>2. rest > 0 /\ n = nFull + lines
    BY <1>2, <1>5, <2>1
  <2>3. id \in 0 .. n - 1 /\ ~(id < nFull) /\ id < n /\ nFull <= id /\ id - nFull = a
    BY <1>2, <1>4, <2>2
  <2>4. a % lines = a
    <3>1. lines * 0 + a = a
      BY <1>2, Products
    <3>2. lines \in Nat /\ 0 \in Int /\ a \in Int /\ 0 <= a /\ a < lines
      BY <1>2
    <3>3. (lines * 0 + a) % lines = a
      BY <3>2, DivUnique, Zenon
    <3> QED BY <3>1, <3>3
  <2>5. work(id) = rest
    BY <2>3
  <2>6. start(id) = <<a, per * full>>
    <3>1. CASE nFull # 0
      <4>1. start(id) = <<(id - nFull) % lines, per * full>>
        <5>1. ~(id >= n)
          BY <1>4, <2>3
        <5> HIDE DEF id
        <5> QED BY <2>3, <3>1, <5>1, Zenon
      <4> HIDE DEF start, id
      <4> QED BY <2>3, <2>4, <4>1
    <3>2. CASE nFull = 0
      <4>1. start(id) = <<id % lines, 0>>
        BY <3>2, Zenon
      <4>2. id = a /\ per * full = 0
        BY <1>2, <1>6, <3>2, Products
      <4> HIDE DEF start, id
      <4> QED BY <2>4, <4>1, <4>2
    <3> QED BY <3>1, <3>2
  <2> HIDE DEF start, work, id
  <2>7. r \in 0 .. work(id) - 1 /\ start(id)[1] = a /\ start(id)[2] + r = b
    BY <1>2, <2>1, <2>5, <2>6
  <2> HIDE DEF r
  <2> QED BY <1>7, <2>3, <2>7 DEF n, ceil, lines, line
<1> QED BY <1>8, <1>9

(* The copy has all of the matrix.                                         *)
LEMMA CopiesCover ==
  ASSUME NEW p, IsProblem(p), Derivable(p.hp, p.gg), NEW x \in Chiral, p.hp[x]["WOS"] = COPY,
         NEW a \in 0 .. Uncoal(p.gg, x) - 1, NEW b \in 0 .. Coal(p.gg, x) - 1
  PROVE  \E r \in CopyWrites(p.hp, p.gg, p.off, x) :
           /\ r.to = CwGlobalOffset(p.hp, p.gg, x) + p.off["W"] + a * TargetLdx(p.gg, x) + b
           /\ r.from = p.off[x] + a * p.gg.ld[x] + b
<1> DEFINE write(id, cell) == [item |-> id,
                               to |-> CwGlobalOffset(p.hp, p.gg, x) + p.off["W"]
                                      + cell[1] * TargetLdx(p.gg, x) + cell[2],
                               from |-> p.off[x] + cell[1] * p.gg.ld[x] + cell[2]]
           n == CeilDiv(Coal(p.gg, x), Cw1WorkPerThread) * Uncoal(p.gg, x)
<1>1. CopyWrites(p.hp, p.gg, p.off, x) =
        UNION {{write(id, cell) : cell \in ByLine(p.gg, x, Cw1WorkPerThread, id)} :
                 id \in ByLineItems(p.gg, x, Cw1WorkPerThread, Cw1LocalWorkSize)}
  BY DEF CopyWrites
<1>2. Cw1WorkPerThread \in Nat /\ Cw1WorkPerThread > 0
  BY DEF Cw1WorkPerThread
<1>3. PICK id \in 0 .. n - 1 : <<a, b>> \in ByLine(p.gg, x, Cw1WorkPerThread, id)
  BY <1>2, LinesOfMatrix, LinesAreCovered
<1>4. id \in ByLineItems(p.gg, x, Cw1WorkPerThread, Cw1LocalWorkSize)
  <2>1. n \in Nat
    <3>1. CeilDiv(Coal(p.gg, x), Cw1WorkPerThread) \in Nat /\ Uncoal(p.gg, x) \in Nat
      BY <1>2, LinesOfMatrix, DivMod DEF CeilDiv
    <3> QED BY <3>1, Products
  <2> DEFINE q == n \div Cw1LocalWorkSize
             r == n % Cw1LocalWorkSize
  <2>2. q \in Nat /\ r \in Nat /\ r < Cw1LocalWorkSize /\ n = 256 * q + r
    BY <2>1, DivMod DEF Cw1LocalWorkSize
  <2>3. GroupsOf(n, Cw1LocalWorkSize) = q + (IF r # 0 THEN 1 ELSE 0)
    BY DEF GroupsOf, CeilDiv
  <2>4. ByLineItems(p.gg, x, Cw1WorkPerThread, Cw1LocalWorkSize) = 0 .. GroupsOf(n, Cw1LocalWorkSize) * 256 - 1
    BY DEF ByLineItems, Cw1LocalWorkSize
  <2> HIDE DEF q, r, n
  <2> QED BY <2>1, <2>2, <2>3, <2>4 DEF Cw1LocalWorkSize
<1>5. write(id, <<a, b>>) \in CopyWrites(p.hp, p.gg, p.off, x)
  <2> HIDE DEF write
  <2> QED BY <1>1, <1>3, <1>4
<1> QED BY <1>5

(* Every depth is in an unroll, and in the last there is no more.          *)
LEMMA UnrollOfDepth ==
  ASSUME NEW k \in Nat, NEW unr \in Nat, unr > 0, NEW d \in 0 .. k - 1
  PROVE  LET u == d \div unr
             r == d % unr
         IN /\ u \in 0 .. CeilDiv(k, unr) - 1 /\ r \in 0 .. unr - 1 /\ d = unr * u + r
            /\ r < IF u = CeilDiv(k, unr) - 1 THEN (IF k % unr = 0 THEN unr ELSE k % unr) ELSE unr
<1> DEFINE u == d \div unr
           r == d % unr
           q == k \div unr
           s == k % unr
           n == CeilDiv(k, unr)
           uu == unr * u
           uq == unr * q
<1>1. u \in Nat /\ r \in Nat /\ r < unr /\ d = uu + r
  BY DivMod
<1>2. q \in Nat /\ s \in Nat /\ s < unr /\ k = uq + s
  BY DivMod
<1>3. n = q + (IF s # 0 THEN 1 ELSE 0)
  BY DEF CeilDiv
<1> HIDE DEF u, r, q, s, n
<1>4. uu \in Nat /\ uq \in Nat
  BY <1>1, <1>2, Products
<1>5. u > q => uu >= uq + unr
  <2> HAVE u > q
  <2>1. unr * (q + 1) <= unr * u
    BY <1>1, <1>2, ProductsGrow
  <2>2. unr * (q + 1) = unr * q + unr
    BY <1>2, Products
  <2> QED BY <2>1, <2>2
<1>6. u = q => uu = uq
  OBVIOUS
<1> HIDE DEF uu, uq
<1>7. u <= q
  BY <1>1, <1>2, <1>4, <1>5
<1>8. u = q => r < s
  BY <1>1, <1>2, <1>4, <1>6
<1>9. /\ u \in 0 .. n - 1 /\ r \in 0 .. unr - 1
      /\ r < IF u = n - 1 THEN (IF s = 0 THEN unr ELSE s) ELSE unr
  BY <1>1, <1>2, <1>3, <1>7, <1>8
<1> QED BY <1>1, <1>9 DEF u, r, s, n, uu

(* The normal form has all of the matrix.                                  *)
LEMMA NormalFormsCover ==
  ASSUME NEW p, IsProblem(p), Derivable(p.hp, p.gg), NEW x \in Chiral, p.hp[x]["WOS"] = NFORM,
         NEW P \in 0 .. NGroups(p.hp, p.gg, x) - 1, NEW d \in 0 .. p.gg.k - 1,
         NEW e \in 0 .. MacroTile(p.hp, x) - 1
  PROVE  \E r \in NFormWrites(p.hp, p.gg, p.off, x) :
           /\ r.to = CwGlobalOffset(p.hp, p.gg, x) + p.off["W"] + (MacroTile(p.hp, x) * (p.gg.k * P + d) + e)
           /\ r.from = AddressOf(p, x, MacroTile(p.hp, x) * P - PulledTo(p, x, P) + e, d)
<1> DEFINE t == Cw2MicroTile(p.hp, x)
           TH == MacroTile(p.hp, x)
           k == p.gg.k
           unr == p.hp["C"]["UNR"]
           t1 == t[1]
           t2 == t[2]
           nPerp == TH \div t1
           nPll == unr \div t2
           base == CwGlobalOffset(p.hp, p.gg, x) + p.off["W"]
           U == UnrollTiles(p.hp, p.gg)
           N == NGroups(p.hp, p.gg, x)
           Mac(id) == [pll |-> id % U, perp |-> id \div U]
           Mic(item) == [pll |-> item \div nPerp, perp |-> item % nPerp]
           depth(id) == IF Mac(id).pll = U - 1 THEN FinalUnrollDepth(p.hp, p.gg) ELSE unr
           along(type, i, j) == i * Stride(p.hp, p.gg, x, TRUE, FALSE, type)
                                + j * Stride(p.hp, p.gg, x, FALSE, FALSE, type)
           pulled(id) == IF Mac(id).perp = N - 1
                         THEN Stride(p.hp, p.gg, x, FALSE, TRUE, UNUSED)
                              * (TH - PreshiftFinalTile(p.hp, p.gg, x))
                         ELSE 0
           to(id, item, cell) ==
             base + TileStart(p.hp, p.gg, x, NFORM, Mac(id), Mic(item)) + along(NFORM, cell[1], cell[2])
           write(id, item, cell) ==
             [item |-> <<id, item>>, to |-> to(id, item, cell),
              from |-> p.off[x] + TileStart(p.hp, p.gg, x, UNUSED, Mac(id), Mic(item)) - pulled(id)
                       + along(UNUSED, cell[1], cell[2])]
           cells(id, item) == {c1 \in (0 .. t2 - 1) \X (0 .. t1 - 1) : Mic(item).pll * t2 + c1[1] < depth(id)}
           ids == (0 .. U * N - 1) \X (0 .. Cw2LocalWorkSize - 1)
<1>1. NFormWrites(p.hp, p.gg, p.off, x) =
        UNION {{write(id[1], id[2], cell) : cell \in cells(id[1], id[2])} : id \in ids}
  BY DEF NFormWrites, NFormItemWrites
<1>2. /\ TH \in Nat /\ TH > 0 /\ k \in Nat /\ unr \in Nat /\ unr > 0 /\ N \in Nat
      /\ t1 \in Nat /\ t1 > 0 /\ TH % t1 = 0 /\ t2 \in Nat /\ t2 > 0 /\ unr % t2 = 0 /\ base \in Nat
      /\ Cw2LocalWorkSize = nPerp * nPll
  BY DerivableParts, Tiled, ProblemParts, PackTile, GroupsAreCounted, Room
<1>3. U = CeilDiv(k, unr) /\ U \in Nat
      /\ FinalUnrollDepth(p.hp, p.gg) = IF k % unr = 0 THEN unr ELSE k % unr
  <2>1. U = CeilDiv(k, unr) /\ FinalUnrollDepth(p.hp, p.gg) = IF k % unr = 0 THEN unr ELSE k % unr
    BY DEF UnrollTiles, FinalUnrollDepth
  <2> HIDE DEF k, unr, U
  <2>2. k \in Nat /\ unr \in Nat /\ unr > 0
    BY <1>2
  <2>3. CeilDiv(k, unr) \in Nat
    BY ONLY <2>2, CeilDivIsNatural
  <2> QED BY <2>1, <2>3
<1>4. /\ nPerp \in Nat /\ nPerp > 0 /\ TH = t1 * nPerp
      /\ nPll \in Nat /\ nPll > 0 /\ unr = t2 * nPll
  BY <1>2, NoRest
<1> DEFINE M == d \div unr
           l == d % unr
           mp == l \div t2
           i == l % t2
           me == e \div t1
           j == e % t1
           group1 == U * P + M
           item == nPerp * mp + me
<1>5. /\ M \in 0 .. U - 1 /\ l \in 0 .. unr - 1 /\ d = unr * M + l
      /\ l < IF M = U - 1 THEN FinalUnrollDepth(p.hp, p.gg) ELSE unr
  <2> HIDE DEF k, unr, U
  <2>1. d \in 0 .. k - 1
    BY DEF k
  <2>2. k \in Nat /\ unr \in Nat /\ unr > 0
    BY <1>2
  <2>3. /\ M \in 0 .. CeilDiv(k, unr) - 1 /\ l \in 0 .. unr - 1 /\ d = unr * M + l
        /\ l < IF M = CeilDiv(k, unr) - 1 THEN (IF k % unr = 0 THEN unr ELSE k % unr) ELSE unr
    BY ONLY <2>1, <2>2, UnrollOfDepth
  <2> HIDE DEF M, l
  <2> QED BY <1>3, <2>3
<1> HIDE DEF M, l
<1>6. /\ mp \in 0 .. nPll - 1 /\ i \in 0 .. t2 - 1 /\ l = t2 * mp + i
  <2> HIDE DEF t2, unr, nPll
  <2>1. l \in 0 .. t2 * nPll - 1 /\ l \in Nat
    BY <1>2, <1>4, <1>5
  <2>2. l % t2 \in 0 .. t2 - 1 /\ l \div t2 \in 0 .. nPll - 1
    BY <1>2, <1>4, <2>1, TwoDigits
  <2>3. l = t2 * (l \div t2) + (l % t2)
    BY <1>2, <2>1, DivMod
  <2> QED BY <2>2, <2>3
<1>7. /\ me \in 0 .. nPerp - 1 /\ j \in 0 .. t1 - 1 /\ e = t1 * me + j
  <2> HIDE DEF t1, nPerp
  <2>1. e \in 0 .. t1 * nPerp - 1 /\ e \in Nat
    BY <1>2, <1>4
  <2>2. e % t1 \in 0 .. t1 - 1 /\ e \div t1 \in 0 .. nPerp - 1
    BY <1>2, <1>4, <2>1, TwoDigits
  <2>3. e = t1 * (e \div t1) + (e % t1)
    BY <1>2, <2>1, DivMod
  <2> QED BY <2>2, <2>3
<1> HIDE DEF mp, i, me, j
<1>8. group1 \in 0 .. U * N - 1 /\ item \in 0 .. Cw2LocalWorkSize - 1
  <2> HIDE DEF U, N, nPerp, nPll
  <2>1. P \in 0 .. N - 1
    BY DEF N
  <2>2. group1 \in 0 .. U * N - 1
    BY <1>2, <1>3, <1>5, <2>1, Blocked
  <2>3. item \in 0 .. nPerp * nPll - 1
    BY <1>4, <1>6, <1>7, Blocked
  <2> QED BY <1>2, <2>2, <2>3
<1>9. Mac(group1) = [pll |-> M, perp |-> P] /\ Mic(item) = [pll |-> mp, perp |-> me]
  <2> HIDE DEF U, nPerp
  <2>1. P \in Int /\ M \in Int /\ 0 <= M /\ M < U
    BY <1>3, <1>5
  <2>2. (U * P + M) \div U = P /\ (U * P + M) % U = M
    BY <1>3, <2>1, DivUnique
  <2>3. mp \in Int /\ me \in Int /\ 0 <= me /\ me < nPerp
    BY <1>4, <1>6, <1>7
  <2>4. (nPerp * mp + me) \div nPerp = mp /\ (nPerp * mp + me) % nPerp = me
    BY <1>4, <2>3, DivUnique
  <2> QED BY <2>2, <2>4
<1> DEFINE cell == <<i, j>>
<1>10. cell \in cells(group1, item)
  <2>1. Mac(group1).pll = M /\ Mic(item).pll = mp
    BY <1>9
  <2>2. mp * t2 + i = l
    <3> HIDE DEF t2
    <3>1. mp * t2 = t2 * mp
      BY <1>2, <1>6, Products
    <3> QED BY <1>6, <3>1
  <2> HIDE DEF Mac, Mic
  <2>3. Mic(item).pll * t2 + cell[1] < depth(group1)
    <3>1. depth(group1) = IF M = U - 1 THEN FinalUnrollDepth(p.hp, p.gg) ELSE unr
      BY <2>1
    <3> HIDE DEF depth, t2, group1, item
    <3> QED BY <1>5, <2>1, <2>2, <3>1
  <2> HIDE DEF depth
  <2> QED BY <1>6, <1>7, <2>3
<1>11. to(group1, item, cell) = base + (TH * (k * P + d) + e)
  <2> DEFINE start == TileStart(p.hp, p.gg, x, NFORM, [pll |-> M, perp |-> P], [pll |-> mp, perp |-> me])
             a == i * Stride(p.hp, p.gg, x, TRUE, FALSE, NFORM) + j * Stride(p.hp, p.gg, x, FALSE, FALSE, NFORM)
  <2>1. M \in Nat /\ P \in Nat /\ mp \in Nat /\ me \in Nat /\ i \in Nat /\ j \in Nat
    BY <1>5, <1>6, <1>7
  <2>2. GoesTo(p, x, M, P, mp, me, i, j)
    BY <2>1, PlaceInNormalForm
  <2>3. start \in Int /\ a \in Int /\ start + a = TH * (k * P + (unr * M + (t2 * mp + i))) + (t1 * me + j)
    BY <2>2 DEF GoesTo
  <2>4. start + a = TH * (k * P + d) + e
    BY <1>5, <1>6, <1>7, <2>3
  <2>5. to(group1, item, cell) = base + start + a
    BY <1>9
  <2> HIDE DEF start, a, to
  <2>6. base + start + a = base + (start + a)
    BY <1>2, <2>3
  <2> QED BY <2>4, <2>5, <2>6
<1>12. write(group1, item, cell).to = base + (TH * (k * P + d) + e)
  BY <1>11
<1>13. write(group1, item, cell) \in NFormWrites(p.hp, p.gg, p.off, x)
  <2> DEFINE id == <<group1, item>>
  <2>1. id \in ids /\ id[1] = group1 /\ id[2] = item
    BY <1>8
  <2> HIDE DEF write, cells, ids, cell, id, group1, item
  <2>2. write(group1, item, cell) \in {write(id[1], id[2], c1) : c1 \in cells(id[1], id[2])}
    BY <1>10, <2>1
  <2> QED BY <1>1, <2>1, <2>2
<1>14. write(group1, item, cell).from = AddressOf(p, x, TH * P - PulledTo(p, x, P) + e, d)
  <2>1. M \in Nat /\ P \in Nat /\ mp \in Nat /\ me \in Nat /\ i \in Nat /\ j \in Nat
    BY <1>5, <1>6, <1>7
  <2>2. TakesElement(p, x, M, P, mp, me, i, j)
    BY <2>1, ElementTaken
  <2>3. TakenFrom(p, x, M, P, mp, me, i, j)
          = AddressOf(p, x, TH * P - PulledTo(p, x, P) + (t1 * me + j), unr * M + (t2 * mp + i))
    BY <2>2 DEF TakesElement
  <2>4. write(group1, item, cell).from = TakenFrom(p, x, M, P, mp, me, i, j)
    <3> DEFINE mac == Mac(group1)
               mic == Mic(item)
    <3>1. write(group1, item, cell).from =
            p.off[x] + TileStart(p.hp, p.gg, x, UNUSED, mac, mic)
            - (IF mac.perp = N - 1 THEN Stride(p.hp, p.gg, x, FALSE, TRUE, UNUSED)
                                        * (TH - PreshiftFinalTile(p.hp, p.gg, x)) ELSE 0)
            + along(UNUSED, i, j)
      OBVIOUS
    <3>2. mac = [pll |-> M, perp |-> P] /\ mic = [pll |-> mp, perp |-> me] /\ mac.perp = P
      BY <1>9
    <3> HIDE DEF mac, mic, write
    <3> QED BY <3>1, <3>2 DEF TakenFrom
  <2> HIDE DEF write
  <2> QED BY <1>5, <1>6, <1>7, <2>3, <2>4
<1> HIDE DEF write
<1> QED BY <1>12, <1>13, <1>14

(* How deep in the unroll an item loads.                                   *)
LEMMA DepthOfLoad ==
  ASSUME NEW p, IsProblem(p), Derivable(p.hp, p.gg), NEW x \in Chiral,
         NEW item \in 0 .. WorkItems(p.hp) - 1, NEW tile, NEW z, NEW n,
         NEW s \in Loads(p.hp, p.gg, p.off, tile, z, item, x, n)
  PROVE  s.depth \in 0 .. p.hp["C"]["UNR"] - 1
<1> DEFINE v == p.hp[x]["VEW"]
           pll == LoadOffset(p.hp, x, item).pll
           perpV == LoadOffset(p.hp, x, item).perpV
           along == Stride(p.hp, p.gg, x, TRUE, FALSE, p.hp[x]["WOS"])
           across == Stride(p.hp, p.gg, x, FALSE, FALSE, p.hp[x]["WOS"])
           load(i, j, lane) ==
             [to |-> v * ((PaddedTile(p.hp, x) \div v) * (pll + i) + perpV + j) + lane,
              from |-> (IF Packed(p.hp, x) THEN p.off["W"] + CwGlobalOffset(p.hp, p.gg, x) ELSE p.off[x])
                       + ReadStart(p.hp, p.gg, tile, x) * Stride(p.hp, p.gg, x, FALSE, TRUE, p.hp[x]["WOS"])
                       + (KStart(p.hp, p.gg, tile, z) + pll) * along
                       + v * (across * perpV + n * ((along * Jump(p.hp)) \div v))
                       + v * ((i * along + v * j * across) \div v) + lane,
              depth |-> pll + i]
<1>1. Loads(p.hp, p.gg, p.off, tile, z, item, x, n) =
        {load(i, j, lane) : i \in LoadPll(p.hp, x), j \in LoadPerp(p.hp, x), lane \in 0 .. v - 1}
  BY DEF Loads
<1> HIDE DEF load
<1>2. PICK i \in LoadPll(p.hp, x), j \in LoadPerp(p.hp, x), lane \in 0 .. v - 1 : s = load(i, j, lane)
  BY <1>1
<1>3. s.depth = pll + i
  BY <1>2 DEF load
<1>4. pll + i \in 0 .. p.hp["C"]["UNR"] - 1
  BY LoadInTile
<1> QED BY <1>3, <1>4

(* How far a tile is pulled in.                                            *)
LEMMA PulledTile ==
  ASSUME NEW p, IsProblem(p), Derivable(p.hp, p.gg), NEW x \in Chiral, NEW tile
  PROVE  Pulled(p.hp, p.gg, tile, x) =
           IF tile[x] = NGroups(p.hp, p.gg, x) - 1
           THEN MacroTile(p.hp, x) - PreshiftFinalTile(p.hp, p.gg, x) ELSE 0
<1>1. /\ MacroTile(p.hp, x) \in Nat
      /\ NonKDim(p.gg, x) % MacroTile(p.hp, x) = 0 => PreshiftFinalTile(p.hp, p.gg, x) = MacroTile(p.hp, x)
  BY TilesOfMatrix
<1>2. ~UseEdgeTrick(p.hp, p.gg) => NonKDim(p.gg, x) % MacroTile(p.hp, x) = 0
  BY DEF UseEdgeTrick
<1> QED BY <1>1, <1>2 DEF Pulled, IsLast

(* What is loaded is the element that is so far across the tile and so far *)
(* along k, from the matrix or from where it has been packed.              *)
LoadsElement(p, tile, z, x, n, s, e) ==
  LET from == AddressOf(p, x, TileAt(p, tile, x) + e, Position(p, tile, z, n, s.depth)) IN
  /\ s.to = PaddedTile(p.hp, x) * s.depth + e
  /\ TileAt(p, tile, x) + e \in 0 .. NonKDim(p.gg, x) - 1
  /\ from \in ElementsOf(p, x)
  /\ IF Packed(p.hp, x) THEN \E r \in PackWrites(p.hp, p.gg, p.off, x) : r.to = s.from /\ r.from = from
     ELSE s.from = from

(* An item loads elements of its matrix, or what was packed of them, in    *)
(* all that its group adds.                                                *)
LEMMA LoadsFrom ==
  ASSUME NEW p, IsProblem(p), Derivable(p.hp, p.gg), NEW x \in Chiral,
         NEW item \in 0 .. WorkItems(p.hp) - 1, NEW z \in 0 .. p.hp["C"]["ICE"] - 1, NEW n \in Nat,
         NEW tile, \A y \in Chiral : tile[y] \in 0 .. NGroups(p.hp, p.gg, y) - 1,
         NEW s \in Loads(p.hp, p.gg, p.off, tile, z, item, x, n), Summing(p, tile, z, n, s.depth)
  PROVE  \E e \in 0 .. MacroTile(p.hp, x) - 1 : LoadsElement(p, tile, z, x, n, s, e)
<1> DEFINE N == NGroups(p.hp, p.gg, x)
           TH == MacroTile(p.hp, x)
           last == PreshiftFinalTile(p.hp, p.gg, x)
           wos == p.hp[x]["WOS"]
           P == tile[x]
           d == KStart(p.hp, p.gg, tile, z) + n * Jump(p.hp) + s.depth
           base == p.off["W"] + CwGlobalOffset(p.hp, p.gg, x)
           pull == IF P = N - 1 THEN TH - last ELSE 0
           along == Stride(p.hp, p.gg, x, TRUE, FALSE, wos)
           across == Stride(p.hp, p.gg, x, FALSE, FALSE, wos)
           macro == Stride(p.hp, p.gg, x, FALSE, TRUE, wos)
           buffer == IF Packed(p.hp, x) THEN base ELSE p.off[x]
           T == TargetLdx(p.gg, x)
           k == p.gg.k
           pllK == CoalIsPllK(p.gg, x)
<1>1. s.depth \in 0 .. p.hp["C"]["UNR"] - 1
  BY DepthOfLoad
<1>2. tile["A"] \in Int /\ tile["B"] \in Int
  BY DEF Chiral
<1>3. /\ KStart(p.hp, p.gg, tile, z) \in Int /\ n * Jump(p.hp) \in Int
      /\ d \in 0 .. p.gg.k - 1
  BY <1>1, <1>2, WithinSummation
<1>4. /\ N \in Nat /\ N > 0 /\ TH \in Nat /\ TH > 0 /\ last \in 1 .. TH /\ P \in 0 .. N - 1
      /\ NonKDim(p.gg, x) = TH * (N - 1) + last /\ NonKDim(p.gg, x) >= TH
  BY TilesOfMatrix
<1>5. base \in Nat /\ p.off[x] \in Nat /\ T \in Nat /\ k \in Nat /\ p.gg.ld[x] \in Nat
  BY Room, ProblemParts, TargetHolds DEF Chiral, Mats
<1>6. wos \in {UNUSED, COPY, NFORM} /\ UNUSED # COPY /\ COPY # NFORM /\ UNUSED # NFORM
      /\ (Packed(p.hp, x) <=> wos # UNUSED)
  BY DEF IsProblem, Packed, UNUSED, COPY, NFORM
<1>7. pllK \in BOOLEAN
  BY DEF CoalIsPllK
<1>8. /\ wos = UNUSED => /\ along = (IF pllK THEN 1 ELSE p.gg.ld[x])
                         /\ across = (IF pllK THEN p.gg.ld[x] ELSE 1) /\ macro = across
      /\ wos = COPY => /\ along = (IF pllK THEN 1 ELSE T)
                       /\ across = (IF pllK THEN T ELSE 1) /\ macro = across
      /\ wos = NFORM => along = TH /\ across = 1 /\ macro = k
  BY <1>6, <1>7 DEF Stride
<1>9. Pulled(p.hp, p.gg, tile, x) = pull /\ pull \in Nat
  BY <1>4, PulledTile
<1> DEFINE readStart == IF wos = NFORM THEN TH * P ELSE TH * P - pull
<1>10. ReadStart(p.hp, p.gg, tile, x) = readStart /\ readStart \in Int
  <2>1. P * TH = TH * P /\ TH * P \in Int
    BY <1>4, Products
  <2> HIDE DEF pull, P, TH
  <2> QED BY <1>9, <2>1 DEF ReadStart, P, TH
<1>11. LoadOrigin(p, tile, x) = buffer + readStart * macro /\ LoadOrigin(p, tile, x) \in Int
       /\ readStart * macro \in Int /\ buffer \in Int
  <2>1. macro \in Int /\ buffer \in Int
    <3>1. p.gg.ld[x] \in Int /\ T \in Int /\ k \in Int /\ base \in Int /\ p.off[x] \in Int
      BY <1>5
    <3> HIDE DEF wos, along, across, macro, T, k, pllK, base
    <3>2. macro \in Int
      BY <1>6, <1>7, <1>8, <3>1
    <3> QED BY <3>1, <3>2
  <2>2. LoadOrigin(p, tile, x) = buffer + ReadStart(p.hp, p.gg, tile, x) * macro
    BY DEF LoadOrigin
  <2> HIDE DEF buffer, readStart, macro
  <2>3. readStart * macro \in Int
    BY <1>10, <2>1, Products
  <2> QED BY <1>10, <2>1, <2>2, <2>3
<1>12. PICK e \in 0 .. TH - 1 : /\ s.from = LoadOrigin(p, tile, x) + across * e + along * d
                                /\ s.to = PaddedTile(p.hp, x) * s.depth + e
  <2>1. LoadOrigin(p, tile, x) \in Int /\ KStart(p.hp, p.gg, tile, z) \in Int /\ n * Jump(p.hp) \in Int
    BY <1>3, <1>11
  <2>2. PICK e \in 0 .. MacroTile(p.hp, x) - 1 : LoadedAt(p, tile, z, x, n, s, e)
    <3> HIDE DEF N, TH, last, wos, P, d, base, pull, along, across, macro, buffer, T, k, pllK, readStart
    <3> QED BY <2>1, LoadAddresses
  <2> QED BY <2>2 DEF LoadedAt
<1> DEFINE over == TH * P - pull + e
<1>13. over \in 0 .. NonKDim(p.gg, x) - 1
  <2> HIDE DEF N, TH, last, P
  <2>1. TH * P - pull + e \in 0 .. TH * (N - 1) + last - 1
    BY ONLY <1>4, PulledIn, e \in 0 .. TH - 1 DEF pull
  <2> QED BY <1>4, <2>1
<1> DEFINE from == AddressOf(p, x, TileAt(p, tile, x) + e, Position(p, tile, z, n, s.depth))
<1>18. TileAt(p, tile, x) + e = over
  <2>1. P * TH = TH * P /\ TH * P \in Int
    BY <1>4, Products
  <2> HIDE DEF pull, P, TH
  <2> QED BY <1>9, <2>1 DEF TileAt, P, TH
<1>19. from = AddressOf(p, x, over, d) /\ from \in ElementsOf(p, x)
  <2>1. Position(p, tile, z, n, s.depth) = d
    BY DEF Position
  <2>2. d \in 0 .. p.gg.k - 1 /\ over \in 0 .. NonKDim(p.gg, x) - 1
    BY <1>3, <1>13
  <2> HIDE DEF over, d
  <2>3. AddressOf(p, x, over, d) \in ElementsOf(p, x)
    BY <2>2, ElementAt DEF AddressOf
  <2> QED BY <1>18, <2>1, <2>3
<1>20. from = p.off[x] + (IF pllK THEN p.gg.ld[x] ELSE 1) * over + (IF pllK THEN 1 ELSE p.gg.ld[x]) * d
  <2>1. /\ Stride(p.hp, p.gg, x, FALSE, FALSE, UNUSED) = IF pllK THEN p.gg.ld[x] ELSE 1
        /\ Stride(p.hp, p.gg, x, TRUE, FALSE, UNUSED) = IF pllK THEN 1 ELSE p.gg.ld[x]
    BY <1>7 DEF Stride, UNUSED, COPY, NFORM
  <2> HIDE DEF over, d, from, pllK
  <2> QED BY <1>19, <2>1 DEF AddressOf
<1> HIDE DEF N, TH, last, P, d, base, pull, along, across, macro, T, k, pllK, wos, from
<1>21. ASSUME IF wos = UNUSED THEN s.from = from
              ELSE \E r \in PackWrites(p.hp, p.gg, p.off, x) : r.to = s.from /\ r.from = from
       PROVE  \E e0 \in 0 .. MacroTile(p.hp, x) - 1 : LoadsElement(p, tile, z, x, n, s, e0)
  <2>1. e \in 0 .. MacroTile(p.hp, x) - 1
    BY DEF TH
  <2>2. TileAt(p, tile, x) + e \in 0 .. NonKDim(p.gg, x) - 1
    BY <1>13, <1>18
  <2>3. IF Packed(p.hp, x) THEN \E r \in PackWrites(p.hp, p.gg, p.off, x) : r.to = s.from /\ r.from = from
        ELSE s.from = from
    BY <1>6, <1>21
  <2>4. LoadsElement(p, tile, z, x, n, s, e)
    BY <1>12, <1>19, <2>2, <2>3 DEF LoadsElement, from
  <2> QED BY <2>1, <2>4
<1>14. ASSUME wos # NFORM PROVE s.from = buffer + across * over + along * d
  <2>1. macro = across /\ across \in Int /\ along \in Int
    BY <1>5, <1>6, <1>8, <1>14
  <2>2. readStart = TH * P - pull
    BY <1>14
  <2>3. d \in Int /\ e \in Int
    BY <1>3, <1>4
  <2> DEFINE rs == TH * P - pull
  <2>4. rs \in Int /\ over = rs + e
    BY <1>10, <2>2
  <2> HIDE DEF rs, buffer, over
  <2>5. rs * macro = across * rs /\ across * (rs + e) = across * rs + across * e
    BY <2>1, <2>3, <2>4, Products
  <2>6. across * rs \in Int /\ across * e \in Int /\ along * d \in Int
    BY <2>1, <2>3, <2>4, Products
  <2>7. s.from = buffer + across * rs + across * e + along * d
    BY <1>11, <1>12, <2>2, <2>5 DEF rs
  <2> QED BY <1>11, <2>4, <2>5, <2>6, <2>7
<1>15. CASE wos = UNUSED
  <2>1. s.from = p.off[x] + across * over + along * d
    BY <1>6, <1>14, <1>15
  <2> HIDE DEF over
  <2>2. s.from = from
    BY <1>7, <1>8, <1>15, <1>20, <2>1
  <2> QED BY <1>15, <1>21, <2>2
<1>16. CASE wos = COPY
  <2>1. s.from = base + across * over + along * d
    BY <1>6, <1>14, <1>16
  <2>2. d \in Nat /\ over \in Nat
    BY <1>3, <1>13
  <2> DEFINE a == IF pllK THEN over ELSE d
             b == IF pllK THEN d ELSE over
  <2>3. a \in 0 .. Uncoal(p.gg, x) - 1 /\ b \in 0 .. Coal(p.gg, x) - 1
    <3> HIDE DEF over
    <3> QED BY <1>3, <1>7, <1>13, LinesOfMatrix DEF pllK
  <2> HIDE DEF over
  <2>4. s.from = base + a * T + b
    <3>1. CASE pllK
      <4>1. across = T /\ along = 1
        BY <1>8, <1>16, <3>1
      <4>2. T * over = over * T /\ T * over \in Int /\ 1 * d = d
        BY <1>5, <2>2, Products
      <4> QED BY <2>1, <2>2, <3>1, <4>1, <4>2
    <3>2. CASE ~pllK
      <4>1. across = 1 /\ along = T
        BY <1>8, <1>16, <3>2
      <4>2. T * d = d * T /\ T * d \in Int /\ 1 * over = over
        BY <1>5, <2>2, Products
      <4>3. s.from = base + over + d * T
        BY <2>1, <4>1, <4>2
      <4> QED BY <1>5, <2>2, <3>2, <4>2, <4>3
    <3> QED BY <1>7, <3>1, <3>2
  <2>8. from = p.off[x] + a * p.gg.ld[x] + b
    <3> DEFINE ld == p.gg.ld[x]
    <3>1. /\ ld * over = over * ld /\ ld * over \in Int /\ ld * d = d * ld /\ ld * d \in Int
          /\ 1 * over = over /\ 1 * d = d
      BY <1>5, <2>2, Products
    <3>2. from = p.off[x] + (IF pllK THEN ld ELSE 1) * over + (IF pllK THEN 1 ELSE ld) * d
      BY <1>20
    <3> HIDE DEF ld
    <3>3. CASE pllK
      BY <1>5, <2>2, <3>1, <3>2, <3>3 DEF ld
    <3>4. CASE ~pllK
      <4>1. from = p.off[x] + over + d * ld
        BY <3>1, <3>2, <3>4
      <4>2. a * p.gg.ld[x] = d * ld /\ b = over
        BY <3>4 DEF ld
      <4> HIDE DEF a, b
      <4> QED BY <1>5, <2>2, <3>1, <4>1, <4>2
    <3> QED BY <1>7, <3>3, <3>4
  <2> HIDE DEF a, b
  <2>5. \E r \in CopyWrites(p.hp, p.gg, p.off, x) :
          /\ r.to = CwGlobalOffset(p.hp, p.gg, x) + p.off["W"] + a * TargetLdx(p.gg, x) + b
          /\ r.from = p.off[x] + a * p.gg.ld[x] + b
    BY <1>16, <2>3, CopiesCover DEF wos
  <2>6. CwGlobalOffset(p.hp, p.gg, x) + p.off["W"] = base
    BY Room, ProblemParts DEF base
  <2>7. PackWrites(p.hp, p.gg, p.off, x) = CopyWrites(p.hp, p.gg, p.off, x)
    BY <1>16 DEF PackWrites, COPY, NFORM, wos
  <2>9. \E r \in PackWrites(p.hp, p.gg, p.off, x) : r.to = s.from /\ r.from = from
    BY <2>4, <2>5, <2>6, <2>7, <2>8 DEF T
  <2> QED BY <1>6, <1>16, <1>21, <2>9
<1>17. CASE wos = NFORM
  <2>1. macro = k /\ across = 1 /\ along = TH /\ readStart = TH * P
    BY <1>8, <1>17
  <2>2. d \in 0 .. k - 1 /\ e \in 0 .. TH - 1
    BY <1>3 DEF k
  <2>3. s.from = base + (TH * (k * P + d) + e)
    <3> HIDE DEF readStart
    <3>1. s.from = base + TH * P * k + 1 * e + TH * d
      BY <1>6, <1>11, <1>12, <1>17, <2>1
    <3>2. P \in Int /\ d \in Int /\ e \in Int
      BY <1>4, <2>2
    <3>3. TH * P * k = TH * (k * P) /\ k * P \in Int
      <4>1. (TH * P) * k = TH * (P * k) /\ P * k = k * P /\ P * k \in Int
        BY <1>4, <1>5, <3>2, Products
      <4> QED BY <4>1
    <3> DEFINE kP == k * P
    <3>4. kP \in Int /\ TH * P * k = TH * kP
      BY <3>3
    <3> HIDE DEF kP
    <3>5. TH * (kP + d) = TH * kP + TH * d /\ TH * kP \in Int /\ TH * d \in Int
      BY <1>4, <3>2, <3>4, Products
    <3>6. s.from = base + (TH * (kP + d) + e)
      BY <1>5, <3>1, <3>2, <3>4, <3>5
    <3> QED BY <3>6 DEF kP
  <2>7. TH * P - PulledTo(p, x, P) + e = over
    BY DEF PulledTo, pull, N, TH, last
  <2>4. \E r \in NFormWrites(p.hp, p.gg, p.off, x) :
          /\ r.to = CwGlobalOffset(p.hp, p.gg, x) + p.off["W"] + (TH * (k * P + d) + e)
          /\ r.from = AddressOf(p, x, TH * P - PulledTo(p, x, P) + e, d)
    <3> HIDE DEF readStart
    <3>1. P \in 0 .. N - 1
      BY <1>4
    <3> QED BY <1>17, <2>2, <3>1, NormalFormsCover DEF wos, TH, k, N
  <2>5. CwGlobalOffset(p.hp, p.gg, x) + p.off["W"] = base
    BY Room, ProblemParts DEF base
  <2>6. PackWrites(p.hp, p.gg, p.off, x) = NFormWrites(p.hp, p.gg, p.off, x)
    BY <1>17 DEF PackWrites, COPY, NFORM, wos
  <2>8. \E r \in PackWrites(p.hp, p.gg, p.off, x) : r.to = s.from /\ r.from = from
    BY <1>19, <2>3, <2>4, <2>5, <2>6, <2>7
  <2> QED BY <1>6, <1>17, <1>21, <2>8
<1> QED BY <1>6, <1>15, <1>16, <1>17

---------------------------------------------------------------------------
(* What the items of a group sum and write.                                *)

(* The place across the tile of a row of an item's registers.              *)
RowAt(p, x, micro, r) == micro * CWorkItemNext(p.hp, x) + r[2]

(* The rows of the registers, with v to a vector and so many vectors.      *)
RowsAre(p, x) ==
  LET v == p.hp[x]["VEW"]
      q == p.hp[x]["MIC"] \div v
      grid == MacroGrid(p.hp)[x]
  IN IF p.hp[x]["MIW"] = 0
     THEN /\ CWorkItemNext(p.hp, x) = v * q
          /\ RegisterRows(p.hp, x) = {<<d, d>> : d \in 0 .. v * q - 1}
     ELSE /\ CWorkItemNext(p.hp, x) = v
          /\ \A u \in 0 .. q - 1, lane \in 0 .. v - 1 :
               <<v * u + lane, v * (grid * u) + lane>> \in RegisterRows(p.hp, x)
          /\ \A r \in RegisterRows(p.hp, x) : \E u \in 0 .. q - 1, lane \in 0 .. v - 1 :
               r = <<v * u + lane, v * (grid * u) + lane>>

(* An item that interleaves its vectors with those of the others of its    *)
(* grid has every grid-th of them.                                         *)
LEMMA InterleavedRows ==
  ASSUME NEW v \in Nat, v > 0, NEW q \in Nat, NEW grid \in Nat, grid > 0
  PROVE  /\ \A u \in 0 .. q - 1 : /\ grid * u \in 0 .. grid * q - 1 /\ (grid * u) % grid = 0
                                  /\ ((grid * u) * v) \div grid = v * u /\ (grid * u) * v = v * (grid * u)
         /\ \A i \in 0 .. grid * q - 1 : i % grid = 0 => i \div grid \in 0 .. q - 1 /\ i = grid * (i \div grid)
<1>1. ASSUME NEW u \in 0 .. q - 1
      PROVE  /\ grid * u \in 0 .. grid * q - 1 /\ (grid * u) % grid = 0
             /\ ((grid * u) * v) \div grid = v * u /\ (grid * u) * v = v * (grid * u)
  <2>1. (grid * u) * v = grid * (v * u) /\ v * u \in Int /\ v * (grid * u) = (grid * u) * v /\ grid * u \in Int
    BY Products, Regrouped
  <2>2. (grid * (v * u)) \div grid = v * u
    BY <2>1, DivExact
  <2>3. 0 \in 0 .. grid - 1 /\ grid * u + 0 = grid * u
    BY <2>1
  <2>4. grid * u + 0 \in 0 .. grid * q - 1
    BY <2>3, Blocked
  <2>5. (grid * u) % grid = 0
    BY DivExact
  <2> QED BY <2>1, <2>2, <2>3, <2>4, <2>5
<1>2. ASSUME NEW i \in 0 .. grid * q - 1, i % grid = 0
      PROVE  i \div grid \in 0 .. q - 1 /\ i = grid * (i \div grid)
  <2>1. i \in Nat
    BY Products
  <2> QED BY <2>1, <1>2, NoRest, TwoDigits
<1> QED BY <1>1, <1>2

(* The rows of the registers are those, with interleaving or without.      *)
LEMMA RegisterRowsAre ==
  ASSUME NEW p, IsProblem(p), Derivable(p.hp, p.gg), NEW x \in Chiral
  PROVE  RowsAre(p, x)
<1> DEFINE v == p.hp[x]["VEW"]
           q == p.hp[x]["MIC"] \div v
           grid == MacroGrid(p.hp)[x]
<1>1. /\ v \in Nat /\ v > 0 /\ q \in Nat /\ q > 0 /\ p.hp[x]["MIC"] = v * q /\ grid \in Nat /\ grid > 0
      /\ MacroTile(p.hp, x) \div v = grid * q
  BY VectorsInTile
<1>2. CASE p.hp[x]["MIW"] = 0
  BY <1>1, <1>2 DEF RowsAre, CWorkItemNext, RegisterRows
<1>3. CASE p.hp[x]["MIW"] # 0
  <2>1. RegisterRows(p.hp, x) =
          {<<(i * v) \div grid + lane, i * v + lane>> :
             i \in {j \in 0 .. MacroTile(p.hp, x) \div v - 1 : j % grid = 0}, lane \in 0 .. v - 1}
    BY <1>3 DEF RegisterRows
  <2>2. ASSUME NEW u \in 0 .. q - 1, NEW lane \in 0 .. v - 1
        PROVE  <<v * u + lane, v * (grid * u) + lane>> \in RegisterRows(p.hp, x)
    <3> HIDE DEF v, q, grid
    <3>1. /\ grid * u \in 0 .. grid * q - 1 /\ (grid * u) % grid = 0
          /\ ((grid * u) * v) \div grid = v * u /\ (grid * u) * v = v * (grid * u)
      BY <1>1, InterleavedRows
    <3> DEFINE i == grid * u
    <3>2. i \in {j \in 0 .. MacroTile(p.hp, x) \div v - 1 : j % grid = 0}
      BY <1>1, <3>1
    <3>3. (i * v) \div grid = v * u /\ i * v = v * (grid * u)
      BY <3>1
    <3> HIDE DEF i
    <3>4. <<(i * v) \div grid + lane, i * v + lane>> \in RegisterRows(p.hp, x)
      BY <2>1, <3>2
    <3> QED BY <3>3, <3>4
  <2>3. ASSUME NEW r \in RegisterRows(p.hp, x)
        PROVE  \E u \in 0 .. q - 1, lane \in 0 .. v - 1 : r = <<v * u + lane, v * (grid * u) + lane>>
    <3> HIDE DEF v, q, grid
    <3>1. PICK i \in 0 .. grid * q - 1, lane \in 0 .. v - 1 :
            i % grid = 0 /\ r = <<(i * v) \div grid + lane, i * v + lane>>
      BY <1>1, <2>1
    <3> DEFINE u == i \div grid
    <3>2. u \in 0 .. q - 1 /\ i = grid * u
      BY <1>1, <3>1, InterleavedRows
    <3> HIDE DEF u
    <3>3. (i * v) \div grid = v * u /\ i * v = v * (grid * u)
      BY <1>1, <3>2, InterleavedRows
    <3> QED BY <3>1, <3>2, <3>3
  <2> QED BY <1>3, <2>2, <2>3 DEF RowsAre, CWorkItemNext
<1> QED BY <1>2, <1>3

(* Where a row is: in its registers, and across the tile, of which it has  *)
(* one place.                                                              *)
LEMMA RowsOfItem ==
  ASSUME NEW p, IsProblem(p), Derivable(p.hp, p.gg), NEW x \in Chiral,
         NEW micro \in 0 .. MacroGrid(p.hp)[x] - 1, NEW r \in RegisterRows(p.hp, x)
  PROVE  /\ r = <<r[1], r[2]>> /\ r[1] \in 0 .. p.hp[x]["MIC"] - 1 /\ r[2] \in Nat
         /\ RowAt(p, x, micro, r) \in 0 .. MacroTile(p.hp, x) - 1
<1> DEFINE v == p.hp[x]["VEW"]
           q == p.hp[x]["MIC"] \div v
           grid == MacroGrid(p.hp)[x]
<1>1. /\ v \in Nat /\ v > 0 /\ q \in Nat /\ q > 0 /\ p.hp[x]["MIC"] = v * q /\ grid \in Nat /\ grid > 0
      /\ MacroTile(p.hp, x) = v * (grid * q)
  BY VectorsInTile
<1>2. RowsAre(p, x)
  BY RegisterRowsAre
<1>a. micro \in 0 .. grid - 1
  OBVIOUS
<1>3. CASE p.hp[x]["MIW"] = 0
  <2>1. CWorkItemNext(p.hp, x) = v * q /\ \E d \in 0 .. v * q - 1 : r = <<d, d>>
    BY <1>2, <1>3 DEF RowsAre
  <2>2. PICK d \in 0 .. v * q - 1 : r = <<d, d>>
    BY <2>1
  <2> HIDE DEF v, q, grid
  <2>3. v * q \in Nat /\ (v * q) * grid = v * (grid * q) /\ (v * q) * micro = micro * (v * q)
    BY <1>1, <1>a, Products, Regrouped
  <2>4. (v * q) * micro + d \in 0 .. (v * q) * grid - 1
    BY <1>1, <1>a, <2>2, <2>3, Blocked
  <2> QED BY <1>1, <2>1, <2>2, <2>3, <2>4 DEF RowAt
<1>4. CASE p.hp[x]["MIW"] # 0
  <2>1. /\ CWorkItemNext(p.hp, x) = v
        /\ \E u \in 0 .. q - 1, lane \in 0 .. v - 1 : r = <<v * u + lane, v * (grid * u) + lane>>
    BY <1>2, <1>4 DEF RowsAre
  <2>2. PICK u \in 0 .. q - 1, lane \in 0 .. v - 1 : r = <<v * u + lane, v * (grid * u) + lane>>
    BY <2>1
  <2> HIDE DEF v, q, grid
  <2>3. v * u + lane \in 0 .. v * q - 1
    BY <1>1, Blocked
  <2>4. grid * u + micro \in 0 .. grid * q - 1
    BY <1>1, <1>a, Blocked
  <2>5. grid * q \in Nat /\ grid * u \in Nat /\ v * (grid * u) \in Nat /\ v * q \in Nat
    BY <1>1, Products
  <2>6. v * (grid * u + micro) + lane \in 0 .. v * (grid * q) - 1
    BY <1>1, <2>4, <2>5, Blocked
  <2>7. v * (grid * u + micro) = v * (grid * u) + micro * v
    BY <1>1, <1>a, <2>5, Products
  <2> QED BY <1>1, <1>a, <2>1, <2>2, <2>3, <2>5, <2>6, <2>7 DEF RowAt
<1> QED BY <1>3, <1>4

(* Every place across the tile is some item's.                             *)
LEMMA RowsOfTile ==
  ASSUME NEW p, IsProblem(p), Derivable(p.hp, p.gg), NEW x \in Chiral,
         NEW e \in 0 .. MacroTile(p.hp, x) - 1
  PROVE  \E micro \in 0 .. MacroGrid(p.hp)[x] - 1, r \in RegisterRows(p.hp, x) : RowAt(p, x, micro, r) = e
<1> DEFINE v == p.hp[x]["VEW"]
           q == p.hp[x]["MIC"] \div v
           grid == MacroGrid(p.hp)[x]
<1>1. /\ v \in Nat /\ v > 0 /\ q \in Nat /\ q > 0 /\ p.hp[x]["MIC"] = v * q /\ grid \in Nat /\ grid > 0
      /\ MacroTile(p.hp, x) = v * (grid * q)
  BY VectorsInTile
<1>2. RowsAre(p, x)
  BY RegisterRowsAre
<1>3. CASE p.hp[x]["MIW"] = 0
  <2>1. CWorkItemNext(p.hp, x) = v * q /\ \A d \in 0 .. v * q - 1 : <<d, d>> \in RegisterRows(p.hp, x)
    BY <1>2, <1>3 DEF RowsAre
  <2> DEFINE b == v * q
             micro == e \div b
             d == e % b
  <2> HIDE DEF v, q, grid
  <2>2. b \in Nat /\ b > 0 /\ b * grid = v * (grid * q)
    BY <1>1, Products, Regrouped
  <2>3. d \in 0 .. b - 1 /\ micro \in 0 .. grid - 1 /\ e = b * micro + d
    <3> HIDE DEF b
    <3>1. e \in 0 .. b * grid - 1 /\ e \in Int
      BY <1>1, <2>2
    <3> QED BY <1>1, <2>2, <3>1, TwoDigits, DivMod
  <2> HIDE DEF micro, d
  <2>4. b * micro = micro * b
    BY <2>2, <2>3, Products
  <2>5. <<d, d>> \in RegisterRows(p.hp, x) /\ RowAt(p, x, micro, <<d, d>>) = e
    BY <2>1, <2>3, <2>4 DEF RowAt
  <2> QED BY <2>3, <2>5 DEF grid
<1>4. CASE p.hp[x]["MIW"] # 0
  <2>1. /\ CWorkItemNext(p.hp, x) = v
        /\ \A u \in 0 .. q - 1, lane \in 0 .. v - 1 :
             <<v * u + lane, v * (grid * u) + lane>> \in RegisterRows(p.hp, x)
    BY <1>2, <1>4 DEF RowsAre
  <2> DEFINE lane == e % v
             j == e \div v
             micro == j % grid
             u == j \div grid
  <2> HIDE DEF v, q, grid
  <2>2. e \in 0 .. v * (grid * q) - 1 /\ e \in Int /\ grid * q \in Nat
    BY <1>1, Products
  <2>3. lane \in 0 .. v - 1 /\ j \in 0 .. grid * q - 1 /\ e = v * j + lane
    BY <1>1, <2>2, TwoDigits, DivMod
  <2> HIDE DEF j, lane
  <2>4. micro \in 0 .. grid - 1 /\ u \in 0 .. q - 1 /\ j = grid * u + micro
    BY <1>1, <2>2, <2>3, TwoDigits, DivMod
  <2> HIDE DEF micro, u
  <2>5. v * j = v * (grid * u) + micro * v /\ grid * u \in Int
    BY <1>1, <2>4, Products
  <2> DEFINE r == <<v * u + lane, v * (grid * u) + lane>>
  <2>6. r \in RegisterRows(p.hp, x)
    BY <2>1, <2>3, <2>4
  <2>7. RowAt(p, x, micro, r) = e
    <3>1. v * (grid * u) \in Int /\ micro * v \in Int
      BY <1>1, <2>4, <2>5, Products
    <3> QED BY <2>1, <2>3, <2>5, <3>1 DEF RowAt
  <2> QED BY <2>4, <2>6, <2>7 DEF grid
<1> QED BY <1>3, <1>4

(* No two items of a grid have one place across the tile, and no item has  *)
(* two rows for it.                                                        *)
LEMMA RowsApart ==
  ASSUME NEW p, IsProblem(p), Derivable(p.hp, p.gg), NEW x \in Chiral,
         NEW micro \in 0 .. MacroGrid(p.hp)[x] - 1, NEW r \in RegisterRows(p.hp, x),
         NEW other \in 0 .. MacroGrid(p.hp)[x] - 1, NEW s \in RegisterRows(p.hp, x),
         RowAt(p, x, micro, r) = RowAt(p, x, other, s)
  PROVE  micro = other /\ r = s
<1> DEFINE v == p.hp[x]["VEW"]
           q == p.hp[x]["MIC"] \div v
           grid == MacroGrid(p.hp)[x]
<1>1. /\ v \in Nat /\ v > 0 /\ q \in Nat /\ q > 0 /\ p.hp[x]["MIC"] = v * q /\ grid \in Nat /\ grid > 0
  BY VectorsInTile
<1>2. RowsAre(p, x)
  BY RegisterRowsAre
<1>a. micro \in 0 .. grid - 1 /\ other \in 0 .. grid - 1
  OBVIOUS
<1>3. CASE p.hp[x]["MIW"] = 0
  <2>1. CWorkItemNext(p.hp, x) = v * q /\ (\E d \in 0 .. v * q - 1 : r = <<d, d>>) /\ (\E d \in 0 .. v * q - 1 : s = <<d, d>>)
    BY <1>2, <1>3 DEF RowsAre
  <2>2. PICK d \in 0 .. v * q - 1 : r = <<d, d>>
    BY <2>1
  <2>3. PICK f \in 0 .. v * q - 1 : s = <<f, f>>
    BY <2>1
  <2> DEFINE b == v * q
  <2> HIDE DEF v, q, grid
  <2>4. b \in Nat /\ micro \in Int /\ other \in Int /\ b * micro = micro * b /\ b * other = other * b
    BY <1>1, <1>a, Products
  <2>5. d \in 0 .. b - 1 /\ f \in 0 .. b - 1
    BY <2>2, <2>3
  <2>6. micro * b + d = other * b + f
    BY <2>1, <2>2, <2>3 DEF RowAt
  <2> HIDE DEF b
  <2>7. micro = other /\ d = f
    <3>1. b * micro + d = b * other + f
      BY <2>4, <2>6
    <3> QED BY <2>4, <2>5, <3>1, Digits
  <2> QED BY <2>2, <2>3, <2>7
<1>4. CASE p.hp[x]["MIW"] # 0
  <2>1. /\ CWorkItemNext(p.hp, x) = v
        /\ \E u \in 0 .. q - 1, lane \in 0 .. v - 1 : r = <<v * u + lane, v * (grid * u) + lane>>
        /\ \E u \in 0 .. q - 1, lane \in 0 .. v - 1 : s = <<v * u + lane, v * (grid * u) + lane>>
    BY <1>2, <1>4 DEF RowsAre
  <2>2. PICK u \in 0 .. q - 1, l \in 0 .. v - 1 : r = <<v * u + l, v * (grid * u) + l>>
    BY <2>1
  <2>3. PICK n \in 0 .. q - 1, k \in 0 .. v - 1 : s = <<v * n + k, v * (grid * n) + k>>
    BY <2>1
  <2> HIDE DEF v, q, grid
  <2>4. /\ micro \in Int /\ other \in Int /\ v * micro = micro * v /\ v * other = other * v
        /\ grid * u \in Int /\ grid * n \in Int
        /\ v * (grid * u) \in Int /\ v * (grid * n) \in Int /\ v * micro \in Int /\ v * other \in Int
    BY <1>1, <1>a, Products
  <2>5. v * (grid * u + micro) = v * (grid * u) + v * micro /\ v * (grid * n + other) = v * (grid * n) + v * other
    BY <1>1, <2>4, Products
  <2>6. micro * v + (v * (grid * u) + l) = other * v + (v * (grid * n) + k)
    BY <2>1, <2>2, <2>3 DEF RowAt
  <2>7. v * (grid * u + micro) + l = v * (grid * n + other) + k
    BY <2>4, <2>5, <2>6
  <2>8. grid * u + micro = grid * n + other /\ l = k
    BY <1>1, <2>4, <2>7, Digits
  <2>9. u = n /\ micro = other
    BY <1>1, <1>a, <2>8, Digits
  <2> QED BY <2>2, <2>3, <2>8, <2>9
<1> QED BY <1>3, <1>4

(* The row is at that place of the tile in local memory too, in each unroll. *)
LEMMA RowsInMemory ==
  ASSUME NEW p, IsProblem(p), Derivable(p.hp, p.gg), NEW x \in Chiral, NEW item \in Int,
         NEW micro \in Nat, micro = MicroId(p.hp, item)[x], NEW r \in RegisterRows(p.hp, x), NEW d \in Nat
  PROVE  RegisterPlace(p.hp, x, item, d, r[1]) = PaddedTile(p.hp, x) * d + RowAt(p, x, micro, r)
<1> DEFINE v == p.hp[x]["VEW"]
           q == p.hp[x]["MIC"] \div v
           grid == MacroGrid(p.hp)[x]
           row == PaddedTile(p.hp, x) \div v
           next == CWorkItemNext(p.hp, x)
           is == InterweaveStride(p.hp, x)
<1>1. /\ v \in Nat /\ v > 0 /\ q \in Nat /\ q > 0 /\ p.hp[x]["MIC"] = v * q /\ grid \in Nat /\ grid > 0
      /\ row \in Nat /\ v * row = PaddedTile(p.hp, x)
  BY VectorsInTile
<1>2. RowsAre(p, x)
  BY RegisterRowsAre
<1>3. RegisterPlace(p.hp, x, item, d, r[1]) =
        v * ((micro * next) \div v + d * row + (r[1] \div v) * is) + (r[1] % v)
  BY DEF RegisterPlace
<1>4. PaddedTile(p.hp, x) * d = v * (d * row) /\ d * row \in Int
  <2> HIDE DEF v, row
  <2> QED BY <1>1, Products, Regrouped
<1>5. CASE p.hp[x]["MIW"] = 0
  <2>1. next = v * q /\ is = 1 /\ \E f \in 0 .. v * q - 1 : r = <<f, f>>
    BY <1>2, <1>5 DEF RowsAre, InterweaveStride
  <2>2. PICK f \in 0 .. v * q - 1 : r = <<f, f>>
    BY <2>1
  <2> HIDE DEF v, q, row, next, is
  <2>3. f \in Int /\ f \div v \in Int /\ f % v \in Int /\ f = v * (f \div v) + (f % v) /\ (f \div v) * 1 = f \div v
    BY <1>1, <2>2, DivMod, Products
  <2>4. micro * (v * q) = v * (micro * q) /\ micro * q \in Int
    BY <1>1, Products, Regrouped
  <2>5. (micro * next) \div v = micro * q
    BY <1>1, <2>1, <2>4, DivExact
  <2> DEFINE a == micro * q
             b == d * row
             e == f \div v
  <2>6. a \in Int /\ b \in Int /\ e \in Int
    BY <1>4, <2>3, <2>4
  <2>7. v * (a + b + e) = v * a + v * b + v * e /\ v * a \in Int /\ v * b \in Int /\ v * e \in Int
    <3> HIDE DEF a, b, e
    <3>1. v * ((a + b) + e) = v * (a + b) + v * e /\ v * (a + b) = v * a + v * b
      BY <1>1, <2>6, Products
    <3> QED BY <1>1, <2>6, <3>1, Products
  <2>8. r[1] = f /\ r[2] = f
    BY <2>2
  <2>9. RegisterPlace(p.hp, x, item, d, r[1]) = v * (a + b + e) + (f % v)
    BY <1>3, <2>1, <2>3, <2>5, <2>8
  <2>10. RowAt(p, x, micro, r) = v * a + f
    BY <2>1, <2>4, <2>8 DEF RowAt, next
  <2> QED
    <3> HIDE DEF a
    <3>1. PaddedTile(p.hp, x) * d = v * b /\ f = v * e + (f % v)
      BY <1>4, <2>3
    <3> HIDE DEF b, e
    <3> QED BY <2>3, <2>6, <2>7, <2>9, <2>10, <3>1
<1>6. CASE p.hp[x]["MIW"] # 0
  <2>1. /\ next = v /\ is = grid
        /\ \E u \in 0 .. q - 1, lane \in 0 .. v - 1 : r = <<v * u + lane, v * (grid * u) + lane>>
    BY <1>2, <1>6 DEF RowsAre, InterweaveStride
  <2>2. PICK u \in 0 .. q - 1, lane \in 0 .. v - 1 : r = <<v * u + lane, v * (grid * u) + lane>>
    BY <2>1
  <2> HIDE DEF v, q, row, next, is, grid
  <2>3. (v * u + lane) \div v = u /\ (v * u + lane) % v = lane
    <3>1. v \in Nat /\ u \in Int /\ lane \in Int /\ 0 <= lane /\ lane < v
      BY <1>1
    <3> QED BY ONLY <3>1, DivUnique
  <2>4. (micro * next) \div v = micro /\ micro * v = v * micro
    BY <1>1, <2>1, DivExact, Products
  <2> DEFINE b == d * row
             e == grid * u
  <2>5. b \in Int /\ e \in Int /\ u * grid = e
    BY <1>1, <1>4, Products
  <2>6. v * (micro + b + e) = v * micro + v * b + v * e /\ v * micro \in Int /\ v * b \in Int /\ v * e \in Int
    <3> HIDE DEF b, e
    <3>1. v * ((micro + b) + e) = v * (micro + b) + v * e /\ v * (micro + b) = v * micro + v * b
      BY <1>1, <2>5, Products
    <3> QED BY <1>1, <2>5, <3>1, Products
  <2>7. r[1] = v * u + lane /\ r[2] = v * e + lane
    BY <2>2
  <2>8. RegisterPlace(p.hp, x, item, d, r[1]) = v * (micro + b + e) + lane
    BY <1>3, <2>1, <2>3, <2>4, <2>5, <2>7
  <2>9. RowAt(p, x, micro, r) = v * micro + (v * e + lane)
    BY <2>1, <2>4, <2>7 DEF RowAt, next
  <2>10. PaddedTile(p.hp, x) * d = v * b
    BY <1>4
  <2> HIDE DEF b, e
  <2> QED BY <2>5, <2>6, <2>8, <2>9, <2>10
<1> QED BY <1>5, <1>6

(* There is an item for each place of the grid, and it is the only one.    *)
LEMMA ItemsOfGrid ==
  ASSUME NEW p, IsProblem(p), Derivable(p.hp, p.gg)
  PROVE  /\ \A item \in 0 .. WorkItems(p.hp) - 1 : \A x \in Chiral :
              MicroId(p.hp, item)[x] \in 0 .. MacroGrid(p.hp)[x] - 1
         /\ \A a \in 0 .. MacroGrid(p.hp)["A"] - 1, b \in 0 .. MacroGrid(p.hp)["B"] - 1 :
              \E item \in 0 .. WorkItems(p.hp) - 1 : MicroId(p.hp, item)["A"] = a /\ MicroId(p.hp, item)["B"] = b
         /\ \A i, j \in 0 .. WorkItems(p.hp) - 1 :
              /\ MicroId(p.hp, i)["A"] = MicroId(p.hp, j)["A"]
              /\ MicroId(p.hp, i)["B"] = MicroId(p.hp, j)["B"]
              => i = j
<1> DEFINE ga == MacroGrid(p.hp)["A"]
           gb == MacroGrid(p.hp)["B"]
           n == WorkItems(p.hp)
<1>1. ga \in Nat /\ ga > 0 /\ gb \in Nat /\ gb > 0 /\ n = ga * gb /\ n = gb * ga
  <2>1. ga \in Nat /\ ga > 0 /\ gb \in Nat /\ gb > 0 /\ n = ga * gb
    BY DerivableParts, Tiled DEF Chiral
  <2> QED BY <2>1, Products
<1>2. CASE p.hp["C"]["MIA"] = 0
  <2>1. \A i : MicroId(p.hp, i)["A"] = i % ga /\ MicroId(p.hp, i)["B"] = i \div ga
    BY <1>2 DEF MicroId
  <2> HIDE DEF ga, gb, n
  <2>2. \A i \in 0 .. n - 1 : i % ga \in 0 .. ga - 1 /\ i \div ga \in 0 .. gb - 1 /\ i = ga * (i \div ga) + (i % ga)
    BY <1>1, TwoDigits, DivMod
  <2>3. \A a \in 0 .. ga - 1, b \in 0 .. gb - 1 :
          ga * b + a \in 0 .. n - 1 /\ (ga * b + a) % ga = a /\ (ga * b + a) \div ga = b
    BY <1>1, Blocked, DivUnique
  <2>4. \A x \in Chiral : x = "A" \/ x = "B"
    BY DEF Chiral
  <2>5. \A i \in 0 .. n - 1 : MicroId(p.hp, i)["A"] \in 0 .. ga - 1 /\ MicroId(p.hp, i)["B"] \in 0 .. gb - 1
    BY <2>1, <2>2
  <2>6. \A i, j \in 0 .. n - 1 :
          MicroId(p.hp, i)["A"] = MicroId(p.hp, j)["A"] /\ MicroId(p.hp, i)["B"] = MicroId(p.hp, j)["B"] => i = j
    BY <2>1, <2>2
  <2>7. \A a \in 0 .. ga - 1, b \in 0 .. gb - 1 :
          \E i \in 0 .. n - 1 : MicroId(p.hp, i)["A"] = a /\ MicroId(p.hp, i)["B"] = b
    BY <2>1, <2>3
  <2> QED BY <2>4, <2>5, <2>6, <2>7 DEF ga, gb, n
<1>3. CASE p.hp["C"]["MIA"] # 0
  <2>1. \A i : MicroId(p.hp, i)["A"] = i \div gb /\ MicroId(p.hp, i)["B"] = i % gb
    BY <1>3 DEF MicroId
  <2> HIDE DEF ga, gb, n
  <2>2. \A i \in 0 .. n - 1 : i % gb \in 0 .. gb - 1 /\ i \div gb \in 0 .. ga - 1 /\ i = gb * (i \div gb) + (i % gb)
    BY <1>1, TwoDigits, DivMod
  <2>3. \A a \in 0 .. ga - 1, b \in 0 .. gb - 1 :
          gb * a + b \in 0 .. n - 1 /\ (gb * a + b) % gb = b /\ (gb * a + b) \div gb = a
    BY <1>1, Blocked, DivUnique
  <2>4. \A x \in Chiral : x = "A" \/ x = "B"
    BY DEF Chiral
  <2>5. \A i \in 0 .. n - 1 : MicroId(p.hp, i)["A"] \in 0 .. ga - 1 /\ MicroId(p.hp, i)["B"] \in 0 .. gb - 1
    BY <2>1, <2>2
  <2>6. \A i, j \in 0 .. n - 1 :
          MicroId(p.hp, i)["A"] = MicroId(p.hp, j)["A"] /\ MicroId(p.hp, i)["B"] = MicroId(p.hp, j)["B"] => i = j
    BY <2>1, <2>2
  <2>7. \A a \in 0 .. ga - 1, b \in 0 .. gb - 1 :
          \E i \in 0 .. n - 1 : MicroId(p.hp, i)["A"] = a /\ MicroId(p.hp, i)["B"] = b
    BY <2>1, <2>3
  <2> QED BY <2>4, <2>5, <2>6, <2>7 DEF ga, gb, n
<1> QED BY <1>2, <1>3

(* A place across a tile is one across the matrix; the tile is the one     *)
(* that it is in, but for what the last tile was pulled in over.           *)
LEMMA PlacesOfTile ==
  ASSUME NEW p, IsProblem(p), Derivable(p.hp, p.gg), NEW x \in Chiral, NEW tile,
         tile[x] \in 0 .. NGroups(p.hp, p.gg, x) - 1, NEW e \in 0 .. MacroTile(p.hp, x) - 1,
         NEW i, i = TileAt(p, tile, x) + e
  PROVE  /\ i \in 0 .. NonKDim(p.gg, x) - 1 /\ TileAt(p, tile, x) \in Int
         /\ i \div MacroTile(p.hp, x) = tile[x] <=> (IsLast(p.hp, p.gg, tile, x) => Overflows(p.hp, p.gg, x, i))
         /\ i \div MacroTile(p.hp, x) # tile[x] => PreshiftFinalTile(p.hp, p.gg, x) # MacroTile(p.hp, x)
<1> DEFINE N == NGroups(p.hp, p.gg, x)
           TH == MacroTile(p.hp, x)
           last == PreshiftFinalTile(p.hp, p.gg, x)
           u == tile[x]
<1>1. /\ N \in Nat /\ N > 0 /\ TH \in Nat /\ TH > 0 /\ last \in 1 .. TH
      /\ NonKDim(p.gg, x) = TH * (N - 1) + last /\ NonKDim(p.gg, x) >= TH
  BY TilesOfMatrix
<1>2. TileAt(p, tile, x) = u * TH - (IF u = N - 1 THEN TH - last ELSE 0)
  BY PulledTile DEF TileAt
<1>3. /\ IsLast(p.hp, p.gg, tile, x) <=> u = N - 1
      /\ Overflows(p.hp, p.gg, x, i) <=> i >= TH * (N - 1)
  BY DEF IsLast, Overflows
<1>4. u \in 0 .. N - 1 /\ e \in 0 .. TH - 1
  OBVIOUS
<1> HIDE DEF N, TH, last, u
<1>5. TH * u \in Int /\ TH * u = u * TH /\ TH * (N - 1) \in Int
  BY <1>1, <1>4, Products
<1>6. TH * u - (IF u = N - 1 THEN TH - last ELSE 0) + e \in 0 .. TH * (N - 1) + last - 1
  BY <1>1, <1>4, PulledIn
<1>7. i = TH * u - (IF u = N - 1 THEN TH - last ELSE 0) + e /\ TileAt(p, tile, x) \in Int
  BY <1>1, <1>2, <1>4, <1>5
<1>8. i \in 0 .. NonKDim(p.gg, x) - 1
  BY <1>1, <1>6, <1>7
<1>9. CASE u # N - 1
  <2>1. i = TH * u + e
    BY <1>4, <1>5, <1>7, <1>9
  <2>2. i \div TH = u
    BY <1>1, <1>4, <2>1, DivUnique
  <2> QED BY <1>3, <1>7, <1>8, <1>9, <2>2 DEF TH, u
<1>10. CASE u = N - 1
  <2>1. i = TH * u + (e - (TH - last)) /\ e - (TH - last) \in Int /\ e - (TH - last) < TH
    BY <1>1, <1>4, <1>5, <1>7, <1>10
  <2>2. CASE e >= TH - last
    <3>1. i \div TH = u
      <4> DEFINE r == e - (TH - last)
      <4>1. TH \in Nat /\ u \in Int /\ r \in Int /\ 0 <= r /\ r < TH /\ i = TH * u + r
        BY <1>1, <1>4, <2>1, <2>2
      <4> HIDE DEF r
      <4> QED BY ONLY <4>1, DivUnique
    <3>2. i >= TH * (N - 1)
      BY <1>1, <1>4, <1>5, <1>10, <2>1, <2>2
    <3> QED BY <1>3, <1>7, <1>8, <3>1, <3>2 DEF TH, u
  <2>3. CASE e < TH - last
    <3>1. i = TH * (u - 1) + (e + last) /\ 0 <= e + last /\ e + last < TH
      <4>1. TH * (u - 1) = TH * u - TH * 1 /\ TH * 1 = TH
        BY <1>1, <1>4, Products
      <4> QED BY <1>1, <1>4, <1>5, <2>1, <2>3, <4>1
    <3>2. i \div TH = u - 1
      <4> DEFINE r == e + last
                 s == u - 1
      <4>1. TH \in Nat /\ s \in Int /\ r \in Int /\ 0 <= r /\ r < TH /\ i = TH * s + r
        BY <1>1, <1>4, <3>1
      <4> HIDE DEF r, s
      <4>2. i \div TH = s
        BY ONLY <4>1, DivUnique
      <4> QED BY <4>2 DEF s
    <3>3. ~(i >= TH * (N - 1)) /\ last # TH
      BY <1>1, <1>4, <1>5, <1>10, <2>1, <2>3
    <3> QED BY <1>3, <1>4, <1>7, <1>8, <1>10, <3>2, <3>3 DEF TH, u, last
  <2> QED BY <1>1, <1>4, <2>2, <2>3
<1> QED BY <1>9, <1>10

(* Every place across the matrix is one across its tile.                   *)
LEMMA TileOfPlace ==
  ASSUME NEW p, IsProblem(p), Derivable(p.hp, p.gg), NEW x \in Chiral,
         NEW i \in 0 .. NonKDim(p.gg, x) - 1
  PROVE  /\ i \div MacroTile(p.hp, x) \in 0 .. NGroups(p.hp, p.gg, x) - 1
         /\ \A tile : tile[x] = i \div MacroTile(p.hp, x) =>
              \E e \in 0 .. MacroTile(p.hp, x) - 1 : i = TileAt(p, tile, x) + e
<1> DEFINE N == NGroups(p.hp, p.gg, x)
           TH == MacroTile(p.hp, x)
           last == PreshiftFinalTile(p.hp, p.gg, x)
           u == i \div TH
           r == i % TH
<1>1. /\ N \in Nat /\ N > 0 /\ TH \in Nat /\ TH > 0 /\ last \in 1 .. TH
      /\ NonKDim(p.gg, x) = TH * (N - 1) + last /\ NonKDim(p.gg, x) >= TH
  BY TilesOfMatrix
<1>2. \A tile : TileAt(p, tile, x) = tile[x] * TH - (IF tile[x] = N - 1 THEN TH - last ELSE 0)
  BY PulledTile DEF TileAt
<1> HIDE DEF N, TH, last
<1>3. i \in 0 .. TH * (N - 1) + last - 1
  BY <1>1
<1>4. i \in Nat /\ u \in Nat /\ r \in 0 .. TH - 1 /\ i = TH * u + r
  <2>1. i \in Nat
    BY <1>1, <1>3, Products
  <2> QED BY <1>1, <2>1, DivMod
<1> HIDE DEF u, r
<1>5. TH * u < TH * N
  <2>1. TH * N = TH * (N - 1) + TH /\ TH * (N - 1) \in Int /\ TH * u \in Int
    <3>1. TH * (N - 1) = TH * N - TH * 1 /\ TH * 1 = TH /\ TH * N \in Int /\ TH * (N - 1) \in Int /\ TH * u \in Int
      BY <1>1, <1>4, Products
    <3> QED BY <1>1, <3>1
  <2> QED BY <1>1, <1>3, <1>4, <2>1
<1>6. u \in 0 .. N - 1
  BY <1>1, <1>4, <1>5, ProductsGrow
<1>7. ASSUME NEW tile, tile[x] = u
      PROVE  \E e \in 0 .. TH - 1 : i = TileAt(p, tile, x) + e
  <2>1. TileAt(p, tile, x) = u * TH - (IF u = N - 1 THEN TH - last ELSE 0)
    BY <1>2, <1>7
  <2>2. u * TH = TH * u /\ TH * u \in Int
    BY <1>1, <1>4, Products
  <2>3. CASE u # N - 1
    BY <1>4, <2>1, <2>2, <2>3
  <2>4. CASE u = N - 1
    <3>1. r < last
      BY <1>1, <1>3, <1>4, <2>2, <2>4
    <3> DEFINE e == TH - last + r
    <3>2. e \in 0 .. TH - 1 /\ i = TileAt(p, tile, x) + e
      BY <1>1, <1>4, <2>1, <2>2, <2>4, <3>1
    <3> QED BY <3>2
  <2> QED BY <2>3, <2>4
<1> QED BY <1>6, <1>7 DEF u, N, TH

(* An element of C that is in a tile.                                      *)
InTile(p, tile, i, j) ==
  i \div MacroTile(p.hp, "A") = tile["A"] /\ j \div MacroTile(p.hp, "B") = tile["B"]

(* A tile on the edge leaves to its neighbours what it overlaps with them: *)
(* each tile writes the elements that are in it.                           *)
LEMMA OwnElements ==
  ASSUME NEW p, IsProblem(p), Derivable(p.hp, p.gg), NEW tile,
         \A x \in Chiral : tile[x] \in 0 .. NGroups(p.hp, p.gg, x) - 1,
         NEW e \in 0 .. MacroTile(p.hp, "A") - 1, NEW f \in 0 .. MacroTile(p.hp, "B") - 1,
         NEW i, i = TileAt(p, tile, "A") + e, NEW j, j = TileAt(p, tile, "B") + f
  PROVE  (OnEdge(p.hp, p.gg, tile) => WriteChecked(p.hp, p.gg, tile, i, j)) <=> InTile(p, tile, i, j)
<1>1. /\ i \div MacroTile(p.hp, "A") = tile["A"]
           <=> (IsLast(p.hp, p.gg, tile, "A") => Overflows(p.hp, p.gg, "A", i))
      /\ i \div MacroTile(p.hp, "A") # tile["A"] => PreshiftFinalTile(p.hp, p.gg, "A") # MacroTile(p.hp, "A")
  BY PlacesOfTile DEF Chiral
<1>2. /\ j \div MacroTile(p.hp, "B") = tile["B"]
           <=> (IsLast(p.hp, p.gg, tile, "B") => Overflows(p.hp, p.gg, "B", j))
      /\ j \div MacroTile(p.hp, "B") # tile["B"] => PreshiftFinalTile(p.hp, p.gg, "B") # MacroTile(p.hp, "B")
  BY PlacesOfTile DEF Chiral
<1>3. OnEdge(p.hp, p.gg, tile) <=>
        \/ PreshiftFinalTile(p.hp, p.gg, "A") # MacroTile(p.hp, "A") /\ IsLast(p.hp, p.gg, tile, "A")
        \/ PreshiftFinalTile(p.hp, p.gg, "B") # MacroTile(p.hp, "B") /\ IsLast(p.hp, p.gg, tile, "B")
  BY DEF OnEdge, Chiral
<1> QED BY <1>1, <1>2, <1>3 DEF WriteChecked, InTile

(* The elements of C have addresses of its buffer, each of its own.        *)
LEMMA CellAddresses ==
  ASSUME NEW p, IsProblem(p), NEW cell \in Cells(p)
  PROVE  /\ CAddress(p, cell[1], cell[2]) \in 0 .. BufferSize(p.gg, p.off, p.tail, "C") - 1
         /\ \A other \in Cells(p) :
              CAddress(p, other[1], other[2]) = CAddress(p, cell[1], cell[2]) => other = cell
<1> DEFINE m == p.gg.m
           n == p.gg.n
           ld == p.gg.ld["C"]
           off == p.off["C"]
           tail == p.tail["C"]
           across == p.gg.t["C"] # p.gg.cm
<1>1. m \in Nat /\ n \in Nat /\ off \in Nat /\ tail \in Nat
  BY ProblemParts DEF Mats
<1>2. ld \in Nat /\ ld >= Coal(p.gg, "C")
  BY DEF IsProblem, IsGeometry, LdxConsistent, Mats
<1>3. Coal(p.gg, "C") = (IF across THEN m ELSE n) /\ Uncoal(p.gg, "C") = (IF across THEN n ELSE m)
  <2>1. p.gg.cm \in BOOLEAN /\ p.gg.t["C"] \in BOOLEAN
    BY DEF IsProblem, IsGeometry, Mats
  <2> QED BY <2>1 DEF Coal, Uncoal, PadlessDim
<1>4. BufferSize(p.gg, p.off, p.tail, "C") = Uncoal(p.gg, "C") * ld + off + tail
  BY DEF BufferSize, PaddedArea
<1>5. \A i, j : CAddress(p, i, j) = off + (IF across THEN 1 ELSE ld) * i + (IF across THEN ld ELSE 1) * j
  BY DEF CAddress
<1>6. Cells(p) = (0 .. m - 1) \X (0 .. n - 1)
  BY DEF Cells
<1> HIDE DEF m, n, ld, off, tail, across
<1>7. ASSUME NEW c \in Cells(p)
      PROVE  /\ across => c[1] \in 0 .. ld - 1 /\ c[2] \in 0 .. n - 1 /\ CAddress(p, c[1], c[2]) = off + (ld * c[2] + c[1])
             /\ ~across => c[2] \in 0 .. ld - 1 /\ c[1] \in 0 .. m - 1 /\ CAddress(p, c[1], c[2]) = off + (ld * c[1] + c[2])
             /\ ld * c[1] \in Int /\ ld * c[2] \in Int /\ c[1] \in Int /\ c[2] \in Int /\ c = <<c[1], c[2]>>
  <2>1. c[1] \in 0 .. m - 1 /\ c[2] \in 0 .. n - 1 /\ c = <<c[1], c[2]>>
    BY <1>6
  <2>2. ld \in Int /\ c[1] \in Int /\ c[2] \in Int
    BY <1>1, <1>2, <2>1
  <2>3. ld * c[1] \in Int /\ ld * c[2] \in Int
    BY ONLY <2>2
  <2>4. 1 * c[1] = c[1] /\ 1 * c[2] = c[2]
    BY ONLY <2>2
  <2> QED BY <1>1, <1>2, <1>3, <1>5, <2>1, <2>2, <2>3, <2>4
<1>8. ASSUME NEW other \in Cells(p), CAddress(p, other[1], other[2]) = CAddress(p, cell[1], cell[2])
      PROVE  other = cell
  <2>1. CASE across
    <3>1. ld * other[2] + other[1] = ld * cell[2] + cell[1]
      BY <1>1, <1>7, <1>8, <2>1
    <3>2. other[2] = cell[2] /\ other[1] = cell[1]
      BY <1>2, <1>7, <2>1, <3>1, Digits
    <3> QED BY <1>7, <3>2
  <2>2. CASE ~across
    <3>1. ld * other[1] + other[2] = ld * cell[1] + cell[2]
      BY <1>1, <1>7, <1>8, <2>2
    <3>2. other[2] = cell[2] /\ other[1] = cell[1]
      BY <1>2, <1>7, <2>2, <3>1, Digits
    <3> QED BY <1>7, <3>2
  <2> QED BY <2>1, <2>2
<1>9. CAddress(p, cell[1], cell[2]) \in 0 .. BufferSize(p.gg, p.off, p.tail, "C") - 1
  <2>1. CASE across
    <3>1. ld * cell[2] + cell[1] \in 0 .. ld * n - 1
      BY <1>1, <1>2, <1>7, <2>1, Blocked
    <3>2. BufferSize(p.gg, p.off, p.tail, "C") = ld * n + off + tail /\ ld * n \in Int
      BY <1>1, <1>2, <1>3, <1>4, <2>1, Products
    <3> QED BY <1>1, <1>7, <2>1, <3>1, <3>2
  <2>2. CASE ~across
    <3>1. ld * cell[1] + cell[2] \in 0 .. ld * m - 1
      BY <1>1, <1>2, <1>7, <2>2, Blocked
    <3>2. BufferSize(p.gg, p.off, p.tail, "C") = ld * m + off + tail /\ ld * m \in Int
      BY <1>1, <1>2, <1>3, <1>4, <2>2, Products
    <3> QED BY <1>1, <1>7, <2>2, <3>1, <3>2
  <2> QED BY <2>1, <2>2
<1> QED BY <1>8, <1>9

(* Where the row r of an item is, across the matrix.                       *)
RowPlace(p, tile, item, x, r) == TileAt(p, tile, x) + RowAt(p, x, MicroId(p.hp, item)[x], r)

(* It is counted from where the item starts to write.                      *)
LEMMA RowsOfMatrix ==
  ASSUME NEW p, IsProblem(p), Derivable(p.hp, p.gg), NEW tile,
         NEW x \in Chiral, tile[x] \in 0 .. NGroups(p.hp, p.gg, x) - 1,
         NEW item \in 0 .. WorkItems(p.hp) - 1, NEW r \in RegisterRows(p.hp, x)
  PROVE  /\ WriteStart(p.hp, p.gg, tile, item, x) + r[2] = RowPlace(p, tile, item, x, r)
         /\ \E e \in 0 .. MacroTile(p.hp, x) - 1 : RowPlace(p, tile, item, x, r) = TileAt(p, tile, x) + e
         /\ RowPlace(p, tile, item, x, r) \in 0 .. NonKDim(p.gg, x) - 1
<1> DEFINE micro == MicroId(p.hp, item)[x]
           e == RowAt(p, x, micro, r)
           next == CWorkItemNext(p.hp, x)
<1>1. micro \in 0 .. MacroGrid(p.hp)[x] - 1
  BY ItemsOfGrid
<1>2. e \in 0 .. MacroTile(p.hp, x) - 1 /\ r[2] \in Nat
  <2> HIDE DEF micro
  <2> QED BY <1>1, RowsOfItem
<1>3. TileAt(p, tile, x) \in Int /\ TileAt(p, tile, x) + e \in 0 .. NonKDim(p.gg, x) - 1
  <2> HIDE DEF e
  <2> QED BY <1>2, PlacesOfTile
<1>4. e = micro * next + r[2] /\ micro * next \in Int
  <2>1. e = micro * next + r[2]
    BY DEF RowAt
  <2>2. next \in Int /\ micro \in Int
    <3>1. next \in Int
      <4>1. p.hp[x]["VEW"] \in Nat /\ p.hp[x]["MIC"] \in Nat
        BY ProblemParts
      <4> QED BY <4>1 DEF CWorkItemNext
    <3>2. MacroGrid(p.hp)[x] \in Nat
      BY DerivableParts, Tiled
    <3> QED BY <1>1, <3>1, <3>2
  <2> HIDE DEF micro, next, e
  <2> QED BY <2>1, <2>2, Products
<1>5. WriteStart(p.hp, p.gg, tile, item, x) = TileAt(p, tile, x) + micro * next
  BY DEF WriteStart, TileAt
<1>6. RowPlace(p, tile, item, x, r) = TileAt(p, tile, x) + e
  BY DEF RowPlace
<1> HIDE DEF e, micro, next
<1> QED BY <1>2, <1>3, <1>4, <1>5, <1>6

(* What an item writes of a row r and a column s of its registers.         *)
WrittenOf(p, tile, item, r, s) ==
  [a |-> r[1], b |-> s[1],
   to |-> CAddress(p, RowPlace(p, tile, item, "A", r), RowPlace(p, tile, item, "B", s))]

CellOf(p, tile, item, r, s) == <<RowPlace(p, tile, item, "A", r), RowPlace(p, tile, item, "B", s)>>

(* Tiles of C.                                                             *)
IsTile(p, tile) == \A x \in Chiral : tile[x] \in 0 .. NGroups(p.hp, p.gg, x) - 1

(* Whoever writes an element of C has a row and a column for it.           *)
IsWritten(p, tile, item, s, r, q) ==
  /\ s = WrittenOf(p, tile, item, r, q)
  /\ CellOf(p, tile, item, r, q) \in Cells(p)
  /\ InTile(p, tile, RowPlace(p, tile, item, "A", r), RowPlace(p, tile, item, "B", q))

(* What an item writes, it writes for rows and columns in its tile, and it *)
(* writes for all of them.                                                 *)
LEMMA ItemWrites ==
  ASSUME NEW p, IsProblem(p), Derivable(p.hp, p.gg), NEW tile, IsTile(p, tile),
         NEW item \in 0 .. WorkItems(p.hp) - 1
  PROVE  /\ \A s \in FinalWrites(p.hp, p.gg, p.off, tile, item) :
              \E r \in RegisterRows(p.hp, "A"), q \in RegisterRows(p.hp, "B") : IsWritten(p, tile, item, s, r, q)
         /\ \A r \in RegisterRows(p.hp, "A"), q \in RegisterRows(p.hp, "B") :
              InTile(p, tile, RowPlace(p, tile, item, "A", r), RowPlace(p, tile, item, "B", q))
              => WrittenOf(p, tile, item, r, q) \in FinalWrites(p.hp, p.gg, p.off, tile, item)
<1> DEFINE RA == RegisterRows(p.hp, "A")
           RB == RegisterRows(p.hp, "B")
           wA == WriteStart(p.hp, p.gg, tile, item, "A")
           wB == WriteStart(p.hp, p.gg, tile, item, "B")
           kept(t) == OnEdge(p.hp, p.gg, tile) => WriteChecked(p.hp, p.gg, tile, wA + t[1][2], wB + t[2][2])
           one(t) == [a |-> t[1][1], b |-> t[2][1], to |-> CAddress(p, wA + t[1][2], wB + t[2][2])]
<1>1. FinalWrites(p.hp, p.gg, p.off, tile, item) = {one(t) : t \in {u \in RA \X RB : kept(u)}}
  BY DEF FinalWrites, CAddress, Chiral
<1>2. ASSUME NEW r \in RA, NEW q \in RB
      PROVE  /\ one(<<r, q>>) = WrittenOf(p, tile, item, r, q)
             /\ kept(<<r, q>>) <=> InTile(p, tile, RowPlace(p, tile, item, "A", r), RowPlace(p, tile, item, "B", q))
             /\ CellOf(p, tile, item, r, q) \in Cells(p)
  <2> DEFINE i == RowPlace(p, tile, item, "A", r)
             j == RowPlace(p, tile, item, "B", q)
  <2>a. "A" \in Chiral /\ "B" \in Chiral
    BY DEF Chiral
  <2>b. /\ tile["A"] \in 0 .. NGroups(p.hp, p.gg, "A") - 1 /\ tile["B"] \in 0 .. NGroups(p.hp, p.gg, "B") - 1
        /\ \A x \in Chiral : tile[x] \in 0 .. NGroups(p.hp, p.gg, x) - 1
    BY <2>a DEF IsTile
  <2>1. /\ wA + r[2] = i /\ i \in 0 .. NonKDim(p.gg, "A") - 1
        /\ \E e \in 0 .. MacroTile(p.hp, "A") - 1 : i = TileAt(p, tile, "A") + e
    BY <2>a, <2>b, RowsOfMatrix
  <2>2. /\ wB + q[2] = j /\ j \in 0 .. NonKDim(p.gg, "B") - 1
        /\ \E e \in 0 .. MacroTile(p.hp, "B") - 1 : j = TileAt(p, tile, "B") + e
    BY <2>a, <2>b, RowsOfMatrix
  <2> HIDE DEF wA, wB, i, j
  <2>3. PICK e \in 0 .. MacroTile(p.hp, "A") - 1 : i = TileAt(p, tile, "A") + e
    BY <2>1
  <2>4. PICK f \in 0 .. MacroTile(p.hp, "B") - 1 : j = TileAt(p, tile, "B") + f
    BY <2>2
  <2>5. (OnEdge(p.hp, p.gg, tile) => WriteChecked(p.hp, p.gg, tile, i, j)) <=> InTile(p, tile, i, j)
    BY <2>b, <2>3, <2>4, OwnElements
  <2>6. <<i, j>> \in Cells(p)
    BY <2>1, <2>2 DEF Cells, NonKDim
  <2>7. one(<<r, q>>) = [a |-> r[1], b |-> q[1], to |-> CAddress(p, i, j)]
    BY <2>1, <2>2
  <2>8. kept(<<r, q>>) <=> InTile(p, tile, i, j)
    BY <2>1, <2>2, <2>5
  <2> QED BY <2>6, <2>7, <2>8 DEF i, j, WrittenOf, CellOf
<1> HIDE DEF one, kept
<1>3. ASSUME NEW s \in FinalWrites(p.hp, p.gg, p.off, tile, item)
      PROVE  \E r \in RA, q \in RB : IsWritten(p, tile, item, s, r, q)
  <2>1. PICK t \in RA \X RB : kept(t) /\ s = one(t)
    BY <1>1
  <2>2. t = <<t[1], t[2]>> /\ t[1] \in RA /\ t[2] \in RB
    OBVIOUS
  <2> DEFINE r == t[1]
             q == t[2]
  <2>3. r \in RA /\ q \in RB /\ t = <<r, q>>
    BY <2>2
  <2> HIDE DEF RA, RB, r, q
  <2>4. IsWritten(p, tile, item, s, r, q)
    BY <1>2, <2>1, <2>3 DEF IsWritten
  <2> QED BY <2>3, <2>4
<1>4. ASSUME NEW r \in RA, NEW q \in RB,
             InTile(p, tile, RowPlace(p, tile, item, "A", r), RowPlace(p, tile, item, "B", q))
      PROVE  WrittenOf(p, tile, item, r, q) \in FinalWrites(p.hp, p.gg, p.off, tile, item)
  <2>1. <<r, q>> \in RA \X RB /\ kept(<<r, q>>) /\ one(<<r, q>>) = WrittenOf(p, tile, item, r, q)
    BY <1>2, <1>4
  <2> HIDE DEF RA, RB
  <2> QED BY <1>1, <2>1
<1> QED BY <1>3, <1>4

(* Every element of C in a tile is written, by one item of the group, once. *)
THEOREM WritersOfTile ==
  ASSUME NEW p, IsProblem(p), Derivable(p.hp, p.gg), NEW tile, IsTile(p, tile),
         NEW cell \in Cells(p), InTile(p, tile, cell[1], cell[2])
  PROVE  /\ \E item \in 0 .. WorkItems(p.hp) - 1, r \in RegisterRows(p.hp, "A"), q \in RegisterRows(p.hp, "B") :
              CellOf(p, tile, item, r, q) = cell
         /\ \A i, j \in 0 .. WorkItems(p.hp) - 1, r, s \in RegisterRows(p.hp, "A"),
               q, t \in RegisterRows(p.hp, "B") :
              CellOf(p, tile, i, r, q) = cell /\ CellOf(p, tile, j, s, t) = cell => i = j /\ r = s /\ q = t
<1>a. "A" \in Chiral /\ "B" \in Chiral
  BY DEF Chiral
<1>b. cell = <<cell[1], cell[2]>> /\ cell[1] \in 0 .. p.gg.m - 1 /\ cell[2] \in 0 .. p.gg.n - 1
  BY DEF Cells
<1>1. \E item \in 0 .. WorkItems(p.hp) - 1, r \in RegisterRows(p.hp, "A"), q \in RegisterRows(p.hp, "B") :
        CellOf(p, tile, item, r, q) = cell
  <2>1. PICK e \in 0 .. MacroTile(p.hp, "A") - 1 : cell[1] = TileAt(p, tile, "A") + e
    <3>1. cell[1] \in 0 .. NonKDim(p.gg, "A") - 1 /\ tile["A"] = cell[1] \div MacroTile(p.hp, "A")
      BY <1>b DEF NonKDim, InTile
    <3> QED BY <1>a, <3>1, TileOfPlace
  <2>2. PICK f \in 0 .. MacroTile(p.hp, "B") - 1 : cell[2] = TileAt(p, tile, "B") + f
    <3>1. cell[2] \in 0 .. NonKDim(p.gg, "B") - 1 /\ tile["B"] = cell[2] \div MacroTile(p.hp, "B")
      BY <1>b DEF NonKDim, InTile
    <3> QED BY <1>a, <3>1, TileOfPlace
  <2>3. PICK a \in 0 .. MacroGrid(p.hp)["A"] - 1, r \in RegisterRows(p.hp, "A") : RowAt(p, "A", a, r) = e
    BY <1>a, RowsOfTile
  <2>4. PICK b \in 0 .. MacroGrid(p.hp)["B"] - 1, q \in RegisterRows(p.hp, "B") : RowAt(p, "B", b, q) = f
    BY <1>a, RowsOfTile
  <2>5. PICK item \in 0 .. WorkItems(p.hp) - 1 : MicroId(p.hp, item)["A"] = a /\ MicroId(p.hp, item)["B"] = b
    BY ItemsOfGrid
  <2>6. RowPlace(p, tile, item, "A", r) = cell[1] /\ RowPlace(p, tile, item, "B", q) = cell[2]
    BY <2>1, <2>2, <2>3, <2>4, <2>5 DEF RowPlace
  <2>7. CellOf(p, tile, item, r, q) = cell
    BY <1>b, <2>6 DEF CellOf
  <2> QED BY <2>7
<1>2. ASSUME NEW i \in 0 .. WorkItems(p.hp) - 1, NEW j \in 0 .. WorkItems(p.hp) - 1,
             NEW r \in RegisterRows(p.hp, "A"), NEW s \in RegisterRows(p.hp, "A"),
             NEW q \in RegisterRows(p.hp, "B"), NEW t \in RegisterRows(p.hp, "B"),
             CellOf(p, tile, i, r, q) = cell, CellOf(p, tile, j, s, t) = cell
      PROVE  i = j /\ r = s /\ q = t
  <2> DEFINE a == MicroId(p.hp, i)["A"]
             b == MicroId(p.hp, i)["B"]
             c == MicroId(p.hp, j)["A"]
             d == MicroId(p.hp, j)["B"]
  <2>1. /\ a \in 0 .. MacroGrid(p.hp)["A"] - 1 /\ c \in 0 .. MacroGrid(p.hp)["A"] - 1
        /\ b \in 0 .. MacroGrid(p.hp)["B"] - 1 /\ d \in 0 .. MacroGrid(p.hp)["B"] - 1
    BY <1>a, ItemsOfGrid
  <2>2. /\ TileAt(p, tile, "A") + RowAt(p, "A", a, r) = TileAt(p, tile, "A") + RowAt(p, "A", c, s)
        /\ TileAt(p, tile, "B") + RowAt(p, "B", b, q) = TileAt(p, tile, "B") + RowAt(p, "B", d, t)
    BY <1>2 DEF CellOf, RowPlace
  <2>3. a = c /\ b = d => i = j
    BY ItemsOfGrid
  <2> HIDE DEF a, b, c, d
  <2>4. /\ RowAt(p, "A", a, r) \in 0 .. MacroTile(p.hp, "A") - 1 /\ RowAt(p, "A", c, s) \in 0 .. MacroTile(p.hp, "A") - 1
        /\ RowAt(p, "B", b, q) \in 0 .. MacroTile(p.hp, "B") - 1 /\ RowAt(p, "B", d, t) \in 0 .. MacroTile(p.hp, "B") - 1
    BY <1>a, <2>1, RowsOfItem
  <2>5. TileAt(p, tile, "A") \in Int /\ TileAt(p, tile, "B") \in Int
    <3>1. tile["A"] \in 0 .. NGroups(p.hp, p.gg, "A") - 1 /\ tile["B"] \in 0 .. NGroups(p.hp, p.gg, "B") - 1
      BY <1>a DEF IsTile
    <3> QED BY <1>a, <2>4, <3>1, PlacesOfTile
  <2>6. RowAt(p, "A", a, r) = RowAt(p, "A", c, s) /\ RowAt(p, "B", b, q) = RowAt(p, "B", d, t)
    <3>1. \A u \in Int, e \in Int, f \in Int : u + e = u + f => e = f
      OBVIOUS
    <3>2. \A n : \A e \in 0 .. n : e \in Int
      OBVIOUS
    <3> QED BY <2>2, <2>4, <2>5, <3>1, <3>2
  <2>7. a = c /\ r = s
    BY <1>a, <2>1, <2>6, RowsApart
  <2>8. b = d /\ q = t
    BY <1>a, <2>1, <2>6, RowsApart
  <2> QED BY <2>3, <2>7, <2>8
<1> QED BY <1>1, <1>2

(* What two digits make can be divided into them again.                    *)
LEMMA OfDigits ==
  ASSUME NEW n \in Nat, NEW q \in Nat, NEW y \in 0 .. n - 1, NEW z \in 0 .. q - 1
  PROVE  n * z + y \in 0 .. n * q - 1 /\ (n * z + y) % n = y /\ (n * z + y) \div n = z
<1>1. n * z + y \in 0 .. n * q - 1
  BY Blocked
<1>2. z \in Int /\ y \in Int /\ 0 <= y /\ y < n
  OBVIOUS
<1>3. (n * z + y) % n = y /\ (n * z + y) \div n = z
  BY <1>2, DivUnique
<1> QED BY <1>1, <1>3

(* Some item loads each vector of each step of an unroll.                  *)
LEMMA VectorsAreLoaded ==
  ASSUME NEW p, IsProblem(p), Derivable(p.hp, p.gg), NEW x \in Chiral,
         NEW d \in 0 .. p.hp["C"]["UNR"] - 1, NEW f \in 0 .. (MacroTile(p.hp, x) \div p.hp[x]["VEW"]) - 1
  PROVE  \E item \in 0 .. WorkItems(p.hp) - 1, i \in LoadPll(p.hp, x), j \in LoadPerp(p.hp, x) :
           LoadOffset(p.hp, x, item).pll + i = d /\ LoadOffset(p.hp, x, item).perpV + j = f
<1> DEFINE t == MicroTile(p.hp, x)
           TH == MacroTile(p.hp, x)
           TW == p.hp["C"]["UNR"]
           v == p.hp[x]["VEW"]
           h == t[1]
           b == t[2]
           n == TW \div b
           q == TH \div h
           a == h \div v
           o(item) == LoadOffset(p.hp, x, item)
<1>1. /\ h \in Nat /\ h > 0 /\ TH % h = 0 /\ b \in Nat /\ b > 0 /\ TW % b = 0
      /\ WorkItems(p.hp) = q * n
  BY LoadTile
<1>2. TH \in Nat /\ TH > 0 /\ TW \in Nat /\ TW > 0 /\ v \in Nat /\ v > 0
  BY DerivableParts, Tiled, ProblemParts
<1>3. h % v = 0
  <2>1. CASE v = 1
    <3>1. 1 * h = h
      BY <1>1, Products
    <3>2. (1 * h) % 1 = 0
      BY <1>1, DivExact
    <3> QED BY <2>1, <3>1, <3>2
  <2>2. CASE v # 1
    BY <2>2, DerivableParts DEF Vectorizable
  <2> QED BY <2>1, <2>2
<1>4. \A item : o(item) = IF p.hp[x]["LIW"] = 0 THEN [pll |-> b * (item % n), perpV |-> a * (item \div n)]
                          ELSE [pll |-> item % n, perpV |-> item \div n]
  BY DEF LoadOffset, MicroTilesPllUnroll
<1>5. LoadPll(p.hp, x) = IF p.hp[x]["LIW"] = 0 THEN 0 .. b - 1 ELSE EveryUpTo(TW, n)
  BY DEF LoadPll
<1>6. LoadPerp(p.hp, x) = IF p.hp[x]["LIW"] = 0 THEN 0 .. a - 1 ELSE EveryUpTo(TH \div v, q)
  BY DEF LoadPerp
<1>d. d \in 0 .. TW - 1 /\ f \in 0 .. (TH \div v) - 1
  OBVIOUS
<1> HIDE DEF t, TH, TW, v, h, b, o
<1>7. n \in Nat /\ TW = b * n /\ n > 0 /\ q \in Nat /\ TH = h * q /\ q > 0 /\ a \in Nat /\ h = v * a
  BY <1>1, <1>2, <1>3, NoRest
<1> HIDE DEF n, q, a
<1>a. a > 0
  BY <1>1, <1>2, <1>7, Products
<1>8. TH \div v = a * q
  <2>1. TH = v * (a * q) /\ a * q \in Int
    BY <1>2, <1>7, Products
  <2> QED BY <1>2, <2>1, DivExact
<1>9. q * n = n * q /\ n * b = b * n /\ q * a = a * q
  BY <1>1, <1>7, Products
<1>10. CASE p.hp[x]["LIW"] = 0
  <2> DEFINE i == d % b
             j == f % a
             y == d \div b
             z == f \div a
             item == n * z + y
  <2>1. /\ i \in 0 .. b - 1 /\ y \in 0 .. n - 1 /\ d = b * y + i
        /\ j \in 0 .. a - 1 /\ z \in 0 .. q - 1 /\ f = a * z + j
    <3>1. d \in 0 .. b * n - 1 /\ f \in 0 .. a * q - 1 /\ d \in Int /\ f \in Int
      BY <1>d, <1>7, <1>8
    <3> QED BY <1>1, <1>7, <1>a, <3>1, TwoDigits, DivMod
  <2> HIDE DEF i, j, y, z
  <2>2. item \in 0 .. WorkItems(p.hp) - 1 /\ item % n = y /\ item \div n = z
    <3>1. n \in Nat /\ q \in Nat /\ y \in 0 .. n - 1 /\ z \in 0 .. q - 1
      BY <1>7, <2>1
    <3>2. n * z + y \in 0 .. n * q - 1 /\ (n * z + y) % n = y /\ (n * z + y) \div n = z
      BY ONLY <3>1, OfDigits
    <3> QED BY ONLY <1>1, <1>9, <3>2 DEF item
  <2>3. o(item).pll = b * y /\ o(item).perpV = a * z
    BY <1>4, <1>10, <2>2
  <2>4. i \in LoadPll(p.hp, x) /\ j \in LoadPerp(p.hp, x)
    BY <1>5, <1>6, <1>10, <2>1
  <2> HIDE DEF item
  <2> QED BY <2>1, <2>2, <2>3, <2>4 DEF o
<1>11. CASE p.hp[x]["LIW"] # 0
  <2> DEFINE y == d % n
             z == f % q
             i == n * (d \div n)
             j == q * (f \div q)
             item == n * z + y
  <2>0. d \in 0 .. n * b - 1 /\ f \in 0 .. q * a - 1 /\ d \in Int /\ f \in Int
    BY <1>d, <1>7, <1>8, <1>9
  <2>1. /\ y \in 0 .. n - 1 /\ d \div n \in 0 .. b - 1 /\ d = i + y
        /\ z \in 0 .. q - 1 /\ f \div q \in 0 .. a - 1 /\ f = j + z
    BY <1>1, <1>7, <1>a, <2>0, TwoDigits, DivMod
  <2>2. i \in 0 .. TW - 1 /\ i % n = 0 /\ j \in 0 .. (TH \div v) - 1 /\ j % q = 0
    <3>1. i % n = 0 /\ j % q = 0
      <4>1. d \div n \in Int /\ f \div q \in Int
        BY <2>1
      <4> QED BY ONLY <1>7, <4>1, DivExact
    <3>2. i \in Nat /\ j \in Nat
      BY <1>7, <2>1, Products
    <3> DEFINE lim == TH \div v
    <3>3. d \in 0 .. TW - 1 /\ f \in 0 .. lim - 1 /\ y \in Nat /\ z \in Nat /\ d = i + y /\ f = j + z
          /\ TW \in Int /\ lim \in Int
      <4>1. lim \in Int
        BY <1>2, DivMod
      <4> HIDE DEF lim
      <4> QED BY <1>2, <1>d, <2>1, <4>1 DEF lim
    <3> HIDE DEF i, j, y, z, lim
    <3>4. i \in 0 .. TW - 1 /\ j \in 0 .. lim - 1
      BY <3>2, <3>3
    <3> QED BY <3>1, <3>4 DEF lim
  <2> HIDE DEF y, z, i, j
  <2>3. item \in 0 .. WorkItems(p.hp) - 1 /\ item % n = y /\ item \div n = z
    <3>1. n \in Nat /\ q \in Nat /\ y \in 0 .. n - 1 /\ z \in 0 .. q - 1
      BY <1>7, <2>1
    <3>2. n * z + y \in 0 .. n * q - 1 /\ (n * z + y) % n = y /\ (n * z + y) \div n = z
      BY ONLY <3>1, OfDigits
    <3> QED BY ONLY <1>1, <1>9, <3>2 DEF item
  <2>4. o(item).pll = y /\ o(item).perpV = z
    BY <1>4, <1>11, <2>3
  <2>5. i \in LoadPll(p.hp, x) /\ j \in LoadPerp(p.hp, x)
    BY <1>5, <1>6, <1>11, <2>2 DEF EveryUpTo
  <2>6. y + i = d /\ z + j = f
    BY <2>1, <2>2
  <2> HIDE DEF item
  <2> QED BY <2>3, <2>4, <2>5, <2>6 DEF o
<1> QED BY <1>10, <1>11

(* Some item loads what is at a depth and so far across the tile.          *)
IsLoaded(p, tile, z, n, x, d, e) ==
  \E item \in 0 .. WorkItems(p.hp) - 1 : \E s \in Loads(p.hp, p.gg, p.off, tile, z, item, x, n) :
    s.depth = d /\ s.to = PaddedTile(p.hp, x) * d + e

(* Between them the items load all of the tile, in each step of an unroll. *)
THEOREM LoadsCover ==
  ASSUME NEW p, IsProblem(p), Derivable(p.hp, p.gg), NEW x \in Chiral, NEW tile, NEW z, NEW n,
         NEW d \in 0 .. p.hp["C"]["UNR"] - 1, NEW e \in 0 .. MacroTile(p.hp, x) - 1
  PROVE  IsLoaded(p, tile, z, n, x, d, e)
<1> DEFINE v == p.hp[x]["VEW"]
           along == Stride(p.hp, p.gg, x, TRUE, FALSE, p.hp[x]["WOS"])
           across == Stride(p.hp, p.gg, x, FALSE, FALSE, p.hp[x]["WOS"])
           o(item) == LoadOffset(p.hp, x, item)
           row == PaddedTile(p.hp, x) \div v
           origin == IF Packed(p.hp, x) THEN p.off["W"] + CwGlobalOffset(p.hp, p.gg, x) ELSE p.off[x]
           start(item) ==
             origin + ReadStart(p.hp, p.gg, tile, x) * Stride(p.hp, p.gg, x, FALSE, TRUE, p.hp[x]["WOS"])
             + (KStart(p.hp, p.gg, tile, z) + o(item).pll) * along
             + v * (across * o(item).perpV + n * ((along * Jump(p.hp)) \div v))
           load(item, i, j, lane) ==
             [to |-> v * (row * (o(item).pll + i) + o(item).perpV + j) + lane,
              from |-> start(item) + v * ((i * along + v * j * across) \div v) + lane,
              depth |-> o(item).pll + i]
<1>1. \A item : Loads(p.hp, p.gg, p.off, tile, z, item, x, n) =
        {load(item, i, j, lane) : i \in LoadPll(p.hp, x), j \in LoadPerp(p.hp, x), lane \in 0 .. v - 1}
  BY DEF Loads
<1>2. /\ v \in Nat /\ v > 0 /\ row \in Nat /\ v * row = PaddedTile(p.hp, x)
      /\ MacroTile(p.hp, x) = v * (MacroTile(p.hp, x) \div v) /\ MacroTile(p.hp, x) \div v \in Nat
  <2> DEFINE gq == MacroGrid(p.hp)[x] * (p.hp[x]["MIC"] \div v)
  <2>1. /\ v \in Nat /\ v > 0 /\ row \in Nat /\ v * row = PaddedTile(p.hp, x)
        /\ MacroTile(p.hp, x) = v * gq /\ MacroTile(p.hp, x) \div v = gq /\ gq \in Nat
    <3>1. MacroGrid(p.hp)[x] \in Nat /\ p.hp[x]["MIC"] \div v \in Nat
      BY VectorsInTile
    <3>2. gq \in Nat
      BY <3>1, Products
    <3> QED BY <3>2, VectorsInTile
  <2> QED BY <2>1
<1> DEFINE f == e \div v
           lane == e % v
           len == MacroTile(p.hp, x) \div v
<1>3. f \in 0 .. len - 1 /\ lane \in 0 .. v - 1 /\ e = v * f + lane
  <2>1. e \in 0 .. v * len - 1 /\ e \in Int /\ len \in Nat
    BY <1>2
  <2> HIDE DEF v, len
  <2> QED BY <1>2, <2>1, TwoDigits, DivMod
<1> HIDE DEF f, lane
<1>4. PICK item \in 0 .. WorkItems(p.hp) - 1, i \in LoadPll(p.hp, x), j \in LoadPerp(p.hp, x) :
        o(item).pll + i = d /\ o(item).perpV + j = f
  BY <1>3, VectorsAreLoaded
<1> DEFINE s == load(item, i, j, lane)
<1>5. s.depth = d /\ s.to = v * (row * d + o(item).perpV + j) + lane
  BY <1>4
<1>6. s \in Loads(p.hp, p.gg, p.off, tile, z, item, x, n)
  <2> HIDE DEF load
  <2> QED BY <1>1, <1>3
<1>7. v * (row * d + o(item).perpV + j) + lane = PaddedTile(p.hp, x) * d + e
  <2>1. o(item).perpV \in Nat /\ j \in Nat
    BY LoadInTile
  <2> HIDE DEF v, row, o
  <2>2. d \in Int /\ row * d \in Int
    BY <1>2, Products
  <2>3. row * d + o(item).perpV + j = row * d + f
    BY <1>4, <2>1, <2>2
  <2>4. v * (row * d + f) = v * (row * d) + v * f /\ v * (row * d) = (v * row) * d
    BY <1>2, <1>3, <2>2, Products
  <2>5. v * (row * d) \in Int /\ v * f \in Int
    BY <1>2, <1>3, <2>2, Products
  <2> QED BY <1>2, <1>3, <2>3, <2>4, <2>5
<1> HIDE DEF s
<1>8. \E r \in Loads(p.hp, p.gg, p.off, tile, z, item, x, n) :
        r.depth = d /\ r.to = PaddedTile(p.hp, x) * d + e
  BY <1>5, <1>6, <1>7
<1> QED BY <1>8 DEF IsLoaded

(* The unrolls of a tile are numbered; group z has so many of them, and    *)
(* its n-th is this one.                                                   *)
Dealt(q, more, z) == q + (IF z < more THEN 1 ELSE 0)

Nth(ice, q, more, woven, z, n) ==
  IF woven THEN ice * n + z ELSE q * z + (IF z < more THEN z ELSE more) + n

(* Each unroll is dealt out, to one group and once.                        *)
DealtOnce(ice, q, more, woven) ==
  /\ \A z \in 0 .. ice - 1 : \A n \in 0 .. Dealt(q, more, z) - 1 :
       Nth(ice, q, more, woven, z, n) \in 0 .. ice * q + more - 1
  /\ \A i \in 0 .. ice * q + more - 1 : \E z \in 0 .. ice - 1 : \E n \in 0 .. Dealt(q, more, z) - 1 :
       Nth(ice, q, more, woven, z, n) = i
  /\ \A y, z \in 0 .. ice - 1 : \A m \in 0 .. Dealt(q, more, y) - 1, n \in 0 .. Dealt(q, more, z) - 1 :
       Nth(ice, q, more, woven, y, m) = Nth(ice, q, more, woven, z, n) => y = z /\ m = n

(* Dealt out in turns, each unroll is some group's, and nobody else's.     *)
LEMMA DealtInTurns ==
  ASSUME NEW ice \in Nat, NEW q \in Nat, NEW more \in 0 .. ice - 1
  PROVE  DealtOnce(ice, q, more, TRUE)
<1>1. ASSUME NEW z \in 0 .. ice - 1, NEW n \in 0 .. Dealt(q, more, z) - 1
      PROVE  ice * n + z \in 0 .. ice * q + more - 1
  <2>1. n \in Nat /\ (n <= q - 1 \/ (n = q /\ z < more))
    BY DEF Dealt
  <2>2. ice * n \in Nat /\ ice * q \in Nat
    BY <2>1, Products
  <2>3. CASE n <= q - 1
    <3>1. ice * (n + 1) <= ice * q /\ ice * (n + 1) = ice * n + ice * 1 /\ ice * 1 = ice
      BY <2>1, <2>3, Products, ProductsGrow
    <3> QED BY <2>1, <2>2, <3>1
  <2>4. CASE n = q /\ z < more
    BY <2>1, <2>2, <2>4
  <2> QED BY <2>1, <2>3, <2>4
<1>2. ASSUME NEW i \in 0 .. ice * q + more - 1
      PROVE  \E z \in 0 .. ice - 1 : \E n \in 0 .. Dealt(q, more, z) - 1 : ice * n + z = i
  <2> DEFINE z == i % ice
             n == i \div ice
  <2>1. ice * q \in Nat /\ ice > 0
    BY Products
  <2>2. i \in Nat /\ i < ice * q + more
    BY <2>1
  <2>3. n \in Nat /\ z \in 0 .. ice - 1 /\ i = ice * n + z
    BY <2>1, <2>2, DivMod
  <2> HIDE DEF n, z
  <2>4. ice * n \in Nat
    BY <2>3, Products
  <2>5. n <= q
    <3>1. ice * n < ice * (q + 1)
      <4>1. ice * (q + 1) = ice * q + ice * 1 /\ ice * 1 = ice
        BY Products
      <4> QED BY <2>1, <2>2, <2>3, <2>4, <4>1
    <3>2. n < q + 1
      BY <2>1, <2>3, <3>1, ProductsGrow
    <3> QED BY <2>3, <3>2
  <2>6. n = q => z < more
    BY <2>1, <2>2, <2>3
  <2>7. n \in 0 .. Dealt(q, more, z) - 1
    BY <2>3, <2>5, <2>6 DEF Dealt
  <2> QED BY <2>3, <2>7
<1>3. ASSUME NEW y \in 0 .. ice - 1, NEW z \in 0 .. ice - 1, NEW m \in Nat, NEW n \in Nat,
             ice * m + y = ice * n + z
      PROVE  y = z /\ m = n
  BY <1>3, Digits
<1>4. \A z, n : Nth(ice, q, more, TRUE, z, n) = ice * n + z
  BY DEF Nth
<1>5. \A z : \A n \in 0 .. Dealt(q, more, z) - 1 : n \in Nat
  BY DEF Dealt
<1>6. \A z \in 0 .. ice - 1 : \A n \in 0 .. Dealt(q, more, z) - 1 :
        Nth(ice, q, more, TRUE, z, n) \in 0 .. ice * q + more - 1
  BY <1>1, <1>4
<1>7. \A i \in 0 .. ice * q + more - 1 : \E z \in 0 .. ice - 1 : \E n \in 0 .. Dealt(q, more, z) - 1 :
        Nth(ice, q, more, TRUE, z, n) = i
  BY <1>2, <1>4
<1>8. ASSUME NEW y \in 0 .. ice - 1, NEW z \in 0 .. ice - 1,
             NEW m \in 0 .. Dealt(q, more, y) - 1, NEW n \in 0 .. Dealt(q, more, z) - 1,
             Nth(ice, q, more, TRUE, y, m) = Nth(ice, q, more, TRUE, z, n)
      PROVE  y = z /\ m = n
  <2>1. m \in Nat /\ n \in Nat /\ ice * m + y = ice * n + z
    BY <1>4, <1>5, <1>8
  <2> QED BY <1>3, <2>1
<1> QED BY <1>6, <1>7, <1>8 DEF DealtOnce

(* The same of unrolls that are dealt out one after the other.             *)
LEMMA DealtInARow ==
  ASSUME NEW ice \in Nat, NEW q \in Nat, NEW more \in 0 .. ice - 1
  PROVE  DealtOnce(ice, q, more, FALSE)
<1> DEFINE u == (q + 1) * more
           iq == ice * q
           qm == q * more
           early(z, n) == (q + 1) * z + n
           late(z, n) == q * z + n
           nth(z, n) == Nth(ice, q, more, FALSE, z, n)
           IsEarly(z, n) == nth(z, n) = early(z, n) /\ n \in 0 .. q /\ early(z, n) \in 0 .. u - 1
           IsLate(z, n) == nth(z, n) = late(z, n) + more /\ n \in 0 .. q - 1 /\ late(z, n) \in qm .. iq - 1
<1>1. iq \in Nat /\ q * ice = iq /\ qm \in Nat /\ u \in Nat /\ u = qm + more /\ qm <= iq
  <2>1. (q + 1) * more = more * (q + 1) /\ more * (q + 1) = more * q + more * 1 /\ more * 1 = more
        /\ more * q = q * more /\ q * more \in Int /\ q * more >= 0
    BY Products
  <2>2. ice * q \in Nat /\ q * ice = ice * q
    BY Products
  <2>3. q * more <= q * ice
    BY ProductsGrow
  <2> HIDE DEF u, iq, qm
  <2> QED BY <2>1, <2>2, <2>3 DEF u, iq, qm
<1> HIDE DEF iq, u, qm, early, late, nth, IsEarly, IsLate
<1>2. ASSUME NEW z \in 0 .. ice - 1, NEW n \in 0 .. Dealt(q, more, z) - 1
      PROVE  IF z < more THEN IsEarly(z, n) ELSE IsLate(z, n)
  <2> DEFINE qz == q * z
  <2>1. qz \in Nat /\ (q + 1) * z = qz + z
    <3>1. (q + 1) * z = z * (q + 1) /\ z * (q + 1) = z * q + z * 1 /\ z * 1 = z /\ z * q = q * z /\ q * z \in Int
          /\ q * z >= 0
      BY Products
    <3> QED BY <3>1
  <2>2. CASE z < more
    <3>1. n \in 0 .. q
      BY <2>2 DEF Dealt
    <3>2. (q + 1) * z + n \in 0 .. (q + 1) * more - 1
      <4>1. q + 1 \in Nat /\ z \in 0 .. more - 1 /\ n \in 0 .. (q + 1) - 1
        BY <2>2, <3>1
      <4> QED BY <4>1, Blocked
    <3>3. nth(z, n) = qz + z + n
      BY <2>2 DEF Nth, nth
    <3> HIDE DEF qz
    <3>4. nth(z, n) = early(z, n)
      BY <2>1, <3>1, <3>3 DEF early
    <3>5. early(z, n) \in 0 .. u - 1
      BY <3>2 DEF early, u
    <3> QED BY <2>2, <3>1, <3>4, <3>5 DEF IsEarly
  <2>3. CASE ~(z < more)
    <3>1. n \in 0 .. q - 1
      BY <2>3 DEF Dealt
    <3>2. qz + n \in 0 .. q * ice - 1
      BY <3>1, Blocked
    <3>3. qm <= qz
      BY <2>3, ProductsGrow DEF qm
    <3>4. nth(z, n) = qz + more + n
      BY <2>3 DEF Nth, nth
    <3> HIDE DEF qz
    <3>5. qz + n \in qm .. iq - 1 /\ nth(z, n) = (qz + n) + more
      BY <1>1, <2>1, <3>1, <3>2, <3>3, <3>4
    <3>6. late(z, n) = qz + n
      BY DEF late, qz
    <3> QED BY <2>3, <3>1, <3>5, <3>6 DEF IsLate
  <2> QED BY <2>2, <2>3
<1>3. ASSUME NEW z \in 0 .. ice - 1, NEW n \in 0 .. Dealt(q, more, z) - 1
      PROVE  nth(z, n) \in 0 .. iq + more - 1
  <2>1. CASE z < more
    <3>1. nth(z, n) \in 0 .. u - 1
      BY <1>2, <2>1 DEF IsEarly
    <3> QED BY <1>1, <3>1
  <2>2. CASE ~(z < more)
    <3>1. late(z, n) \in qm .. iq - 1 /\ nth(z, n) = late(z, n) + more
      BY <1>2, <2>2 DEF IsLate
    <3> QED BY <1>1, <3>1
  <2> QED BY <2>1, <2>2
<1>4. ASSUME NEW i \in 0 .. iq + more - 1
      PROVE  \E z \in 0 .. ice - 1 : \E n \in 0 .. Dealt(q, more, z) - 1 : nth(z, n) = i
  <2>0. i \in Nat /\ i < iq + more
    BY <1>1
  <2>1. CASE i < u
    <3> DEFINE z == i \div (q + 1)
               n == i % (q + 1)
    <3>1. i \in 0 .. (q + 1) * more - 1 /\ q + 1 \in Nat /\ q + 1 > 0
      BY <1>1, <2>0, <2>1 DEF u
    <3>2. z \in 0 .. more - 1 /\ n \in 0 .. (q + 1) - 1 /\ i = early(z, n)
      <4> DEFINE b == q + 1
      <4>1. b \in Nat /\ b > 0 /\ i \in 0 .. b * more - 1 /\ i \in Int /\ more \in Nat
        BY <2>0, <3>1
      <4> HIDE DEF b
      <4>2. i \div b \in 0 .. more - 1 /\ i % b \in 0 .. b - 1 /\ i = b * (i \div b) + (i % b)
        BY <4>1, TwoDigits, DivMod
      <4> QED BY <4>2 DEF b, early
    <3> HIDE DEF z, n
    <3>3. z \in 0 .. ice - 1 /\ z < more /\ n \in 0 .. Dealt(q, more, z) - 1
      BY <3>2 DEF Dealt
    <3>4. IsEarly(z, n)
      BY <1>2, <3>3
    <3> QED BY <3>2, <3>3, <3>4 DEF IsEarly
  <2>2. CASE ~(i < u)
    <3> DEFINE j == i - more
               z == j \div q
               n == j % q
    <3>1. j \in 0 .. q * ice - 1 /\ j >= qm /\ j \in Int /\ i = j + more
      BY <1>1, <2>0, <2>2
    <3> HIDE DEF j
    <3>2. q > 0 /\ z \in 0 .. ice - 1 /\ n \in 0 .. q - 1 /\ j = q * z + n
      BY <3>1, TwoDigits, DivMod
    <3> HIDE DEF z, n
    <3>3. z >= more
      <4>1. qm < q * (z + 1)
        <5>1. q * (z + 1) = q * z + q * 1 /\ q * 1 = q /\ q * z \in Int
          BY <3>2, Products
        <5> QED BY <1>1, <3>1, <3>2, <5>1
      <4>2. more < z + 1
        BY <3>2, <4>1, ProductsGrow DEF qm
      <4> QED BY <3>2, <4>2
    <3>4. n \in 0 .. Dealt(q, more, z) - 1 /\ ~(z < more)
      BY <3>2, <3>3 DEF Dealt
    <3>5. IsLate(z, n)
      BY <1>2, <3>2, <3>4
    <3>6. nth(z, n) = j + more
      BY <3>2, <3>5 DEF IsLate, late
    <3> QED BY <3>1, <3>2, <3>4, <3>6
  <2> QED BY <2>1, <2>2
<1>5. ASSUME NEW y \in 0 .. ice - 1, NEW z \in 0 .. ice - 1,
             NEW m \in 0 .. Dealt(q, more, y) - 1, NEW n \in 0 .. Dealt(q, more, z) - 1,
             nth(y, m) = nth(z, n)
      PROVE  y = z /\ m = n
  <2>1. CASE y < more /\ z < more
    <3>1. early(y, m) = early(z, n) /\ m \in 0 .. (q + 1) - 1 /\ n \in 0 .. (q + 1) - 1 /\ q + 1 \in Nat
      <4>1. IsEarly(y, m) /\ IsEarly(z, n)
        BY <1>2, <2>1
      <4>2. early(y, m) = early(z, n) /\ m \in 0 .. q /\ n \in 0 .. q
        BY <1>1, <1>5, <4>1 DEF IsEarly
      <4> QED BY <4>2
    <3>2. y \in Int /\ z \in Int /\ (q + 1) * y + m = (q + 1) * z + n
      BY <3>1 DEF early
    <3> QED BY <3>1, <3>2, Digits
  <2>2. CASE ~(y < more) /\ ~(z < more)
    <3>1. IsLate(y, m) /\ IsLate(z, n)
      BY <1>2, <2>2
    <3>2. late(y, m) + more = late(z, n) + more /\ m \in 0 .. q - 1 /\ n \in 0 .. q - 1
          /\ late(y, m) \in Int /\ late(z, n) \in Int
      <4>1. nth(y, m) = late(y, m) + more /\ m \in 0 .. q - 1 /\ late(y, m) \in qm .. iq - 1
        BY <3>1 DEF IsLate
      <4>2. nth(z, n) = late(z, n) + more /\ n \in 0 .. q - 1 /\ late(z, n) \in qm .. iq - 1
        BY <3>1 DEF IsLate
      <4>3. late(y, m) + more = late(z, n) + more
        BY <1>5, <4>1, <4>2
      <4>4. late(y, m) \in Int
        BY <1>1, <4>1
      <4>5. late(z, n) \in Int
        BY <1>1, <4>2
      <4> QED BY <4>1, <4>2, <4>3, <4>4, <4>5
    <3>3. late(y, m) = late(z, n)
      BY <3>2
    <3>4. y \in Int /\ z \in Int /\ q * y + m = q * z + n
      BY <3>3 DEF late
    <3> QED BY <3>2, <3>4, Digits
  <2>3. \A a, b \in 0 .. ice - 1 : \A f \in 0 .. Dealt(q, more, a) - 1, h \in 0 .. Dealt(q, more, b) - 1 :
          a < more /\ ~(b < more) => nth(a, f) # nth(b, h)
    <3> SUFFICES ASSUME NEW a \in 0 .. ice - 1, NEW b \in 0 .. ice - 1,
                        NEW f \in 0 .. Dealt(q, more, a) - 1, NEW h \in 0 .. Dealt(q, more, b) - 1,
                        a < more, ~(b < more)
                 PROVE  nth(a, f) # nth(b, h)
      OBVIOUS
    <3>1. IsEarly(a, f) /\ IsLate(b, h)
      BY <1>2
    <3>2. nth(a, f) \in 0 .. u - 1 /\ nth(b, h) = late(b, h) + more /\ late(b, h) \in qm .. iq - 1
      BY <3>1 DEF IsEarly, IsLate
    <3> QED BY <1>1, <3>2
  <2> QED BY <1>5, <2>1, <2>2, <2>3
<1> QED BY <1>3, <1>4, <1>5 DEF DealtOnce, nth, iq

(* After the unrolls that are whole comes the rest of the summation.       *)
LEMMA RestComesLast ==
  ASSUME NEW ice \in Nat, NEW q \in Nat, NEW more \in 0 .. ice - 1, NEW woven \in BOOLEAN,
         NEW z, z = IF woven THEN more ELSE ice - 1
  PROVE  Nth(ice, q, more, woven, z, Dealt(q, more, z)) = ice * q + more
<1>1. CASE woven
  <2>1. Dealt(q, more, z) = q
    BY <1>1 DEF Dealt
  <2> QED BY <1>1, <2>1 DEF Nth
<1>2. CASE ~woven
  <2>1. z = ice - 1 /\ ~(z < more) /\ Dealt(q, more, z) = q
    BY <1>2 DEF Dealt
  <2>2. q * (ice - 1) = q * ice - q * 1 /\ q * 1 = q /\ q * ice = ice * q /\ q * ice \in Int
    BY Products
  <2>3. Nth(ice, q, more, woven, z, Dealt(q, more, z)) = q * (ice - 1) + more + q
    BY <1>2, <2>1 DEF Nth
  <2> QED BY <2>2, <2>3
<1> QED BY <1>1, <1>2

(* The number of the n-th unroll of group z.                               *)
UnrollIndex(p, tile, z, n) ==
  Nth(p.hp["C"]["ICE"], EffectiveK(p.hp, p.gg, tile) \div GUnroll(p.hp), WorkGroupsWith1More(p.hp, p.gg, tile),
      SplitOnK(p.hp) /\ Interwoven(p.hp), z, n)

(* The unrolls that are summed in full or in part.                         *)
Unrolls(p, tile) == EffectiveK(p.hp, p.gg, tile) \div p.hp["C"]["UNR"]

HasUnroll(p, tile, z, n) ==
  \/ n < UnrollsRemaining(p.hp, p.gg, tile, z)
  \/ /\ n = UnrollsRemaining(p.hp, p.gg, tile, z) /\ HasTail(p.hp, p.gg, tile, z)
     /\ KRemaining(p.hp, p.gg, tile) > 0

(* The groups of a tile have each unroll of it once, and the rest.         *)
LEMMA UnrollsOfTile ==
  ASSUME NEW p, IsProblem(p), Derivable(p.hp, p.gg), NEW tile, tile["A"] \in Int, tile["B"] \in Int
  PROVE  /\ Unrolls(p, tile) \in Nat
         /\ \A z \in 0 .. p.hp["C"]["ICE"] - 1, n \in Nat : HasUnroll(p, tile, z, n) =>
              /\ UnrollIndex(p, tile, z, n) \in 0 .. Unrolls(p, tile)
              /\ UnrollIndex(p, tile, z, n) = Unrolls(p, tile) <=> n = UnrollsRemaining(p.hp, p.gg, tile, z)
         /\ \A i \in Nat : i < Unrolls(p, tile) \/ (i = Unrolls(p, tile) /\ KRemaining(p.hp, p.gg, tile) > 0) =>
              \E z \in 0 .. p.hp["C"]["ICE"] - 1, n \in Nat :
                HasUnroll(p, tile, z, n) /\ UnrollIndex(p, tile, z, n) = i
         /\ \A y, z \in 0 .. p.hp["C"]["ICE"] - 1, m, n \in Nat :
              /\ HasUnroll(p, tile, y, m) /\ HasUnroll(p, tile, z, n)
              /\ UnrollIndex(p, tile, y, m) = UnrollIndex(p, tile, z, n)
              => y = z /\ m = n
<1> DEFINE unr == p.hp["C"]["UNR"]
           ice == p.hp["C"]["ICE"]
           K == EffectiveK(p.hp, p.gg, tile)
           q == K \div (ice * unr)
           more == WorkGroupsWith1More(p.hp, p.gg, tile)
           R(v) == UnrollsRemaining(p.hp, p.gg, tile, v)
           rest == KRemaining(p.hp, p.gg, tile)
           woven == SplitOnK(p.hp) /\ Interwoven(p.hp)
           tail(v) == HasTail(p.hp, p.gg, tile, v)
           nth(v, u) == Nth(ice, q, more, woven, v, u)
           last == IF woven THEN more ELSE ice - 1
           U == ice * q + more
           has(v, u) == HasUnroll(p, tile, v, u)
<1>1. /\ unr \in Nat /\ unr > 0 /\ ice \in Nat /\ ice > 0 /\ K \in Nat
      /\ K = p.gg.k + UnrollOffset(p.hp, tile)
  BY ProblemParts, OffsetOfUnrolls DEF EffectiveK
<1>2. /\ q \in Nat /\ more \in 0 .. ice - 1 /\ Unrolls(p, tile) = U /\ U \in Nat
  <2>1. more = (K % (ice * unr)) \div unr
    BY DEF WorkGroupsWith1More, GUnroll
  <2>2. q \in Nat /\ more \in Nat /\ more < ice /\ K \div unr = U
    <3> HIDE DEF K, ice, unr
    <3>1. K \in Nat /\ unr \in Nat /\ unr > 0 /\ ice \in Nat /\ ice > 0
      BY <1>1
    <3> HIDE DEF more
    <3> QED BY ONLY <2>1, <3>1, UnrollsAreShared
  <2>3. U \in Nat
    <3> HIDE DEF q, more, ice, unr, K
    <3> QED BY <1>1, <2>2, Products
  <2> QED BY <1>1, <2>2, <2>3 DEF Unrolls
<1>3. SplitOnK(p.hp) <=> ice # 1
  BY DEF SplitOnK
<1>4. \A z : R(z) = IF ~SplitOnK(p.hp) THEN K \div unr ELSE Dealt(q, more, z)
  BY DEF UnrollsRemaining, GUnroll, Dealt
<1>5. rest = K % unr
  BY DEF KRemaining
<1>6. \A z \in 0 .. ice - 1 : tail(z) /\ rest > 0 <=> z = last /\ rest > 0
  <2>1. FractionalUnroll(p.hp, p.gg) <=> p.hp["C"]["UFO"] = YES \/ p.gg.k % unr # 0
    BY DEF FractionalUnroll
  <2>2. p.hp["C"]["UFO"] # YES => K = p.gg.k
    <3>1. p.gg.k \in Nat
      BY ProblemParts
    <3> QED BY <1>1, <3>1 DEF UnrollOffset
  <2>3. rest > 0 => FractionalUnroll(p.hp, p.gg)
    BY <1>5, <2>1, <2>2
  <2>4. \A z : tail(z) <=> /\ FractionalUnroll(p.hp, p.gg)
                           /\ SplitOnK(p.hp) => z = (IF Interwoven(p.hp) THEN more ELSE ice - 1) /\ rest > 0
    BY DEF HasTail
  <2> HIDE DEF rest, tail, more
  <2>5. CASE SplitOnK(p.hp)
    BY <2>3, <2>4, <2>5
  <2>6. CASE ~SplitOnK(p.hp)
    BY <1>3, <2>3, <2>4, <2>6
  <2> QED BY <2>5, <2>6
<1>7. \A z, n : has(z, n) <=> n < R(z) \/ (n = R(z) /\ tail(z) /\ rest > 0)
  BY DEF HasUnroll
<1>8. \A z, n : UnrollIndex(p, tile, z, n) = nth(z, n)
  BY DEF UnrollIndex, GUnroll
<1>9. woven \in BOOLEAN
  BY DEF SplitOnK, Interwoven
<1>10. K \div unr = U
  BY <1>2 DEF Unrolls
<1> HIDE DEF unr, ice, K, q, more, R, rest, woven, tail, has, nth, last, U
<1>11. \A z \in 0 .. ice - 1 : R(z) = Dealt(q, more, z) /\ R(z) \in Nat
  <2> SUFFICES ASSUME NEW z \in 0 .. ice - 1 PROVE R(z) = Dealt(q, more, z) /\ R(z) \in Nat
    OBVIOUS
  <2>1. Dealt(q, more, z) \in Nat
    BY <1>2 DEF Dealt
  <2>2. CASE SplitOnK(p.hp)
    BY <1>4, <2>1, <2>2
  <2>3. CASE ~SplitOnK(p.hp)
    <3>1. ice = 1 /\ more = 0 /\ z = 0
      BY <1>1, <1>2, <1>3, <2>3
    <3>2. U = q
      BY <1>2, <3>1 DEF U
    <3>3. Dealt(q, more, z) = q
      BY <1>2, <3>1 DEF Dealt
    <3> QED BY <1>4, <1>10, <2>1, <2>3, <3>2, <3>3
  <2> QED BY <2>2, <2>3
<1>12. last \in 0 .. ice - 1 /\ nth(last, R(last)) = U
  <2>1. last \in 0 .. ice - 1
    BY <1>1, <1>2 DEF last
  <2>2. Nth(ice, q, more, woven, last, Dealt(q, more, last)) = U
    BY <1>1, <1>2, <1>9, RestComesLast DEF last, U
  <2> QED BY <1>11, <2>1, <2>2 DEF nth
<1>13. /\ \A z \in 0 .. ice - 1 : \A n \in 0 .. R(z) - 1 : nth(z, n) \in 0 .. U - 1
       /\ \A i \in 0 .. U - 1 : \E z \in 0 .. ice - 1 : \E n \in 0 .. R(z) - 1 : nth(z, n) = i
       /\ \A y, z \in 0 .. ice - 1 : \A m \in 0 .. R(y) - 1, n \in 0 .. R(z) - 1 :
            nth(y, m) = nth(z, n) => y = z /\ m = n
  <2>1. DealtOnce(ice, q, more, woven)
    <3>1. ice \in Nat /\ q \in Nat /\ more \in 0 .. ice - 1
      BY <1>1, <1>2
    <3>2. CASE woven = TRUE
      BY <3>1, <3>2, DealtInTurns
    <3>3. CASE woven = FALSE
      BY <3>1, <3>3, DealtInARow
    <3> QED BY <1>9, <3>2, <3>3
  <2>0. U = ice * q + more
    BY DEF U
  <2>2. \A z \in 0 .. ice - 1 : R(z) = Dealt(q, more, z)
    BY <1>11
  <2>3. ASSUME NEW z \in 0 .. ice - 1, NEW n \in 0 .. R(z) - 1 PROVE nth(z, n) \in 0 .. U - 1
    <3>1. n \in 0 .. Dealt(q, more, z) - 1
      BY <2>2
    <3>2. Nth(ice, q, more, woven, z, n) \in 0 .. ice * q + more - 1
      BY <2>1, <3>1, Zenon DEF DealtOnce
    <3> QED BY <1>1, <1>2, <2>0, <3>2 DEF nth
  <2>4. ASSUME NEW i \in 0 .. U - 1 PROVE \E z \in 0 .. ice - 1 : \E n \in 0 .. R(z) - 1 : nth(z, n) = i
    <3>1. i \in 0 .. ice * q + more - 1
      BY <1>1, <1>2, <2>0
    <3>2. PICK z \in 0 .. ice - 1 : \E n \in 0 .. Dealt(q, more, z) - 1 : Nth(ice, q, more, woven, z, n) = i
      BY <2>1, <3>1, Zenon DEF DealtOnce
    <3>3. PICK n \in 0 .. Dealt(q, more, z) - 1 : Nth(ice, q, more, woven, z, n) = i
      BY <3>2
    <3>4. n \in 0 .. R(z) - 1 /\ nth(z, n) = i
      BY <2>2, <3>3 DEF nth
    <3> QED BY <3>4
  <2>5. ASSUME NEW y \in 0 .. ice - 1, NEW z \in 0 .. ice - 1, NEW m \in 0 .. R(y) - 1, NEW n \in 0 .. R(z) - 1,
               nth(y, m) = nth(z, n)
        PROVE  y = z /\ m = n
    <3>1. m \in 0 .. Dealt(q, more, y) - 1 /\ n \in 0 .. Dealt(q, more, z) - 1
      BY <2>2
    <3>2. Nth(ice, q, more, woven, y, m) = Nth(ice, q, more, woven, z, n)
      BY <2>5 DEF nth
    <3> QED BY <2>1, <3>1, <3>2, Zenon DEF DealtOnce
  <2> QED BY <2>3, <2>4, <2>5
<1>14. \A z \in 0 .. ice - 1, n \in Nat :
         has(z, n) <=> n \in 0 .. R(z) - 1 \/ (n = R(z) /\ z = last /\ rest > 0)
  BY <1>6, <1>7, <1>11
<1>15. ASSUME NEW z \in 0 .. ice - 1, NEW n \in Nat, has(z, n)
       PROVE  nth(z, n) \in 0 .. U /\ (nth(z, n) = U <=> n = R(z))
  <2>1. CASE n \in 0 .. R(z) - 1
    <3>1. nth(z, n) \in 0 .. U - 1 /\ R(z) \in Nat
      BY <1>11, <1>13, <2>1
    <3> QED BY <1>2, <2>1, <3>1
  <2>2. CASE n = R(z) /\ z = last
    BY <1>2, <1>12, <2>2
  <2> QED BY <1>14, <1>15, <2>1, <2>2
<1>16. ASSUME NEW i \in Nat, i < U \/ (i = U /\ rest > 0)
       PROVE  \E z \in 0 .. ice - 1, n \in Nat : has(z, n) /\ nth(z, n) = i
  <2>1. CASE i < U
    <3>1. i \in 0 .. U - 1
      BY <1>2, <2>1
    <3>2. PICK z \in 0 .. ice - 1 : \E n \in 0 .. R(z) - 1 : nth(z, n) = i
      BY <1>13, <3>1
    <3>4. PICK n \in 0 .. R(z) - 1 : nth(z, n) = i
      BY <3>2
    <3>3. n \in Nat
      BY <1>11, <3>2
    <3> QED BY <1>14, <3>4, <3>3
  <2>2. CASE i = U /\ rest > 0
    <3>1. R(last) \in Nat /\ has(last, R(last)) /\ nth(last, R(last)) = i
      BY <1>11, <1>12, <1>14, <2>2
    <3> QED BY <1>12, <3>1
  <2> QED BY <1>16, <2>1, <2>2
<1>17. ASSUME NEW y \in 0 .. ice - 1, NEW z \in 0 .. ice - 1, NEW m \in Nat, NEW n \in Nat,
              has(y, m), has(z, n), nth(y, m) = nth(z, n)
       PROVE  y = z /\ m = n
  <2>1. (nth(y, m) = U <=> m = R(y)) /\ (nth(z, n) = U <=> n = R(z))
    BY <1>15, <1>17
  <2>2. CASE nth(y, m) = U
    <3>1. y = last /\ z = last /\ m = R(y) /\ n = R(z)
      <4>1. \A v \in 0 .. ice - 1 : ~(R(v) \in 0 .. R(v) - 1)
        BY <1>11
      <4> QED BY <1>14, <1>17, <2>1, <2>2, <4>1
    <3> QED BY <3>1
  <2>3. CASE nth(y, m) # U
    <3>1. m \in 0 .. R(y) - 1 /\ n \in 0 .. R(z) - 1
      BY <1>14, <1>17, <2>1, <2>3
    <3> QED BY <1>13, <1>17, <3>1
  <2> QED BY <2>2, <2>3
<1> QED BY <1>2, <1>8, <1>15, <1>16, <1>17 DEF ice, has, R, rest

(* Along k, a group is at the n-th unroll that was dealt to it.            *)
LEMMA StartOfUnroll ==
  ASSUME NEW p, IsProblem(p), Derivable(p.hp, p.gg), NEW z \in 0 .. p.hp["C"]["ICE"] - 1, NEW n \in Nat,
         NEW tile, tile["A"] \in Int, tile["B"] \in Int
  PROVE  /\ KStart(p.hp, p.gg, tile, z) \in Int /\ n * Jump(p.hp) \in Int
         /\ UnrollIndex(p, tile, z, n) \in Nat
         /\ KStart(p.hp, p.gg, tile, z) + n * Jump(p.hp) + UnrollOffset(p.hp, tile)
              = p.hp["C"]["UNR"] * UnrollIndex(p, tile, z, n)
<1> DEFINE unr == p.hp["C"]["UNR"]
           ice == p.hp["C"]["ICE"]
           K == EffectiveK(p.hp, p.gg, tile)
           o == UnrollOffset(p.hp, tile)
           q == K \div (ice * unr)
           more == WorkGroupsWith1More(p.hp, p.gg, tile)
           split == SplitOnK(p.hp)
           woven == Interwoven(p.hp)
           start == KStart(p.hp, p.gg, tile, z)
           jump == Jump(p.hp)
           u == UnrollIndex(p, tile, z, n)
<1>1. /\ unr \in Nat /\ unr > 0 /\ ice \in Nat /\ ice > 0 /\ o \in 0 .. unr - 1
      /\ K \in Nat /\ K = p.gg.k + o /\ p.gg.k \in Nat /\ z \in Nat /\ z < ice
  BY ProblemParts, OffsetOfUnrolls DEF EffectiveK
<1>2. more = (K % (ice * unr)) \div unr
  BY DEF WorkGroupsWith1More, GUnroll
<1>3. q \in Nat /\ more \in Nat /\ more < ice
  <2> HIDE DEF K, ice, unr
  <2>1. K \in Nat /\ unr \in Nat /\ unr > 0 /\ ice \in Nat /\ ice > 0
    BY <1>1
  <2>2. more = (K % (ice * unr)) \div unr
    BY <1>2
  <2> HIDE DEF more
  <2> QED BY ONLY <2>1, <2>2, UnrollsAreShared
<1>5. /\ start = (IF ~split THEN 0 ELSE IF woven THEN unr * z
                  ELSE (1 + q) * unr * z - (IF z > more THEN unr * (z - more) ELSE 0)) - o
      /\ jump = IF split /\ woven THEN ice * unr ELSE unr
  BY DEF KStart, Jump, GUnroll, SplitOnK, Interwoven
<1>6. split <=> ice # 1
  BY DEF SplitOnK
<1>7. u = IF split /\ woven THEN ice * n + z ELSE q * z + (IF z < more THEN z ELSE more) + n
  BY DEF UnrollIndex, Nth, GUnroll
<1> HIDE DEF unr, ice, K, o, q, more, split, woven, start, jump, u
<1>8. start \in Int /\ n * jump \in Int /\ u \in Nat /\ start + n * jump + o = unr * u
  <2>1. CASE ~split
    <3>1. n * unr = unr * n /\ n * unr \in Int
      BY <1>1, Products
    <3>2. u = n
      <4>1. z = 0 /\ more = 0
        BY <1>1, <1>3, <1>6, <2>1
      <4>2. q * 0 = 0
        BY <1>3, Products
      <4> QED BY <1>7, <2>1, <4>1, <4>2
    <3> QED BY <1>1, <1>5, <2>1, <3>1, <3>2
  <2>2. CASE split /\ woven
    <3> DEFINE in == ice * n
    <3>1. in \in Nat
      BY <1>1, Products
    <3>2. n * (ice * unr) = unr * in /\ unr * in \in Int /\ unr * z \in Int
      <4>1. ice * unr = unr * ice /\ unr * ice \in Int
        BY <1>1, Products
      <4>2. n * (unr * ice) = (unr * ice) * n
        BY <4>1, Products
      <4>3. (unr * ice) * n = unr * (ice * n)
        BY <1>1, Products
      <4>4. unr * z \in Int /\ unr * in \in Int
        BY <1>1, <3>1, Products
      <4> QED BY <4>1, <4>2, <4>3, <4>4
    <3>3. unr * (z + in) = unr * z + unr * in
      BY <1>1, <3>1, Products
    <3>4. u = in + z
      BY <1>7, <2>2
    <3> HIDE DEF in
    <3>5. u \in Nat /\ u = z + in
      BY <1>1, <3>1, <3>4
    <3> QED BY <1>1, <1>5, <2>2, <3>2, <3>3, <3>5
  <2>3. CASE split /\ ~woven
    <3> DEFINE qz == q * z
               least == IF z < more THEN z ELSE more
               s == qz + least
    <3>1. qz \in Nat /\ least \in Nat
      BY <1>1, <1>3, Products
    <3>2. start + o = unr * s /\ start \in Int
      <4>1. (1 + q) * unr * z = unr * (z + qz)
        <5>1. (1 + q) * unr = unr * (1 + q) /\ 1 + q \in Int
          BY <1>1, <1>3, Products
        <5>2. (unr * (1 + q)) * z = unr * ((1 + q) * z)
          BY <1>1, <5>1, Products
        <5>3. (1 + q) * z = z + qz
          BY <1>1, <1>3, <5>1, Products
        <5> QED BY <5>1, <5>2, <5>3
      <4>2. z > more => unr * (z + qz) - unr * (z - more) = unr * (qz + more)
        <5> DEFINE a == z + qz
                   b == z - more
        <5>1. a \in Int /\ b \in Int /\ a - b = qz + more
          BY <1>1, <1>3, <3>1
        <5> HIDE DEF a, b
        <5>2. unr * (a - b) = unr * a - unr * b
          BY <1>1, <5>1, Products
        <5> QED BY <5>1, <5>2 DEF a, b
      <4>3. unr * (z + qz) \in Int /\ (z > more => unr * (z - more) \in Int)
        BY <1>1, <1>3, <3>1, Products
      <4>4. start = unr * (z + qz) - (IF z > more THEN unr * (z - more) ELSE 0) - o
        BY <1>5, <2>3, <4>1
      <4>5. s = IF z > more THEN qz + more ELSE z + qz
        BY <1>1, <1>3, <3>1
      <4> HIDE DEF qz, s, least
      <4> QED BY <1>1, <4>2, <4>3, <4>4, <4>5
    <3>3. s \in Nat
      BY <3>1
    <3>4. u = s + n
      BY <1>7, <2>3
    <3> HIDE DEF qz, least, s
    <3>5. unr * (s + n) = unr * s + unr * n /\ n * unr = unr * n /\ unr * n \in Int /\ unr * s \in Int
      BY <1>1, <3>3, Products
    <3> QED BY <1>1, <1>5, <2>3, <3>2, <3>3, <3>4, <3>5
  <2> QED BY <2>1, <2>2, <2>3
<1> QED BY <1>8 DEF start, jump, u, o, unr

(* What a group sums is what there is to sum in the unrolls that it has:   *)
(* all but what the last has no more of, and what the offset skips.        *)
LEMMA SummedOfUnroll ==
  ASSUME NEW p, IsProblem(p), Derivable(p.hp, p.gg), NEW z \in 0 .. p.hp["C"]["ICE"] - 1, NEW n \in Nat,
         NEW tile, tile["A"] \in Int, tile["B"] \in Int, NEW d \in 0 .. p.hp["C"]["UNR"] - 1
  PROVE  Summing(p, tile, z, n, d) <=>
           /\ HasUnroll(p, tile, z, n)
           /\ UnrollIndex(p, tile, z, n) < Unrolls(p, tile) \/ d < KRemaining(p.hp, p.gg, tile)
           /\ UnrollIndex(p, tile, z, n) >= 1 \/ d >= UnrollOffset(p.hp, tile)
<1> DEFINE ice == p.hp["C"]["ICE"]
           unr == p.hp["C"]["UNR"]
           o == UnrollOffset(p.hp, tile)
           R(v) == UnrollsRemaining(p.hp, p.gg, tile, v)
           rest == KRemaining(p.hp, p.gg, tile)
           first(v) == HasFirst(p.hp, v)
           tail(v) == HasTail(p.hp, p.gg, tile, v)
           idx(v, x) == UnrollIndex(p, tile, v, x)
           U == Unrolls(p, tile)
           has(v, x) == HasUnroll(p, tile, v, x)
           ufo == p.hp["C"]["UFO"] = YES
<1>1. /\ unr \in Nat /\ unr > 0 /\ ice \in Nat /\ ice > 0 /\ o \in 0 .. unr - 1 /\ z \in Nat /\ z < ice
      /\ rest \in Nat
  <2>1. /\ unr \in Nat /\ unr > 0 /\ ice \in Nat /\ ice > 0 /\ o \in 0 .. unr - 1 /\ z \in Nat /\ z < ice
    BY ProblemParts, OffsetOfUnrolls
  <2>2. rest \in Nat
    <3>1. rest = EffectiveK(p.hp, p.gg, tile) % unr /\ EffectiveK(p.hp, p.gg, tile) \in Int
      BY <2>1, ProblemParts, OffsetOfUnrolls DEF KRemaining, EffectiveK
    <3> DEFINE K == EffectiveK(p.hp, p.gg, tile)
    <3> HIDE DEF K, unr, rest
    <3> QED BY <2>1, <3>1, DivMod DEF K
  <2> QED BY <2>1, <2>2
<1>2. \A v \in 0 .. ice - 1 : R(v) \in Nat /\ (first(v) => R(v) > 0)
  <2>1. \A v \in 0 .. ice - 1 : v \in Nat
    BY <1>1
  <2> QED BY <2>1, UnrollsAreCounted
<1>3. Summing(p, tile, z, n, d) <=>
        \/ first(z) /\ n = 0 /\ d >= o
        \/ n < R(z) /\ (first(z) => n > 0)
        \/ n = R(z) /\ tail(z) /\ d < rest
  BY DEF Summing
<1>4. has(z, n) <=> n < R(z) \/ (n = R(z) /\ tail(z) /\ rest > 0)
  BY DEF HasUnroll
<1>5. /\ U \in Nat
      /\ has(z, n) => idx(z, n) \in 0 .. U /\ (idx(z, n) = U <=> n = R(z))
  BY UnrollsOfTile
<1>6. ufo => has(0, 0) /\ first(0) /\ R(0) > 0
  <2> HAVE ufo
  <2>1. 0 \in 0 .. ice - 1
    BY <1>1
  <2>2. first(0)
    BY DEF HasFirst
  <2>3. R(0) > 0
    BY <1>2, <2>1, <2>2
  <2> QED BY <2>2, <2>3 DEF HasUnroll
<1>7. idx(0, 0) = 0
  <2>1. WorkGroupsWith1More(p.hp, p.gg, tile) \in Nat /\ EffectiveK(p.hp, p.gg, tile) \div GUnroll(p.hp) \in Int
    <3> DEFINE K == EffectiveK(p.hp, p.gg, tile)
               gu == GUnroll(p.hp)
    <3>1. K \in Nat
      BY ProblemParts, OffsetOfUnrolls DEF EffectiveK
    <3>2. gu \in Nat /\ gu > 0
      <4> HIDE DEF ice, unr
      <4>1. ice * unr \in Nat /\ ice * unr > 0
        BY <1>1, Products
      <4> QED BY <4>1 DEF GUnroll, ice, unr
    <3>3. WorkGroupsWith1More(p.hp, p.gg, tile) = (K % gu) \div unr
      BY DEF WorkGroupsWith1More
    <3> HIDE DEF K, gu, unr
    <3>4. K \div gu \in Int /\ K % gu \in Nat
      BY <3>1, <3>2, DivMod
    <3>5. (K % gu) \div unr \in Nat
      BY <1>1, <3>4, DivMod
    <3> QED BY <3>3, <3>4, <3>5 DEF K, gu
  <2> DEFINE q == EffectiveK(p.hp, p.gg, tile) \div GUnroll(p.hp)
             more == WorkGroupsWith1More(p.hp, p.gg, tile)
  <2>2. idx(0, 0) = IF SplitOnK(p.hp) /\ Interwoven(p.hp) THEN ice * 0 + 0
                    ELSE q * 0 + (IF 0 < more THEN 0 ELSE more) + 0
    BY DEF UnrollIndex, Nth
  <2> HIDE DEF q, more, ice, idx
  <2>3. q * 0 = 0 /\ ice * 0 = 0 /\ more \in Nat
    BY <1>1, <2>1, Products DEF q, more
  <2> QED BY <2>2, <2>3
<1>8. ufo /\ has(z, n) => (idx(z, n) = 0 <=> z = 0 /\ n = 0)
  <2> HAVE ufo /\ has(z, n)
  <2>1. idx(z, n) = idx(0, 0) => z = 0 /\ n = 0
    <3>1. has(0, 0) /\ 0 \in 0 .. ice - 1 /\ 0 \in Nat
      BY <1>1, <1>6
    <3> QED BY <3>1, UnrollsOfTile
  <2> QED BY <1>7, <2>1
<1>9. first(z) <=> ufo /\ z = 0
  BY <1>1 DEF HasFirst, SplitOnK
<1>10. ~ufo => o = 0
  BY DEF UnrollOffset
<1>11. d \in Nat
  BY <1>1
<1>12. R(z) \in Nat /\ (first(z) => R(z) > 0)
  BY <1>2
<1> HIDE DEF ice, unr, o, R, rest, first, tail, idx, U, has, ufo
<1>13. ASSUME Summing(p, tile, z, n, d)
       PROVE  has(z, n) /\ (idx(z, n) < U \/ d < rest) /\ (idx(z, n) >= 1 \/ d >= o)
  <2>1. has(z, n)
    BY <1>1, <1>3, <1>4, <1>11, <1>12, <1>13
  <2>2. idx(z, n) \in Nat /\ (idx(z, n) = U \/ idx(z, n) < U) /\ (idx(z, n) = U <=> n = R(z))
    BY <1>5, <2>1
  <2>3. n < R(z) \/ (n = R(z) /\ d < rest)
    BY <1>3, <1>12, <1>13
  <2>4. idx(z, n) < U \/ d < rest
    BY <1>12, <2>2, <2>3
  <2>5. idx(z, n) >= 1 \/ d >= o
    <3>1. CASE ufo
      <4>1. CASE z = 0 /\ n = 0
        BY <1>3, <1>9, <1>12, <1>13, <3>1, <4>1
      <4>2. CASE ~(z = 0 /\ n = 0)
        BY <1>8, <2>1, <2>2, <3>1, <4>2
      <4> QED BY <4>1, <4>2
    <3>2. CASE ~ufo
      BY <1>10, <1>11, <3>2
    <3> QED BY <3>1, <3>2
  <2> QED BY <2>1, <2>4, <2>5
<1>14. ASSUME has(z, n), idx(z, n) < U \/ d < rest, idx(z, n) >= 1 \/ d >= o
       PROVE  Summing(p, tile, z, n, d)
  <2>1. idx(z, n) \in Nat /\ U \in Nat /\ (idx(z, n) = U <=> n = R(z))
    BY <1>5, <1>14
  <2>2. CASE n = R(z)
    <3>1. tail(z) /\ d < rest
      BY <1>4, <1>12, <1>14, <2>1, <2>2
    <3> QED BY <1>3, <2>2, <3>1
  <2>3. CASE n < R(z) /\ first(z) /\ n = 0
    <3>1. idx(z, n) = 0
      BY <1>8, <1>9, <1>14, <2>3
    <3>2. d >= o
      BY <1>14, <3>1
    <3> QED BY <1>3, <2>3, <3>2
  <2>4. CASE n < R(z) /\ ~(first(z) /\ n = 0)
    BY <1>3, <2>4
  <2> QED BY <1>4, <1>14, <2>2, <2>3, <2>4
<1> QED BY <1>13, <1>14 DEF has, idx, U, rest, o

(* A step of the summation by its unroll and how far along that it is.     *)
LEMMA PositionOfStep ==
  ASSUME NEW p, IsProblem(p), Derivable(p.hp, p.gg), NEW z \in 0 .. p.hp["C"]["ICE"] - 1, NEW n \in Nat,
         NEW tile, tile["A"] \in Int, tile["B"] \in Int, NEW d \in 0 .. p.hp["C"]["UNR"] - 1
  PROVE  /\ Position(p, tile, z, n, d) \in Int /\ UnrollIndex(p, tile, z, n) \in Nat
         /\ Position(p, tile, z, n, d) + UnrollOffset(p.hp, tile)
              = p.hp["C"]["UNR"] * UnrollIndex(p, tile, z, n) + d
<1> DEFINE nj == n * Jump(p.hp)
           u == p.hp["C"]["UNR"] * UnrollIndex(p, tile, z, n)
           o == UnrollOffset(p.hp, tile)
           s == KStart(p.hp, p.gg, tile, z)
<1>1. s \in Int /\ nj \in Int /\ UnrollIndex(p, tile, z, n) \in Nat /\ s + nj + o = u
  BY StartOfUnroll
<1>2. o \in Int /\ d \in Int
  BY OffsetOfUnrolls, ProblemParts
<1>3. Position(p, tile, z, n, d) = s + nj + d
  BY DEF Position
<1> HIDE DEF nj, u, o, s
<1> QED BY <1>1, <1>2, <1>3 DEF u, o

(* The groups of a tile share the summation: what a group sums is along k, *)
(* each step along k is summed, and by one group, once.                    *)
LEMMA StepsAreInside ==
  ASSUME NEW p, IsProblem(p), Derivable(p.hp, p.gg), NEW z \in 0 .. p.hp["C"]["ICE"] - 1,
         NEW tile, tile["A"] \in Int, tile["B"] \in Int,
         NEW n \in Nat, NEW d \in 0 .. p.hp["C"]["UNR"] - 1, Summing(p, tile, z, n, d)
  PROVE  Position(p, tile, z, n, d) \in 0 .. p.gg.k - 1
BY WithinSummation DEF Position

(* No step along k is summed twice for a tile.                             *)
LEMMA StepsAreApart ==
  ASSUME NEW p, IsProblem(p), Derivable(p.hp, p.gg), NEW tile, tile["A"] \in Int, tile["B"] \in Int,
         NEW y \in 0 .. p.hp["C"]["ICE"] - 1, NEW m \in Nat, NEW e \in 0 .. p.hp["C"]["UNR"] - 1,
         NEW z \in 0 .. p.hp["C"]["ICE"] - 1, NEW n \in Nat, NEW d \in 0 .. p.hp["C"]["UNR"] - 1,
         Summing(p, tile, y, m, e), Summing(p, tile, z, n, d),
         Position(p, tile, y, m, e) = Position(p, tile, z, n, d)
  PROVE  y = z /\ m = n /\ e = d
<1> DEFINE unr == p.hp["C"]["UNR"]
           u == UnrollIndex(p, tile, y, m)
           v == UnrollIndex(p, tile, z, n)
           o == UnrollOffset(p.hp, tile)
           P == Position(p, tile, y, m, e)
           Q == Position(p, tile, z, n, d)
<1>1. unr \in Nat /\ unr > 0 /\ o \in Int
  BY ProblemParts, OffsetOfUnrolls
<1>2. u \in Nat /\ P \in Int /\ P + o = unr * u + e
  BY PositionOfStep
<1>3. v \in Nat /\ Q \in Int /\ Q + o = unr * v + d
  BY PositionOfStep
<1>4. HasUnroll(p, tile, y, m) /\ HasUnroll(p, tile, z, n)
  BY SummedOfUnroll
<1>5. P = Q /\ e \in 0 .. unr - 1 /\ d \in 0 .. unr - 1
  OBVIOUS
<1> HIDE DEF unr, u, v, o, P, Q
<1>6. u = v /\ e = d
  <2>1. unr * u + e = unr * v + d
    BY <1>2, <1>3, <1>5
  <2> QED BY <1>1, <1>2, <1>3, <1>5, <2>1, Digits
<1>7. y = z /\ m = n
  BY <1>4, <1>6, UnrollsOfTile DEF u, v
<1> QED BY <1>6, <1>7

(* Every step along k is summed by a group of the tile.                    *)
LEMMA StepsCover ==
  ASSUME NEW p, IsProblem(p), Derivable(p.hp, p.gg), NEW tile, tile["A"] \in Int, tile["B"] \in Int,
         NEW P \in 0 .. p.gg.k - 1
  PROVE  \E z \in 0 .. p.hp["C"]["ICE"] - 1, n \in Nat, d \in 0 .. p.hp["C"]["UNR"] - 1 :
           Summing(p, tile, z, n, d) /\ Position(p, tile, z, n, d) = P
<1> DEFINE unr == p.hp["C"]["UNR"]
           o == UnrollOffset(p.hp, tile)
           K == EffectiveK(p.hp, p.gg, tile)
           U == Unrolls(p, tile)
           rest == KRemaining(p.hp, p.gg, tile)
           i == (P + o) \div unr
           d == (P + o) % unr
<1>1. /\ unr \in Nat /\ unr > 0 /\ o \in Nat /\ o < unr /\ p.gg.k \in Nat /\ K = p.gg.k + o
  BY ProblemParts, OffsetOfUnrolls DEF EffectiveK
<1>2. U = K \div unr /\ rest = K % unr
  BY DEF Unrolls, KRemaining
<1>3. P \in Nat /\ P < p.gg.k
  BY <1>1
<1> HIDE DEF K, U, rest
<1>4. U \in Nat /\ rest \in Nat /\ rest < unr /\ K = unr * U + rest /\ K \in Nat
  <2>1. K \in Nat
    BY <1>1
  <2> HIDE DEF unr, o, i, d
  <2>2. K \in Nat /\ K \in Int /\ K >= 0 /\ unr \in Nat /\ unr > 0
    BY <1>1, <2>1
  <2>3. K \div unr \in Nat /\ K % unr \in Nat /\ K % unr < unr /\ K = unr * (K \div unr) + (K % unr)
    BY ONLY <2>2, DivMod
  <2> QED BY <1>2, <2>1, <2>3
<1>5. i \in Nat /\ d \in Nat /\ d < unr /\ P + o = unr * i + d
  <2> HIDE DEF unr, o
  <2>1. P + o \in Nat
    BY <1>1, <1>3
  <2> QED BY <1>1, <2>1, DivMod
<1>6. d \in 0 .. unr - 1
  BY <1>1, <1>5
<1>0. unr = p.hp["C"]["UNR"] /\ o = UnrollOffset(p.hp, tile) /\ U = Unrolls(p, tile) /\ rest = KRemaining(p.hp, p.gg, tile)
  BY DEF U, rest
<1> HIDE DEF i, d, unr, o
<1>7. i < U \/ (i = U /\ d < rest)
  <2>1. P + o < K
    BY <1>1, <1>3
  <2>2. unr * i + d < unr * U + rest
    BY <1>4, <1>5, <2>1
  <2>3. i <= U
    <3> SUFFICES ASSUME i > U PROVE FALSE
      BY <1>4, <1>5
    <3>1. unr * (U + 1) <= unr * i
      BY <1>1, <1>4, <1>5, ProductsGrow
    <3>2. unr * (U + 1) = unr * U + unr * 1 /\ unr * 1 = unr /\ unr * U \in Int /\ unr * i \in Int
      BY <1>1, <1>4, <1>5, Products
    <3> QED BY <1>1, <1>4, <1>5, <2>2, <3>1, <3>2
  <2>4. i = U => d < rest
    <3>1. unr * U \in Int
      BY <1>1, <1>4, Products
    <3> QED BY <1>4, <1>5, <2>2, <3>1
  <2> QED BY <1>4, <1>5, <2>3, <2>4
<1>8. i >= 1 \/ d >= o
  <2>1. i = 0 => unr * i = 0
    BY <1>1, Products
  <2> QED BY <1>1, <1>3, <1>5, <2>1
<1>9. i < U \/ (i = U /\ rest > 0)
  BY <1>4, <1>5, <1>7
<1>10. PICK z \in 0 .. p.hp["C"]["ICE"] - 1, n \in Nat : HasUnroll(p, tile, z, n) /\ UnrollIndex(p, tile, z, n) = i
  BY <1>0, <1>5, <1>9, UnrollsOfTile
<1>11. d \in 0 .. p.hp["C"]["UNR"] - 1
  BY <1>0, <1>6
<1>12. Summing(p, tile, z, n, d)
  <2>1. UnrollIndex(p, tile, z, n) < Unrolls(p, tile) \/ d < KRemaining(p.hp, p.gg, tile)
    BY <1>0, <1>7, <1>10
  <2>2. UnrollIndex(p, tile, z, n) >= 1 \/ d >= UnrollOffset(p.hp, tile)
    BY <1>0, <1>8, <1>10
  <2> QED BY <1>10, <1>11, <2>1, <2>2, SummedOfUnroll
<1>13. Position(p, tile, z, n, d) \in Int /\ Position(p, tile, z, n, d) + o = unr * i + d
  BY <1>0, <1>10, <1>11, PositionOfStep
<1>14. Position(p, tile, z, n, d) = P
  BY <1>1, <1>3, <1>5, <1>13
<1> QED BY <1>10, <1>11, <1>12, <1>14

(* Numbers of three digits: strips of nA rows of wd.                       *)
LEMMA ThreeDigits ==
  ASSUME NEW wd \in Nat, wd > 0, NEW nA \in Nat, nA > 0, NEW v \in Nat
  PROVE  /\ v \div (wd * nA) \in Nat /\ (v \div wd) % nA \in 0 .. nA - 1 /\ v % wd \in 0 .. wd - 1
         /\ v = (wd * nA) * (v \div (wd * nA)) + wd * ((v \div wd) % nA) + (v % wd)
<1> DEFINE y == v \div wd
           r == v % wd
           f == y \div nA
           a == y % nA
           S == wd * nA
<1>1. y \in Nat /\ r \in Nat /\ r < wd /\ v = wd * y + r
  BY DivMod
<1> HIDE DEF y, r
<1>2. f \in Nat /\ a \in Nat /\ a < nA /\ y = nA * f + a
  BY <1>1, DivMod
<1> HIDE DEF f, a
<1>3. S \in Nat /\ S > 0
  BY Products
<1>4. wd * y = S * f + wd * a
  <2>1. nA * f \in Int
    BY <1>2, Products
  <2>2. wd * (nA * f + a) = wd * (nA * f) + wd * a
    BY <1>2, <2>1, Products
  <2>3. wd * (nA * f) = S * f
    BY <1>2, Products
  <2> QED BY <1>2, <2>2, <2>3
<1>5. wd * a + r \in 0 .. wd * nA - 1
  <2>1. a \in 0 .. nA - 1 /\ r \in 0 .. wd - 1
    BY <1>1, <1>2
  <2> QED BY <2>1, Blocked
<1> DEFINE z == wd * a + r
           Sf == S * f
<1>6. v = Sf + z /\ Sf \in Int /\ z \in 0 .. S - 1
  <2>1. wd * a \in Int /\ Sf \in Int
    BY <1>2, <1>3, Products
  <2> QED BY <1>1, <1>4, <1>5, <2>1
<1> HIDE DEF z, S
<1>7. (S * f + z) \div S = f
  BY <1>2, <1>3, <1>6, DivUnique
<1>8. v \div S = f
  BY <1>6, <1>7
<1>9. v = S * (v \div S) + wd * a + r
  BY <1>1, <1>4, <1>8
<1>10. a \in 0 .. nA - 1 /\ r \in 0 .. wd - 1 /\ v \div S \in Nat
  BY <1>1, <1>2, <1>8
<1> QED BY <1>9, <1>10 DEF S, a, y, r

OfThree(wd, nA, f, a, r) == (wd * nA) * f + wd * a + r

(* There is one way to write a number with three digits.                   *)
LEMMA DigitsOfThree ==
  ASSUME NEW wd \in Nat, wd > 0, NEW nA \in Nat, nA > 0,
         NEW f \in Nat, NEW a \in 0 .. nA - 1, NEW r \in 0 .. wd - 1
  PROVE  /\ OfThree(wd, nA, f, a, r) \in Nat /\ OfThree(wd, nA, f, a, r) \div (wd * nA) = f
         /\ (OfThree(wd, nA, f, a, r) \div wd) % nA = a /\ OfThree(wd, nA, f, a, r) % wd = r
<1> DEFINE v == OfThree(wd, nA, f, a, r)
<1>0. v = (wd * nA) * f + wd * a + r
  BY DEF OfThree
<1> HIDE DEF v
<1> DEFINE S == wd * nA
           z == wd * a + r
           y == nA * f + a
<1>1. S \in Nat /\ S > 0 /\ S * f \in Nat /\ wd * a \in Nat /\ nA * f \in Nat
  <2>1. S \in Nat /\ S > 0 /\ wd * a \in Nat /\ nA * f \in Nat
    BY Products
  <2> HIDE DEF S
  <2> QED BY <2>1, Products
<1>2. z \in 0 .. S - 1
  BY Blocked
<1>3. v = S * f + z /\ v \in Nat
  BY <1>0, <1>1
<1>4. v = wd * y + r
  <2>1. wd * (nA * f + a) = wd * (nA * f) + wd * a
    BY <1>1, Products
  <2>2. wd * (nA * f) = S * f
    BY Products
  <2> QED BY <1>0, <1>1, <2>1, <2>2
<1>5. v \div S = f
  <2> HIDE DEF S, z
  <2>1. (S * f + z) \div S = f
    BY <1>1, <1>2, DivUnique
  <2> QED BY <1>3, <2>1
<1>6. y \in Nat /\ y % nA = a
  <2>1. (nA * f + a) % nA = a
    BY DivUnique
  <2> QED BY <1>1, <2>1
<1>7. v \div wd = y /\ v % wd = r
  <2> HIDE DEF y
  <2>1. (wd * y + r) \div wd = y /\ (wd * y + r) % wd = r
    BY <1>6, DivUnique
  <2> QED BY <1>4, <2>1
<1> QED BY <1>3, <1>5, <1>6, <1>7 DEF v

(* Where SuperColumns puts number v, of nA * nB tiles in columns of wd.    *)
Strips(nA, nB, wd, v) ==
  LET last == nB % wd
      column == v \div (wd * nA)
  IN IF last = 0 \/ (last # nB /\ v < (nB - last) * nA)
     THEN [A |-> (v \div wd) % nA, B |-> column * wd + (v % wd)]
     ELSE [A |-> (v - (nB - last) * nA) \div last, B |-> column * wd + (v % last)]

InStrips(nA, nB, wd, v) ==
  LET last == nB % wd
      Q == nB \div wd
      S == wd * nA
  IN /\ v \in Nat
     /\ v < S * Q => v \div S \in 0 .. Q - 1
                     /\ Strips(nA, nB, wd, v) = [A |-> (v \div wd) % nA, B |-> wd * (v \div S) + (v % wd)]
     /\ ~(v < S * Q) => last > 0 /\ Strips(nA, nB, wd, v) = [A |-> (v - S * Q) \div last, B |-> wd * Q + (v % last)]

(* The strips that are full come first, then the narrower one.             *)
LEMMA FullStripsFirst ==
  ASSUME NEW nA \in Nat, nA > 0, NEW nB \in Nat, nB > 0, NEW wd \in Nat, wd > 0,
         NEW v \in 0 .. nA * nB - 1
  PROVE  /\ LET last == nB % wd
                Q == nB \div wd
                S == wd * nA
            IN /\ Q \in Nat /\ last \in Nat /\ nB = wd * Q + last /\ S \in Nat /\ S > 0 /\ S * Q \in Nat
               /\ nA * nB = S * Q + last * nA /\ last * nA \in Nat
         /\ InStrips(nA, nB, wd, v)
<1> DEFINE last == nB % wd
           Q == nB \div wd
           wdQ == wd * Q
           S == wd * nA
           full == (nB - last) * nA
           lastA == last * nA
           column == v \div S
           inFull == last = 0 \/ (last # nB /\ v < full)
           SQ == S * Q
           area == nA * nB
<1>1. Q \in Nat /\ last \in Nat /\ last < wd /\ nB = wdQ + last /\ wdQ \in Nat
  <2>1. Q \in Nat /\ last \in Nat /\ last < wd /\ nB = wdQ + last
    BY DivMod
  <2> HIDE DEF last
  <2> QED BY <2>1
<1>2. S \in Nat /\ S > 0
  BY Products
<1>3. area \in Nat /\ v \in Nat /\ v < area
  BY Products
<1> HIDE DEF column
<1>4. column \in Nat /\ v % S \in Nat /\ v % S < S /\ v = S * column + (v % S)
  <2> HIDE DEF S
  <2> QED BY <1>2, <1>3, DivMod DEF column
<1>5. full = SQ
  <2>1. nB - last = wdQ
    BY <1>1
  <2>2. wdQ * nA = nA * wdQ /\ wd * nA = nA * wd
    <3> HIDE DEF wdQ, last, Q
    <3> QED BY <1>1, Products
  <2>3. (nA * wd) * Q = nA * (wd * Q)
    <3> HIDE DEF last, Q
    <3> QED BY <1>1, Products
  <2> QED BY <2>1, <2>2, <2>3
<1> HIDE DEF Q
<1>6. area = SQ + lastA /\ SQ \in Nat /\ lastA \in Nat
  <2>1. full = wdQ * nA
    BY <1>1
  <2> HIDE DEF wdQ, last
  <2>2. nA * (wdQ + last) = nA * wdQ + nA * last /\ nA * wdQ = wdQ * nA /\ nA * last = lastA
    BY <1>1, Products
  <2>3. wdQ * nA \in Nat /\ lastA \in Nat
    BY <1>1, Products
  <2> QED BY <1>1, <1>5, <2>1, <2>2, <2>3
<1>7. lastA < S
  <2> HIDE DEF last
  <2>1. nA * last < nA * wd
    BY <1>1, ProductsGrow
  <2>2. nA * last = last * nA /\ nA * wd = wd * nA
    BY <1>1, Products
  <2> QED BY <2>1, <2>2
<1>8. last = 0 => lastA = 0
  BY Products
<1>9. last = nB => SQ = 0
  <2>1. 0 * nA = 0
    BY Products
  <2>2. last = nB => nB - last = 0
    BY <1>1
  <2> QED BY <1>5, <2>1, <2>2
<1>10. inFull <=> v < SQ
  <2>1. inFull <=> last = 0 \/ (last # nB /\ v < SQ)
    BY <1>5
  <2> HIDE DEF SQ, lastA, area, inFull, last
  <2> QED BY <1>1, <1>3, <1>6, <1>8, <1>9, <2>1
<1>11. Strips(nA, nB, wd, v) =
         IF inFull THEN [A |-> (v \div wd) % nA, B |-> column * wd + (v % wd)]
         ELSE [A |-> (v - full) \div last, B |-> column * wd + (v % last)]
  BY DEF Strips, column
<1> HIDE DEF last, full, lastA, inFull, area
<1>12. column * wd = wd * column
  BY <1>4, Products
<1>13. v < SQ => column \in 0 .. Q - 1
  <2> HAVE v < SQ
  <2> HIDE DEF S
  <2>1. S * column \in Int /\ S * column <= v
    BY <1>2, <1>3, <1>4, Products
  <2>2. S * column < S * Q
    <3>1. SQ \in Int
      BY <1>6
    <3> QED BY <1>3, <2>1, <3>1
  <2>3. column < Q
    BY <1>1, <1>2, <1>4, <2>2, ProductsGrow
  <2> QED BY <1>1, <1>4, <2>3
<1>14. ~(v < SQ) => last > 0 /\ column = Q
  <2> HAVE ~(v < SQ)
  <2>1. last > 0
    <3> HIDE DEF SQ
    <3> QED BY <1>1, <1>3, <1>6, <1>8
  <2> DEFINE d == v - SQ
  <2>2. d \in Nat /\ d < S /\ v = SQ + d
    <3> HIDE DEF SQ
    <3> QED BY <1>2, <1>3, <1>6, <1>7
  <2> HIDE DEF S, d
  <2>3. (S * Q + d) \div S = Q
    BY <1>1, <1>2, <2>2, DivUnique
  <2> QED BY <2>1, <2>2, <2>3 DEF column
<1>15. v < SQ => Strips(nA, nB, wd, v) = [A |-> (v \div wd) % nA, B |-> wd * column + (v % wd)]
  BY <1>10, <1>11, <1>12
<1>16. ~(v < SQ) => Strips(nA, nB, wd, v) = [A |-> (v - SQ) \div last, B |-> wd * Q + (v % last)]
  BY <1>5, <1>10, <1>11, <1>12, <1>14
<1>17. Q = nB \div wd /\ last = nB % wd /\ column = v \div S /\ area = nA * nB /\ lastA = last * nA
  BY DEF Q, last, column, area, lastA
<1> QED BY <1>1, <1>2, <1>3, <1>6, <1>13, <1>14, <1>15, <1>16, <1>17 DEF InStrips

(* Remainders that are turned by so much are still one for each.           *)
LEMMA Turned ==
  ASSUME NEW n \in Nat, NEW a \in Int, NEW r \in 0 .. n - 1, NEW s \in 0 .. n - 1, (a + r) % n = (a + s) % n
  PROVE  r = s
<1> DEFINE x == (a + r) \div n
           y == (a + s) \div n
           t == (a + r) % n
           u == (a + s) % n
<1>1. n > 0 /\ a + r \in Int /\ a + s \in Int
  OBVIOUS
<1>2. x \in Int /\ a + r = n * x + t /\ t \in Nat /\ t < n
  <2> DEFINE b == a + r
  <2> HIDE DEF b
  <2> QED BY <1>1, DivMod DEF b
<1>3. y \in Int /\ a + s = n * y + u /\ u \in Nat /\ u < n
  <2> DEFINE b == a + s
  <2> HIDE DEF b
  <2> QED BY <1>1, DivMod DEF b
<1>4. t = u
  OBVIOUS
<1> HIDE DEF x, y, t, u
<1>5. n * x \in Int /\ n * y \in Int
  BY <1>2, <1>3, Products
<1>6. CASE x = y
  BY <1>2, <1>3, <1>4, <1>5, <1>6
<1>7. CASE x < y
  <2>1. n * (x + 1) <= n * y
    BY <1>2, <1>3, <1>7, ProductsGrow
  <2>2. n * (x + 1) = n * x + n
    BY <1>2, Products
  <2> QED BY <1>2, <1>3, <1>4, <1>5, <2>1, <2>2
<1>8. CASE y < x
  <2>1. n * (y + 1) <= n * x
    BY <1>2, <1>3, <1>8, ProductsGrow
  <2>2. n * (y + 1) = n * y + n
    BY <1>3, Products
  <2> QED BY <1>2, <1>3, <1>4, <1>5, <2>1, <2>2
<1> QED BY <1>2, <1>3, <1>6, <1>7, <1>8

(* SuperColumns puts two numbers at two places.                            *)
LEMMA StripsApart ==
  ASSUME NEW nA \in Nat, nA > 0, NEW nB \in Nat, nB > 0, NEW wd \in Nat, wd > 0,
         NEW v \in 0 .. nA * nB - 1, NEW u \in 0 .. nA * nB - 1,
         Strips(nA, nB, wd, u)["A"] = Strips(nA, nB, wd, v)["A"],
         Strips(nA, nB, wd, u)["B"] = Strips(nA, nB, wd, v)["B"]
  PROVE  u = v
<1> DEFINE last == nB % wd
           Q == nB \div wd
           S == wd * nA
           SQ == S * Q
           lA == last * nA
           In(i) == Strips(nA, nB, wd, i)
<1>1. /\ Q \in Nat /\ last \in Nat /\ nB = wd * Q + last /\ S \in Nat /\ S > 0 /\ SQ \in Nat
      /\ nA * nB = SQ + lA /\ lA \in Nat
  BY FullStripsFirst
<1>2. \A i \in 0 .. nA * nB - 1 :
        /\ i \in Nat /\ i < SQ + lA
        /\ i < SQ => i \div S \in 0 .. Q - 1 /\ In(i) = [A |-> (i \div wd) % nA, B |-> wd * (i \div S) + (i % wd)]
        /\ ~(i < SQ) => last > 0 /\ In(i) = [A |-> (i - SQ) \div last, B |-> wd * Q + (i % last)]
  <2> TAKE i \in 0 .. nA * nB - 1
  <2>1. /\ i \in Nat
        /\ i < SQ => i \div S \in 0 .. Q - 1 /\ In(i) = [A |-> (i \div wd) % nA, B |-> wd * (i \div S) + (i % wd)]
        /\ ~(i < SQ) => last > 0 /\ In(i) = [A |-> (i - SQ) \div last, B |-> wd * Q + (i % last)]
    <3>1. InStrips(nA, nB, wd, i)
      BY FullStripsFirst
    <3> QED BY <3>1 DEF InStrips
  <2>2. i < SQ + lA
    <3> HIDE DEF SQ, lA
    <3> QED BY <1>1, <2>1
  <2> QED BY <2>1, <2>2
<1> HIDE DEF last, Q, lA, In
<1> DEFINE IsFull(i, f, a, r) == /\ f \in 0 .. Q - 1 /\ a \in 0 .. nA - 1 /\ r \in 0 .. wd - 1
                                 /\ i = S * f + wd * a + r /\ In(i)["A"] = a /\ In(i)["B"] = wd * f + r
           IsLeft(i, a, r) == /\ last > 0 /\ a \in 0 .. nA - 1 /\ r \in 0 .. last - 1
                              /\ i = SQ + last * a + r
                              /\ In(i)["A"] = a /\ In(i)["B"] = wd * Q + (i % last)
<1>3. ASSUME NEW i \in 0 .. nA * nB - 1, i < SQ
      PROVE  \E f, a, r : IsFull(i, f, a, r)
  <2>1. i \in Nat /\ i \div S \in 0 .. Q - 1 /\ In(i) = [A |-> (i \div wd) % nA, B |-> wd * (i \div S) + (i % wd)]
    BY <1>2, <1>3
  <2>2. (i \div wd) % nA \in 0 .. nA - 1 /\ i % wd \in 0 .. wd - 1
        /\ i = S * (i \div S) + wd * ((i \div wd) % nA) + (i % wd)
    BY <2>1, ThreeDigits
  <2> DEFINE f == i \div S
             a == (i \div wd) % nA
             r == i % wd
  <2>3. f \in 0 .. Q - 1 /\ a \in 0 .. nA - 1 /\ r \in 0 .. wd - 1 /\ i = S * f + wd * a + r
        /\ In(i) = [A |-> a, B |-> wd * f + r]
    BY <2>1, <2>2
  <2> HIDE DEF f, a, r, S
  <2>4. In(i)["A"] = a /\ In(i)["B"] = wd * f + r
    BY <2>3
  <2>5. IsFull(i, f, a, r)
    BY <2>3, <2>4
  <2> HIDE DEF IsFull
  <2> QED BY <2>5
<1>4. ASSUME NEW i \in 0 .. nA * nB - 1, ~(i < SQ)
      PROVE  \E a, r : IsLeft(i, a, r)
  <2>1. i \in Nat /\ last > 0 /\ In(i) = [A |-> (i - SQ) \div last, B |-> wd * Q + (i % last)] /\ i < SQ + lA
    BY <1>2, <1>4
  <2> DEFINE d == i - SQ
             a == d \div last
             r == d % last
  <2>2. d \in 0 .. last * nA - 1 /\ d \in Nat /\ i = SQ + d
    <3>1. lA = last * nA
      BY DEF lA
    <3>2. d \in 0 .. lA - 1 /\ d \in Nat /\ i = SQ + d
      <4> HIDE DEF SQ
      <4> QED BY <1>1, <1>4, <2>1
    <3> QED BY <3>1, <3>2
  <2> HIDE DEF d
  <2>3. a \in 0 .. nA - 1 /\ r \in 0 .. last - 1
    BY <1>1, <2>2, TwoDigits
  <2>4. d = last * a + r /\ a \in Nat /\ r \in Nat
    BY <1>1, <2>1, <2>2, DivMod
  <2>5. In(i) = [A |-> a, B |-> wd * Q + (i % last)]
    BY <2>1 DEF d
  <2> HIDE DEF a, r, S
  <2>6. In(i)["A"] = a /\ In(i)["B"] = wd * Q + (i % last)
    BY <2>5
  <2>7. i = SQ + last * a + r
    <3>1. last * a \in Int
      BY <1>1, <2>4, Products
    <3> QED BY <1>1, <2>2, <2>4, <3>1
  <2>8. IsLeft(i, a, r)
    BY <2>1, <2>3, <2>6, <2>7
  <2> HIDE DEF IsLeft
  <2> QED BY <2>8
<1>5. ASSUME NEW i \in Nat, NEW f, NEW a, NEW r, IsFull(i, f, a, r) PROVE In(i)["B"] < wd * Q
  <2>1. f \in 0 .. Q - 1 /\ r \in 0 .. wd - 1 /\ In(i)["B"] = wd * f + r /\ f \in Nat
    BY <1>5
  <2>2. wd * f + r \in 0 .. wd * Q - 1
    BY <1>1, <2>1, Blocked
  <2>3. wd * Q \in Int
    BY <1>1, Products
  <2> HIDE DEF IsFull
  <2> QED BY <2>1, <2>2, <2>3
<1>6. ASSUME NEW i \in Nat, NEW a, NEW r, IsLeft(i, a, r) PROVE In(i)["B"] >= wd * Q
  <2>1. last > 0 /\ In(i)["B"] = wd * Q + (i % last)
    BY <1>6
  <2>2. i % last \in Nat
    BY <1>1, <2>1, DivMod
  <2>3. wd * Q \in Int
    BY <1>1, Products
  <2> HIDE DEF IsLeft
  <2> QED BY <2>1, <2>2, <2>3
<1>7. In(u)["A"] = In(v)["A"] /\ In(u)["B"] = In(v)["B"] /\ u \in Nat /\ v \in Nat
  BY <1>2 DEF In
<1>8. ASSUME NEW f, NEW a, NEW r, IsFull(u, f, a, r), NEW e, NEW b, NEW s, IsFull(v, e, b, s)
      PROVE  u = v
  <2>1. a = b /\ wd * f + r = wd * e + s
    BY <1>7, <1>8
  <2>2. f \in Int /\ e \in Int /\ r \in 0 .. wd - 1 /\ s \in 0 .. wd - 1
    BY <1>8
  <2>3. f = e /\ r = s
    BY <2>1, <2>2, Digits
  <2>4. u = S * f + wd * a + r /\ v = S * e + wd * b + s
    BY <1>8
  <2> QED BY <2>1, <2>3, <2>4
<1>9. ASSUME NEW a, NEW r, IsLeft(u, a, r), NEW b, NEW s, IsLeft(v, b, s)
      PROVE  u = v
  <2>1. a = b /\ wd * Q + (u % last) = wd * Q + (v % last) /\ last > 0
    BY <1>7, <1>9
  <2>2. u % last = v % last
    <3>1. wd * Q \in Int
      BY <1>1, Products
    <3>2. u % last \in Nat /\ v % last \in Nat
      BY <1>1, <1>7, <2>1, DivMod
    <3> QED BY <2>1, <3>1, <3>2
  <2>3. u = SQ + last * a + r /\ v = SQ + last * a + s /\ r \in 0 .. last - 1 /\ s \in 0 .. last - 1 /\ a \in Int
    BY <1>9, <2>1
  <2> DEFINE g == SQ + last * a
  <2>4. g \in Int
    BY <1>1, <2>3, Products
  <2> HIDE DEF SQ, g
  <2>5. u = g + r /\ v = g + s
    BY <2>3 DEF g
  <2>6. r = s
    BY <1>1, <2>2, <2>3, <2>4, <2>5, Turned
  <2> QED BY <2>5, <2>6
<1>10. \A i \in {u, v} : i \in 0 .. nA * nB - 1 /\ i \in Nat
  BY <1>7
<1>11. \A i \in {u, v} : (\E f, a, r : IsFull(i, f, a, r)) \/ (\E a, r : IsLeft(i, a, r))
  BY <1>3, <1>4, <1>10
<1>12. wd * Q \in Int
  BY <1>1, Products
<1> HIDE DEF IsFull, IsLeft
<1>13. CASE \E f, a, r : IsFull(u, f, a, r)
  <2>1. In(u)["B"] < wd * Q
    BY <1>5, <1>7, <1>13
  <2>2. \E f, a, r : IsFull(v, f, a, r)
    <3>1. ASSUME NEW a, NEW r, IsLeft(v, a, r) PROVE FALSE
      <4>1. In(v)["B"] >= wd * Q
        BY <1>6, <1>7, <3>1
      <4> DEFINE bb == In(v)["B"]
                 lim == wd * Q
      <4>2. bb \in Int
        <5>1. bb = lim + (v % last) /\ last > 0
          BY <3>1 DEF IsLeft
        <5>2. v % last \in Nat
          BY <1>1, <1>7, <5>1, DivMod
        <5> HIDE DEF bb, lim
        <5> QED BY <1>12, <5>1, <5>2 DEF lim
      <4>3. bb < lim /\ bb >= lim
        BY <1>7, <2>1, <4>1
      <4> HIDE DEF bb, lim
      <4> QED BY <1>12, <4>2, <4>3 DEF lim
    <3> QED BY <1>11, <3>1
  <2> QED BY <1>8, <1>13, <2>2
<1>14. CASE \E a, r : IsLeft(u, a, r)
  <2>1. \E a, r : IsLeft(v, a, r)
    <3>1. ASSUME NEW f, NEW a, NEW r, IsFull(v, f, a, r) PROVE FALSE
      <4>1. In(v)["B"] < wd * Q
        BY <1>5, <1>7, <3>1
      <4>2. In(u)["B"] >= wd * Q
        BY <1>6, <1>7, <1>14
      <4> DEFINE bb == In(v)["B"]
                 lim == wd * Q
      <4>3. bb \in Int
        <5>1. bb = wd * f + r /\ f \in Int /\ r \in Int
          BY <3>1 DEF IsFull
        <5>2. wd * f \in Int
          BY <5>1, Products
        <5> QED BY <5>1, <5>2
      <4>4. bb < lim /\ bb >= lim
        BY <1>7, <4>1, <4>2
      <4> HIDE DEF bb, lim
      <4> QED BY <1>12, <4>3, <4>4 DEF lim
    <3> QED BY <1>11, <3>1
  <2> QED BY <1>9, <1>14, <2>1
<1> QED BY <1>11, <1>13, <1>14

(* SuperColumns puts a number at each place.                               *)
LEMMA StripsCover ==
  ASSUME NEW nA \in Nat, nA > 0, NEW nB \in Nat, nB > 0, NEW wd \in Nat, wd > 0,
         NEW a \in 0 .. nA - 1, NEW b \in 0 .. nB - 1
  PROVE  \E v \in 0 .. nA * nB - 1 : Strips(nA, nB, wd, v)["A"] = a /\ Strips(nA, nB, wd, v)["B"] = b
<1> DEFINE last == nB % wd
           Q == nB \div wd
           S == wd * nA
           SQ == S * Q
           wdQ == wd * Q
           lA == last * nA
           area == nA * nB
           In(i) == Strips(nA, nB, wd, i)
<1>0. 0 \in 0 .. area - 1
  <2>1. area > 0 /\ area \in Nat
    BY Products
  <2> HIDE DEF area
  <2> QED BY <2>1
<1>1. /\ Q \in Nat /\ last \in Nat /\ nB = wdQ + last /\ S \in Nat /\ S > 0 /\ SQ \in Nat
      /\ area = SQ + lA /\ lA \in Nat /\ wdQ \in Nat
  <2>1. /\ Q \in Nat /\ last \in Nat /\ nB = wdQ + last /\ S \in Nat /\ S > 0 /\ SQ \in Nat
        /\ area = SQ + lA /\ lA \in Nat
    BY <1>0, FullStripsFirst
  <2>2. wdQ \in Nat
    <3> HIDE DEF Q
    <3> QED BY <2>1, Products
  <2> QED BY <2>1, <2>2
<1>2. \A i \in 0 .. area - 1 :
        /\ i < SQ => In(i) = [A |-> (i \div wd) % nA, B |-> wd * (i \div S) + (i % wd)]
        /\ ~(i < SQ) => In(i) = [A |-> (i - SQ) \div last, B |-> wdQ + (i % last)]
  <2> TAKE i \in 0 .. area - 1
  <2>1. InStrips(nA, nB, wd, i)
    BY FullStripsFirst
  <2> QED BY <2>1 DEF InStrips
<1> HIDE DEF last, Q, In
<1>3. CASE b < wdQ
  <2> DEFINE f == b \div wd
             r == b % wd
             z == wd * a + r
             v == S * f + z
  <2>1. f \in 0 .. Q - 1 /\ r \in 0 .. wd - 1
    <3>1. b \in 0 .. wd * Q - 1
      BY <1>1, <1>3
    <3> QED BY <1>1, <3>1, TwoDigits
  <2>2. b = wd * f + r
    BY DivMod
  <2> HIDE DEF f, r
  <2>3. z \in 0 .. S - 1
    BY <2>1, Blocked
  <2>4. v \in 0 .. S * Q - 1
    <3> HIDE DEF S, z
    <3> QED BY <1>1, <2>1, <2>3, Blocked
  <2>5. v = (wd * nA) * f + wd * a + r /\ f \in Nat
    <3>1. S * f \in Int /\ wd * a \in Int /\ f \in Nat /\ r \in Int
      <4>1. f \in Nat /\ r \in Int
        BY <1>1, <2>1
      <4> HIDE DEF S
      <4> QED BY <1>1, <4>1, Products
    <3> QED BY <3>1
  <2>6. v \div S = f /\ (v \div wd) % nA = a /\ v % wd = r
    <3>1. v = OfThree(wd, nA, f, a, r) /\ f \in Nat
      BY <2>5 DEF OfThree
    <3>2. OfThree(wd, nA, f, a, r) \div (wd * nA) = f /\ (OfThree(wd, nA, f, a, r) \div wd) % nA = a
          /\ OfThree(wd, nA, f, a, r) % wd = r
      <4> HIDE DEF S, SQ, wdQ, lA, area, z, v
      <4> QED BY <2>1, <3>1, DigitsOfThree
    <3> HIDE DEF v
    <3> QED BY <3>1, <3>2
  <2>7. v \in 0 .. area - 1 /\ v < SQ
    <3> HIDE DEF v, area, lA
    <3>1. v \in 0 .. SQ - 1
      BY <2>4
    <3> HIDE DEF SQ
    <3> QED BY <1>1, <3>1
  <2>8. In(v) = [A |-> a, B |-> b]
    <3> HIDE DEF v, area, SQ, S
    <3> QED BY <1>2, <2>2, <2>6, <2>7
  <2>9. In(v)["A"] = a /\ In(v)["B"] = b
    BY <2>8
  <2> HIDE DEF v
  <2> QED BY <2>7, <2>9 DEF In
<1>4. CASE ~(b < wdQ)
  <2> DEFINE e == b - wdQ
             x == e - SQ
             r == x % last
             y == x \div last
             la == last * a
             ly == last * y
             d == la + r
             v == SQ + d
  <2>1. e \in 0 .. last - 1 /\ last > 0 /\ b = wdQ + e
    <3> HIDE DEF wdQ
    <3> QED BY <1>1, <1>4
  <2> HIDE DEF e
  <2>2. x \in Int /\ e = SQ + x
    <3> HIDE DEF SQ
    <3> QED BY <1>1, <2>1
  <2> HIDE DEF x
  <2>3. y \in Int /\ r \in Nat /\ r < last /\ x = ly + r
    BY <1>1, <2>1, <2>2, DivMod
  <2> HIDE DEF y, r
  <2>4. la \in Nat /\ ly \in Int /\ last * (a - y) = la - ly /\ a - y \in Int
    BY <1>1, <2>3, Products
  <2>5. d \in 0 .. last * nA - 1 /\ d \div last = a
    <3>1. r \in 0 .. last - 1
      BY <1>1, <2>3
    <3> QED BY <1>1, <3>1, Blocked, DivUnique
  <2>6. v \in 0 .. area - 1 /\ ~(v < SQ) /\ v - SQ = d
    <3>1. d \in 0 .. lA - 1
      BY <2>5
    <3> HIDE DEF area, SQ, lA, d
    <3> QED BY <1>1, <3>1
  <2>7. v = last * (a - y) + e
    <3> HIDE DEF SQ, la, ly
    <3> QED BY <1>1, <2>1, <2>2, <2>3, <2>4
  <2>8. v % last = e
    <3> DEFINE t == a - y
    <3>1. t \in Int /\ e \in Int /\ 0 <= e /\ e < last
      BY <1>1, <2>1, <2>4
    <3> HIDE DEF t, v
    <3>2. (last * t + e) % last = e
      BY <1>1, <3>1, DivUnique
    <3> QED BY <2>7, <3>2 DEF t
  <2>9. In(v) = [A |-> a, B |-> b]
    <3> HIDE DEF v, area, SQ, wdQ, d
    <3> QED BY <1>2, <2>1, <2>5, <2>6, <2>8
  <2>10. In(v)["A"] = a /\ In(v)["B"] = b
    BY <2>9
  <2> HIDE DEF v
  <2> QED BY <2>6, <2>10 DEF In
<1> QED BY <1>3, <1>4

(* The tile that is dealt out as number v.                                 *)
Numbered(p, v) ==
  LET nA == NGroups(p.hp, p.gg, "A")
      nB == NGroups(p.hp, p.gg, "B")
  IN CASE p.hp["C"]["GAL"] = BYCOL -> [A |-> v % nA, B |-> v \div nA]
       [] p.hp["C"]["GAL"] = BYROW -> [A |-> v \div nB, B |-> v % nB]
       [] p.hp["C"]["GAL"] = SUCOL -> Strips(nA, nB, SuperColumnWidth(p.hp), v)

(* The tile of a group is the one of its number.                           *)
LEMMA TileIsNumbered ==
  ASSUME NEW p, NEW id
  PROVE  TileOf(p.hp, p.gg, id) = Numbered(p, Xy(p.hp, p.gg, id))
BY DEF TileOf, Numbered, Strips, SuperColumns, Chiral, LastSuperColumnWidth

(* In each of the orders every tile of C has one number.                   *)
LEMMA NumberedOnce ==
  ASSUME NEW p, IsProblem(p), Derivable(p.hp, p.gg)
  PROVE  LET top == NGroups(p.hp, p.gg, "A") * NGroups(p.hp, p.gg, "B") - 1 IN
         /\ \A u, v \in 0 .. top :
              Numbered(p, u)["A"] = Numbered(p, v)["A"] /\ Numbered(p, u)["B"] = Numbered(p, v)["B"] => u = v
         /\ \A a \in 0 .. NGroups(p.hp, p.gg, "A") - 1, b \in 0 .. NGroups(p.hp, p.gg, "B") - 1 :
              \E v \in 0 .. top : Numbered(p, v)["A"] = a /\ Numbered(p, v)["B"] = b
<1> DEFINE nA == NGroups(p.hp, p.gg, "A")
           nB == NGroups(p.hp, p.gg, "B")
           gal == p.hp["C"]["GAL"]
           wd == SuperColumnWidth(p.hp)
           area == nA * nB
           num(v) == Numbered(p, v)
<1>1. nA \in Nat /\ nA > 0 /\ nB \in Nat /\ nB > 0
  BY GroupsAreCounted DEF Chiral
<1>2. gal \in {BYROW, BYCOL, SUCOL} /\ BYROW # BYCOL /\ BYCOL # SUCOL /\ BYROW # SUCOL
  BY DEF IsProblem, BYROW, BYCOL, SUCOL
<1>3. /\ gal = BYCOL => \A v : num(v) = [A |-> v % nA, B |-> v \div nA]
      /\ gal = BYROW => \A v : num(v) = [A |-> v \div nB, B |-> v % nB]
      /\ gal = SUCOL => \A v : num(v) = Strips(nA, nB, wd, v)
  BY <1>2 DEF Numbered
<1>4. gal = SUCOL => wd \in Nat /\ wd > 0
  BY DerivableParts, WidthIsNatural
<1> HIDE DEF nA, nB, gal, wd, num
<1>5. area \in Nat /\ area = nB * nA /\ area > 0
  BY <1>1, Products
<1>6. \A v \in 0 .. area - 1 :
        /\ v \in Nat
        /\ v % nA \in 0 .. nA - 1 /\ v \div nA \in 0 .. nB - 1 /\ v = nA * (v \div nA) + (v % nA)
        /\ v % nB \in 0 .. nB - 1 /\ v \div nB \in 0 .. nA - 1 /\ v = nB * (v \div nB) + (v % nB)
  <2> TAKE v \in 0 .. area - 1
  <2>1. v \in Nat
    <3> HIDE DEF area
    <3> QED BY <1>5
  <2>2. v % nA \in 0 .. nA - 1 /\ v \div nA \in 0 .. nB - 1
    BY <1>1, TwoDigits
  <2>3. v % nB \in 0 .. nB - 1 /\ v \div nB \in 0 .. nA - 1
    <3>1. v \in 0 .. nB * nA - 1
      BY <1>5
    <3> QED BY <1>1, <3>1, TwoDigits
  <2>4. v = nA * (v \div nA) + (v % nA) /\ v = nB * (v \div nB) + (v % nB)
    BY <1>1, <2>1, DivMod
  <2> QED BY <2>1, <2>2, <2>3, <2>4
<1>7. ASSUME NEW u \in 0 .. area - 1, NEW v \in 0 .. area - 1, num(u)["A"] = num(v)["A"], num(u)["B"] = num(v)["B"]
      PROVE  u = v
  <2>1. CASE gal = BYCOL
    <3>1. u % nA = v % nA /\ u \div nA = v \div nA
      BY <1>3, <1>7, <2>1
    <3> QED BY <1>6, <3>1
  <2>2. CASE gal = BYROW
    <3>1. u % nB = v % nB /\ u \div nB = v \div nB
      BY <1>3, <1>7, <2>2
    <3> QED BY <1>6, <3>1
  <2>3. CASE gal = SUCOL
    <3>1. Strips(nA, nB, wd, u)["A"] = Strips(nA, nB, wd, v)["A"]
          /\ Strips(nA, nB, wd, u)["B"] = Strips(nA, nB, wd, v)["B"]
      BY <1>3, <1>7, <2>3
    <3>2. u \in 0 .. nA * nB - 1 /\ v \in 0 .. nA * nB - 1
      OBVIOUS
    <3> QED BY <1>1, <1>4, <2>3, <3>1, <3>2, StripsApart
  <2> QED BY <1>2, <2>1, <2>2, <2>3
<1>8. ASSUME NEW a \in 0 .. nA - 1, NEW b \in 0 .. nB - 1
      PROVE  \E v \in 0 .. area - 1 : num(v)["A"] = a /\ num(v)["B"] = b
  <2>1. CASE gal = BYCOL
    <3>1. nA * b + a \in 0 .. area - 1 /\ (nA * b + a) % nA = a /\ (nA * b + a) \div nA = b
      BY <1>1, OfDigits
    <3>2. num(nA * b + a)["A"] = a /\ num(nA * b + a)["B"] = b
      BY <1>3, <2>1, <3>1
    <3> QED BY <3>1, <3>2
  <2>2. CASE gal = BYROW
    <3>1. nB * a + b \in 0 .. nB * nA - 1 /\ (nB * a + b) % nB = b /\ (nB * a + b) \div nB = a
      BY <1>1, OfDigits
    <3>2. num(nB * a + b)["A"] = a /\ num(nB * a + b)["B"] = b
      BY <1>3, <2>2, <3>1
    <3> QED BY <1>5, <3>1, <3>2
  <2>3. CASE gal = SUCOL
    <3>1. PICK v \in 0 .. nA * nB - 1 : Strips(nA, nB, wd, v)["A"] = a /\ Strips(nA, nB, wd, v)["B"] = b
      <4> HIDE DEF area
      <4>1. nA \in Nat /\ nA > 0 /\ nB \in Nat /\ nB > 0 /\ wd \in Nat /\ wd > 0
            /\ a \in 0 .. nA - 1 /\ b \in 0 .. nB - 1
        BY <1>1, <1>4, <2>3
      <4> QED BY ONLY <4>1, StripsCover
    <3>2. num(v) = Strips(nA, nB, wd, v)
      BY <1>3, <2>3
    <3> QED BY <3>1, <3>2
  <2> QED BY <1>2, <2>1, <2>2, <2>3
<1>9. \A u, v \in 0 .. area - 1 : num(u)["A"] = num(v)["A"] /\ num(u)["B"] = num(v)["B"] => u = v
  BY <1>7
<1>10. \A a \in 0 .. nA - 1, b \in 0 .. nB - 1 : \E v \in 0 .. area - 1 : num(v)["A"] = a /\ num(v)["B"] = b
  BY <1>8
<1> QED BY <1>9, <1>10 DEF nA, nB, num

(* The work groups of a problem are the groups z of its tiles, each once.  *)
LEMMA IdsOfGroups ==
  ASSUME NEW p, IsProblem(p), Derivable(p.hp, p.gg), Fits(p)
  PROVE  LET ice == p.hp["C"]["ICE"]
             top == NGroups(p.hp, p.gg, "A") * NGroups(p.hp, p.gg, "B")
         IN /\ ice \in Nat /\ ice > 0 /\ top \in Nat /\ top > 0
            /\ MainWorkGroups(p.hp, p.gg) = ice * top
            /\ \A id \in 0 .. ice * top - 1 :
                 /\ Xy(p.hp, p.gg, id) = id \div ice /\ GroupZ(p.hp, p.gg, id) = id % ice
                 /\ Xy(p.hp, p.gg, id) \in 0 .. top - 1 /\ GroupZ(p.hp, p.gg, id) \in 0 .. ice - 1
                 /\ id = ice * Xy(p.hp, p.gg, id) + GroupZ(p.hp, p.gg, id)
<1> DEFINE ice == p.hp["C"]["ICE"]
           nA == NGroups(p.hp, p.gg, "A")
           nB == NGroups(p.hp, p.gg, "B")
           top == nA * nB
           N == MainWorkGroups(p.hp, p.gg)
           xy(id) == Xy(p.hp, p.gg, id)
           z(id) == GroupZ(p.hp, p.gg, id)
<1>1. /\ nA \in Nat /\ nA > 0 /\ nB \in Nat /\ nB > 0
      /\ nA = CeilDiv(p.gg.m, MacroTile(p.hp, "A")) /\ nB = CeilDiv(p.gg.n, MacroTile(p.hp, "B"))
  BY TilesOfMatrix DEF Chiral, NonKDim
<1>2. ice \in Nat /\ ice > 0 /\ N = ice * nA * nB
  BY <1>1, ProblemParts DEF MainWorkGroups
<1>3. \A id \in 0 .. N - 1 : xy(id) = id \div ice /\ z(id) = id % ice
  BY DEF Fits, Xy, GroupZ
<1> HIDE DEF ice, nA, nB, xy, z, N
<1>4. top \in Nat /\ top > 0 /\ N = ice * top
  BY <1>1, <1>2, Products
<1> HIDE DEF top
<1>5. ASSUME NEW id \in 0 .. ice * top - 1
      PROVE  /\ xy(id) = id \div ice /\ z(id) = id % ice
             /\ xy(id) \in 0 .. top - 1 /\ z(id) \in 0 .. ice - 1 /\ id = ice * xy(id) + z(id)
  <2>1. id % ice \in 0 .. ice - 1 /\ id \div ice \in 0 .. top - 1
    BY <1>2, <1>4, TwoDigits
  <2>2. id \in Nat
    <3>1. ice * top \in Int
      BY <1>2, <1>4, Products
    <3> QED BY <3>1
  <2>3. id = ice * (id \div ice) + (id % ice)
    BY <1>2, <2>2, DivMod
  <2> QED BY <1>3, <1>4, <2>1, <2>3
<1> QED BY <1>2, <1>4, <1>5 DEF ice, top, nA, nB, xy, z, N

(* No two work groups have the same tile and the same share of it.         *)
THEOREM GroupsApart ==
  ASSUME NEW p, IsProblem(p), Derivable(p.hp, p.gg), Fits(p),
         NEW id \in 0 .. MainWorkGroups(p.hp, p.gg) - 1, NEW other \in 0 .. MainWorkGroups(p.hp, p.gg) - 1,
         TileOf(p.hp, p.gg, id)["A"] = TileOf(p.hp, p.gg, other)["A"],
         TileOf(p.hp, p.gg, id)["B"] = TileOf(p.hp, p.gg, other)["B"],
         GroupZ(p.hp, p.gg, id) = GroupZ(p.hp, p.gg, other)
  PROVE  id = other
<1> DEFINE ice == p.hp["C"]["ICE"]
           top == NGroups(p.hp, p.gg, "A") * NGroups(p.hp, p.gg, "B")
           xy(i) == Xy(p.hp, p.gg, i)
           z(i) == GroupZ(p.hp, p.gg, i)
<1>1. \A i \in 0 .. MainWorkGroups(p.hp, p.gg) - 1 : xy(i) \in 0 .. top - 1 /\ i = ice * xy(i) + z(i)
  BY IdsOfGroups
<1>2. \A i : TileOf(p.hp, p.gg, i) = Numbered(p, xy(i))
  BY TileIsNumbered
<1>3. \A u, v \in 0 .. top - 1 :
        Numbered(p, u)["A"] = Numbered(p, v)["A"] /\ Numbered(p, u)["B"] = Numbered(p, v)["B"] => u = v
  BY NumberedOnce
<1> HIDE DEF xy, top, ice, z
<1>4. xy(id) = xy(other)
  BY <1>1, <1>2, <1>3
<1> QED BY <1>1, <1>4 DEF z

(* Every share of every tile has its work group.                           *)
THEOREM GroupsCover ==
  ASSUME NEW p, IsProblem(p), Derivable(p.hp, p.gg), Fits(p), NEW z \in 0 .. p.hp["C"]["ICE"] - 1,
         NEW a \in 0 .. NGroups(p.hp, p.gg, "A") - 1, NEW b \in 0 .. NGroups(p.hp, p.gg, "B") - 1
  PROVE  \E id \in 0 .. MainWorkGroups(p.hp, p.gg) - 1 :
           /\ TileOf(p.hp, p.gg, id)["A"] = a /\ TileOf(p.hp, p.gg, id)["B"] = b
           /\ GroupZ(p.hp, p.gg, id) = z
<1> DEFINE ice == p.hp["C"]["ICE"]
           top == NGroups(p.hp, p.gg, "A") * NGroups(p.hp, p.gg, "B")
<1>1. PICK v \in 0 .. top - 1 : Numbered(p, v)["A"] = a /\ Numbered(p, v)["B"] = b
  BY NumberedOnce
<1>2. ice \in Nat /\ ice > 0 /\ top \in Nat /\ MainWorkGroups(p.hp, p.gg) = ice * top
  BY IdsOfGroups
<1> DEFINE id == ice * v + z
<1>3. id \in 0 .. ice * top - 1 /\ id % ice = z /\ id \div ice = v
  <2> HIDE DEF ice, top
  <2>1. z \in 0 .. ice - 1
    BY DEF ice
  <2> QED BY <1>1, <1>2, <2>1, OfDigits
<1> HIDE DEF id
<1>4. Xy(p.hp, p.gg, id) = id \div ice /\ GroupZ(p.hp, p.gg, id) = id % ice
  BY <1>3, IdsOfGroups
<1>5. TileOf(p.hp, p.gg, id) = Numbered(p, v)
  BY <1>3, <1>4, TileIsNumbered
<1> QED BY <1>1, <1>2, <1>3, <1>4, <1>5

(* Bags of elements that are there once.                                   *)
LEMMA DisjointBags ==
  ASSUME NEW S, NEW T, S \cap T = {}
  PROVE  SetToBag(S) (+) SetToBag(T) = SetToBag(S \cup T)
<1>1. DOMAIN SetToBag(S) = S /\ DOMAIN SetToBag(T) = T
  BY DEF SetToBag
<1>2. \A e \in S \cup T : (IF e \in S THEN SetToBag(S)[e] ELSE 0) + (IF e \in T THEN SetToBag(T)[e] ELSE 0) = 1
  <2> SUFFICES ASSUME NEW e \in S \cup T
               PROVE  (IF e \in S THEN SetToBag(S)[e] ELSE 0) + (IF e \in T THEN SetToBag(T)[e] ELSE 0) = 1
    OBVIOUS
  <2>1. CASE e \in S
    BY <2>1 DEF SetToBag
  <2>2. CASE e \notin S
    BY <2>2 DEF SetToBag
  <2> QED BY <2>1, <2>2
<1>3. SetToBag(S) (+) SetToBag(T) =
        [e \in S \cup T |-> (IF e \in S THEN SetToBag(S)[e] ELSE 0) + (IF e \in T THEN SetToBag(T)[e] ELSE 0)]
  BY <1>1 DEF (+)
<1> QED BY <1>2, <1>3 DEF SetToBag

(* The empty bag is that of no elements.                                   *)
LEMMA NoBag == EmptyBag = SetToBag({})
BY DEF EmptyBag

(* The bag of a function that takes no value twice.                        *)
LEMMA BagOfOnce ==
  ASSUME NEW f, \A i, j \in DOMAIN f : f[i] = f[j] => i = j
  PROVE  BagOf(f) = SetToBag({f[i] : i \in DOMAIN f})
<1>1. ASSUME NEW v \in {f[i] : i \in DOMAIN f} PROVE Cardinality({i \in DOMAIN f : f[i] = v}) = 1
  <2>1. PICK j \in DOMAIN f : f[j] = v
    OBVIOUS
  <2>2. {i \in DOMAIN f : f[i] = v} = {j}
    BY <2>1
  <2> QED BY <2>2, FS_Singleton
<1> QED BY <1>1 DEF BagOf, SetToBag

(* An element of C is scaled as it is.                                     *)
LEMMA ScaledOnce ==
  ASSUME NEW i
  PROVE  Scale(SetToBag({Old(i)})) = SetToBag({<<"beta", Old(i)>>})
<1>1. DOMAIN SetToBag({Old(i)}) = {Old(i)} /\ SetToBag({Old(i)})[Old(i)] = 1
  BY DEF SetToBag
<1>2. \A t \in {<<"beta", Old(i)>>} : t[2] = Old(i)
  OBVIOUS
<1> DEFINE bag == SetToBag({Old(i)})
<1>3. Scale(bag) = [t \in {<<"beta", s>> : s \in DOMAIN bag} |-> bag[t[2]]]
  BY DEF Scale
<1>4. {<<"beta", s>> : s \in DOMAIN bag} = {<<"beta", Old(i)>>}
  BY <1>1
<1>5. \A t \in {<<"beta", Old(i)>>} : bag[t[2]] = 1
  BY <1>1, <1>2
<1> HIDE DEF bag
<1>6. Scale(bag) = [t \in {<<"beta", Old(i)>>} |-> 1]
  BY <1>3, <1>4, <1>5
<1> QED BY <1>6 DEF bag, SetToBag

(* No product is an element of C, scaled or not.                           *)
LEMMA ProductsAreOther ==
  ASSUME NEW p, NEW i, NEW j, NEW D, NEW e, NEW t \in {Old(e), <<"beta", Old(e)>>}
  PROVE  t \notin ProductsOf(p, i, j, D)
<1> SUFFICES ASSUME NEW d \in D, t = ProductAt(p, i, j, d) PROVE FALSE
  BY DEF ProductsOf
<1>1. t[1] = "ab"
  BY DEF ProductAt, Prod
<1>2. t[1] \in {"c", "beta"}
  BY DEF Old
<1> QED BY <1>1, <1>2

(* The strides of a matrix that is not packed.                             *)
LEMMA StridesOfMatrix ==
  ASSUME NEW p, IsProblem(p), NEW x \in Chiral
  PROVE  /\ Stride(p.hp, p.gg, x, FALSE, FALSE, UNUSED) = IF CoalIsPllK(p.gg, x) THEN p.gg.ld[x] ELSE 1
         /\ Stride(p.hp, p.gg, x, TRUE, FALSE, UNUSED) = IF CoalIsPllK(p.gg, x) THEN 1 ELSE p.gg.ld[x]
BY DEF Stride, UNUSED, COPY, NFORM

(* Elements of a row of A or a column of B have addresses of their own.    *)
LEMMA AddressesApart ==
  ASSUME NEW p, IsProblem(p), NEW x \in Chiral, NEW e \in 0 .. NonKDim(p.gg, x) - 1,
         NEW d \in 0 .. p.gg.k - 1, NEW f \in 0 .. p.gg.k - 1, AddressOf(p, x, e, d) = AddressOf(p, x, e, f)
  PROVE  d = f
<1> DEFINE ld == p.gg.ld[x]
           o == p.off[x]
           adr(v) == AddressOf(p, x, e, v)
<1>1. ld \in Nat /\ o \in Nat /\ ld >= Coal(p.gg, x) /\ p.gg.k \in Nat /\ NonKDim(p.gg, x) \in Nat
  BY ProblemParts DEF NonKDim, Chiral, Mats
<1>2. Coal(p.gg, x) = IF CoalIsPllK(p.gg, x) THEN p.gg.k ELSE NonKDim(p.gg, x)
  BY LinesOfMatrix
<1>3. \A v : adr(v) = o + (IF CoalIsPllK(p.gg, x) THEN ld ELSE 1) * e + (IF CoalIsPllK(p.gg, x) THEN 1 ELSE ld) * v
  BY StridesOfMatrix DEF AddressOf
<1>4. adr(d) = adr(f)
  OBVIOUS
<1>5. d \in Nat /\ f \in Nat /\ e \in Nat /\ e < NonKDim(p.gg, x)
  BY <1>1
<1> HIDE DEF ld, o, adr
<1>6. CASE CoalIsPllK(p.gg, x)
  <2> DEFINE t == ld * e
  <2>1. adr(d) = o + t + 1 * d /\ adr(f) = o + t + 1 * f
    BY <1>3, <1>6
  <2>2. t \in Int /\ o \in Int /\ d \in Int /\ f \in Int
    BY <1>1, <1>5, Products
  <2> HIDE DEF t
  <2>3. o + t + d = o + t + f
    <3>1. o + t + 1 * d = o + t + 1 * f
      BY <1>4, <2>1
    <3> QED BY <2>2, <3>1
  <2> QED BY ONLY <2>2, <2>3
<1>7. CASE ~CoalIsPllK(p.gg, x)
  <2> DEFINE t == ld * d
             u == ld * f
  <2>1. adr(d) = o + 1 * e + t /\ adr(f) = o + 1 * e + u
    BY <1>3, <1>7
  <2>2. t \in Int /\ u \in Int /\ o \in Int /\ e \in Int
    BY <1>1, <1>5, Products
  <2> HIDE DEF t, u
  <2>3. o + e + t = o + e + u
    <3>1. o + 1 * e + t = o + 1 * e + u
      BY <1>4, <2>1
    <3> QED BY <2>2, <3>1
  <2>4. t = u
    BY ONLY <2>2, <2>3
  <2>5. ld > 0
    BY <1>1, <1>2, <1>5, <1>7
  <2>6. ld * d = ld * f
    BY <2>4 DEF t, u
  <2>7. d \in Int /\ f \in Int /\ ld \in Nat
    BY <1>1, <1>5
  <2> QED BY <2>5, <2>6, <2>7, ProductsGrow
<1> QED BY <1>6, <1>7

(* No product is there twice for an element of C.                          *)
LEMMA ProductsApart ==
  ASSUME NEW p, IsProblem(p), NEW i \in 0 .. p.gg.m - 1, NEW j,
         NEW d \in 0 .. p.gg.k - 1, NEW f \in 0 .. p.gg.k - 1, ProductAt(p, i, j, d) = ProductAt(p, i, j, f)
  PROVE  d = f
<1>1. AddressOf(p, "A", i, d) = AddressOf(p, "A", i, f)
  <2>1. ProductAt(p, i, j, d)[2] = ProductAt(p, i, j, f)[2]
    OBVIOUS
  <2> QED BY <2>1 DEF ProductAt, Prod
<1>2. i \in 0 .. NonKDim(p.gg, "A") - 1
  BY DEF NonKDim
<1> QED BY <1>1, <1>2, AddressesApart DEF Chiral

(* Which of the dimensions of A and of B is contiguous, by the transposes. *)
LEMMA LayoutOfMatrix ==
  ASSUME NEW p, IsProblem(p), NEW x \in Chiral
  PROVE  /\ p.gg.cm \in BOOLEAN /\ p.gg.t[x] \in BOOLEAN
         /\ CoalIsPllK(p.gg, x) <=> IF x = "A" THEN (p.gg.t[x] <=> p.gg.cm) ELSE ~(p.gg.t[x] <=> p.gg.cm)
<1>1. p.gg.cm \in BOOLEAN /\ p.gg.t[x] \in BOOLEAN
  BY DEF IsProblem, IsGeometry, Chiral, Mats
<1> DEFINE cm == p.gg.cm
           tx == p.gg.t[x]
           isA == x = "A"
<1>2. isA \in BOOLEAN /\ cm \in BOOLEAN /\ tx \in BOOLEAN
  BY <1>1
<1>3. CoalIsPllK(p.gg, x) <=> Cardinality({i \in 1 .. 3 : <<cm, tx, isA>>[i]}) % 2 = 1
  BY DEF CoalIsPllK
<1> HIDE DEF cm, tx, isA
<1>4. CoalIsPllK(p.gg, x) <=>
        (cm /\ tx /\ isA) \/ (cm /\ ~tx /\ ~isA) \/ (~cm /\ tx /\ ~isA) \/ (~cm /\ ~tx /\ isA)
  BY <1>2, <1>3, OddOfThree
<1>5. CoalIsPllK(p.gg, x) <=> IF isA THEN (tx <=> cm) ELSE ~(tx <=> cm)
  BY <1>2, <1>4, Zenon
<1> QED BY <1>1, <1>5 DEF cm, tx, isA

(* The geometry of a problem is one of all geometries.                     *)
LEMMA ProblemGeometry ==
  ASSUME NEW p, IsProblem(p)
  PROVE  p.gg \in Geometries /\ LdxConsistent(p.gg)
BY DEF IsProblem, IsGeometry, Geometries

(* The address of an element of A or B, by how it is laid out.             *)
LEMMA AddressByLayout ==
  ASSUME NEW p, IsProblem(p), NEW x \in Chiral, NEW e \in Nat, NEW d \in Nat
  PROVE  /\ p.gg.ld[x] \in Nat /\ p.off[x] \in Nat
         /\ AddressOf(p, x, e, d) =
              p.off[x] + (IF IF x = "A" THEN (p.gg.t[x] <=> p.gg.cm) ELSE ~(p.gg.t[x] <=> p.gg.cm)
                          THEN e * p.gg.ld[x] + d ELSE e + d * p.gg.ld[x])
<1> DEFINE ld == p.gg.ld[x]
           o == p.off[x]
           isK == CoalIsPllK(p.gg, x)
<1>1. ld \in Nat /\ o \in Nat
  BY ProblemParts DEF Chiral, Mats
<1>2. AddressOf(p, x, e, d) = o + (IF isK THEN ld ELSE 1) * e + (IF isK THEN 1 ELSE ld) * d
  BY StridesOfMatrix DEF AddressOf
<1>3. isK <=> IF x = "A" THEN (p.gg.t[x] <=> p.gg.cm) ELSE ~(p.gg.t[x] <=> p.gg.cm)
  BY LayoutOfMatrix
<1> HIDE DEF ld, o, isK
<1>4. ld * e = e * ld /\ ld * d = d * ld /\ e * ld \in Int /\ d * ld \in Int
  BY <1>1, Products
<1>5. CASE isK
  <2>1. AddressOf(p, x, e, d) = o + ld * e + 1 * d
    BY <1>2, <1>5
  <2>2. o + ld * e + 1 * d = o + (e * ld + d)
    BY <1>1, <1>4
  <2> QED BY <1>1, <1>3, <1>5, <2>1, <2>2 DEF ld, o
<1>6. CASE ~isK
  <2>1. AddressOf(p, x, e, d) = o + 1 * e + ld * d
    BY <1>2, <1>6
  <2>2. o + 1 * e + ld * d = o + (e + d * ld)
    BY <1>1, <1>4
  <2> QED BY <1>1, <1>3, <1>6, <2>1, <2>2 DEF ld, o
<1> QED BY <1>5, <1>6

(* The host sums the products of an element of C, all of them once.        *)
LEMMA CpuSums ==
  ASSUME NEW p, IsProblem(p), NEW cell \in Cells(p), NEW i, NEW j,
         IF Swapped(p.gg) THEN i = cell[2] /\ j = cell[1] ELSE i = cell[1] /\ j = cell[2]
  PROVE  CpuElement(p.gg, p.off, i, j) = SetToBag(ProductsOf(p, cell[1], cell[2], 0 .. p.gg.k - 1))
<1> DEFINE gg == p.gg
           h == Canonical(gg)
           a(z) == IF h.t["A"] THEN i * h.ld["A"] + z ELSE i + z * h.ld["A"]
           b(z) == IF h.t["B"] THEN j + z * h.ld["B"] ELSE j * h.ld["B"] + z
           oA == p.off["A"]
           oB == p.off["B"]
           D == 0 .. h.k - 1
           term(z) == IF IsNotCanonical(gg) THEN Prod(oA + b(z), oB + a(z)) ELSE Prod(oA + a(z), oB + b(z))
           f == [z \in D |-> term(z)]
           pr(z) == ProductAt(p, cell[1], cell[2], z)
<1>1. gg \in Geometries
  BY ProblemGeometry
<1>2. CpuElement(gg, p.off, i, j) = BagOf(f)
  BY DEF CpuElement
<1>3. h.k = gg.k /\ gg.k \in Nat /\ cell[1] \in 0 .. gg.m - 1 /\ cell[2] \in 0 .. gg.n - 1 /\ cell[1] \in Nat /\ cell[2] \in Nat
  BY <1>1, CanonicalParts, ProblemParts DEF Cells
<1>4. IsNotCanonical(gg) <=> Swapped(gg)
  BY <1>1, CanonicalParts
<1>5. ASSUME NEW z \in D PROVE term(z) = pr(z)
  <2>0. z \in Nat
    BY <1>3
  <2>1. AddressOf(p, "A", cell[1], z) =
          oA + (IF gg.t["A"] <=> gg.cm THEN cell[1] * gg.ld["A"] + z ELSE cell[1] + z * gg.ld["A"])
    BY <1>3, <2>0, AddressByLayout DEF Chiral
  <2>2. AddressOf(p, "B", cell[2], z) =
          oB + (IF ~(gg.t["B"] <=> gg.cm) THEN cell[2] * gg.ld["B"] + z ELSE cell[2] + z * gg.ld["B"])
    BY <1>3, <2>0, AddressByLayout DEF Chiral
  <2>3. pr(z) = Prod(AddressOf(p, "A", cell[1], z), AddressOf(p, "B", cell[2], z))
    BY DEF ProductAt
  <2>4. gg.cm \in BOOLEAN /\ gg.t["A"] \in BOOLEAN /\ gg.t["B"] \in BOOLEAN
    BY LayoutOfMatrix DEF Chiral
  <2>5. CASE ~Swapped(gg)
    <3>1. h.ld["A"] = gg.ld["A"] /\ h.ld["B"] = gg.ld["B"] /\ i = cell[1] /\ j = cell[2]
          /\ (h.t["A"] <=> (gg.t["A"] <=> gg.cm)) /\ (h.t["B"] <=> (gg.t["B"] <=> gg.cm))
      BY <1>1, <2>5, CanonicalParts
    <3>2. term(z) = Prod(oA + a(z), oB + b(z))
      BY <1>4, <2>5
    <3>3. oA + a(z) = AddressOf(p, "A", cell[1], z)
      BY <2>1, <3>1
    <3>4. oB + b(z) = AddressOf(p, "B", cell[2], z)
      BY <2>2, <3>1
    <3> HIDE DEF a, b, oA, oB, term, pr
    <3> QED BY <2>3, <3>2, <3>3, <3>4
  <2>6. CASE Swapped(gg)
    <3>1. h.ld["A"] = gg.ld["B"] /\ h.ld["B"] = gg.ld["A"] /\ i = cell[2] /\ j = cell[1]
          /\ (h.t["A"] <=> (gg.t["B"] <=> ~gg.cm)) /\ (h.t["B"] <=> (gg.t["A"] <=> ~gg.cm))
      BY <1>1, <2>6, CanonicalParts
    <3>2. term(z) = Prod(oA + b(z), oB + a(z))
      BY <1>4, <2>6
    <3>3. oB + a(z) = AddressOf(p, "B", cell[2], z)
      <4>1. h.t["A"] <=> ~(gg.t["B"] <=> gg.cm)
        BY <2>4, <3>1
      <4> QED BY <2>2, <3>1, <4>1
    <3>4. oA + b(z) = AddressOf(p, "A", cell[1], z)
      <4>1. h.t["B"] <=> ~(gg.t["A"] <=> gg.cm)
        BY <2>4, <3>1
      <4> QED BY <2>1, <3>1, <4>1
    <3> HIDE DEF a, b, oA, oB, term, pr
    <3> QED BY <2>3, <3>2, <3>3, <3>4
  <2> QED BY <2>5, <2>6
<1>6. D = 0 .. gg.k - 1
  BY <1>3
<1> HIDE DEF term, D
<1>7. f = [z \in D |-> pr(z)]
  BY <1>5
<1>8. \A z, y \in D : f[z] = f[y] => z = y
  <2> SUFFICES ASSUME NEW z \in D, NEW y \in D, f[z] = f[y] PROVE z = y
    OBVIOUS
  <2>1. pr(z) = pr(y)
    <3> HIDE DEF pr
    <3> QED BY <1>7
  <2> QED BY <1>3, <1>6, <2>1, ProductsApart
<1>9. DOMAIN f = D /\ {f[z] : z \in D} = ProductsOf(p, cell[1], cell[2], D)
  <2>1. \A z \in D : f[z] = pr(z)
    <3> HIDE DEF pr
    <3> QED BY <1>7
  <2>2. {f[z] : z \in D} = {pr(z) : z \in D}
    BY <2>1
  <2> QED BY <2>2 DEF ProductsOf
<1> HIDE DEF f
<1>10. BagOf(f) = SetToBag({f[z] : z \in DOMAIN f})
  BY <1>8, <1>9, BagOfOnce
<1> QED BY <1>2, <1>6, <1>9, <1>10

(* The line of C that an element is in, and its place there.               *)
CellLine(p, cell) == IF p.gg.t["C"] # p.gg.cm THEN cell[2] ELSE cell[1]
CellPlace(p, cell) == IF p.gg.t["C"] # p.gg.cm THEN cell[1] ELSE cell[2]

AtCell(p, cell) == CAddress(p, cell[1], cell[2])

(* The elements of C are the places before the padding of its lines.       *)
LEMMA CellLayout ==
  ASSUME NEW p, IsProblem(p)
  PROVE  /\ p.gg.ld["C"] \in Nat /\ p.off["C"] \in Nat /\ p.tail["C"] \in Nat
         /\ Coal(p.gg, "C") \in Nat /\ Uncoal(p.gg, "C") \in Nat /\ Coal(p.gg, "C") <= p.gg.ld["C"]
         /\ PaddedArea(p.gg, "C") = p.gg.ld["C"] * Uncoal(p.gg, "C")
         /\ PaddedArea(p.gg, "C") \in Nat
         /\ BufferSize(p.gg, p.off, p.tail, "C") = PaddedArea(p.gg, "C") + p.off["C"] + p.tail["C"]
         /\ Coal(p.gg, "C") = (IF Swapped(p.gg) THEN p.gg.n ELSE p.gg.m)
         /\ Uncoal(p.gg, "C") = (IF Swapped(p.gg) THEN p.gg.m ELSE p.gg.n)
         /\ Swapped(p.gg) <=> ~(p.gg.t["C"] # p.gg.cm)
<1> DEFINE gg == p.gg
           across == gg.t["C"] # gg.cm
<1>1. gg.m \in Nat /\ gg.n \in Nat /\ p.off["C"] \in Nat /\ p.tail["C"] \in Nat
  BY ProblemParts DEF Mats
<1>2. gg.ld["C"] \in Nat /\ gg.ld["C"] >= Coal(gg, "C")
  BY DEF IsProblem, IsGeometry, LdxConsistent, Mats
<1>3. gg.cm \in BOOLEAN /\ gg.t["C"] \in BOOLEAN
  BY DEF IsProblem, IsGeometry, Mats
<1>4. Swapped(gg) <=> ~across
  BY <1>3 DEF Swapped
<1>5. Coal(gg, "C") = (IF across THEN gg.m ELSE gg.n) /\ Uncoal(gg, "C") = (IF across THEN gg.n ELSE gg.m)
  BY <1>3 DEF Coal, Uncoal, PadlessDim
<1>6. Coal(gg, "C") \in Nat /\ Uncoal(gg, "C") \in Nat
  BY <1>1, <1>5
<1>7. PaddedArea(gg, "C") = gg.ld["C"] * Uncoal(gg, "C") /\ PaddedArea(gg, "C") \in Nat
  <2>1. PaddedArea(gg, "C") = Uncoal(gg, "C") * gg.ld["C"]
    BY DEF PaddedArea
  <2>2. gg.ld["C"] \in Int /\ Uncoal(gg, "C") \in Int /\ gg.ld["C"] >= 0 /\ Uncoal(gg, "C") >= 0
    BY <1>2, <1>6
  <2> HIDE DEF gg
  <2> QED BY <2>1, <2>2, Products
<1>8. BufferSize(gg, p.off, p.tail, "C") = PaddedArea(gg, "C") + p.off["C"] + p.tail["C"]
  BY DEF BufferSize
<1> QED BY <1>1, <1>2, <1>4, <1>5, <1>6, <1>7, <1>8

(* Where in memory an element of C is, and that there is one in each line  *)
(* at each place before its padding.                                       *)
LEMMA CellsAreLaidOut ==
  ASSUME NEW p, IsProblem(p)
  PROVE  /\ \A cell \in Cells(p) :
              /\ CellLine(p, cell) \in 0 .. Uncoal(p.gg, "C") - 1 /\ CellPlace(p, cell) \in 0 .. Coal(p.gg, "C") - 1
              /\ AtCell(p, cell) = p.off["C"] + (p.gg.ld["C"] * CellLine(p, cell) + CellPlace(p, cell))
         /\ \A u \in 0 .. Uncoal(p.gg, "C") - 1, v \in 0 .. Coal(p.gg, "C") - 1 :
              \E cell \in Cells(p) : CellLine(p, cell) = u /\ CellPlace(p, cell) = v
<1> DEFINE ld == p.gg.ld["C"]
           o == p.off["C"]
           across == p.gg.t["C"] # p.gg.cm
           nu == Uncoal(p.gg, "C")
           nv == Coal(p.gg, "C")
           m == p.gg.m
           n == p.gg.n
<1>1. ld \in Nat /\ o \in Nat /\ nv = (IF across THEN m ELSE n) /\ nu = (IF across THEN n ELSE m)
  BY CellLayout
<1>2. Cells(p) = (0 .. m - 1) \X (0 .. n - 1) /\ m \in Nat /\ n \in Nat
  BY ProblemParts DEF Cells
<1>3. /\ \A cell : CellLine(p, cell) = (IF across THEN cell[2] ELSE cell[1])
      /\ \A cell : CellPlace(p, cell) = (IF across THEN cell[1] ELSE cell[2])
      /\ \A cell : AtCell(p, cell) = o + (IF across THEN 1 ELSE ld) * cell[1] + (IF across THEN ld ELSE 1) * cell[2]
  BY DEF CellLine, CellPlace, CAddress, AtCell
<1> HIDE DEF ld, o, across, nu, nv, m, n
<1>4. ASSUME NEW cell \in Cells(p)
      PROVE  /\ CellLine(p, cell) \in 0 .. nu - 1 /\ CellPlace(p, cell) \in 0 .. nv - 1
             /\ AtCell(p, cell) = o + (ld * CellLine(p, cell) + CellPlace(p, cell))
  <2>1. cell[1] \in 0 .. m - 1 /\ cell[2] \in 0 .. n - 1
    BY <1>2
  <2>2. cell[1] \in Int /\ cell[2] \in Int /\ ld * cell[1] \in Int /\ ld * cell[2] \in Int
    BY <1>1, <1>2, <2>1, Products
  <2>3. CASE across
    <3>1. AtCell(p, cell) = o + 1 * cell[1] + ld * cell[2]
      BY <1>3, <2>3
    <3> QED BY <1>1, <1>3, <2>1, <2>2, <2>3, <3>1
  <2>4. CASE ~across
    <3>1. AtCell(p, cell) = o + ld * cell[1] + 1 * cell[2]
      BY <1>3, <2>4
    <3> QED BY <1>1, <1>3, <2>1, <2>2, <2>4, <3>1
  <2> QED BY <2>3, <2>4
<1>5. ASSUME NEW u \in 0 .. nu - 1, NEW v \in 0 .. nv - 1
      PROVE  \E cell \in Cells(p) : CellLine(p, cell) = u /\ CellPlace(p, cell) = v
  <2>1. CASE across
    <3>1. <<v, u>> \in Cells(p) /\ CellLine(p, <<v, u>>) = u /\ CellPlace(p, <<v, u>>) = v
      BY <1>1, <1>2, <1>3, <2>1
    <3> QED BY <3>1
  <2>2. CASE ~across
    <3>1. <<u, v>> \in Cells(p) /\ CellLine(p, <<u, v>>) = u /\ CellPlace(p, <<u, v>>) = v
      BY <1>1, <1>2, <1>3, <2>2
    <3> QED BY <3>1
  <2> QED BY <2>1, <2>2
<1> QED BY <1>4, <1>5 DEF ld, o, nu, nv

(* What the three loops of the host give: every element of C scaled, with  *)
(* all of its products once, and the rest of the buffer as it was.         *)
AddsUp(p, r) ==
  /\ DOMAIN r = 0 .. BufferSize(p.gg, p.off, p.tail, "C") - 1
  /\ \A cell \in Cells(p) :
       r[AtCell(p, cell)] = SetToBag({<<"beta", Old(AtCell(p, cell))>>}
                                     \cup ProductsOf(p, cell[1], cell[2], 0 .. p.gg.k - 1))
  /\ \A i \in DOMAIN r : (\A cell \in Cells(p) : i # AtCell(p, cell)) => r[i] = SetToBag({Old(i)})

(* The host adds up every product of every element of C (gemm_3fors).      *)
THEOREM CpuAddsUp ==
  ASSUME NEW p, IsProblem(p)
  PROVE  AddsUp(p, CpuResult(p.gg, p.off, p.tail))
<1> DEFINE gg == p.gg
           h == Canonical(gg)
           ld == gg.ld["C"]
           o == p.off["C"]
           S == {o + i + j * h.ld["C"] : i \in 0 .. h.m - 1, j \in 0 .. h.n - 1}
           cl == [address \in S |-> <<(address - o) % h.ld["C"], (address - o) \div h.ld["C"]>>]
           N == BufferSize(gg, p.off, p.tail, "C")
           one(i) == Scale(SetToBag({Old(i)})) (+) CpuElement(gg, p.off, cl[i][1], cl[i][2])
           r == CpuResult(gg, p.off, p.tail)
           nv == Coal(gg, "C")
           nu == Uncoal(gg, "C")
<1>1. r = [address \in 0 .. N - 1 |-> IF address \in DOMAIN cl THEN one(address) ELSE SetToBag({Old(address)})]
  BY DEF CpuResult
<1>2. h.ld["C"] = ld /\ h.m = nv /\ h.n = nu /\ ld \in Nat /\ o \in Nat /\ nv <= ld /\ nv \in Nat /\ nu \in Nat
  <2>1. gg \in Geometries
    BY ProblemGeometry
  <2>2. h.ld["C"] = ld /\ h.m = (IF Swapped(gg) THEN gg.n ELSE gg.m) /\ h.n = (IF Swapped(gg) THEN gg.m ELSE gg.n)
    BY <2>1, CanonicalParts
  <2> QED BY <2>2, CellLayout
<1>3. DOMAIN cl = S /\ \A i \in S : cl[i] = <<(i - o) % ld, (i - o) \div ld>>
  BY <1>2
<1>4. S = {o + i + j * ld : i \in 0 .. nv - 1, j \in 0 .. nu - 1}
  BY <1>2
<1> HIDE DEF h, S, cl
<1>5. ASSUME NEW cell \in Cells(p)
      PROVE  /\ AtCell(p, cell) \in S /\ AtCell(p, cell) \in 0 .. N - 1
             /\ cl[AtCell(p, cell)] = <<CellPlace(p, cell), CellLine(p, cell)>>
  <2> DEFINE u == CellLine(p, cell)
             v == CellPlace(p, cell)
  <2>1. u \in 0 .. nu - 1 /\ v \in 0 .. nv - 1 /\ AtCell(p, cell) = o + (ld * u + v)
    BY CellsAreLaidOut
  <2>2. AtCell(p, cell) \in 0 .. N - 1
    BY CellAddresses DEF AtCell
  <2> HIDE DEF u, v, ld, o, nu, nv, gg
  <2>3. u \in Int /\ v \in Int /\ ld * u \in Int /\ ld * u = u * ld /\ 0 <= v /\ v < ld
    BY <1>2, <2>1, Products
  <2>4. AtCell(p, cell) = o + v + u * ld
    BY <1>2, <2>1, <2>3
  <2>5. AtCell(p, cell) \in S
    BY <1>4, <2>1, <2>4
  <2>6. AtCell(p, cell) - o = ld * u + v
    BY <1>2, <2>1, <2>3
  <2>7. (ld * u + v) % ld = v /\ (ld * u + v) \div ld = u
    BY <1>2, <2>3, DivUnique
  <2> QED BY <1>3, <2>2, <2>5, <2>6, <2>7 DEF u, v
<1>6. ASSUME NEW i \in S PROVE \E cell \in Cells(p) : i = AtCell(p, cell)
  <2>1. PICK v \in 0 .. nv - 1, u \in 0 .. nu - 1 : i = o + v + u * ld
    BY <1>4
  <2>2. PICK cell \in Cells(p) : CellLine(p, cell) = u /\ CellPlace(p, cell) = v
    BY <2>1, CellsAreLaidOut
  <2>3. AtCell(p, cell) = o + (ld * u + v)
    BY <2>2, CellsAreLaidOut
  <2> HIDE DEF ld, o, nu, nv, gg
  <2>4. u \in Int /\ v \in Int /\ ld * u \in Int /\ ld * u = u * ld
    BY <1>2, <2>1, Products
  <2>5. i = AtCell(p, cell)
    BY <1>2, <2>1, <2>3, <2>4
  <2> QED BY <2>5
<1>7. DOMAIN r = 0 .. N - 1
  BY <1>1
<1>8. ASSUME NEW cell \in Cells(p)
      PROVE  r[AtCell(p, cell)] = SetToBag({<<"beta", Old(AtCell(p, cell))>>}
                                           \cup ProductsOf(p, cell[1], cell[2], 0 .. gg.k - 1))
  <2> DEFINE i == AtCell(p, cell)
             D == ProductsOf(p, cell[1], cell[2], 0 .. gg.k - 1)
  <2>1. r[i] = Scale(SetToBag({Old(i)})) (+) CpuElement(gg, p.off, CellPlace(p, cell), CellLine(p, cell))
    BY <1>1, <1>3, <1>5
  <2>2. CpuElement(gg, p.off, CellPlace(p, cell), CellLine(p, cell)) = SetToBag(D)
    <3>1. Swapped(gg) <=> ~(gg.t["C"] # gg.cm)
      BY CellLayout
    <3>2. IF Swapped(gg) THEN CellPlace(p, cell) = cell[2] /\ CellLine(p, cell) = cell[1]
          ELSE CellPlace(p, cell) = cell[1] /\ CellLine(p, cell) = cell[2]
      BY <3>1 DEF CellPlace, CellLine
    <3> QED BY <3>2, CpuSums
  <2>3. Scale(SetToBag({Old(i)})) = SetToBag({<<"beta", Old(i)>>})
    BY ScaledOnce
  <2>4. <<"beta", Old(i)>> \notin D
    BY ProductsAreOther
  <2> HIDE DEF D, i
  <2>5. {<<"beta", Old(i)>>} \cap D = {}
    BY <2>4
  <2>6. r[i] = SetToBag({<<"beta", Old(i)>>} \cup D)
    BY <2>1, <2>2, <2>3, <2>5, DisjointBags
  <2> QED BY <2>6 DEF D, i
<1>9. ASSUME NEW i \in DOMAIN r, \A cell \in Cells(p) : i # AtCell(p, cell)
      PROVE  r[i] = SetToBag({Old(i)})
  <2>1. i \notin S
    BY <1>6, <1>9
  <2> QED BY <1>1, <1>3, <1>7, <2>1
<1> QED BY <1>7, <1>8, <1>9 DEF AddsUp

(* The comparison leaves out nothing of C: each element of its buffer is   *)
(* in one of the zones.                                                    *)
LEMMA ZonesCover ==
  ASSUME NEW p, IsProblem(p)
  PROVE  LET zones == Zones(p.gg, p.off, p.tail) IN
         UNION {zones[z] : z \in DOMAIN zones} = 0 .. BufferSize(p.gg, p.off, p.tail, "C") - 1
<1> DEFINE gg == p.gg
           ld == gg.ld["C"]
           o == p.off["C"]
           t == p.tail["C"]
           nv == Coal(gg, "C")
           nu == Uncoal(gg, "C")
           area == PaddedArea(gg, "C")
           N == BufferSize(gg, p.off, p.tail, "C")
           zones == Zones(gg, p.off, p.tail)
           proper(js) == {o + i * ld + j : i \in 0 .. nu - 1, j \in js}
<1>1. /\ ld \in Nat /\ o \in Nat /\ t \in Nat /\ nv \in Nat /\ nu \in Nat /\ nv <= ld
      /\ area = ld * nu /\ area \in Nat /\ N = area + o + t
  BY CellLayout
<1>2. zones = [before |-> 0 .. o - 1, after |-> o + area .. N - 1,
               matrix |-> proper(0 .. nv - 1), ldx |-> proper(nv .. ld - 1)]
  BY DEF Zones
<1>3. UNION {zones[z] : z \in DOMAIN zones} =
        (0 .. o - 1) \cup (o + area .. N - 1) \cup proper(0 .. nv - 1) \cup proper(nv .. ld - 1)
  <2>1. DOMAIN zones = {"before", "after", "matrix", "ldx"}
    BY <1>2
  <2>2. /\ zones["before"] = 0 .. o - 1 /\ zones["after"] = o + area .. N - 1
        /\ zones["matrix"] = proper(0 .. nv - 1) /\ zones["ldx"] = proper(nv .. ld - 1)
    BY <1>2
  <2> HIDE DEF zones, proper, o, area, N, nv, ld
  <2> QED BY <2>1, <2>2
<1> HIDE DEF ld, o, t, nv, nu, area, N, zones, gg
<1>4. ASSUME NEW i \in 0 .. nu - 1, NEW j \in 0 .. ld - 1 PROVE o + i * ld + j \in 0 .. N - 1
  <2>1. ld * i + j \in 0 .. ld * nu - 1
    BY <1>1, Blocked
  <2>2. ld * i = i * ld /\ ld * i \in Int /\ i \in Int /\ j \in Int
    BY <1>1, Products
  <2> QED BY <1>1, <2>1, <2>2
<1>5. ASSUME NEW a \in 0 .. N - 1
      PROVE  a \in (0 .. o - 1) \cup (o + area .. N - 1) \cup proper(0 .. nv - 1) \cup proper(nv .. ld - 1)
  <2>1. a \in Int /\ a >= 0 /\ a <= N - 1
    BY <1>1
  <2>2. CASE a < o
    BY <1>1, <2>1, <2>2
  <2>3. CASE a >= o + area
    BY <1>1, <2>1, <2>3
  <2>4. CASE a >= o /\ a < o + area
    <3> DEFINE b == a - o
               i == b \div ld
               j == b % ld
    <3>1. b \in 0 .. ld * nu - 1 /\ b \in Nat
      BY <1>1, <2>1, <2>4
    <3> HIDE DEF b
    <3>2. i \in 0 .. nu - 1 /\ j \in 0 .. ld - 1 /\ ld > 0
      BY <1>1, <3>1, TwoDigits
    <3>3. b = ld * i + j
      BY <1>1, <3>1, <3>2, DivMod
    <3> HIDE DEF i, j
    <3>4. ld * i = i * ld /\ ld * i \in Int /\ j \in Int
      BY <1>1, <3>2, Products
    <3>5. a = o + i * ld + j
      BY <1>1, <2>1, <3>3, <3>4 DEF b
    <3>6. j \in 0 .. nv - 1 \/ j \in nv .. ld - 1
      BY <1>1, <3>2
    <3>7. CASE j \in 0 .. nv - 1
      BY <3>2, <3>5, <3>7
    <3>8. CASE j \in nv .. ld - 1
      BY <3>2, <3>5, <3>8
    <3> QED BY <3>6, <3>7, <3>8
  <2> QED BY <1>1, <2>1, <2>2, <2>3, <2>4
<1>6. proper(0 .. nv - 1) \subseteq 0 .. N - 1 /\ proper(nv .. ld - 1) \subseteq 0 .. N - 1
  <2>1. \A j \in 0 .. nv - 1 : j \in 0 .. ld - 1
    BY <1>1
  <2>2. \A j \in nv .. ld - 1 : j \in 0 .. ld - 1
    BY <1>1
  <2>3. ASSUME NEW js, \A j \in js : j \in 0 .. ld - 1 PROVE proper(js) \subseteq 0 .. N - 1
    BY <1>4, <2>3
  <2> HIDE DEF proper
  <2> QED BY <2>1, <2>2, <2>3
<1>7. 0 .. o - 1 \subseteq 0 .. N - 1 /\ o + area .. N - 1 \subseteq 0 .. N - 1
  BY <1>1
<1> HIDE DEF proper
<1>8. UNION {zones[z] : z \in DOMAIN zones} = 0 .. N - 1
  BY <1>3, <1>5, <1>6, <1>7
<1> QED BY <1>8 DEF zones, N, gg

(* The groups of a tile have the summation among them, and no two of them  *)
(* have the same of it.                                                    *)
THEOREM SharesOfTile ==
  ASSUME NEW p, IsProblem(p), Derivable(p.hp, p.gg), NEW tile, tile["A"] \in Int, tile["B"] \in Int
  PROVE  LET zs == 0 .. p.hp["C"]["ICE"] - 1 IN
         /\ \A z \in zs : Share(p, tile, z) \subseteq 0 .. p.gg.k - 1
         /\ \A y, z \in zs : y # z => Share(p, tile, y) \cap Share(p, tile, z) = {}
         /\ \A P \in 0 .. p.gg.k - 1 : \E z \in zs : P \in Share(p, tile, z)
<1> DEFINE zs == 0 .. p.hp["C"]["ICE"] - 1
           unr == p.hp["C"]["UNR"]
           U(z) == UnrollsRemaining(p.hp, p.gg, tile, z)
<1>1. ASSUME NEW z \in zs PROVE z \in Nat /\ U(z) \in Nat
  <2>1. z \in Nat
    BY ProblemParts
  <2> QED BY <2>1, UnrollsAreCounted
<1>2. ASSUME NEW z \in zs, NEW n \in Nat, NEW d \in 0 .. unr - 1, Summing(p, tile, z, n, d) PROVE n \in 0 .. U(z)
  <2>1. n = 0 \/ n < U(z) \/ n = U(z)
    BY <1>2 DEF Summing
  <2>2. U(z) \in Nat
    BY <1>1
  <2> HIDE DEF U
  <2> QED BY <2>1, <2>2
<1>3. ASSUME NEW z \in zs, NEW P \in Share(p, tile, z)
      PROVE  \E n \in Nat, d \in 0 .. unr - 1 : Summing(p, tile, z, n, d) /\ P = Position(p, tile, z, n, d)
  <2>1. PICK s \in (0 .. U(z)) \X (0 .. unr - 1) : Summing(p, tile, z, s[1], s[2]) /\ P = Position(p, tile, z, s[1], s[2])
    BY DEF Share
  <2>2. U(z) \in Nat
    BY <1>1
  <2>3. s[1] \in 0 .. U(z) /\ s[2] \in 0 .. unr - 1
    OBVIOUS
  <2>4. s[1] \in Nat
    <3> HIDE DEF U
    <3> QED BY <2>2, <2>3
  <2> QED BY <2>1, <2>3, <2>4
<1>4. ASSUME NEW z \in zs PROVE Share(p, tile, z) \subseteq 0 .. p.gg.k - 1
  <2> SUFFICES ASSUME NEW P \in Share(p, tile, z) PROVE P \in 0 .. p.gg.k - 1
    OBVIOUS
  <2>1. PICK n \in Nat, d \in 0 .. unr - 1 : Summing(p, tile, z, n, d) /\ P = Position(p, tile, z, n, d)
    BY <1>3
  <2> QED BY <2>1, StepsAreInside
<1>5. ASSUME NEW y \in zs, NEW z \in zs, NEW P \in Share(p, tile, y), P \in Share(p, tile, z) PROVE y = z
  <2>1. PICK m \in Nat, e \in 0 .. unr - 1 : Summing(p, tile, y, m, e) /\ P = Position(p, tile, y, m, e)
    BY <1>3
  <2>2. PICK n \in Nat, d \in 0 .. unr - 1 : Summing(p, tile, z, n, d) /\ P = Position(p, tile, z, n, d)
    BY <1>3, <1>5
  <2> QED BY <2>1, <2>2, StepsAreApart
<1>6. ASSUME NEW P \in 0 .. p.gg.k - 1 PROVE \E z \in zs : P \in Share(p, tile, z)
  <2>1. PICK z \in zs, n \in Nat, d \in 0 .. unr - 1 : Summing(p, tile, z, n, d) /\ Position(p, tile, z, n, d) = P
    BY StepsCover
  <2>2. n \in 0 .. U(z)
    BY <1>2, <2>1
  <2> DEFINE s == <<n, d>>
  <2>3. s \in (0 .. U(z)) \X (0 .. unr - 1) /\ s[1] = n /\ s[2] = d
    BY <2>1, <2>2
  <2> HIDE DEF s
  <2>4. P \in Share(p, tile, z)
    BY <2>1, <2>3 DEF Share
  <2> QED BY <2>4
<1> QED BY <1>4, <1>5, <1>6
=================================================================================
