------------------------------ MODULE HyperParams ------------------------------
(***************************************************************************)
(* Hyper-parameters of a kernel (HyPas), constraints on them, the grid of  *)
(* work items of a work group, and the reflection of them all for a        *)
(* geometry of which A and B have changed places.                          *)
(***************************************************************************)
EXTENDS Geometry

Chi == {"MIC", "PAD", "PLU", "LIW", "MIW", "WOS", "VEW"}
NonChi == {"UNR", "GAL", "PUN", "ICE", "IWI", "SZT", "MAD", "NAW", "UFO", "MAC", "SKW",
           "AFI", "MIA"}

XChi(x) == IF x = "C" THEN NonChi ELSE Chi

(* What HyPas keeps of every one of them: a number, size_t but for SKW,     *)
(* which a reflection can make less than 0.                                *)
IsHyPas(h) ==
  /\ DOMAIN h = Mats
  /\ \A x \in Mats : h[x] \in [XChi(x) -> Int]

NO == 0
YES == 1
BYROW == 1
BYCOL == 2
SUCOL == 3
UNUSED == 0
COPY == 1
NFORM == 2

---------------------------------------------------------------------------
(* The grid of MAC work items, of skewness SKW.                            *)

Skew0 == 10

MacIsSquare(mac) == \E e \in 0 .. 15 : mac = 4^e

(* na = 2^e may be a fraction, and mac / na as well: then the grid is bad.  *)
Grid(mac, skew) ==
  LET e == (Log2(mac) \div 2) + (Log2(mac) % 2) - (skew - Skew0) IN
  IF e \in 0 .. 29 /\ mac % 2^e = 0
  THEN [isGood |-> TRUE, A |-> 2^e, B |-> mac \div 2^e]
  ELSE [isGood |-> FALSE, A |-> 0, B |-> 0]

---------------------------------------------------------------------------
(* A constraint is a function on the parameters it defines, a HyPas one on *)
(* all of them: reflect_c serves both.                                     *)

Defined(c, p) == p \in DOMAIN c

ReflectPossible(c) ==
  Defined(c, "SKW") /\ Defined(c, "MAC") => Grid(c["MAC"], c["SKW"]).isGood

(* A slip: the side that is longer by 2 in a grid that is not square.      *)
ReflectedSkewOfSquare(mac, skew) == 2 * Skew0 - skew

ReflectedSkew(mac, skew) == 2 * Skew0 - skew + (IF MacIsSquare(mac) THEN 0 ELSE 1)

ReflectC(c) ==
  [p \in DOMAIN c |->
     CASE p = "SKW" /\ Defined(c, "MAC") -> ReflectedSkew(c["MAC"], c["SKW"])
       [] p = "GAL" /\ c[p] \in {BYROW, BYCOL} -> BYROW + BYCOL - c[p]
       [] p \in {"AFI", "MIA"} /\ c[p] \in {NO, YES} -> YES - c[p]
       [] OTHER -> c[p]]

(* Both for HyPas and for one of the two parts of Constraints.             *)
Reflected(hp, swap) ==
  IF swap THEN [A |-> hp["B"], B |-> hp["A"], C |-> ReflectC(hp["C"])] ELSE hp

ReplaceWhereDefined(hp, c) ==
  [x \in Mats |-> [p \in XChi(x) |-> IF Defined(c[x], p) THEN c[x][p] ELSE hp[x][p]]]

Honours(hp, c) == \A x \in Mats : \A p \in DOMAIN c[x] : hp[x][p] = c[x][p]

(* Constraints: a number for some of the parameters of each matrix.        *)
AreConstraints(c) ==
  /\ DOMAIN c = Mats
  /\ \A x \in Mats : DOMAIN c[x] \subseteq XChi(x) /\ c[x] \in [DOMAIN c[x] -> Int]

(* Strings of hyper-parameters and of constraints are sequences of         *)
(* fragments <<matrix, key, value>>, those of a matrix side by side.  The  *)
(* last of a key counts.                                                   *)
Keys(frags, x) == {frags[i][2] : i \in {j \in DOMAIN frags : frags[j][1] = x}}

Readable(frags) == \A x \in Mats : Keys(frags, x) \subseteq XChi(x)

Parsed(frags) ==
  [x \in Mats |->
     [p \in Keys(frags, x) |->
        frags[CHOOSE i \in DOMAIN frags :
                /\ frags[i][1] = x /\ frags[i][2] = p
                /\ \A j \in DOMAIN frags : frags[j][1] = x /\ frags[j][2] = p => j <= i][3]]]
================================================================================
