-------------------------------- MODULE Distance --------------------------------
(***************************************************************************)
(* The distance between two geometries.  Its logarithms are real numbers,  *)
(* given here as tables of whole numbers of as small a unit as one likes:  *)
(* what is proved is proved for every unit.                                *)
(***************************************************************************)
EXTENDS Geometry

CONSTANTS
  Unit,     \* how many units make a distance of 0.2, the cost of a feature
  Log2Of,   \* for a size, 0.2 times its log2 as a number of units
  LogOf     \* for a workspace ws, 1e-5 times log(ws + 1.1) likewise

(* The term of a device, 1e-6, is a number of units.                       *)
ASSUME UnitAssumption == Unit \in Nat /\ Unit > 0 /\ Unit % 200000 = 0

(* Stands for the largest double: more than any distance of two geometries *)
(* with the same transposes.                                               *)
MaxDistance == 5000 * Unit

(* Stands for a tenth of it, which is still more.                          *)
TenthOfMax == 2000 * Unit

Abs(x) == IF x < 0 THEN -x ELSE x

(* metric_co: of m, n and k the whole logarithm, of ldX a fifth.           *)
Metric(g) ==
  <<5 * Log2Of[g.k], 5 * (Log2Of[g.m] - Log2Of[g.n]), 5 * (Log2Of[g.m] + Log2Of[g.n]),
    Log2Of[g.ld["A"]], Log2Of[g.ld["B"]], Log2Of[g.ld["C"]]>>

ForPadCopy(g, x) == Uncoal(g, x) * (Coal(g, x) + 16)

WSpaceSufficient(g) ==
  LET a == ForPadCopy(g, "A")
      b == ForPadCopy(g, "B")
  IN [i \in 1 .. 5 |-> <<a, b, a + b, 2 * (a + b), 4 * (a + b)>>[i] < g.ws]

SameTransposes(g, h) == g.t = h.t /\ g.cm = h.cm

NearLine(ld, x) == MinOf(ld % x, x - (ld % x)) % 4

(* The yes-or-no features that cost 0.2 each where two geometries differ.  *)
Features(g) ==
  {p \in {2, 4, 8} \X Mats : g.ld[p[2]] % p[1] = 0}
  \cup {<<"sufficient", i>> : i \in {j \in 1 .. 5 : WSpaceSufficient(g)[j]}}

Lines(g) == [p \in {256, 512, 1024} \X Mats |-> NearLine(g.ld[p[2]], p[1])]

(* The term of the workspaces has a sign: the distance is not symmetric,   *)
(* and may be less than nothing.  For geometries of other transposes it is *)
(* lost in the largest double.                                             *)
GeometryDistance(g, h) ==
  IF ~SameTransposes(g, h) THEN MaxDistance
  ELSE LET apart(i) == Abs(Metric(g)[i] - Metric(h)[i]) IN
       apart(1) + apart(2) + apart(3) + apart(4) + apart(5) + apart(6)
       + Unit * Cardinality(SymDiff(Features(g), Features(h)))
       + Unit * Cardinality({p \in DOMAIN Lines(g) : Lines(g)[p] # Lines(h)[p]})
       + (LogOf[g.ws] - LogOf[h.ws])
================================================================================
