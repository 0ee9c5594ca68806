-------------------------------- MODULE Geometry --------------------------------
(***************************************************************************)
(* The geometry of a GEMM problem, and the form it is redirected to.  A    *)
(* geometry is a record of isColMajor (cm), the transposes tX (t) and      *)
(* leading dimensions ldX (ld) of the matrices, m, n, k, wSpaceSize (ws)   *)
(* and floattype (ft).                                                     *)
(***************************************************************************)
EXTENDS Integers, FiniteSets, FiniteSetsExt

Mats == {"A", "B", "C"}
Chiral == {"A", "B"}

IsGeometry(g) ==
  /\ g = [cm |-> g.cm, t |-> g.t, ld |-> g.ld, m |-> g.m, n |-> g.n, k |-> g.k,
          ws |-> g.ws, ft |-> g.ft]
  /\ g.cm \in BOOLEAN /\ g.t \in [Mats -> BOOLEAN]
  /\ g.ld \in [Mats -> Nat] /\ {g.m, g.n, g.k} \subseteq Nat /\ g.ft \in {"d", "f"}

MinOf(a, b) == IF a < b THEN a ELSE b

(* The logarithm that the grid of a macro tile is made with, rounded down: *)
(* how many powers of 2 above 1 are at most x.                             *)
Log2(x) == Cardinality({e \in 1 .. 29 : 2^e <= x})

PadlessDim(g, x, isCoal) ==
  LET gate == (g.t[x] = g.cm) = isCoal IN
  CASE x = "A" -> IF gate THEN g.k ELSE g.m
    [] x = "B" -> IF gate THEN g.n ELSE g.k
    [] x = "C" -> IF gate THEN g.n ELSE g.m

NonKDim(g, x) == IF x = "A" THEN g.m ELSE g.n

Uncoal(g, x) == PadlessDim(g, x, FALSE)
Coal(g, x) == PadlessDim(g, x, TRUE)
PaddedArea(g, x) == Uncoal(g, x) * g.ld[x]

(* Geometries for which the constructor does not throw.                    *)
LdxConsistent(g) == \A x \in Mats : g.ld[x] >= Coal(g, x)

CoalIsPllK(g, x) ==
  Cardinality({i \in 1 .. 3 : <<g.cm, g.t[x], x = "A">>[i]}) % 2 = 1

(* The tight geometry in column major, with C as it is.                    *)
TightGeometry(m, n, k, tA, tB, ws, ft) ==
  [cm |-> TRUE, t |-> [A |-> tA, B |-> tB, C |-> FALSE],
   ld |-> [A |-> IF tA THEN k ELSE m, B |-> IF tB THEN n ELSE k, C |-> m],
   m |-> m, n |-> n, k |-> k, ws |-> ws, ft |-> ft]

FloatBytes(g) == IF g.ft = "f" THEN 4 ELSE 8

---------------------------------------------------------------------------
(* Redirection: the operands are followed with their names, so that one    *)
(* can tell whether A and B have changed places.                           *)

Exchanged(r) == [r EXCEPT !.a = r.b, !.b = r.a, !.m = r.n, !.n = r.m]

ToColMajor(r) ==
  IF r.cm THEN r ELSE [Exchanged(r) EXCEPT !.cm = TRUE, !.tA = r.tB, !.tB = r.tA]

UntransposeC(r) ==
  IF ~r.tC THEN r ELSE [Exchanged(r) EXCEPT !.tC = FALSE, !.tA = ~r.tB, !.tB = ~r.tA]

RedirectBase(r) == UntransposeC(ToColMajor(r))

Redirected(g) ==
  RedirectBase([cm |-> g.cm, tA |-> g.t["A"], tB |-> g.t["B"], tC |-> g.t["C"],
                m |-> g.m, n |-> g.n,
                a |-> [ldx |-> g.ld["A"], emat |-> "A"],
                b |-> [ldx |-> g.ld["B"], emat |-> "B"]])

Canonical(g) ==
  LET r == Redirected(g) IN
  [g EXCEPT !.cm = r.cm, !.t = [A |-> r.tA, B |-> r.tB, C |-> r.tC],
            !.ld = [A |-> r.a.ldx, B |-> r.b.ldx, C |-> g.ld["C"]],
            !.m = r.m, !.n = r.n]

IsNotCanonical(g) == Redirected(g).a.emat = "B"

(* What confirm_redirection accepts.                                       *)
RedirectionDone(g) == g.cm /\ ~g.t["C"]

================================================================================
