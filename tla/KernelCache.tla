------------------------------- MODULE KernelCache -------------------------------
(***************************************************************************)
(* The kernel cache: a function from keys to hyper-parameters, and the     *)
(* search in it for the key nearest to another.  A key has a device (dvc), *)
(* the constraints of the range (con) and a geometry (gg), the latter two   *)
(* in the form they have for the canonical geometry.                       *)
(***************************************************************************)
EXTENDS HyperGraph, Distance

(* A cache: what add has let in.                                           *)
IsKey(key) ==
  /\ key = [dvc |-> key.dvc, con |-> key.con, gg |-> key.gg]
  /\ AreConstraints(key.con) /\ IsGeometry(key.gg) /\ ~IsNotCanonical(key.gg)

IsCache(kc) ==
  /\ kc = [key \in DOMAIN kc |-> kc[key]]
  /\ \A key \in DOMAIN kc : IsKey(key) /\ IsHyPas(kc[key])
  /\ IsFiniteSet(DOMAIN kc)

KeyPossible(cons, g) ==
  IsNotCanonical(g) => ReflectPossible(cons.range["C"]) /\ ReflectPossible(cons.start["C"])

CacheKey(dvc, cons, g) ==
  [dvc |-> dvc, con |-> Reflected(cons.range, IsNotCanonical(g)), gg |-> Canonical(g)]

(* Geometries that differ in their transposes are as far apart as a double *)
(* can say, whatever else they differ in.                                  *)
KeyDistance(key, ck) ==
  LET d == GeometryDistance(key.gg, ck.gg) IN
  IF d = MaxDistance THEN d
  ELSE d + (IF key.dvc # ck.dvc THEN Unit \div 200000 ELSE 0)
         + (IF key.con # ck.con THEN 5 * Unit ELSE 0)

Present(kc, key) == key \in DOMAIN kc

(* add, where it does not throw.                                           *)
Added(kc, key, hp) ==
  [k \in DOMAIN kc \cup {key} |-> IF Present(kc, k) THEN kc[k] ELSE hp]
Addable(kc, key) == ~IsNotCanonical(key.gg) /\ ~Present(kc, key)

---------------------------------------------------------------------------
(* Nearest.                                                                *)

(* A slip: the graph is not looked at.                                     *)
CandidatesOfAnyGraph(ck, graph, kc) == {key \in DOMAIN kc : Derivable(kc[key], ck.gg)}

Candidates(ck, graph, kc) ==
  {key \in DOMAIN kc : InGraph(graph, kc[key]) /\ Derivable(kc[key], ck.gg)}

(* A slip: ranks count from 1.                                             *)
IsWithinFromOne(ck, graph, kc, threshold, rank) ==
  Cardinality({key \in Candidates(ck, graph, kc) : KeyDistance(key, ck) < threshold}) >= rank

IsWithin(ck, graph, kc, threshold, rank) ==
  Cardinality({key \in Candidates(ck, graph, kc) : KeyDistance(key, ck) < threshold}) > rank

(* nth_element: any of those of the rank, where several are as near.       *)
Nearest(ck, graph, kc, rank) ==
  {key \in Candidates(ck, graph, kc) :
     LET d == KeyDistance(ck, key)
         nearer == {other \in Candidates(ck, graph, kc) : KeyDistance(ck, other) < d}
         asNear == {other \in Candidates(ck, graph, kc) : KeyDistance(ck, other) = d}
     IN Cardinality(nearer) <= rank /\ rank < Cardinality(nearer) + Cardinality(asNear)}

---------------------------------------------------------------------------
(* A key is entered again with the workspace that its solution needs.      *)

ReducedKey(kc, key) ==
  [key EXCEPT !.gg = [key.gg EXCEPT !.ws = RequiredWorkspace(kc[key], key.gg)]]

(* Two keys that differ in their workspace only may become the same: add    *)
(* then throws.                                                            *)
ReducePossible(kc) ==
  /\ \A key \in DOMAIN kc : Derivable(kc[key], key.gg)
  /\ \A k, l \in DOMAIN kc : ReducedKey(kc, k) = ReducedKey(kc, l) => k = l

Reduced(kc) ==
  LET old(key) == CHOOSE k \in DOMAIN kc : ReducedKey(kc, k) = key
  IN [key \in {ReducedKey(kc, k) : k \in DOMAIN kc} |-> kc[old(key)]]
================================================================================
