--------------------------------- MODULE Lookup ---------------------------------
(***************************************************************************)
(* From a kernel cache to a solution: two caches are merged, a problem is  *)
(* looked up in the result (get_default_soln), and a search may walk on    *)
(* from what was found (the waves of single_descent_find, of which Search  *)
(* models the clock, the history and the halting).                         *)
(***************************************************************************)
EXTENDS CacheMerge

CONSTANTS
  Requests,  \* records of a geometry gg, strings of constraints range and
             \* start, enoc ("GENERIC" or "RANDOM"), a rank, and a device
             \* of identifier, wgAtom, maxWorkGroup and localMem
  MaxSteps   \* bound: waves of the search

IsString(frags) == frags \in Seq(Mats \X STRING \X Int)

ASSUME RequestsAssumption ==
  /\ MaxSteps \in Nat
  /\ \A r \in Requests :
       /\ IsGeometry(r.gg)
       /\ IsString(r.range) /\ IsString(r.start)
       /\ r.enoc \in {"GENERIC", "RANDOM"} /\ r.rank \in Nat

Geometries == {r.gg : r \in Requests} \cup UNION {{k.gg : k \in DOMAIN kc} : kc \in Caches}

SizesOf(g) == {g.m, g.n, g.k} \cup {g.ld[x] : x \in Mats}

Sizes == UNION {SizesOf(g) : g \in Geometries}

Workspaces ==
  {g.ws : g \in Geometries}
  \cup UNION {{RequiredWorkspace(kc[k], k.gg) : k \in DOMAIN kc} : kc \in Caches}

(* Both logarithms grow, as those of double precision do for sizes from 1  *)
(* to 2^40 and workspaces up to 2^40: more than 2^40 words are not         *)
(* addressed.  The logarithm of no size at all would be infinite, and its  *)
(* distances not even numbers.                                             *)
ASSUME LogsAssumption ==
  /\ \A x \in Sizes : Log2Of[x] \in 0 .. 40 * Unit
  /\ \A x, y \in Sizes : x < y => Log2Of[x] < Log2Of[y]
  /\ Workspaces \subseteq Nat
  /\ \A w \in Workspaces : LogOf[w] \in Nat /\ 200 * LogOf[w] <= Unit
  /\ \A w, v \in Workspaces : w < v => LogOf[w] < LogOf[v]

VARIABLES
  req,     \* the request, <<>> before
  key,     \* the key that was nearest, <<>> for none
  hp,      \* the hyper-parameters chosen, <<>> before
  steps,   \* waves of the search
  why      \* where an exception was thrown

vars == <<at, mergeVars, req, key, hp, steps, why>>

Places == {"reduce", "collect", "populate doubles", "populate floats", "duel", "merged", "request",
           "within", "get", "generic", "random", "bundle", "solved", "thrown"}

Init ==
  /\ at = "reduce"
  /\ MergeInit
  /\ req = <<>> /\ key = <<>> /\ hp = <<>> /\ steps = 0 /\ why = ""

Merge == MergeNext /\ why' = (IF at' = "thrown" THEN at ELSE why)
                   /\ UNCHANGED <<req, key, hp, steps>>

---------------------------------------------------------------------------
(* get_default_soln.                                                       *)

Cons == [range |-> Parsed(req.range), start |-> Parsed(req.start)]
Device == req.device
ReqGraph == Graph(req.gg, Device, Cons)
ReqKey == CacheKey(Device.identifier, Cons, req.gg)

Swap == IsNotCanonical(req.gg)

Goto(place) == at' = place /\ UNCHANGED why
Throw == at' = "thrown" /\ why' = at

(* The program of the merge has ended; another one uses what it printed.    *)
(* find makes the constraints of a string: C__ICE1 for enforce_determinism. *)
MakeConstraints ==
  /\ at = "merged"
  /\ req' \in Requests
  /\ IF Readable(req'.range) /\ Readable(req'.start) THEN Goto("request") ELSE Throw
  /\ kc1' = <<>> /\ kc2' = <<>>
  /\ UNCHANGED <<cache, both, duel, key, hp, steps>>

(* The key is made of the canonical geometry, the graph of the given one.   *)
MakeKeyAndGraph ==
  /\ at = "request"
  /\ IF KeyPossible(Cons, req.gg) /\ GraphPossible(ReqGraph, Device) THEN Goto("within") ELSE Throw
  /\ UNCHANGED <<mergeVars, req, key, hp, steps>>

LookWithin ==
  /\ at = "within"
  /\ Goto(IF IsWithin(ReqKey, ReqGraph, cache, TenthOfMax, req.rank) THEN "get"
          ELSE IF req.enoc = "GENERIC" THEN "generic" ELSE "random")
  /\ UNCHANGED <<mergeVars, req, key, hp, steps>>

(* There is one: otherwise is_within had been false, or get would throw.    *)
GetNearest ==
  /\ at = "get"
  /\ \E k \in Nearest(ReqKey, ReqGraph, cache, req.rank) :
       key' = k /\ hp' = Reflected(cache[k], Swap)
  /\ Goto("bundle")
  /\ UNCHANGED <<mergeVars, req, steps>>

GenericChi(mic, pad, liw, miw) ==
  [MIC |-> mic, PAD |-> pad, PLU |-> 0, LIW |-> liw, MIW |-> miw, WOS |-> 0, VEW |-> 1]

GenericC(unr, gal, pun, iwi, szt, naw, mac, afi, mia) ==
  [UNR |-> unr, GAL |-> gal, PUN |-> pun, ICE |-> 1, IWI |-> iwi, SZT |-> szt, NAW |-> naw,
   UFO |-> 0, MAC |-> mac, SKW |-> 10, AFI |-> afi, MIA |-> mia, MAD |-> 0]

Generic(g) ==
  CASE g.m >= 1000 /\ g.n >= 1000 ->
         [A |-> GenericChi(5, 2, 1, 1), B |-> GenericChi(4, 2, 0, 1),
          C |-> GenericC(16, 1, 0, 0, 0, 64, 256, 1, 1)]
    [] ~(g.m >= 1000 /\ g.n >= 1000) /\ g.m >= 100 /\ g.n >= 100 ->
         [A |-> GenericChi(1, 0, 0, 1), B |-> GenericChi(2, 1, 1, 0),
          C |-> GenericC(64, 3, 1, 1, 0, 16, 64, 1, 1)]
    [] OTHER ->
         [A |-> GenericChi(1, 2, 1, 1), B |-> GenericChi(1, 2, 1, 1),
          C |-> GenericC(4, 1, 0, 0, 1, 64, 1, 0, 0)]

ConstrainedGeneric == ReplaceWhereDefined(Generic(req.gg), Cons.range)

GetGeneric ==
  /\ at = "generic"
  /\ IF Derivable(ConstrainedGeneric, req.gg)
     THEN hp' = ConstrainedGeneric /\ Goto("bundle")
     ELSE Throw /\ UNCHANGED hp
  /\ UNCHANGED <<mergeVars, req, key, steps>>

GetRandomValidStart ==
  /\ at = "random"
  /\ hp' \in {h \in RandomStarts(ReqGraph) : Derivable(h, req.gg) /\ ArchGood(h, req.gg, Device)}
  /\ Goto("bundle")
  /\ UNCHANGED <<mergeVars, req, key, steps>>

(* A million draws may all fail.                                           *)
GiveUp ==
  /\ at = "random"
  /\ Throw
  /\ UNCHANGED <<mergeVars, req, key, hp, steps>>

MakeBundle ==
  /\ at = "bundle"
  /\ IF Derivable(hp, req.gg) THEN Goto("solved") ELSE Throw
  /\ UNCHANGED <<mergeVars, req, key, hp, steps>>

---------------------------------------------------------------------------
(* The search takes a kernel of the wave for better, and makes the next.   *)
(* It asks for a random start where nothing is in the cache, never for a   *)
(* generic one.                                                            *)

(* The history holds where the search is, the only part of it kept here.   *)
Wave == {n \in Neighbors(ReqGraph, hp) \ {hp} : Derivable(n, req.gg)}

NeighborsAccepted ==
  /\ NeighborsPossible(ReqGraph, hp)
  /\ NeighborsDiffer(ReqGraph, hp)
  /\ \A n \in Neighbors(ReqGraph, hp) : InGraph(ReqGraph, n)

Step ==
  /\ at = "solved" /\ req.enoc = "RANDOM" /\ steps < MaxSteps
  /\ IF NeighborsAccepted
     THEN hp' \in {n \in Wave : ArchGood(n, req.gg, Device)} /\ steps' = steps + 1 /\ Goto("solved")
     ELSE Throw /\ UNCHANGED <<hp, steps>>
  /\ UNCHANGED <<mergeVars, req, key>>

Next ==
  \/ Merge \/ MakeConstraints \/ MakeKeyAndGraph \/ LookWithin
  \/ GetNearest \/ GetGeneric \/ GetRandomValidStart \/ GiveUp
  \/ MakeBundle \/ Step

Spec == Init /\ [][Next]_vars
---------------------------------------------------------------------------

(* The types of the variables.  Keys are canonical, and two solutions that *)
(* take turns go first as often, but for one turn.                         *)
TypeOK ==
  /\ at \in Places /\ why \in Places \cup {""} /\ steps \in 0 .. MaxSteps
  /\ kc1 \in Caches \cup {<<>>} /\ DOMAIN both = {"d", "f"}
  /\ \A k \in DOMAIN cache : ~IsNotCanonical(k.gg) /\ IsHyPas(cache[k])
  /\ hp = <<>> \/ IsHyPas(hp)
  /\ Abs(duel.first[1] - duel.first[2]) <= 1
  /\ duel.wins[1] + duel.wins[2] <= Turns

Had(k) == {kc[k] : kc \in {c \in {kc1, kc2} : Present(c, k)}}

Kept ==
  \A k \in DOMAIN cache :
    /\ cache[k] \in Had(k)
    /\ (\E h \in Had(k) : Derivable(h, k.gg)) => Derivable(cache[k], k.gg)

(* A merge that ends has lost no key, but for those of type double that    *)
(* both caches have.  A key has the solution that one of the two had for   *)
(* it, and one that can be derived if there is one (get_merged, populate). *)
MergedKeys ==
  at = "merged" =>
    /\ DOMAIN cache = (DOMAIN kc1 \cup DOMAIN kc2) \ {k \in Common : k.gg.ft = "d"}
    /\ Kept

(* The logarithms of no two sizes are further apart than 1/200.            *)
Close(g, h) ==
  /\ \A f \in {<<g.m, h.m>>, <<g.n, h.n>>, <<g.k, h.k>>} \cup {<<g.ld[x], h.ld[x]>> : x \in Mats} :
       200 * Abs(Log2Of[f[1]] - Log2Of[f[2]]) <= Unit
  /\ Features(g) = Features(h) /\ Lines(g) = Lines(h)

(* One is found where is_within, which looks at distances the other way    *)
(* round, has promised it, and has the transposes of the problem.  When    *)
(* the problem itself is in the cache, another is found before it only if  *)
(* it has the same constraints and a larger workspace, of which there are  *)
(* so few units that all of its sizes are within a third of a per cent;    *)
(* with the same workspace it is the same problem on the same device, but  *)
(* for the floattype, of which the distance knows nothing (is_within, get, *)
(* get_distance).                                                          *)
NearestComparable ==
  /\ at = "get" => Nearest(ReqKey, ReqGraph, cache, req.rank) # {}
  /\ at = "bundle" /\ key # <<>> =>
    /\ key.gg.t = ReqKey.gg.t /\ key.gg.cm = ReqKey.gg.cm
    /\ ReqKey \in Candidates(ReqKey, ReqGraph, cache) /\ req.rank = 0 =>
         /\ key.con = ReqKey.con /\ Close(key.gg, ReqKey.gg)
         /\ key.gg.ws >= ReqKey.gg.ws
         /\ key.gg.ws = ReqKey.gg.ws =>
              /\ key.dvc = ReqKey.dvc
              /\ [key.gg EXCEPT !.ft = "f"] = [ReqKey.gg EXCEPT !.ft = "f"]

Neutral == NonChi \ {"SKW", "GAL", "AFI", "MIA"}

(* What is found, and what the search walks to, honours the constraints,   *)
(* ICE1 of enforce_determinism for one; a solution that was reflected need *)
(* honour those only that a reflection leaves alone (get_default_soln).    *)
ConstraintsHonoured ==
  hp # <<>> =>
    /\ \A p \in Neutral \cap DOMAIN Cons.range["C"] : hp["C"][p] = Cons.range["C"][p]
    /\ ~Swap \/ key = <<>> => Honours(hp, Cons.range)

(* A search that starts in the graph is never thrown out of: all of its    *)
(* neighbours are in the graph, and no two are the same.  Only solutions   *)
(* that were reflected may start outside (single_descent_find).            *)
SearchAccepted == why = "solved" => Swap /\ key # <<>>

(* Powers of 2.                                                            *)
Powers == {2^e : e \in 0 .. 29}

(* A solution for the canonical geometry that was reflected can be derived *)
(* for the given one, unless a matrix is copied, since the copies of A and *)
(* of B are padded differently, or the number of work items is no power of *)
(* 2, as a constraint may have it: the grid of a reflected skew then has   *)
(* other sides (get_default_soln, reset_cw_params, reflect_c).             *)
ReflectedDerivable ==
  why = "bundle" =>
    /\ Swap
    /\ (\E x \in Chiral : hp[x]["WOS"] = COPY) \/ hp["C"]["MAC"] \notin Powers

(* miogemm.hpp:86 says: "try and get a solution from cache, if all else    *)
(* fails get_generic".  A request that get_generic could answer then does  *)
(* not end in an exception (get_default_soln).                             *)
FallsBackToGeneric ==
  why = "bundle" => ~Derivable(ConstrainedGeneric, req.gg)
---------------------------------------------------------------------------
(* What a proof by induction needs.                                        *)

(* The two that take turns have gone first as often after every other turn, *)
(* and one that cannot be derived never wins.                              *)
FairDuel ==
  /\ duel = [key |-> duel.key, first |-> <<duel.first[1], duel.first[2]>>,
             wins |-> <<duel.wins[1], duel.wins[2]>>]
  /\ {duel.first[1], duel.first[2], duel.wins[1], duel.wins[2]} \subseteq Nat
  /\ duel.first[1] - duel.first[2] =
       (IF Turns % 2 = 0 THEN 0 ELSE IF ThueMorse[Turns - 1] THEN 1 ELSE -1)
  /\ duel.wins[1] + duel.wins[2] <= Turns
  /\ at = "duel" =>
       LET d == <<Derivable(kc1[duel.key], duel.key.gg), Derivable(kc2[duel.key], duel.key.gg)>> IN
       /\ duel.key \in both["f"]
       /\ d[1] /\ ~d[2] => duel.wins[1] = Turns /\ duel.wins[2] = 0
       /\ ~d[1] /\ d[2] => duel.wins[1] = 0

(* What is still to decide is not in the merged cache, all else is.        *)
Merging ==
  /\ IsCache(kc1) /\ IsCache(kc2) /\ IsCache(cache) /\ DOMAIN both = {"d", "f"}
  /\ at \in {"populate doubles", "populate floats", "duel", "merged"} =>
       /\ both["d"] = {k \in Common : k.gg.ft = "d"}
       /\ both["f"] \subseteq {k \in Common : k.gg.ft = "f"}
       /\ DOMAIN cache = (DOMAIN kc1 \cup DOMAIN kc2) \ (both["d"] \cup both["f"])
       /\ Kept
  /\ at = "merged" => both["f"] = {}

BeforeRequest == {"reduce", "collect", "populate doubles", "populate floats", "duel", "merged"}
BeforeAnswer == BeforeRequest \cup {"request", "within", "get", "generic", "random"}

(* Constraints that were read have a graph whose start is in its range;    *)
(* what is chosen honours them, and is in the graph where a search begins. *)
Answering ==
  /\ at \in BeforeAnswer => hp = <<>> /\ key = <<>>
  /\ at \notin BeforeRequest \cup {"thrown"} \/ hp # <<>> \/ why = "solved" =>
       req \in Requests /\ Readable(req.range) /\ Readable(req.start)
  /\ at \notin BeforeRequest \cup {"request", "thrown"} => GraphPossible(ReqGraph, Device)
  /\ at = "get" \/ (at = "bundle" /\ key # <<>>) =>
       IsWithin(ReqKey, ReqGraph, cache, TenthOfMax, req.rank)
  /\ at = "generic" => req.enoc = "GENERIC"
  /\ at = "bundle" /\ key # <<>> => key \in Nearest(ReqKey, ReqGraph, cache, req.rank)
  /\ hp # <<>> => IsHyPas(hp)
  /\ at \in {"bundle", "solved"} => hp # <<>>
  /\ at \in {"bundle", "solved"} /\ req.enoc = "RANDOM" /\ (~Swap \/ key = <<>>) =>
       InGraph(ReqGraph, hp)
  /\ at # "thrown" => why = ""

IInv == TypeOK /\ Merging /\ FairDuel /\ Answering /\ ConstraintsHonoured /\ SearchAccepted

(* A merge and a reduction make no keys of sizes that were not there.      *)
IsKnown(g) == SizesOf(g) \subseteq Sizes /\ g.ws \in Workspaces

KnownKeys ==
  /\ at = "reduce" => kc2 \in Caches
  /\ \A k \in DOMAIN kc1 \cup DOMAIN kc2 \cup DOMAIN cache : IsKnown(k.gg)

(* Micro tiles have elements, and matrices are used in one of three ways:  *)
(* nothing in the code tests for it.                                       *)
IsWhole(h) == \A x \in Chiral : h[x]["MIC"] > 0 /\ h[x]["WOS"] \in {UNUSED, COPY, NFORM}

WholeInputs == \A kc \in Caches : \A k \in DOMAIN kc : IsWhole(kc[k])

WholeCaches == \A kc \in {kc1, kc2, cache} : \A k \in DOMAIN kc : IsWhole(kc[k])

(* What a bundle is made of was derived for the problem, or was found.     *)
Chosen ==
  at = "bundle" => IF key = <<>> THEN Derivable(hp, req.gg) ELSE hp = Reflected(cache[key], Swap)
================================================================================
