------------------------------- MODULE CacheMerge -------------------------------
(***************************************************************************)
(* The example mergecaches: the workspaces of the second cache are reduced *)
(* to what its solutions need, and the two caches are merged.  For a key   *)
(* that both have, the two solutions take turns on the device, and the one *)
(* that was faster more often is kept.                                     *)
(***************************************************************************)
EXTENDS KernelCache, Sequences

CONSTANTS
  Caches,     \* the caches there may be
  Rounds,     \* the most rounds of a duel (14)
  Lead        \* the lead that ends one (5)

ASSUME RoundsAssumption == Rounds \in Nat /\ Rounds > 0 /\ Lead \in Nat

ASSUME CachesAssumption == \A kc \in Caches : IsCache(kc)

VARIABLES
  at,     \* where the program is
  kc1, kc2,   \* the caches to merge
  cache,  \* the merged one
  both,   \* the keys of both, by floattype, that are still to decide
  duel    \* the key that is decided, and how often each of the two
          \* went first and won

mergeVars == <<kc1, kc2, cache, both, duel>>

NoDuel == [key |-> <<>>, first |-> <<0, 0>>, wins |-> <<0, 0>>]

MergeInit ==
  /\ kc1 \in Caches /\ kc2 \in Caches
  /\ cache = <<>>
  /\ both = [ft \in {"d", "f"} |-> {}]
  /\ duel = NoDuel

(* get_wSpaceReduced.                                                      *)
ReduceWorkspaces ==
  /\ at = "reduce"
  /\ IF ReducePossible(kc2) THEN at' = "collect" /\ kc2' = Reduced(kc2)
                            ELSE at' = "thrown" /\ UNCHANGED kc2
  /\ UNCHANGED <<kc1, cache, both, duel>>

Common == DOMAIN kc1 \cap DOMAIN kc2

(* What one of them has alone is copied.                                   *)
Collect ==
  /\ at = "collect"
  /\ cache' = [key \in SymDiff(DOMAIN kc1, DOMAIN kc2) |->
                 IF Present(kc1, key) THEN kc1[key] ELSE kc2[key]]
  /\ both' = [ft \in {"d", "f"} |-> {key \in Common : key.gg.ft = ft}]
  /\ at' = "populate doubles"
  /\ UNCHANGED <<kc1, kc2, duel>>

(* The doubles come first.  They are not looked at: populate<double> is    *)
(* given the keys of type float, and throws if there are any, when it      *)
(* makes matrices for them.                                                *)
PopulateDoubles ==
  /\ at = "populate doubles"
  /\ at' = IF both["d"] # {} /\ both["f"] # {} THEN "thrown" ELSE "populate floats"
  /\ UNCHANGED mergeVars

Award(hp) ==
  /\ both' = [both EXCEPT !["f"] = @ \ {duel.key}]
  /\ duel' = NoDuel
  /\ IF Addable(cache, duel.key)
     THEN at' = "populate floats" /\ cache' = Added(cache, duel.key, hp)
     ELSE at' = "thrown" /\ UNCHANGED cache
  /\ UNCHANGED <<kc1, kc2>>

Agree ==
  /\ at = "populate floats"
  /\ \E key \in both["f"] :
       /\ kc1[key] = kc2[key]
       /\ cache' = Added(cache, key, kc1[key])
       /\ both' = [both EXCEPT !["f"] = @ \ {key}]
  /\ UNCHANGED <<at, kc1, kc2, duel>>

BeginDuel ==
  /\ at = "populate floats"
  /\ \E key \in both["f"] :
       kc1[key] # kc2[key] /\ duel' = [NoDuel EXCEPT !.key = key]
  /\ at' = "duel"
  /\ UNCHANGED <<kc1, kc2, cache, both>>

(* The turns double the sequence so far, with the two exchanged: the first *)
(* goes first in turn i if i - 1 has an even number of binary ones.        *)
ThueMorse[i \in Nat] ==
  IF i = 0 THEN TRUE ELSE IF i % 2 = 0 THEN ThueMorse[i \div 2] ELSE ~ThueMorse[i \div 2]

Decided == \E i \in {1, 2} : duel.wins[i] > duel.wins[3 - i] + Lead

Turns == duel.first[1] + duel.first[2]

(* A slip: the time of a solution that is not run starts at 0.             *)
OutcomesFromZero(key) == {<<1, 0>>, <<0, 1>>, <<0, 0>>}

(* A solution that is not derivable is not run, and takes 10^8 ms.         *)
Outcomes(key) ==
  LET d == <<Derivable(kc1[key], key.gg), Derivable(kc2[key], key.gg)>> IN
  CASE d[1] /\ d[2] -> {<<1, 0>>, <<0, 1>>, <<0, 0>>}
    [] d[1] /\ ~d[2] -> {<<1, 0>>}
    [] ~d[1] /\ d[2] -> {<<0, 1>>}
    [] OTHER -> {<<0, 0>>}

(* A slip: the two are not exchanged when the sequence is doubled.         *)
RoundWithoutExchange ==
  /\ at = "duel" /\ Turns < Rounds /\ ~Decided
  /\ \E won \in Outcomes(duel.key) :
       duel' = [duel EXCEPT !.first = <<@[1] + 1, @[2]>>,
                            !.wins = <<@[1] + won[1], @[2] + won[2]>>]
  /\ UNCHANGED <<at, kc1, kc2, cache, both>>

Round ==
  /\ at = "duel" /\ Turns < Rounds /\ ~Decided
  /\ \E won \in Outcomes(duel.key) :
       duel' = [duel EXCEPT !.first = IF ThueMorse[Turns] THEN <<@[1] + 1, @[2]>>
                                                          ELSE <<@[1], @[2] + 1>>,
                            !.wins = <<@[1] + won[1], @[2] + won[2]>>]
  /\ UNCHANGED <<at, kc1, kc2, cache, both>>

(* The device fails: a TinyOne cannot be made for either before the first  *)
(* turn, or the benchmark of a solution that is derivable throws.          *)
DuelThrows ==
  /\ at = "duel" /\ Turns < Rounds /\ ~Decided
  /\ \/ Turns = 0
     \/ \E kc \in {kc1, kc2} : Derivable(kc[duel.key], duel.key.gg)
  /\ at' = "thrown"
  /\ UNCHANGED mergeVars

EndDuel ==
  /\ at = "duel" /\ (Turns = Rounds \/ Decided)
  /\ Award(IF duel.wins[1] > duel.wins[2] THEN kc1[duel.key] ELSE kc2[duel.key])

EndMerge ==
  /\ at = "populate floats" /\ both["f"] = {}
  /\ at' = "merged"
  /\ UNCHANGED mergeVars

MergeNext ==
  \/ ReduceWorkspaces \/ Collect \/ PopulateDoubles
  \/ Agree \/ BeginDuel \/ Round \/ DuelThrows \/ EndDuel \/ EndMerge
================================================================================
