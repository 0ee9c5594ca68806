-------------------------- MODULE KernelGraphProofs --------------------------
(***************************************************************************)
(* Facts about vectors of kernels.                                         *)
(***************************************************************************)
EXTENDS KernelGraph, TLAPS

(* While a vector is not done with, its loop has a next kernel.            *)
LEMMA NextOfType ==
  ASSUME NEW S \in SUBSET KType, NEW D \in SUBSET S, D # S
  PROVE  /\ NextOf(S, D) \in S \ D
         /\ \A s \in S \ D : Rank[NextOf(S, D)] <= Rank[s]
<1>1. \E t \in S \ D : \A s \in S \ D : Rank[t] <= Rank[s]
  <2>1. CASE "WSA" \in S \ D
    BY <2>1 DEF KType, Rank
  <2>2. CASE "WSA" \notin S \ D /\ "WSB" \in S \ D
    BY <2>2 DEF KType, Rank
  <2>3. CASE "WSA" \notin S \ D /\ "WSB" \notin S \ D /\ "BETAC" \in S \ D
    BY <2>3 DEF KType, Rank
  <2>4. CASE "WSA" \notin S \ D /\ "WSB" \notin S \ D /\ "BETAC" \notin S \ D
    <3>1. S \ D = {"MAIN"}
      BY <2>4 DEF KType
    <3> QED BY <3>1 DEF Rank
  <2> QED BY <2>1, <2>2, <2>3, <2>4
<1> QED BY <1>1 DEF NextOf

(* When the main kernel is next, it is all that remains.                   *)
LEMMA MainIsNextOnceAlone ==
  ASSUME NEW S \in SUBSET KType, NEW D \in SUBSET S, D # S,
         NextOf(S, D) = "MAIN"
  PROVE  S \ D = {"MAIN"}
<1>1. /\ NextOf(S, D) \in S \ D
      /\ \A s \in S \ D : Rank[NextOf(S, D)] <= Rank[s]
  BY NextOfType
<1>2. "MAIN" \in S \ D /\ \A s \in S \ D : Rank["MAIN"] <= Rank[s]
  BY <1>1
<1>3. \A s \in S \ D : s \in KType /\ s \notin {"WSA", "WSB", "BETAC"}
  BY <1>2 DEF Rank, KType
<1> QED BY <1>2, <1>3 DEF KType

(* The main kernel is in every vector, and is the last one of it.          *)
LEMMA MainIsLast ==
  ASSUME NEW hp, NEW beta
  PROVE  /\ Blobs(hp, beta) \in SUBSET KType
         /\ "MAIN" \in Blobs(hp, beta)
         /\ LastOf(Blobs(hp, beta)) = "MAIN"
<1> DEFINE S == Blobs(hp, beta)
<1>1. S \in SUBSET KType /\ "MAIN" \in S
  BY DEF Blobs, BundleOf, KType
<1> HIDE DEF S
<1>2. \A s \in S : Rank[s] <= Rank["MAIN"]
  BY <1>1 DEF Rank, KType
<1>3. \A t \in S : (\A s \in S : Rank[s] <= Rank[t]) => t = "MAIN"
  BY <1>1 DEF Rank, KType
<1>4. LastOf(S) = "MAIN"
  BY <1>1, <1>2, <1>3 DEF LastOf
<1> QED BY <1>1, <1>4 DEF S

(* The main kernel waits for all other kernels of its vector; they wait    *)
(* for none.                                                               *)
LEMMA WaitsOfMain ==
  ASSUME NEW S \in SUBSET KType
  PROVE  /\ WaitIndices(S, "MAIN") = S \ {"MAIN"}
         /\ \A t \in KType \ {"MAIN"} : WaitIndices(S, t) = {}
BY DEF WaitIndices, Dependencies, KType
=============================================================================
