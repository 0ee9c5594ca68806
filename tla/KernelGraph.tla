----------------------------- MODULE KernelGraph -----------------------------
(***************************************************************************)
(* The kernels one GEMM is made of, the order in which they are kept, and  *)
(* which of them waits for which.                                          *)
(*                                                                         *)
(* A Bundle turns three hyper-parameters into a vector of kernels: whether *)
(* A and B are first packed into workspace (WOS of A and B), and whether   *)
(* the main kernel splits the summation index over several work groups     *)
(* (ICE > 1), in which case it only adds to C and the scaling by beta is a *)
(* kernel of its own.  The other hyper-parameters change the text of a     *)
(* kernel and never which kernels there are.                               *)
(*                                                                         *)
(* Vectors of kernels always list their kernels in the order in which      *)
(* Bundle appends them and never twice, so they are represented by the set *)
(* of their kernels together with Rank.                                    *)
(***************************************************************************)
EXTENDS Naturals

KType == {"WSA", "WSB", "BETAC", "MAIN"}

Scratch == {"UNUSED", "COPY", "NFORM"}

BetaType == {"IsOne", "IsOther"}

(* wosA, wosB: Chi::E::WOS of A and B.  ice: NonChi::E::ICE of C.          *)
HyPas == [wosA : Scratch, wosB : Scratch, ice : Nat \ {0}]

MainDoesBetaCInc(hp) == hp.ice = 1

(* The position of a kernel in Bundle::v_tgks, smallest first; and a       *)
(* mutant that appends the beta kernel last.                               *)
RankMainBeforeBeta == [WSA |-> 1, WSB |-> 2, BETAC |-> 4, MAIN |-> 3]

Rank == [WSA |-> 1, WSB |-> 2, BETAC |-> 3, MAIN |-> 4]

(* Bundle::v_tgks.                                                         *)
BundleOf(hp) == {t \in KType :
                   \/ t = "WSA" /\ hp.wosA # "UNUSED"
                   \/ t = "WSB" /\ hp.wosB # "UNUSED"
                   \/ t = "BETAC" /\ ~MainDoesBetaCInc(hp)
                   \/ t = "MAIN"}

(* A mutant: the condition on beta is inverted.                            *)
BlobsInverted(hp, beta) ==
  IF beta = "IsOther" THEN BundleOf(hp) \ {"BETAC"} ELSE BundleOf(hp)

(* The kernels xgemm is to launch: get_ID leaves the beta kernel out when  *)
(* beta is one.                                                            *)
Blobs(hp, beta) == IF beta = "IsOne" THEN BundleOf(hp) \ {"BETAC"} ELSE BundleOf(hp)

(* A mutant: the main kernel does not depend on the packing of B.          *)
DependenciesWithoutWSB(t) == IF t = "MAIN" THEN {"BETAC", "WSA"} ELSE {}

(* KType::get_dependencies.                                                *)
Dependencies(t) == IF t = "MAIN" THEN {"BETAC", "WSA", "WSB"} ELSE {}

(* get_v_wait_indices: what kernel t of the vector S waits for; and a      *)
(* mutant that forgets the beta kernel.                                    *)
WaitIndicesSkippingBeta(S, t) == (S \cap Dependencies(t)) \ {"BETAC"}

WaitIndices(S, t) == S \cap Dependencies(t)

(* The kernel whose event is the caller's: the last of the vector.         *)
LastOf(S) == CHOOSE t \in S : \A s \in S : Rank[s] <= Rank[t]

(* The kernel a loop over the vector S, that is done with D, treats next.  *)
NextOf(S, D) == CHOOSE t \in S \ D : \A s \in S \ D : Rank[t] <= Rank[s]

(* The prefixes of the vector S.                                           *)
PrefixesOf(S) == {P \in SUBSET S : \A p \in P, s \in S \ P : Rank[p] < Rank[s]}

(* What a kernel reads and writes, among the three matrices and the two    *)
(* regions of the workspace that hold the packed A and the packed B.       *)
Reads(hp, t) ==
  CASE t = "WSA"   -> {"A"}
    [] t = "WSB"   -> {"B"}
    [] t = "BETAC" -> {"C"}
    [] t = "MAIN"  -> {IF hp.wosA = "UNUSED" THEN "A" ELSE "WA",
                       IF hp.wosB = "UNUSED" THEN "B" ELSE "WB",
                       "C"}

Writes(t) ==
  CASE t = "WSA"              -> {"WA"}
    [] t = "WSB"              -> {"WB"}
    [] t \in {"BETAC", "MAIN"} -> {"C"}
=============================================================================
