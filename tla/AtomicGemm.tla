------------------------------ MODULE AtomicGemm ------------------------------
(***************************************************************************)
(* What GEMM promises to a host program that orders its calls wherever     *)
(* they share memory: each call takes effect once, at once, and after the  *)
(* calls it waits for; and every call does in the end.                     *)
(***************************************************************************)
EXTENDS GemmPlan

CONSTANT Plans  \* the plans of the host programs that are considered

VARIABLES
  plan,  \* what the host program asks for
  mem,   \* the matrices
  done   \* the calls that have taken effect

vars == <<plan, mem, done>>

Init ==
  /\ plan \in Plans
  /\ mem = [x \in Buffers |-> Untouched]
  /\ done = {}

(* C <- alpha op(A) op(B) + beta C                                         *)
Apply(i) ==
  LET j == plan[i]
  IN /\ i \notin done
     /\ Awaited(plan, i) \subseteq done
     /\ mem' = [mem EXCEPT ![j.c] = Plus(i, mem[j.a], mem[j.b], ScaleBy(i, j.beta, @))]
     /\ done' = done \cup {i}
     /\ UNCHANGED plan

Next == \E i \in Calls : Apply(i)

Spec == Init /\ [][Next]_vars /\ WF_vars(Next)
=============================================================================
