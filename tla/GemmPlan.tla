------------------------------- MODULE GemmPlan -------------------------------
(***************************************************************************)
(* What a host program asks for when it calls GEMM several times: the      *)
(* memory each call works on, its queue, and how it is ordered after       *)
(* others.  Calls are numbered in an order in which they could be made.    *)
(***************************************************************************)
EXTENDS Integers, KernelGraph

CONSTANTS
  Calls,       \* the numbers of the calls
  Buffers,     \* the memory objects that hold matrices
  Workspaces,  \* the memory objects that are workspace
  Queues,      \* the command queues,
  InOrder      \*   and those of them that execute in order

ASSUME CallsAssumption == Calls \subseteq Nat
ASSUME InOrderAssumption == InOrder \subseteq Queues

(* A call: the hyper-parameters and beta its programs were made for, its   *)
(* matrices and workspace, its queue; the calls that have returned when it *)
(* is made, those of them whose events it is given to wait for, and        *)
(* whether its kernels are timed.                                          *)
Job == [hp : HyPas, beta : BetaType, a : Buffers, b : Buffers, c : Buffers,
        w : Workspaces, queue : Queues,
        after : SUBSET Calls, waits : SUBSET Calls, timed : BOOLEAN]

(* The programs that are active for the call.                              *)
KernelsOf(j) == Blobs(j.hp, j.beta)

(* The memory object behind one of "A", "B", "C", "WA", "WB".              *)
Place(j, m) == CASE m = "A" -> j.a
                 [] m = "B" -> j.b
                 [] m = "C" -> j.c
                 [] m \in {"WA", "WB"} -> j.w

(* Kernel s of call c writes where kernel t of call d reads or writes.  In *)
(* one call the packed A and the packed B lie apart; in two calls they may *)
(* lie anywhere in the workspace.                                          *)
Disturbs(p, c, s, d, t) ==
  \E m \in Writes(s), n \in Reads(p[d].hp, t) \cup Writes(t) :
    /\ Place(p[c], m) = Place(p[d], n)
    /\ c = d => m = n

Conflict(p, c, s, d, t) == Disturbs(p, c, s, d, t) \/ Disturbs(p, d, t, c, s)

(* What call d waits for: the events it is given, and on a queue that      *)
(* executes in order whatever was enqueued there by calls that returned.   *)
Awaited(p, d) ==
  p[d].waits \cup {c \in p[d].after : p[c].queue = p[d].queue /\ p[d].queue \in InOrder}

(* A set of calls with all they wait for.                                  *)
Closed(p, S) == \A c \in S : Awaited(p, c) \subseteq S

(* Every call that is certain to be over when call d begins to execute:    *)
(* what d waits for, what that waits for, and so on.                       *)
Before(p, d) ==
  {c \in Calls : \A S \in SUBSET Calls : Awaited(p, d) \subseteq S /\ Closed(p, S) => c \in S}

(* A host program that orders its calls wherever they share memory.        *)
Disciplined(p) ==
  \A c, d \in Calls :
    (c # d /\ \E s \in KernelsOf(p[c]), t \in KernelsOf(p[d]) : Conflict(p, c, s, d, t))
      => c \in Before(p, d) \/ d \in Before(p, c)

(* A plan: calls only know calls made before them, and the result of a     *)
(* call is none of its operands.                                           *)
Plan == {p \in [Calls -> Job] :
           \A c \in Calls : /\ p[c].waits \subseteq p[c].after
                            /\ \A d \in p[c].after : d < c
                            /\ p[c].c \notin {p[c].a, p[c].b}}

(* Contents of memory.  What call i leaves in C, given what it finds in A, *)
(* B and C.                                                                *)
Untouched == <<"untouched">>

Garbage == <<"garbage">>

ScaleBy(i, beta, v) == IF beta = "IsOne" THEN v ELSE <<"beta", i, v>>

Plus(i, va, vb, v) == <<"plus", i, va, vb, v>>
=============================================================================
