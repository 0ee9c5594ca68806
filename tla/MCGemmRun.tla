------------------------------- MODULE MCGemmRun -------------------------------
(***************************************************************************)
(* Instances of GemmRun for TLC: three calls.  The plans are those host    *)
(* programs that order calls wherever they share memory, among the ways    *)
(* below of choosing kernels, memory, queues and events.                   *)
(***************************************************************************)
EXTENDS GemmRun

CONSTANTS bufA, bufB, bufC, bufD, bufE, work1, work2, ordered, loose, other

Hp(x, y, i) == [wosA |-> x, wosB |-> y, ice |-> i]

(* All four kernels; a packed B; the main kernel alone.                    *)
Big == Hp("COPY", "NFORM", 2)
Packed == Hp("UNUSED", "COPY", 1)
Small == Hp("UNUSED", "UNUSED", 1)

J(hp, beta, a, b, c, w, q, after, waits, timed) ==
  [hp |-> hp, beta |-> beta, a |-> a, b |-> b, c |-> c, w |-> w, queue |-> q,
   after |-> after, waits |-> waits, timed |-> timed]

(* Call 1 computes C from A and B.  Call 2 does so again, adding to C, or  *)
(* computes D from C.  Call 3 is the main kernel alone; it takes D to C,   *)
(* is ordered by events or by a queue that executes in order, or has       *)
(* matrices of its own and is not ordered at all.                          *)
First == {J(Big, "IsOther", bufA, bufB, bufC, work1, q, {}, {}, q = loose) :
            q \in {ordered, loose}}

Second == {J(hp[1], hp[2], m[1], bufB, m[2], w, q, {1}, waits, FALSE) :
             hp \in {<<Big, "IsOne">>, <<Packed, "IsOther">>},
             m \in {<<bufA, bufC>>, <<bufC, bufD>>},
             w \in {work1, work2}, q \in {ordered, loose}, waits \in SUBSET {1}}

Third == {J(Small, "IsOther", m[1], bufB, m[2], work1, ordered, m[3], m[4], FALSE) :
            m \in {<<bufD, bufC, {1, 2}, {2}>>, <<bufA, bufE, {}, {}>>}}

MCPlans == {p \in {<<j1, j2, j3>> : j1 \in First, j2 \in Second, j3 \in Third} :
              p \in Plan /\ Disciplined(p)}
=============================================================================
