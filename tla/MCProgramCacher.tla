--------------------------- MODULE MCProgramCacher ---------------------------
(***************************************************************************)
(* Instances of ProgramCacher for TLC.  Two geometries: one whose solution *)
(* packs A and splits the summation (three kernels, or two when beta is    *)
(* one), one that is the main kernel alone.                                *)
(***************************************************************************)
EXTENDS ProgramCacher

CONSTANTS t1, t2, split, plain, dev, ctx1, ctx2, queue1, queue2

MCContextOf == [q \in Queues |-> IF q = queue2 THEN ctx2 ELSE ctx1]

MCNameOf == [q \in Queues |-> dev]

P(g, b, q) == [geom |-> g, beta |-> b, queue |-> q]

(* Three keys, so that the two usable slots run out; one of them is wanted *)
(* in both contexts; one geometry is wanted with both kinds of beta.       *)
MCProblems == {P(split, "IsOne", queue1), P(split, "IsOther", queue1),
               P(split, "IsOther", queue2), P(plain, "IsOther", queue1)}

(* A single context.                                                       *)
MCProblemsOfOneContext == {p \in MCProblems : p.queue = queue1}

MCDefaultHyPas ==
  [n \in DeviceNames |->
     [g \in Geometries |-> IF g = split
                           THEN [wosA |-> "COPY", wosB |-> "UNUSED", ice |-> 2]
                           ELSE [wosA |-> "UNUSED", wosB |-> "UNUSED", ice |-> 1]]]
=============================================================================
