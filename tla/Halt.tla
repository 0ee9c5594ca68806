--------------------------------- MODULE Halt ---------------------------------
(***************************************************************************)
(* When a search loop stops: the class Halt, the parameters of find that   *)
(* are made of two of them, and what counts as an improvement.  Times are  *)
(* in ticks of a clock.                                                    *)
(***************************************************************************)
EXTENDS Naturals

CONSTANTS
  Second,     \* 1 second, in ticks
  Tenth,      \* 0.1 seconds
  Hundredth,  \* 0.01 seconds
  Forever     \* the 10000000 seconds of get_at_least_n_restarts

ASSUME TicksAssumption ==
  /\ Hundredth \in Nat \ {0} /\ Tenth \in Nat /\ Second \in Nat /\ Forever \in Nat
  /\ Hundredth <= Tenth /\ Tenth <= Second /\ Second <= Forever

(* What the constructor lets through.                                      *)
Halts == {h \in [min_runs : Nat, max_runs : Nat, min_time : Nat, max_time : Nat] :
            /\ h.max_time > 0 /\ h.min_time <= h.max_time
            /\ h.max_runs > 0 /\ h.min_runs <= h.max_runs}

(* A mutant: the minimum of runs is forgotten.                             *)
StopsIgnoringMinRuns(h, ri, et) ==
  ~(et < h.min_time \/ (ri < h.max_runs /\ et < h.max_time))

(* Halt::halt, for ri runs that took et.                                   *)
Stops(h, ri, et) ==
  ~(ri < h.min_runs \/ et < h.min_time \/ (ri < h.max_runs /\ et < h.max_time))

Least(a, b) == IF a <= b THEN a ELSE b

Greatest(a, b) == IF a >= b THEN a ELSE b

HaltOf(runs, time) == [min_runs |-> runs[1], max_runs |-> runs[2],
                       min_time |-> time[1], max_time |-> time[2]]

AtLeastNSeconds(s) ==
  [outer |-> HaltOf(<<0, 100000>>, <<s, Least(2 * s, s + Tenth)>>),
   core |-> HaltOf(<<0, 4>>, <<0, Tenth>>)]

AtLeastNRestarts(n) ==
  [outer |-> HaltOf(<<n, n>>, <<0, Forever>>), core |-> HaltOf(<<0, 5>>, <<0, Tenth>>)]

(* The run time new, against old: the factor is 0.998.                     *)
Improves(old, new) == 998 * old >= 1000 * new
=============================================================================
