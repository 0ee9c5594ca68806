-------------------------------- MODULE Search --------------------------------
(***************************************************************************)
(* TinyZero::find0, which looks for the fastest hyper-parameters of a      *)
(* geometry: one descent after another over the graph of hyper-parameters, *)
(* each from its own start, until a Halt says stop.  A descent             *)
(* (single_descent_find) benchmarks the candidates of a front; as soon as  *)
(* one is an improvement the front becomes its neighbours.  A benchmark    *)
(* (true_core) runs one candidate until another Halt says stop.            *)
(*                                                                         *)
(* The program is sequential; what moves beside it is the clock, which     *)
(* each loop reads anew, and what the device answers: whether a program    *)
(* builds, whether its kernels can be enqueued, how long they take.        *)
(*                                                                         *)
(* The run times of one benchmark are represented by their statistic (the  *)
(* best, the median, the mean), any element of Times.                      *)
(***************************************************************************)
EXTENDS Integers, Sequences, Halt

CONSTANTS
  HyperParams,  \* the hyper-parameters of the graph
  Neighbors,    \* get_neighbors of each
  Derivable,    \* those that is_dvble accepts
  Reasonable,   \* those that pass architests
  Cached,       \* those the kernel cache has for the geometry, nearest first
  Times,        \* what a benchmark may measure
  Parameters,   \* the FindParams find0 may be called with
  Faults,       \* what may fail, among "address", "start", "compile", "enqueue"
  MaxNow,       \* bound: when the clock stops
  MaxDescents   \* bound: how many descents there are

ASSUME GraphAssumption ==
  /\ Neighbors \in [HyperParams -> SUBSET HyperParams]
  /\ Derivable \subseteq HyperParams
  /\ Derivable # {}
  /\ Reasonable \subseteq HyperParams
  /\ Cached \in Seq(Derivable)
ASSUME MeasureAssumption ==
  /\ Times \subseteq Nat \ {0}
  /\ Parameters \subseteq [outer : Halts, core : Halts]
  /\ Faults \subseteq {"address", "start", "compile", "enqueue"}
  /\ MaxNow \in Nat /\ MaxDescents \in Nat

Solution == [hypas : HyperParams, extime : Nat \ {0}]

(* Whether descent number n starts from the kernel cache: 0, 1, 5, 10, ... *)
WarmStart(n) == n < 2 \/ n % 5 = 0

(* get_default_soln with IfNoCache RANDOM: the cached hyper-parameters of  *)
(* that rank, or any valid ones of the graph.                              *)
DefaultStarts(rank) ==
  IF rank < Len(Cached) THEN {Cached[rank + 1]} ELSE Derivable \cap Reasonable

VARIABLES
  now,            \* the clock; find0 starts its timer at 0
  fparms,         \* what find0 was called with
  pc,             \* where the search is
  descents,       \* ftrack.get_descents()
  warmstart_rank,
  v_solns,        \* what the descents found
  allotted,       \* the time the descent may take,
  dstart,         \*   from when on,
  warmstart,      \*   whether it starts from the cache, and
  warm_start_hp,  \*   the hyper-parameters it then starts from
  front,          \* what is left of hyper_front,
  slipped,        \*   and whether warm_start_hp is at its back as well
  history,        \* how often hyper_front_history has each hyper-parameters
  found,          \* whether the descent has a solution,
  best,           \*   its best one,
  improved,       \*   and improvement_found_on_front
  hp_curr,        \* the candidate that is benchmarked,
  runi,           \*   how often it was run,
  cstart,         \*   since when
  measured,       \* every run time the search has measured
  result          \* how find0 ended

outerVars   == <<descents, warmstart_rank, v_solns>>
descentVars == <<allotted, dstart, warmstart, warm_start_hp>>
frontVars   == <<front, slipped, history>>
bestVars    == <<found, best, improved, measured>>
coreVars    == <<hp_curr, runi, cstart>>

vars == <<now, fparms, pc, outerVars, descentVars, frontVars, bestVars, coreVars, result>>

AnyHP == CHOOSE h \in Derivable : TRUE

AnySoln == [hypas |-> AnyHP, extime |-> 1]

Init ==
  /\ now = 0
  /\ fparms \in Parameters
  /\ pc = "find"
  /\ descents = 0 /\ warmstart_rank = 0 /\ v_solns = <<>>
  /\ allotted = 0 /\ dstart = 0 /\ warmstart = TRUE /\ warm_start_hp = AnyHP
  /\ front = {} /\ slipped = FALSE /\ history = [h \in HyperParams |-> 0]
  /\ found = FALSE /\ best = AnySoln /\ improved = FALSE /\ measured = {}
  /\ hp_curr = AnyHP /\ runi = 0 /\ cstart = 0
  /\ result = [status |-> "none", soln |-> AnySoln]

Tick ==
  /\ now < MaxNow
  /\ now' = now + 1
  /\ UNCHANGED <<fparms, pc, outerVars, descentVars, frontVars, bestVars, coreVars, result>>

End(status, soln) ==
  /\ pc' = "ended"
  /\ result' = [status |-> status, soln |-> soln]

(* The end of find0, which is the end of every loop it is in.              *)
Abandon(status) ==
  /\ End(status, result.soln)
  /\ UNCHANGED <<now, fparms, outerVars, descentVars, frontVars, bestVars, coreVars>>

-----------------------------------------------------------------------------
(* find0. *)

(* With next to no time it returns the default of the geometry.            *)
Default ==
  /\ pc = "find"
  /\ fparms.outer.max_time < Hundredth
  /\ Abandon("default")

(* The four memories are not as they should be.                            *)
AddressThrows ==
  /\ pc = "find"
  /\ fparms.outer.max_time >= Hundredth
  /\ "address" \in Faults
  /\ Abandon("threw")

Begin ==
  /\ pc = "find"
  /\ fparms.outer.max_time >= Hundredth
  /\ pc' = "outer"
  /\ UNCHANGED <<now, fparms, outerVars, descentVars, frontVars, bestVars, coreVars, result>>

(* A mutant: a late descent gets what is left of the time, if anything.    *)
AllottedTimeUnbounded(left) == left

(* A descent gets at least a second, however late it is.                   *)
AllottedTime(left) == Greatest(Second, left)

(* What is left of the time of the search.                                 *)
TimeLeft == fparms.outer.max_time - now

EnterDescent ==
  /\ pc = "outer"
  /\ descents < MaxDescents
  /\ ~Stops(fparms.outer, descents, now)
  /\ warmstart' = WarmStart(descents)
  /\ pc' = "allot"
  /\ UNCHANGED <<now, fparms, outerVars, allotted, dstart, warm_start_hp, frontVars,
                 bestVars, coreVars, result>>

(* The timer is read again, after the test of the loop.                    *)
Allot ==
  /\ pc = "allot"
  /\ allotted' = AllottedTime(TimeLeft)
  /\ pc' = "start"
  /\ UNCHANGED <<now, fparms, outerVars, dstart, warmstart, warm_start_hp, frontVars,
                 bestVars, coreVars, result>>

(* A mutant: the last solution is returned.                                *)
BestIndexLast(s) == Len(s)

(* The solution with the most gflops, the first of several.                *)
IsBestIndex(s, i) ==
  \A j \in 1 .. Len(s) : /\ s[i].extime <= s[j].extime
                         /\ j < i => s[i].extime < s[j].extime

BestIndex(s) == CHOOSE i \in 1 .. Len(s) : IsBestIndex(s, i)

(* Without any solution, v_solns[0] is read all the same.                  *)
Finish ==
  /\ pc = "outer"
  /\ Stops(fparms.outer, descents, now)
  /\ IF v_solns = <<>> THEN End("no_solution", result.soln)
                       ELSE End("found", v_solns[BestIndex(v_solns)])
  /\ UNCHANGED <<now, fparms, outerVars, descentVars, frontVars, bestVars, coreVars>>

-----------------------------------------------------------------------------
(* single_descent_find. *)

(* The timer is started, and then the graph made and the start chosen.     *)
StartTimer ==
  /\ pc = "start"
  /\ dstart' = now
  /\ pc' = "choose"
  /\ UNCHANGED <<now, fparms, outerVars, allotted, warmstart, warm_start_hp, frontVars,
                 bestVars, coreVars, result>>

(* The constraints contradict the graph, or no valid start was found.      *)
StartThrows == pc = "choose" /\ "start" \in Faults /\ Abandon("threw")

Start ==
  /\ pc = "choose"
  /\ \E h \in IF warmstart THEN DefaultStarts(warmstart_rank)
                           ELSE Derivable \cap Reasonable :
       /\ warm_start_hp' = IF warmstart THEN h ELSE warm_start_hp
       /\ front' = {h}
  /\ pc' = "front"
  /\ UNCHANGED <<now, fparms, outerVars, allotted, dstart, warmstart, slipped, history,
                 bestVars, coreVars, result>>

Late == now - dstart >= allotted

(* The candidates that may be next: the neighbours come in random order,   *)
(* the warm start behind them.                                             *)
Candidates == IF front = {} /\ slipped THEN {warm_start_hp} ELSE front

(* The head of the loop over the front.                                    *)
Consider(h) ==
  /\ pc = "front"
  /\ ~improved
  /\ ~Late
  /\ h \in Candidates
  /\ front' = front \ {h}
  /\ slipped' = (slipped /\ front # {})
  /\ history' = [history EXCEPT ![h] = @ + 1]
  /\ hp_curr' = h

(* The device would not run it, or not well.                               *)
Skip ==
  /\ \E h \in HyperParams \ Reasonable : Consider(h)
  /\ UNCHANGED <<now, fparms, pc, outerVars, descentVars, bestVars, runi, cstart, result>>

(* Programs::update throws when a kernel does not compile.                 *)
CompileThrows ==
  /\ "compile" \in Faults
  /\ \E h \in Reasonable : Consider(h)
  /\ End("threw", result.soln)
  /\ UNCHANGED <<now, fparms, outerVars, descentVars, bestVars, runi, cstart>>

Benchmark ==
  /\ \E h \in Reasonable : Consider(h)
  /\ cstart' = now
  /\ pc' = "core"
  /\ UNCHANGED <<now, fparms, outerVars, descentVars, bestVars, runi, result>>

(* The front is exhausted, an improvement was found, or time is up.        *)
LeaveFront ==
  /\ pc = "front"
  /\ improved \/ Late \/ Candidates = {}
  /\ pc' = "refresh"
  /\ UNCHANGED <<now, fparms, outerVars, descentVars, frontVars, bestVars, coreVars, result>>

(* A mutant: what was considered before is considered again.               *)
NextFrontAgain(h) == Neighbors[h] \cap Derivable

(* The neighbours that were not considered yet, those that cannot be       *)
(* derived left out.                                                       *)
NextFront(h) == {n \in Neighbors[h] \cap Derivable : history[n] = 0}

(* A mutant: the flag is not reset before the front is gone through.       *)
RefreshWithoutReset ==
  /\ pc = "refresh"
  /\ improved
  /\ ~Late
  /\ front' = NextFront(hp_curr)
  /\ slipped' = warmstart
  /\ pc' = "front"
  /\ UNCHANGED <<now, fparms, outerVars, descentVars, history, bestVars, coreVars, result>>

Refresh ==
  /\ pc = "refresh"
  /\ improved
  /\ ~Late
  /\ front' = NextFront(hp_curr)
  /\ slipped' = warmstart
  /\ improved' = FALSE
  /\ pc' = "front"
  /\ UNCHANGED <<now, fparms, outerVars, descentVars, history, found, best, measured,
                 coreVars, result>>

(* Time is up: the loop turns once more, over the front as it was.         *)
TurnLate ==
  /\ pc = "refresh"
  /\ improved
  /\ Late
  /\ improved' = FALSE
  /\ pc' = "front"
  /\ UNCHANGED <<now, fparms, outerVars, descentVars, frontVars, found, best, measured,
                 coreVars, result>>

(* The locals of a descent, before its first and after each.               *)
NoDescent ==
  /\ allotted' = 0 /\ dstart' = 0 /\ warm_start_hp' = AnyHP
  /\ front' = {} /\ slipped' = FALSE /\ history' = [h \in HyperParams |-> 0]
  /\ found' = FALSE /\ best' = AnySoln /\ hp_curr' = AnyHP

EndDescent ==
  /\ pc = "refresh"
  /\ ~improved
  /\ found
  /\ v_solns' = Append(v_solns, best)
  /\ descents' = descents + 1
  /\ warmstart_rank' = IF warmstart THEN warmstart_rank + 1 ELSE warmstart_rank
  /\ pc' = "outer"
  /\ NoDescent
  /\ UNCHANGED <<now, fparms, warmstart, improved, measured, runi, cstart, result>>

(* "There were no solutions found."                                        *)
NoSolutionThrows == pc = "refresh" /\ ~improved /\ ~found /\ Abandon("threw")

-----------------------------------------------------------------------------
(* true_core, and what the descent does with the time it returns. *)

Run ==
  /\ pc = "core"
  /\ ~Stops(fparms.core, runi, now - cstart)
  /\ runi' = runi + 1
  /\ UNCHANGED <<now, fparms, pc, outerVars, descentVars, frontVars, bestVars, hp_curr,
                 cstart, result>>

(* The error of the enqueue is dropped; waiting for its event throws.      *)
RunThrows ==
  /\ pc = "core"
  /\ ~Stops(fparms.core, runi, now - cstart)
  /\ "enqueue" \in Faults
  /\ Abandon("threw")

(* The least element of no run times is read.                              *)
CoreWithoutRuns ==
  /\ pc = "core"
  /\ Stops(fparms.core, runi, now - cstart)
  /\ runi = 0
  /\ Abandon("no_run_time")

(* A mutant: a candidate that is not an improvement replaces the best.     *)
JudgeWithoutCompare ==
  /\ pc = "core"
  /\ Stops(fparms.core, runi, now - cstart)
  /\ runi > 0
  /\ \E k \in Times :
       /\ measured' = measured \cup {k}
       /\ found' = TRUE
       /\ improved' = (~found \/ Improves(best.extime, k))
       /\ best' = [hypas |-> hp_curr, extime |-> k]
  /\ runi' = 0 /\ cstart' = 0
  /\ pc' = "front"
  /\ UNCHANGED <<now, fparms, outerVars, descentVars, frontVars, hp_curr, result>>

(* A mutant: a tie is enough for the front to move, not for the record.    *)
JudgeTiesMove ==
  /\ pc = "core"
  /\ Stops(fparms.core, runi, now - cstart)
  /\ runi > 0
  /\ \E k \in Times :
       /\ measured' = measured \cup {k}
       /\ found' = TRUE
       /\ improved' = (~found \/ best.extime >= k)
       /\ best' = IF ~found \/ Improves(best.extime, k)
                  THEN [hypas |-> hp_curr, extime |-> k] ELSE best
  /\ runi' = 0 /\ cstart' = 0
  /\ pc' = "front"
  /\ UNCHANGED <<now, fparms, outerVars, descentVars, frontVars, hp_curr, result>>

Judge ==
  /\ pc = "core"
  /\ Stops(fparms.core, runi, now - cstart)
  /\ runi > 0
  /\ \E k \in Times :
       /\ measured' = measured \cup {k}
       /\ found' = TRUE
       /\ improved' = (~found \/ Improves(best.extime, k))
       /\ best' = IF ~found \/ Improves(best.extime, k)
                  THEN [hypas |-> hp_curr, extime |-> k] ELSE best
  /\ runi' = 0 /\ cstart' = 0
  /\ pc' = "front"
  /\ UNCHANGED <<now, fparms, outerVars, descentVars, frontVars, hp_curr, result>>

-----------------------------------------------------------------------------
Find == Default \/ AddressThrows \/ Begin \/ EnterDescent \/ Allot \/ Finish

Descend ==
  \/ StartTimer \/ StartThrows \/ Start
  \/ Skip \/ CompileThrows \/ Benchmark \/ LeaveFront
  \/ Refresh \/ TurnLate \/ EndDescent \/ NoSolutionThrows

Core == Run \/ RunThrows \/ CoreWithoutRuns \/ Judge

Next == Tick \/ Find \/ Descend \/ Core

(* The host thread runs, and so does the clock.                            *)
Fairness == WF_vars(Find \/ Descend \/ Core) /\ WF_vars(Tick)

Spec == Init /\ [][Next]_vars /\ Fairness

-----------------------------------------------------------------------------
(* Properties. *)

(* What is undefined: the first of no solutions, the least of no run times.*)
Undefined == {"no_solution", "no_run_time"}

(* Every variable has its type.                                            *)
TypeOK ==
  /\ now \in Nat
  /\ fparms \in Parameters
  /\ pc \in {"find", "outer", "allot", "start", "choose", "front", "refresh", "core",
             "ended"}
  /\ descents \in Nat /\ warmstart_rank \in Nat
  /\ v_solns \in Seq(Solution)
  /\ allotted \in Nat /\ dstart \in Nat /\ warmstart \in BOOLEAN
  /\ warm_start_hp \in HyperParams
  /\ front \subseteq HyperParams /\ slipped \in BOOLEAN
  /\ history \in [HyperParams -> Nat]
  /\ found \in BOOLEAN /\ best \in Solution /\ improved \in BOOLEAN
  /\ measured \subseteq Times
  /\ hp_curr \in HyperParams /\ runi \in Nat /\ cstart \in Nat
  /\ result \in [status : {"none", "found", "default", "threw"} \cup Undefined,
                 soln : Solution]

(* What find0 returns is the best of the search: no time measured in any   *)
(* of its descents, before or after, is an improvement over it.            *)
NothingBetterWasMeasured ==
  result.status = "found" => \A k \in measured : ~Improves(result.soln.extime, k)

(* A descent considers no hyper-parameters twice, other than its warm      *)
(* start.                                                                  *)
ConsideredOnce ==
  \A h \in HyperParams : history[h] > 1 => warmstart /\ h = warm_start_hp

(* The best of the descent has no neighbour that was not considered.       *)
LocallyMinimal == \A n \in Neighbors[best.hypas] \cap Derivable : history[n] > 0

(* A descent that adds its best to the solutions has found a local minimum *)
(* of the graph, or there is no time left for the search as a whole.       *)
DescentsGoAllTheWay ==
  [][descents' # descents => LocallyMinimal \/ now >= fparms.outer.max_time]_vars

(* No empty vector is read but where it is bound to be: a loop that may    *)
(* make no turn (its minimum of runs is 0, as in the parameters that find  *)
(* makes of a time) was held up, between its start and its first test, for *)
(* as long as all its turns may take.  A minimum of time does not help,    *)
(* nor do runs that were made in another loop.                             *)
RequiredRunsAreDefined ==
  /\ result.status = "no_solution" =>
       fparms.outer.min_runs = 0 /\ descents = 0 /\ now >= fparms.outer.max_time
  /\ result.status = "no_run_time" =>
       fparms.core.min_runs = 0 /\ runi = 0 /\ now - cstart >= fparms.core.max_time

(* The search ends, and a search by restarts does so long before the ten   *)
(* million seconds it is given: the factor that an improvement takes, and  *)
(* the history, leave no descent running for ever, though the warm start   *)
(* is tried again after every improvement.                                 *)
SearchEnds == <>(pc = "ended")

-----------------------------------------------------------------------------
(* The inductive invariant, in parts. *)

(* Every solution is of a descent that was counted, and one is the best.   *)
SolutionsCounted ==
  /\ Len(v_solns) = descents
  /\ v_solns # <<>> => \E i \in 1 .. Len(v_solns) : IsBestIndex(v_solns, i)

(* A measured time is no improvement over the best of the descent it was   *)
(* measured in, be it finished or not.                                     *)
MeasuredMatched ==
  \A k \in measured :
    \/ found /\ ~Improves(best.extime, k)
    \/ \E i \in 1 .. Len(v_solns) : ~Improves(v_solns[i].extime, k)

InDescent == pc \in {"front", "core", "refresh"}

(* The locals of a descent are fresh before it, and an improvement is not  *)
(* the best of any but the descent it was found in.                        *)
FreshDescent ==
  pc \in {"find", "outer", "allot", "start", "choose"} =>
    ~found /\ ~improved /\ ~slipped /\ front = {} /\ history = [h \in HyperParams |-> 0]

(* What is in the front was not considered; what is slipped behind it is   *)
(* the warm start.                                                         *)
FrontUnconsidered ==
  /\ \A h \in front : history[h] = 0
  /\ slipped => warmstart

(* A descent that is late is later than the whole search may be.           *)
LateIsLate ==
  /\ pc = "start" => allotted >= fparms.outer.max_time - now
  /\ pc = "choose" \/ InDescent => allotted >= fparms.outer.max_time - dstart

(* No neighbour of the best is forgotten, unless time is up.               *)
NeighborsPending ==
  InDescent =>
    /\ improved => found /\ hp_curr = best.hypas /\ pc # "core"
    /\ found /\ ~improved =>
         Late \/ \A n \in Neighbors[best.hypas] \cap Derivable : history[n] > 0 \/ n \in front
    /\ pc = "refresh" /\ ~improved => Late \/ front = {}

Outcome == result.status = "none" <=> pc # "ended"

IInv ==
  /\ TypeOK /\ SolutionsCounted /\ MeasuredMatched /\ FreshDescent /\ FrontUnconsidered
  /\ LateIsLate /\ NeighborsPending /\ Outcome
  /\ ConsideredOnce /\ NothingBetterWasMeasured /\ RequiredRunsAreDefined

-----------------------------------------------------------------------------
(* What the documentation says and the code does not do. *)

(* miogemm.hpp: "When this time is surpassed, no further Solutions are     *)
(* benchmarked, and the best found is returned."  Checked with the         *)
(* parameters find makes of its allotted time.                             *)
BestFoundIsReturned ==
  pc = "ended" /\ now >= fparms.outer.max_time /\ v_solns # <<>> =>
    result.status = "found"
=============================================================================
