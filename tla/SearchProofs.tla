---------------------------- MODULE SearchProofs ----------------------------
(***************************************************************************)
(* The invariants of Search, for every graph, every clock and every        *)
(* parameters of the search.                                               *)
(***************************************************************************)
EXTENDS Search, TLAPS

(* A derivable default exists, and a solution of it.                       *)
LEMMA AnyType == AnyHP \in Derivable /\ AnyHP \in HyperParams /\ AnySoln \in Solution
BY GraphAssumption DEF AnyHP, AnySoln, Solution

(* The limits of the two loops are naturals.                               *)
LEMMA ParametersType ==
  ASSUME NEW p \in Parameters
  PROVE  /\ p.outer.max_time \in Nat /\ p.outer.min_time \in Nat
         /\ p.outer.max_runs \in Nat \ {0} /\ p.outer.min_runs \in Nat
         /\ p.core.max_time \in Nat /\ p.core.min_time \in Nat
         /\ p.core.max_runs \in Nat \ {0} /\ p.core.min_runs \in Nat
BY MeasureAssumption DEF Halts

(* The run time of a solution is a positive number.                        *)
LEMMA SolutionsType ==
  ASSUME NEW s \in Seq(Solution), NEW i \in 1 .. Len(s)
  PROVE  s[i] \in Solution /\ s[i].extime \in Nat \ {0}
<1>1. s[i] \in Solution
  OBVIOUS
<1>2. QED
  BY <1>1 DEF Solution

(* No descent has begun.                                                   *)
LEMMA InitIInv == Init => IInv
<1> SUFFICES ASSUME Init PROVE IInv
  OBVIOUS
<1> USE DEF Init
<1>1. TypeOK
  <2>1. /\ v_solns \in Seq(Solution) /\ history \in [HyperParams -> Nat]
        /\ warm_start_hp \in HyperParams /\ best \in Solution /\ hp_curr \in HyperParams
    BY AnyType
  <2>2. result \in [status : {"none", "found", "default", "threw"} \cup Undefined,
                   soln : Solution]
    BY AnyType
  <2>3. QED
    BY <2>1, <2>2 DEF TypeOK
<1>2. SolutionsCounted /\ MeasuredMatched /\ FreshDescent /\ FrontUnconsidered
  BY DEF SolutionsCounted, MeasuredMatched, FreshDescent, FrontUnconsidered
<1>3. LateIsLate /\ NeighborsPending /\ Outcome
  BY DEF LateIsLate, NeighborsPending, Outcome, InDescent
<1>4. ConsideredOnce /\ NothingBetterWasMeasured /\ RequiredRunsAreDefined
  BY DEF ConsideredOnce, NothingBetterWasMeasured, RequiredRunsAreDefined
<1>5. QED
  BY <1>1, <1>2, <1>3, <1>4 DEF IInv

(* Time goes by.                                                           *)
LEMMA TickStep == IInv /\ Tick => IInv'
<1> SUFFICES ASSUME IInv, Tick PROVE IInv'
  OBVIOUS
<1> USE DEF IInv, Tick, outerVars, descentVars, frontVars, bestVars, coreVars
<1>0. /\ now \in Nat /\ allotted \in Nat /\ dstart \in Nat /\ cstart \in Nat
      /\ fparms.outer.max_time \in Nat /\ fparms.core.max_time \in Nat
  BY ParametersType DEF TypeOK
<1>1. TypeOK'
  BY DEF TypeOK
<1>2. (SolutionsCounted /\ MeasuredMatched /\ FreshDescent /\ FrontUnconsidered)'
  BY DEF SolutionsCounted, MeasuredMatched, FreshDescent, FrontUnconsidered, IsBestIndex
<1>3. LateIsLate'
  BY <1>0 DEF LateIsLate, InDescent
<1>4. Late => Late'
  BY <1>0 DEF Late
<1>5. NeighborsPending'
  BY <1>4 DEF NeighborsPending, InDescent
<1>6. (Outcome /\ ConsideredOnce /\ NothingBetterWasMeasured /\ RequiredRunsAreDefined)'
  BY <1>0 DEF Outcome, ConsideredOnce, NothingBetterWasMeasured, RequiredRunsAreDefined
<1>7. QED
  BY <1>1, <1>2, <1>3, <1>5, <1>6

(* Nothing undefined has been done by a search that goes on.               *)
LEMMA NothingUndefined ==
  ASSUME IInv, pc # "ended", UNCHANGED result
  PROVE  RequiredRunsAreDefined'
BY DEF IInv, Outcome, RequiredRunsAreDefined

(* Whatever ends a search early changes nothing but its outcome.           *)
LEMMA AbandonStep ==
  ASSUME IInv, pc # "ended",
         NEW status \in {"default", "threw", "no_run_time"}, Abandon(status),
         status = "no_run_time" =>
           fparms.core.min_runs = 0 /\ runi = 0 /\ now - cstart >= fparms.core.max_time
  PROVE  IInv'
<1> USE DEF IInv, Abandon, End, outerVars, descentVars, frontVars, bestVars, coreVars
<1>1. TypeOK'
  BY DEF TypeOK, Undefined
<1>2. (SolutionsCounted /\ MeasuredMatched /\ FreshDescent /\ FrontUnconsidered)'
  BY DEF SolutionsCounted, MeasuredMatched, FreshDescent, FrontUnconsidered, IsBestIndex
<1>3. (LateIsLate /\ NeighborsPending /\ Outcome)'
  BY DEF LateIsLate, NeighborsPending, InDescent, Outcome
<1>4. (ConsideredOnce /\ NothingBetterWasMeasured /\ RequiredRunsAreDefined)'
  BY DEF ConsideredOnce, NothingBetterWasMeasured, RequiredRunsAreDefined
<1>5. QED
  BY <1>1, <1>2, <1>3, <1>4

(* A search begins without a solution.                                     *)
LEMMA BeginStep == IInv /\ Begin => IInv'
<1> SUFFICES ASSUME IInv, Begin PROVE IInv'
  OBVIOUS
<1> USE DEF IInv, Begin, outerVars, descentVars, frontVars, bestVars, coreVars
<1>1. TypeOK'
  BY DEF TypeOK
<1>2. (SolutionsCounted /\ MeasuredMatched)'
  BY DEF SolutionsCounted, MeasuredMatched, IsBestIndex
<1>3. (FreshDescent /\ FrontUnconsidered)'
  BY DEF FreshDescent, FrontUnconsidered
<1>4. LateIsLate'
  BY ParametersType DEF TypeOK, LateIsLate, InDescent
<1>5. NeighborsPending'
  BY DEF NeighborsPending, InDescent, Late, Candidates
<1>6. (Outcome /\ ConsideredOnce /\ NothingBetterWasMeasured /\ RequiredRunsAreDefined)'
  BY NothingUndefined DEF Outcome, ConsideredOnce, NothingBetterWasMeasured
<1>7. QED
  BY <1>1, <1>2, <1>3, <1>4, <1>5, <1>6

(* The timer of a descent starts at the time of the search.                *)
LEMMA StartTimerStep == IInv /\ StartTimer => IInv'
<1> SUFFICES ASSUME IInv, StartTimer PROVE IInv'
  OBVIOUS
<1> USE DEF IInv, StartTimer, outerVars, descentVars, frontVars, bestVars, coreVars
<1>1. TypeOK'
  BY DEF TypeOK
<1>2. (SolutionsCounted /\ MeasuredMatched)'
  BY DEF SolutionsCounted, MeasuredMatched, IsBestIndex
<1>3. (FreshDescent /\ FrontUnconsidered)'
  BY DEF FreshDescent, FrontUnconsidered
<1>4. LateIsLate'
  BY ParametersType DEF TypeOK, LateIsLate, InDescent
<1>5. NeighborsPending'
  BY DEF NeighborsPending, InDescent, Late, Candidates
<1>6. (Outcome /\ ConsideredOnce /\ NothingBetterWasMeasured /\ RequiredRunsAreDefined)'
  BY NothingUndefined DEF Outcome, ConsideredOnce, NothingBetterWasMeasured
<1>7. QED
  BY <1>1, <1>2, <1>3, <1>4, <1>5, <1>6

(* A front is left when it is exhausted, was improved upon, or time is up. *)
LEMMA LeaveFrontStep == IInv /\ LeaveFront => IInv'
<1> SUFFICES ASSUME IInv, LeaveFront PROVE IInv'
  OBVIOUS
<1> USE DEF IInv, LeaveFront, outerVars, descentVars, frontVars, bestVars, coreVars
<1>1. TypeOK'
  BY DEF TypeOK
<1>2. (SolutionsCounted /\ MeasuredMatched)'
  BY DEF SolutionsCounted, MeasuredMatched, IsBestIndex
<1>3. (FreshDescent /\ FrontUnconsidered)'
  BY DEF FreshDescent, FrontUnconsidered
<1>4. LateIsLate'
  BY ParametersType DEF TypeOK, LateIsLate, InDescent
<1>5. NeighborsPending'
  BY DEF NeighborsPending, InDescent, Late, Candidates
<1>6. (Outcome /\ ConsideredOnce /\ NothingBetterWasMeasured /\ RequiredRunsAreDefined)'
  BY NothingUndefined DEF Outcome, ConsideredOnce, NothingBetterWasMeasured
<1>7. QED
  BY <1>1, <1>2, <1>3, <1>4, <1>5, <1>6

(* The loop turns once more when time is up.                               *)
LEMMA TurnLateStep == IInv /\ TurnLate => IInv'
<1> SUFFICES ASSUME IInv, TurnLate PROVE IInv'
  OBVIOUS
<1> USE DEF IInv, TurnLate, outerVars, descentVars, frontVars, bestVars, coreVars
<1>1. TypeOK'
  BY DEF TypeOK
<1>2. (SolutionsCounted /\ MeasuredMatched)'
  BY DEF SolutionsCounted, MeasuredMatched, IsBestIndex
<1>3. (FreshDescent /\ FrontUnconsidered)'
  BY DEF FreshDescent, FrontUnconsidered
<1>4. LateIsLate'
  BY ParametersType DEF TypeOK, LateIsLate, InDescent
<1>5. NeighborsPending'
  BY DEF NeighborsPending, InDescent, Late, Candidates
<1>6. (Outcome /\ ConsideredOnce /\ NothingBetterWasMeasured /\ RequiredRunsAreDefined)'
  BY NothingUndefined DEF Outcome, ConsideredOnce, NothingBetterWasMeasured
<1>7. QED
  BY <1>1, <1>2, <1>3, <1>4, <1>5, <1>6

(* The kernels of a candidate are run once more.                           *)
LEMMA RunStep == IInv /\ Run => IInv'
<1> SUFFICES ASSUME IInv, Run PROVE IInv'
  OBVIOUS
<1> USE DEF IInv, Run, outerVars, descentVars, frontVars, bestVars, coreVars
<1>1. TypeOK'
  BY DEF TypeOK
<1>2. (SolutionsCounted /\ MeasuredMatched)'
  BY DEF SolutionsCounted, MeasuredMatched, IsBestIndex
<1>3. (FreshDescent /\ FrontUnconsidered)'
  BY DEF FreshDescent, FrontUnconsidered
<1>4. LateIsLate'
  BY ParametersType DEF TypeOK, LateIsLate, InDescent
<1>5. NeighborsPending'
  BY DEF NeighborsPending, InDescent, Late, Candidates
<1>6. (Outcome /\ ConsideredOnce /\ NothingBetterWasMeasured /\ RequiredRunsAreDefined)'
  BY NothingUndefined DEF Outcome, ConsideredOnce, NothingBetterWasMeasured
<1>7. QED
  BY <1>1, <1>2, <1>3, <1>4, <1>5, <1>6

(* The locals of a descent are fresh.                                      *)
LEMMA EnterDescentStep == IInv /\ EnterDescent => IInv'
<1> SUFFICES ASSUME IInv, EnterDescent PROVE IInv'
  OBVIOUS
<1> USE DEF IInv, EnterDescent, outerVars, frontVars, bestVars, coreVars
<1>1. TypeOK'
  BY DEF TypeOK, WarmStart
<1>2. (SolutionsCounted /\ MeasuredMatched)'
  BY DEF SolutionsCounted, MeasuredMatched, IsBestIndex
<1>3. (FreshDescent /\ FrontUnconsidered)'
  BY DEF FreshDescent, FrontUnconsidered
<1>4. (LateIsLate /\ NeighborsPending)'
  BY DEF LateIsLate, NeighborsPending, InDescent
<1>5. (Outcome /\ ConsideredOnce /\ NothingBetterWasMeasured /\ RequiredRunsAreDefined)'
  BY NothingUndefined DEF Outcome, ConsideredOnce, NothingBetterWasMeasured,
         FreshDescent, TypeOK
<1>6. QED
  BY <1>1, <1>2, <1>3, <1>4, <1>5

(* The time a descent gets reaches past the end of the search.             *)
LEMMA AllotStep == IInv /\ Allot => IInv'
<1> SUFFICES ASSUME IInv, Allot PROVE IInv'
  OBVIOUS
<1> USE DEF IInv, Allot, outerVars, frontVars, bestVars, coreVars
<1>0. /\ now \in Nat /\ fparms.outer.max_time \in Nat
      /\ allotted' \in Nat /\ allotted' >= fparms.outer.max_time - now
  BY TicksAssumption, ParametersType DEF TypeOK, AllottedTime, TimeLeft, Greatest
<1>1. TypeOK'
  BY <1>0 DEF TypeOK
<1>2. (SolutionsCounted /\ MeasuredMatched)'
  BY DEF SolutionsCounted, MeasuredMatched, IsBestIndex
<1>3. (FreshDescent /\ FrontUnconsidered)'
  BY DEF FreshDescent, FrontUnconsidered
<1>4. LateIsLate'
  BY <1>0 DEF LateIsLate, InDescent
<1>5. NeighborsPending'
  BY DEF NeighborsPending, InDescent
<1>6. (Outcome /\ ConsideredOnce /\ NothingBetterWasMeasured /\ RequiredRunsAreDefined)'
  BY NothingUndefined DEF Outcome, ConsideredOnce, NothingBetterWasMeasured,
         FreshDescent, TypeOK
<1>7. QED
  BY <1>1, <1>2, <1>3, <1>4, <1>5, <1>6

(* The front is the start alone, which was not considered.                 *)
LEMMA StartStep == IInv /\ Start => IInv'
<1> SUFFICES ASSUME IInv, Start PROVE IInv'
  OBVIOUS
<1> USE DEF IInv, Start, outerVars, descentVars, frontVars, bestVars, coreVars
<1>0. PICK h \in HyperParams : front' = {h} /\ warm_start_hp' \in HyperParams
  BY GraphAssumption DEF TypeOK, DefaultStarts
<1>1. TypeOK'
  BY <1>0 DEF TypeOK
<1>2. (SolutionsCounted /\ MeasuredMatched)'
  BY DEF SolutionsCounted, MeasuredMatched, IsBestIndex
<1>3. (FreshDescent /\ FrontUnconsidered)'
  BY <1>0 DEF FreshDescent, FrontUnconsidered
<1>4. LateIsLate'
  BY DEF LateIsLate, InDescent
<1>5. NeighborsPending'
  BY DEF NeighborsPending, InDescent, FreshDescent
<1>6. (Outcome /\ ConsideredOnce /\ NothingBetterWasMeasured /\ RequiredRunsAreDefined)'
  BY NothingUndefined DEF Outcome, ConsideredOnce, NothingBetterWasMeasured,
         FreshDescent
<1>7. QED
  BY <1>1, <1>2, <1>3, <1>4, <1>5, <1>6

(* The front is all neighbours of the best that were not considered.       *)
LEMMA RefreshStep == IInv /\ Refresh => IInv'
<1> SUFFICES ASSUME IInv, Refresh PROVE IInv'
  OBVIOUS
<1> USE DEF IInv, Refresh, outerVars, descentVars, frontVars, bestVars, coreVars
<1>0. now - dstart < allotted /\ hp_curr = best.hypas /\ found /\ pc' = "front"
  BY DEF Late, NeighborsPending, InDescent, TypeOK
<1>1. TypeOK'
  BY GraphAssumption DEF TypeOK, NextFront
<1>2. (SolutionsCounted /\ MeasuredMatched)'
  BY DEF SolutionsCounted, MeasuredMatched, IsBestIndex
<1>3. (FreshDescent /\ FrontUnconsidered)'
  BY DEF FreshDescent, FrontUnconsidered, NextFront
<1>4. LateIsLate'
  BY DEF LateIsLate, InDescent
<1>5. NeighborsPending'
  <2>1. ~improved'
    OBVIOUS
  <2>2. \A n \in Neighbors[best.hypas] \cap Derivable : history[n] > 0 \/ n \in front'
    <3> SUFFICES ASSUME NEW n \in Neighbors[best.hypas] \cap Derivable, history[n] <= 0
                 PROVE  n \in front'
      BY GraphAssumption DEF TypeOK
    <3>1. history[n] \in Nat
      BY GraphAssumption DEF TypeOK
    <3>2. QED
      BY <1>0, <3>1 DEF NextFront
  <2>3. QED
    BY <1>0, <2>1, <2>2 DEF NeighborsPending
<1>6. (Outcome /\ ConsideredOnce /\ NothingBetterWasMeasured /\ RequiredRunsAreDefined)'
  BY NothingUndefined DEF Outcome, ConsideredOnce, NothingBetterWasMeasured
<1>7. QED
  BY <1>1, <1>2, <1>3, <1>4, <1>5, <1>6

(* Considering a candidate takes it from the front to the history.         *)
LEMMA ConsiderStep ==
  ASSUME IInv, NEW h \in HyperParams, Consider(h)
  PROVE  /\ front' \subseteq HyperParams /\ slipped' \in BOOLEAN
         /\ history' \in [HyperParams -> Nat] /\ hp_curr' \in HyperParams
         /\ (warmstart' = warmstart => FrontUnconsidered')
         /\ warmstart' = warmstart /\ warm_start_hp' = warm_start_hp => ConsideredOnce'
         /\ \A n \in HyperParams :
              history[n] > 0 \/ n \in front => history'[n] > 0 \/ n \in front'
<1> USE DEF IInv, Consider
<1>1. /\ front \subseteq HyperParams /\ slipped \in BOOLEAN
      /\ history \in [HyperParams -> Nat] /\ warm_start_hp \in HyperParams
  BY DEF TypeOK
<1>2. /\ front' = front \ {h} /\ slipped' = (slipped /\ front # {}) /\ hp_curr' = h
      /\ history' = [history EXCEPT ![h] = history[h] + 1]
  OBVIOUS
<1>3. \A n \in HyperParams : history'[n] = IF n = h THEN history[n] + 1 ELSE history[n]
  BY <1>1, <1>2
<1>4. \A n \in front : history[n] = 0
  BY DEF FrontUnconsidered
<1>5. h \in front \/ (slipped /\ h = warm_start_hp)
  BY <1>1 DEF Candidates
<1>6. slipped => warmstart
  BY DEF FrontUnconsidered
<1>7. history' \in [HyperParams -> Nat]
  BY <1>1, <1>2
<1>8. \A n \in front' : history'[n] = 0
  BY <1>1, <1>2, <1>3, <1>4
<1>9. \A n \in HyperParams : history'[n] > 1 => warmstart /\ n = warm_start_hp
  BY <1>1, <1>3, <1>4, <1>5, <1>6 DEF ConsideredOnce
<1>10. \A n \in HyperParams :
         history[n] > 0 \/ n \in front => history'[n] > 0 \/ n \in front'
  BY <1>1, <1>2, <1>3
<1>11. (warmstart' = warmstart => FrontUnconsidered')
  BY <1>1, <1>2, <1>6, <1>8 DEF FrontUnconsidered
<1>12. warmstart' = warmstart /\ warm_start_hp' = warm_start_hp => ConsideredOnce'
  BY <1>9 DEF ConsideredOnce
<1>13. QED
  BY <1>1, <1>2, <1>7, <1>10, <1>11, <1>12

(* A candidate that is skipped counts as considered.                       *)
LEMMA SkipStep == IInv /\ Skip => IInv'
<1> SUFFICES ASSUME IInv, Skip PROVE IInv'
  OBVIOUS
<1> USE DEF IInv, Skip, outerVars, descentVars, frontVars, bestVars, coreVars
<1>0. PICK h \in HyperParams \ Reasonable : Consider(h)
  OBVIOUS
<1>a. h \in HyperParams
  BY GraphAssumption
<1>b. /\ front' \subseteq HyperParams /\ slipped' \in BOOLEAN
      /\ history' \in [HyperParams -> Nat] /\ hp_curr' \in HyperParams
      /\ FrontUnconsidered' /\ ConsideredOnce'
      /\ \A n \in HyperParams :
           history[n] > 0 \/ n \in front => history'[n] > 0 \/ n \in front'
  BY <1>0, <1>a, ConsiderStep
<1>c. pc = "front" /\ ~improved /\ ~Late
  BY <1>0 DEF Consider
<1>1. TypeOK'
  BY <1>b DEF TypeOK
<1>2. (SolutionsCounted /\ MeasuredMatched)'
  BY DEF SolutionsCounted, MeasuredMatched, IsBestIndex
<1>3. (FreshDescent /\ FrontUnconsidered)'
  BY <1>b, <1>c DEF FreshDescent
<1>4. LateIsLate'
  BY <1>c DEF LateIsLate, InDescent
<1>5. NeighborsPending'
  BY <1>b, <1>c, GraphAssumption DEF NeighborsPending, InDescent, Late, TypeOK
<1>6. (Outcome /\ ConsideredOnce /\ NothingBetterWasMeasured /\ RequiredRunsAreDefined)'
  BY <1>b, <1>c, NothingUndefined DEF Outcome, NothingBetterWasMeasured
<1>7. QED
  BY <1>1, <1>2, <1>3, <1>4, <1>5, <1>6

(* A candidate that is benchmarked was considered.                         *)
LEMMA BenchmarkStep == IInv /\ Benchmark => IInv'
<1> SUFFICES ASSUME IInv, Benchmark PROVE IInv'
  OBVIOUS
<1> USE DEF IInv, Benchmark, outerVars, descentVars, frontVars, bestVars, coreVars
<1>0. PICK h \in Reasonable : Consider(h)
  OBVIOUS
<1>a. h \in HyperParams
  BY GraphAssumption
<1>b. /\ front' \subseteq HyperParams /\ slipped' \in BOOLEAN
      /\ history' \in [HyperParams -> Nat] /\ hp_curr' \in HyperParams
      /\ FrontUnconsidered' /\ ConsideredOnce'
      /\ \A n \in HyperParams :
           history[n] > 0 \/ n \in front => history'[n] > 0 \/ n \in front'
  BY <1>0, <1>a, ConsiderStep
<1>c. pc = "front" /\ ~improved /\ ~Late
  BY <1>0 DEF Consider
<1>1. TypeOK'
  BY <1>b DEF TypeOK
<1>2. (SolutionsCounted /\ MeasuredMatched)'
  BY DEF SolutionsCounted, MeasuredMatched, IsBestIndex
<1>3. (FreshDescent /\ FrontUnconsidered)'
  BY <1>b, <1>c DEF FreshDescent
<1>4. LateIsLate'
  BY <1>c DEF LateIsLate, InDescent
<1>5. NeighborsPending'
  BY <1>b, <1>c, GraphAssumption DEF NeighborsPending, InDescent, Late, TypeOK
<1>6. (Outcome /\ ConsideredOnce /\ NothingBetterWasMeasured /\ RequiredRunsAreDefined)'
  BY <1>b, <1>c, NothingUndefined DEF Outcome, NothingBetterWasMeasured
<1>7. QED
  BY <1>1, <1>2, <1>3, <1>4, <1>5, <1>6

(* The exception ends the descent and the search.                          *)
LEMMA CompileThrowsStep == IInv /\ CompileThrows => IInv'
<1> SUFFICES ASSUME IInv, CompileThrows PROVE IInv'
  OBVIOUS
<1> USE DEF IInv, CompileThrows, outerVars, descentVars, frontVars, bestVars, coreVars
<1>0. PICK h \in Reasonable : Consider(h)
  OBVIOUS
<1>a. h \in HyperParams
  BY GraphAssumption
<1>b. /\ front' \subseteq HyperParams /\ slipped' \in BOOLEAN
      /\ history' \in [HyperParams -> Nat] /\ hp_curr' \in HyperParams
      /\ FrontUnconsidered' /\ ConsideredOnce'
      /\ \A n \in HyperParams :
           history[n] > 0 \/ n \in front => history'[n] > 0 \/ n \in front'
  BY <1>0, <1>a, ConsiderStep
<1>c. pc = "front" /\ ~improved /\ ~Late
  BY <1>0 DEF Consider
<1>1. TypeOK'
  BY <1>b DEF TypeOK, End
<1>2. (SolutionsCounted /\ MeasuredMatched)'
  BY DEF SolutionsCounted, MeasuredMatched, IsBestIndex
<1>3. (FreshDescent /\ FrontUnconsidered)'
  BY <1>b, <1>c DEF FreshDescent, End
<1>4. LateIsLate'
  BY <1>c DEF LateIsLate, InDescent, End
<1>5. NeighborsPending'
  BY <1>b, <1>c, GraphAssumption DEF NeighborsPending, InDescent, Late, TypeOK, End
<1>6. (Outcome /\ ConsideredOnce /\ NothingBetterWasMeasured /\ RequiredRunsAreDefined)'
  BY <1>b, <1>c DEF Outcome, NothingBetterWasMeasured, RequiredRunsAreDefined, End
<1>7. QED
  BY <1>1, <1>2, <1>3, <1>4, <1>5, <1>6

(* The best of the descent joins the solutions.                            *)
LEMMA EndDescentStep == IInv /\ EndDescent => IInv'
<1> SUFFICES ASSUME IInv, EndDescent PROVE IInv'
  OBVIOUS
<1> USE DEF IInv, EndDescent, outerVars, descentVars, frontVars, bestVars, coreVars, NoDescent
<1>0. /\ v_solns \in Seq(Solution) /\ best \in Solution /\ descents \in Nat
      /\ v_solns' = Append(v_solns, best) /\ found
  BY DEF TypeOK
<1>a. /\ Len(v_solns') = Len(v_solns) + 1 /\ v_solns'[Len(v_solns) + 1] = best
      /\ \A i \in 1 .. Len(v_solns) : v_solns'[i] = v_solns[i]
      /\ v_solns' \in Seq(Solution) /\ Len(v_solns) \in Nat
  BY <1>0
<1>b. \A i \in 1 .. Len(v_solns) : v_solns[i].extime \in Nat
  BY <1>0, SolutionsType
<1>1. TypeOK'
  <2>1. /\ descents' \in Nat /\ warmstart_rank' \in Nat
        /\ history' \in [HyperParams -> Nat] /\ front' \subseteq HyperParams
    BY DEF TypeOK
  <2>2. /\ warm_start_hp' \in HyperParams /\ hp_curr' \in HyperParams
        /\ best' \in Solution
    BY AnyType
  <2>3. QED
    BY <1>a, <2>1, <2>2 DEF TypeOK
<1>2. (SolutionsCounted /\ MeasuredMatched)'
  <2>1. Len(v_solns') = descents'
    BY <1>0, <1>a DEF SolutionsCounted
  <2>2. \E i \in 1 .. Len(v_solns') : IsBestIndex(v_solns', i)
    <3>0. best.extime \in Nat
      BY <1>0 DEF Solution
    <3>1. CASE \A j \in 1 .. Len(v_solns) : best.extime < v_solns[j].extime
      <4>1. IsBestIndex(v_solns', Len(v_solns) + 1)
        BY <1>a, <1>b, <3>0, <3>1 DEF IsBestIndex
      <4>2. QED
        BY <1>a, <4>1
    <3>2. CASE \E j \in 1 .. Len(v_solns) : ~(best.extime < v_solns[j].extime)
      <4>1. PICK i \in 1 .. Len(v_solns) : IsBestIndex(v_solns, i)
        BY <1>0, <3>2 DEF SolutionsCounted
      <4>2. v_solns[i].extime <= best.extime
        BY <1>b, <3>0, <3>2, <4>1 DEF IsBestIndex
      <4>3. IsBestIndex(v_solns', i)
        BY <1>a, <1>b, <3>0, <4>1, <4>2 DEF IsBestIndex
      <4>4. QED
        BY <1>a, <4>3
    <3>3. QED
      BY <3>1, <3>2
  <2>3. \A k \in measured : \E i \in 1 .. Len(v_solns') : ~Improves(v_solns'[i].extime, k)
    BY <1>a DEF MeasuredMatched
  <2>4. QED
    BY <2>1, <2>2, <2>3 DEF SolutionsCounted, MeasuredMatched
<1>3. (FreshDescent /\ FrontUnconsidered)'
  BY DEF FreshDescent, FrontUnconsidered
<1>4. LateIsLate'
  BY DEF LateIsLate, InDescent
<1>5. NeighborsPending'
  BY DEF NeighborsPending, InDescent
<1>6. (Outcome /\ ConsideredOnce /\ NothingBetterWasMeasured /\ RequiredRunsAreDefined)'
  BY NothingUndefined DEF Outcome, ConsideredOnce, NothingBetterWasMeasured
<1>7. QED
  BY <1>1, <1>2, <1>3, <1>4, <1>5, <1>6

(* What is returned is the best of the solutions; there is one if any is required.*)
LEMMA FinishStep == IInv /\ Finish => IInv'
<1> SUFFICES ASSUME IInv, Finish PROVE IInv'
  OBVIOUS
<1> USE DEF IInv, Finish, outerVars, descentVars, frontVars, bestVars, coreVars, End
<1>a. \A i \in 1 .. Len(v_solns) : v_solns[i] \in Solution
  BY DEF TypeOK
<1>b. ~found
  BY DEF FreshDescent
<1>c. v_solns # <<>> => /\ BestIndex(v_solns) \in 1 .. Len(v_solns)
                        /\ IsBestIndex(v_solns, BestIndex(v_solns))
  BY DEF SolutionsCounted, BestIndex
<1>d. UNCHANGED <<now, fparms, outerVars, descentVars, frontVars, bestVars, coreVars>>
  OBVIOUS
<1>e. /\ v_solns = <<>> => result' = [status |-> "no_solution", soln |-> result.soln]
      /\ v_solns # <<>> => result' = [status |-> "found", soln |-> v_solns[BestIndex(v_solns)]]
      /\ pc = "outer" /\ pc' = "ended"
  OBVIOUS
<1>1. TypeOK'
  BY <1>a, <1>c, <1>d, <1>e DEF TypeOK, Undefined
<1>2. (SolutionsCounted /\ MeasuredMatched)'
  BY <1>d DEF SolutionsCounted, MeasuredMatched, IsBestIndex
<1>3. (FreshDescent /\ FrontUnconsidered)'
  BY <1>d, <1>e DEF FreshDescent, FrontUnconsidered
<1>4. LateIsLate'
  BY <1>d, <1>e DEF LateIsLate, InDescent
<1>5. NeighborsPending'
  BY <1>d, <1>e DEF NeighborsPending, InDescent
<1>6. (Outcome /\ ConsideredOnce /\ NothingBetterWasMeasured /\ RequiredRunsAreDefined)'
  <2>1. Outcome' /\ ConsideredOnce'
    BY <1>d, <1>e DEF Outcome, ConsideredOnce
  <2>2. NothingBetterWasMeasured'
    <3> SUFFICES ASSUME v_solns # <<>>, NEW k \in measured
                 PROVE  ~Improves(v_solns[BestIndex(v_solns)].extime, k)
      BY <1>d, <1>e DEF NothingBetterWasMeasured
    <3>1. PICK i \in 1 .. Len(v_solns) : ~Improves(v_solns[i].extime, k)
      BY <1>b DEF MeasuredMatched
    <3>2. v_solns[BestIndex(v_solns)].extime <= v_solns[i].extime
      BY <1>c DEF IsBestIndex
    <3>3. /\ v_solns[BestIndex(v_solns)].extime \in Nat /\ v_solns[i].extime \in Nat
          /\ k \in Nat
      BY <1>a, <1>c, MeasureAssumption DEF TypeOK, Solution
    <3>4. QED
      BY <3>1, <3>2, <3>3 DEF Improves
  <2>3. RequiredRunsAreDefined'
    <3> SUFFICES ASSUME v_solns = <<>>
                 PROVE  /\ fparms.outer.min_runs = 0 /\ descents = 0
                        /\ now >= fparms.outer.max_time
      BY <1>d, <1>e DEF RequiredRunsAreDefined
    <3>1. descents = 0
      BY DEF SolutionsCounted
    <3>2. /\ fparms.outer.min_runs \in Nat /\ fparms.outer.max_runs \in Nat \ {0}
          /\ fparms.outer.max_time \in Nat /\ now \in Nat
      BY ParametersType DEF TypeOK
    <3>3. QED
      BY <3>1, <3>2 DEF Stops
  <2>4. QED
    BY <2>1, <2>2, <2>3
<1>7. QED
  BY <1>1, <1>2, <1>3, <1>4, <1>5, <1>6

(* The new time is no improvement over itself, nor is an old one over it.  *)
LEMMA JudgeStep == IInv /\ Judge => IInv'
<1> SUFFICES ASSUME IInv, Judge PROVE IInv'
  OBVIOUS
<1> USE DEF IInv, Judge, outerVars, descentVars, frontVars, bestVars, coreVars
<1>0. PICK k \in Times :
        /\ measured' = measured \cup {k}
        /\ found' = TRUE
        /\ improved' = (~found \/ Improves(best.extime, k))
        /\ best' = IF ~found \/ Improves(best.extime, k)
                   THEN [hypas |-> hp_curr, extime |-> k] ELSE best
  OBVIOUS
<1>a. k \in Nat \ {0} /\ best.extime \in Nat /\ found \in BOOLEAN
  BY MeasureAssumption DEF TypeOK, Solution
<1>b. Improves(best.extime, k) \in BOOLEAN
  BY DEF Improves
<1>c. \/ improved' = TRUE /\ best' = [hypas |-> hp_curr, extime |-> k]
      \/ improved' = FALSE /\ best' = best /\ found = TRUE /\ ~Improves(best.extime, k)
  BY <1>0, <1>a, <1>b
<1>d. pc = "core" /\ pc' = "front" /\ improved = FALSE
  BY DEF NeighborsPending, InDescent, TypeOK
<1>1. TypeOK'
  BY <1>0, <1>a, <1>c DEF TypeOK, Solution
<1>2. (SolutionsCounted /\ MeasuredMatched)'
  <2>1. SolutionsCounted'
    BY DEF SolutionsCounted, IsBestIndex
  <2>2. ASSUME NEW x \in measured, found, ~Improves(best.extime, x)
        PROVE  ~Improves(best'.extime, x)
    <3>1. x \in Nat
      BY MeasureAssumption DEF TypeOK
    <3>2. best'.extime = best.extime \/ (Improves(best.extime, k) /\ best'.extime = k)
      BY <1>0, <1>a, <1>b, <2>2
    <3>3. QED
      BY <1>a, <2>2, <3>1, <3>2 DEF Improves
  <2>3. ~Improves(best'.extime, k)
    BY <1>a, <1>c DEF Improves
  <2>4. found' = TRUE /\ v_solns' = v_solns /\ measured' = measured \cup {k}
    BY <1>0
  <2>5. MeasuredMatched'
    BY <2>2, <2>3, <2>4 DEF MeasuredMatched
  <2>6. QED
    BY <2>1, <2>5
<1>3. (FreshDescent /\ FrontUnconsidered)'
  BY <1>d DEF FreshDescent, FrontUnconsidered
<1>4. LateIsLate'
  BY <1>d DEF LateIsLate, InDescent
<1>5. NeighborsPending'
  BY <1>0, <1>c, <1>d DEF NeighborsPending, InDescent, Late
<1>6. (Outcome /\ ConsideredOnce /\ NothingBetterWasMeasured /\ RequiredRunsAreDefined)'
  BY <1>d, NothingUndefined DEF Outcome, ConsideredOnce, NothingBetterWasMeasured
<1>7. QED
  BY <1>1, <1>2, <1>3, <1>4, <1>5, <1>6

(* The exceptions of true_core, of the start and of a descent without a    *)
(* solution, and the ends of find0 before any descent.                     *)
LEMMA EarlyEndStep ==
  /\ IInv
  /\ Default \/ AddressThrows \/ StartThrows \/ NoSolutionThrows \/ RunThrows \/ CoreWithoutRuns
  => IInv'
<1>1. ASSUME IInv, Default PROVE IInv'
  BY <1>1, AbandonStep DEF Default
<1>2. ASSUME IInv, AddressThrows PROVE IInv'
  BY <1>2, AbandonStep DEF AddressThrows
<1>3. ASSUME IInv, StartThrows PROVE IInv'
  BY <1>3, AbandonStep DEF StartThrows
<1>4. ASSUME IInv, NoSolutionThrows PROVE IInv'
  BY <1>4, AbandonStep DEF NoSolutionThrows
<1>5. ASSUME IInv, RunThrows PROVE IInv'
  BY <1>5, AbandonStep DEF RunThrows
<1>6. ASSUME IInv, CoreWithoutRuns PROVE IInv'
  <2>1. /\ fparms.core.min_runs \in Nat /\ fparms.core.max_runs \in Nat \ {0}
        /\ fparms.core.max_time \in Nat /\ now \in Nat /\ cstart \in Nat
    BY <1>6, ParametersType DEF IInv, TypeOK
  <2>2. fparms.core.min_runs = 0 /\ runi = 0 /\ now - cstart >= fparms.core.max_time
    BY <1>6, <2>1 DEF CoreWithoutRuns, Stops
  <2>3. QED
    BY <1>6, <2>2, AbandonStep DEF CoreWithoutRuns
<1>7. QED
  BY <1>1, <1>2, <1>3, <1>4, <1>5, <1>6

(* Every step of a search keeps the invariant.                             *)
LEMMA NextStep == IInv /\ [Next]_vars => IInv'
<1> SUFFICES ASSUME IInv, [Next]_vars PROVE IInv'
  OBVIOUS
<1>1. CASE Tick
  BY <1>1, TickStep
<1>2. CASE Find
  BY <1>2, EarlyEndStep, BeginStep, EnterDescentStep, AllotStep, FinishStep DEF Find
<1>3. CASE Descend
  BY <1>3, EarlyEndStep, StartTimerStep, StartStep, SkipStep, CompileThrowsStep,
     BenchmarkStep, LeaveFrontStep, RefreshStep, TurnLateStep, EndDescentStep DEF Descend
<1>4. CASE Core
  BY <1>4, EarlyEndStep, RunStep, JudgeStep DEF Core
<1>5. CASE UNCHANGED vars
  <2> USE <1>5 DEF vars, outerVars, descentVars, frontVars, bestVars, coreVars, IInv
  <2>1. (TypeOK /\ SolutionsCounted /\ MeasuredMatched)'
    BY DEF TypeOK, SolutionsCounted, MeasuredMatched, IsBestIndex
  <2>2. (FreshDescent /\ FrontUnconsidered /\ LateIsLate /\ NeighborsPending)'
    BY DEF FreshDescent, FrontUnconsidered, LateIsLate, NeighborsPending, InDescent, Late
  <2>3. (Outcome /\ ConsideredOnce /\ NothingBetterWasMeasured /\ RequiredRunsAreDefined)'
    BY DEF Outcome, ConsideredOnce, NothingBetterWasMeasured, RequiredRunsAreDefined
  <2>4. QED
    BY <2>1, <2>2, <2>3
<1>6. QED
  BY <1>1, <1>2, <1>3, <1>4, <1>5 DEF Next

(* The inductive invariant of the search.                                  *)
THEOREM Invariance == Spec => []IInv
BY InitIInv, NextStep, PTL DEF Spec

(* TinyZero's search keeps the types of its state.                         *)
THEOREM TypeCorrect == Spec => []TypeOK
<1>1. IInv => TypeOK
  BY DEF IInv
<1>2. QED
  BY Invariance, <1>1, PTL

(* find0 returns the best of the search: nothing measured in any descent   *)
(* is an improvement over it.                                              *)
THEOREM ReturnsTheBest == Spec => []NothingBetterWasMeasured
<1>1. IInv => NothingBetterWasMeasured
  BY DEF IInv
<1>2. QED
  BY Invariance, <1>1, PTL

(* A descent considers nothing but its warm start twice.                   *)
THEOREM NothingTwice == Spec => []ConsideredOnce
<1>1. IInv => ConsideredOnce
  BY DEF IInv
<1>2. QED
  BY Invariance, <1>1, PTL

(* An empty vector is read only where no turn of a loop was asked for, and *)
(* its time was over before the first.                                     *)
THEOREM RequiredRuns == Spec => []RequiredRunsAreDefined
<1>1. IInv => RequiredRunsAreDefined
  BY DEF IInv
<1>2. QED
  BY Invariance, <1>1, PTL

(* A descent ends in a local minimum of the graph, or the search is out of *)
(* time.                                                                   *)
THEOREM AllTheWay == Spec => DescentsGoAllTheWay
<1>1. IInv /\ [Next]_vars =>
        [descents' # descents => LocallyMinimal \/ now >= fparms.outer.max_time]_vars
  <2> SUFFICES ASSUME IInv, [Next]_vars, descents' # descents
               PROVE  LocallyMinimal \/ now >= fparms.outer.max_time
    OBVIOUS
  <2>1. EndDescent
    BY DEF Next, vars, Tick, Find, Descend, Core, Default, AddressThrows, Begin,
       EnterDescent, Allot, Finish, StartTimer, StartThrows, Start, Skip, CompileThrows, Benchmark,
       LeaveFront, Refresh, TurnLate, NoSolutionThrows, Run, RunThrows, CoreWithoutRuns,
       Judge, Abandon, outerVars
  <2>2. pc = "refresh" /\ found /\ ~improved
    BY <2>1 DEF EndDescent
  <2>3. /\ now \in Nat /\ dstart \in Nat /\ allotted \in Nat
        /\ fparms.outer.max_time \in Nat
    BY ParametersType DEF IInv, TypeOK
  <2>4. CASE Late
    BY <2>2, <2>3, <2>4 DEF IInv, LateIsLate, InDescent, Late
  <2>5. CASE ~Late
    BY <2>2, <2>5 DEF IInv, NeighborsPending, InDescent, LocallyMinimal
  <2>6. QED
    BY <2>4, <2>5
<1>2. QED
  BY Invariance, <1>1, PTL DEF Spec, DescentsGoAllTheWay
=============================================================================
