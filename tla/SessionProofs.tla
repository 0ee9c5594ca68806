----------------------------- MODULE SessionProofs -----------------------------
(***************************************************************************)
(* Theorems about Session, for any platforms and devices, any kernels that *)
(* are asked for, and any number of failures and benchmarks.               *)
(***************************************************************************)
EXTENDS Session, KernelGraphProofs

Early == {"start", "device", "host", "memory", "tinyzero"}
Building == {"build", "wait", "test", "join", "collect"}
Updating == {"next", "create"} \cup Building

(* While update is at a slot, the slot has the new source, and no program  *)
(* before one is created.                                                  *)
TurnPrepared ==
  at \in {"create"} \cup Building =>
    /\ act_inds # DOMAIN req
    /\ slot[Turn].kernstr = req[Turn]
    /\ slot[Turn].clprog = "none" <=> at = "create"

(* What update is done with has a program of the source of the request.    *)
DoneWith ==
  at \in Updating \cup {"run", "ran"} =>
    /\ req \in Requests
    /\ \A t \in act_inds : slot[t].clprog # "none" /\ slot[t].kernstr = req[t]

(* A run begins when update is done with all of the request.               *)
RunOfAll == at \in {"run", "ran"} => act_inds = DOMAIN req

(* There is one cl_program in a slot that holds one, and none elsewhere.   *)
ProgramsCounted ==
  \A t \in KType : progs[t] = IF slot[t].clprog = "none" THEN 0 ELSE 1

(* The future is ready only when the build is over.                        *)
ReadyIsOver ==
  at = "collect" \/ (at = "test" /\ status = "ready") => build # "running"

(* The constructors come before all programs.                              *)
EarlyIsEmpty ==
  /\ at \in Early => \A t \in KType : slot[t].clprog = "none"
  /\ at \in Early \cup {"closing", "gone"} => ~testing
  /\ at = "start" => alive = {}
  /\ at = "device" => alive \subseteq {<<"context">>}

(* What the destructors of a TinyOne or a TinyZero do not release.         *)
AliveOrLost ==
  alive \ Owned \subseteq (IF "run" \in thrown THEN Kernels ELSE {})
                          \cup (IF kind = "find" THEN {<<"copy event">>} ELSE {})
                          \cup (IF testing THEN Events ELSE {})

RoundsLeft == at \in Updating \cup {"run"} => rounds <= MaxBenchmarks

(* The inductive invariant of the session.                                 *)
IInv ==
  /\ TypeOK /\ SourceOfSlot /\ BuildInsideCall /\ LeftOver /\ TimesAreOfRequest
  /\ TurnPrepared /\ DoneWith /\ RunOfAll /\ ProgramsCounted /\ ReadyIsOver
  /\ EarlyIsEmpty /\ AliveOrLost /\ RoundsLeft

-----------------------------------------------------------------------------

(* The slot update is at is one of those it was asked for.                 *)
LEMMA TurnType ==
  ASSUME TypeOK, req \in Requests, act_inds # DOMAIN req
  PROVE  /\ Turn \in KType /\ Turn \in DOMAIN req /\ Turn \notin act_inds
         /\ req[Turn] \in Sources
<1>1. DOMAIN req \in SUBSET KType /\ act_inds \in SUBSET DOMAIN req
  BY RequestsAssumption DEF TypeOK, SlotsTypeOK
<1>2. Turn \in DOMAIN req \ act_inds
  BY <1>1, NextOfType DEF Turn
<1> QED BY <1>1, <1>2, RequestsAssumption

(* The kernels to run are kinds that there are.                            *)
LEMMA ActIndsType == ASSUME TypeOK PROVE act_inds \subseteq KType
<1>1. CASE req = <<>>
  <2>1. DOMAIN req = {}
    BY <1>1
  <2> QED BY <2>1 DEF TypeOK, SlotsTypeOK
<1>2. CASE req \in Requests
  BY <1>2, RequestsAssumption DEF TypeOK, SlotsTypeOK
<1> QED BY <1>1, <1>2 DEF TypeOK, SlotsTypeOK

(* No session is open.                                                     *)
LEMMA InitIInv == Init => IInv
<1> SUFFICES ASSUME Init PROVE IInv
  OBVIOUS
<1> USE DEF Init, InitSlots, EmptySlot
<1>1. SlotsTypeOK
  <2>1. slot \in [KType -> Slot] /\ progs \in [KType -> Nat] /\ faults \in 0 .. MaxFaults
    BY MaxFaultsAssumption DEF Slot, ProgramStates
  <2>2. late \in BOOLEAN
    OBVIOUS
  <2> QED BY <2>1, <2>2 DEF SlotsTypeOK
<1>2. hint \in [pla : Hints, dev : Hints]
  <2>1. kind = "find" => hint \in CLHints
    OBVIOUS
  <2> QED BY DevicesAssumption DEF CLHints, Hints
<1>3. TypeOK
  <2>1. at \in Places /\ rounds \in 0 .. MaxBenchmarks + 1
    BY MaxBenchmarksAssumption DEF Places
  <2>2. testing \in BOOLEAN /\ wspace \in BOOLEAN /\ kind \in {"TinyOne", "find"}
    OBVIOUS
  <2> QED BY <1>1, <1>2, <2>1, <2>2 DEF TypeOK
<1>4. SourceOfSlot /\ BuildInsideCall /\ LeftOver /\ TimesAreOfRequest
  BY DEF SourceOfSlot, BuildInsideCall, LeftOver, TimesAreOfRequest
<1>5. TurnPrepared /\ DoneWith /\ RunOfAll /\ RoundsLeft
  BY DEF TurnPrepared, DoneWith, RunOfAll, RoundsLeft, Building, Updating
<1>6. ProgramsCounted /\ ReadyIsOver /\ EarlyIsEmpty /\ AliveOrLost
  BY DEF ProgramsCounted, ReadyIsOver, EarlyIsEmpty, AliveOrLost
<1> QED BY <1>3, <1>4, <1>5, <1>6 DEF IInv

-----------------------------------------------------------------------------
(* Steps of constructors, destructors and of the user, between updates.    *)

Resting == Early \cup {"ready", "closing", "gone", "undefined"}

(* A step that leaves the slots alone, and comes to rest.                  *)
LEMMA SlotsKept ==
  ASSUME IInv, UNCHANGED slotVars, UNCHANGED faults \/ Fault,
         at \notin {"wait", "test", "join"}, at' \in Resting
  PROVE  /\ SlotsTypeOK' /\ SourceOfSlot' /\ ProgramsCounted'
         /\ BuildInsideCall' /\ TimesAreOfRequest' /\ ReadyIsOver'
         /\ TurnPrepared' /\ DoneWith' /\ RunOfAll' /\ RoundsLeft'
<1> USE DEF slotVars
<1>1. faults' \in 0 .. MaxFaults
  BY MaxFaultsAssumption DEF IInv, TypeOK, SlotsTypeOK, Fault
<1>2. SlotsTypeOK'
  BY <1>1 DEF IInv, TypeOK, SlotsTypeOK
<1>3. SourceOfSlot' /\ ProgramsCounted'
  BY DEF IInv, SourceOfSlot, ProgramsCounted
<1>4. BuildInsideCall'
  BY DEF IInv, BuildInsideCall
<1>5. TimesAreOfRequest' /\ ReadyIsOver'
  BY DEF TimesAreOfRequest, ReadyIsOver, Resting, Early
<1>6. TurnPrepared' /\ DoneWith' /\ RunOfAll' /\ RoundsLeft'
  BY DEF TurnPrepared, DoneWith, RunOfAll, RoundsLeft, Resting, Early, Building, Updating
<1> QED BY <1>2, <1>3, <1>4, <1>5, <1>6

(* A constructor goes on.                                                  *)
LEMMA GotoStep ==
  ASSUME IInv, NEW place, NEW made \in SUBSET (Owned \cup {<<"copy event">>}),
         Goto(place, made), at \in Early, place \in (Early \cup {"ready"}) \ {"start"},
         place = "device" => at = "start" /\ made = {<<"context">>},
         <<"copy event">> \in made => kind = "find"
  PROVE  IInv'
<1> USE DEF Goto
<1>1. /\ SlotsTypeOK' /\ SourceOfSlot' /\ ProgramsCounted'
      /\ BuildInsideCall' /\ TimesAreOfRequest' /\ ReadyIsOver'
      /\ TurnPrepared' /\ DoneWith' /\ RunOfAll' /\ RoundsLeft'
  BY SlotsKept DEF Early, Resting
<1>2. alive' \subseteq Objects
  BY DEF IInv, TypeOK, Owned, Objects
<1>3. TypeOK'
  BY <1>1, <1>2 DEF IInv, TypeOK, Places, Early
<1>4. LeftOver'
  BY DEF LeftOver, Early
<1>5. EarlyIsEmpty'
  BY DEF IInv, EarlyIsEmpty, Early, slotVars
<1>6. AliveOrLost'
  BY DEF IInv, AliveOrLost
<1> QED BY <1>1, <1>3, <1>4, <1>5, <1>6 DEF IInv

(* A constructor throws.                                                   *)
LEMMA AbandonStep ==
  ASSUME IInv, NEW place, NEW made \in SUBSET {<<"copy">>, <<"copy event">>}, NEW owned,
         Abandon(place, made, owned), UNCHANGED faults \/ Fault, at \in Early,
         place \in {"start", "platform", "device", "host", "memory", "copy", "tinyzero"},
         \/ owned = Owned /\ made = {}
         \/ at = "device" /\ place = "device" /\ made = {}
         \/ at = "start" /\ made = {}
         \/ at = "start" /\ place = "copy" /\ kind = "find"
  PROVE  IInv'
<1> USE DEF Abandon
<1>1. /\ SlotsTypeOK' /\ SourceOfSlot' /\ ProgramsCounted'
      /\ BuildInsideCall' /\ TimesAreOfRequest' /\ ReadyIsOver'
      /\ TurnPrepared' /\ DoneWith' /\ RunOfAll' /\ RoundsLeft'
  BY SlotsKept DEF Early, Resting
<1>2. alive' \subseteq Objects /\ thrown \subseteq thrown'
  BY DEF IInv, TypeOK, Objects
<1>3. TypeOK'
  BY <1>1, <1>2 DEF IInv, TypeOK, Places, Early
<1>4. EarlyIsEmpty' /\ ~testing
  BY DEF IInv, EarlyIsEmpty, Early
<1>5. \A t \in KType : progs'[t] = 0
  BY DEF IInv, ProgramsCounted, EarlyIsEmpty, slotVars
<1>6. alive' \subseteq (IF "device" \in thrown' THEN {<<"context">>} ELSE {})
                        \cup (IF "run" \in thrown' THEN Kernels ELSE {})
                        \cup (IF kind' = "find" THEN {<<"copy event">>} ELSE {})
                        \cup (IF "copy" \in thrown' THEN {<<"copy">>} ELSE {})
  <2>1. CASE owned = Owned /\ made = {}
    BY <2>1, <1>2, <1>4 DEF IInv, AliveOrLost
  <2>2. CASE at = "device" /\ place = "device" /\ made = {}
    BY <2>2 DEF IInv, EarlyIsEmpty
  <2>3. CASE at = "start" /\ made = {}
    BY <2>3 DEF IInv, EarlyIsEmpty
  <2>4. CASE at = "start" /\ place = "copy" /\ kind = "find"
    BY <2>4 DEF IInv, EarlyIsEmpty
  <2> QED BY <2>1, <2>2, <2>3, <2>4
<1>7. LeftOver'
  BY <1>5, <1>6 DEF LeftOver
<1>8. AliveOrLost'
  BY <1>6 DEF AliveOrLost, Owned
<1> QED BY <1>1, <1>3, <1>4, <1>7, <1>8 DEF IInv

(* Every step of a constructor.                                            *)
LEMMA ConstructorStep ==
  ASSUME IInv,
         \/ UnknownFloatThrows \/ PlatformThrows \/ SetPlatform
         \/ DeviceThrows \/ SetQueue \/ SizesThrow \/ SetHostMatrices
         \/ MakeMemory \/ MemoryThrows \/ MakeTinyZero
         \/ CopyC \/ CopyThrows \/ FinishTinyZero \/ TinyZeroThrows
  PROVE  IInv'
<1>1. CASE UnknownFloatThrows \/ PlatformThrows
  BY <1>1, AbandonStep DEF UnknownFloatThrows, PlatformThrows, Early
<1>2. CASE DeviceThrows
  BY <1>2, AbandonStep DEF DeviceThrows, Early
<1>3. CASE SizesThrow \/ MemoryThrows \/ TinyZeroThrows
  BY <1>3, AbandonStep DEF SizesThrow, MemoryThrows, TinyZeroThrows, Early
<1>4. CASE CopyThrows
  BY <1>4, AbandonStep DEF CopyThrows, Early
<1>5. CASE SetPlatform
  BY <1>5, GotoStep DEF SetPlatform, Early, Owned
<1>6. CASE SetQueue
  BY <1>6, GotoStep DEF SetQueue, Early, Owned
<1>7. CASE MakeMemory
  <2>1. NextMemory \in Mem
    <3>1. \E m \in Missing :
            \A n \in Missing : LET rank == [A |-> 1, B |-> 2, C |-> 3, W |-> 4] IN rank[m] <= rank[n]
      <4>1. Missing \subseteq {"A", "B", "C", "W"} /\ Missing # {}
        BY <1>7 DEF MakeMemory, Missing, Wanted, Mem
      <4>2. CASE "A" \in Missing
        BY <4>1, <4>2
      <4>3. CASE "A" \notin Missing /\ "B" \in Missing
        BY <4>1, <4>3
      <4>4. CASE "A" \notin Missing /\ "B" \notin Missing /\ "C" \in Missing
        BY <4>1, <4>4
      <4>5. CASE Missing = {"W"}
        BY <4>5
      <4> QED BY <4>1, <4>2, <4>3, <4>4, <4>5
    <3> QED BY <3>1 DEF NextMemory, Missing, Wanted, Mem
  <2>2. <<"memory", NextMemory>> \in Owned
    BY <2>1 DEF Owned
  <2>3. <<"memory", NextMemory>> # <<"copy event">>
    OBVIOUS
  <2> QED BY <1>7, <2>2, <2>3, GotoStep DEF MakeMemory, Early
<1>8. CASE SetHostMatrices \/ MakeTinyZero \/ FinishTinyZero
  BY <1>8, GotoStep DEF SetHostMatrices, MakeTinyZero, FinishTinyZero, Early
<1>9. CASE CopyC
  BY <1>9, GotoStep DEF CopyC, Early, Owned
<1> QED BY <1>1, <1>2, <1>3, <1>4, <1>5, <1>6, <1>7, <1>8, <1>9

-----------------------------------------------------------------------------
(* Steps of the user, of the ends of benchmarks, and of the destructors.   *)

(* A benchmark or an accuracy test begins or ends.                         *)
LEMMA BackStep ==
  ASSUME IInv,
         \/ BeginAccuracyTest \/ WriteThrows \/ BenchgemmThrows \/ UpdateThrows
         \/ ReturnTimes \/ ReadThrows \/ FlushThrows \/ UpdateTimesThrows
         \/ \E bad \in SUBSET act_inds : RunThrows(bad)
  PROVE  IInv'
<1> USE DEF BeginAccuracyTest, WriteThrows, BenchgemmThrows, UpdateThrows,
            ReturnTimes, ReadThrows, FlushThrows, UpdateTimesThrows, RunThrows, BackToUser
<1>1. /\ at' \in {"ready", "closing", "undefined"} /\ at \notin {"wait", "test", "join"}
      /\ at' = "closing" => ~testing'
      /\ UNCHANGED slotVars /\ (UNCHANGED faults \/ Fault)
      /\ UNCHANGED <<kind, hint, wspace, ran, rounds>>
  BY DEF IInv, TypeOK
<1>2. /\ SlotsTypeOK' /\ SourceOfSlot' /\ ProgramsCounted'
      /\ BuildInsideCall' /\ TimesAreOfRequest' /\ ReadyIsOver'
      /\ TurnPrepared' /\ DoneWith' /\ RunOfAll' /\ RoundsLeft'
  BY <1>1, SlotsKept DEF Resting
<1>3. testing' \in BOOLEAN
  BY DEF IInv, TypeOK
<1>4. /\ thrown \subseteq thrown'
      /\ thrown' \subseteq thrown \cup {"write", "check", "update", "run", "flush", "read",
                                      "accuracy"}
  OBVIOUS
<1>5. act_inds \subseteq KType
  BY ActIndsType DEF IInv
<1>6. \A bad : MadeObjects(bad) \subseteq Kernels
  BY <1>5 DEF MadeObjects, Kernels, Made, Enqueued
<1>7. /\ alive' \subseteq alive \cup {<<"write event">>} \cup Kernels
      /\ ~testing' => alive' \subseteq (alive \ Events) \cup (IF "run" \in thrown' THEN Kernels ELSE {})
                      \/ UNCHANGED <<alive, testing>>
      /\ alive' \subseteq alive \cup Events \cup (IF "run" \in thrown' THEN Kernels ELSE {})
  BY <1>6 DEF Events
<1>8. alive' \subseteq Objects
  BY <1>7 DEF IInv, TypeOK, Objects
<1>9. TypeOK'
  BY <1>1, <1>2, <1>3, <1>4, <1>8 DEF IInv, TypeOK, Places
<1>10. LeftOver' /\ EarlyIsEmpty'
  BY <1>1 DEF LeftOver, EarlyIsEmpty, Early
<1>11. AliveOrLost'
  BY <1>1, <1>4, <1>7 DEF IInv, AliveOrLost
<1> QED BY <1>2, <1>9, <1>10, <1>11 DEF IInv

(* A session that is closed has given back what it had.                    *)
LEMMA CloseStep == ASSUME IInv, Close PROVE IInv'
<1> USE DEF Close
<1>1. /\ slot' = [t \in KType |-> EmptySlot]
      /\ \A t \in KType : progs'[t] = 0
      /\ progs' \in [KType -> Nat]
  BY DEF IInv, ProgramsCounted
<1>2. slot' \in [KType -> Slot]
  BY <1>1 DEF EmptySlot, Slot, ProgramStates
<1>3. SlotsTypeOK'
  BY <1>1, <1>2 DEF IInv, TypeOK, SlotsTypeOK
<1>4. TypeOK'
  BY <1>3 DEF IInv, TypeOK, Places
<1>5. SourceOfSlot' /\ ProgramsCounted'
  BY <1>1 DEF SourceOfSlot, ProgramsCounted, EmptySlot
<1>6. BuildInsideCall'
  BY DEF IInv, BuildInsideCall
<1>7. TimesAreOfRequest' /\ ReadyIsOver' /\ EarlyIsEmpty'
  BY DEF TimesAreOfRequest, ReadyIsOver, EarlyIsEmpty, Early
<1>8. TurnPrepared' /\ DoneWith' /\ RunOfAll' /\ RoundsLeft'
  BY DEF TurnPrepared, DoneWith, RunOfAll, RoundsLeft, Building, Updating
<1>9. AliveOrLost' /\ alive' \subseteq (IF "run" \in thrown THEN Kernels ELSE {})
                                     \cup (IF kind = "find" THEN {<<"copy event">>} ELSE {})
  BY DEF IInv, AliveOrLost
<1>10. LeftOver'
  BY <1>1, <1>9 DEF LeftOver
<1> QED BY <1>4, <1>5, <1>6, <1>7, <1>8, <1>9, <1>10 DEF IInv

(* A benchmark asks for programs, and updates those that are there.        *)
LEMMA BenchgemmStep == ASSUME IInv, NEW r \in Requests, Benchgemm(r) PROVE IInv'
<1> USE DEF Benchgemm, BeginUpdate
<1>1. SlotsTypeOK'
  BY DEF IInv, TypeOK, SlotsTypeOK
<1>2. rounds' \in 0 .. MaxBenchmarks /\ rounds' \in 0 .. MaxBenchmarks + 1
  BY MaxBenchmarksAssumption DEF IInv, TypeOK
<1>3. TypeOK'
  BY <1>1, <1>2 DEF IInv, TypeOK, Places
<1>4. SourceOfSlot' /\ ProgramsCounted'
  BY DEF IInv, SourceOfSlot, ProgramsCounted
<1>5. BuildInsideCall' /\ LeftOver' /\ TimesAreOfRequest' /\ ReadyIsOver'
  BY DEF IInv, BuildInsideCall, LeftOver, TimesAreOfRequest, ReadyIsOver
<1>6. TurnPrepared' /\ DoneWith' /\ RunOfAll'
  BY DEF TurnPrepared, DoneWith, RunOfAll, Building
<1>7. RoundsLeft'
  BY <1>2, MaxBenchmarksAssumption DEF RoundsLeft
<1>8. EarlyIsEmpty' /\ AliveOrLost'
  BY DEF IInv, EarlyIsEmpty, AliveOrLost, Early
<1> QED BY <1>3, <1>4, <1>5, <1>6, <1>7, <1>8 DEF IInv

(* The programs are ready, and the loop of true_core turns.                *)
LEMMA ToRunStep == ASSUME IInv, UpdateReturns \/ RunAgain PROVE IInv'
<1> USE DEF UpdateReturns, RunAgain, Goto, slotVars
<1>1. TypeOK'
  BY DEF IInv, TypeOK, SlotsTypeOK, Places
<1>2. SourceOfSlot' /\ ProgramsCounted'
  BY DEF IInv, SourceOfSlot, ProgramsCounted
<1>3. BuildInsideCall' /\ LeftOver' /\ TimesAreOfRequest' /\ ReadyIsOver'
  BY DEF IInv, BuildInsideCall, LeftOver, TimesAreOfRequest, ReadyIsOver
<1>4. TurnPrepared' /\ RunOfAll'
  BY DEF IInv, TurnPrepared, RunOfAll, Building
<1>5. DoneWith'
  BY DEF IInv, DoneWith, Updating, Building
<1>6. RoundsLeft'
  BY MaxBenchmarksAssumption DEF IInv, RoundsLeft, Updating, Building, TypeOK
<1>7. UNCHANGED <<alive, kind, thrown, testing>>
  OBVIOUS
<1>8. EarlyIsEmpty'
  BY DEF EarlyIsEmpty, Early
<1>9. AliveOrLost'
  BY <1>7 DEF IInv, AliveOrLost
<1> QED BY <1>1, <1>2, <1>3, <1>4, <1>5, <1>6, <1>8, <1>9 DEF IInv

(* The main kernel waits for all others and is the last of every request:  *)
(* a run whose last event comes has executed everything, and what a slot   *)
(* holds is what was asked for.                                            *)
LEMMA RunStep == ASSUME IInv, NEW bad \in SUBSET act_inds, Run(bad) PROVE IInv'
<1> USE DEF Run, slotVars
<1>1. /\ req \in Requests /\ act_inds = DOMAIN req
      /\ DOMAIN req \in SUBSET KType /\ "MAIN" \in DOMAIN req
      /\ req \in [DOMAIN req -> Sources]
  BY RequestsAssumption DEF IInv, DoneWith, RunOfAll
<1>2. LastOf(act_inds) = "MAIN"
  <2>1. \A s \in act_inds : Rank[s] <= Rank["MAIN"]
    BY <1>1 DEF Rank, KType
  <2>2. \A t \in act_inds : (\A s \in act_inds : Rank[s] <= Rank[t]) => t = "MAIN"
    BY <1>1 DEF Rank, KType
  <2> QED BY <1>1, <2>1, <2>2 DEF LastOf
<1>3. "MAIN" \in Made \ bad /\ DOMAIN req \ {"MAIN"} \subseteq Made \ bad
  BY <1>1, <1>2, WaitsOfMain DEF Enqueued
<1>4. Enqueued(bad) = DOMAIN req
  <2>1. Made \ bad = DOMAIN req
    BY <1>1, <1>3 DEF Made
  <2>2. \A t \in DOMAIN req : WaitIndices(DOMAIN req, t) \subseteq DOMAIN req
    BY DEF WaitIndices
  <2> QED BY <2>1, <2>2 DEF Enqueued
<1>5. \A t \in DOMAIN req : slot[t].src = req[t]
  BY <1>1 DEF IInv, DoneWith, SourceOfSlot
<1>6. ran' = req
  BY <1>1, <1>4, <1>5 DEF Executed
<1>7. faults' \in 0 .. MaxFaults
  BY MaxFaultsAssumption DEF IInv, TypeOK, SlotsTypeOK, Fault
<1>8. SlotsTypeOK'
  BY <1>7 DEF IInv, TypeOK, SlotsTypeOK
<1>9. rounds' \in 0 .. MaxBenchmarks + 1
  BY MaxBenchmarksAssumption DEF IInv, TypeOK, RoundsLeft
<1>10. TypeOK'
  BY <1>1, <1>6, <1>8, <1>9 DEF IInv, TypeOK, Places
<1>11. SourceOfSlot' /\ ProgramsCounted'
  BY DEF IInv, SourceOfSlot, ProgramsCounted
<1>12. BuildInsideCall' /\ LeftOver' /\ TimesAreOfRequest' /\ ReadyIsOver'
  BY <1>6 DEF IInv, BuildInsideCall, LeftOver, TimesAreOfRequest, ReadyIsOver
<1>13. TurnPrepared' /\ DoneWith' /\ RunOfAll' /\ RoundsLeft'
  BY <1>1 DEF IInv, TurnPrepared, DoneWith, RunOfAll, RoundsLeft, Updating, Building
<1>14. EarlyIsEmpty' /\ AliveOrLost'
  BY DEF IInv, EarlyIsEmpty, AliveOrLost, Early
<1> QED BY <1>10, <1>11, <1>12, <1>13, <1>14 DEF IInv

-----------------------------------------------------------------------------
(* Steps of update. *)

(* A step of update that leaves the session alone.                         *)
LEMMA SessionKept ==
  ASSUME IInv, UNCHANGED sessionVars, SlotsTypeOK',
         at \in Updating, at' \in Updating \cup {"failed"}
  PROVE  /\ TypeOK' /\ LeftOver' /\ TimesAreOfRequest'
         /\ RunOfAll' /\ EarlyIsEmpty' /\ AliveOrLost' /\ RoundsLeft'
<1> USE DEF sessionVars
<1>1. TypeOK'
  BY DEF IInv, TypeOK, Places, Updating, Building
<1>2. LeftOver' /\ TimesAreOfRequest' /\ RunOfAll' /\ EarlyIsEmpty'
  BY DEF LeftOver, TimesAreOfRequest, RunOfAll, EarlyIsEmpty, Early, Updating, Building
<1>3. AliveOrLost'
  BY DEF IInv, AliveOrLost
<1>4. RoundsLeft'
  BY DEF IInv, RoundsLeft
<1> QED BY <1>1, <1>2, <1>3, <1>4

(* Update fails, or ends: no slot is left half made.                       *)
LEMMA FailStep ==
  ASSUME IInv, UNCHANGED sessionVars,
         ReleaseProgramFails \/ CreateProgramFails \/ Join \/ BuildFailed
  PROVE  IInv'
<1> USE DEF ReleaseProgramFails, CreateProgramFails, Join, BuildFailed, slotVars
<1>1. /\ at \in {"next", "create", "join", "collect"} /\ at' = "failed"
      /\ UNCHANGED <<slot, progs, req, act_inds, status, late>>
      /\ build' \in {build, "idle"}
      /\ at \in {"join", "collect"} => build' = "idle"
  OBVIOUS
<1>2. faults' \in 0 .. MaxFaults
  BY MaxFaultsAssumption DEF IInv, TypeOK, SlotsTypeOK, Fault
<1>3. SlotsTypeOK'
  BY <1>1, <1>2 DEF IInv, TypeOK, SlotsTypeOK
<1>4. /\ TypeOK' /\ LeftOver' /\ TimesAreOfRequest'
      /\ RunOfAll' /\ EarlyIsEmpty' /\ AliveOrLost' /\ RoundsLeft'
  BY <1>1, <1>3, SessionKept DEF Updating, Building
<1>5. SourceOfSlot' /\ ProgramsCounted'
  BY <1>1 DEF IInv, SourceOfSlot, ProgramsCounted
<1>6. BuildInsideCall'
  BY <1>1 DEF IInv, BuildInsideCall
<1>7. TurnPrepared' /\ DoneWith' /\ ReadyIsOver'
  BY <1>1 DEF TurnPrepared, DoneWith, ReadyIsOver, Updating, Building
<1> QED BY <1>4, <1>5, <1>6, <1>7 DEF IInv

(* The build begins, is waited for, and given up.                          *)
LEMMA WaitStep ==
  ASSUME IInv, UNCHANGED sessionVars, Async \/ TimePasses \/ WaitFor \/ Test
  PROVE  IInv'
<1> USE DEF Async, TimePasses, WaitFor, Test
<1>1. /\ at \in Building /\ at' \in Building /\ Building \subseteq Updating
      /\ UNCHANGED <<slot, progs, req, act_inds, faults>>
  BY DEF Building, Updating
<1>2. late' \in BOOLEAN
  BY DEF IInv, TypeOK, SlotsTypeOK
<1>3. build' \in {build, "running"} /\ status' \in {"none", "timeout", "ready"}
  BY DEF IInv, TypeOK, SlotsTypeOK
<1>4. SlotsTypeOK'
  BY <1>1, <1>2, <1>3 DEF IInv, TypeOK, SlotsTypeOK
<1>5. /\ TypeOK' /\ LeftOver' /\ TimesAreOfRequest'
      /\ RunOfAll' /\ EarlyIsEmpty' /\ AliveOrLost' /\ RoundsLeft'
  BY <1>1, <1>4, SessionKept
<1>6. SourceOfSlot' /\ ProgramsCounted'
  BY <1>1 DEF IInv, SourceOfSlot, ProgramsCounted
<1>7. BuildInsideCall' /\ ReadyIsOver'
  BY DEF IInv, BuildInsideCall, ReadyIsOver
<1>8. TurnPrepared'
  BY <1>1 DEF IInv, TurnPrepared, Turn, Building
<1>9. DoneWith'
  BY <1>1 DEF IInv, DoneWith
<1> QED BY <1>5, <1>6, <1>7, <1>8, <1>9 DEF IInv

(* What is at the turn of update, and what a step of it may do to its slot. *)
LEMMA TurnFacts ==
  ASSUME IInv, at \in {"next", "create"} \cup Building, act_inds # DOMAIN req
  PROVE  /\ req \in Requests /\ Turn \in KType /\ Turn \in DOMAIN req
         /\ Turn \notin act_inds /\ req[Turn] \in Sources
         /\ DOMAIN req \subseteq KType /\ act_inds \subseteq DOMAIN req
<1>1. req \in Requests
  BY DEF IInv, DoneWith, Updating
<1> QED BY <1>1, TurnType, RequestsAssumption DEF IInv, TypeOK, SlotsTypeOK

(* A program that is the same is kept.                                     *)
LEMMA KeepStep == ASSUME IInv, UNCHANGED sessionVars, KeepProgram PROVE IInv'
<1> USE DEF KeepProgram
<1>1. /\ req \in Requests /\ Turn \in KType /\ Turn \in DOMAIN req
      /\ act_inds \subseteq DOMAIN req
  BY TurnFacts
<1>2. SlotsTypeOK'
  BY <1>1 DEF IInv, TypeOK, SlotsTypeOK
<1>3. /\ TypeOK' /\ LeftOver' /\ TimesAreOfRequest'
      /\ RunOfAll' /\ EarlyIsEmpty' /\ AliveOrLost' /\ RoundsLeft'
  BY <1>2, SessionKept DEF Updating
<1>4. SourceOfSlot' /\ ProgramsCounted' /\ BuildInsideCall' /\ ReadyIsOver'
  BY DEF IInv, SourceOfSlot, ProgramsCounted, BuildInsideCall, ReadyIsOver
<1>5. TurnPrepared' /\ DoneWith'
  BY <1>1 DEF IInv, TurnPrepared, DoneWith, Unchanged, Updating, Building
<1> QED BY <1>3, <1>4, <1>5 DEF IInv

(* A program that is another is given back first.                          *)
LEMMA ReplaceStep == ASSUME IInv, UNCHANGED sessionVars, ReplaceProgram PROVE IInv'
<1> USE DEF ReplaceProgram
<1>1. /\ req \in Requests /\ Turn \in KType /\ Turn \in DOMAIN req
      /\ Turn \notin act_inds /\ req[Turn] \in Sources
      /\ DOMAIN req \subseteq KType /\ act_inds \subseteq DOMAIN req
  BY TurnFacts
<1>2. slot \in [KType -> Slot] /\ progs \in [KType -> Nat]
  BY DEF IInv, TypeOK, SlotsTypeOK
<1>3. /\ slot'[Turn] = [kernstr |-> req[Turn], clprog |-> "none", src |-> NoSource]
      /\ progs'[Turn] = 0
      /\ \A t \in KType \ {Turn} : slot'[t] = slot[t] /\ progs'[t] = progs[t]
  BY <1>1, <1>2 DEF IInv, ProgramsCounted
<1>4. slot' \in [KType -> Slot]
  BY <1>1, <1>2 DEF Slot, ProgramStates
<1>5. progs' \in [KType -> Nat]
  BY <1>1, <1>2, <1>3
<1>6. SlotsTypeOK'
  BY <1>4, <1>5 DEF IInv, TypeOK, SlotsTypeOK
<1>7. /\ TypeOK' /\ LeftOver' /\ TimesAreOfRequest'
      /\ RunOfAll' /\ EarlyIsEmpty' /\ AliveOrLost' /\ RoundsLeft'
  BY <1>6, SessionKept DEF Updating
<1>8. SourceOfSlot' /\ ProgramsCounted'
  BY <1>1, <1>3 DEF IInv, SourceOfSlot, ProgramsCounted
<1>9. BuildInsideCall' /\ ReadyIsOver'
  BY DEF IInv, BuildInsideCall, ReadyIsOver
<1>10. Turn' = Turn
  BY DEF Turn
<1>11. TurnPrepared'
  BY <1>3, <1>10 DEF TurnPrepared
<1>12. DoneWith'
  BY <1>1, <1>3 DEF IInv, DoneWith, Updating
<1> QED BY <1>7, <1>8, <1>9, <1>11, <1>12 DEF IInv

(* A program that is created is the only one of its kind.                  *)
LEMMA CreateStep == ASSUME IInv, UNCHANGED sessionVars, CreateProgram PROVE IInv'
<1> USE DEF CreateProgram
<1>1. act_inds # DOMAIN req /\ slot[Turn].kernstr = req[Turn] /\ slot[Turn].clprog = "none"
  BY DEF IInv, TurnPrepared
<1>2. /\ req \in Requests /\ Turn \in KType /\ Turn \in DOMAIN req
      /\ Turn \notin act_inds /\ req[Turn] \in Sources
      /\ DOMAIN req \subseteq KType /\ act_inds \subseteq DOMAIN req
  BY <1>1, TurnFacts
<1>3. slot \in [KType -> Slot] /\ progs \in [KType -> Nat]
  BY DEF IInv, TypeOK, SlotsTypeOK
<1>4. /\ slot'[Turn].kernstr = req[Turn] /\ slot'[Turn].clprog = "created"
      /\ slot'[Turn].src = req[Turn] /\ progs'[Turn] = 1
      /\ \A t \in KType \ {Turn} : slot'[t] = slot[t] /\ progs'[t] = progs[t]
  BY <1>1, <1>2, <1>3 DEF IInv, ProgramsCounted, Slot
<1>5. slot' \in [KType -> Slot]
  BY <1>2, <1>3 DEF Slot, ProgramStates
<1>6. progs' \in [KType -> Nat]
  BY <1>2, <1>3
<1>7. SlotsTypeOK'
  BY <1>5, <1>6 DEF IInv, TypeOK, SlotsTypeOK
<1>8. /\ TypeOK' /\ LeftOver' /\ TimesAreOfRequest'
      /\ RunOfAll' /\ EarlyIsEmpty' /\ AliveOrLost' /\ RoundsLeft'
  BY <1>7, SessionKept DEF Updating, Building
<1>9. SourceOfSlot' /\ ProgramsCounted'
  BY <1>2, <1>4 DEF IInv, SourceOfSlot, ProgramsCounted
<1>10. BuildInsideCall' /\ ReadyIsOver'
  BY DEF IInv, BuildInsideCall, ReadyIsOver
<1>11. Turn' = Turn
  BY DEF Turn
<1>12. TurnPrepared'
  BY <1>1, <1>4, <1>11 DEF TurnPrepared
<1>13. DoneWith'
  BY <1>2, <1>4 DEF IInv, DoneWith, Updating, Building
<1> QED BY <1>8, <1>9, <1>10, <1>12, <1>13 DEF IInv

(* A build ends, in time or late.                                          *)
LEMMA BuildEndsStep ==
  ASSUME IInv, UNCHANGED sessionVars, NEW outcome \in {"built", "broken"}, BuildEnds(outcome)
  PROVE  IInv'
<1> USE DEF BuildEnds
<1>1. at \in {"wait", "test", "join"}
  BY DEF IInv, BuildInsideCall
<1>2. act_inds # DOMAIN req /\ slot[Turn].kernstr = req[Turn] /\ slot[Turn].clprog # "none"
  BY <1>1 DEF IInv, TurnPrepared, Building
<1>3. /\ req \in Requests /\ Turn \in KType /\ Turn \in DOMAIN req
      /\ Turn \notin act_inds /\ req[Turn] \in Sources
      /\ DOMAIN req \subseteq KType /\ act_inds \subseteq DOMAIN req
  BY <1>1, <1>2, TurnFacts DEF Building
<1>4. slot \in [KType -> Slot]
  BY DEF IInv, TypeOK, SlotsTypeOK
<1>5. /\ slot'[Turn].kernstr = slot[Turn].kernstr /\ slot'[Turn].clprog = outcome
      /\ slot'[Turn].src = slot[Turn].src
      /\ \A t \in KType \ {Turn} : slot'[t] = slot[t]
  BY <1>3, <1>4 DEF Slot
<1>6. slot' \in [KType -> Slot]
  BY <1>3, <1>4 DEF Slot, ProgramStates
<1>7. faults' \in 0 .. MaxFaults
  BY MaxFaultsAssumption DEF IInv, TypeOK, SlotsTypeOK, Fault
<1>8. SlotsTypeOK'
  BY <1>6, <1>7 DEF IInv, TypeOK, SlotsTypeOK
<1>9. /\ TypeOK' /\ LeftOver' /\ TimesAreOfRequest'
      /\ RunOfAll' /\ EarlyIsEmpty' /\ AliveOrLost' /\ RoundsLeft'
  BY <1>1, <1>8, SessionKept DEF Updating, Building
<1>10. SourceOfSlot' /\ ProgramsCounted'
  BY <1>2, <1>3, <1>5 DEF IInv, SourceOfSlot, ProgramsCounted
<1>11. BuildInsideCall' /\ ReadyIsOver'
  BY DEF IInv, BuildInsideCall, ReadyIsOver
<1>12. Turn' = Turn
  BY DEF Turn
<1>13. TurnPrepared'
  BY <1>1, <1>2, <1>5, <1>12 DEF TurnPrepared
<1>14. DoneWith'
  BY <1>3, <1>5 DEF IInv, DoneWith
<1> QED BY <1>9, <1>10, <1>11, <1>13, <1>14 DEF IInv

(* A program that was built has a kernel.                                  *)
LEMMA SucceedStep == ASSUME IInv, UNCHANGED sessionVars, BuildSucceeded PROVE IInv'
<1> USE DEF BuildSucceeded
<1>1. act_inds # DOMAIN req /\ slot[Turn].kernstr = req[Turn] /\ slot[Turn].clprog # "none"
  BY DEF IInv, TurnPrepared, Building
<1>2. /\ req \in Requests /\ Turn \in KType /\ Turn \in DOMAIN req
      /\ act_inds \subseteq DOMAIN req
  BY <1>1, TurnFacts DEF Building
<1>3. SlotsTypeOK'
  BY <1>2 DEF IInv, TypeOK, SlotsTypeOK
<1>4. /\ TypeOK' /\ LeftOver' /\ TimesAreOfRequest'
      /\ RunOfAll' /\ EarlyIsEmpty' /\ AliveOrLost' /\ RoundsLeft'
  BY <1>3, SessionKept DEF Updating, Building
<1>5. SourceOfSlot' /\ ProgramsCounted' /\ BuildInsideCall' /\ ReadyIsOver'
  BY DEF IInv, SourceOfSlot, ProgramsCounted, BuildInsideCall, ReadyIsOver
<1>6. TurnPrepared'
  BY <1>1, <1>2 DEF IInv, TurnPrepared, Updating, Building
<1>7. DoneWith'
  <2>1. \A t \in act_inds : slot[t].clprog # "none" /\ slot[t].kernstr = req[t]
    BY DEF IInv, DoneWith, Updating, Building
  <2>2. act_inds' = act_inds \cup {Turn} /\ slot' = slot /\ req' = req
    OBVIOUS
  <2> HIDE DEF BuildSucceeded
  <2>3. \A t \in act_inds' : slot'[t].clprog # "none" /\ slot'[t].kernstr = req'[t]
    BY ONLY <1>1, <2>1, <2>2
  <2> QED BY ONLY <1>2, <2>2, <2>3 DEF DoneWith
<1> QED BY <1>4, <1>5, <1>6, <1>7 DEF IInv

-----------------------------------------------------------------------------

(* Every step of a session keeps the invariant.                            *)
LEMMA StepIInv == ASSUME IInv, [Next]_vars PROVE IInv'
<1>1. CASE UNCHANGED vars
  <2> USE <1>1 DEF vars, slotVars, sessionVars
  <2>1. TypeOK' /\ SourceOfSlot' /\ BuildInsideCall' /\ LeftOver' /\ TimesAreOfRequest'
    <3>1. TypeOK'
      BY DEF IInv, TypeOK, SlotsTypeOK
    <3>2. SourceOfSlot' /\ BuildInsideCall'
      BY DEF IInv, SourceOfSlot, BuildInsideCall
    <3>3. LeftOver' /\ TimesAreOfRequest'
      BY DEF IInv, LeftOver, TimesAreOfRequest
    <3> QED BY <3>1, <3>2, <3>3
  <2>2. TurnPrepared' /\ RunOfAll' /\ ProgramsCounted'
    <3>1. Turn' = Turn
      BY DEF Turn
    <3>2. TurnPrepared'
      BY <3>1 DEF IInv, TurnPrepared
    <3> QED BY <3>2 DEF IInv, RunOfAll, ProgramsCounted
  <2>3. DoneWith'
    BY DEF IInv, DoneWith
  <2>4. ReadyIsOver' /\ EarlyIsEmpty' /\ AliveOrLost' /\ RoundsLeft'
    BY DEF IInv, ReadyIsOver, EarlyIsEmpty, AliveOrLost, RoundsLeft
  <2> QED BY <2>1, <2>2, <2>3, <2>4 DEF IInv
<1>2. CASE \/ UnknownFloatThrows \/ PlatformThrows \/ SetPlatform
           \/ DeviceThrows \/ SetQueue \/ SizesThrow \/ SetHostMatrices
           \/ MakeMemory \/ MemoryThrows \/ MakeTinyZero
           \/ CopyC \/ CopyThrows \/ FinishTinyZero \/ TinyZeroThrows
  BY <1>2, ConstructorStep
<1>3. CASE \/ BeginAccuracyTest \/ WriteThrows \/ BenchgemmThrows \/ UpdateThrows
           \/ ReturnTimes \/ ReadThrows \/ FlushThrows \/ UpdateTimesThrows
           \/ \E bad \in SUBSET act_inds : RunThrows(bad)
  BY <1>3, BackStep
<1>4. CASE \E r \in Requests : Benchgemm(r)
  BY <1>4, BenchgemmStep
<1>5. CASE Close
  BY <1>5, CloseStep
<1>6. CASE UpdateReturns \/ RunAgain
  BY <1>6, ToRunStep
<1>7. CASE \E bad \in SUBSET act_inds : Run(bad)
  BY <1>7, RunStep
<1>8. CASE Update
  BY <1>8, FailStep, WaitStep, KeepStep, ReplaceStep, CreateStep, BuildEndsStep, SucceedStep
  DEF Update, UpdateStep
<1> QED BY <1>1, <1>2, <1>3, <1>4, <1>5, <1>6, <1>7, <1>8 DEF Next

(* The inductive invariant of the session: how far a constructor, update   *)
(* or run is, what its slots hold, and what is left to release.            *)
THEOREM Invariance == Spec => []IInv
<1>1. Init => IInv
  BY InitIInv
<1>2. IInv /\ [Next]_vars => IInv'
  BY StepIInv
<1> QED BY <1>1, <1>2, PTL DEF Spec

(* The variables have their types: no program is released that is not      *)
(* there (Program::update).                                                *)
THEOREM TypeCorrect == Spec => []TypeOK
<1>1. IInv => TypeOK
  BY DEF IInv
<1> QED BY <1>1, Invariance, PTL

(* A slot that holds a program stores the source the program was made from,*)
(* whatever failed before (Program::update).                               *)
THEOREM Sourced == Spec => []SourceOfSlot
<1>1. IInv => SourceOfSlot
  BY DEF IInv
<1> QED BY <1>1, Invariance, PTL

(* The building thread never outlives the call whose parameters it refers  *)
(* to (cl_build_program).                                                  *)
THEOREM BuildInside == Spec => []BuildInsideCall
<1>1. IInv => BuildInsideCall
  BY DEF IInv
<1> QED BY <1>1, Invariance, PTL

(* Whatever fails, no more is left than what no destructor releases.       *)
THEOREM Released == Spec => []LeftOver
<1>1. IInv => LeftOver
  BY DEF IInv
<1> QED BY <1>1, Invariance, PTL

(* Times that are returned are those of the kernels that were asked for    *)
(* (Programs::update, Programs::run).                                      *)
THEOREM TimesOfRequest == Spec => []TimesAreOfRequest
<1>1. IInv => TimesAreOfRequest
  BY DEF IInv
<1> QED BY <1>1, Invariance, PTL
=============================================================================
