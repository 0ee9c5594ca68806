----------------------------- MODULE ProgramSlots -----------------------------
(***************************************************************************)
(* The slots of a Programs object, one for each type of kernel, and how    *)
(* update brings them to the kernels it is asked for: a slot whose source  *)
(* is the new one is left alone, any other is built again by a thread      *)
(* that cl_build_program waits for.                                        *)
(*                                                                         *)
(* Vectors of kernels are sets ordered by Rank, as in KernelGraph.  A      *)
(* request maps the kernels to their sources.                              *)
(***************************************************************************)
EXTENDS KernelGraph, FiniteSets

CONSTANTS
  Sources,     \* the texts of kernels
  Requests,    \* what update may be asked for
  NoSource,    \* the text of a default-constructed KernBlob
  MaxFaults    \* bound: calls of OpenCL that fail

(* Every bundle has a main kernel.                                         *)
ASSUME RequestsAssumption ==
  \A r \in Requests :
    r \in [DOMAIN r -> Sources] /\ DOMAIN r \subseteq KType /\ "MAIN" \in DOMAIN r
ASSUME NoSourceAssumption == NoSource \notin Sources
ASSUME MaxFaultsAssumption == MaxFaults \in Nat

VARIABLES
  at,        \* where the host is
  slot,      \* Programs::programs: source, and the program if there is one
  progs,     \* the number of cl_program objects alive, per slot
  req,       \* the kernels update was asked for; v_wait_indices is made from them
  act_inds,  \* Programs::act_inds
  build,     \* the thread of cl_build_program
  status,    \* what wait_for said last
  late,      \* 50 seconds have passed
  faults     \* the number of calls that have failed

slotVars == <<slot, progs, req, act_inds, build, status, late>>

(* A cl_program that has source src; NULL is "none".                       *)
ProgramStates == {"none", "created", "built", "broken"}

Slot == [kernstr : Sources \cup {NoSource}, clprog : ProgramStates,
         src : Sources \cup {NoSource}]

EmptySlot == [kernstr |-> NoSource, clprog |-> "none", src |-> NoSource]

InitSlots ==
  /\ slot = [t \in KType |-> EmptySlot]
  /\ progs = [t \in KType |-> 0]
  /\ req = <<>>
  /\ act_inds = {}
  /\ build = "idle" /\ status = "none" /\ late = FALSE
  /\ faults = 0

(* A call that may fail does.                                              *)
Fault == faults < MaxFaults /\ faults' = faults + 1

-----------------------------------------------------------------------------

(* Programs::update begins.                                                *)
BeginUpdate(r) ==
  /\ req' = r
  /\ act_inds' = {}
  /\ at' = "next"
  /\ UNCHANGED <<slot, progs, build, status, late, faults>>

(* The slot the loop comes to.                                             *)
Turn == NextOf(DOMAIN req, act_inds)

Unchanged(t) == slot[t].clprog # "none" /\ slot[t].kernstr = req[t]

KeepProgram ==
  /\ at = "next" /\ act_inds # DOMAIN req
  /\ Unchanged(Turn)
  /\ act_inds' = act_inds \cup {Turn}
  /\ UNCHANGED <<at, slot, progs, req, build, status, late, faults>>

(* A mutant: the old program is not released.                              *)
ReplaceWithoutRelease ==
  /\ at = "next" /\ act_inds # DOMAIN req
  /\ ~Unchanged(Turn)
  /\ slot' = [slot EXCEPT ![Turn] = [@ EXCEPT !.kernstr = req[Turn], !.src = NoSource,
                                              !.clprog = "none"]]
  /\ at' = "create"
  /\ UNCHANGED <<progs, req, act_inds, build, status, late, faults>>

(* A mutant: the null pointer is released as well.                         *)
ReplaceReleasingNull ==
  /\ at = "next" /\ act_inds # DOMAIN req
  /\ ~Unchanged(Turn)
  /\ progs' = [progs EXCEPT ![Turn] = @ - 1]
  /\ slot' = [slot EXCEPT ![Turn] = [kernstr |-> req[Turn], clprog |-> "none",
                                     src |-> NoSource]]
  /\ at' = "create"
  /\ UNCHANGED <<req, act_inds, build, status, late, faults>>

(* A mutant: the source is not stored.                                     *)
ReplaceWithoutSource ==
  /\ at = "next" /\ act_inds # DOMAIN req
  /\ ~Unchanged(Turn)
  /\ progs' = [progs EXCEPT ![Turn] = IF slot[Turn].clprog = "none" THEN @ ELSE @ - 1]
  /\ slot' = [slot EXCEPT ![Turn].clprog = "none", ![Turn].src = NoSource]
  /\ at' = "create"
  /\ UNCHANGED <<req, act_inds, build, status, late, faults>>

(* Program::update on another source: release, store the source.           *)
ReplaceProgram ==
  /\ at = "next" /\ act_inds # DOMAIN req
  /\ ~Unchanged(Turn)
  /\ progs' = [progs EXCEPT ![Turn] = IF slot[Turn].clprog = "none" THEN @ ELSE @ - 1]
  /\ slot' = [slot EXCEPT ![Turn] = [kernstr |-> req[Turn], clprog |-> "none",
                                     src |-> NoSource]]
  /\ at' = "create"
  /\ UNCHANGED <<req, act_inds, build, status, late, faults>>

(* clReleaseProgram fails: nothing is stored, the program stays.           *)
ReleaseProgramFails ==
  /\ at = "next" /\ act_inds # DOMAIN req
  /\ ~Unchanged(Turn) /\ slot[Turn].clprog # "none"
  /\ Fault
  /\ at' = "failed"
  /\ UNCHANGED slotVars

CreateProgram ==
  /\ at = "create"
  /\ slot' = [slot EXCEPT ![Turn].clprog = "created", ![Turn].src = req[Turn]]
  /\ progs' = [progs EXCEPT ![Turn] = @ + 1]
  /\ at' = "build"
  /\ UNCHANGED <<req, act_inds, build, status, late, faults>>

CreateProgramFails ==
  /\ at = "create" /\ Fault
  /\ at' = "failed"
  /\ UNCHANGED slotVars

-----------------------------------------------------------------------------
(* cl_build_program. *)

Async ==
  /\ at = "build"
  /\ build' = "running" /\ late' = FALSE /\ status' = "none"
  /\ at' = "wait"
  /\ UNCHANGED <<slot, progs, req, act_inds, faults>>

(* The other thread: clBuildProgram returns.                               *)
BuildEnds(outcome) ==
  /\ build = "running"
  /\ build' = outcome
  /\ slot' = [slot EXCEPT ![Turn].clprog = outcome]
  /\ IF outcome = "broken" THEN Fault ELSE UNCHANGED faults
  /\ UNCHANGED <<at, progs, req, act_inds, status, late>>

TimePasses ==
  /\ at \in {"wait", "test"} /\ ~late
  /\ late' = TRUE
  /\ UNCHANGED <<at, slot, progs, req, act_inds, build, status, faults>>

(* future.wait_for, for 10 ms; the time is looked at after it.             *)
WaitFor ==
  /\ at = "wait"
  /\ status' = IF build = "running" THEN "timeout" ELSE "ready"
  /\ at' = "test"
  /\ UNCHANGED <<slot, progs, req, act_inds, build, late, faults>>

(* A mutant: the time is not looked at.                                    *)
TestIgnoringTime ==
  /\ at = "test"
  /\ at' = IF status = "ready" THEN "collect" ELSE "wait"
  /\ UNCHANGED <<slot, progs, req, act_inds, build, status, late, faults>>

(* The end of the loop: the build is over, or 50 seconds are.  A build that *)
(* is late is accepted if the last look found it over.                     *)
Test ==
  /\ at = "test"
  /\ at' = CASE status = "ready" -> "collect"
             [] status # "ready" /\ late -> "join"
             [] OTHER -> "wait"
  /\ UNCHANGED <<slot, progs, req, act_inds, build, status, late, faults>>

(* A mutant: the future is dropped without waiting for the thread.         *)
JoinWithoutWaiting ==
  /\ at = "join"
  /\ at' = "failed"
  /\ UNCHANGED slotVars
  /\ UNCHANGED faults

(* The exception leaves cl_build_program; the destructor of the future     *)
(* waits for the thread.                                                   *)
Join ==
  /\ at = "join" /\ build # "running"
  /\ build' = "idle"
  /\ at' = "failed"
  /\ UNCHANGED <<slot, progs, req, act_inds, status, late, faults>>

(* The status of the build, and its log, which must fit the buffer.        *)
BuildSucceeded ==
  /\ at = "collect" /\ build = "built"
  /\ build' = "idle"
  /\ act_inds' = act_inds \cup {Turn}
  /\ at' = "next"
  /\ UNCHANGED <<slot, progs, req, status, late, faults>>

BuildFailed ==
  /\ at = "collect"
  /\ IF build = "broken" THEN UNCHANGED faults ELSE Fault
  /\ build' = "idle"
  /\ at' = "failed"
  /\ UNCHANGED <<slot, progs, req, act_inds, status, late>>

-----------------------------------------------------------------------------

UpdateStep ==
  \/ KeepProgram \/ ReplaceProgram \/ ReleaseProgramFails
  \/ CreateProgram \/ CreateProgramFails
  \/ Async
  \/ \E outcome \in {"built", "broken"} : BuildEnds(outcome)
  \/ TimePasses \/ WaitFor \/ Test \/ Join
  \/ BuildSucceeded \/ BuildFailed

SlotsTypeOK ==
  /\ slot \in [KType -> Slot]
  /\ progs \in [KType -> Nat]
  /\ req \in Requests \cup {<<>>}
  /\ act_inds \subseteq DOMAIN req
  /\ build \in {"idle", "running", "built", "broken"}
  /\ status \in {"none", "timeout", "ready"}
  /\ late \in BOOLEAN
  /\ faults \in 0 .. MaxFaults
=============================================================================
