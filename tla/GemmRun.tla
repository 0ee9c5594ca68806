-------------------------------- MODULE GemmRun --------------------------------
(***************************************************************************)
(* Programs::run and the device: the kernels of several GEMM calls, each   *)
(* enqueued with the events it waits for, executed by queues that may run  *)
(* whatever is not held back by an event.                                  *)
(*                                                                         *)
(* All programs are compiled; ProgramCacher is about how they come to be.  *)
(* Calls are made by any number of host threads.  Queues and events are    *)
(* those of OpenCL, modelled from how Programs::run uses them.             *)
(***************************************************************************)
EXTENDS GemmPlan, SequencesExt

CONSTANT Plans  \* the plans of the host programs that are considered

ASSUME PlansAssumption == Plans \subseteq Plan

Command == Calls \X KType

VARIABLES
  plan,  \* what the host program asks for
  host,  \* where the host is in every call
  tried, \* the kernels the loop of every call has dealt with
  fifo,  \* what was enqueued on every queue, in order
  need,  \* the commands whose events every command waits for
  ev,    \* the status of every command's event
  mem,   \* the matrices
  ws     \* the workspaces: who packed there last, and what

vars == <<plan, host, tried, fifo, need, ev, mem, ws>>

Init ==
  /\ plan \in Plans
  /\ host = [c \in Calls |-> "idle"]
  /\ tried = [c \in Calls |-> {}]
  /\ fifo = [q \in Queues |-> <<>>]
  /\ need = [k \in Command |-> {}]
  /\ ev = [k \in Command |-> "none"]
  /\ mem = [x \in Buffers |-> Untouched]
  /\ ws = [x \in Workspaces |-> [owner |-> -1, WA |-> Garbage, WB |-> Garbage]]

Final(c) == <<c, LastOf(KernelsOf(plan[c]))>>

-----------------------------------------------------------------------------
(* The host. *)

Begin(c) ==
  /\ host[c] = "idle"
  /\ \A d \in plan[c].after : host[d] = "returned"
  /\ host' = [host EXCEPT ![c] = "issuing"]
  /\ UNCHANGED <<plan, tried, fifo, need, ev, mem, ws>>

(* A mutant: the user's events hold back the first kernel only.            *)
WaitListFirstOnly(c, t) ==
  (IF tried[c] = {} THEN {Final(d) : d \in plan[c].waits} ELSE {})
    \cup {<<c, s>> : s \in WaitIndices(KernelsOf(plan[c]), t)}

(* The events kernel t waits for: the user's, and those of kernels of the  *)
(* same call.                                                              *)
WaitList(c, t) ==
  {Final(d) : d \in plan[c].waits} \cup {<<c, s>> : s \in WaitIndices(KernelsOf(plan[c]), t)}

(* A mutant: the loop does not move on.                                    *)
EnqueueAgain(c) ==
  LET S == KernelsOf(plan[c])
      k == <<c, NextOf(S, tried[c])>>
  IN /\ host[c] = "issuing"
     /\ tried[c] # S
     /\ fifo' = [fifo EXCEPT ![plan[c].queue] = Append(@, k)]
     /\ need' = [need EXCEPT ![k] = WaitList(c, k[2])]
     /\ ev' = [ev EXCEPT ![k] = "queued"]
     /\ UNCHANGED <<plan, host, tried, mem, ws>>

(* One turn of the loop that enqueues.  OpenCL refuses a command that is   *)
(* to wait for an event that does not exist, and the error is dropped.     *)
Enqueue(c) ==
  LET S == KernelsOf(plan[c])
      k == <<c, NextOf(S, tried[c])>>
  IN /\ host[c] = "issuing"
     /\ tried[c] # S
     /\ tried' = [tried EXCEPT ![c] = @ \cup {k[2]}]
     /\ IF \E e \in WaitList(c, k[2]) : ev[e] = "none"
        THEN UNCHANGED <<fifo, need, ev>>
        ELSE /\ fifo' = [fifo EXCEPT ![plan[c].queue] = Append(@, k)]
             /\ need' = [need EXCEPT ![k] = WaitList(c, k[2])]
             /\ ev' = [ev EXCEPT ![k] = "queued"]
     /\ UNCHANGED <<plan, host, mem, ws>>

(* A call that is not timed returns at once.                               *)
Return(c) ==
  /\ host[c] = "issuing"
  /\ tried[c] = KernelsOf(plan[c])
  /\ ~plan[c].timed
  /\ host' = [host EXCEPT ![c] = "returned"]
  /\ UNCHANGED <<plan, tried, fifo, need, ev, mem, ws>>

(* A timed one waits for its last event, and then asks for the times of    *)
(* all of them, which throws for a kernel that is not over.                *)
ReadTimes(c) ==
  /\ host[c] = "issuing"
  /\ tried[c] = KernelsOf(plan[c])
  /\ plan[c].timed
  /\ ev[Final(c)] = "complete"
  /\ host' = [host EXCEPT ![c] =
                IF \A t \in KernelsOf(plan[c]) : ev[<<c, t>>] = "complete"
                THEN "returned" ELSE "threw"]
  /\ UNCHANGED <<plan, tried, fifo, need, ev, mem, ws>>

-----------------------------------------------------------------------------
(* The device. *)

(* What was enqueued on the queue of k before k.                           *)
Ahead(k) ==
  LET f == fifo[plan[k[1]].queue]
  IN {f[i] : i \in {i \in DOMAIN f : \E l \in DOMAIN f : i < l /\ f[l] = k}}

Start(k) ==
  /\ ev[k] = "queued"
  /\ \A e \in need[k] : ev[e] = "complete"
  /\ plan[k[1]].queue \in InOrder => \A e \in Ahead(k) : ev[e] = "complete"
  /\ ev' = [ev EXCEPT ![k] = "running"]
  /\ UNCHANGED <<plan, host, tried, fifo, need, mem, ws>>

Complete(k) ==
  /\ ev[k] = "running"
  /\ ev' = [ev EXCEPT ![k] = "complete"]
  /\ UNCHANGED <<plan, host, tried, fifo, need>>

(* Packing.  Nothing is known of what another call had packed there.       *)
FinishWSA(c) ==
  LET j == plan[c]
  IN /\ Complete(<<c, "WSA">>)
     /\ ws' = [ws EXCEPT ![j.w] =
                 [owner |-> c, WA |-> mem[j.a], WB |-> IF @.owner = c THEN @.WB ELSE Garbage]]
     /\ UNCHANGED mem

FinishWSB(c) ==
  LET j == plan[c]
  IN /\ Complete(<<c, "WSB">>)
     /\ ws' = [ws EXCEPT ![j.w] =
                 [owner |-> c, WA |-> IF @.owner = c THEN @.WA ELSE Garbage, WB |-> mem[j.b]]]
     /\ UNCHANGED mem

FinishBETAC(c) ==
  LET j == plan[c]
  IN /\ Complete(<<c, "BETAC">>)
     /\ mem' = [mem EXCEPT ![j.c] = ScaleBy(c, j.beta, @)]
     /\ UNCHANGED ws

(* The main kernel takes A and B from the workspace when they were packed, *)
(* and scales C itself unless that is another kernel's work.               *)
FinishMAIN(c) ==
  LET j == plan[c]
      packed == ws[j.w]
      va == IF "WA" \notin Reads(j.hp, "MAIN") THEN mem[j.a]
            ELSE IF packed.owner = c THEN packed.WA ELSE Garbage
      vb == IF "WB" \notin Reads(j.hp, "MAIN") THEN mem[j.b]
            ELSE IF packed.owner = c THEN packed.WB ELSE Garbage
  IN /\ Complete(<<c, "MAIN">>)
     /\ mem' = [mem EXCEPT ![j.c] =
                  Plus(c, va, vb, IF MainDoesBetaCInc(j.hp) THEN ScaleBy(c, j.beta, @) ELSE @)]
     /\ UNCHANGED ws

-----------------------------------------------------------------------------
Host(c) == Begin(c) \/ Enqueue(c) \/ Return(c) \/ ReadTimes(c)

Finish(c) == FinishWSA(c) \/ FinishWSB(c) \/ FinishBETAC(c) \/ FinishMAIN(c)

Next == \/ \E c \in Calls : Host(c) \/ Finish(c)
        \/ \E k \in Command : Start(k)

(* The host program makes its calls and each goes on; the device starts    *)
(* what nothing holds back, and a kernel that runs comes to an end.        *)
Fairness ==
  /\ \A c \in Calls : WF_vars(Host(c))
  /\ \A c \in Calls : /\ WF_vars(FinishWSA(c)) /\ WF_vars(FinishWSB(c))
                      /\ WF_vars(FinishBETAC(c)) /\ WF_vars(FinishMAIN(c))
  /\ \A k \in Command : WF_vars(Start(k))

Spec == Init /\ [][Next]_vars /\ Fairness

-----------------------------------------------------------------------------
(* Properties. *)

(* No kernel of a call is ever enqueued twice.                             *)
TypeOK ==
  /\ plan \in Plan
  /\ host \in [Calls -> {"idle", "issuing", "returned", "threw"}]
  /\ tried \in [Calls -> SUBSET KType]
  /\ fifo \in [Queues -> Seq(Command)]
  /\ \A q \in Queues : IsInjective(fifo[q])
  /\ need \in [Command -> SUBSET Command]
  /\ ev \in [Command -> {"none", "queued", "running", "complete"}]
  /\ DOMAIN mem = Buffers
  /\ DOMAIN ws = Workspaces

(* gemm.hpp: when the event of a call completes, the call is complete,     *)
(* although that event is the one of its last kernel.  Hence the times of  *)
(* a timed call can be read when that event has completed.                 *)
FinalEventMeansDone ==
  \A c \in Calls :
    /\ ev[Final(c)] = "complete" => \A t \in KernelsOf(plan[c]) : ev[<<c, t>>] = "complete"
    /\ host[c] # "threw"

(* gemm.hpp: no kernel of a call begins before the events the call was     *)
(* given, and the whole calls they stand for, are complete.                *)
UserEventsAwaited ==
  \A c \in Calls, t \in KType : ev[<<c, t>>] \in {"running", "complete"} =>
    \A d \in plan[c].waits : \A s \in KernelsOf(plan[d]) : ev[<<d, s>>] = "complete"

(* No two kernels that run at the same time, of one call or of two, touch  *)
(* the same memory if one of them writes there.                            *)
NoConflictingOverlap ==
  \A k, l \in Command : ev[k] = "running" /\ ev[l] = "running" /\ k # l =>
    ~Conflict(plan, k[1], k[2], l[1], l[2])

(* Every call returns, and every kernel of it runs to its end, whatever    *)
(* waits for whatever on whichever queue.                                  *)
EveryCallCompletes ==
  \A c \in Calls :
    <>(host[c] = "returned" /\ \A t \in KernelsOf(plan[c]) : ev[<<c, t>>] = "complete")

-----------------------------------------------------------------------------
(* A matrix that a kernel of its own has scaled, and the main kernel has   *)
(* not yet added to, counts as untouched.                                  *)
Unscaled(v) == IF v[1] = "beta" THEN v[3] ELSE v

(* The inductive invariant, in parts.  Structure holds for every host      *)
(* program, Contents for those that order their calls.                     *)

(* What was dealt with was enqueued, with the events of the source; a call *)
(* that was made knows of calls that have returned, and one that returned  *)
(* has dealt with all its kernels.                                         *)
Enqueued ==
  \A c \in Calls :
    /\ tried[c] \subseteq KernelsOf(plan[c])
    /\ host[c] = "idle" => tried[c] = {}
    /\ host[c] = "returned" => tried[c] = KernelsOf(plan[c])
    /\ host[c] # "idle" => \A d \in plan[c].after : host[d] = "returned"
    /\ \A t \in KType : ev[<<c, t>>] # "none" <=> t \in tried[c]
    /\ \A t \in tried[c] : need[<<c, t>>] = WaitList(c, t)

(* A command is in the queue of its call when it has an event, and is      *)
(* behind those of the calls that had returned when its call was made.     *)
QueueOrder ==
  /\ \A q \in Queues : \A i \in DOMAIN fifo[q] : ev[fifo[q][i]] # "none"
  /\ \A k \in Command : ev[k] # "none" =>
       \E i \in DOMAIN fifo[plan[k[1]].queue] : fifo[plan[k[1]].queue][i] = k
  /\ \A q \in Queues : \A i, j \in DOMAIN fifo[q] :
       fifo[q][j][1] \in plan[fifo[q][i][1]].after => j < i

(* What has begun waits for nothing any more.                              *)
StartedIsFree ==
  \A k \in Command : ev[k] \in {"running", "complete"} =>
    /\ \A e \in need[k] : ev[e] = "complete"
    /\ plan[k[1]].queue \in InOrder => \A e \in Ahead(k) : ev[e] = "complete"

Structure == TypeOK /\ Enqueued /\ QueueOrder /\ StartedIsFree /\ FinalEventMeansDone

(* Kernel t of call c has run, and its main kernel has not.                *)
Prepared(c, t) == ev[<<c, t>>] = "complete" /\ ev[<<c, "MAIN">>] # "complete"

(* What a call packed is still in the workspace, and still what the matrix *)
(* holds, when the main kernel comes to read it.                           *)
PackedIsKept ==
  \A c \in Calls :
    LET j == plan[c]
    IN /\ Prepared(c, "WSA") => ws[j.w].owner = c /\ ws[j.w].WA = mem[j.a]
       /\ Prepared(c, "WSB") => ws[j.w].owner = c /\ ws[j.w].WB = mem[j.b]

(* A matrix is scaled once, and exactly while the main kernel of the call  *)
(* that scaled it is to come.                                              *)
ScaledIsAwaited ==
  /\ \A c \in Calls : Prepared(c, "BETAC") =>
       mem[plan[c].c] = ScaleBy(c, "IsOther", Unscaled(mem[plan[c].c]))
  /\ \A x \in Buffers :
       /\ Unscaled(mem[x])[1] # "beta"
       /\ mem[x][1] = "beta" => \E c \in Calls : plan[c].c = x /\ Prepared(c, "BETAC")

Contents == PackedIsKept /\ ScaledIsAwaited

IInv == Structure /\ Contents

-----------------------------------------------------------------------------
(* The abstract specification. *)

(* The calls of a disciplined host program take effect one at a time, as   *)
(* if each were a single step.                                             *)
Atomic == INSTANCE AtomicGemm WITH
            mem <- [x \in Buffers |-> Unscaled(mem[x])],
            done <- {c \in Calls : ev[Final(c)] = "complete"}

AtomicSpec == Atomic!Spec

(* Its safety part.                                                        *)
AtomicSafety == Atomic!Init /\ [][Atomic!Next]_(Atomic!vars)
=============================================================================
