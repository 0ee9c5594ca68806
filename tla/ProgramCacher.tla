---------------------------- MODULE ProgramCacher ----------------------------
(***************************************************************************)
(* ProgramCacher::get_ID and the calls of xgemm that go through it.        *)
(*                                                                         *)
(* The cacher is a process-wide singleton.  A mutex protects the map from  *)
(* keys to IDs, but the compiled programs of an ID are filled in after the *)
(* mutex is released, and are read without it.  Threads call xgemm with    *)
(* ID = -1, or with an ID that an earlier call returned.                   *)
(*                                                                         *)
(* The only bound that is not in the code is MaxCalls, the number of calls *)
(* a thread makes.                                                         *)
(***************************************************************************)
EXTENDS Integers, KernelGraph

CONSTANTS
  Threads,        \* the threads of the host program
  NoThread,       \* the owner of a mutex nobody holds
  Geometries,     \* the geometries GEMM is called with
  DeviceNames,    \* the names CL_DEVICE_NAME returns
  Contexts,       \* the OpenCL contexts of the host program
  NoContext,      \* the context of a default-constructed Programs
  Queues,         \* its command queues,
  ContextOf,      \*   the context each was made in,
  NameOf,         \*   and the name of the device each is for
  Problems,       \* the geometry, beta and queue that xgemm is called with
  DefaultHyPas,   \* what get_default_soln chooses for a device and geometry
  MaxCacheSize,   \* max_cache_size
  BuildOutcomes,  \* what building a program may do, among "ok" and "fail"
  ReuseIDs,       \* whether callers keep IDs and pass them again
  MaxCalls        \* bound: the calls each thread makes

ASSUME ThreadsAssumption == NoThread \notin Threads
ASSUME QueuesAssumption ==
  /\ NoContext \notin Contexts
  /\ ContextOf \in [Queues -> Contexts]
  /\ NameOf \in [Queues -> DeviceNames]
  /\ Problems \subseteq [geom : Geometries, beta : BetaType, queue : Queues]
  /\ Problems # {}
ASSUME DefaultAssumption == DefaultHyPas \in [DeviceNames -> [Geometries -> HyPas]]
ASSUME LimitAssumption ==
  /\ MaxCacheSize \in Nat \ {0}
  /\ MaxCalls \in Nat
  /\ BuildOutcomes \subseteq {"ok", "fail"}
  /\ ReuseIDs \in BOOLEAN

(* The string get_ID looks up: it names the device by its name alone, and  *)
(* says nothing of the context.                                            *)
Key == [geom : Geometries, beta : BetaType, name : DeviceNames]

(* A Programs.  kbs is the vector of kernels that v_wait_indices was made  *)
(* for, act is act_inds, ctx the context of its programs.                  *)
Programs == [ctx : Contexts \cup {NoContext}, kbs : SUBSET KType, act : SUBSET KType]

Fresh(ctx) == [ctx |-> ctx, kbs |-> {}, act |-> {}]

(* Everything update was to compile has been compiled.                     *)
Complete(p) == p.kbs # {} /\ p.act = p.kbs

(* What a caller asks for (geom, beta, queue), the ID it works with, and   *)
(* the kernels it had arguments for.  own: this call compiles the programs *)
(* of its ID.  settled: they were complete, and of the caller's context,   *)
(* when the call came to know its ID.                                      *)
Call == [geom : Geometries, beta : BetaType, queue : Queues,
         id : Int, own : BOOLEAN, settled : BOOLEAN, args : SUBSET KType]

(* How a call ended: returned success, threw, or did something undefined   *)
(* ("none": not yet).  ran: the kernels it enqueued.                       *)
Result == [status : {"none", "success", "threw", "undefined"}, ran : SUBSET KType]

NoResult == [status |-> "none", ran |-> {}]

CriticalSection == {"lookup", "solve", "allot", "publish", "unlock"}

Building == {"publish", "unlock", "update", "compile"}

PC == CriticalSection \cup {"idle", "acquire", "update", "compile", "args", "run"}

VARIABLES
  mutt,           \* the holder of the mutex
  IDs,            \* the map from keys to IDs
  current_ID,     \* the next ID
  program_cache,  \* the programs of every ID
  pc,             \* where each thread is
  call,           \* the call it is in, or was in last
  result,         \* how that call ended
  calls,          \* how many calls it has started
  known           \* the IDs callers got back, with what they got them for

vars == <<mutt, IDs, current_ID, program_cache, pc, call, result, calls, known>>

KeyOf(c) == [geom |-> c.geom, beta |-> c.beta, name |-> NameOf[c.queue]]

BlobsOfKey(k) == Blobs(DefaultHyPas[k.name][k.geom], k.beta)

BlobsOf(c) == BlobsOfKey(KeyOf(c))

Settled(c) == /\ Complete(program_cache[c.id])
              /\ program_cache[c.id].ctx = ContextOf[c.queue]

NewCall(p, id) == [geom |-> p.geom, beta |-> p.beta, queue |-> p.queue, id |-> id,
                   own |-> FALSE, settled |-> FALSE, args |-> {}]

Init ==
  /\ mutt = NoThread
  /\ IDs = [k \in {} |-> 0]
  /\ current_ID = 0
  /\ program_cache = [i \in 0 .. MaxCacheSize - 1 |-> Fresh(NoContext)]
  /\ pc = [t \in Threads |-> "idle"]
  /\ call = [t \in Threads |-> NewCall(CHOOSE p \in Problems : TRUE, -1)]
  /\ result = [t \in Threads |-> NoResult]
  /\ calls = [t \in Threads |-> 0]
  /\ known = {}

Goto(t, to) == pc' = [pc EXCEPT ![t] = to]

EndCall(t, status, ran) ==
  /\ Goto(t, "idle")
  /\ result' = [result EXCEPT ![t] = [status |-> status, ran |-> ran]]

-----------------------------------------------------------------------------
(* The caller. *)

StartCall(t, c) ==
  /\ pc[t] = "idle"
  /\ calls[t] < MaxCalls
  /\ calls' = [calls EXCEPT ![t] = @ + 1]
  /\ call' = [call EXCEPT ![t] = c]
  /\ result' = [result EXCEPT ![t] = NoResult]
  /\ UNCHANGED <<mutt, IDs, current_ID, program_cache, known>>

(* xgemm with a negative ID asks the cacher.                               *)
CallWithoutID(t) ==
  \E p \in Problems :
    /\ StartCall(t, NewCall(p, -1))
    /\ Goto(t, "acquire")

(* xgemm with an ID that was returned for this geometry on this queue: the *)
(* ID is used as it is, whatever beta is now.                              *)
CallWithID(t) ==
  \E e \in known, p \in Problems :
    /\ ReuseIDs
    /\ p.geom = e.geom /\ p.queue = e.queue
    /\ StartCall(t, [NewCall(p, e.id) EXCEPT !.settled = Settled(NewCall(p, e.id))])
    /\ Goto(t, "args")

-----------------------------------------------------------------------------
(* ProgramCacher::get_ID, under the mutex. *)

(* A mutant: the lookup is done without waiting for the mutex.             *)
AcquireWithoutWaiting(t) ==
  /\ pc[t] = "acquire"
  /\ mutt' = t
  /\ Goto(t, "lookup")
  /\ UNCHANGED <<IDs, current_ID, program_cache, call, result, calls, known>>

Acquire(t) ==
  /\ pc[t] = "acquire"
  /\ mutt = NoThread
  /\ mutt' = t
  /\ Goto(t, "lookup")
  /\ UNCHANGED <<IDs, current_ID, program_cache, call, result, calls, known>>

(* A mutant: a hit makes sure that the programs are up to date.            *)
HitThenUpdate(t) ==
  LET c == [call[t] EXCEPT !.id = IDs[KeyOf(call[t])]]
  IN /\ pc[t] = "lookup"
     /\ KeyOf(call[t]) \in DOMAIN IDs
     /\ call' = [call EXCEPT ![t] = [c EXCEPT !.settled = Settled(c)]]
     /\ mutt' = NoThread
     /\ Goto(t, "update")
     /\ UNCHANGED <<IDs, current_ID, program_cache, result, calls, known>>

Hit(t) ==
  LET c == [call[t] EXCEPT !.id = IDs[KeyOf(call[t])]]
  IN /\ pc[t] = "lookup"
     /\ KeyOf(call[t]) \in DOMAIN IDs
     /\ call' = [call EXCEPT ![t] = [c EXCEPT !.settled = Settled(c)]]
     /\ mutt' = NoThread
     /\ Goto(t, "args")
     /\ UNCHANGED <<IDs, current_ID, program_cache, result, calls, known>>

Miss(t) ==
  /\ pc[t] = "lookup"
  /\ KeyOf(call[t]) \notin DOMAIN IDs
  /\ Goto(t, "solve")
  /\ UNCHANGED <<mutt, IDs, current_ID, program_cache, call, result, calls, known>>

(* A mutant: the mutex is a bare one and an exception leaves it locked.    *)
SolveThrowsHoldingMutex(t) ==
  /\ pc[t] = "solve"
  /\ EndCall(t, "threw", {})
  /\ UNCHANGED <<mutt, IDs, current_ID, program_cache, call, calls, known>>

(* get_default_soln, or a query of the queue before it, throws: the        *)
(* unique_lock gives the mutex back.                                       *)
SolveThrows(t) ==
  /\ pc[t] = "solve"
  /\ mutt' = NoThread
  /\ EndCall(t, "threw", {})
  /\ UNCHANGED <<IDs, current_ID, program_cache, call, calls, known>>

Solve(t) ==
  /\ pc[t] = "solve"
  /\ Goto(t, "allot")
  /\ UNCHANGED <<mutt, IDs, current_ID, program_cache, call, result, calls, known>>

(* The counter is incremented before it is compared with the limit, and    *)
(* stays incremented when get_ID throws.                                   *)
LimitThrows(t) ==
  /\ pc[t] = "allot"
  /\ current_ID + 1 >= MaxCacheSize
  /\ current_ID' = current_ID + 1
  /\ mutt' = NoThread
  /\ EndCall(t, "threw", {})
  /\ UNCHANGED <<IDs, program_cache, call, calls, known>>

(* Mutants: the limit is compared with the ID instead of the counter; the  *)
(* limit is not compared at all.                                           *)
AllotToTheEnd(t) ==
  /\ pc[t] = "allot"
  /\ current_ID < MaxCacheSize
  /\ current_ID' = current_ID + 1
  /\ call' = [call EXCEPT ![t].id = current_ID, ![t].own = TRUE]
  /\ program_cache' = [program_cache EXCEPT ![current_ID] = Fresh(ContextOf[call[t].queue])]
  /\ Goto(t, "publish")
  /\ UNCHANGED <<mutt, IDs, result, calls, known>>

AllotUnlimited(t) ==
  /\ pc[t] = "allot"
  /\ current_ID' = current_ID + 1
  /\ call' = [call EXCEPT ![t].id = current_ID, ![t].own = TRUE]
  /\ program_cache' = [program_cache EXCEPT ![current_ID] = Fresh(ContextOf[call[t].queue])]
  /\ Goto(t, "publish")
  /\ UNCHANGED <<mutt, IDs, result, calls, known>>

Allot(t) ==
  /\ pc[t] = "allot"
  /\ current_ID + 1 < MaxCacheSize
  /\ current_ID' = current_ID + 1
  /\ call' = [call EXCEPT ![t].id = current_ID, ![t].own = TRUE]
  /\ program_cache' = [program_cache EXCEPT ![current_ID] = Fresh(ContextOf[call[t].queue])]
  /\ Goto(t, "publish")
  /\ UNCHANGED <<mutt, IDs, result, calls, known>>

Publish(t) ==
  /\ pc[t] = "publish"
  /\ IDs' = [k \in DOMAIN IDs \cup {KeyOf(call[t])} |->
               IF k = KeyOf(call[t]) THEN call[t].id ELSE IDs[k]]
  /\ Goto(t, "unlock")
  /\ UNCHANGED <<mutt, current_ID, program_cache, call, result, calls, known>>

Unlock(t) ==
  /\ pc[t] = "unlock"
  /\ mutt' = NoThread
  /\ Goto(t, "update")
  /\ UNCHANGED <<IDs, current_ID, program_cache, call, result, calls, known>>

-----------------------------------------------------------------------------
(* Programs::update, without the mutex. *)

BeginUpdate(t) ==
  /\ pc[t] = "update"
  /\ program_cache' = [program_cache EXCEPT
                         ![call[t].id] = [ctx |-> @.ctx, kbs |-> BlobsOf(call[t]), act |-> {}]]
  /\ Goto(t, "compile")
  /\ UNCHANGED <<mutt, IDs, current_ID, call, result, calls, known>>

(* One turn of the loop over the kernels: the program compiles and is      *)
(* appended to act_inds,                                                   *)
CompileOk(t) ==
  LET p == program_cache[call[t].id]
  IN /\ pc[t] = "compile"
     /\ "ok" \in BuildOutcomes
     /\ ~Complete(p)
     /\ program_cache' = [program_cache EXCEPT
                            ![call[t].id].act = @ \cup {NextOf(p.kbs, p.act)}]
     /\ UNCHANGED <<mutt, IDs, current_ID, pc, call, result, calls, known>>

(* or it does not, or not in time, and update throws: the key stays in the *)
(* map and what was compiled stays in act_inds.                            *)
CompileFails(t) ==
  /\ pc[t] = "compile"
  /\ "fail" \in BuildOutcomes
  /\ ~Complete(program_cache[call[t].id])
  /\ EndCall(t, "threw", {})
  /\ UNCHANGED <<mutt, IDs, current_ID, program_cache, call, calls, known>>

(* A mutant: the caller goes on after the first program that compiles.     *)
EndUpdateEarly(t) ==
  /\ pc[t] = "compile"
  /\ program_cache[call[t].id].act # {}
  /\ Goto(t, "args")
  /\ UNCHANGED <<mutt, IDs, current_ID, program_cache, call, result, calls, known>>

EndUpdate(t) ==
  /\ pc[t] = "compile"
  /\ Complete(program_cache[call[t].id])
  /\ Goto(t, "args")
  /\ UNCHANGED <<mutt, IDs, current_ID, program_cache, call, result, calls, known>>

-----------------------------------------------------------------------------
(* xgemm once it has an ID, without the mutex. *)

(* What a thread sees that reads act_inds of ID i.  Reading it while its   *)
(* builder still appends to it is a data race: any prefix may be seen.     *)
Observed(t, i) ==
  IF /\ ~Complete(program_cache[i])
     /\ \E b \in Threads \ {t} : pc[b] \in Building /\ call[b].id = i
  THEN PrefixesOf(program_cache[i].act)
  ELSE {program_cache[i].act}

(* The arguments of every active kernel are collected.                     *)
ReadArgs(t) ==
  /\ pc[t] = "args"
  /\ \E seen \in Observed(t, call[t].id) : call' = [call EXCEPT ![t].args = seen]
  /\ Goto(t, "run")
  /\ UNCHANGED <<mutt, IDs, current_ID, program_cache, result, calls, known>>

(* Programs::run reads act_inds again.  Without an active kernel it asks   *)
(* for a vector of n_active - 1 events, which throws.  With more kernels   *)
(* than there are arguments it reads past the end of the arguments.        *)
RunThrows(t) ==
  /\ pc[t] = "run"
  /\ {} \in Observed(t, call[t].id)
  /\ EndCall(t, "threw", {})
  /\ UNCHANGED <<mutt, IDs, current_ID, program_cache, call, calls, known>>

RunOverrunsArgs(t) ==
  /\ pc[t] = "run"
  /\ \E seen \in Observed(t, call[t].id) : ~(seen \subseteq call[t].args)
  /\ EndCall(t, "undefined", {})
  /\ UNCHANGED <<mutt, IDs, current_ID, program_cache, call, calls, known>>

(* Errors of the OpenCL calls are dropped, so that programs of another     *)
(* context enqueue nothing; the status is success in every case.           *)
Run(t) ==
  /\ pc[t] = "run"
  /\ \E seen \in Observed(t, call[t].id) :
       /\ seen # {}
       /\ seen \subseteq call[t].args
       /\ EndCall(t, "success",
                  IF program_cache[call[t].id].ctx = ContextOf[call[t].queue]
                  THEN seen ELSE {})
  /\ known' = known \cup {[geom |-> call[t].geom, queue |-> call[t].queue,
                           id |-> call[t].id]}
  /\ UNCHANGED <<mutt, IDs, current_ID, program_cache, call, calls>>

-----------------------------------------------------------------------------
GetID(t) ==
  \/ Acquire(t) \/ Hit(t) \/ Miss(t) \/ SolveThrows(t) \/ Solve(t)
  \/ LimitThrows(t) \/ Allot(t) \/ Publish(t) \/ Unlock(t)

Update(t) == BeginUpdate(t) \/ CompileOk(t) \/ CompileFails(t) \/ EndUpdate(t)

Launch(t) == ReadArgs(t) \/ RunThrows(t) \/ RunOverrunsArgs(t) \/ Run(t)

Next == \E t \in Threads :
          CallWithoutID(t) \/ CallWithID(t) \/ GetID(t) \/ Update(t) \/ Launch(t)

(* A thread that is inside the library keeps running.  Nothing is assumed  *)
(* of the mutex but that it is not refused for ever while it is free, nor  *)
(* of the callers.                                                         *)
Fairness == \A t \in Threads : WF_vars(GetID(t) \/ Update(t) \/ Launch(t))

Spec == Init /\ [][Next]_vars /\ Fairness

-----------------------------------------------------------------------------
(* Properties. *)

TypeOK ==
  /\ mutt \in Threads \cup {NoThread}
  /\ DOMAIN IDs \subseteq Key
  /\ \A k \in DOMAIN IDs : IDs[k] \in 0 .. MaxCacheSize - 1
  /\ current_ID \in Nat
  /\ program_cache \in [0 .. MaxCacheSize - 1 -> Programs]
  /\ pc \in [Threads -> PC]
  /\ call \in [Threads -> Call]
  /\ result \in [Threads -> Result]
  /\ calls \in [Threads -> 0 .. MaxCalls]
  /\ known \subseteq [geom : Geometries, queue : Queues, id : 0 .. MaxCacheSize - 1]

(* Thread t is filling in the programs of the ID it took.                  *)
Builds(t) == pc[t] \in Building

(* Programs are compiled outside the mutex, yet by one thread only: no two *)
(* threads compile for the same key or into the same slot, and no thread   *)
(* compiles into a slot that belongs to another key.                       *)
SoleBuilder ==
  /\ \A t, u \in Threads : Builds(t) /\ Builds(u) /\ t # u =>
       call[t].id # call[u].id /\ KeyOf(call[t]) # KeyOf(call[u])
  /\ \A t \in Threads, k \in DOMAIN IDs :
       Builds(t) => (IDs[k] = call[t].id => k = KeyOf(call[t]))

(* What makes it safe to read program_cache without the mutex: programs    *)
(* that are complete and can be found never change again, and their ID     *)
(* stays that of their key.                                                *)
CompleteProgramsAreFrozen ==
  [][\A k \in DOMAIN IDs : Complete(program_cache[IDs[k]]) =>
       /\ k \in DOMAIN IDs' /\ IDs'[k] = IDs[k]
       /\ program_cache'[IDs[k]] = program_cache[IDs[k]]]_vars

(* The call that compiles the programs of a key throws, or launches every  *)
(* kernel of the key, whatever other threads do meanwhile.                 *)
BuilderRunsItsKernels ==
  \A t \in Threads : result[t].status # "none" /\ call[t].own =>
    \/ result[t].status = "threw"
    \/ result[t] = [status |-> "success", ran |-> BlobsOf(call[t])]

(* A call that comes to an ID after its programs are complete, in the      *)
(* context they were made for, launches all of them; and they are those of *)
(* the call when its ID is the one of its key, as it is with ID < 0.       *)
SettledCallsRunTheirKernels ==
  \A t \in Threads : result[t].status # "none" /\ call[t].settled =>
    /\ result[t] = [status |-> "success", ran |-> program_cache[call[t].id].kbs]
    /\ KeyOf(call[t]) \in DOMAIN IDs /\ IDs[KeyOf(call[t])] = call[t].id
         => result[t].ran = BlobsOf(call[t])

(* Every call returns or throws: no exception leaves the mutex locked, and *)
(* no thread waits for ever behind another one's compilation.              *)
EveryCallEnds == \A t \in Threads : pc[t] # "idle" ~> pc[t] = "idle"

(* The cacher keeps the promise of IdTable, with one slot less than the    *)
(* array has.                                                              *)
Table == INSTANCE IdTable WITH
           Keys <- Key, Capacity <- MaxCacheSize - 1, bound <- IDs, issued <- current_ID

TableSpec == Table!Spec

-----------------------------------------------------------------------------
(* The inductive invariant, in parts. *)

(* A thread holds the mutex exactly while it is in get_ID after the lock   *)
(* and before the unlock, the end of the function or an exception.         *)
MutexHeld == \A t \in Threads : pc[t] \in CriticalSection <=> mutt = t

CallKnown ==
  \A t \in Threads :
    /\ pc[t] # "idle" => result[t].status = "none"
    /\ pc[t] \in Building \cup {"args", "run"} => call[t].id \in 0 .. MaxCacheSize - 1
    /\ pc[t] \in {"acquire", "lookup", "solve", "allot"} =>
         ~call[t].own /\ ~call[t].settled

(* The map is injective, and its IDs are below the counter and the limit.  *)
MapInjective ==
  /\ \A k \in DOMAIN IDs : IDs[k] < current_ID /\ IDs[k] < MaxCacheSize - 1
  /\ \A k, l \in DOMAIN IDs : IDs[k] = IDs[l] => k = l

(* The thread that is to publish a key knows it absent, and its ID unused; *)
(* the thread that compiles a key finds it with its own ID.                *)
MapMatches ==
  \A t \in Threads :
    /\ pc[t] \in {"solve", "allot", "publish"} => KeyOf(call[t]) \notin DOMAIN IDs
    /\ pc[t] = "publish" => \A k \in DOMAIN IDs : IDs[k] # call[t].id
    /\ pc[t] \in {"unlock", "update", "compile"} =>
         KeyOf(call[t]) \in DOMAIN IDs /\ IDs[KeyOf(call[t])] = call[t].id

(* An ID has one owner at most.                                            *)
OneOwner ==
  /\ \A t \in Threads :
       /\ pc[t] \in Building => call[t].own
       /\ call[t].own => /\ call[t].id \in 0 .. MaxCacheSize - 2
                         /\ call[t].id < current_ID
  /\ \A t, u \in Threads :
       call[t].own /\ call[u].own /\ t # u
         => call[t].id # call[u].id

(* How far the programs of a key are: not begun before update, as long as  *)
(* the key's kernels after it.                                             *)
ProgramsMatch ==
  /\ \A i \in DOMAIN program_cache : program_cache[i].act \subseteq program_cache[i].kbs
  /\ \A k \in DOMAIN IDs : program_cache[IDs[k]].kbs \in {{}, BlobsOfKey(k)}
  /\ \A t \in Threads : Builds(t) =>
       /\ program_cache[call[t].id].ctx = ContextOf[call[t].queue]
       /\ program_cache[call[t].id].kbs =
            IF pc[t] = "compile" THEN BlobsOf(call[t]) ELSE {}

(* What a call relies on once it knows its ID to be good, because it       *)
(* compiled the programs or came after they were complete.                 *)
Good(t) ==
  /\ Settled(call[t])
  /\ \E k \in DOMAIN IDs : IDs[k] = call[t].id
  /\ call[t].own => IDs[KeyOf(call[t])] = call[t].id /\ KeyOf(call[t]) \in DOMAIN IDs

GoodCalls ==
  \A t \in Threads :
    /\ call[t].settled \/ (call[t].own /\ pc[t] \in {"args", "run"}) => Good(t)
    /\ call[t].own => ~call[t].settled
    /\ pc[t] = "run" /\ (call[t].settled \/ call[t].own) =>
         call[t].args = program_cache[call[t].id].kbs

(* A returned ID is one of the map.                                        *)
KnownPublished == \A e \in known : \E k \in DOMAIN IDs : IDs[k] = e.id

(* An ID that is in use and was looked up is one of the map.               *)
UsedPublished ==
  \A t \in Threads : pc[t] \in {"args", "run"} => \E k \in DOMAIN IDs : IDs[k] = call[t].id

IInv ==
  /\ TypeOK /\ MutexHeld /\ CallKnown /\ MapInjective /\ MapMatches /\ OneOwner
  /\ ProgramsMatch /\ GoodCalls /\ KnownPublished /\ UsedPublished
  /\ BuilderRunsItsKernels /\ SettledCallsRunTheirKernels

-----------------------------------------------------------------------------
(* What the documentation says and the code does not do. *)

(* gemm.hpp: "Passing ID < 0 for all calls is valid".  Checked where no    *)
(* build fails and no caller passes an ID.                                 *)
NegativeIDIsAlwaysValid ==
  \A t \in Threads :
    /\ result[t].status # "undefined"
    /\ result[t].status = "success" => result[t].ran = BlobsOf(call[t])

(* gemm.hpp: a geometry does not include beta, and the ID returned "can be *)
(* used for this (device, geometry)".  Checked with one thread, where no   *)
(* build fails.                                                            *)
ReturnedIDCanBeUsed ==
  \A t \in Threads : result[t].status = "success" =>
    result[t].ran = BlobsOf(call[t])

(* gemm.hpp: "true if GEMM ran successfully, otherwise false".  Checked    *)
(* with one thread that passes ID = -1, where a build may fail.            *)
SuccessMeansGemmRan ==
  \A t \in Threads : result[t].status = "success" =>
    result[t].ran = BlobsOf(call[t])
=============================================================================
