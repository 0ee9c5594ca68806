-------------------------------- MODULE Session --------------------------------
(***************************************************************************)
(* The life of the objects a benchmark or a search lives on: a TinyOne     *)
(* (made by a TinyTwo), which makes a context, a queue and memory of its   *)
(* own, or the TinyZero of find, which is given them and works on a copy   *)
(* of C.  Any call of OpenCL may fail; what was made by then is released   *)
(* by destructors, or by nobody.                                           *)
(***************************************************************************)
EXTENDS ProgramSlots, Hint, Sequences

CONSTANTS
  Platforms, Devices,  \* the words of their descriptions
  Tested,              \* the platforms whose vendor DevInfo knows
  MaxBenchmarks        \* bound: calls of benchgemm, and turns of its loop

ASSUME DevicesAssumption == Len(Platforms) \in Nat /\ Len(Devices) \in Nat
ASSUME MaxBenchmarksAssumption == MaxBenchmarks \in Nat

VARIABLES
  kind,     \* "TinyOne" or "find"
  hint,     \* the CLHint: BasicHints for the platform and for the device
  wspace,   \* there is workspace
  alive,    \* the objects of OpenCL that are alive, programs apart
  thrown,   \* where exceptions were thrown
  testing,  \* benchgemm is called by accuracy_test
  ran,      \* what the kernels executed last were compiled from
  rounds    \* the number of benchmarks and of their turns

sessionVars == <<kind, hint, wspace, alive, thrown, testing, ran, rounds>>
vars == <<at, slotVars, faults, sessionVars>>

Mem == {"A", "B", "C", "W"}
Kernels == {<<"kernel", t>> : t \in KType} \cup {<<"event", t>> : t \in KType}
Objects == {<<"context">>, <<"queue">>, <<"copy">>, <<"copy event">>,
            <<"write event">>, <<"read event">>}
           \cup {<<"memory", m>> : m \in Mem} \cup Kernels

(* What the members of a TinyOne or TinyZero release, in their             *)
(* destructors; the memory of find is its caller's.                        *)
Owned == {<<"context">>, <<"queue">>, <<"copy">>} \cup {<<"memory", m>> : m \in Mem}

Events == {<<"write event">>, <<"read event">>}

(* The constructors of CLHint: the same words for both, or two indices.    *)
CLHints ==
  {[pla |-> [id |-> Hintless, matches |-> words],
    dev |-> [id |-> Hintless, matches |-> words]] : words \in SUBSET Words}
  \cup {[pla |-> [id |-> pla_id, matches |-> {}], dev |-> [id |-> dev_id, matches |-> {}]] :
         pla_id \in 0 .. Len(Platforms), dev_id \in 0 .. Len(Devices)}

Init ==
  /\ at = "start"
  /\ InitSlots
  /\ kind \in {"TinyOne", "find"}
  /\ hint \in CLHints
  /\ wspace \in BOOLEAN
  /\ kind = "find" => hint.pla.id = 0 /\ hint.dev.id = 0 /\ wspace
  /\ alive = {} /\ thrown = {} /\ testing = FALSE /\ ran = <<>> /\ rounds = 0

(* An exception leaves the constructor at a point at which the members     *)
(* that own objects have been constructed, or have not.                    *)
Abandon(place, made, owned) ==
  /\ at' = "gone"
  /\ thrown' = thrown \cup {place}
  /\ alive' = (alive \cup made) \ owned
  /\ UNCHANGED <<slotVars, kind, hint, wspace, testing, ran, rounds>>

Goto(place, made) ==
  /\ at' = place
  /\ alive' = alive \cup made
  /\ UNCHANGED <<slotVars, faults, kind, hint, wspace, thrown, testing, ran, rounds>>

-----------------------------------------------------------------------------
(* Constructors. *)

(* TinyTwo knows the types f and d; the rest is a TinyOne.                 *)
UnknownFloatThrows ==
  /\ at = "start" /\ kind = "TinyOne"
  /\ Abandon("start", {}, {}) /\ UNCHANGED faults

(* cl_set_platform_etc, until there is a context: OpenCL fails, or no      *)
(* platform is chosen by the hint.                                         *)
PlatformThrows ==
  /\ at = "start" /\ kind = "TinyOne"
  /\ \/ Fault
     \/ Chosen(hint.pla, Platforms) = {} /\ UNCHANGED faults
  /\ Abandon("platform", {}, {})

SetPlatform ==
  /\ at = "start" /\ kind = "TinyOne"
  /\ Chosen(hint.pla, Platforms) # {}
  /\ Goto("device", {<<"context">>})

(* DevInfo asks for what it wants to know of a device, and knows two       *)
(* vendors.                                                                *)
KnownVendor == Chosen(hint.pla, Platforms) \subseteq Tested

(* The context is there, and no object that would release it.              *)
DeviceThrows ==
  /\ at = "device"
  /\ \/ Fault
     \/ /\ Chosen(hint.dev, Devices) = {} \/ ~KnownVendor
        /\ UNCHANGED faults
  /\ Abandon("device", {}, {})

(* The device, and cl_set_command_queue.                                   *)
SetQueue ==
  /\ at = "device"
  /\ Chosen(hint.dev, Devices) # {} /\ KnownVendor
  /\ Goto("host", {<<"queue">>})

(* The type of the matrices is not that of the geometry, or a leading      *)
(* dimension is too small.                                                 *)
SizesThrow ==
  /\ at = "host"
  /\ Abandon("host", {}, Owned) /\ UNCHANGED faults

SetHostMatrices ==
  /\ at = "host"
  /\ Goto("memory", {})

(* opencl_memory_initialise: A, B, C, and W if its size is not zero.       *)
Wanted == IF wspace THEN Mem ELSE Mem \ {"W"}
Missing == {m \in Wanted : <<"memory", m>> \notin alive}

NextMemory == CHOOSE m \in Missing :
  \A n \in Missing : LET rank == [A |-> 1, B |-> 2, C |-> 3, W |-> 4] IN rank[m] <= rank[n]

MakeMemory ==
  /\ at = "memory" /\ Missing # {}
  /\ Goto("memory", {<<"memory", NextMemory>>})

MemoryThrows ==
  /\ at = "memory" /\ Fault
  /\ Abandon("memory", {}, Owned)

(* The matrices are written, and a TinyZero is made on them.               *)
MakeTinyZero ==
  /\ at = "memory" /\ Missing = {}
  /\ Goto("ready", {})

(* find: get_copy, in the constructor of GpuMms.  Nothing owns the copy    *)
(* before get_copy returns it, and nothing ever releases the event.        *)
CopyC ==
  /\ at = "start" /\ kind = "find"
  /\ Goto("tinyzero", {<<"copy">>, <<"copy event">>})

CopyThrows ==
  /\ at = "start" /\ kind = "find" /\ Fault
  /\ \E made \in {{}, {<<"copy">>}, {<<"copy">>, <<"copy event">>}} : Abandon("copy", made, {})

(* The device of the queue is looked up; its vendor must be known.         *)
FinishTinyZero ==
  /\ at = "tinyzero"
  /\ Goto("ready", {})

TinyZeroThrows ==
  /\ at = "tinyzero" /\ Fault
  /\ Abandon("tinyzero", {}, Owned)

-----------------------------------------------------------------------------
(* benchgemm and accuracy_test.  An exception in them reaches the user of  *)
(* a TinyOne, who may go on, and ends find.                                *)

(* The events of accuracy_test are released where it ends.                 *)
BackToUser ==
  /\ at' = IF kind = "find" THEN "closing" ELSE "ready"
  /\ testing' = FALSE
  /\ alive' = alive \ Events

(* C is written again, with an event that accuracy_test waits for.         *)
BeginAccuracyTest ==
  /\ at = "ready" /\ kind = "TinyOne" /\ ~testing
  /\ rounds < MaxBenchmarks
  /\ testing' = TRUE
  /\ alive' = alive \cup {<<"write event">>}
  /\ UNCHANGED <<at, slotVars, faults, kind, hint, wspace, thrown, ran, rounds>>

(* The write fails.  The event was never initialised, and its destructor   *)
(* releases what happens to be there, unless that is the null pointer.     *)
WriteThrows ==
  /\ at = "ready" /\ kind = "TinyOne" /\ ~testing
  /\ rounds < MaxBenchmarks
  /\ Fault
  /\ at' \in {"ready", "undefined"}
  /\ thrown' = thrown \cup {"write"}
  /\ UNCHANGED <<slotVars, kind, hint, wspace, alive, testing, ran, rounds>>

(* Addresses, derivability and the limits of the device are checked, then  *)
(* the programs are brought to the kernels of the bundle.                  *)
Benchgemm(r) ==
  /\ at = "ready"
  /\ rounds < MaxBenchmarks
  /\ rounds' = rounds + 1
  /\ BeginUpdate(r)
  /\ ran' = <<>>
  /\ UNCHANGED <<kind, hint, wspace, alive, thrown, testing>>

BenchgemmThrows ==
  /\ at = "ready" /\ testing
  /\ thrown' = thrown \cup {"check"}
  /\ BackToUser
  /\ UNCHANGED <<slotVars, faults, kind, hint, wspace, ran, rounds>>

UpdateReturns ==
  /\ at = "next" /\ act_inds = DOMAIN req
  /\ Goto("run", {})

UpdateThrows ==
  /\ at = "failed"
  /\ thrown' = thrown \cup {"update"}
  /\ BackToUser
  /\ UNCHANGED <<slotVars, faults, kind, hint, wspace, ran, rounds>>

(* The kernels of a run that could be made and enqueued.  Errors are not   *)
(* looked at: a program that is not built gives no kernel, a kernel that   *)
(* is not there gives no event, and a wait list without an event that it   *)
(* names is refused.  bad are the kernels whose launch fails.              *)
Made == {t \in act_inds : slot[t].clprog = "built"}
Enqueued(bad) == {t \in Made \ bad : WaitIndices(DOMAIN req, t) \subseteq Made \ bad}

MadeObjects(bad) == {<<"kernel", t>> : t \in Made} \cup {<<"event", t>> : t \in Enqueued(bad)}

Executed(bad) == [t \in Enqueued(bad) |-> slot[t].src]

(* A mutant: the last event is not waited for with a check.                *)
RunUnchecked(bad) ==
  /\ at = "run"
  /\ ran' = Executed(bad)
  /\ rounds' = rounds + 1
  /\ at' = "ran"
  /\ IF bad = {} THEN UNCHANGED faults ELSE Fault
  /\ UNCHANGED <<slotVars, kind, hint, wspace, alive, thrown, testing>>

(* Programs::run with times: the last event is waited for, and the kernels *)
(* and events are released.                                                *)
Run(bad) ==
  /\ at = "run"
  /\ LastOf(act_inds) \in Enqueued(bad)
  /\ ran' = Executed(bad)
  /\ rounds' = rounds + 1
  /\ at' = "ran"
  /\ IF bad = {} THEN UNCHANGED faults ELSE Fault
  /\ UNCHANGED <<slotVars, kind, hint, wspace, alive, thrown, testing>>

(* There is no last event: waiting for it throws, and the kernels and      *)
(* events made so far are not released.                                    *)
RunThrows(bad) ==
  /\ at = "run"
  /\ LastOf(act_inds) \notin Enqueued(bad)
  /\ IF bad = {} THEN UNCHANGED faults ELSE Fault
  /\ thrown' = thrown \cup {"run"}
  /\ at' = IF kind = "find" THEN "closing" ELSE "ready"
  /\ testing' = FALSE
  /\ alive' = (alive \cup MadeObjects(bad)) \ Events
  /\ UNCHANGED <<slotVars, kind, hint, wspace, ran, rounds>>

(* The kernels have executed, but their times cannot be read: they and     *)
(* their events, apart from the last, which true_core has, are left.       *)
UpdateTimesThrows ==
  /\ at = "run"
  /\ LastOf(act_inds) \in Enqueued({})
  /\ Fault
  /\ thrown' = thrown \cup {"run"}
  /\ at' = IF kind = "find" THEN "closing" ELSE "ready"
  /\ testing' = FALSE
  /\ alive' = (alive \cup MadeObjects({})) \ (Events \cup {<<"event", LastOf(act_inds)>>})
  /\ UNCHANGED <<slotVars, kind, hint, wspace, ran, rounds>>

(* The queue is flushed after every run.                                   *)
FlushThrows ==
  /\ at = "ran" /\ Fault
  /\ thrown' = thrown \cup {"flush"}
  /\ BackToUser
  /\ UNCHANGED <<slotVars, kind, hint, wspace, ran, rounds>>

(* true_core goes round, or its times are returned.                        *)
RunAgain ==
  /\ at = "ran" /\ rounds < MaxBenchmarks + 1
  /\ Goto("run", {})

(* accuracy_test reads C back, with an event that was never initialised    *)
(* either: as WriteThrows.                                                 *)
ReadThrows ==
  /\ at = "ran" /\ testing
  /\ Fault
  /\ at' \in {"ready", "undefined"}
  /\ thrown' = thrown \cup {"read"}
  /\ testing' = FALSE
  /\ alive' = alive \ Events
  /\ UNCHANGED <<slotVars, kind, hint, wspace, ran, rounds>>

(* The end of a benchmark, and of an accuracy test: C has been read back,  *)
(* and the comparison may throw.                                           *)
ReturnTimes ==
  /\ at = "ran"
  /\ IF testing THEN \/ BackToUser /\ UNCHANGED thrown
                     \/ BackToUser /\ thrown' = thrown \cup {"accuracy"}
     ELSE /\ at' = "ready" /\ UNCHANGED <<testing, alive, thrown>>
  /\ UNCHANGED <<slotVars, faults, kind, hint, wspace, ran, rounds>>

(* Every destructor: programs, the copy, memory, queue and context.        *)
Close ==
  /\ at \in {"ready", "closing"} /\ ~testing
  /\ at' = "gone"
  /\ progs' = [t \in KType |-> progs[t] - (IF slot[t].clprog = "none" THEN 0 ELSE 1)]
  /\ slot' = [t \in KType |-> EmptySlot]
  /\ alive' = alive \ Owned
  /\ UNCHANGED <<req, act_inds, build, status, late, faults, kind, hint, wspace,
                 thrown, testing, ran, rounds>>

-----------------------------------------------------------------------------

Update == UpdateStep /\ UNCHANGED sessionVars

Next ==
  \/ UnknownFloatThrows \/ PlatformThrows \/ SetPlatform
  \/ DeviceThrows \/ SetQueue \/ SizesThrow \/ SetHostMatrices
  \/ MakeMemory \/ MemoryThrows \/ MakeTinyZero
  \/ CopyC \/ CopyThrows \/ FinishTinyZero \/ TinyZeroThrows
  \/ BeginAccuracyTest \/ WriteThrows \/ \E r \in Requests : Benchgemm(r)
  \/ BenchgemmThrows
  \/ Update \/ UpdateReturns \/ UpdateThrows
  \/ \E bad \in SUBSET act_inds : Run(bad) \/ RunThrows(bad)
  \/ UpdateTimesThrows \/ FlushThrows \/ RunAgain
  \/ ReadThrows \/ ReturnTimes \/ Close

(* The clock runs, and the host that waits for a build goes on.            *)
(* clBuildProgram need not return.                                         *)
Fairness ==
  /\ WF_vars(TimePasses /\ UNCHANGED sessionVars)
  /\ WF_vars(WaitFor /\ UNCHANGED sessionVars)
  /\ WF_vars(Test /\ UNCHANGED sessionVars)
  /\ WF_vars(Join /\ UNCHANGED sessionVars)
  /\ WF_vars((BuildSucceeded \/ BuildFailed) /\ UNCHANGED sessionVars)

Spec == Init /\ [][Next]_vars /\ Fairness

-----------------------------------------------------------------------------

Places == {"start", "device", "host", "memory", "tinyzero", "ready", "next", "create",
           "build", "wait", "test", "join", "collect", "failed", "run", "ran",
           "closing", "gone", "undefined"}

(* Every variable has its type.                                            *)
TypeOK ==
  /\ SlotsTypeOK
  /\ at \in Places
  /\ kind \in {"TinyOne", "find"} /\ hint \in [pla : Hints, dev : Hints]
  /\ wspace \in BOOLEAN
  /\ alive \subseteq Objects
  /\ thrown \subseteq {"start", "platform", "device", "host", "memory", "copy", "tinyzero",
                       "write", "check", "update", "run", "flush", "read", "accuracy"}
  /\ testing \in BOOLEAN
  /\ DOMAIN ran \subseteq KType /\ \A t \in DOMAIN ran : ran[t] \in Sources
  /\ rounds \in 0 .. MaxBenchmarks + 1

(* Program::update: a slot that holds a program stores the source that     *)
(* program was made from, whatever was thrown, so that comparing sources   *)
(* can tell the programs apart.                                            *)
SourceOfSlot == \A t \in KType : slot[t].clprog # "none" => slot[t].src = slot[t].kernstr

(* cl_build_program gives the building thread references to its own        *)
(* parameters.  They outlive the thread, even when the wait is given up.   *)
BuildInsideCall == build = "running" => at \in {"wait", "test", "join"}

(* What is left when the objects are gone.  The destructors release        *)
(* everything but this: a context when the constructor of the queue threw, *)
(* the kernels and events of a run that threw, the event of get_copy, and  *)
(* the copy when get_copy threw.                                           *)
LeftOver ==
  at = "gone" =>
    /\ \A t \in KType : progs[t] = 0
    /\ alive \subseteq (IF "device" \in thrown THEN {<<"context">>} ELSE {})
                       \cup (IF "run" \in thrown THEN Kernels ELSE {})
                       \cup (IF kind = "find" THEN {<<"copy event">>} ELSE {})
                       \cup (IF "copy" \in thrown THEN {<<"copy">>} ELSE {})

(* Times are returned only for a run in which every kernel of the request  *)
(* executed, compiled from the source of the request: whatever failed in   *)
(* this or in an earlier benchmark on the same slots.                      *)
TimesAreOfRequest == at = "ran" => ran = req

(* cl_build_program stops looking at a build in the end, even one that     *)
(* never returns.  It itself returns or throws only if the build does:     *)
(* after the time limit, the destructor of the future waits for the thread.*)
BuildReturns ==
  /\ (at \in {"wait", "test"}) ~> (at \notin {"wait", "test"})
  /\ []<>(build # "running") =>
       (at \in {"wait", "test", "join", "collect"}) ~> (at \in {"next", "failed"})

(* programs.cpp:27 says that no update is needed when the source is the    *)
(* one that is stored: the program that is kept is one that can be run.    *)
NoUpdateNeeded ==
  at = "next" /\ act_inds # DOMAIN req /\ Unchanged(Turn) => slot[Turn].clprog = "built"
=============================================================================
