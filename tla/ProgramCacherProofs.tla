------------------------- MODULE ProgramCacherProofs -------------------------
(***************************************************************************)
(* Theorems about ProgramCacher, for any threads, geometries, contexts,    *)
(* queues, solutions and limits.                                           *)
(***************************************************************************)
EXTENDS ProgramCacher, KernelGraphProofs

(* The kernels of a key: at least the main one.                            *)
LEMMA BlobsType ==
  ASSUME NEW k
  PROVE  BlobsOfKey(k) \subseteq KType /\ BlobsOfKey(k) # {}
BY DEF BlobsOfKey, Blobs, BundleOf, KType

(* The key of a well-formed call is a key.                                 *)
LEMMA KeyType ==
  ASSUME NEW c \in Call
  PROVE  KeyOf(c) \in Key /\ ContextOf[c.queue] \in Contexts
BY QueuesAssumption DEF Call, KeyOf, Key

(* A call that begins has the types it should.                             *)
LEMMA NewCallType ==
  ASSUME NEW p \in Problems, NEW id \in Int
  PROVE  NewCall(p, id) \in Call
BY QueuesAssumption DEF Call, NewCall

(* No thread has called, and no program is cached.                         *)
LEMMA InitIInv == Init => IInv
<1> SUFFICES ASSUME Init PROVE IInv
  OBVIOUS
<1> DEFINE p0 == CHOOSE p \in Problems : TRUE
<1>1. p0 \in Problems
  BY QueuesAssumption
<1>2. NewCall(p0, -1) \in Call
  BY <1>1, NewCallType
<1>3. call = [t \in Threads |-> NewCall(p0, -1)]
  BY DEF Init
<1>4. TypeOK
  <2>1. program_cache \in [0 .. MaxCacheSize - 1 -> Programs]
    BY DEF Init, Programs, Fresh
  <2>2. call \in [Threads -> Call]
    BY <1>2, <1>3
  <2>3. calls \in [Threads -> 0 .. MaxCalls] /\ current_ID \in Nat
    BY LimitAssumption DEF Init
  <2> QED BY <2>1, <2>2, <2>3 DEF Init, TypeOK, PC, Result, NoResult
<1>5. \A t \in Threads : /\ pc[t] = "idle" /\ result[t].status = "none" 
                         /\ ~call[t].own /\ ~call[t].settled
  BY <1>3 DEF Init, NewCall, NoResult
<1>6. DOMAIN IDs = {} /\ known = {} /\ mutt = NoThread
  BY DEF Init
<1>7. ProgramsMatch
  BY <1>5, <1>6 DEF Init, ProgramsMatch, Fresh, Builds, Building
<1> QED BY <1>4, <1>5, <1>6, <1>7, ThreadsAssumption
        DEF IInv, MutexHeld, CallKnown, MapInjective, MapMatches, OneOwner, GoodCalls,
            KnownPublished, UsedPublished, BuilderRunsItsKernels,
            SettledCallsRunTheirKernels, CriticalSection, Building

-----------------------------------------------------------------------------
(* Every action of a thread preserves IInv. *)

(* A call begins with what it is given.                                    *)
LEMMA CallStep ==
  ASSUME IInv, NEW t \in Threads, NEW c \in Call,
         StartCall(t, c), ~c.own,
         \/ pc'[t] = "acquire" /\ ~c.settled
         \/ /\ pc'[t] = "args"
            /\ c.id \in 0 .. MaxCacheSize - 1
            /\ \E k \in DOMAIN IDs : IDs[k] = c.id
            /\ c.settled => Settled(c),
         \E to \in PC : Goto(t, to)
  PROVE  IInv'
<1> USE DEF StartCall, Goto
<1>1. TypeOK'
  <2>1. calls' \in [Threads -> 0 .. MaxCalls]
    BY LimitAssumption DEF IInv, TypeOK
  <2>2. pc' \in [Threads -> PC] /\ call' \in [Threads -> Call]
    BY DEF IInv, TypeOK
  <2>3. result' \in [Threads -> Result]
    BY DEF IInv, TypeOK, Result, NoResult
  <2> QED BY <2>1, <2>2, <2>3 DEF IInv, TypeOK
<1>2. MutexHeld'
  BY DEF IInv, TypeOK, MutexHeld, CriticalSection
<1>3. CallKnown'
  BY DEF IInv, TypeOK, CallKnown, Building, NoResult
<1>4. MapInjective'
  BY DEF IInv, MapInjective
<1>5. MapMatches'
  BY DEF IInv, TypeOK, MapMatches, KeyOf
<1>6. OneOwner'
  BY DEF IInv, TypeOK, OneOwner, Building
<1>7. ProgramsMatch'
  BY DEF IInv, TypeOK, ProgramsMatch, Builds, Building, BlobsOf, KeyOf
<1>8. GoodCalls'
  BY DEF IInv, TypeOK, GoodCalls, Good, Settled, Complete, KeyOf
<1>9. KnownPublished' /\ UsedPublished'
  BY DEF IInv, TypeOK, KnownPublished, UsedPublished
<1>10. BuilderRunsItsKernels'
  BY DEF IInv, TypeOK, BuilderRunsItsKernels, BlobsOf, KeyOf, NoResult
<1>11. SettledCallsRunTheirKernels'
  BY DEF IInv, TypeOK, SettledCallsRunTheirKernels, BlobsOf, KeyOf, NoResult
<1> QED BY <1>1, <1>2, <1>3, <1>4, <1>5, <1>6, <1>7, <1>8, <1>9, <1>10, <1>11 DEF IInv

(* A thread gets the lock only where no other has it.                      *)
LEMMA AcquireStep == ASSUME IInv, NEW t \in Threads, Acquire(t) PROVE IInv'
<1> USE DEF Acquire, Goto
<1>1. TypeOK'
  BY DEF IInv, TypeOK, PC, CriticalSection
<1>2. MutexHeld'
  BY ThreadsAssumption DEF IInv, TypeOK, MutexHeld, CriticalSection
<1>3. CallKnown'
  BY DEF IInv, TypeOK, CallKnown, Building
<1>4. MapInjective'
  BY DEF IInv, MapInjective
<1>5. MapMatches'
  BY DEF IInv, TypeOK, MapMatches, KeyOf
<1>6. OneOwner'
  BY DEF IInv, TypeOK, OneOwner, Building
<1>7. ProgramsMatch'
  BY DEF IInv, TypeOK, ProgramsMatch, Builds, Building, BlobsOf, KeyOf
<1>8. GoodCalls'
  BY DEF IInv, TypeOK, GoodCalls, Good, Settled, Complete, KeyOf
<1>9. KnownPublished'
  BY DEF IInv, KnownPublished
<1>10. UsedPublished'
  BY DEF IInv, TypeOK, UsedPublished
<1>11. BuilderRunsItsKernels'
  BY DEF IInv, TypeOK, BuilderRunsItsKernels, BlobsOf, KeyOf
<1>12. SettledCallsRunTheirKernels'
  BY DEF IInv, TypeOK, SettledCallsRunTheirKernels, BlobsOf, KeyOf
<1> QED BY <1>1, <1>2, <1>3, <1>4, <1>5, <1>6, <1>7, <1>8, <1>9, <1>10, <1>11, <1>12 DEF IInv

(* A key that is known has an ID that was given out for it.                *)
LEMMA HitStep == ASSUME IInv, NEW t \in Threads, Hit(t) PROVE IInv'
<1> USE DEF Hit, Goto

<1> DEFINE c == [call[t] EXCEPT !.id = IDs[KeyOf(call[t])]]
           d == [c EXCEPT !.settled = Settled(c)]
<1>a. /\ d \in Call /\ ~d.own /\ d.args = call[t].args
      /\ d.id = IDs[KeyOf(call[t])] /\ d.id \in 0 .. MaxCacheSize - 1
      /\ d.settled <=> Settled(d)
      /\ d.geom = call[t].geom /\ d.beta = call[t].beta /\ d.queue = call[t].queue
  <2>1. call[t] \in Call /\ ~call[t].own
    BY DEF IInv, TypeOK, CallKnown
  <2>2. IDs[KeyOf(call[t])] \in 0 .. MaxCacheSize - 1
    BY DEF IInv, TypeOK
  <2>3. /\ c \in Call /\ ~c.own /\ c.id = IDs[KeyOf(call[t])] /\ c.args = call[t].args
        /\ c.geom = call[t].geom /\ c.beta = call[t].beta /\ c.queue = call[t].queue
    BY <2>1, <2>2 DEF Call
  <2>4. Settled(c) \in BOOLEAN
    BY DEF Settled
  <2> HIDE DEF c
  <2>5. d \in Call /\ d.settled = Settled(c)
    BY <2>3, <2>4 DEF Call
  <2>6. /\ ~d.own /\ d.id = c.id /\ d.args = c.args
        /\ d.geom = c.geom /\ d.beta = c.beta /\ d.queue = c.queue
    BY <2>3 DEF Call
  <2> QED BY <2>2, <2>3, <2>5, <2>6 DEF Settled
<1>b. call' = [call EXCEPT ![t] = d] /\ result[t].status = "none"
  BY DEF IInv, CallKnown
<1>c. /\ KeyOf(call[t]) \in DOMAIN IDs /\ pc[t] = "lookup" /\ mutt' = NoThread
      /\ pc' = [pc EXCEPT ![t] = "args"]
      /\ UNCHANGED <<IDs, current_ID, program_cache, result, calls, known>>
  OBVIOUS
<1> HIDE DEF c, d, Hit
<1>1. TypeOK'
  BY <1>a, <1>b, <1>c DEF IInv, TypeOK, PC, CriticalSection
<1>2. MutexHeld'
  BY <1>c, ThreadsAssumption DEF IInv, TypeOK, MutexHeld, CriticalSection
<1>3. CallKnown'
  BY <1>a, <1>b, <1>c DEF IInv, TypeOK, CallKnown, Building
<1>4. MapInjective'
  BY <1>c DEF IInv, MapInjective
<1>5. MapMatches'
  BY <1>a, <1>b, <1>c DEF IInv, TypeOK, MapMatches, KeyOf
<1>6. OneOwner'
  <2>1. \A u \in Threads : call'[u].own => call'[u] = call[u] /\ u # t
    BY <1>a, <1>b DEF IInv, TypeOK
  <2>2. \A u \in Threads : pc'[u] \in Building => u # t /\ pc[u] \in Building /\ call'[u] = call[u]
    BY <1>b, <1>c DEF IInv, TypeOK, Building
  <2> QED BY <2>1, <2>2, <1>c DEF IInv, OneOwner
<1>7. ProgramsMatch'
  BY <1>a, <1>b, <1>c DEF IInv, TypeOK, ProgramsMatch, Builds, Building, BlobsOf, KeyOf
<1>8. GoodCalls'
  <2>1. \A u \in Threads \ {t} : call'[u] = call[u]
    BY <1>b
  <2>2. call'[t] = d
    BY <1>b DEF IInv, TypeOK
  <2>3. d.settled => Good(t)'
    BY <2>2, <1>a, <1>c DEF Good, Settled
  <2>4. \A u \in Threads \ {t} : Good(u)' <=> Good(u)
    BY <2>1, <1>c DEF Good, Settled
  <2> QED BY <2>1, <2>2, <2>3, <2>4, <1>a, <1>c DEF IInv, TypeOK, GoodCalls
<1>9. KnownPublished'
  BY <1>c DEF IInv, KnownPublished
<1>10. UsedPublished'
  BY <1>a, <1>b, <1>c DEF IInv, TypeOK, UsedPublished
<1>11. BuilderRunsItsKernels'
  BY <1>a, <1>b, <1>c DEF IInv, TypeOK, BuilderRunsItsKernels, BlobsOf, KeyOf
<1>12. SettledCallsRunTheirKernels'
  BY <1>a, <1>b, <1>c DEF IInv, TypeOK, SettledCallsRunTheirKernels, BlobsOf, KeyOf
<1> QED BY <1>1, <1>2, <1>3, <1>4, <1>5, <1>6, <1>7, <1>8, <1>9, <1>10, <1>11, <1>12 DEF IInv

(* A key that is not known is entered by nobody else before the lock is    *)
(* given back.                                                             *)
LEMMA MissStep == ASSUME IInv, NEW t \in Threads, Miss(t) PROVE IInv'
<1> USE DEF Miss, Goto
<1>1. TypeOK'
  BY DEF IInv, TypeOK, PC, CriticalSection
<1>2. MutexHeld'
  BY ThreadsAssumption DEF IInv, TypeOK, MutexHeld, CriticalSection
<1>3. CallKnown'
  BY DEF IInv, TypeOK, CallKnown, Building
<1>4. MapInjective'
  BY DEF IInv, MapInjective
<1>5. MapMatches'
  BY DEF IInv, TypeOK, MapMatches, KeyOf
<1>6. OneOwner'
  BY DEF IInv, TypeOK, OneOwner, Building
<1>7. ProgramsMatch'
  BY DEF IInv, TypeOK, ProgramsMatch, Builds, Building, BlobsOf, KeyOf
<1>8. GoodCalls'
  BY DEF IInv, TypeOK, GoodCalls, Good, Settled, Complete, KeyOf
<1>9. KnownPublished'
  BY DEF IInv, KnownPublished
<1>10. UsedPublished'
  BY DEF IInv, TypeOK, UsedPublished
<1>11. BuilderRunsItsKernels'
  BY DEF IInv, TypeOK, BuilderRunsItsKernels, BlobsOf, KeyOf
<1>12. SettledCallsRunTheirKernels'
  BY DEF IInv, TypeOK, SettledCallsRunTheirKernels, BlobsOf, KeyOf
<1> QED BY <1>1, <1>2, <1>3, <1>4, <1>5, <1>6, <1>7, <1>8, <1>9, <1>10, <1>11, <1>12 DEF IInv

(* A solution that is not found leaves the tables as they were.            *)
LEMMA SolveThrowsStep == ASSUME IInv, NEW t \in Threads, SolveThrows(t) PROVE IInv'
<1> USE DEF SolveThrows, Goto, EndCall
<1>1. TypeOK'
  BY DEF IInv, TypeOK, PC, CriticalSection, Result, KType
<1>2. MutexHeld'
  BY ThreadsAssumption DEF IInv, TypeOK, MutexHeld, CriticalSection
<1>3. CallKnown'
  BY DEF IInv, TypeOK, CallKnown, Building
<1>4. MapInjective'
  BY DEF IInv, MapInjective
<1>5. MapMatches'
  BY DEF IInv, TypeOK, MapMatches, KeyOf
<1>6. OneOwner'
  BY DEF IInv, TypeOK, OneOwner, Building
<1>7. ProgramsMatch'
  BY DEF IInv, TypeOK, ProgramsMatch, Builds, Building, BlobsOf, KeyOf
<1>8. GoodCalls'
  BY DEF IInv, TypeOK, GoodCalls, Good, Settled, Complete, KeyOf
<1>9. KnownPublished'
  BY DEF IInv, KnownPublished
<1>10. UsedPublished'
  BY DEF IInv, TypeOK, UsedPublished
<1>11. BuilderRunsItsKernels'
  BY DEF IInv, TypeOK, BuilderRunsItsKernels, BlobsOf, KeyOf
<1>12. SettledCallsRunTheirKernels'
  BY DEF IInv, TypeOK, SettledCallsRunTheirKernels, BlobsOf, KeyOf, CallKnown
<1> QED BY <1>1, <1>2, <1>3, <1>4, <1>5, <1>6, <1>7, <1>8, <1>9, <1>10, <1>11, <1>12 DEF IInv

(* A solution is found with the lock held.                                 *)
LEMMA SolveStep == ASSUME IInv, NEW t \in Threads, Solve(t) PROVE IInv'
<1> USE DEF Solve, Goto
<1>1. TypeOK'
  BY DEF IInv, TypeOK, PC, CriticalSection
<1>2. MutexHeld'
  BY ThreadsAssumption DEF IInv, TypeOK, MutexHeld, CriticalSection
<1>3. CallKnown'
  BY DEF IInv, TypeOK, CallKnown, Building
<1>4. MapInjective'
  BY DEF IInv, MapInjective
<1>5. MapMatches'
  BY DEF IInv, TypeOK, MapMatches, KeyOf
<1>6. OneOwner'
  BY DEF IInv, TypeOK, OneOwner, Building
<1>7. ProgramsMatch'
  BY DEF IInv, TypeOK, ProgramsMatch, Builds, Building, BlobsOf, KeyOf
<1>8. GoodCalls'
  BY DEF IInv, TypeOK, GoodCalls, Good, Settled, Complete, KeyOf
<1>9. KnownPublished'
  BY DEF IInv, KnownPublished
<1>10. UsedPublished'
  BY DEF IInv, TypeOK, UsedPublished
<1>11. BuilderRunsItsKernels'
  BY DEF IInv, TypeOK, BuilderRunsItsKernels, BlobsOf, KeyOf
<1>12. SettledCallsRunTheirKernels'
  BY DEF IInv, TypeOK, SettledCallsRunTheirKernels, BlobsOf, KeyOf
<1> QED BY <1>1, <1>2, <1>3, <1>4, <1>5, <1>6, <1>7, <1>8, <1>9, <1>10, <1>11, <1>12 DEF IInv

(* At the limit nothing is given out.                                      *)
LEMMA LimitThrowsStep == ASSUME IInv, NEW t \in Threads, LimitThrows(t) PROVE IInv'
<1> USE DEF LimitThrows, Goto, EndCall
<1>1. TypeOK'
  BY DEF IInv, TypeOK, PC, CriticalSection, Result, KType
<1>2. MutexHeld'
  BY ThreadsAssumption DEF IInv, TypeOK, MutexHeld, CriticalSection
<1>3. CallKnown'
  BY DEF IInv, TypeOK, CallKnown, Building
<1>4. MapInjective'
  BY DEF IInv, MapInjective, TypeOK
<1>5. MapMatches'
  BY DEF IInv, TypeOK, MapMatches, KeyOf
<1>6. OneOwner'
  BY DEF IInv, TypeOK, OneOwner, Building
<1>7. ProgramsMatch'
  BY DEF IInv, TypeOK, ProgramsMatch, Builds, Building, BlobsOf, KeyOf
<1>8. GoodCalls'
  BY DEF IInv, TypeOK, GoodCalls, Good, Settled, Complete, KeyOf
<1>9. KnownPublished'
  BY DEF IInv, KnownPublished
<1>10. UsedPublished'
  BY DEF IInv, TypeOK, UsedPublished
<1>11. BuilderRunsItsKernels'
  BY DEF IInv, TypeOK, BuilderRunsItsKernels, BlobsOf, KeyOf
<1>12. SettledCallsRunTheirKernels'
  BY DEF IInv, TypeOK, SettledCallsRunTheirKernels, BlobsOf, KeyOf, CallKnown
<1> QED BY <1>1, <1>2, <1>3, <1>4, <1>5, <1>6, <1>7, <1>8, <1>9, <1>10, <1>11, <1>12 DEF IInv

(* The ID that is given out is the next.                                   *)
LEMMA AllotStep == ASSUME IInv, NEW t \in Threads, Allot(t) PROVE IInv'
<1> USE DEF Allot, Goto

<1> DEFINE c == [call[t] EXCEPT !.id = current_ID, !.own = TRUE]
           p == Fresh(ContextOf[call[t].queue])
<1>a. /\ c \in Call /\ c.own /\ ~c.settled /\ c.args = call[t].args
      /\ c.id = current_ID
      /\ c.geom = call[t].geom /\ c.beta = call[t].beta /\ c.queue = call[t].queue
  BY DEF IInv, TypeOK, CallKnown, Call
<1>b. call' = [call EXCEPT ![t] = c] /\ result[t].status = "none"
  BY DEF IInv, TypeOK, CallKnown, Call
<1>c. current_ID \in 0 .. MaxCacheSize - 2 /\ current_ID \in 0 .. MaxCacheSize - 1
  BY LimitAssumption DEF IInv, TypeOK
<1>d. /\ p \in Programs /\ p.kbs = {} /\ p.act = {} /\ p.ctx = ContextOf[c.queue]
      /\ program_cache' = [program_cache EXCEPT ![current_ID] = p]
  BY <1>a, KeyType DEF Fresh, Programs
<1>e. /\ \A k \in DOMAIN IDs : IDs[k] < current_ID
      /\ \A u \in Threads : call[u].own => call[u].id < current_ID
  BY DEF IInv, MapInjective, OneOwner
<1>f. /\ pc[t] = "allot" /\ pc' = [pc EXCEPT ![t] = "publish"]
      /\ current_ID' = current_ID + 1
      /\ UNCHANGED <<mutt, IDs, result, calls, known>>
  OBVIOUS
<1> HIDE DEF c, p, Allot, Goto
<1>1. TypeOK'
  <2>1. program_cache' \in [0 .. MaxCacheSize - 1 -> Programs]
    BY <1>f, <1>c, <1>d DEF IInv, TypeOK
  <2>2. call' \in [Threads -> Call] /\ pc' \in [Threads -> PC]
    BY <1>f, <1>a, <1>b DEF IInv, TypeOK, PC, CriticalSection
  <2> QED BY <1>f, <2>1, <2>2, <1>c DEF IInv, TypeOK
<1>2. MutexHeld'
  BY <1>f, ThreadsAssumption DEF IInv, TypeOK, MutexHeld, CriticalSection
<1>3. CallKnown'
  BY <1>f, <1>a, <1>b, <1>c DEF IInv, TypeOK, CallKnown, Building
<1>4. MapInjective'
  BY <1>f, <1>c, <1>e DEF IInv, TypeOK, MapInjective
<1>5. MapMatches'
  BY <1>f, <1>a, <1>b, <1>e DEF IInv, TypeOK, MapMatches, KeyOf
<1>6. OneOwner'
  BY <1>f, <1>a, <1>b, <1>c, <1>e DEF IInv, TypeOK, OneOwner, Building
<1>7. ProgramsMatch'
  <2>1. /\ DOMAIN program_cache' = DOMAIN program_cache
        /\ program_cache'[current_ID] = p
        /\ \A i \in DOMAIN program_cache : i # current_ID => program_cache'[i] = program_cache[i]
    BY <1>f, <1>c, <1>d DEF IInv, TypeOK
  <2>2. \A i \in DOMAIN program_cache' : program_cache'[i].act \subseteq program_cache'[i].kbs
    BY <1>f, <2>1, <1>d DEF IInv, ProgramsMatch
  <2>3. \A k \in DOMAIN IDs : program_cache'[IDs[k]] = program_cache[IDs[k]]
    BY <1>f, <2>1, <1>c, <1>e DEF IInv, TypeOK
  <2>4. \A u \in Threads \ {t} : Builds(u)' =>
          /\ Builds(u) /\ call'[u] = call[u] /\ pc'[u] = pc[u]
          /\ program_cache'[call[u].id] = program_cache[call[u].id]
    BY <1>f, <2>1, <1>b, <1>e DEF IInv, TypeOK, Builds, OneOwner, CallKnown
  <2>5. call'[t] = c /\ pc'[t] = "publish"
    BY <1>f, <1>b DEF IInv, TypeOK
  <2>6. \A u \in Threads : Builds(u)' =>
          /\ program_cache'[call'[u].id].ctx = ContextOf[call'[u].queue]
          /\ program_cache'[call'[u].id].kbs = IF pc'[u] = "compile" THEN BlobsOf(call'[u]) ELSE {}
    <3>1. \A u \in Threads \ {t} : Builds(u)' =>
            /\ program_cache'[call'[u].id].ctx = ContextOf[call'[u].queue]
            /\ program_cache'[call'[u].id].kbs = IF pc'[u] = "compile" THEN BlobsOf(call'[u]) ELSE {}
      <4> SUFFICES ASSUME NEW u \in Threads \ {t}, Builds(u)'
                   PROVE  /\ program_cache'[call'[u].id].ctx = ContextOf[call'[u].queue]
                          /\ program_cache'[call'[u].id].kbs =
                               IF pc'[u] = "compile" THEN BlobsOf(call'[u]) ELSE {}
        OBVIOUS
      <4>1. /\ Builds(u) /\ call'[u] = call[u] /\ pc'[u] = pc[u]
            /\ program_cache'[call[u].id] = program_cache[call[u].id]
        BY <2>4 DEF Builds
      <4>2. /\ program_cache[call[u].id].ctx = ContextOf[call[u].queue]
            /\ program_cache[call[u].id].kbs = IF pc[u] = "compile" THEN BlobsOf(call[u]) ELSE {}
        BY <4>1 DEF IInv, ProgramsMatch
      <4> QED BY <4>1, <4>2
    <3>2. /\ program_cache'[call'[t].id].ctx = ContextOf[call'[t].queue]
          /\ program_cache'[call'[t].id].kbs = {} /\ pc'[t] # "compile"
      BY <1>f, <2>1, <2>5, <1>a, <1>d
    <3> QED BY <3>1, <3>2
  <2> QED BY <1>f, <2>2, <2>3, <2>6 DEF IInv, ProgramsMatch, BlobsOf, KeyOf
<1>8. GoodCalls'
  <2>1. \A u \in Threads \ {t} : /\ call'[u] = call[u] /\ pc'[u] = pc[u]
                                 /\ Good(u) => program_cache'[call[u].id] = program_cache[call[u].id]
    BY <1>f, <1>b, <1>c, <1>d, <1>e DEF IInv, TypeOK, Good
  <2>2. call'[t] = c /\ pc'[t] = "publish"
    BY <1>f, <1>b DEF IInv, TypeOK
  <2>3. \A u \in Threads \ {t} : Good(u) => Good(u)'
    BY <1>f, <2>1 DEF Good, Settled
  <2>4. \A u \in Threads \ {t} :
          /\ call[u].settled \/ (call[u].own /\ pc[u] \in {"args", "run"})
               => Good(u)' /\ program_cache'[call[u].id] = program_cache[call[u].id]
          /\ call[u].own => ~call[u].settled
          /\ pc[u] = "run" /\ (call[u].settled \/ call[u].own)
               => call[u].args = program_cache[call[u].id].kbs
    BY <1>f, <2>1, <2>3 DEF IInv, GoodCalls, Good, Settled, Complete, KeyOf
  <2>5. \A u \in Threads \ {t} :
          /\ call'[u].settled \/ (call'[u].own /\ pc'[u] \in {"args", "run"}) => Good(u)'
          /\ call'[u].own => ~call'[u].settled
          /\ pc'[u] = "run" /\ (call'[u].settled \/ call'[u].own)
               => call'[u].args = program_cache'[call'[u].id].kbs
    <3>1. \A u \in Threads \ {t} : call'[u] = call[u] /\ pc'[u] = pc[u]
      BY <2>1
    <3> QED BY <3>1, <2>4 DEF Good, Settled, Complete, KeyOf
  <2>6. ~call'[t].settled /\ pc'[t] \notin {"args", "run"}
    BY <2>2, <1>a
  <2> QED BY <2>5, <2>6 DEF GoodCalls, Good, Settled, Complete, KeyOf
<1>9. KnownPublished'
  BY <1>f DEF IInv, KnownPublished
<1>10. UsedPublished'
  BY <1>a, <1>b, <1>f DEF IInv, TypeOK, UsedPublished
<1>11. BuilderRunsItsKernels'
  BY <1>f, <1>a, <1>b DEF IInv, TypeOK, BuilderRunsItsKernels, BlobsOf, KeyOf
<1>12. SettledCallsRunTheirKernels'
  <2>1. \A u \in Threads : call[u].settled => program_cache'[call[u].id] = program_cache[call[u].id]
    BY <1>f, <1>c, <1>d, <1>e DEF IInv, TypeOK, GoodCalls, Good
  <2> QED BY <1>f, <2>1, <1>a, <1>b DEF IInv, TypeOK, SettledCallsRunTheirKernels, BlobsOf, KeyOf
<1> QED BY <1>1, <1>2, <1>3, <1>4, <1>5, <1>6, <1>7, <1>8, <1>9, <1>10, <1>11, <1>12 DEF IInv

(* The key is entered with the ID that was given out for it.               *)
LEMMA PublishStep == ASSUME IInv, NEW t \in Threads, Publish(t) PROVE IInv'
<1> USE DEF Publish, Goto

<1> DEFINE k0 == KeyOf(call[t])
<1>a. k0 \in Key /\ k0 \notin DOMAIN IDs /\ call[t] \in Call
  BY KeyType DEF IInv, TypeOK, MapMatches
<1>b. /\ DOMAIN IDs' = DOMAIN IDs \cup {k0} /\ IDs'[k0] = call[t].id
      /\ \A k \in DOMAIN IDs : IDs'[k] = IDs[k]
  BY <1>a
<1>c. /\ call[t].own /\ call[t].id \in 0 .. MaxCacheSize - 2 /\ call[t].id < current_ID
      /\ call[t].id \in 0 .. MaxCacheSize - 1
      /\ \A k \in DOMAIN IDs : IDs[k] # call[t].id
      /\ program_cache[call[t].id].kbs = {}
  BY LimitAssumption DEF IInv, TypeOK, OneOwner, MapMatches, ProgramsMatch, Builds, Building
<1>d. \A u \in Threads \ {t} : pc[u] \notin CriticalSection
  BY DEF IInv, MutexHeld, CriticalSection
<1> HIDE DEF k0
<1>1. TypeOK'
  BY <1>a, <1>b, <1>c DEF IInv, TypeOK, PC, CriticalSection
<1>2. MutexHeld'
  BY ThreadsAssumption DEF IInv, TypeOK, MutexHeld, CriticalSection
<1>3. CallKnown'
  BY DEF IInv, TypeOK, CallKnown, Building
<1>4. MapInjective'
  BY <1>b, <1>c, LimitAssumption DEF IInv, TypeOK, MapInjective
<1>5. MapMatches'
  BY <1>a, <1>b, <1>c, <1>d DEF IInv, TypeOK, MapMatches, k0, CriticalSection
<1>6. OneOwner'
  BY DEF IInv, TypeOK, OneOwner, Building
<1>7. ProgramsMatch'
  BY <1>b, <1>c DEF IInv, TypeOK, ProgramsMatch, Builds, Building, BlobsOf
<1>8. GoodCalls'
  BY <1>b DEF IInv, TypeOK, GoodCalls, Good, Settled, Complete
<1>9. KnownPublished'
  BY <1>b DEF IInv, KnownPublished
<1>10. UsedPublished'
  BY <1>b DEF IInv, TypeOK, UsedPublished
<1>11. BuilderRunsItsKernels'
  BY DEF IInv, TypeOK, BuilderRunsItsKernels, BlobsOf, KeyOf
<1>12. SettledCallsRunTheirKernels'
  <2>1. \A u \in Threads : call[u].settled => call[u].id # call[t].id
    BY <1>c DEF IInv, GoodCalls, Good
  <2> QED BY <2>1, <1>b DEF IInv, TypeOK, SettledCallsRunTheirKernels
<1> QED BY <1>1, <1>2, <1>3, <1>4, <1>5, <1>6, <1>7, <1>8, <1>9, <1>10, <1>11, <1>12 DEF IInv

(* The lock is given back by the thread that has it.                       *)
LEMMA UnlockStep == ASSUME IInv, NEW t \in Threads, Unlock(t) PROVE IInv'
<1> USE DEF Unlock, Goto
<1>1. TypeOK'
  BY DEF IInv, TypeOK, PC, CriticalSection
<1>2. MutexHeld'
  BY ThreadsAssumption DEF IInv, TypeOK, MutexHeld, CriticalSection
<1>3. CallKnown'
  BY DEF IInv, TypeOK, CallKnown, Building
<1>4. MapInjective'
  BY DEF IInv, MapInjective
<1>5. MapMatches'
  BY DEF IInv, TypeOK, MapMatches, KeyOf
<1>6. OneOwner'
  BY DEF IInv, TypeOK, OneOwner, Building
<1>7. ProgramsMatch'
  BY DEF IInv, TypeOK, ProgramsMatch, Builds, Building, BlobsOf, KeyOf
<1>8. GoodCalls'
  BY DEF IInv, TypeOK, GoodCalls, Good, Settled, Complete, KeyOf
<1>9. KnownPublished'
  BY DEF IInv, KnownPublished
<1>10. UsedPublished'
  BY DEF IInv, TypeOK, UsedPublished
<1>11. BuilderRunsItsKernels'
  BY DEF IInv, TypeOK, BuilderRunsItsKernels, BlobsOf, KeyOf
<1>12. SettledCallsRunTheirKernels'
  BY DEF IInv, TypeOK, SettledCallsRunTheirKernels, BlobsOf, KeyOf
<1> QED BY <1>1, <1>2, <1>3, <1>4, <1>5, <1>6, <1>7, <1>8, <1>9, <1>10, <1>11, <1>12 DEF IInv

(* The programs of an ID are made by the thread that has the ID.           *)
LEMMA BeginUpdateStep == ASSUME IInv, NEW t \in Threads, BeginUpdate(t) PROVE IInv'
<1> USE DEF BeginUpdate, Goto

<1> DEFINE i == call[t].id
           B == BlobsOf(call[t])
<1>a. i \in 0 .. MaxCacheSize - 1 /\ B \in SUBSET KType /\ B # {}
  BY BlobsType DEF IInv, CallKnown, Building, BlobsOf
<1>b. /\ program_cache'[i] = [ctx |-> program_cache[i].ctx, kbs |-> B, act |-> {}]
      /\ \A j \in 0 .. MaxCacheSize - 1 : j # i => program_cache'[j] = program_cache[j]
      /\ DOMAIN program_cache' = 0 .. MaxCacheSize - 1
  BY <1>a DEF IInv, TypeOK
<1>c. program_cache[i].kbs = {} /\ program_cache[i] \in Programs /\ ~Complete(program_cache[i])
  BY <1>a DEF IInv, TypeOK, ProgramsMatch, Builds, Building, Complete
<1>d. program_cache'[i].kbs = B /\ program_cache'[i].act = {} /\ program_cache'[i].ctx = program_cache[i].ctx
  BY <1>b
<1>e. /\ \A k \in DOMAIN IDs : IDs[k] = i => k = KeyOf(call[t])
      /\ call[t].own /\ \A u \in Threads : Builds(u) /\ u # t => call[u].id # i
  BY DEF IInv, MapInjective, MapMatches, OneOwner, Builds, Building
<1>f. \A u \in Threads : call[u].settled \/ (call[u].own /\ pc[u] \in {"args", "run"})
        => program_cache'[call[u].id] = program_cache[call[u].id]
  BY <1>b, <1>c DEF IInv, TypeOK, GoodCalls, Good, Settled, MapInjective
<1> HIDE DEF i, B
<1>1. TypeOK'
  <2>1. program_cache' \in [0 .. MaxCacheSize - 1 -> Programs]
    <3>1. program_cache'[i] \in Programs
      BY <1>a, <1>b, <1>c DEF Programs
    <3> QED BY <3>1, <1>a, <1>b DEF IInv, TypeOK
  <2> QED BY <2>1 DEF IInv, TypeOK, PC, CriticalSection
<1>2. MutexHeld'
  BY ThreadsAssumption DEF IInv, TypeOK, MutexHeld, CriticalSection
<1>3. CallKnown'
  BY DEF IInv, TypeOK, CallKnown, Building
<1>4. MapInjective'
  BY DEF IInv, MapInjective
<1>5. MapMatches'
  BY DEF IInv, TypeOK, MapMatches, KeyOf
<1>6. OneOwner'
  BY DEF IInv, TypeOK, OneOwner, Building
<1>7. ProgramsMatch'
  <2>1. \A j \in DOMAIN program_cache' : program_cache'[j].act \subseteq program_cache'[j].kbs
    BY <1>b, <1>d DEF IInv, TypeOK, ProgramsMatch
  <2>2. \A k \in DOMAIN IDs : program_cache'[IDs[k]].kbs \in {{}, BlobsOfKey(k)}
    BY <1>b, <1>d, <1>e DEF IInv, TypeOK, ProgramsMatch, B, BlobsOf
  <2>3. \A u \in Threads : Builds(u)' =>
           /\ program_cache'[call[u].id].ctx = ContextOf[call[u].queue]
           /\ program_cache'[call[u].id].kbs = IF pc'[u] = "compile" THEN BlobsOf(call[u]) ELSE {}
    <3> SUFFICES ASSUME NEW u \in Threads, Builds(u)'
                 PROVE  /\ program_cache'[call[u].id].ctx = ContextOf[call[u].queue]
                        /\ program_cache'[call[u].id].kbs = IF pc'[u] = "compile" THEN BlobsOf(call[u]) ELSE {}
      OBVIOUS
    <3>1. CASE u = t
      BY <3>1, <1>d DEF IInv, TypeOK, ProgramsMatch, Builds, Building, i, B
    <3>2. CASE u # t
      <4>1. Builds(u) /\ pc'[u] = pc[u] /\ call[u].id \in 0 .. MaxCacheSize - 1
        BY <3>2 DEF IInv, TypeOK, CallKnown, Builds
      <4>2. program_cache'[call[u].id] = program_cache[call[u].id]
        BY <4>1, <3>2, <1>b, <1>e
      <4> QED BY <4>1, <4>2 DEF IInv, ProgramsMatch
    <3> QED BY <3>1, <3>2
  <2> QED BY <2>1, <2>2, <2>3 DEF ProgramsMatch, BlobsOf, KeyOf
<1>8. GoodCalls'
  <2>1. \A u \in Threads :
          call[u].settled \/ (call[u].own /\ pc[u] \in {"args", "run"}) => Good(u) /\ Good(u)'
    BY <1>f DEF IInv, GoodCalls, Good, Settled, Complete, KeyOf
  <2>2. \A u \in Threads : pc'[u] \in {"args", "run"} => pc[u] = pc'[u]
    BY DEF IInv, TypeOK
  <2> QED BY <2>1, <2>2, <1>f DEF IInv, GoodCalls, Good, Settled, Complete, KeyOf
<1>9. KnownPublished'
  BY DEF IInv, KnownPublished
<1>10. UsedPublished'
  BY DEF IInv, TypeOK, UsedPublished
<1>11. BuilderRunsItsKernels'
  BY DEF IInv, TypeOK, BuilderRunsItsKernels, BlobsOf, KeyOf
<1>12. SettledCallsRunTheirKernels'
  BY <1>f DEF IInv, TypeOK, SettledCallsRunTheirKernels
<1> QED BY <1>1, <1>2, <1>3, <1>4, <1>5, <1>6, <1>7, <1>8, <1>9, <1>10, <1>11, <1>12 DEF IInv

(* A program that was compiled is one of the solution.                     *)
LEMMA CompileOkStep == ASSUME IInv, NEW t \in Threads, CompileOk(t) PROVE IInv'
<1> USE DEF CompileOk, Goto

<1> DEFINE i == call[t].id
           q == program_cache[i]
           n == NextOf(q.kbs, q.act)
<1>a. i \in 0 .. MaxCacheSize - 1 /\ q \in Programs
  BY DEF IInv, TypeOK, CallKnown, Building
<1>b. /\ q.kbs = BlobsOf(call[t]) /\ q.act \subseteq q.kbs /\ ~Complete(q)
      /\ q.ctx = ContextOf[call[t].queue]
  BY <1>a DEF IInv, TypeOK, ProgramsMatch, Builds, Building
<1>c. n \in q.kbs \ q.act
  BY <1>a, <1>b, BlobsType, NextOfType DEF Complete, Programs, BlobsOf
<1>d. /\ program_cache'[i] = [q EXCEPT !.act = q.act \cup {n}]
      /\ \A j \in 0 .. MaxCacheSize - 1 : j # i => program_cache'[j] = program_cache[j]
      /\ DOMAIN program_cache' = 0 .. MaxCacheSize - 1
  BY <1>a DEF IInv, TypeOK
<1>e. /\ program_cache'[i].kbs = q.kbs /\ program_cache'[i].act = q.act \cup {n}
      /\ program_cache'[i].ctx = q.ctx
  BY <1>a, <1>d DEF Programs
<1>f. \A u \in Threads : call[u].settled \/ (call[u].own /\ pc[u] \in {"args", "run"})
        => program_cache'[call[u].id] = program_cache[call[u].id]
  BY <1>b, <1>d DEF IInv, TypeOK, GoodCalls, Good, Settled, MapInjective
<1> HIDE DEF i, q, n
<1>1. TypeOK'
  <2>1. program_cache' \in [0 .. MaxCacheSize - 1 -> Programs]
    <3>1. program_cache'[i] \in Programs
      BY <1>a, <1>c, <1>d DEF Programs
    <3> QED BY <3>1, <1>a, <1>d DEF IInv, TypeOK
  <2> QED BY <2>1 DEF IInv, TypeOK, PC, CriticalSection
<1>2. MutexHeld'
  BY ThreadsAssumption DEF IInv, TypeOK, MutexHeld, CriticalSection
<1>3. CallKnown'
  BY DEF IInv, TypeOK, CallKnown, Building
<1>4. MapInjective'
  BY DEF IInv, MapInjective
<1>5. MapMatches'
  BY DEF IInv, TypeOK, MapMatches, KeyOf
<1>6. OneOwner'
  BY DEF IInv, TypeOK, OneOwner, Building
<1>7. ProgramsMatch'
  <2>1. \A j \in 0 .. MaxCacheSize - 1 : /\ program_cache'[j].kbs = program_cache[j].kbs
                                         /\ program_cache'[j].ctx = program_cache[j].ctx
    BY <1>d, <1>e DEF q
  <2>2. \A j \in DOMAIN program_cache' : program_cache'[j].act \subseteq program_cache'[j].kbs
    <3>1. program_cache'[i].act \subseteq program_cache'[i].kbs
      BY <1>b, <1>c, <1>e
    <3> QED BY <3>1, <1>d DEF IInv, TypeOK, ProgramsMatch
  <2>3. \A u \in Threads : Builds(u) => call[u].id \in 0 .. MaxCacheSize - 1
    BY DEF IInv, CallKnown, Builds
  <2> QED BY <2>1, <2>2, <2>3 DEF IInv, TypeOK, ProgramsMatch, Builds
<1>8. GoodCalls'
  BY <1>f DEF IInv, TypeOK, GoodCalls, Good, Settled
<1>9. KnownPublished'
  BY DEF IInv, KnownPublished
<1>10. UsedPublished'
  BY DEF IInv, TypeOK, UsedPublished
<1>11. BuilderRunsItsKernels'
  BY DEF IInv, TypeOK, BuilderRunsItsKernels, BlobsOf, KeyOf
<1>12. SettledCallsRunTheirKernels'
  BY <1>f DEF IInv, TypeOK, SettledCallsRunTheirKernels
<1> QED BY <1>1, <1>2, <1>3, <1>4, <1>5, <1>6, <1>7, <1>8, <1>9, <1>10, <1>11, <1>12 DEF IInv

(* A program that fails leaves those before it.                            *)
LEMMA CompileFailsStep == ASSUME IInv, NEW t \in Threads, CompileFails(t) PROVE IInv'
<1> USE DEF CompileFails, Goto, EndCall
<1>1. TypeOK'
  BY DEF IInv, TypeOK, PC, CriticalSection, Result, KType
<1>2. MutexHeld'
  BY ThreadsAssumption DEF IInv, TypeOK, MutexHeld, CriticalSection
<1>3. CallKnown'
  BY DEF IInv, TypeOK, CallKnown, Building
<1>4. MapInjective'
  BY DEF IInv, MapInjective
<1>5. MapMatches'
  BY DEF IInv, TypeOK, MapMatches, KeyOf
<1>6. OneOwner'
  BY DEF IInv, TypeOK, OneOwner, Building
<1>7. ProgramsMatch'
  BY DEF IInv, TypeOK, ProgramsMatch, Builds, Building, BlobsOf, KeyOf
<1>8. GoodCalls'
  BY DEF IInv, TypeOK, GoodCalls, Good, Settled, Complete, KeyOf
<1>9. KnownPublished'
  BY DEF IInv, KnownPublished
<1>10. UsedPublished'
  BY DEF IInv, TypeOK, UsedPublished
<1>11. BuilderRunsItsKernels'
  BY DEF IInv, TypeOK, BuilderRunsItsKernels, BlobsOf, KeyOf
<1>12. SettledCallsRunTheirKernels'
  BY DEF IInv, TypeOK, SettledCallsRunTheirKernels, BlobsOf, KeyOf, OneOwner, GoodCalls, Building
<1> QED BY <1>1, <1>2, <1>3, <1>4, <1>5, <1>6, <1>7, <1>8, <1>9, <1>10, <1>11, <1>12 DEF IInv

(* All programs of a solution were compiled.                               *)
LEMMA EndUpdateStep == ASSUME IInv, NEW t \in Threads, EndUpdate(t) PROVE IInv'
<1> USE DEF EndUpdate, Goto
<1>1. TypeOK'
  BY DEF IInv, TypeOK, PC, CriticalSection
<1>2. MutexHeld'
  BY ThreadsAssumption DEF IInv, TypeOK, MutexHeld, CriticalSection
<1>3. CallKnown'
  BY DEF IInv, TypeOK, CallKnown, Building
<1>4. MapInjective'
  BY DEF IInv, MapInjective
<1>5. MapMatches'
  BY DEF IInv, TypeOK, MapMatches, KeyOf
<1>6. OneOwner'
  BY DEF IInv, TypeOK, OneOwner, Building
<1>7. ProgramsMatch'
  BY DEF IInv, TypeOK, ProgramsMatch, Builds, Building, BlobsOf, KeyOf
<1>8. GoodCalls'
  BY DEF IInv, TypeOK, GoodCalls, Good, Settled, Complete, KeyOf, MapMatches, ProgramsMatch, OneOwner, Builds, Building, CallKnown
<1>9. KnownPublished'
  BY DEF IInv, KnownPublished
<1>10. UsedPublished'
  BY DEF IInv, TypeOK, UsedPublished, MapMatches
<1>11. BuilderRunsItsKernels'
  BY DEF IInv, TypeOK, BuilderRunsItsKernels, BlobsOf, KeyOf
<1>12. SettledCallsRunTheirKernels'
  BY DEF IInv, TypeOK, SettledCallsRunTheirKernels, BlobsOf, KeyOf
<1> QED BY <1>1, <1>2, <1>3, <1>4, <1>5, <1>6, <1>7, <1>8, <1>9, <1>10, <1>11, <1>12 DEF IInv

(* The arguments are set on what is compiled.                              *)
LEMMA ReadArgsStep == ASSUME IInv, NEW t \in Threads, ReadArgs(t) PROVE IInv'
<1> USE DEF ReadArgs, Goto

<1>a. PICK seen \in Observed(t, call[t].id) : call' = [call EXCEPT ![t].args = seen]
  OBVIOUS
<1>b. call[t].id \in 0 .. MaxCacheSize - 1 /\ program_cache[call[t].id] \in Programs
  BY DEF IInv, TypeOK, CallKnown
<1>c. /\ seen \subseteq program_cache[call[t].id].act
      /\ Complete(program_cache[call[t].id]) => seen = program_cache[call[t].id].act
  BY DEF Observed, PrefixesOf
<1>d. /\ call' \in [Threads -> Call]
      /\ \A u \in Threads \ {t} : call'[u] = call[u]
      /\ call'[t].args = seen /\ call'[t].id = call[t].id /\ call'[t].own = call[t].own
      /\ call'[t].settled = call[t].settled /\ call'[t].queue = call[t].queue
      /\ call'[t].geom = call[t].geom /\ call'[t].beta = call[t].beta
  <2>1. seen \in SUBSET KType
    BY <1>b, <1>c DEF Programs
  <2>2. call[t] \in Call /\ call'[t] = [call[t] EXCEPT !.args = seen]
    BY <1>a DEF IInv, TypeOK
  <2>3. call'[t] \in Call
    BY <2>1, <2>2 DEF Call
  <2>4. /\ call'[t].args = seen /\ call'[t].id = call[t].id /\ call'[t].own = call[t].own
        /\ call'[t].settled = call[t].settled /\ call'[t].queue = call[t].queue
        /\ call'[t].geom = call[t].geom /\ call'[t].beta = call[t].beta
    BY <2>2 DEF Call
  <2> QED BY <2>3, <2>4, <1>a DEF IInv, TypeOK
<1>1. TypeOK'
  BY <1>d DEF IInv, TypeOK, PC, CriticalSection
<1>2. MutexHeld'
  BY ThreadsAssumption DEF IInv, TypeOK, MutexHeld, CriticalSection
<1>3. CallKnown'
  BY <1>d DEF IInv, TypeOK, CallKnown, Building
<1>4. MapInjective'
  BY DEF IInv, MapInjective
<1>5. MapMatches'
  BY DEF IInv, TypeOK, MapMatches, KeyOf
<1>6. OneOwner'
  BY DEF IInv, TypeOK, OneOwner, Building
<1>7. ProgramsMatch'
  BY DEF IInv, TypeOK, ProgramsMatch, Builds, Building, BlobsOf, KeyOf
<1>8. GoodCalls'
  <2>1. \A u \in Threads : Good(u)' <=> Good(u)
    BY <1>d DEF Good, Settled, Complete, KeyOf
  <2>2. call[t].settled \/ call[t].own => Complete(program_cache[call[t].id])
    BY DEF IInv, GoodCalls, Good, Settled
  <2>3. call[t].settled \/ call[t].own => seen = program_cache[call[t].id].kbs
    BY <2>2, <1>c DEF Complete
  <2> QED BY <2>1, <2>3, <1>d DEF IInv, TypeOK, GoodCalls
<1>9. KnownPublished'
  BY DEF IInv, KnownPublished
<1>10. UsedPublished'
  BY DEF IInv, TypeOK, UsedPublished
<1>11. BuilderRunsItsKernels'
  BY DEF IInv, TypeOK, BuilderRunsItsKernels, BlobsOf, KeyOf
<1>12. SettledCallsRunTheirKernels'
  BY DEF IInv, TypeOK, SettledCallsRunTheirKernels, BlobsOf, KeyOf
<1> QED BY <1>1, <1>2, <1>3, <1>4, <1>5, <1>6, <1>7, <1>8, <1>9, <1>10, <1>11, <1>12 DEF IInv

(* A run that throws changes no program.                                   *)
LEMMA RunThrowsStep == ASSUME IInv, NEW t \in Threads, RunThrows(t) PROVE IInv'
<1> USE DEF RunThrows, Goto, EndCall

<1>a. /\ call[t].id \in 0 .. MaxCacheSize - 1 /\ program_cache[call[t].id] \in Programs
      /\ \E k \in DOMAIN IDs : IDs[k] = call[t].id
  BY DEF IInv, TypeOK, CallKnown, UsedPublished
<1>b. call[t].settled \/ call[t].own =>
        /\ Good(t) /\ Complete(program_cache[call[t].id])
        /\ program_cache[call[t].id].ctx = ContextOf[call[t].queue]
        /\ call[t].args = program_cache[call[t].id].kbs
        /\ Observed(t, call[t].id) = {program_cache[call[t].id].kbs}
  BY DEF IInv, GoodCalls, Good, Settled, Complete, Observed
<1>c. \A k \in DOMAIN IDs : /\ IDs[k] = call[t].id
                            /\ Complete(program_cache[call[t].id])
                            => program_cache[call[t].id].kbs = BlobsOfKey(k)
  BY DEF IInv, ProgramsMatch, Complete
<1>d. \A seen \in Observed(t, call[t].id) : seen \in SUBSET KType
  BY <1>a DEF Observed, PrefixesOf, Programs
<1>1. TypeOK'
  BY DEF IInv, TypeOK, PC, CriticalSection, Result, KType
<1>2. MutexHeld'
  BY ThreadsAssumption DEF IInv, TypeOK, MutexHeld, CriticalSection
<1>3. CallKnown'
  BY DEF IInv, TypeOK, CallKnown, Building
<1>4. MapInjective'
  BY DEF IInv, MapInjective
<1>5. MapMatches'
  BY DEF IInv, TypeOK, MapMatches, KeyOf
<1>6. OneOwner'
  BY DEF IInv, TypeOK, OneOwner, Building
<1>7. ProgramsMatch'
  BY DEF IInv, TypeOK, ProgramsMatch, Builds, Building, BlobsOf, KeyOf
<1>8. GoodCalls'
  BY DEF IInv, TypeOK, GoodCalls, Good, Settled, Complete, KeyOf
<1>9. KnownPublished'
  BY DEF IInv, KnownPublished
<1>10. UsedPublished'
  BY DEF IInv, TypeOK, UsedPublished
<1>11. BuilderRunsItsKernels'
  BY <1>b DEF IInv, TypeOK, BuilderRunsItsKernels, Complete
<1>12. SettledCallsRunTheirKernels'
  BY <1>b DEF IInv, TypeOK, SettledCallsRunTheirKernels, Complete
<1> QED BY <1>1, <1>2, <1>3, <1>4, <1>5, <1>6, <1>7, <1>8, <1>9, <1>10, <1>11, <1>12 DEF IInv

(* Nor does one that has more arguments than there are.                    *)
LEMMA RunOverrunsArgsStep == ASSUME IInv, NEW t \in Threads, RunOverrunsArgs(t) PROVE IInv'
<1> USE DEF RunOverrunsArgs, Goto, EndCall

<1>a. /\ call[t].id \in 0 .. MaxCacheSize - 1 /\ program_cache[call[t].id] \in Programs
      /\ \E k \in DOMAIN IDs : IDs[k] = call[t].id
  BY DEF IInv, TypeOK, CallKnown, UsedPublished
<1>b. call[t].settled \/ call[t].own =>
        /\ Good(t) /\ Complete(program_cache[call[t].id])
        /\ program_cache[call[t].id].ctx = ContextOf[call[t].queue]
        /\ call[t].args = program_cache[call[t].id].kbs
        /\ Observed(t, call[t].id) = {program_cache[call[t].id].kbs}
  BY DEF IInv, GoodCalls, Good, Settled, Complete, Observed
<1>c. \A k \in DOMAIN IDs : /\ IDs[k] = call[t].id
                            /\ Complete(program_cache[call[t].id])
                            => program_cache[call[t].id].kbs = BlobsOfKey(k)
  BY DEF IInv, ProgramsMatch, Complete
<1>d. \A seen \in Observed(t, call[t].id) : seen \in SUBSET KType
  BY <1>a DEF Observed, PrefixesOf, Programs
<1>1. TypeOK'
  BY DEF IInv, TypeOK, PC, CriticalSection, Result, KType
<1>2. MutexHeld'
  BY ThreadsAssumption DEF IInv, TypeOK, MutexHeld, CriticalSection
<1>3. CallKnown'
  BY DEF IInv, TypeOK, CallKnown, Building
<1>4. MapInjective'
  BY DEF IInv, MapInjective
<1>5. MapMatches'
  BY DEF IInv, TypeOK, MapMatches, KeyOf
<1>6. OneOwner'
  BY DEF IInv, TypeOK, OneOwner, Building
<1>7. ProgramsMatch'
  BY DEF IInv, TypeOK, ProgramsMatch, Builds, Building, BlobsOf, KeyOf
<1>8. GoodCalls'
  BY DEF IInv, TypeOK, GoodCalls, Good, Settled, Complete, KeyOf
<1>9. KnownPublished'
  BY DEF IInv, KnownPublished
<1>10. UsedPublished'
  BY DEF IInv, TypeOK, UsedPublished
<1>11. BuilderRunsItsKernels'
  BY <1>b DEF IInv, TypeOK, BuilderRunsItsKernels, Complete
<1>12. SettledCallsRunTheirKernels'
  BY <1>b DEF IInv, TypeOK, SettledCallsRunTheirKernels, Complete
<1> QED BY <1>1, <1>2, <1>3, <1>4, <1>5, <1>6, <1>7, <1>8, <1>9, <1>10, <1>11, <1>12 DEF IInv

(* A run that ends remembers the ID it has run.                            *)
LEMMA RunStep == ASSUME IInv, NEW t \in Threads, Run(t) PROVE IInv'
<1> USE DEF Run, Goto, EndCall

<1>a. /\ call[t].id \in 0 .. MaxCacheSize - 1 /\ program_cache[call[t].id] \in Programs
      /\ \E k \in DOMAIN IDs : IDs[k] = call[t].id
  BY DEF IInv, TypeOK, CallKnown, UsedPublished
<1>b. call[t].settled \/ call[t].own =>
        /\ Good(t) /\ Complete(program_cache[call[t].id])
        /\ program_cache[call[t].id].ctx = ContextOf[call[t].queue]
        /\ call[t].args = program_cache[call[t].id].kbs
        /\ Observed(t, call[t].id) = {program_cache[call[t].id].kbs}
  BY DEF IInv, GoodCalls, Good, Settled, Complete, Observed
<1>c. \A k \in DOMAIN IDs : /\ IDs[k] = call[t].id
                            /\ Complete(program_cache[call[t].id])
                            => program_cache[call[t].id].kbs = BlobsOfKey(k)
  BY DEF IInv, ProgramsMatch, Complete
<1>d. \A seen \in Observed(t, call[t].id) : seen \in SUBSET KType
  BY <1>a DEF Observed, PrefixesOf, Programs
<1>e. PICK seen \in Observed(t, call[t].id) :
        result' = [result EXCEPT ![t] =
          [status |-> "success",
           ran |-> IF program_cache[call[t].id].ctx = ContextOf[call[t].queue] THEN seen ELSE {}]]
  OBVIOUS
<1>f. call[t].settled \/ call[t].own =>
        result'[t] = [status |-> "success", ran |-> program_cache[call[t].id].kbs]
  BY <1>b, <1>e DEF IInv, TypeOK
<1>1. TypeOK'
  <2>1. result' \in [Threads -> Result]
    BY <1>d, <1>e DEF IInv, TypeOK, Result
  <2>2. call[t] \in Call
    BY DEF IInv, TypeOK
  <2>3. known' \subseteq [geom : Geometries, queue : Queues, id : 0 .. MaxCacheSize - 1]
    BY <2>2, <1>a DEF IInv, TypeOK, Call
  <2> QED BY <2>1, <2>3 DEF IInv, TypeOK, PC, CriticalSection
<1>2. MutexHeld'
  BY ThreadsAssumption DEF IInv, TypeOK, MutexHeld, CriticalSection
<1>3. CallKnown'
  BY DEF IInv, TypeOK, CallKnown, Building
<1>4. MapInjective'
  BY DEF IInv, MapInjective
<1>5. MapMatches'
  BY DEF IInv, TypeOK, MapMatches, KeyOf
<1>6. OneOwner'
  BY DEF IInv, TypeOK, OneOwner, Building
<1>7. ProgramsMatch'
  BY DEF IInv, TypeOK, ProgramsMatch, Builds, Building, BlobsOf, KeyOf
<1>8. GoodCalls'
  BY DEF IInv, TypeOK, GoodCalls, Good, Settled, Complete, KeyOf
<1>9. KnownPublished'
  BY <1>a DEF IInv, KnownPublished
<1>10. UsedPublished'
  BY DEF IInv, TypeOK, UsedPublished
<1>11. BuilderRunsItsKernels'
  <2>1. call[t].own => result'[t] = [status |-> "success", ran |-> BlobsOf(call[t])]
    BY <1>b, <1>c, <1>f DEF Good, BlobsOf
  <2>2. \A u \in Threads \ {t} : result'[u] = result[u]
    BY <1>e DEF IInv, TypeOK
  <2> QED BY <2>1, <2>2 DEF IInv, BuilderRunsItsKernels
<1>12. SettledCallsRunTheirKernels'
  <2>1. call[t].settled /\ KeyOf(call[t]) \in DOMAIN IDs /\ IDs[KeyOf(call[t])] = call[t].id
          => program_cache[call[t].id].kbs = BlobsOf(call[t])
    BY <1>b, <1>c DEF BlobsOf
  <2>2. \A u \in Threads \ {t} : result'[u] = result[u]
    BY <1>e DEF IInv, TypeOK
  <2> QED BY <2>1, <2>2, <1>f DEF IInv, SettledCallsRunTheirKernels
<1> QED BY <1>1, <1>2, <1>3, <1>4, <1>5, <1>6, <1>7, <1>8, <1>9, <1>10, <1>11, <1>12 DEF IInv

(* A call without an ID asks for one.                                      *)
LEMMA CallWithoutIDStep ==
  ASSUME IInv, NEW t \in Threads, CallWithoutID(t) PROVE IInv'
<1>1. PICK p \in Problems : StartCall(t, NewCall(p, -1)) /\ Goto(t, "acquire")
  BY DEF CallWithoutID
<1>2. NewCall(p, -1) \in Call /\ ~NewCall(p, -1).own /\ ~NewCall(p, -1).settled
  BY NewCallType DEF NewCall
<1>3. pc'[t] = "acquire" /\ "acquire" \in PC
  BY <1>1 DEF Goto, IInv, TypeOK, PC
<1> QED BY <1>1, <1>2, <1>3, CallStep

(* A call with an ID needs no lock.                                        *)
LEMMA CallWithIDStep ==
  ASSUME IInv, NEW t \in Threads, CallWithID(t) PROVE IInv'
<1>1. PICK e \in known, p \in Problems :
        /\ StartCall(t, [NewCall(p, e.id) EXCEPT !.settled = Settled(NewCall(p, e.id))])
        /\ Goto(t, "args")
  BY DEF CallWithID
<1> DEFINE n == NewCall(p, e.id)
           c == [n EXCEPT !.settled = Settled(n)]
<1>2. e.id \in 0 .. MaxCacheSize - 1 /\ \E k \in DOMAIN IDs : IDs[k] = e.id
  BY DEF IInv, TypeOK, KnownPublished
<1>3. n \in Call /\ ~n.own /\ n.id = e.id
  BY <1>2, NewCallType DEF NewCall
<1>4. Settled(n) \in BOOLEAN
  BY DEF Settled
<1> HIDE DEF n
<1>5. /\ c \in Call /\ c.settled = Settled(n) /\ ~c.own
      /\ c.id = n.id /\ c.queue = n.queue
  BY <1>3, <1>4 DEF Call
<1>6. c.settled => Settled(c)
  BY <1>5 DEF Settled
<1>7. pc'[t] = "args" /\ "args" \in PC
  BY <1>1 DEF Goto, IInv, TypeOK, PC
<1>8. StartCall(t, c)
  BY <1>1 DEF n
<1> HIDE DEF c
<1> QED BY <1>1, <1>2, <1>3, <1>5, <1>6, <1>7, <1>8, CallStep

-----------------------------------------------------------------------------
(* The theorems. *)

(* Every step of every thread keeps the invariant.                         *)
LEMMA NextIInv == IInv /\ [Next]_vars => IInv'
<1> SUFFICES ASSUME IInv, [Next]_vars PROVE IInv'
  OBVIOUS
<1>1. CASE UNCHANGED vars
  BY <1>1 DEF vars, IInv, TypeOK, MutexHeld, CallKnown, MapInjective, MapMatches, OneOwner,
              ProgramsMatch, Builds, GoodCalls, Good, Settled, Complete, KnownPublished,
              UsedPublished, BuilderRunsItsKernels, SettledCallsRunTheirKernels,
              BlobsOf, KeyOf
<1>2. ASSUME NEW t \in Threads, CallWithoutID(t) \/ CallWithID(t) PROVE IInv'
  BY <1>2, CallWithoutIDStep, CallWithIDStep
<1>3. ASSUME NEW t \in Threads, GetID(t) PROVE IInv'
  BY <1>3, AcquireStep, HitStep, MissStep, SolveThrowsStep, SolveStep, LimitThrowsStep,
     AllotStep, PublishStep, UnlockStep DEF GetID
<1>4. ASSUME NEW t \in Threads, Update(t) PROVE IInv'
  BY <1>4, BeginUpdateStep, CompileOkStep, CompileFailsStep, EndUpdateStep DEF Update
<1>5. ASSUME NEW t \in Threads, Launch(t) PROVE IInv'
  BY <1>5, ReadArgsStep, RunThrowsStep, RunOverrunsArgsStep, RunStep DEF Launch
<1> QED BY <1>1, <1>2, <1>3, <1>4, <1>5 DEF Next

(* The inductive invariant holds in every reachable state.                 *)
THEOREM Invariance == Spec => []IInv
BY InitIInv, NextIInv, PTL DEF Spec

(* Every variable keeps its type: in particular get_ID never hands out a   *)
(* slot outside the array, whatever the limit.                             *)
THEOREM TypeCorrect == Spec => []TypeOK
<1>1. IInv => TypeOK
  BY DEF IInv
<1> QED BY <1>1, Invariance, PTL

(* Although update runs outside the mutex, no two threads ever compile for *)
(* one key or into one slot.                                               *)
THEOREM OneBuilder == Spec => []SoleBuilder
<1>1. IInv => SoleBuilder
  <2> SUFFICES ASSUME IInv PROVE SoleBuilder
    OBVIOUS
  <2>1. ASSUME NEW t \in Threads, NEW u \in Threads, Builds(t), Builds(u), t # u
        PROVE  call[t].id # call[u].id
    BY <2>1 DEF IInv, OneOwner, Builds
  <2>2. ASSUME NEW t \in Threads, NEW u \in Threads, Builds(t), Builds(u), t # u,
               KeyOf(call[t]) = KeyOf(call[u])
        PROVE  FALSE
    <3>1. CASE pc[t] = "publish" /\ pc[u] = "publish"
      BY <2>2, <3>1 DEF IInv, MutexHeld, CriticalSection
    <3>2. CASE pc[t] = "publish" /\ pc[u] # "publish"
      BY <2>2, <3>2 DEF IInv, MapMatches, Builds, Building
    <3>3. CASE pc[t] # "publish" /\ pc[u] = "publish"
      BY <2>2, <3>3 DEF IInv, MapMatches, Builds, Building
    <3>4. CASE pc[t] # "publish" /\ pc[u] # "publish"
      <4>1. call[t].id = call[u].id
        BY <2>2, <3>4 DEF IInv, MapMatches, Builds, Building
      <4> QED BY <4>1, <2>1, <2>2
    <3> QED BY <3>1, <3>2, <3>3, <3>4
  <2>3. ASSUME NEW t \in Threads, NEW k \in DOMAIN IDs, Builds(t), IDs[k] = call[t].id
        PROVE  k = KeyOf(call[t])
    BY <2>3 DEF IInv, MapMatches, MapInjective, Builds, Building
  <2> QED BY <2>1, <2>2, <2>3 DEF SoleBuilder
<1> QED BY <1>1, Invariance, PTL

(* The call that compiles a key's programs throws or launches every kernel *)
(* of the key.                                                             *)
THEOREM BuildersRun == Spec => []BuilderRunsItsKernels
<1>1. IInv => BuilderRunsItsKernels
  BY DEF IInv
<1> QED BY <1>1, Invariance, PTL

(* A call that comes to an ID after its programs are complete, in the      *)
(* right context, succeeds and launches all of them.                       *)
THEOREM SettledCallsRun == Spec => []SettledCallsRunTheirKernels
<1>1. IInv => SettledCallsRunTheirKernels
  BY DEF IInv
<1> QED BY <1>1, Invariance, PTL

(* No step changes the programs of a key once they are complete, nor the   *)
(* ID of a key once it has one: reading them without the mutex is safe     *)
(* from then on.                                                           *)
THEOREM Frozen == Spec => CompleteProgramsAreFrozen
<1> DEFINE A == \A k \in DOMAIN IDs : Complete(program_cache[IDs[k]]) =>
                  /\ k \in DOMAIN IDs' /\ IDs'[k] = IDs[k]
                  /\ program_cache'[IDs[k]] = program_cache[IDs[k]]
<1>1. IInv /\ [Next]_vars => [A]_vars
  <2> SUFFICES ASSUME IInv, NEW t \in Threads,
                      CallWithoutID(t) \/ CallWithID(t) \/ GetID(t) \/ Update(t) \/ Launch(t)
               PROVE  A
    BY DEF Next
  <2>1. CASE UNCHANGED <<IDs, program_cache>>
    BY <2>1
  <2>2. CASE Allot(t)
    <3>1. UNCHANGED IDs /\ program_cache' = [program_cache EXCEPT
                                ![current_ID] = Fresh(ContextOf[call[t].queue])]
      BY <2>2 DEF Allot
    <3>2. \A k \in DOMAIN IDs : IDs[k] # current_ID /\ IDs[k] \in DOMAIN program_cache
      BY DEF IInv, MapInjective, TypeOK
    <3> QED BY <3>1, <3>2
  <2>3. CASE Publish(t)
    <3>1. KeyOf(call[t]) \notin DOMAIN IDs
      BY <2>3 DEF IInv, MapMatches, Publish
    <3> QED BY <2>3, <3>1 DEF Publish
  <2>4. CASE BeginUpdate(t)
    <3>1. program_cache[call[t].id].kbs = {} /\ UNCHANGED IDs
      BY <2>4 DEF IInv, ProgramsMatch, Builds, Building, BeginUpdate
    <3>2. \A i \in DOMAIN program_cache : i # call[t].id => program_cache'[i] = program_cache[i]
      BY <2>4 DEF BeginUpdate
    <3> QED BY <3>1, <3>2 DEF IInv, TypeOK, Complete
  <2>5. CASE CompileOk(t)
    <3>1. ~Complete(program_cache[call[t].id]) /\ UNCHANGED IDs
      BY <2>5 DEF CompileOk
    <3>2. \A i \in DOMAIN program_cache : i # call[t].id => program_cache'[i] = program_cache[i]
      BY <2>5 DEF CompileOk
    <3> QED BY <3>1, <3>2 DEF IInv, TypeOK
  <2>6. CASE CallWithoutID(t) \/ CallWithID(t)
    BY <2>6, <2>1 DEF CallWithoutID, CallWithID, StartCall
  <2>7. CASE GetID(t)
    BY <2>7, <2>1, <2>2, <2>3 DEF GetID, Acquire, Hit, Miss, SolveThrows, Solve, LimitThrows,
                                  Unlock
  <2>8. CASE Update(t)
    BY <2>8, <2>1, <2>4, <2>5 DEF Update, CompileFails, EndUpdate
  <2>9. CASE Launch(t)
    BY <2>9, <2>1 DEF Launch, ReadArgs, RunThrows, RunOverrunsArgs, Run
  <2> QED BY <2>6, <2>7, <2>8, <2>9
<1> QED BY <1>1, Invariance, PTL DEF Spec, CompleteProgramsAreFrozen

(* The cacher implements IdTable, with one slot less than its array has:   *)
(* Allot and a refused allotment take an ID from the counter, Publish      *)
(* binds it, and every other step stutters.                                *)
THEOREM TableRefinement == Spec => TableSpec
<1>1. Init => Table!Init
  BY DEF Init, Table!Init
<1>2. IInv /\ [Next]_vars => [Table!Next]_<<IDs, current_ID>>
  <2> SUFFICES ASSUME IInv, NEW t \in Threads,
                      CallWithoutID(t) \/ CallWithID(t) \/ GetID(t) \/ Update(t) \/ Launch(t)
               PROVE  Table!Next \/ UNCHANGED <<IDs, current_ID>>
    BY DEF Next, vars
  <2>1. CASE Allot(t) \/ LimitThrows(t)
    BY <2>1 DEF Allot, LimitThrows, Table!Next, Table!Issue
  <2>2. CASE Publish(t)
    <3> DEFINE k0 == KeyOf(call[t])
               i0 == call[t].id
    <3>1. k0 \in Key \ DOMAIN IDs
      BY <2>2, KeyType DEF IInv, TypeOK, MapMatches, Publish
    <3>2. i0 \in 0 .. current_ID - 1 /\ i0 < MaxCacheSize - 1
      BY <2>2, LimitAssumption DEF IInv, TypeOK, OneOwner, Building, Publish
    <3>3. \A k \in DOMAIN IDs : IDs[k] # i0
      BY <2>2 DEF IInv, MapMatches, Publish
    <3>4. /\ IDs' = [k \in DOMAIN IDs \cup {k0} |-> IF k = k0 THEN i0 ELSE IDs[k]]
          /\ UNCHANGED current_ID
      BY <2>2 DEF Publish
    <3> HIDE DEF k0, i0
    <3>5. Table!Bind
      BY <3>1, <3>2, <3>3, <3>4 DEF Table!Bind
    <3> QED BY <3>5 DEF Table!Next
  <2>3. CASE UNCHANGED <<IDs, current_ID>>
    BY <2>3
  <2>4. CASE GetID(t)
    BY <2>4, <2>1, <2>2, <2>3 DEF GetID, Acquire, Hit, Miss, SolveThrows, Solve, Unlock
  <2>5. CASE CallWithoutID(t) \/ CallWithID(t)
    BY <2>5, <2>3 DEF CallWithoutID, CallWithID, StartCall
  <2>6. CASE Update(t)
    BY <2>6, <2>3 DEF Update, BeginUpdate, CompileOk, CompileFails, EndUpdate
  <2>7. CASE Launch(t)
    BY <2>7, <2>3 DEF Launch, ReadArgs, RunThrows, RunOverrunsArgs, Run
  <2> QED BY <2>4, <2>5, <2>6, <2>7
<1> QED BY <1>1, <1>2, Invariance, PTL DEF Spec, TableSpec, Table!Spec
=============================================================================
