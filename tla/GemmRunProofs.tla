---------------------------- MODULE GemmRunProofs ----------------------------
(***************************************************************************)
(* Theorems about GemmRun, for any number of calls, any plans of host      *)
(* programs, disciplined or not, and any queues.                           *)
(***************************************************************************)
EXTENDS GemmRun, KernelGraphProofs

(* The kernels of a call.                                                  *)
LEMMA KernelsOfCall ==
  ASSUME NEW c \in Calls
  PROVE  /\ KernelsOf(plan[c]) \in SUBSET KType
         /\ "MAIN" \in KernelsOf(plan[c])
         /\ Final(c) = <<c, "MAIN">>
BY MainIsLast DEF KernelsOf, Final

(* What a kernel waits for are commands, and the main kernel waits for all *)
(* other kernels of its call.                                              *)
LEMMA WaitListType ==
  ASSUME plan \in Plan, NEW c \in Calls, NEW t \in KernelsOf(plan[c])
  PROVE  /\ WaitList(c, t) \in SUBSET Command
         /\ \A d \in plan[c].waits : d \in Calls /\ Final(d) \in WaitList(c, t)
         /\ t = "MAIN" => \A s \in KernelsOf(plan[c]) \ {"MAIN"} : <<c, s>> \in WaitList(c, t)
<1>1. plan[c] \in Job
  BY DEF Plan
<1>2. \A d \in plan[c].waits : d \in Calls /\ Final(d) \in Command
  BY <1>1, KernelsOfCall DEF Job, Command, KType
<1>3. WaitIndices(KernelsOf(plan[c]), t) \in SUBSET KType
  BY KernelsOfCall DEF WaitIndices
<1>4. t = "MAIN" => WaitIndices(KernelsOf(plan[c]), t) = KernelsOf(plan[c]) \ {"MAIN"}
  BY KernelsOfCall, WaitsOfMain
<1> QED BY <1>2, <1>3, <1>4 DEF WaitList, Command

(* What is ahead of a command in its queue are commands.                   *)
LEMMA AheadType ==
  ASSUME TypeOK, NEW k \in Command
  PROVE  Ahead(k) \subseteq Command
<1>1. plan[k[1]].queue \in Queues /\ fifo[plan[k[1]].queue] \in Seq(Command)
  BY DEF TypeOK, Plan, Job, Command
<1> QED BY <1>1 DEF Ahead

(* Nothing has been enqueued, and nothing runs.                            *)
LEMMA InitStructure == Init => Structure
<1> SUFFICES ASSUME Init PROVE Structure
  OBVIOUS
<1>1. TypeOK
  BY PlansAssumption DEF Init, TypeOK, IsInjective
<1>2. Enqueued
  BY DEF Init, Enqueued, Command
<1>3. QueueOrder /\ StartedIsFree
  BY DEF Init, QueueOrder, StartedIsFree, Plan
<1>4. FinalEventMeansDone
  BY KernelsOfCall DEF Init, FinalEventMeansDone, Command, KType
<1> QED BY <1>1, <1>2, <1>3, <1>4 DEF Structure

-----------------------------------------------------------------------------
(* Every action preserves Structure. *)

(* A call begins with nothing enqueued of its own.                         *)
LEMMA BeginStep == ASSUME Structure, NEW c \in Calls, Begin(c) PROVE Structure'
<1> USE DEF Begin
<1>1. plan[c].waits \subseteq plan[c].after /\ plan[c].after \subseteq Calls
  BY DEF Structure, TypeOK, Plan, Job
<1>2. TypeOK'
  BY DEF Structure, TypeOK
<1>3. Enqueued'
  BY <1>1 DEF Structure, TypeOK, Enqueued, WaitList, Final
<1>4. QueueOrder' /\ StartedIsFree'
  BY DEF Structure, QueueOrder, StartedIsFree, Ahead
<1>5. FinalEventMeansDone'
  BY DEF Structure, TypeOK, FinalEventMeansDone, Final
<1> QED BY <1>2, <1>3, <1>4, <1>5 DEF Structure

(* A call returns; what it has enqueued stays in the queue.                *)
LEMMA ReturnStep == ASSUME Structure, NEW c \in Calls, Return(c) PROVE Structure'
<1> USE DEF Return
<1>1. TypeOK'
  BY DEF Structure, TypeOK
<1>2. Enqueued'
  BY DEF Structure, TypeOK, Enqueued, WaitList, Final
<1>3. QueueOrder' /\ StartedIsFree'
  BY DEF Structure, QueueOrder, StartedIsFree, Ahead
<1>4. FinalEventMeansDone'
  BY DEF Structure, TypeOK, FinalEventMeansDone, Final
<1> QED BY <1>1, <1>2, <1>3, <1>4 DEF Structure

(* The times are read of kernels that are over.                            *)
LEMMA ReadTimesStep == ASSUME Structure, NEW c \in Calls, ReadTimes(c) PROVE Structure'
<1>1. \A t \in KernelsOf(plan[c]) : ev[<<c, t>>] = "complete"
  BY DEF Structure, FinalEventMeansDone, ReadTimes
<1>2. /\ host' = [host EXCEPT ![c] = "returned"]
      /\ host[c] = "issuing" /\ tried[c] = KernelsOf(plan[c])
      /\ UNCHANGED <<plan, tried, fifo, need, ev, mem, ws>>
  BY <1>1 DEF ReadTimes
<1>3. TypeOK'
  BY <1>2 DEF Structure, TypeOK
<1>4. Enqueued'
  BY <1>2 DEF Structure, TypeOK, Enqueued, WaitList, Final
<1>5. QueueOrder' /\ StartedIsFree'
  BY <1>2 DEF Structure, QueueOrder, StartedIsFree, Ahead
<1>6. FinalEventMeansDone'
  BY <1>2 DEF Structure, TypeOK, FinalEventMeansDone, Final
<1> QED BY <1>3, <1>4, <1>5, <1>6 DEF Structure

(* The kernel that is enqueued comes behind those that it waits for.       *)
LEMMA EnqueueStep == ASSUME Structure, NEW c \in Calls, Enqueue(c) PROVE Structure'
<1> DEFINE S == KernelsOf(plan[c])
<1> PICK t : t = NextOf(S, tried[c])
  OBVIOUS
<1> DEFINE k == <<c, t>>
           q == plan[c].queue
           W == WaitList(c, t)
<1>1. /\ plan \in Plan /\ plan[c] \in Job /\ q \in Queues
      /\ tried[c] \in SUBSET S /\ tried[c] # S /\ S \in SUBSET KType
      /\ host[c] = "issuing"
  BY KernelsOfCall DEF Structure, TypeOK, Plan, Job, Enqueued, Enqueue
<1>2. t \in S /\ t \notin tried[c] /\ t \in KType
  BY <1>1, NextOfType
<1>3. k \in Command /\ ev[k] = "none"
  BY <1>2 DEF Command, Structure, Enqueued
<1>4. /\ W \in SUBSET Command
      /\ t = "MAIN" => \A s \in S \ {"MAIN"} : <<c, s>> \in W
  BY <1>1, <1>2, WaitListType
<1>5. \A e \in W : ev[e] # "none"
  <2>1. \A d \in plan[c].waits : d \in Calls /\ ev[Final(d)] # "none"
    <3> SUFFICES ASSUME NEW d \in plan[c].waits
                 PROVE  d \in Calls /\ ev[Final(d)] # "none"
      OBVIOUS
    <3>1. d \in Calls /\ d \in plan[c].after /\ host[d] = "returned"
      BY <1>1 DEF Structure, Enqueued, Plan, Job
    <3>2. tried[d] = KernelsOf(plan[d])
      BY <3>1 DEF Structure, Enqueued
    <3>3. Final(d) = <<d, "MAIN">> /\ "MAIN" \in tried[d] /\ "MAIN" \in KType
      BY <3>1, <3>2, KernelsOfCall DEF KType
    <3>4. ev[<<d, "MAIN">>] # "none"
      BY <3>1, <3>3 DEF Structure, Enqueued
    <3> QED BY <3>1, <3>3, <3>4
  <2>2. \A s \in WaitIndices(S, t) : s \in tried[c]
    <3>1. CASE t = "MAIN"
      <4>1. S \ tried[c] = {"MAIN"} /\ WaitIndices(S, t) = S \ {"MAIN"}
        BY <3>1, <1>1, MainIsNextOnceAlone, WaitsOfMain
      <4> QED BY <4>1
    <3>2. CASE t # "MAIN"
      BY <3>2, <1>1, <1>2, WaitsOfMain
    <3> QED BY <3>1, <3>2
  <2>3. \A s \in tried[c] : ev[<<c, s>>] # "none"
    BY <1>1 DEF Structure, Enqueued
  <2> QED BY <2>1, <2>2, <2>3 DEF WaitList
<1>6. /\ tried' = [tried EXCEPT ![c] = @ \cup {t}]
      /\ fifo' = [fifo EXCEPT ![q] = Append(@, k)]
      /\ need' = [need EXCEPT ![k] = W]
      /\ ev' = [ev EXCEPT ![k] = "queued"]
      /\ UNCHANGED <<plan, host, mem, ws>>
  BY <1>5 DEF Enqueue
<1>7. \A d, s : WaitList(d, s)' = WaitList(d, s)
  BY <1>6 DEF WaitList, Final
<1> HIDE DEF S, q, W
<1>8. TypeOK'
  <2>1. fifo' \in [Queues -> Seq(Command)]
    BY <1>1, <1>3, <1>6 DEF Structure, TypeOK
  <2>2. ASSUME NEW r \in Queues PROVE IsInjective(fifo'[r])
    <3>1. CASE r # q
      BY <3>1, <1>6 DEF Structure, TypeOK
    <3>2. CASE r = q
      <4>1. fifo'[q] = Append(fifo[q], k) /\ fifo[q] \in Seq(Command)
        BY <1>1, <1>6 DEF Structure, TypeOK
      <4>2. \A i \in DOMAIN fifo[q] : fifo[q][i] # k
        BY <1>1, <1>3 DEF Structure, QueueOrder
      <4>3. \A i, j \in DOMAIN fifo[q] : fifo[q][i] = fifo[q][j] => i = j
        BY <1>1 DEF Structure, TypeOK, IsInjective
      <4> HIDE DEF k
      <4> QED BY <3>2, <4>1, <4>2, <4>3 DEF IsInjective
    <3> QED BY <3>1, <3>2
  <2>3. need' \in [Command -> SUBSET Command] /\ tried' \in [Calls -> SUBSET KType]
    BY <1>2, <1>3, <1>4, <1>6 DEF Structure, TypeOK
  <2>4. ev' \in [Command -> {"none", "queued", "running", "complete"}]
    BY <1>3, <1>6 DEF Structure, TypeOK
  <2> QED BY <2>1, <2>2, <2>3, <2>4, <1>6 DEF Structure, TypeOK
<1>9. Enqueued'
  <2> SUFFICES ASSUME NEW d \in Calls
               PROVE  /\ tried'[d] \subseteq KernelsOf(plan[d])
                      /\ host[d] = "idle" => tried'[d] = {}
                      /\ host[d] = "returned" => tried'[d] = KernelsOf(plan[d])
                      /\ host[d] # "idle" => \A x \in plan[d].after : host[x] = "returned"
                      /\ \A s \in KType : ev'[<<d, s>>] # "none" <=> s \in tried'[d]
                      /\ \A s \in tried'[d] : need'[<<d, s>>] = WaitList(d, s)'
    BY <1>6 DEF Enqueued
  <2>1. CASE d # c
    <3>1. tried'[d] = tried[d] /\ tried[d] \subseteq KType
      BY <2>1, <1>6 DEF Structure, TypeOK
    <3>2. \A s \in KType : <<d, s>> \in Command /\ <<d, s>> # k
      BY <2>1 DEF Command
    <3>3. \A s \in KType : ev'[<<d, s>>] = ev[<<d, s>>] /\ need'[<<d, s>>] = need[<<d, s>>]
      BY <3>2, <1>6 DEF Structure, TypeOK
    <3> QED BY <3>1, <3>3, <1>7 DEF Structure, Enqueued
  <2>2. CASE d = c
    <3>1. tried'[c] = tried[c] \cup {t} /\ tried[c] \subseteq KType
      BY <1>6 DEF Structure, TypeOK
    <3>2. \A s \in KType : <<c, s>> \in Command /\ (s # t => <<c, s>> # k)
      BY DEF Command
    <3>3. \A s \in KType \ {t} : /\ ev'[<<c, s>>] = ev[<<c, s>>]
                                 /\ need'[<<c, s>>] = need[<<c, s>>]
      BY <3>2, <1>6 DEF Structure, TypeOK
    <3>4. ev'[k] = "queued" /\ need'[k] = WaitList(c, t)'
      BY <1>3, <1>6, <1>7 DEF Structure, TypeOK, W
    <3>5. \A s \in tried'[c] : need'[<<c, s>>] = WaitList(c, s)'
      <4>1. \A s \in tried[c] : need'[<<c, s>>] = WaitList(c, s)'
        BY <3>1, <3>3, <1>2, <1>7 DEF Structure, Enqueued
      <4> QED BY <4>1, <3>1, <3>4
    <3>6. \A s \in KType : ev'[<<c, s>>] # "none" <=> s \in tried'[c]
      BY <3>1, <3>3, <3>4, <1>2 DEF Structure, Enqueued
    <3> QED BY <2>2, <3>1, <3>5, <3>6, <1>1, <1>2 DEF Structure, Enqueued, S
  <2> QED BY <2>1, <2>2
<1>10. \A e \in Command : ev[e] # "none" => ev'[e] = ev[e] /\ need'[e] = need[e] /\ e # k
  BY <1>3, <1>6 DEF Structure, TypeOK
<1>11. ev'[k] = "queued"
  BY <1>3, <1>6 DEF Structure, TypeOK
<1>12. QueueOrder'
  <2>1. ASSUME NEW r \in Queues, r # q PROVE fifo'[r] = fifo[r]
    BY <2>1, <1>6 DEF Structure, TypeOK
  <2>2. /\ fifo[q] \in Seq(Command) /\ fifo'[q] = Append(fifo[q], k)
        /\ \A r \in Queues : fifo[r] \in Seq(Command)
    BY <1>1, <1>6 DEF Structure, TypeOK
  <2> DEFINE n == Len(fifo[q]) + 1
  <2>3. /\ DOMAIN fifo'[q] = DOMAIN fifo[q] \cup {n} /\ n \in Nat
        /\ fifo'[q][n] = k
        /\ \A i \in DOMAIN fifo[q] : fifo'[q][i] = fifo[q][i] /\ i \in Nat /\ i < n
    <3> HIDE DEF k
    <3> QED BY <2>2, <1>3
  <2>4. \A r \in Queues : \A i \in DOMAIN fifo[r] :
          fifo[r][i] \in Command /\ ev[fifo[r][i]] # "none"
    BY <2>2 DEF Structure, QueueOrder
  <2>5. \A r \in Queues : \A i \in DOMAIN fifo'[r] : ev'[fifo'[r][i]] # "none"
    BY <2>1, <2>3, <2>4, <1>10, <1>11
  <2>6. ASSUME NEW e \in Command, ev'[e] # "none"
        PROVE  \E i \in DOMAIN fifo'[plan[e[1]].queue] : fifo'[plan[e[1]].queue][i] = e
    <3>1. CASE e = k
      BY <3>1, <2>3 DEF q
    <3>2. CASE e # k
      <4>1. ev[e] # "none" /\ plan[e[1]].queue \in Queues
        BY <3>2, <2>6, <1>3, <1>6 DEF Structure, TypeOK, Plan, Job, Command
      <4>2. PICK i \in DOMAIN fifo[plan[e[1]].queue] : fifo[plan[e[1]].queue][i] = e
        BY <4>1 DEF Structure, QueueOrder
      <4> QED BY <4>1, <4>2, <2>1, <2>3
    <3> QED BY <3>1, <3>2
  <2>7. ASSUME NEW r \in Queues, NEW i \in DOMAIN fifo'[r], NEW j \in DOMAIN fifo'[r],
               fifo'[r][j][1] \in plan[fifo'[r][i][1]].after
        PROVE  j < i
    <3>1. CASE r # q
      BY <3>1, <2>1, <2>7 DEF Structure, QueueOrder
    <3>2. CASE r = q /\ i = n
      <4>1. j # n
        <5>1. c \notin plan[c].after
          BY <1>1, CallsAssumption DEF Plan
        <5> QED BY <5>1, <3>2, <2>3, <2>7
      <4> QED BY <4>1, <3>2, <2>3
    <3>3. CASE r = q /\ i # n /\ j # n
      BY <3>3, <2>3, <2>7, <1>1 DEF Structure, QueueOrder
    <3>4. CASE r = q /\ i # n /\ j = n
      <4>1. i \in DOMAIN fifo[q] /\ fifo'[q][i] = fifo[q][i]
        BY <3>4, <2>3
      <4>2. PICK d \in Calls, s \in KType : fifo[q][i] = <<d, s>>
        BY <4>1, <2>4, <1>1 DEF Command
      <4>3. s \in tried[d] /\ host[d] # "idle"
        BY <4>1, <4>2, <2>4, <1>1 DEF Structure, Enqueued
      <4>4. c \in plan[d].after
        BY <4>1, <4>2, <3>4, <2>3, <2>7
      <4> QED BY <4>3, <4>4, <1>1 DEF Structure, Enqueued
    <3> QED BY <3>1, <3>2, <3>3, <3>4
  <2>8. plan' = plan
    BY <1>6
  <2> HIDE DEF n, k
  <2> QED BY <2>5, <2>6, <2>7, <2>8 DEF QueueOrder
<1>13. StartedIsFree'
  <2> SUFFICES ASSUME NEW e \in Command, ev'[e] \in {"running", "complete"}
               PROVE  /\ \A f \in need'[e] : ev'[f] = "complete"
                      /\ plan[e[1]].queue \in InOrder => \A f \in Ahead(e)' : ev'[f] = "complete"
    BY <1>6 DEF StartedIsFree
  <2>1. /\ ev'[e] = ev[e] /\ need'[e] = need[e] /\ e # k
        /\ need[e] \subseteq Command
    BY <1>6, <1>10, <1>11 DEF Structure, TypeOK
  <2>2. \A f \in need'[e] : ev'[f] = "complete"
    BY <2>1, <1>10 DEF Structure, StartedIsFree
  <2> DEFINE r == plan[e[1]].queue
  <2>3. r \in Queues /\ fifo[r] \in Seq(Command)
    BY DEF Structure, TypeOK, Plan, Job, Command
  <2>4. fifo'[r] = IF r = q THEN Append(fifo[r], k) ELSE fifo[r]
    BY <2>3, <1>6 DEF Structure, TypeOK
  <2>5. Ahead(e)' = Ahead(e) /\ Ahead(e) \subseteq Command
    <3>1. Ahead(e)' = {fifo'[r][i] : i \in {i \in DOMAIN fifo'[r] : \E l \in DOMAIN fifo'[r] : i < l /\ fifo'[r][l] = e}}
      BY <1>6 DEF Ahead
    <3>2. Ahead(e) = {fifo[r][i] : i \in {i \in DOMAIN fifo[r] : \E l \in DOMAIN fifo[r] : i < l /\ fifo[r][l] = e}}
      BY DEF Ahead
    <3> HIDE DEF r, k
    <3>3. Ahead(e) \subseteq Command
      BY <3>2, <2>3
    <3>4. CASE r # q
      BY <3>1, <3>2, <3>3, <3>4, <2>4
    <3>5. CASE r = q
      <4>1. fifo'[r] = Append(fifo[r], k)
        BY <3>5, <2>4
      <4> DEFINE I == {i \in DOMAIN fifo[r] : \E l \in DOMAIN fifo[r] : i < l /\ fifo[r][l] = e}
                 J == {i \in DOMAIN fifo'[r] : \E l \in DOMAIN fifo'[r] : i < l /\ fifo'[r][l] = e}
      <4>2. \A i \in DOMAIN fifo[r] : i \in DOMAIN fifo'[r] /\ fifo'[r][i] = fifo[r][i]
        BY <4>1, <2>3, <1>3
      <4>3. \A l \in DOMAIN fifo'[r] : fifo'[r][l] = e => l \in DOMAIN fifo[r]
        BY <4>1, <2>3, <2>1, <1>3
      <4>4. \A i \in DOMAIN fifo'[r], l \in DOMAIN fifo[r] : i < l => i \in DOMAIN fifo[r]
        BY <4>1, <2>3, <1>3
      <4>5. I = J /\ \A i \in I : fifo'[r][i] = fifo[r][i]
        BY <4>2, <4>3, <4>4
      <4>6. {fifo'[r][i] : i \in J} = {fifo[r][i] : i \in I}
        BY <4>5
      <4> QED BY <4>6, <3>1, <3>2, <3>3
    <3> QED BY <3>4, <3>5
  <2> QED BY <2>1, <2>2, <2>5, <1>10 DEF Structure, StartedIsFree
<1>14. FinalEventMeansDone'
  <2> SUFFICES ASSUME NEW d \in Calls
               PROVE  /\ ev'[<<d, "MAIN">>] = "complete"
                           => \A s \in KernelsOf(plan[d]) : ev'[<<d, s>>] = "complete"
                      /\ host[d] # "threw"
    BY <1>6, KernelsOfCall DEF FinalEventMeansDone, Final
  <2>1. host[d] # "threw"
    BY DEF Structure, FinalEventMeansDone
  <2>2. \A s \in KType : <<d, s>> \in Command
    BY DEF Command
  <2>3. ev'[<<d, "MAIN">>] = "complete" => ev[<<d, "MAIN">>] = "complete"
    BY <2>2, <1>6, <1>11 DEF Structure, TypeOK, KType
  <2>4. ev[<<d, "MAIN">>] = "complete"
          => \A s \in KernelsOf(plan[d]) : ev[<<d, s>>] = "complete"
    BY KernelsOfCall DEF Structure, FinalEventMeansDone
  <2>5. \A s \in KernelsOf(plan[d]) : s \in KType
    BY KernelsOfCall
  <2> QED BY <2>1, <2>2, <2>3, <2>4, <2>5, <1>10
<1> QED BY <1>8, <1>9, <1>12, <1>13, <1>14 DEF Structure

(* A command that moves from one status to the next one, and what follows  *)
(* for the commands that had begun.                                        *)
LEMMA StartStep == ASSUME Structure, NEW k \in Command, Start(k) PROVE Structure'
<1>1. /\ ev[k] = "queued" /\ ev' = [ev EXCEPT ![k] = "running"]
      /\ \A e \in need[k] : ev[e] = "complete"
      /\ plan[k[1]].queue \in InOrder => \A e \in Ahead(k) : ev[e] = "complete"
      /\ UNCHANGED <<plan, host, tried, fifo, need, mem, ws>>
  BY DEF Start
<1>2. \A e \in Command : e # k => ev'[e] = ev[e]
  BY <1>1 DEF Structure, TypeOK
<1>3. ev'[k] = "running"
  BY <1>1 DEF Structure, TypeOK
<1>4. \A e \in Command : /\ ev'[e] = "none" <=> ev[e] = "none"
                         /\ ev'[e] = "complete" <=> ev[e] = "complete"
  BY <1>1, <1>2, <1>3
<1>5. TypeOK'
  BY <1>1 DEF Structure, TypeOK
<1>6. Enqueued'
  <2>1. \A c \in Calls, t \in KType : ev'[<<c, t>>] = "none" <=> ev[<<c, t>>] = "none"
    BY <1>4 DEF Command
  <2> QED BY <2>1, <1>1 DEF Structure, Enqueued, WaitList, Final
<1>7. QueueOrder'
  <2>1. \A q \in Queues : \A i \in DOMAIN fifo[q] : fifo[q][i] \in Command
    BY DEF Structure, TypeOK
  <2>2. /\ \A q \in Queues : \A i \in DOMAIN fifo[q] : ev'[fifo[q][i]] # "none"
        /\ \A e \in Command : ev'[e] # "none" => ev[e] # "none"
    BY <2>1, <1>4 DEF Structure, QueueOrder
  <2> QED BY <2>2, <1>1 DEF Structure, QueueOrder
<1>8. StartedIsFree'
  <2>1. \A e \in Command : need[e] \subseteq Command
    BY DEF Structure, TypeOK
  <2>2. \A e \in Command : Ahead(e)' = Ahead(e) /\ Ahead(e) \subseteq Command
    BY <1>1, AheadType DEF Ahead, Structure
  <2> QED BY <2>1, <2>2, <1>1, <1>2, <1>4 DEF Start, Structure, StartedIsFree
<1>9. FinalEventMeansDone'
  <2>1. \A c \in Calls, t \in KType : ev'[<<c, t>>] = "complete" <=> ev[<<c, t>>] = "complete"
    BY <1>4 DEF Command
  <2>2. \A c \in Calls : \A t \in KernelsOf(plan[c]) : t \in KType
    BY KernelsOfCall
  <2>3. \A c \in Calls : Final(c) = <<c, "MAIN">> /\ Final(c)' = Final(c)
    BY <1>1, KernelsOfCall DEF Final
  <2> QED BY <2>1, <2>2, <2>3, <1>1 DEF Structure, FinalEventMeansDone, KType
<1> QED BY <1>5, <1>6, <1>7, <1>8, <1>9 DEF Structure

(* A kernel that completes was running, and its event is complete for      *)
(* good.                                                                   *)
LEMMA CompleteStep ==
  ASSUME Structure, NEW c \in Calls, NEW t \in KType, Complete(<<c, t>>),
         DOMAIN mem' = Buffers, DOMAIN ws' = Workspaces
  PROVE  Structure'
<1> DEFINE k == <<c, t>>
<1>1. /\ k \in Command /\ ev[k] = "running" /\ ev' = [ev EXCEPT ![k] = "complete"]
      /\ UNCHANGED <<plan, host, tried, fifo, need>>
  BY DEF Complete, Command
<1>2. \A e \in Command : e # k => ev'[e] = ev[e]
  BY <1>1 DEF Structure, TypeOK
<1>3. ev'[k] = "complete"
  BY <1>1 DEF Structure, TypeOK
<1>4. \A e \in Command : /\ ev'[e] = "none" <=> ev[e] = "none"
                         /\ ev[e] = "complete" => ev'[e] = "complete"
                         /\ ev'[e] \in {"running", "complete"} => ev[e] \in {"running", "complete"}
  BY <1>1, <1>2, <1>3
<1> HIDE DEF k
<1>5. TypeOK'
  BY <1>1 DEF Structure, TypeOK
<1>6. Enqueued'
  <2>1. \A d \in Calls, s \in KType : ev'[<<d, s>>] = "none" <=> ev[<<d, s>>] = "none"
    BY <1>4 DEF Command
  <2> QED BY <2>1, <1>1 DEF Structure, Enqueued, WaitList, Final
<1>7. QueueOrder'
  <2>1. \A q \in Queues : \A i \in DOMAIN fifo[q] : fifo[q][i] \in Command
    BY DEF Structure, TypeOK
  <2>2. /\ \A q \in Queues : \A i \in DOMAIN fifo[q] : ev'[fifo[q][i]] # "none"
        /\ \A e \in Command : ev'[e] # "none" => ev[e] # "none"
    BY <2>1, <1>4 DEF Structure, QueueOrder
  <2> QED BY <2>2, <1>1 DEF Structure, QueueOrder
<1>8. StartedIsFree'
  <2>1. \A e \in Command : need[e] \subseteq Command
    BY DEF Structure, TypeOK
  <2>2. \A e \in Command : Ahead(e)' = Ahead(e) /\ Ahead(e) \subseteq Command
    BY <1>1, AheadType DEF Ahead, Structure
  <2> QED BY <2>1, <2>2, <1>1, <1>4 DEF Structure, StartedIsFree
<1>9. FinalEventMeansDone'
  <2> SUFFICES ASSUME NEW d \in Calls
               PROVE  /\ ev'[<<d, "MAIN">>] = "complete"
                           => \A s \in KernelsOf(plan[d]) : ev'[<<d, s>>] = "complete"
                      /\ host[d] # "threw"
    BY <1>1, KernelsOfCall DEF FinalEventMeansDone, Final
  <2>1. host[d] # "threw"
    BY DEF Structure, FinalEventMeansDone
  <2>2. /\ \A s \in KernelsOf(plan[d]) : s \in KType /\ <<d, s>> \in Command
        /\ "MAIN" \in KernelsOf(plan[d]) /\ Final(d) = <<d, "MAIN">>
    BY KernelsOfCall DEF Command
  <2>3. CASE k # <<d, "MAIN">>
    <3>1. ev'[<<d, "MAIN">>] = ev[<<d, "MAIN">>]
      BY <2>2, <2>3, <1>2
    <3> QED BY <3>1, <2>1, <2>2, <1>4 DEF Structure, FinalEventMeansDone
  <2>4. CASE k = <<d, "MAIN">>
    <3>1. "MAIN" \in tried[d] /\ need[k] = WaitList(d, "MAIN")
      BY <2>2, <2>4, <1>1 DEF Structure, Enqueued
    <3>2. \A s \in KernelsOf(plan[d]) \ {"MAIN"} : <<d, s>> \in need[k]
      BY <3>1, <2>2, WaitListType DEF Structure, TypeOK
    <3>3. \A s \in KernelsOf(plan[d]) \ {"MAIN"} : ev[<<d, s>>] = "complete"
      BY <3>2, <1>1 DEF Structure, StartedIsFree
    <3> QED BY <3>3, <2>1, <2>2, <2>4, <1>3, <1>4
  <2> QED BY <2>3, <2>4
<1> QED BY <1>5, <1>6, <1>7, <1>8, <1>9 DEF Structure

(* So does the end of each of the kernels.                                 *)
LEMMA FinishStep == ASSUME Structure, NEW c \in Calls, Finish(c) PROVE Structure'
<1>1. CASE FinishWSA(c)
  BY <1>1, CompleteStep DEF FinishWSA, Structure, TypeOK, KType
<1>2. CASE FinishWSB(c)
  BY <1>2, CompleteStep DEF FinishWSB, Structure, TypeOK, KType
<1>3. CASE FinishBETAC(c)
  BY <1>3, CompleteStep DEF FinishBETAC, Structure, TypeOK, KType
<1>4. CASE FinishMAIN(c)
  BY <1>4, CompleteStep DEF FinishMAIN, Structure, TypeOK, KType
<1> QED BY <1>1, <1>2, <1>3, <1>4 DEF Finish

(* Every step keeps the order of the queue and of its events.              *)
LEMMA NextStructure == Structure /\ [Next]_vars => Structure'
<1> SUFFICES ASSUME Structure, [Next]_vars PROVE Structure'
  OBVIOUS
<1>1. CASE UNCHANGED vars
  BY <1>1 DEF vars, Structure, TypeOK, Enqueued, QueueOrder, StartedIsFree,
              FinalEventMeansDone, WaitList, Final, Ahead
<1>2. ASSUME NEW c \in Calls, Host(c) PROVE Structure'
  BY <1>2, BeginStep, EnqueueStep, ReturnStep, ReadTimesStep DEF Host
<1>3. ASSUME NEW c \in Calls, Finish(c) PROVE Structure'
  BY <1>3, FinishStep
<1>4. ASSUME NEW k \in Command, Start(k) PROVE Structure'
  BY <1>4, StartStep
<1> QED BY <1>1, <1>2, <1>3, <1>4 DEF Next

-----------------------------------------------------------------------------
(* How calls are ordered. *)

(* A kernel of the call has begun; the call is over.                       *)
Begun(c) == \E t \in KType : ev[<<c, t>>] \in {"running", "complete"}

Over == {c \in Calls : ev[Final(c)] = "complete"}

(* What a kernel has waited for is over when it runs.                      *)
LEMMA OverIsDone ==
  ASSUME Structure, NEW c \in Over
  PROVE  /\ c \in Calls /\ ev[<<c, "MAIN">>] = "complete"
         /\ \A t \in KType : ev[<<c, t>>] # "none" => ev[<<c, t>>] = "complete"
<1>1. c \in Calls /\ Final(c) = <<c, "MAIN">> /\ ev[Final(c)] = "complete"
  BY KernelsOfCall DEF Over
<1>2. \A t \in KernelsOf(plan[c]) : ev[<<c, t>>] = "complete"
  BY <1>1 DEF Structure, FinalEventMeansDone
<1>3. \A t \in KType : ev[<<c, t>>] # "none" => t \in KernelsOf(plan[c])
  BY <1>1 DEF Structure, Enqueued
<1> QED BY <1>1, <1>2, <1>3

(* A call that has begun finds over what it waits for.                     *)
LEMMA AwaitedAreOver ==
  ASSUME Structure, NEW d \in Calls, Begun(d)
  PROVE  Awaited(plan, d) \subseteq Over
<1> PICK t \in KType : ev[<<d, t>>] \in {"running", "complete"}
  BY DEF Begun
<1>1. plan \in Plan /\ plan[d] \in Job /\ <<d, t>> \in Command
  BY DEF Structure, TypeOK, Plan, Command
<1>2. t \in tried[d] /\ t \in KernelsOf(plan[d]) /\ need[<<d, t>>] = WaitList(d, t)
  BY DEF Structure, Enqueued
<1>3. ASSUME NEW c \in plan[d].waits PROVE c \in Over
  <2>1. c \in Calls /\ Final(c) \in need[<<d, t>>]
    BY <1>1, <1>2, WaitListType
  <2> QED BY <2>1, <1>1 DEF Structure, StartedIsFree, Over
<1>4. ASSUME NEW c \in plan[d].after, plan[c].queue = plan[d].queue, plan[d].queue \in InOrder
      PROVE  c \in Over
  <2> DEFINE q == plan[d].queue
  <2>1. c \in Calls /\ host[d] # "idle" /\ plan[c] \in Job
    BY <1>1, <1>2 DEF Structure, Enqueued, Job, Plan
  <2>2. host[c] = "returned" /\ tried[c] = KernelsOf(plan[c])
    BY <2>1 DEF Structure, Enqueued
  <2>3. /\ Final(c) = <<c, "MAIN">> /\ "MAIN" \in tried[c] /\ "MAIN" \in KType
        /\ Final(c) \in Command
    BY <2>1, <2>2, KernelsOfCall DEF KType, Command
  <2>4. ev[<<c, "MAIN">>] # "none"
    BY <2>1, <2>3 DEF Structure, Enqueued
  <2>5. PICK j \in DOMAIN fifo[q] : fifo[q][j] = <<c, "MAIN">>
    <3>1. <<c, "MAIN">>[1] = c
      OBVIOUS
    <3> QED BY <2>3, <2>4, <3>1, <1>4 DEF Structure, QueueOrder
  <2>6. PICK i \in DOMAIN fifo[q] : fifo[q][i] = <<d, t>>
    <3>1. <<d, t>>[1] = d /\ ev[<<d, t>>] # "none"
      OBVIOUS
    <3> QED BY <1>1, <3>1 DEF Structure, QueueOrder
  <2>7. j < i
    <3>1. q \in Queues /\ fifo[q][j][1] \in plan[fifo[q][i][1]].after
      BY <1>1, <1>4, <2>5, <2>6 DEF Job
    <3> QED BY <3>1 DEF Structure, QueueOrder
  <2>8. Final(c) \in Ahead(<<d, t>>)
    BY <2>3, <2>5, <2>6, <2>7 DEF Ahead
  <2> QED BY <2>1, <2>8, <1>1, <1>4 DEF Structure, StartedIsFree, Over
<1> QED BY <1>3, <1>4 DEF Awaited

(* Hence all of Before is over, for the calls that are over are closed.    *)
LEMMA BeforeIsOver ==
  ASSUME Structure, NEW d \in Calls, Begun(d)
  PROVE  Before(plan, d) \subseteq Over
<1>1. Over \in SUBSET Calls /\ Awaited(plan, d) \subseteq Over
  BY AwaitedAreOver DEF Over
<1>2. \A c \in Over : c \in Calls /\ Begun(c)
  BY OverIsDone DEF Begun, KType
<1>3. Closed(plan, Over)
  BY <1>2, AwaitedAreOver DEF Closed
<1> QED BY <1>1, <1>3 DEF Before

(* Of two calls that share memory, one begins when the other is over.      *)
LEMMA OneAfterTheOther ==
  ASSUME Structure, Disciplined(plan), NEW c \in Calls, NEW d \in Calls, c # d,
         NEW s \in KType, NEW t \in KType, ev[<<c, s>>] # "none", ev[<<d, t>>] # "none",
         Conflict(plan, c, s, d, t), Begun(c), Begun(d)
  PROVE  c \in Over \/ d \in Over
<1>1. s \in KernelsOf(plan[c]) /\ t \in KernelsOf(plan[d])
  BY DEF Structure, Enqueued
<1>2. c \in Before(plan, d) \/ d \in Before(plan, c)
  BY <1>1 DEF Disciplined
<1> QED BY <1>2, BeforeIsOver

(* Of the kernels of one call only the main kernel touches what another    *)
(* one writes.                                                             *)
LEMMA ConflictsOfOneCall ==
  ASSUME NEW c \in Calls, NEW s \in KType \ {"MAIN"}, NEW t \in KType \ {"MAIN"}, s # t
  PROVE  ~Conflict(plan, c, s, c, t)
BY DEF Conflict, Disturbs, Reads, Writes, KType

(* Two commands that conflict do not run at a time, where each plan waits  *)
(* for its conflicts.                                                      *)
LEMMA NoOverlap ==
  Structure /\ Disciplined(plan) => NoConflictingOverlap
<1> SUFFICES ASSUME Structure, Disciplined(plan),
                    NEW c \in Calls, NEW s \in KType, NEW d \in Calls, NEW t \in KType,
                    ev[<<c, s>>] = "running", ev[<<d, t>>] = "running", <<c, s>> # <<d, t>>,
                    Conflict(plan, c, s, d, t)
             PROVE  FALSE
  BY DEF NoConflictingOverlap, Command
<1>1. Begun(c) /\ Begun(d)
  BY DEF Begun
<1>2. CASE c # d
  <2>1. c \in Over \/ d \in Over
    BY <1>1, <1>2, OneAfterTheOther
  <2> QED BY <2>1, OverIsDone
<1>3. CASE c = d
  <2>1. s = "MAIN" \/ t = "MAIN"
    BY <1>3, ConflictsOfOneCall
  <2>2. ASSUME NEW r \in KType, NEW m \in KType, m = "MAIN", r # "MAIN",
               ev[<<c, r>>] = "running", ev[<<c, m>>] = "running"
        PROVE  FALSE
    <3>1. /\ r \in KernelsOf(plan[c]) /\ "MAIN" \in KernelsOf(plan[c])
          /\ need[<<c, "MAIN">>] = WaitList(c, "MAIN") /\ <<c, "MAIN">> \in Command
      BY <2>2 DEF Structure, Enqueued, Command
    <3>2. <<c, r>> \in need[<<c, "MAIN">>]
      BY <3>1, <2>2, WaitListType DEF Structure, TypeOK
    <3> QED BY <3>1, <3>2, <2>2 DEF Structure, StartedIsFree
  <2> QED BY <1>3, <2>1, <2>2
<1> QED BY <1>2, <1>3

-----------------------------------------------------------------------------
(* What is in memory. *)

(* While a call is not over, nothing that another such call has prepared   *)
(* is in the way of its kernels.                                           *)
LEMMA Apart ==
  ASSUME Structure, Disciplined(plan), NEW c \in Calls, NEW d \in Calls, c # d,
         NEW s \in KType, NEW t \in KType, Prepared(d, t),
         ev[<<c, s>>] \in {"running", "complete"}, ev[<<c, "MAIN">>] # "complete"
  PROVE  ~Conflict(plan, c, s, d, t)
<1>1. Begun(c) /\ Begun(d) /\ ev[<<c, s>>] # "none" /\ ev[<<d, t>>] # "none"
  BY DEF Begun, Prepared
<1>2. c \notin Over /\ d \notin Over
  BY OverIsDone DEF Prepared
<1> QED BY <1>1, <1>2, OneAfterTheOther

(* Calls that pack into the same workspace conflict, and a call that       *)
(* writes a matrix conflicts with the packing of it and with the kernels   *)
(* that write it too.                                                      *)
LEMMA PackingConflicts ==
  ASSUME NEW c \in Calls, NEW d \in Calls, c # d, plan[c].w = plan[d].w,
         NEW s \in {"WSA", "WSB"}, NEW t \in {"WSA", "WSB"}
  PROVE  Conflict(plan, c, s, d, t)
<1>1. \A r \in {"WSA", "WSB"} : \E m \in Writes(r) : m \in {"WA", "WB"}
  BY DEF Writes
<1>2. \A j : Place(j, "WA") = j.w /\ Place(j, "WB") = j.w
  BY DEF Place
<1> QED BY <1>1, <1>2 DEF Conflict, Disturbs

(* Two kernels of a call of which one writes what the other touches        *)
(* conflict.                                                               *)
LEMMA WritingConflicts ==
  ASSUME NEW c \in Calls, NEW d \in Calls, c # d, NEW s \in {"BETAC", "MAIN"}
  PROVE  /\ plan[c].c = plan[d].a => Conflict(plan, c, s, d, "WSA")
         /\ plan[c].c = plan[d].b => Conflict(plan, c, s, d, "WSB")
         /\ plan[c].c = plan[d].c => /\ Conflict(plan, c, s, d, "BETAC")
                                     /\ Conflict(plan, c, s, d, "MAIN")
         /\ plan[c].c = plan[d].a /\ plan[d].hp.wosA = "UNUSED" => Conflict(plan, c, s, d, "MAIN")
         /\ plan[c].c = plan[d].b /\ plan[d].hp.wosB = "UNUSED" => Conflict(plan, c, s, d, "MAIN")
<1>1. Writes(s) = {"C"}
  BY DEF Writes
<1>2. \A j : Place(j, "A") = j.a /\ Place(j, "B") = j.b /\ Place(j, "C") = j.c
  BY DEF Place
<1>3. /\ "A" \in Reads(plan[d].hp, "WSA") /\ "B" \in Reads(plan[d].hp, "WSB")
      /\ "C" \in Reads(plan[d].hp, "BETAC") /\ "C" \in Reads(plan[d].hp, "MAIN")
      /\ plan[d].hp.wosA = "UNUSED" => "A" \in Reads(plan[d].hp, "MAIN")
      /\ plan[d].hp.wosB = "UNUSED" => "B" \in Reads(plan[d].hp, "MAIN")
  BY DEF Reads
<1> QED BY <1>1, <1>2, <1>3 DEF Conflict, Disturbs

(* So what is prepared survives while another call runs.                   *)
LEMMA KeepsWorkspace ==
  ASSUME Structure, Disciplined(plan), NEW c \in Calls, NEW s \in {"WSA", "WSB"},
         ev[<<c, s>>] = "running", ev[<<c, "MAIN">>] # "complete",
         NEW d \in Calls \ {c}, NEW t \in {"WSA", "WSB"}, Prepared(d, t)
  PROVE  plan[d].w # plan[c].w
<1>1. s \in KType /\ t \in KType
  BY DEF KType
<1>2. ~Conflict(plan, c, s, d, t)
  BY <1>1, Apart
<1> QED BY <1>2, PackingConflicts

(* A kernel that does not write C leaves the matrix as it was.             *)
LEMMA KeepsMatrices ==
  ASSUME Structure, Disciplined(plan), NEW c \in Calls, NEW s \in {"BETAC", "MAIN"},
         ev[<<c, s>>] = "running", ev[<<c, "MAIN">>] # "complete", NEW d \in Calls \ {c}
  PROVE  /\ Prepared(d, "WSA") => plan[d].a # plan[c].c
         /\ Prepared(d, "WSB") => plan[d].b # plan[c].c
         /\ Prepared(d, "BETAC") => plan[d].c # plan[c].c
<1>1. s \in KType /\ "WSA" \in KType /\ "WSB" \in KType /\ "BETAC" \in KType
  BY DEF KType
<1>2. \A t \in {"WSA", "WSB", "BETAC"} : Prepared(d, t) => ~Conflict(plan, c, s, d, t)
  BY <1>1, Apart
<1> QED BY <1>2, WritingConflicts

(* What a call reads is not scaled by another one meanwhile.               *)
LEMMA ReadsUnscaled ==
  ASSUME Structure, Disciplined(plan), NEW c \in Calls,
         NEW t \in KType, ev[<<c, t>>] \in {"running", "complete"}, ev[<<c, "MAIN">>] # "complete",
         NEW d \in Calls \ {c}, Prepared(d, "BETAC")
  PROVE  /\ t = "WSA" => plan[d].c # plan[c].a
         /\ t = "WSB" => plan[d].c # plan[c].b
         /\ t \in {"BETAC", "MAIN"} => plan[d].c # plan[c].c
         /\ t = "MAIN" /\ plan[c].hp.wosA = "UNUSED" => plan[d].c # plan[c].a
         /\ t = "MAIN" /\ plan[c].hp.wosB = "UNUSED" => plan[d].c # plan[c].b
<1>1. "BETAC" \in KType
  BY DEF KType
<1>2. ~Conflict(plan, c, t, d, "BETAC")
  BY <1>1, Apart
<1>3. ~Conflict(plan, d, "BETAC", c, t)
  BY <1>2 DEF Conflict
<1> QED BY <1>3, WritingConflicts

(* Where the host or a queue only moves on, memory means what it meant.    *)
LEMMA SameContents ==
  ASSUME Contents, UNCHANGED <<plan, mem, ws>>,
         \A c \in Calls, t \in KType : ev'[<<c, t>>] = "complete" <=> ev[<<c, t>>] = "complete"
  PROVE  Contents'
<1>1. \A c \in Calls, t \in KType : Prepared(c, t)' <=> Prepared(c, t)
  BY DEF Prepared, KType
<1>2. PackedIsKept'
  BY <1>1 DEF Contents, PackedIsKept, KType
<1>3. ScaledIsAwaited'
  BY <1>1 DEF Contents, ScaledIsAwaited, KType
<1> QED BY <1>2, <1>3 DEF Contents

(* What a kernel changes when it comes to its end.                         *)
LEMMA Completed ==
  ASSUME Structure, NEW c \in Calls, NEW t \in KType, Complete(<<c, t>>)
  PROVE  /\ plan' = plan /\ plan \in Plan /\ c \notin Over
         /\ t \in KernelsOf(plan[c]) /\ ev[<<c, t>>] = "running" /\ ev[<<c, "MAIN">>] # "complete"
         /\ \A d \in Calls, s \in KType :
              ev'[<<d, s>>] = IF d = c /\ s = t THEN "complete" ELSE ev[<<d, s>>]
         /\ t # "MAIN" => \A d \in Calls, s \in KType :
              Prepared(d, s)' <=> Prepared(d, s) \/ (d = c /\ s = t)
         /\ t = "MAIN" => \A d \in Calls, s \in KType :
              Prepared(d, s)' <=> Prepared(d, s) /\ d # c
<1>1. /\ plan' = plan /\ ev[<<c, t>>] = "running" /\ <<c, t>> \in Command
      /\ ev' = [ev EXCEPT ![<<c, t>>] = "complete"]
      /\ ev \in [Command -> {"none", "queued", "running", "complete"}]
  BY DEF Complete, Command, Structure, TypeOK
<1>2. \A d \in Calls, s \in KType :
        ev'[<<d, s>>] = IF d = c /\ s = t THEN "complete" ELSE ev[<<d, s>>]
  BY <1>1 DEF Command
<1>3. t \in KernelsOf(plan[c]) /\ plan \in Plan
  BY <1>1 DEF Structure, Enqueued, TypeOK
<1>4. c \notin Over /\ ev[<<c, "MAIN">>] # "complete"
  BY <1>1, OverIsDone, KernelsOfCall DEF Over
<1>5. "MAIN" \in KType
  BY DEF KType
<1> QED BY <1>1, <1>2, <1>3, <1>4, <1>5 DEF Prepared

(* The packed copy of A is whole when its kernel ends.                     *)
LEMMA FinishWSAContents ==
  ASSUME Structure, Disciplined(plan), Contents, NEW c \in Calls, FinishWSA(c)
  PROVE  Contents'
<1> DEFINE w == plan[c].w
<1>1. /\ Complete(<<c, "WSA">>) /\ mem' = mem /\ "WSA" \in KType /\ DOMAIN ws = Workspaces
      /\ w \in Workspaces
      /\ ws' = [ws EXCEPT ![w] = [owner |-> c, WA |-> mem[plan[c].a],
                                   WB |-> IF ws[w].owner = c THEN ws[w].WB ELSE Garbage]]
  BY DEF FinishWSA, KType, Structure, TypeOK, Plan, Job
<1>2. /\ plan' = plan /\ ev[<<c, "WSA">>] = "running" /\ ev[<<c, "MAIN">>] # "complete"
      /\ \A d \in Calls, s \in KType :
           Prepared(d, s)' <=> Prepared(d, s) \/ (d = c /\ s = "WSA")
  BY <1>1, Completed
<1>3. ws'[w] = [owner |-> c, WA |-> mem[plan[c].a],
                WB |-> IF ws[w].owner = c THEN ws[w].WB ELSE Garbage]
  BY <1>1
<1>4. \A d \in Calls \ {c}, s \in {"WSA", "WSB"} : Prepared(d, s) => plan[d].w # w
  BY <1>2, KeepsWorkspace
<1>5. \A x \in Workspaces : x # w => ws'[x] = ws[x]
  BY <1>1
<1>6. \A d \in Calls : plan[d].w \in Workspaces
  BY DEF Structure, TypeOK, Plan, Job
<1>7. PackedIsKept'
  <2> SUFFICES ASSUME NEW d \in Calls
               PROVE  /\ Prepared(d, "WSA")' => /\ ws'[plan[d].w].owner = d
                                                /\ ws'[plan[d].w].WA = mem[plan[d].a]
                      /\ Prepared(d, "WSB")' => /\ ws'[plan[d].w].owner = d
                                                /\ ws'[plan[d].w].WB = mem[plan[d].b]
    BY <1>1, <1>2 DEF PackedIsKept
  <2>1. CASE d = c
    BY <2>1, <1>2, <1>3 DEF Contents, PackedIsKept, KType
  <2>2. CASE d # c
    BY <2>2, <1>2, <1>4, <1>5, <1>6 DEF Contents, PackedIsKept, KType
  <2> QED BY <2>1, <2>2
<1>8. ScaledIsAwaited'
  <2>1. \A d \in Calls : Prepared(d, "BETAC")' <=> Prepared(d, "BETAC")
    BY <1>2 DEF KType
  <2> QED BY <2>1, <1>1, <1>2 DEF Contents, ScaledIsAwaited
<1> QED BY <1>7, <1>8 DEF Contents

(* The packed copy of B is whole when its kernel ends.                     *)
LEMMA FinishWSBContents ==
  ASSUME Structure, Disciplined(plan), Contents, NEW c \in Calls, FinishWSB(c)
  PROVE  Contents'
<1> DEFINE w == plan[c].w
<1>1. /\ Complete(<<c, "WSB">>) /\ mem' = mem /\ "WSB" \in KType /\ DOMAIN ws = Workspaces
      /\ w \in Workspaces
      /\ ws' = [ws EXCEPT ![w] = [owner |-> c, WA |-> IF ws[w].owner = c THEN ws[w].WA ELSE Garbage,
                                   WB |-> mem[plan[c].b]]]
  BY DEF FinishWSB, KType, Structure, TypeOK, Plan, Job
<1>2. /\ plan' = plan /\ ev[<<c, "WSB">>] = "running" /\ ev[<<c, "MAIN">>] # "complete"
      /\ \A d \in Calls, s \in KType :
           Prepared(d, s)' <=> Prepared(d, s) \/ (d = c /\ s = "WSB")
  BY <1>1, Completed
<1>3. ws'[w] = [owner |-> c, WA |-> IF ws[w].owner = c THEN ws[w].WA ELSE Garbage,
                WB |-> mem[plan[c].b]]
  BY <1>1
<1>4. \A d \in Calls \ {c}, s \in {"WSA", "WSB"} : Prepared(d, s) => plan[d].w # w
  BY <1>2, KeepsWorkspace
<1>5. \A x \in Workspaces : x # w => ws'[x] = ws[x]
  BY <1>1
<1>6. \A d \in Calls : plan[d].w \in Workspaces
  BY DEF Structure, TypeOK, Plan, Job
<1>7. PackedIsKept'
  <2> SUFFICES ASSUME NEW d \in Calls
               PROVE  /\ Prepared(d, "WSA")' => /\ ws'[plan[d].w].owner = d
                                                /\ ws'[plan[d].w].WA = mem[plan[d].a]
                      /\ Prepared(d, "WSB")' => /\ ws'[plan[d].w].owner = d
                                                /\ ws'[plan[d].w].WB = mem[plan[d].b]
    BY <1>1, <1>2 DEF PackedIsKept
  <2>1. CASE d = c
    BY <2>1, <1>2, <1>3 DEF Contents, PackedIsKept, KType
  <2>2. CASE d # c
    BY <2>2, <1>2, <1>4, <1>5, <1>6 DEF Contents, PackedIsKept, KType
  <2> QED BY <2>1, <2>2
<1>8. ScaledIsAwaited'
  <2>1. \A d \in Calls : Prepared(d, "BETAC")' <=> Prepared(d, "BETAC")
    BY <1>2 DEF KType
  <2> QED BY <2>1, <1>1, <1>2 DEF Contents, ScaledIsAwaited
<1> QED BY <1>7, <1>8 DEF Contents

(* A matrix that nobody has scaled looks the same in the abstract.         *)
LEMMA NotScaled ==
  ASSUME Contents, NEW x \in Buffers,
         \A d \in Calls : Prepared(d, "BETAC") => plan[d].c # x
  PROVE  mem[x][1] # "beta" /\ Unscaled(mem[x]) = mem[x]
BY DEF Contents, ScaledIsAwaited, Unscaled

(* C has been scaled once when the kernel of beta ends.                    *)
LEMMA FinishBETACContents ==
  ASSUME Structure, Disciplined(plan), Contents, NEW c \in Calls, FinishBETAC(c)
  PROVE  /\ Contents'
         /\ \A x \in Buffers : Unscaled(mem'[x]) = Unscaled(mem[x])
<1> DEFINE x == plan[c].c
<1>1. /\ Complete(<<c, "BETAC">>) /\ ws' = ws /\ "BETAC" \in KType /\ DOMAIN mem = Buffers
      /\ plan[c] \in Job /\ x \in Buffers /\ x \notin {plan[c].a, plan[c].b}
      /\ mem' = [mem EXCEPT ![x] = ScaleBy(c, plan[c].beta, mem[x])]
  BY DEF FinishBETAC, KType, Structure, TypeOK, Plan, Job
<1>2. /\ plan' = plan /\ ev[<<c, "BETAC">>] = "running" /\ ev[<<c, "MAIN">>] # "complete"
      /\ "BETAC" \in KernelsOf(plan[c])
      /\ \A d \in Calls, s \in KType :
           Prepared(d, s)' <=> Prepared(d, s) \/ (d = c /\ s = "BETAC")
  BY <1>1, Completed
<1>3. plan[c].beta # "IsOne"
  BY <1>2 DEF KernelsOf, Blobs
<1>4. mem[x][1] # "beta" /\ Unscaled(mem[x]) = mem[x]
  <2>1. ~Prepared(c, "BETAC")
    BY <1>2 DEF Prepared
  <2>2. \A d \in Calls : Prepared(d, "BETAC") => plan[d].c # x
    BY <2>1, <1>1, <1>2, KeepsMatrices
  <2> QED BY <2>2, <1>1, NotScaled
<1>5. mem'[x] = <<"beta", c, mem[x]>> /\ mem'[x][1] = "beta" /\ Unscaled(mem'[x]) = mem[x]
  BY <1>1, <1>3 DEF ScaleBy, Unscaled
<1>6. \A y \in Buffers : y # x => mem'[y] = mem[y]
  BY <1>1
<1>7. \A d \in Calls \ {c} : /\ Prepared(d, "WSA") => plan[d].a # x
                             /\ Prepared(d, "WSB") => plan[d].b # x
                             /\ Prepared(d, "BETAC") => plan[d].c # x
  BY <1>2, KeepsMatrices
<1>8. \A d \in Calls : plan[d].a \in Buffers /\ plan[d].b \in Buffers /\ plan[d].c \in Buffers
  BY DEF Structure, TypeOK, Plan, Job
<1>9. PackedIsKept'
  <2> SUFFICES ASSUME NEW d \in Calls
               PROVE  /\ Prepared(d, "WSA") => /\ ws[plan[d].w].owner = d
                                               /\ ws[plan[d].w].WA = mem'[plan[d].a]
                      /\ Prepared(d, "WSB") => /\ ws[plan[d].w].owner = d
                                               /\ ws[plan[d].w].WB = mem'[plan[d].b]
    BY <1>1, <1>2 DEF PackedIsKept, KType
  <2>1. /\ Prepared(d, "WSA") => mem'[plan[d].a] = mem[plan[d].a]
        /\ Prepared(d, "WSB") => mem'[plan[d].b] = mem[plan[d].b]
    <3>1. /\ Prepared(d, "WSA") => plan[d].a # x
          /\ Prepared(d, "WSB") => plan[d].b # x
      BY <1>1, <1>7
    <3> QED BY <3>1, <1>6, <1>8
  <2> QED BY <2>1 DEF Contents, PackedIsKept
<1>10. ScaledIsAwaited'
  <2>1. ASSUME NEW d \in Calls, Prepared(d, "BETAC")'
        PROVE  mem'[plan[d].c] = ScaleBy(d, "IsOther", Unscaled(mem'[plan[d].c]))
    <3>1. CASE d = c
      BY <3>1, <1>5 DEF ScaleBy
    <3>2. CASE d # c
      <4>1. Prepared(d, "BETAC")
        BY <3>2, <2>1, <1>1, <1>2
      <4>2. mem'[plan[d].c] = mem[plan[d].c]
        BY <3>2, <4>1, <1>6, <1>7, <1>8
      <4> QED BY <4>1, <4>2 DEF Contents, ScaledIsAwaited
    <3> QED BY <3>1, <3>2
  <2>2. ASSUME NEW y \in Buffers
        PROVE  /\ Unscaled(mem'[y])[1] # "beta"
               /\ mem'[y][1] = "beta" => \E d \in Calls : plan[d].c = y /\ Prepared(d, "BETAC")'
    <3>1. CASE y = x
      BY <3>1, <1>1, <1>2, <1>4, <1>5
    <3>2. CASE y # x
      <4>1. mem'[y] = mem[y]
        BY <3>2, <1>6
      <4> QED BY <4>1, <1>1, <1>2 DEF Contents, ScaledIsAwaited
    <3> QED BY <3>1, <3>2
  <2> QED BY <2>1, <2>2, <1>2 DEF ScaledIsAwaited
<1>11. \A y \in Buffers : Unscaled(mem'[y]) = Unscaled(mem[y])
  BY <1>4, <1>5, <1>6
<1> QED BY <1>9, <1>10, <1>11 DEF Contents

(* The main kernel adds to C what the call was to add, however it came by  *)
(* its operands, and whichever kernel scaled C.                            *)
LEMMA MainComputes ==
  ASSUME Structure, Disciplined(plan), Contents, NEW c \in Calls, FinishMAIN(c)
  PROVE  LET j == plan[c]
         IN mem' = [mem EXCEPT ![j.c] = Plus(c, Unscaled(mem[j.a]), Unscaled(mem[j.b]),
                                             ScaleBy(c, j.beta, Unscaled(mem[j.c])))]
<1> DEFINE j == plan[c]
           packed == ws[j.w]
           va == IF "WA" \notin Reads(j.hp, "MAIN") THEN mem[j.a]
                 ELSE IF packed.owner = c THEN packed.WA ELSE Garbage
           vb == IF "WB" \notin Reads(j.hp, "MAIN") THEN mem[j.b]
                 ELSE IF packed.owner = c THEN packed.WB ELSE Garbage
           vc == IF MainDoesBetaCInc(j.hp) THEN ScaleBy(c, j.beta, mem[j.c]) ELSE mem[j.c]
<1>1. /\ Complete(<<c, "MAIN">>) /\ "MAIN" \in KType /\ j \in Job
      /\ j.a \in Buffers /\ j.b \in Buffers /\ j.c \in Buffers /\ j.c \notin {j.a, j.b}
      /\ mem' = [mem EXCEPT ![j.c] = Plus(c, va, vb, vc)]
  BY DEF FinishMAIN, KType, Structure, TypeOK, Plan, Job
<1> HIDE DEF va, vb, vc
<1>2. /\ ev[<<c, "MAIN">>] = "running" /\ plan \in Plan /\ "MAIN" \in KernelsOf(j)
  BY <1>1, Completed
<1>3. \A s \in KernelsOf(j) \ {"MAIN"} : s \in KType /\ ev[<<c, s>>] = "complete" /\ Prepared(c, s)
  <2> TAKE s \in KernelsOf(j) \ {"MAIN"}
  <2>1. need[<<c, "MAIN">>] = WaitList(c, "MAIN") /\ <<c, "MAIN">> \in Command
    BY <1>1, <1>2 DEF Structure, Enqueued, Command
  <2>2. <<c, s>> \in need[<<c, "MAIN">>]
    BY <2>1, <1>2, WaitListType
  <2> QED BY <2>1, <2>2, <1>2, KernelsOfCall DEF Structure, StartedIsFree, Prepared
<1>4. va = Unscaled(mem[j.a])
  <2>1. CASE j.hp.wosA = "UNUSED"
    <3>1. "WA" \notin Reads(j.hp, "MAIN")
      BY <2>1 DEF Reads
    <3>2. \A d \in Calls : Prepared(d, "BETAC") => plan[d].c # j.a
      BY <2>1, <1>1, <1>2, ReadsUnscaled
    <3> QED BY <3>1, <3>2, <1>1, NotScaled DEF va
  <2>2. CASE j.hp.wosA # "UNUSED"
    <3>1. "WA" \in Reads(j.hp, "MAIN")
      BY <2>2 DEF Reads
    <3>2. "WSA" \in KernelsOf(j) \ {"MAIN"}
      BY <2>2 DEF KernelsOf, Blobs, BundleOf, KType
    <3>3. packed.owner = c /\ packed.WA = mem[j.a]
      BY <3>2, <1>3 DEF Contents, PackedIsKept
    <3>4. \A d \in Calls : Prepared(d, "BETAC") => plan[d].c # j.a
      BY <3>2, <1>1, <1>2, <1>3, ReadsUnscaled
    <3> QED BY <3>1, <3>3, <3>4, <1>1, NotScaled DEF va
  <2> QED BY <2>1, <2>2
<1>5. vb = Unscaled(mem[j.b])
  <2>1. CASE j.hp.wosB = "UNUSED"
    <3>1. "WB" \notin Reads(j.hp, "MAIN")
      BY <2>1 DEF Reads
    <3>2. \A d \in Calls : Prepared(d, "BETAC") => plan[d].c # j.b
      BY <2>1, <1>1, <1>2, ReadsUnscaled
    <3> QED BY <3>1, <3>2, <1>1, NotScaled DEF vb
  <2>2. CASE j.hp.wosB # "UNUSED"
    <3>1. "WB" \in Reads(j.hp, "MAIN")
      BY <2>2 DEF Reads
    <3>2. "WSB" \in KernelsOf(j) \ {"MAIN"}
      BY <2>2 DEF KernelsOf, Blobs, BundleOf, KType
    <3>3. packed.owner = c /\ packed.WB = mem[j.b]
      BY <3>2, <1>3 DEF Contents, PackedIsKept
    <3>4. \A d \in Calls : Prepared(d, "BETAC") => plan[d].c # j.b
      BY <3>2, <1>1, <1>2, <1>3, ReadsUnscaled
    <3> QED BY <3>1, <3>3, <3>4, <1>1, NotScaled DEF vb
  <2> QED BY <2>1, <2>2
<1>6. vc = ScaleBy(c, j.beta, Unscaled(mem[j.c]))
  <2>1. \A d \in Calls \ {c} : Prepared(d, "BETAC") => plan[d].c # j.c
    BY <1>1, <1>2, ReadsUnscaled
  <2>2. CASE "BETAC" \in KernelsOf(j)
    <3>1. ~MainDoesBetaCInc(j.hp) /\ j.beta = "IsOther"
      BY <2>2, <1>1 DEF KernelsOf, Blobs, BundleOf, Job, BetaType
    <3>2. Prepared(c, "BETAC")
      BY <2>2, <1>3
    <3>3. mem[j.c] = ScaleBy(c, "IsOther", Unscaled(mem[j.c]))
      BY <3>2 DEF Contents, ScaledIsAwaited
    <3> QED BY <3>1, <3>3 DEF vc
  <2>3. CASE "BETAC" \notin KernelsOf(j)
    <3>1. MainDoesBetaCInc(j.hp) \/ j.beta = "IsOne"
      BY <2>3, <1>1 DEF KernelsOf, Blobs, BundleOf, KType
    <3>2. ~Prepared(c, "BETAC")
      <4>1. ev[<<c, "BETAC">>] = "none"
        BY <2>3 DEF Structure, Enqueued, KType
      <4> QED BY <4>1 DEF Prepared
    <3>3. Unscaled(mem[j.c]) = mem[j.c]
      BY <2>1, <3>2, <1>1, NotScaled
    <3> QED BY <3>1, <3>3 DEF vc, ScaleBy
  <2> QED BY <2>2, <2>3
<1> QED BY <1>1, <1>4, <1>5, <1>6

(* C is what the call has promised when the main kernel ends.              *)
LEMMA FinishMAINContents ==
  ASSUME Structure, Disciplined(plan), Contents, NEW c \in Calls, FinishMAIN(c)
  PROVE  Contents'
<1> DEFINE x == plan[c].c
<1>1. /\ Complete(<<c, "MAIN">>) /\ ws' = ws /\ "MAIN" \in KType /\ DOMAIN mem = Buffers
      /\ x \in Buffers
  BY DEF FinishMAIN, KType, Structure, TypeOK, Plan, Job
<1>2. /\ plan' = plan /\ ev[<<c, "MAIN">>] = "running" /\ ev[<<c, "MAIN">>] # "complete"
      /\ \A d \in Calls, s \in KType : Prepared(d, s)' <=> Prepared(d, s) /\ d # c
  BY <1>1, Completed
<1>3. PICK va, vb, vc : mem' = [mem EXCEPT ![x] = Plus(c, va, vb, vc)]
  BY MainComputes
<1>4. mem'[x] = <<"plus", c, va, vb, vc>> /\ mem'[x][1] # "beta" /\ Unscaled(mem'[x])[1] # "beta"
  BY <1>1, <1>3 DEF Plus, Unscaled
<1>5. \A y \in Buffers : y # x => mem'[y] = mem[y]
  BY <1>1, <1>3
<1>6. \A d \in Calls \ {c} : /\ Prepared(d, "WSA") => plan[d].a # x
                             /\ Prepared(d, "WSB") => plan[d].b # x
                             /\ Prepared(d, "BETAC") => plan[d].c # x
  BY <1>2, KeepsMatrices
<1>7. \A d \in Calls : plan[d].a \in Buffers /\ plan[d].b \in Buffers /\ plan[d].c \in Buffers
  BY DEF Structure, TypeOK, Plan, Job
<1>8. PackedIsKept'
  <2> SUFFICES ASSUME NEW d \in Calls \ {c}
               PROVE  /\ Prepared(d, "WSA") => /\ ws[plan[d].w].owner = d
                                               /\ ws[plan[d].w].WA = mem'[plan[d].a]
                      /\ Prepared(d, "WSB") => /\ ws[plan[d].w].owner = d
                                               /\ ws[plan[d].w].WB = mem'[plan[d].b]
    BY <1>1, <1>2 DEF PackedIsKept, KType
  <2>1. /\ Prepared(d, "WSA") => mem'[plan[d].a] = mem[plan[d].a]
        /\ Prepared(d, "WSB") => mem'[plan[d].b] = mem[plan[d].b]
    BY <1>5, <1>6, <1>7
  <2> QED BY <2>1 DEF Contents, PackedIsKept
<1>9. ScaledIsAwaited'
  <2>1. ASSUME NEW d \in Calls, Prepared(d, "BETAC")'
        PROVE  mem'[plan[d].c] = ScaleBy(d, "IsOther", Unscaled(mem'[plan[d].c]))
    <3>1. d # c /\ Prepared(d, "BETAC")
      BY <2>1, <1>2 DEF KType
    <3>2. mem'[plan[d].c] = mem[plan[d].c]
      BY <3>1, <1>5, <1>6, <1>7
    <3> QED BY <3>1, <3>2 DEF Contents, ScaledIsAwaited
  <2>2. ASSUME NEW y \in Buffers
        PROVE  /\ Unscaled(mem'[y])[1] # "beta"
               /\ mem'[y][1] = "beta" => \E d \in Calls : plan[d].c = y /\ Prepared(d, "BETAC")'
    <3>1. CASE y = x
      BY <3>1, <1>4
    <3>2. CASE y # x
      <4>1. mem'[y] = mem[y]
        BY <3>2, <1>5
      <4>2. mem[y][1] = "beta" => \E d \in Calls : plan[d].c = y /\ Prepared(d, "BETAC")
        BY DEF Contents, ScaledIsAwaited
      <4>3. \A d \in Calls : plan[d].c = y => d # c
        BY <3>2
      <4> QED BY <4>1, <4>2, <4>3, <1>2 DEF Contents, ScaledIsAwaited, KType
    <3> QED BY <3>1, <3>2
  <2> QED BY <2>1, <2>2, <1>2 DEF ScaledIsAwaited
<1> QED BY <1>8, <1>9 DEF Contents

(* Before the first call nothing is packed and nothing is scaled.          *)
LEMMA InitContents == Init => Contents
<1> SUFFICES ASSUME Init PROVE Contents
  OBVIOUS
<1>1. \A c \in Calls, t \in KType : ~Prepared(c, t)
  BY DEF Init, Prepared, Command
<1>2. \A x \in Buffers : mem[x][1] # "beta" /\ Unscaled(mem[x]) = mem[x]
  BY DEF Init, Untouched, Unscaled
<1> QED BY <1>1, <1>2 DEF Contents, PackedIsKept, ScaledIsAwaited, KType

(* No kernel ends when a call is made or a kernel is started.              *)
NothingEnds ==
  /\ UNCHANGED <<plan, mem, ws>>
  /\ \A c \in Calls, t \in KType : ev'[<<c, t>>] = "complete" <=> ev[<<c, t>>] = "complete"

(* To the caller, nothing changes when a kernel is enqueued.               *)
LEMMA EnqueueEndsNothing ==
  ASSUME Structure, NEW c \in Calls, Enqueue(c)
  PROVE  NothingEnds
<1> DEFINE S == KernelsOf(plan[c])
<1> PICK t : t = NextOf(S, tried[c])
  OBVIOUS
<1>1. tried[c] \in SUBSET S /\ tried[c] # S /\ S \in SUBSET KType
  BY KernelsOfCall DEF Structure, Enqueued, Enqueue
<1>2. t \in KType /\ t \notin tried[c]
  BY <1>1, NextOfType
<1>3. ev[<<c, t>>] = "none" /\ <<c, t>> \in Command
  BY <1>2 DEF Structure, Enqueued, Command
<1>4. ev' = ev \/ ev' = [ev EXCEPT ![<<c, t>>] = "queued"]
  BY DEF Enqueue
<1>5. \A e \in Command : ev'[e] = "complete" <=> ev[e] = "complete"
  <2> HIDE DEF S
  <2> QED BY <1>3, <1>4 DEF Structure, TypeOK
<1>6. UNCHANGED <<plan, mem, ws>>
  BY DEF Enqueue
<1> QED BY <1>5, <1>6 DEF NothingEnds, Command

(* To the caller, nothing changes when the host reads times or returns.    *)
LEMMA HostEndsNothing ==
  ASSUME Structure, NEW c \in Calls, Host(c)
  PROVE  NothingEnds
<1>1. CASE Begin(c) \/ Return(c) \/ ReadTimes(c)
  BY <1>1 DEF Begin, Return, ReadTimes, NothingEnds
<1>2. CASE Enqueue(c)
  BY <1>2, EnqueueEndsNothing
<1> QED BY <1>1, <1>2 DEF Host

(* To the caller, nothing changes when a kernel starts.                    *)
LEMMA StartEndsNothing ==
  ASSUME Structure, NEW k \in Command, Start(k)
  PROVE  NothingEnds
<1>1. /\ ev[k] = "queued" /\ ev' = [ev EXCEPT ![k] = "running"] /\ UNCHANGED <<plan, mem, ws>>
      /\ ev \in [Command -> {"none", "queued", "running", "complete"}]
  BY DEF Start, Structure, TypeOK
<1>2. \A e \in Command : ev'[e] = "complete" <=> ev[e] = "complete"
  BY <1>1
<1> QED BY <1>1, <1>2 DEF NothingEnds, Command

(* Every action of a disciplined host program and of the device keeps what *)
(* is known of memory.                                                     *)
LEMMA NextContents ==
  ASSUME Structure, Disciplined(plan), Contents, [Next]_vars
  PROVE  Contents'
<1>1. CASE NothingEnds
  BY <1>1, SameContents DEF NothingEnds
<1>2. CASE UNCHANGED vars
  BY <1>1, <1>2 DEF vars, NothingEnds
<1>3. ASSUME NEW c \in Calls, Host(c) PROVE Contents'
  BY <1>1, <1>3, HostEndsNothing
<1>4. ASSUME NEW k \in Command, Start(k) PROVE Contents'
  BY <1>1, <1>4, StartEndsNothing
<1>5. ASSUME NEW c \in Calls, Finish(c) PROVE Contents'
  BY <1>5, FinishWSAContents, FinishWSBContents, FinishBETACContents, FinishMAINContents DEF Finish
<1> QED BY <1>2, <1>3, <1>4, <1>5 DEF Next

-----------------------------------------------------------------------------
(* The abstract specification. *)

(* The two specifications agree on what a plan means.                      *)
LEMMA SameAwaited ==
  ASSUME NEW p, NEW d
  PROVE  Atomic!Awaited(p, d) = Awaited(p, d)
BY DEF Atomic!Awaited, Awaited

(* The states a run starts in are those an atomic GEMM starts in.          *)
LEMMA InitIsAtomic == Init => Atomic!Init
<1> SUFFICES ASSUME Init PROVE Atomic!Init
  OBVIOUS
<1>1. \A x \in Buffers : Unscaled(mem[x]) = Untouched
  BY DEF Init, Unscaled, Untouched
<1>2. [x \in Buffers |-> Unscaled(mem[x])] = [x \in Buffers |-> Atomic!Untouched]
  BY <1>1 DEF Untouched, Atomic!Untouched
<1>3. {c \in Calls : ev[Final(c)] = "complete"} = {}
  <2>1. \A c \in Calls : Final(c) = <<c, "MAIN">> /\ <<c, "MAIN">> \in Command
    BY KernelsOfCall DEF Command, KType
  <2> QED BY <2>1 DEF Init
<1>4. plan \in Plans
  BY DEF Init
<1> QED BY <1>2, <1>3, <1>4 DEF Atomic!Init

(* Calls that are not over stay so unless their main kernel ends.          *)
LEMMA SameOver ==
  ASSUME Structure, plan' = plan,
         \A c \in Calls : ev'[<<c, "MAIN">>] = "complete" <=> ev[<<c, "MAIN">>] = "complete",
         \A x \in Buffers : Unscaled(mem'[x]) = Unscaled(mem[x])
  PROVE  UNCHANGED Atomic!vars
<1>1. \A c \in Calls : Final(c) = <<c, "MAIN">> /\ Final(c)' = Final(c)
  BY KernelsOfCall DEF Final
<1>2. {c \in Calls : ev[Final(c)] = "complete"}' = {c \in Calls : ev[Final(c)] = "complete"}
  BY <1>1
<1>3. [x \in Buffers |-> Unscaled(mem[x])]' = [x \in Buffers |-> Unscaled(mem[x])]
  BY DEF Unscaled
<1> QED BY <1>2, <1>3 DEF Atomic!vars

(* The end of the main kernel is the moment the call takes effect.         *)
LEMMA MainIsAtomic ==
  ASSUME Structure, Disciplined(plan), Contents, NEW c \in Calls, FinishMAIN(c)
  PROVE  Atomic!Apply(c)
<1> DEFINE j == plan[c]
           bar == [x \in Buffers |-> Unscaled(mem[x])]
<1>1. /\ Complete(<<c, "MAIN">>) /\ "MAIN" \in KType /\ DOMAIN mem = Buffers
      /\ j.a \in Buffers /\ j.b \in Buffers /\ j.c \in Buffers
  BY DEF FinishMAIN, KType, Structure, TypeOK, Plan, Job
<1>2. /\ plan' = plan /\ c \notin Over /\ ev[<<c, "MAIN">>] = "running"
      /\ \A d \in Calls : ev'[<<d, "MAIN">>] = IF d = c THEN "complete" ELSE ev[<<d, "MAIN">>]
  <2>1. /\ plan' = plan /\ c \notin Over /\ ev[<<c, "MAIN">>] = "running"
        /\ \A d \in Calls, s \in KType :
             ev'[<<d, s>>] = IF d = c /\ s = "MAIN" THEN "complete" ELSE ev[<<d, s>>]
    BY <1>1, Completed
  <2> QED BY <2>1, <1>1
<1>3. Atomic!Awaited(plan, c) \subseteq Over
  BY <1>1, <1>2, AwaitedAreOver, SameAwaited DEF Begun
<1>4. \A d \in Calls : Final(d) = <<d, "MAIN">> /\ Final(d)' = Final(d)
  BY <1>2, KernelsOfCall DEF Final
<1>5. {d \in Calls : ev[Final(d)] = "complete"}' = Over \cup {c}
  BY <1>2, <1>4 DEF Over
<1> DEFINE new == Plus(c, Unscaled(mem[j.a]), Unscaled(mem[j.b]),
                       ScaleBy(c, j.beta, Unscaled(mem[j.c])))
<1>6. mem' = [mem EXCEPT ![j.c] = new]
  BY MainComputes
<1>7. Unscaled(new) = new
  BY DEF Plus, Unscaled
<1>8. new = Atomic!Plus(c, bar[j.a], bar[j.b], Atomic!ScaleBy(c, j.beta, bar[j.c]))
  BY <1>1 DEF Plus, ScaleBy, Atomic!Plus, Atomic!ScaleBy
<1> HIDE DEF new
<1>9. bar' = [bar EXCEPT ![j.c] = new]
  <2>1. \A x \in Buffers : mem'[x] = IF x = j.c THEN new ELSE mem[x]
    BY <1>1, <1>6
  <2>2. \A x \in Buffers : Unscaled(mem'[x]) = IF x = j.c THEN new ELSE Unscaled(mem[x])
    BY <2>1, <1>7
  <2>3. bar' = [x \in Buffers |-> IF x = j.c THEN new ELSE Unscaled(mem[x])]
    BY <2>2
  <2> QED BY <2>3
<1>10. bar' = [bar EXCEPT ![j.c] = Atomic!Plus(c, bar[j.a], bar[j.b],
                                               Atomic!ScaleBy(c, j.beta, bar[j.c]))]
  BY <1>8, <1>9
<1> QED BY <1>2, <1>3, <1>5, <1>10 DEF Atomic!Apply, Over

(* Every step is one of an atomic GEMM, or none.                           *)
LEMMA NextIsAtomic ==
  ASSUME Structure, Disciplined(plan), Contents, [Next]_vars
  PROVE  [Atomic!Next]_(Atomic!vars)
<1>1. CASE NothingEnds
  BY <1>1, SameOver DEF NothingEnds, KType
<1>2. CASE UNCHANGED vars
  BY <1>1, <1>2 DEF vars, NothingEnds
<1>3. ASSUME NEW c \in Calls, Host(c) PROVE [Atomic!Next]_(Atomic!vars)
  BY <1>1, <1>3, HostEndsNothing
<1>4. ASSUME NEW k \in Command, Start(k) PROVE [Atomic!Next]_(Atomic!vars)
  BY <1>1, <1>4, StartEndsNothing
<1>5. ASSUME NEW c \in Calls, Finish(c) PROVE [Atomic!Next]_(Atomic!vars)
  <2>1. ASSUME NEW t \in KType \ {"MAIN"}, Complete(<<c, t>>),
               \A x \in Buffers : Unscaled(mem'[x]) = Unscaled(mem[x])
        PROVE  UNCHANGED Atomic!vars
    <3>1. /\ plan' = plan
          /\ \A d \in Calls, s \in KType :
               ev'[<<d, s>>] = IF d = c /\ s = t THEN "complete" ELSE ev[<<d, s>>]
      BY <2>1, Completed
    <3>2. \A d \in Calls : ev'[<<d, "MAIN">>] = ev[<<d, "MAIN">>]
      BY <3>1 DEF KType
    <3> QED BY <3>1, <3>2, <2>1, SameOver
  <2>2. CASE FinishWSA(c) \/ FinishWSB(c)
    <3>1. CASE FinishWSA(c)
      BY <2>1, <3>1 DEF FinishWSA, KType
    <3>2. CASE FinishWSB(c)
      BY <2>1, <3>2 DEF FinishWSB, KType
    <3> QED BY <2>2, <3>1, <3>2
  <2>3. CASE FinishBETAC(c)
    BY <2>1, <2>3, FinishBETACContents DEF FinishBETAC, KType
  <2>4. CASE FinishMAIN(c)
    BY <2>4, MainIsAtomic DEF Atomic!Next
  <2> QED BY <1>5, <2>2, <2>3, <2>4 DEF Finish
<1> QED BY <1>2, <1>3, <1>4, <1>5 DEF Next

-----------------------------------------------------------------------------
(* The theorems. *)

(* What is enqueued, where, and what it waits for, whatever the host       *)
(* program does.                                                           *)
THEOREM StructureInvariant == Spec => []Structure
BY InitStructure, NextStructure, PTL DEF Spec

(* Every variable keeps its type, and nothing is enqueued twice.           *)
THEOREM TypeCorrect == Spec => []TypeOK
<1>1. Structure => TypeOK
  BY DEF Structure
<1> QED BY <1>1, StructureInvariant, PTL

(* Whatever the host program does, the event of a call means that the      *)
(* whole call is over, and the times of a timed call can be read.          *)
THEOREM FinalEvent == Spec => []FinalEventMeansDone
<1>1. Structure => FinalEventMeansDone
  BY DEF Structure
<1> QED BY <1>1, StructureInvariant, PTL

(* No kernel of a call begins before the calls are over whose events it    *)
(* was given.                                                              *)
THEOREM EventsAwaited == Spec => []UserEventsAwaited
<1>1. Structure => UserEventsAwaited
  <2> SUFFICES ASSUME Structure, NEW c \in Calls, NEW t \in KType,
                      ev[<<c, t>>] \in {"running", "complete"},
                      NEW d \in plan[c].waits, NEW s \in KernelsOf(plan[d])
               PROVE  ev[<<d, s>>] = "complete"
    BY DEF UserEventsAwaited
  <2>1. plan \in Plan /\ <<c, t>> \in Command
    BY DEF Structure, TypeOK, Command
  <2>2. t \in tried[c] /\ t \in KernelsOf(plan[c]) /\ need[<<c, t>>] = WaitList(c, t)
    BY DEF Structure, Enqueued
  <2>3. d \in Calls /\ Final(d) \in need[<<c, t>>]
    BY <2>1, <2>2, WaitListType
  <2>4. ev[Final(d)] = "complete"
    BY <2>1, <2>3 DEF Structure, StartedIsFree
  <2> QED BY <2>3, <2>4 DEF Structure, FinalEventMeansDone
<1> QED BY <1>1, StructureInvariant, PTL

(* The plan is the one the host program began with.                        *)
LEMMA PlanIsGiven == Spec => [](plan \in Plans)
<1>1. Init => plan \in Plans
  BY DEF Init
<1>2. plan \in Plans /\ [Next]_vars => (plan \in Plans)'
  BY DEF vars, Next, Host, Begin, Enqueue, Return, ReadTimes, Start, Finish, FinishWSA,
         FinishWSB, FinishBETAC, FinishMAIN, Complete
<1> QED BY <1>1, <1>2, PTL DEF Spec

(* Where the host program orders the calls that share memory, by events or *)
(* by queues that execute in order, no two kernels that conflict ever run  *)
(* at the same time.                                                       *)
THEOREM NoOverlapOfDisciplined ==
  ASSUME \A p \in Plans : Disciplined(p)
  PROVE  Spec => []NoConflictingOverlap
<1>1. Structure /\ plan \in Plans => NoConflictingOverlap
  BY NoOverlap
<1> QED BY <1>1, StructureInvariant, PlanIsGiven, PTL
(* With that order, the inductive invariant: what is enqueued and what has *)
(* begun, and what the matrices and workspaces hold meanwhile.             *)
THEOREM Invariance ==
  ASSUME \A p \in Plans : Disciplined(p)
  PROVE  Spec => []IInv
<1>1. Init => IInv
  BY InitStructure, InitContents DEF IInv
<1>2. plan \in Plans /\ IInv /\ [Next]_vars => IInv'
  BY NextStructure, NextContents DEF IInv
<1> QED BY <1>1, <1>2, PlanIsGiven, PTL DEF Spec

(* And the calls of such a host program take effect one at a time, each    *)
(* once, with the operands that were in memory then, and after the calls   *)
(* it waits for: whatever the device reorders, packs or splits.            *)
THEOREM ImplementsAtomic ==
  ASSUME \A p \in Plans : Disciplined(p)
  PROVE  Spec => AtomicSafety
<1>1. Init => Atomic!Init
  BY InitIsAtomic
<1>2. plan \in Plans /\ IInv /\ [Next]_vars => [Atomic!Next]_(Atomic!vars)
  BY NextIsAtomic DEF IInv
<1> QED BY <1>1, <1>2, Invariance, PlanIsGiven, PTL DEF Spec, AtomicSafety
=============================================================================
