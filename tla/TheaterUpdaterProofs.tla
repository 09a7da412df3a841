------------------------ MODULE TheaterUpdaterProofs ------------------------
(***************************************************************************)
(* Proofs about TheaterUpdater for any number of workers and theaters: the  *)
(* counter never wraps, waitUpdate() is a barrier, no theater is updated by *)
(* two threads, and the pool implements ParallelUpdate.                     *)
(***************************************************************************)
EXTENDS TheaterUpdater, FiniteSetTheorems, SequenceTheorems, TLAPS

InQueue(t) == \E i \in 1..Len(queue) : queue[i] = t
Updating(t) == \E w \in Worker : wpc[w] = "update" /\ task[w] = t

\* m_pendingTasks counts the queued tasks and the tasks some worker holds.
Counted == m_pendingTasks = Len(queue) + Cardinality(Busy)

\* A worker holds a task from waitAndPop() to updateFinished().
TasksHeld == \A w \in Worker : w \in Busy => task[w] \in Theater

\* Outside a tick there is no work; at most the scheduling loop has a rest.
Phases ==
    /\ main \notin {"schedule", "notify"} => todo = {}
    /\ main \notin {"schedule", "notify", "wait", "blocked"} => m_pendingTasks = 0

\* A theater of the tick is unscheduled, queued, being updated, or updated once:
\* in exactly one of these four stages.
Stages ==
    /\ \A i, j \in 1..Len(queue) : queue[i] = queue[j] => i = j
    /\ \A t \in todo : t \in batch /\ ~InQueue(t) /\ ~Updating(t)
    /\ \A t \in Theater : InQueue(t) => t \in batch /\ ~Updating(t)
    /\ \A t \in Theater : Updating(t) => t \in batch
    /\ \A t \in Theater :
         updates[t] = IF t \in batch /\ t \notin todo /\ ~InQueue(t) /\ ~Updating(t)
                      THEN 1 ELSE 0

IInv == TypeOK /\ Counted /\ TasksHeld /\ Phases /\ Stages /\ ExclusiveUpdate

-----------------------------------------------------------------------------

\* The busy workers form a finite set.
LEMMA BusyFinite == IsFiniteSet(Busy) /\ Cardinality(Busy) \in Nat
<1>1. Busy \subseteq Worker
  BY DEF Busy
<1>2. IsFiniteSet(Busy)
  BY <1>1, WorkerAssumption, FS_Subset
<1> QED
  BY <1>2, FS_CardinalityType

\* Without pending tasks there is neither a queued nor a held task.
LEMMA NoPendingNoWork ==
  ASSUME TypeOK, Counted, m_pendingTasks = 0
  PROVE  Busy = {} /\ queue = <<>>
<1>1. Cardinality(Busy) = 0 /\ Len(queue) = 0
  BY BusyFinite DEF TypeOK, Counted
<1>2. Busy = {}
  BY <1>1, BusyFinite, FS_EmptySet
<1>3. queue = <<>>
  BY <1>1 DEF TypeOK
<1> QED
  BY <1>2, <1>3

\* The invariant implies the barrier.
LEMMA IInvImpliesBarrier == IInv => Barrier
<1> SUFFICES ASSUME IInv, main = "idle"
             PROVE  /\ Busy = {} /\ queue = <<>>
                    /\ \A t \in Theater : updates[t] = IF t \in batch THEN 1 ELSE 0
  BY DEF Barrier
<1>1. m_pendingTasks = 0 /\ todo = {}
  BY DEF IInv, Phases
<1>2. Busy = {} /\ queue = <<>>
  BY <1>1, NoPendingNoWork DEF IInv
<1>3. \A t \in Theater : ~InQueue(t) /\ ~Updating(t)
  BY <1>2 DEF InQueue, Updating, Busy
<1> QED
  BY <1>1, <1>2, <1>3 DEF IInv, Stages

\* The initial state satisfies the invariant.
LEMMA InitIInv == Init => IInv
<1> SUFFICES ASSUME Init PROVE IInv
  OBVIOUS
<1>0. m_isStopped \in BOOLEAN /\ m_shutdown \in BOOLEAN
  BY Zenon DEF Init
<1>1. TypeOK
  BY <1>0, EmptySeq DEF Init, TypeOK, MainPC, WorkerPC
<1>2. Busy = {}
  BY DEF Init, Busy
<1>3. Cardinality(Busy) = 0
  BY <1>2, FS_EmptySet
<1>4. Counted
  BY <1>3 DEF Counted, Init
<1>5. Stages
  BY <1>2 DEF Init, Stages, InQueue, Updating, Busy
<1> QED
  BY <1>1, <1>2, <1>4, <1>5 DEF IInv, TasksHeld, Phases, ExclusiveUpdate, Init

\* A step that keeps the queue, the held tasks, the rest of the batch and the
\* counts keeps the accounting.
LEMMA Frame ==
  ASSUME IInv, TypeOK', Busy' = Busy,
         \A w \in Worker : wpc'[w] = "update" <=> wpc[w] = "update",
         UNCHANGED <<queue, task, todo, batch, updates, m_pendingTasks>>
  PROVE  Counted' /\ TasksHeld' /\ Stages' /\ ExclusiveUpdate'
<1>1. Counted' /\ TasksHeld' /\ ExclusiveUpdate'
  BY DEF IInv, Counted, TasksHeld, ExclusiveUpdate
<1>2. \A t : (InQueue(t))' <=> InQueue(t)
  BY DEF InQueue
<1>3. \A t : (Updating(t))' <=> Updating(t)
  BY DEF Updating
<1>4. Stages'
  BY <1>2, <1>3 DEF IInv, Stages
<1> QED
  BY <1>1, <1>4

\* Every step keeps the types; the counter does not wrap because a worker that
\* finishes is one of the counted ones.
LEMMA NextTypeOK == IInv /\ [Next]_vars => TypeOK'
<1> SUFFICES ASSUME IInv, [Next]_vars PROVE TypeOK'
  OBVIOUS
<1> USE DEF TypeOK, MainPC, WorkerPC
<1>1. CASE Start
  BY <1>1 DEF IInv, Start, queueVars
<1>2. ASSUME NEW S \in SUBSET Theater, BeginTick(S) PROVE TypeOK'
  BY <1>2 DEF IInv, BeginTick, queueVars
<1>3. ASSUME NEW t \in Theater, ScheduleUpdate(t) PROVE TypeOK'
  BY <1>3 DEF IInv, ScheduleUpdate
<1>4. CASE NotifyOne
  BY <1>4 DEF IInv, NotifyOne, Asleep, queueVars
<1>5. CASE AllScheduled
  BY <1>5 DEF IInv, AllScheduled, queueVars
<1>6. CASE WaitUpdate
  BY <1>6 DEF IInv, WaitUpdate, queueVars
<1>7. CASE StopBegin
  BY <1>7 DEF IInv, StopBegin, queueVars
<1>8. CASE StopReset
  BY <1>8 DEF IInv, StopReset, queueVars
<1>9. CASE Cancel
  BY <1>9 DEF IInv, Cancel
<1>10. CASE Join
  BY <1>10 DEF IInv, Join, queueVars
<1>11. ASSUME NEW w \in Worker, WorkerCheck(w) PROVE TypeOK'
  <2>1. wpc' = [wpc EXCEPT ![w] = "exited"] \/ wpc' = [wpc EXCEPT ![w] = "pop"]
    BY <1>11, Zenon DEF WorkerCheck
  <2> QED
    BY <1>11, <2>1 DEF IInv, WorkerCheck, mainVars, queueVars
<1>12. ASSUME NEW w \in Worker, WaitAndPop(w) PROVE TypeOK'
  <2>1. UNCHANGED <<mainVars, m_pendingTasks, m_isStopped, m_shutdown, updates>>
    BY <1>12 DEF WaitAndPop
  <2>2. CASE /\ \/ wpc' = [wpc EXCEPT ![w] = "asleep"]
                \/ wpc' = [wpc EXCEPT ![w] = "check"]
             /\ UNCHANGED <<queue, task>>
    BY <2>1, <2>2 DEF IInv, mainVars
  <2>3. CASE /\ queue # <<>>
             /\ task' = [task EXCEPT ![w] = Head(queue)]
             /\ queue' = Tail(queue)
             /\ wpc' = [wpc EXCEPT ![w] = "update"]
    <3>1. Head(queue) \in Theater /\ Tail(queue) \in Seq(Theater)
      BY <2>3, HeadTailProperties DEF IInv
    <3> QED
      BY <2>1, <2>3, <3>1 DEF IInv, mainVars
  <2> QED
    BY <1>12, <2>2, <2>3 DEF WaitAndPop
<1>13. ASSUME NEW w \in Worker, TheaterUpdate(w) PROVE TypeOK'
  <2>1. task[w] \in Theater
    BY <1>13 DEF IInv, TasksHeld, Busy, TheaterUpdate
  <2> QED
    BY <1>13, <2>1 DEF IInv, TheaterUpdate, mainVars, queueVars
<1>14. ASSUME NEW w \in Worker, UpdateFinished(w) PROVE TypeOK'
  <2>1. w \in Busy
    BY <1>14 DEF UpdateFinished, Busy
  <2>2. Cardinality(Busy) # 0
    BY <2>1, BusyFinite, FS_EmptySet
  <2>3. m_pendingTasks - 1 \in Nat
    BY <2>2, BusyFinite DEF IInv, Counted
  <2> QED
    BY <1>14, <2>3 DEF IInv, UpdateFinished, queueVars
<1>15. ASSUME NEW w \in Worker, SpuriousWakeup(w) PROVE TypeOK'
  BY <1>15 DEF IInv, SpuriousWakeup, mainVars, queueVars
<1>16. CASE UNCHANGED vars
  BY <1>16 DEF IInv, vars
<1> QED
  BY <1>1, <1>2, <1>3, <1>4, <1>5, <1>6, <1>7, <1>8, <1>9, <1>10, <1>11, <1>12,
     <1>13, <1>14, <1>15, <1>16 DEF Next, MainStep, WorkerStep, Terminated

\* Every step keeps the accounting of tasks.
LEMMA NextIInv == IInv /\ [Next]_vars => IInv'
<1> SUFFICES ASSUME IInv, [Next]_vars PROVE IInv'
  OBVIOUS
<1>0. TypeOK /\ TypeOK'
  BY NextTypeOK DEF IInv
<1>a. ASSUME Busy' = Busy, Phases',
             \A w \in Worker : wpc'[w] = "update" <=> wpc[w] = "update",
             UNCHANGED <<queue, task, todo, batch, updates, m_pendingTasks>>
      PROVE  IInv'
  BY <1>a, <1>0, Frame DEF IInv
<1>1. CASE Start
  <2>1. Busy = {} /\ Busy' = {}
    BY <1>1, NoPendingNoWork DEF IInv, Phases, Start, Busy
  <2> QED
    BY <1>1, <1>a, <2>1 DEF IInv, Phases, Start, Busy, queueVars
<1>2. ASSUME NEW S \in SUBSET Theater, BeginTick(S) PROVE IInv'
  <2>1. Busy = {} /\ queue = <<>> /\ m_pendingTasks = 0
    BY <1>2, NoPendingNoWork DEF IInv, Phases, BeginTick
  <2>2. Busy' = Busy /\ UNCHANGED <<queue, m_pendingTasks, wpc, task>>
    BY <1>2 DEF BeginTick, Busy, queueVars
  <2>3. Counted' /\ TasksHeld' /\ ExclusiveUpdate' /\ Phases'
    BY <1>2, <2>1, <2>2 DEF IInv, Counted, TasksHeld, ExclusiveUpdate, Phases, BeginTick
  <2>4. \A t \in Theater : ~(InQueue(t))' /\ ~(Updating(t))'
    BY <2>1, <2>2 DEF InQueue, Updating, Busy
  <2>5. Stages'
    BY <1>2, <2>1, <2>2, <2>4 DEF Stages, BeginTick
  <2> QED
    BY <1>0, <2>3, <2>5 DEF IInv
<1>3. ASSUME NEW t \in Theater, ScheduleUpdate(t) PROVE IInv'
  <2>1. /\ Busy' = Busy /\ UNCHANGED <<wpc, task, batch, updates>>
        /\ t \in todo /\ todo' = todo \ {t}
        /\ queue' = Append(queue, t) /\ m_pendingTasks' = m_pendingTasks + 1
    BY <1>3 DEF ScheduleUpdate, Busy
  <2>2. /\ Len(queue') = Len(queue) + 1
        /\ queue'[Len(queue) + 1] = t
        /\ \A i \in 1..Len(queue) : queue'[i] = queue[i]
    BY <1>0, <2>1, AppendProperties DEF TypeOK
  <2>3. Counted' /\ TasksHeld' /\ ExclusiveUpdate'
    BY <1>0, <2>1, <2>2, BusyFinite DEF IInv, Counted, TasksHeld, ExclusiveUpdate, TypeOK
  <2>4. Phases'
    BY <1>3 DEF ScheduleUpdate, Phases
  <2>n. Len(queue) \in Nat
    BY <1>0, LenProperties DEF TypeOK
  <2>5. \A u : (InQueue(u))' <=> InQueue(u) \/ u = t
    <3>1. ASSUME NEW i \in 1..Len(queue') PROVE i \in 1..Len(queue) \/ queue'[i] = t
      BY <2>2, <2>n, <3>1
    <3>2. \A i \in 1..Len(queue) : i \in 1..Len(queue')
      BY <2>2, <2>n
    <3>3. Len(queue) + 1 \in 1..Len(queue')
      BY <2>2, <2>n
    <3> QED
      BY <2>2, <3>1, <3>2, <3>3 DEF InQueue
  <2>6. \A u : (Updating(u))' <=> Updating(u)
    BY <2>1 DEF Updating
  <2>7. \A i, j \in 1..Len(queue') : queue'[i] = queue'[j] => i = j
    BY <1>0, <2>1, <2>2 DEF IInv, Stages, InQueue, TypeOK
  <2>8. Stages'
    BY <1>0, <2>1, <2>5, <2>6, <2>7 DEF IInv, Stages, TypeOK
  <2> QED
    BY <1>0, <2>3, <2>4, <2>8 DEF IInv
<1>4. CASE NotifyOne
  BY <1>0, <1>4, <1>a DEF IInv, Phases, NotifyOne, Asleep, Busy, queueVars, TypeOK
<1>5. CASE AllScheduled
  BY <1>5, <1>a DEF IInv, Phases, AllScheduled, Busy, queueVars
<1>6. CASE WaitUpdate
  BY <1>0, <1>6, <1>a DEF IInv, Phases, WaitUpdate, Busy, queueVars, TypeOK
<1>7. CASE StopBegin
  BY <1>7, <1>a DEF IInv, Phases, StopBegin, Busy, queueVars
<1>8. CASE StopReset
  BY <1>8, <1>a DEF IInv, Phases, StopReset, Busy, queueVars
<1>9. CASE Cancel
  <2>1. Busy = {} /\ queue = <<>>
    BY <1>9, NoPendingNoWork DEF IInv, Phases, Cancel
  <2>2. Busy' = {}
    BY <1>9, <2>1 DEF Cancel, Busy, Asleep
  <2> QED
    BY <1>9, <1>a, <2>1, <2>2 DEF IInv, Phases, Cancel, Busy
<1>10. CASE Join
  BY <1>10, <1>a DEF IInv, Phases, Join, Busy, queueVars
<1>11. ASSUME NEW w \in Worker, WorkerCheck(w) PROVE IInv'
  <2>1. wpc' = [wpc EXCEPT ![w] = "exited"] \/ wpc' = [wpc EXCEPT ![w] = "pop"]
    BY <1>11, Zenon DEF WorkerCheck
  <2> QED
    BY <1>0, <1>11, <1>a, <2>1 DEF IInv, Phases, WorkerCheck, Busy, mainVars, queueVars, TypeOK
<1>12. ASSUME NEW w \in Worker, WaitAndPop(w) PROVE IInv'
  <2>1. CASE /\ \/ wpc' = [wpc EXCEPT ![w] = "asleep"]
                \/ wpc' = [wpc EXCEPT ![w] = "check"]
             /\ UNCHANGED <<queue, task>>
    BY <1>0, <1>12, <1>a, <2>1 DEF IInv, Phases, WaitAndPop, Busy, mainVars, TypeOK
  <2>2. CASE /\ queue # <<>>
             /\ task' = [task EXCEPT ![w] = Head(queue)]
             /\ queue' = Tail(queue)
             /\ wpc' = [wpc EXCEPT ![w] = "update"]
    <3>1. /\ wpc[w] = "pop"
          /\ UNCHANGED <<main, todo, batch, updates, m_pendingTasks>>
      BY <1>12 DEF WaitAndPop, mainVars
    <3>2. /\ Len(queue') = Len(queue) - 1 /\ Len(queue) >= 1
          /\ \A i \in 1..Len(queue') : queue'[i] = queue[i + 1]
          /\ Head(queue) = queue[1] /\ Head(queue) \in Theater
          /\ Len(queue) \in Nat
      BY <1>0, <2>2, HeadTailProperties, LenProperties DEF TypeOK
    <3>3. w \notin Busy /\ Busy' = Busy \cup {w}
      BY <1>0, <2>2, <3>1 DEF Busy, TypeOK
    <3>4. Cardinality(Busy') = Cardinality(Busy) + 1
      BY <3>3, BusyFinite, FS_AddElement
    <3>5. Counted'
      BY <1>0, <3>1, <3>2, <3>4, BusyFinite DEF IInv, Counted, TypeOK
    <3>6. TasksHeld'
      BY <1>0, <2>2, <3>2, <3>3 DEF IInv, TasksHeld, TypeOK
    <3>7. Phases'
      BY <3>1 DEF IInv, Phases
    <3>8. \A t : (InQueue(t))' <=> InQueue(t) /\ t # Head(queue)
      <4>1. ASSUME NEW t, NEW i \in 1..Len(queue'), queue'[i] = t
            PROVE  InQueue(t) /\ t # Head(queue)
        <5>1. i + 1 \in 1..Len(queue) /\ 1 \in 1..Len(queue) /\ i + 1 # 1
          BY <3>2
        <5>2. queue[i + 1] = t
          BY <3>2, <4>1
        <5>3. queue[i + 1] # queue[1]
          BY <5>1 DEF IInv, Stages
        <5> QED
          BY <3>2, <5>1, <5>2, <5>3 DEF InQueue
      <4>2. ASSUME NEW t, NEW i \in 1..Len(queue), queue[i] = t, t # Head(queue)
            PROVE  \E j \in 1..Len(queue') : queue'[j] = t
        <5>1. i # 1
          BY <3>2, <4>2
        <5>2. i - 1 \in 1..Len(queue') /\ (i - 1) + 1 = i
          BY <3>2, <5>1
        <5> QED
          BY <3>2, <4>2, <5>2
      <4> QED
        BY <4>1, <4>2 DEF InQueue
    <3>9. \A t : (Updating(t))' <=> Updating(t) \/ t = Head(queue)
      BY <1>0, <2>2, <3>1 DEF Updating, TypeOK
    <3>10. InQueue(Head(queue))
      BY <1>0, <3>2 DEF InQueue, TypeOK
    <3>11. ExclusiveUpdate'
      BY <1>0, <2>2, <3>1, <3>2, <3>10 DEF IInv, Stages, ExclusiveUpdate, Updating, TypeOK
    <3>12. \A i, j \in 1..Len(queue') : queue'[i] = queue'[j] => i = j
      <4> TAKE i \in 1..Len(queue'), j \in 1..Len(queue')
      <4> HAVE queue'[i] = queue'[j]
      <4>1. /\ i + 1 \in 1..Len(queue) /\ j + 1 \in 1..Len(queue)
            /\ queue[i + 1] = queue[j + 1]
        BY <3>2
      <4>2. i + 1 = j + 1
        BY <4>1 DEF IInv, Stages
      <4> QED
        BY <4>2
    <3>13. Stages'
      BY <1>0, <3>1, <3>2, <3>8, <3>9, <3>10, <3>12 DEF IInv, Stages, TypeOK
    <3> QED
      BY <1>0, <3>5, <3>6, <3>7, <3>11, <3>13 DEF IInv
  <2> QED
    BY <1>12, <2>1, <2>2 DEF WaitAndPop
<1>13. ASSUME NEW w \in Worker, TheaterUpdate(w) PROVE IInv'
  <2>1. /\ wpc[w] = "update" /\ wpc' = [wpc EXCEPT ![w] = "finish"]
        /\ updates' = [updates EXCEPT ![task[w]] = @ + 1]
        /\ UNCHANGED <<main, todo, batch, queue, task, m_pendingTasks>>
    BY <1>13 DEF TheaterUpdate, mainVars, queueVars
  <2>2. Busy' = Busy /\ w \in Busy /\ task[w] \in Theater
    BY <1>0, <2>1 DEF IInv, TasksHeld, Busy, TypeOK
  <2>3. Counted' /\ TasksHeld' /\ Phases' /\ ExclusiveUpdate'
    BY <1>0, <2>1, <2>2 DEF IInv, Counted, TasksHeld, Phases, ExclusiveUpdate, TypeOK
  <2>4. \A t : (InQueue(t))' <=> InQueue(t)
    BY <2>1 DEF InQueue
  <2>5. \A t : (Updating(t))' <=> Updating(t) /\ t # task[w]
    BY <1>0, <2>1 DEF IInv, ExclusiveUpdate, Updating, TypeOK
  <2>6. Updating(task[w])
    BY <2>1 DEF Updating
  <2>7. Stages'
    BY <1>0, <2>1, <2>2, <2>4, <2>5, <2>6 DEF IInv, Stages, TypeOK
  <2> QED
    BY <1>0, <2>3, <2>7 DEF IInv
<1>14. ASSUME NEW w \in Worker, UpdateFinished(w) PROVE IInv'
  <2>1. /\ wpc[w] = "finish" /\ wpc' = [wpc EXCEPT ![w] = "check"]
        /\ task' = [task EXCEPT ![w] = NoTheater]
        /\ m_pendingTasks' = m_pendingTasks - 1
        /\ main' = IF main = "blocked" THEN "wait" ELSE main
        /\ UNCHANGED <<todo, batch, queue, updates>>
    BY <1>14 DEF UpdateFinished, queueVars
  <2>2. w \in Busy /\ Busy' = Busy \ {w}
    BY <1>0, <2>1 DEF Busy, TypeOK
  <2>3. Cardinality(Busy') = Cardinality(Busy) - 1
    BY <2>2, BusyFinite, FS_RemoveElement
  <2>4. Cardinality(Busy) # 0
    BY <2>2, BusyFinite, FS_EmptySet
  <2>5. Counted'
    BY <1>0, <2>1, <2>3, BusyFinite DEF IInv, Counted, TypeOK
  <2>6. TasksHeld' /\ ExclusiveUpdate'
    BY <1>0, <2>1, <2>2 DEF IInv, TasksHeld, ExclusiveUpdate, TypeOK
  <2>7. Phases'
    BY <1>0, <2>1, <2>4, BusyFinite DEF IInv, Phases, Counted, TypeOK
  <2>8. \A t : (InQueue(t))' <=> InQueue(t)
    BY <2>1 DEF InQueue
  <2>9. \A t : (Updating(t))' <=> Updating(t)
    BY <1>0, <2>1 DEF Updating, TypeOK
  <2>10. Stages'
    BY <2>1, <2>8, <2>9 DEF IInv, Stages
  <2> QED
    BY <1>0, <2>5, <2>6, <2>7, <2>10 DEF IInv
<1>15. ASSUME NEW w \in Worker, SpuriousWakeup(w) PROVE IInv'
  BY <1>0, <1>15, <1>a DEF IInv, Phases, SpuriousWakeup, Busy, mainVars, queueVars, TypeOK
<1>16. CASE UNCHANGED vars
  BY <1>16, <1>a DEF IInv, Phases, Busy, vars
<1> QED
  BY <1>1, <1>2, <1>3, <1>4, <1>5, <1>6, <1>7, <1>8, <1>9, <1>10, <1>11, <1>12,
     <1>13, <1>14, <1>15, <1>16 DEF Next, MainStep, WorkerStep, Terminated

\* The invariant holds in every behaviour.
THEOREM Invariance == Spec => []IInv
<1>1. Init => IInv
  BY InitIInv
<1>2. IInv /\ [Next]_vars => IInv'
  BY NextIInv
<1> QED
  BY <1>1, <1>2, PTL DEF Spec

\* m_pendingTasks never wraps below zero and every variable keeps its type.
THEOREM TypeCorrect == Spec => []TypeOK
<1>1. IInv => TypeOK
  BY DEF IInv
<1> QED
  BY <1>1, Invariance, PTL

\* waitUpdate() is a barrier: when it has returned, every theater of the tick was
\* updated exactly once and no worker touches one any more.
THEOREM BarrierCorrect == Spec => []Barrier
  BY IInvImpliesBarrier, Invariance, PTL

\* Two workers never run Theater::update() of the same theater together.
THEOREM ExclusiveUpdateCorrect == Spec => []ExclusiveUpdate
<1>1. IInv => ExclusiveUpdate
  BY DEF IInv
<1> QED
  BY <1>1, Invariance, PTL

-----------------------------------------------------------------------------

\* The refinement mapping of Abstract.
phaseBar == IF main \in {"start", "idle"} THEN "idle"
            ELSE IF main \in {"schedule", "notify", "wait", "blocked"} THEN "updating"
            ELSE "halted"
remainingBar == {t \in batch : updates[t] = 0}

\* Every step of the pool is a step of ParallelUpdate or changes nothing there.
LEMMA StepRefines ==
  ASSUME IInv, IInv', [Next]_vars
  PROVE  [Abstract!Next]_(Abstract!vars)
<1>0. TypeOK /\ TypeOK'
  BY DEF IInv
<1>a. ASSUME UNCHANGED <<phaseBar, remainingBar>>
      PROVE  UNCHANGED Abstract!vars
  BY <1>a DEF phaseBar, remainingBar, Abstract!vars
<1>1. CASE Start
  BY <1>1, <1>a DEF Start, phaseBar, remainingBar
<1>2. ASSUME NEW S \in SUBSET Theater, BeginTick(S)
      PROVE  Abstract!Next
  <2>1. remainingBar' = S
    BY <1>2 DEF BeginTick, remainingBar
  <2> QED
    BY <1>2, <2>1 DEF BeginTick, Abstract!Next, Abstract!Begin, phaseBar, remainingBar
<1>3. ASSUME NEW t \in Theater, ScheduleUpdate(t) PROVE UNCHANGED Abstract!vars
  BY <1>3, <1>a DEF ScheduleUpdate, phaseBar, remainingBar
<1>4. CASE NotifyOne
  BY <1>4, <1>a DEF NotifyOne, phaseBar, remainingBar
<1>5. CASE AllScheduled
  BY <1>5, <1>a DEF AllScheduled, phaseBar, remainingBar
<1>6. CASE WaitUpdate
  <2>1. CASE m_pendingTasks > 0
    BY <1>6, <1>a, <2>1 DEF WaitUpdate, phaseBar, remainingBar
  <2>2. CASE ~(m_pendingTasks > 0)
    <3>1. main' = "idle" /\ main = "wait" /\ UNCHANGED <<batch, updates>>
      BY <1>6, <2>2 DEF WaitUpdate
    <3>2. Barrier'
      BY IInvImpliesBarrier, PTL
    <3>3. remainingBar' = {} /\ remainingBar = {}
      BY <1>0, <3>1, <3>2 DEF Barrier, remainingBar, TypeOK
    <3> QED
      BY <3>1, <3>3 DEF Abstract!Next, Abstract!End, remainingBar
  <2> QED
    BY <2>1, <2>2
<1>7. CASE StopBegin
  BY <1>7 DEF StopBegin, Abstract!Next, Abstract!Halt
<1>8. CASE StopReset
  BY <1>8, <1>a DEF StopReset, phaseBar, remainingBar
<1>9. CASE Cancel
  BY <1>9, <1>a DEF Cancel, phaseBar, remainingBar
<1>10. CASE Join
  BY <1>10, <1>a DEF Join, phaseBar, remainingBar
<1>11. ASSUME NEW w \in Worker, WorkerCheck(w) PROVE UNCHANGED Abstract!vars
  BY <1>11, <1>a DEF WorkerCheck, mainVars, phaseBar, remainingBar
<1>12. ASSUME NEW w \in Worker, WaitAndPop(w) PROVE UNCHANGED Abstract!vars
  BY <1>12, <1>a DEF WaitAndPop, mainVars, phaseBar, remainingBar
<1>13. ASSUME NEW w \in Worker, TheaterUpdate(w)
       PROVE  Abstract!Next
  <2>1. w \in Busy /\ Updating(task[w]) /\ task[w] \in Theater
    BY <1>13 DEF TheaterUpdate, Busy, Updating, IInv, TasksHeld
  <2>2. updates[task[w]] = 0 /\ task[w] \in batch
    BY <2>1 DEF IInv, Stages
  <2>3. remainingBar' = remainingBar \ {task[w]} /\ task[w] \in remainingBar
    BY <1>0, <1>13, <2>1, <2>2 DEF TheaterUpdate, mainVars, remainingBar, TypeOK
  <2>4. m_pendingTasks # 0
    BY <1>0, <2>1, NoPendingNoWork DEF IInv
  <2>5. main \in {"schedule", "notify", "wait", "blocked"} /\ main' = main
    BY <1>13, <2>4 DEF IInv, Phases, TheaterUpdate, mainVars
  <2> QED
    BY <2>1, <2>3, <2>5 DEF Abstract!Next, Abstract!Update, phaseBar, remainingBar
<1>14. ASSUME NEW w \in Worker, UpdateFinished(w) PROVE UNCHANGED Abstract!vars
  BY <1>14, <1>a DEF UpdateFinished, phaseBar, remainingBar
<1>15. ASSUME NEW w \in Worker, SpuriousWakeup(w) PROVE UNCHANGED Abstract!vars
  BY <1>15, <1>a DEF SpuriousWakeup, mainVars, phaseBar, remainingBar
<1>16. CASE UNCHANGED vars
  BY <1>16, <1>a DEF vars, phaseBar, remainingBar
<1> QED
  BY <1>1, <1>2, <1>3, <1>4, <1>5, <1>6, <1>7, <1>8, <1>9, <1>10, <1>11, <1>12,
     <1>13, <1>14, <1>15, <1>16
     DEF Next, MainStep, WorkerStep, Terminated

\* The worker pool implements the promise of updateTheaters().
THEOREM Refinement == Spec => ImplementsParallelUpdate
<1>1. Init => Abstract!Init
  BY DEF Init, Abstract!Init
<1>2. IInv /\ IInv' /\ [Next]_vars => [Abstract!Next]_(Abstract!vars)
  BY StepRefines
<1> QED
  BY <1>1, <1>2, Invariance, PTL DEF Spec, ImplementsParallelUpdate, Abstract!Spec
=============================================================================
