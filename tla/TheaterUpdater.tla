--------------------------- MODULE TheaterUpdater ---------------------------
(***************************************************************************)
(* The worker pool that updates the theaters in parallel                    *)
(* (game/theater/TheaterUpdater.cpp over common/containers/BlockingQueue.h).*)
(*                                                                          *)
(* The main thread schedules one task per theater and sleeps on m_condition *)
(* until m_pendingTasks is 0; the workers sleep on the condition variable   *)
(* of the queue.  A critical section is one action, except scheduleUpdate():*)
(* BlockingQueue::push() notifies after it released the queue's mutex, while*)
(* scheduleUpdate() still holds m_mutex (main = "notify").                  *)
(***************************************************************************)
EXTENDS Naturals, Sequences, FiniteSets

CONSTANTS
    Worker,     \* the threads of m_threadPool (TheaterUpdateThreads of them)
    Theater,    \* the theaters that may exist
    NoTheater   \* the task of a worker that has none

ASSUME WorkerAssumption == IsFiniteSet(Worker)
ASSUME TheaterAssumption == NoTheater \notin Theater

VARIABLES
    main,           \* where the main thread is
    todo,           \* theaters of this tick the main thread has not scheduled yet
    m_pendingTasks,
    m_isStopped,
    queue,          \* m_updateQueue.m_queue
    m_shutdown,     \* m_updateQueue.m_shutdown
    wpc,            \* where each worker is
    task,           \* the task a worker popped
    batch,          \* the theaters of this tick (history)
    updates         \* how often each theater was updated in this tick (history)

mainVars == <<main, todo, batch>>
queueVars == <<queue, m_shutdown>>
vars == <<main, todo, m_pendingTasks, m_isStopped, queue, m_shutdown, wpc, task,
          batch, updates>>

MainPC == {"start", "idle", "schedule", "notify", "wait", "blocked",
           "stop", "cancel", "join", "done"}
WorkerPC == {"unborn", "check", "pop", "asleep", "update", "finish", "exited"}

(***************************************************************************)
(* m_pendingTasks is a uint32; its type here is Nat, so TypeOK also says    *)
(* that --m_pendingTasks never wraps below zero.                            *)
(***************************************************************************)
TypeOK ==
    /\ main \in MainPC
    /\ todo \in SUBSET Theater
    /\ m_pendingTasks \in Nat
    /\ m_isStopped \in BOOLEAN
    /\ queue \in Seq(Theater)
    /\ m_shutdown \in BOOLEAN
    /\ wpc \in [Worker -> WorkerPC]
    /\ task \in [Worker -> Theater \cup {NoTheater}]
    /\ batch \in SUBSET Theater
    /\ updates \in [Theater -> Nat]

Init ==
    /\ main = "start"
    /\ todo = {}
    /\ m_pendingTasks = 0
    /\ m_isStopped = TRUE
    /\ queue = <<>>
    /\ m_shutdown = FALSE
    /\ wpc = [w \in Worker |-> "unborn"]
    /\ task = [w \in Worker |-> NoTheater]
    /\ batch = {}
    /\ updates = [t \in Theater |-> 0]

-----------------------------------------------------------------------------
(***************************************************************************)
(* The main thread.                                                         *)
(***************************************************************************)

Start ==
    /\ main = "start"
    /\ m_isStopped' = FALSE
    /\ wpc' = [w \in Worker |-> "check"]
    /\ main' = "idle"
    /\ UNCHANGED <<todo, m_pendingTasks, queueVars, task, batch, updates>>

\* updateTheaters(): S is m_orderedTheaters, which only changes between ticks.
BeginTick(S) ==
    /\ main = "idle"
    /\ main' = "schedule"
    /\ todo' = S
    /\ batch' = S
    /\ updates' = [t \in Theater |-> 0]
    /\ UNCHANGED <<m_pendingTasks, m_isStopped, queueVars, wpc, task>>

ScheduleUpdate(t) ==
    /\ main = "schedule"
    /\ t \in todo
    /\ todo' = todo \ {t}
    /\ m_pendingTasks' = m_pendingTasks + 1
    /\ queue' = Append(queue, t)
    /\ main' = "notify"
    /\ UNCHANGED <<m_isStopped, m_shutdown, wpc, task, batch, updates>>

Asleep == {w \in Worker : wpc[w] = "asleep"}

\* The end of BlockingQueue::push(): m_condition.notify_one(), then the caller
\* releases m_mutex.
MutNotifyLost ==
    /\ main = "notify"
    /\ main' = "schedule"
    /\ UNCHANGED <<todo, m_pendingTasks, m_isStopped, queueVars, wpc, task, batch, updates>>

NotifyOne ==
    /\ main = "notify"
    /\ main' = "schedule"
    /\ IF Asleep = {} THEN UNCHANGED wpc
       ELSE \E w \in Asleep : wpc' = [wpc EXCEPT ![w] = "pop"]
    /\ UNCHANGED <<todo, m_pendingTasks, m_isStopped, queueVars, task, batch, updates>>

AllScheduled ==
    /\ main = "schedule"
    /\ todo = {}
    /\ main' = "wait"
    /\ UNCHANGED <<todo, m_pendingTasks, m_isStopped, queueVars, wpc, task, batch, updates>>

WaitUpdate ==
    /\ main = "wait"
    /\ main' = IF m_pendingTasks > 0 THEN "blocked" ELSE "idle"
    /\ UNCHANGED <<todo, m_pendingTasks, m_isStopped, queueVars, wpc, task, batch, updates>>

\* stop(), called by ~TheaterManager() on the main thread.
StopBegin ==
    /\ main = "idle"
    /\ m_isStopped' = TRUE
    /\ main' = "stop"
    /\ UNCHANGED <<todo, m_pendingTasks, queueVars, wpc, task, batch, updates>>

StopReset ==
    /\ main = "stop"
    /\ m_pendingTasks' = 0
    /\ main' = "cancel"
    /\ UNCHANGED <<todo, m_isStopped, queueVars, wpc, task, batch, updates>>

MutCancelSilent ==
    /\ main = "cancel"
    /\ queue' = <<>>
    /\ m_shutdown' = TRUE
    /\ main' = "join"
    /\ UNCHANGED <<todo, m_pendingTasks, m_isStopped, wpc, task, batch, updates>>

\* BlockingQueue::cancel()
Cancel ==
    /\ main = "cancel"
    /\ queue' = <<>>
    /\ m_shutdown' = TRUE
    /\ wpc' = [w \in Worker |-> IF w \in Asleep THEN "pop" ELSE wpc[w]]
    /\ main' = "join"
    /\ UNCHANGED <<todo, m_pendingTasks, m_isStopped, task, batch, updates>>

Join ==
    /\ main = "join"
    /\ \A w \in Worker : wpc[w] = "exited"
    /\ main' = "done"
    /\ UNCHANGED <<todo, m_pendingTasks, m_isStopped, queueVars, wpc, task, batch, updates>>

-----------------------------------------------------------------------------
(***************************************************************************)
(* A worker thread.                                                         *)
(***************************************************************************)

\* while (!m_isStopped)
WorkerCheck(w) ==
    /\ wpc[w] = "check"
    /\ wpc' = [wpc EXCEPT ![w] = IF m_isStopped THEN "exited" ELSE "pop"]
    /\ UNCHANGED <<mainVars, m_pendingTasks, m_isStopped, queueVars, task, updates>>

MutFrontNotPopped(w) ==
    /\ wpc[w] = "pop"
    /\ queue # <<>> /\ ~m_shutdown
    /\ task' = [task EXCEPT ![w] = Head(queue)]
    /\ wpc' = [wpc EXCEPT ![w] = "update"]
    /\ UNCHANGED <<mainVars, m_pendingTasks, m_isStopped, queueVars, updates>>

\* BlockingQueue::waitAndPop() from the test of its while loop on.
WaitAndPop(w) ==
    /\ wpc[w] = "pop"
    /\ \/ /\ queue = <<>> /\ ~m_shutdown
          /\ wpc' = [wpc EXCEPT ![w] = "asleep"]
          /\ UNCHANGED <<queue, task>>
       \/ /\ m_shutdown
          /\ wpc' = [wpc EXCEPT ![w] = "check"]
          /\ UNCHANGED <<queue, task>>
       \/ /\ queue # <<>> /\ ~m_shutdown
          /\ task' = [task EXCEPT ![w] = Head(queue)]
          /\ queue' = Tail(queue)
          /\ wpc' = [wpc EXCEPT ![w] = "update"]
    /\ UNCHANGED <<mainVars, m_pendingTasks, m_isStopped, m_shutdown, updates>>

\* A condition variable may wake a waiter for no reason.
SpuriousWakeup(w) ==
    /\ wpc[w] = "asleep"
    /\ wpc' = [wpc EXCEPT ![w] = "pop"]
    /\ UNCHANGED <<mainVars, m_pendingTasks, m_isStopped, queueVars, task, updates>>

\* TheaterUpdateTask::execute(): m_theater->update() returns ...
TheaterUpdate(w) ==
    /\ wpc[w] = "update"
    /\ updates' = [updates EXCEPT ![task[w]] = @ + 1]
    /\ wpc' = [wpc EXCEPT ![w] = "finish"]
    /\ UNCHANGED <<mainVars, m_pendingTasks, m_isStopped, queueVars, task>>

MutWaitWithoutLoop(w) ==
    /\ wpc[w] = "finish"
    /\ main # "notify"
    /\ m_pendingTasks' = m_pendingTasks - 1
    /\ main' = IF main = "blocked" THEN "idle" ELSE main
    /\ task' = [task EXCEPT ![w] = NoTheater]
    /\ wpc' = [wpc EXCEPT ![w] = "check"]
    /\ UNCHANGED <<todo, m_isStopped, queueVars, batch, updates>>

\* ... and m_updater->updateFinished(), under m_mutex, wakes the main thread.
UpdateFinished(w) ==
    /\ wpc[w] = "finish"
    /\ main # "notify"
    /\ m_pendingTasks' = m_pendingTasks - 1
    /\ main' = IF main = "blocked" THEN "wait" ELSE main
    /\ task' = [task EXCEPT ![w] = NoTheater]
    /\ wpc' = [wpc EXCEPT ![w] = "check"]
    /\ UNCHANGED <<todo, m_isStopped, queueVars, batch, updates>>

Terminated == main = "done" /\ UNCHANGED vars

MainStep ==
    \/ Start
    \/ \E S \in SUBSET Theater : BeginTick(S)
    \/ \E t \in Theater : ScheduleUpdate(t)
    \/ NotifyOne
    \/ AllScheduled
    \/ WaitUpdate
    \/ StopBegin
    \/ StopReset
    \/ Cancel
    \/ Join

WorkerStep(w) ==
    \/ WorkerCheck(w)
    \/ WaitAndPop(w)
    \/ TheaterUpdate(w)
    \/ UpdateFinished(w)

Next ==
    \/ MainStep
    \/ \E w \in Worker : WorkerStep(w) \/ SpuriousWakeup(w)
    \/ Terminated

(***************************************************************************)
(* The operating system keeps running every thread that is not blocked.     *)
(* Nothing is assumed of spurious wakeups, nor that the server is stopped.  *)
(***************************************************************************)
Fairness ==
    /\ WF_vars(MainStep)
    /\ \A w \in Worker : WF_vars(WorkerStep(w))

Spec == Init /\ [][Next]_vars
FairSpec == Spec /\ Fairness

-----------------------------------------------------------------------------
(***************************************************************************)
(* Properties.                                                              *)
(***************************************************************************)

Busy == {w \in Worker : wpc[w] \in {"update", "finish"}}

\* When waitUpdate() has returned (and purgeTheaters() may delete theaters) no
\* worker touches a theater, nothing is queued, and exactly the theaters of the
\* tick were updated, each once.
Barrier ==
    main = "idle" =>
        /\ Busy = {}
        /\ queue = <<>>
        /\ \A t \in Theater : updates[t] = IF t \in batch THEN 1 ELSE 0

\* No two workers run Theater::update() of the same theater at the same time:
\* Theater and BattleMap have no lock of their own.
ExclusiveUpdate ==
    \A v, w \in Worker :
        wpc[v] = "update" /\ wpc[w] = "update" /\ task[v] = task[w] => v = w

\* waitUpdate() returns in every tick: no wakeup of a worker or of the main
\* thread is lost.
TickEnds == main = "schedule" ~> main = "idle"

\* stop() always gets past thread.join(): every worker wakes up and leaves.
StopReturns == main = "stop" ~> main = "done"

\* The pool implements the promise of updateTheaters(): a theater leaves
\* "remaining" when its update() has returned.
Abstract ==
    INSTANCE ParallelUpdate WITH
        phase <- IF main \in {"start", "idle"} THEN "idle"
                 ELSE IF main \in {"schedule", "notify", "wait", "blocked"} THEN "updating"
                 ELSE "halted",
        remaining <- {t \in batch : updates[t] = 0}

ImplementsParallelUpdate == Abstract!Spec
=============================================================================
