----------------------------- MODULE Application -----------------------------
(***************************************************************************)
(* The process of a server around its network threads: the main thread, the *)
(* thread pool with the acceptor and the signal handler, the message queue  *)
(* through which another process controls this one, and the log             *)
(* (authserver/Application.cpp, common/logging/Log.cpp).                    *)
(*                                                                          *)
(* The module extends NetworkThread: its actions keep their meaning and get *)
(* the guards of the threads they run on.  The acceptor runs on the pool,   *)
(* which takes up no handler once the io_service is stopped; the main       *)
(* thread closes the acceptor and stops the network threads.                *)
(*                                                                          *)
(* Abstractions.  The realm list, which the main thread loads again on      *)
(* request, is the module RealmManager; here loading it takes time.  The    *)
(* list of banned accounts is loaded in the same way.  Log::write() is one  *)
(* step.  A queue that cannot be created, which ends the server, is left    *)
(* out.                                                                     *)
(***************************************************************************)
EXTENDS NetworkThread

CONSTANTS
    MaxMsgs,        \* MAX_MSG_COUNT, the capacity of the message queue
    AsyncLog        \* Log.Async.Enable

ASSUME ConfigAssumption == MaxMsgs \in Nat \ {0} /\ AsyncLog \in BOOLEAN

VARIABLES
    main,           \* where the main thread is
    stopped,        \* m_ioService.stopped()
    signal,         \* where signalHandler() is
    msgQueue,       \* the messages m_msgQueue holds
    log,            \* m_ioService and m_strand of the log
    strandMisused   \* a deleted strand was used (history)

logVars == <<log, strandMisused>>
appVars == <<main, stopped, signal, msgQueue, logVars>>
allVars == <<vars, appVars>>

Messages == {"stop", "reload-realm"}

\* The queue exists: it is created late, and what is sent to one that was removed is lost.
HasQueue == main \in {"testing", "receiving", "loading"}

\* run() has loaded the realm list and is in startNetwork(), about to arm the first accept.
AppInit ==
    /\ Init
    /\ main = "starting" /\ stopped = FALSE /\ signal = "none" /\ msgQueue = <<>>
    /\ log = IF AsyncLog THEN "async" ELSE "sync"
    /\ strandMisused = FALSE

-----------------------------------------------------------------------------
(***************************************************************************)
(* The signal handler, on the pool, and the message queue.                  *)
(***************************************************************************)

RaiseSignal ==
    /\ signal = "none" /\ ~stopped
    /\ signal' = "raised"
    /\ UNCHANGED <<vars, main, stopped, msgQueue, logVars>>

\* sendIPCMsg(): nothing is sent if there is no queue or it is full.
TrySend(m) ==
    msgQueue' = IF HasQueue /\ Len(msgQueue) < MaxMsgs THEN Append(msgQueue, m) ELSE msgQueue

\* Mutant: the handler leaves it to the message to stop the server.
MutSignalStop ==
    /\ signal = "raised"
    /\ signal' = "stopped"
    /\ UNCHANGED <<vars, main, stopped, msgQueue, logVars>>

\* signalHandler() stops the io_service ...
SignalStop ==
    /\ signal = "raised"
    /\ signal' = "stopped" /\ stopped' = TRUE
    /\ UNCHANGED <<vars, main, msgQueue, logVars>>

\* ... and wakes the main thread.
SignalSend ==
    /\ signal = "stopped"
    /\ signal' = "handled" /\ TrySend("stop")
    /\ UNCHANGED <<vars, main, stopped, logVars>>

\* sendOptionsToInstance() of another process, which fails if the queue is full.
SendOption(m) ==
    /\ HasQueue /\ Len(msgQueue) < MaxMsgs
    /\ TrySend(m)
    /\ UNCHANGED <<vars, main, stopped, signal, logVars>>

-----------------------------------------------------------------------------
(***************************************************************************)
(* The main thread: receiveIPCMsg().                                        *)
(***************************************************************************)

\* startNetwork() returns.
Started ==
    /\ main = "starting" /\ acceptor = "listening"
    /\ main' = "opening"
    /\ UNCHANGED <<vars, stopped, signal, msgQueue, logVars>>

CreateQueue ==
    /\ main = "opening"
    /\ main' = "testing"
    /\ UNCHANGED <<vars, stopped, signal, msgQueue, logVars>>

\* while (!m_ioService.stopped()); after the loop the queue is removed.
TestStopped ==
    /\ main = "testing"
    /\ main' = IF stopped THEN "joining" ELSE "receiving"
    /\ msgQueue' = IF stopped THEN <<>> ELSE msgQueue
    /\ UNCHANGED <<vars, stopped, signal, logVars>>

\* receive(), which waits, and handleIPCMsg().
Receive ==
    /\ main = "receiving" /\ msgQueue # <<>>
    /\ msgQueue' = Tail(msgQueue)
    /\ \/ /\ Head(msgQueue) = "stop"
          /\ main' = "testing" /\ stopped' = TRUE
       \/ /\ Head(msgQueue) = "reload-realm"
          /\ main' = "loading" /\ UNCHANGED stopped
    /\ UNCHANGED <<vars, signal, logVars>>

\* load() returns, with or without success.
Loaded ==
    /\ main = "loading"
    /\ main' = "testing"
    /\ UNCHANGED <<vars, stopped, signal, msgQueue, logVars>>

-----------------------------------------------------------------------------
(***************************************************************************)
(* The main thread: shutting down.                                          *)
(***************************************************************************)

\* shutdownThreadPool(): the handlers that run end, then the pool is joined.
ShutdownThreadPool ==
    /\ main = "joining" /\ acceptor = "listening" /\ signal \in {"none", "handled"}
    /\ main' = "joined"
    /\ UNCHANGED <<vars, stopped, signal, msgQueue, logVars>>

\* setSynchronous(): the strand is deleted ...
DeleteStrand ==
    /\ main = "joined"
    /\ main' = "deleted" /\ log' = IF log = "async" THEN "deleted" ELSE log
    /\ UNCHANGED <<vars, stopped, signal, msgQueue, strandMisused>>

\* ... and m_ioService is cleared.
ClearIoService ==
    /\ main = "deleted"
    /\ main' = "halting" /\ log' = "sync"
    /\ UNCHANGED <<vars, stopped, signal, msgQueue, strandMisused>>

\* stopNetwork()
CloseNetwork ==
    /\ main = "halting" /\ CloseAcceptor
    /\ main' = "stopping"
    /\ UNCHANGED <<stopped, signal, msgQueue, logVars>>

StopNetworkThread(t) == main = "stopping" /\ StopThread(t) /\ UNCHANGED appVars

Return ==
    /\ main = "stopping" /\ \A t \in Thread : pc[t] = "exited"
    /\ main' = "done"
    /\ UNCHANGED <<vars, stopped, signal, msgQueue, logVars>>

-----------------------------------------------------------------------------
(***************************************************************************)
(* The pool and the network threads.                                        *)
(***************************************************************************)

\* A handler of the acceptor that has begun goes on, also when the pool is stopped.
Accepting == (SelectThread \/ ArmAccept \/ AddPending) /\ UNCHANGED appVars

\* The pool takes up a handler of the acceptor.
Accept ==
    /\ main # "starting" /\ ~stopped
    /\ AcceptFailed \/ \E s \in Socket : AcceptSocket(s)
    /\ UNCHANGED appVars

ThreadStep(t) == Run(t) /\ UNCHANGED appVars

\* AuthSocket::update() and the handlers of a socket: it is closed by its own thread only.
CloseOwn(t, s) ==
    /\ s \in m_sockets[t] /\ pc[t] \in {"loop", "update"}
    /\ CloseSocket(s) /\ UNCHANGED appVars

\* A handler of a session logs: Log::write() finds m_ioService set and uses m_strand.
Write(t) ==
    /\ m_sockets[t] # {} /\ pc[t] \in {"loop", "update"} /\ log # "sync"
    /\ strandMisused' = (strandMisused \/ log = "deleted")
    /\ UNCHANGED <<vars, main, stopped, signal, msgQueue, log>>

-----------------------------------------------------------------------------
MainStep ==
    \/ Started \/ CreateQueue \/ TestStopped \/ Receive \/ Loaded
    \/ ShutdownThreadPool \/ DeleteStrand \/ ClearIoService \/ CloseNetwork \/ Return

Exited == main = "done" /\ UNCHANGED allVars

AppNext ==
    \/ MainStep
    \/ RaiseSignal \/ SignalStop \/ SignalSend
    \/ \E m \in Messages : SendOption(m)
    \/ Accepting \/ Accept
    \/ \E t \in Thread :
         \/ ThreadStep(t) \/ StopNetworkThread(t) \/ Write(t)
         \/ \E s \in Socket : CloseOwn(t, s)
    \/ Exited

AppSpec == AppInit /\ [][AppNext]_allVars

(***************************************************************************)
(* Every thread goes on with what it has begun, and the event loops run.    *)
(* Nothing is assumed of clients, other processes and signals.              *)
(***************************************************************************)
AppFairness ==
    /\ WF_allVars(MainStep) /\ WF_allVars(SignalStop) /\ WF_allVars(SignalSend)
    /\ WF_allVars(Accepting)
    /\ \A t \in Thread : WF_allVars(ThreadStep(t)) /\ WF_allVars(StopNetworkThread(t))

FairAppSpec == AppSpec /\ AppFairness

-----------------------------------------------------------------------------
(***************************************************************************)
(* Properties.                                                              *)
(***************************************************************************)

(***************************************************************************)
(* A signal or an accepted stop message ends the process, whether the       *)
(* message queue is not there yet, empty, full or being read.               *)
(***************************************************************************)
StopsWhenAsked ==
    (signal # "none" \/ \E i \in DOMAIN msgQueue : msgQueue[i] = "stop") ~> main = "done"

(***************************************************************************)
(* "Not threadsafe - should only be called from main() after all threads    *)
(* are joined" (Log.h): no thread uses the strand after setSynchronous()    *)
(* has deleted it.                                                          *)
(***************************************************************************)
StrandAlive == ~strandMisused
=============================================================================
