---------------------------- MODULE NetworkThread ----------------------------
(***************************************************************************)
(* Accepting connections and spreading them over the network threads        *)
(* (common/networking/SocketMgr.h, AsyncAcceptor.h and NetworkThread.h).    *)
(*                                                                          *)
(* One accept is armed at a time, for the thread that had the fewest        *)
(* connections when it was armed.  The acceptor runs on the thread pool of  *)
(* the application, each network thread on its own event loop; they share   *)
(* the connection counters and the queues of pending sockets.               *)
(***************************************************************************)
EXTENDS Integers, Sequences, FiniteSets

CONSTANTS
    ThreadCount,    \* Network.Threads
    Socket,         \* the connections that clients may open
    NoSocket        \* no connection is being added

Thread == 1 .. ThreadCount

ASSUME ThreadAssumption == ThreadCount \in Nat \ {0}
ASSUME SocketAssumption == IsFiniteSet(Socket) /\ NoSocket \notin Socket

VARIABLES
    acceptor,       \* where the acceptor is
    scan,           \* the thread selectThreadWithMinConnections() looks at next
    chosen,         \* its result so far, then the index the armed accept carries
    arriving,       \* the connection onSocketOpen() is adding
    m_connections,
    m_pendingSockets,
    m_sockets,
    m_isStopped,
    pc,             \* where each network thread is
    todo,           \* the sockets update() has not visited yet
    accepted,       \* the connections that were established (history)
    open,           \* those whose m_isClosed is not set
    started,        \* those whose start() was called
    removed         \* how many connections each thread dropped from its count (history)

acceptVars == <<acceptor, scan, chosen, arriving, accepted>>
vars == <<acceptor, scan, chosen, arriving, m_connections, m_pendingSockets, m_sockets,
          m_isStopped, pc, todo, accepted, open, started, removed>>

TypeOK ==
    /\ acceptor \in {"selecting", "listening", "adding", "closed"}
    /\ scan \in 1 .. ThreadCount + 1
    /\ chosen \in Thread
    /\ arriving \in IF acceptor = "adding" THEN Socket ELSE {NoSocket}
    /\ m_connections \in [Thread -> Int]
    /\ m_pendingSockets \in [Thread -> Seq(Socket)]
    /\ m_sockets \in [Thread -> SUBSET Socket]
    /\ m_isStopped \in [Thread -> BOOLEAN]
    /\ pc \in [Thread -> {"loop", "pending", "update", "exited"}]
    /\ todo \in [Thread -> SUBSET Socket]
    /\ accepted \in SUBSET Socket
    /\ open \in SUBSET Socket
    /\ started \in SUBSET Socket
    /\ removed \in [Thread -> Nat]

\* startNetwork() has started the threads and is about to arm the first accept.
Init ==
    /\ acceptor = "selecting"
    /\ scan = 2
    /\ chosen = 1
    /\ arriving = NoSocket
    /\ m_connections = [t \in Thread |-> 0]
    /\ m_pendingSockets = [t \in Thread |-> <<>>]
    /\ m_sockets = [t \in Thread |-> {}]
    /\ m_isStopped = [t \in Thread |-> FALSE]
    /\ pc = [t \in Thread |-> "loop"]
    /\ todo = [t \in Thread |-> {}]
    /\ accepted = {}
    /\ open = {}
    /\ started = {}
    /\ removed = [t \in Thread |-> 0]

-----------------------------------------------------------------------------
(***************************************************************************)
(* The acceptor.                                                            *)
(***************************************************************************)

\* Mutant: the comparison is the wrong way round.
MutSelectThread ==
    /\ acceptor = "selecting"
    /\ scan <= ThreadCount
    /\ chosen' = IF m_connections[scan] > m_connections[chosen] THEN scan ELSE chosen
    /\ scan' = scan + 1
    /\ UNCHANGED <<acceptor, arriving, m_connections, m_pendingSockets, m_sockets, m_isStopped,
                   pc, todo, accepted, open, started, removed>>

\* One comparison of selectThreadWithMinConnections(); the counters change meanwhile.
SelectThread ==
    /\ acceptor = "selecting"
    /\ scan <= ThreadCount
    /\ chosen' = IF m_connections[scan] < m_connections[chosen] THEN scan ELSE chosen
    /\ scan' = scan + 1
    /\ UNCHANGED <<acceptor, arriving, m_connections, m_pendingSockets, m_sockets, m_isStopped,
                   pc, todo, accepted, open, started, removed>>

\* async_accept() with the socket of the selected thread.
ArmAccept ==
    /\ acceptor = "selecting"
    /\ scan > ThreadCount
    /\ acceptor' = "listening"
    /\ UNCHANGED <<scan, chosen, arriving, m_connections, m_pendingSockets, m_sockets,
                   m_isStopped, pc, todo, accepted, open, started, removed>>

\* The accept fails, or the client is gone before its address is read: accept() again.
AcceptFailed ==
    /\ acceptor = "listening"
    /\ acceptor' = "selecting"
    /\ scan' = 2
    /\ chosen' = 1
    /\ UNCHANGED <<arriving, m_connections, m_pendingSockets, m_sockets, m_isStopped, pc, todo,
                   accepted, open, started, removed>>

\* onSocketOpen(): addSocket() counts the connection first ...
AcceptSocket(s) ==
    /\ acceptor = "listening"
    /\ s \notin accepted
    /\ acceptor' = "adding"
    /\ arriving' = s
    /\ accepted' = accepted \cup {s}
    /\ open' = open \cup {s}
    /\ m_connections' = [m_connections EXCEPT ![chosen] = @ + 1]
    /\ UNCHANGED <<scan, chosen, m_pendingSockets, m_sockets, m_isStopped, pc, todo, started,
                   removed>>

\* ... and queues it then; the handler ends with the next accept().
AddPending ==
    /\ acceptor = "adding"
    /\ m_pendingSockets' = [m_pendingSockets EXCEPT ![chosen] = Append(@, arriving)]
    /\ arriving' = NoSocket
    /\ acceptor' = "selecting"
    /\ scan' = 2
    /\ chosen' = 1
    /\ UNCHANGED <<m_connections, m_sockets, m_isStopped, pc, todo, accepted, open, started,
                   removed>>

-----------------------------------------------------------------------------
(***************************************************************************)
(* A network thread.                                                        *)
(***************************************************************************)

\* Mutant: a thread without sockets does not look for pending ones.
MutUpdateBegin(t) ==
    /\ pc[t] = "loop"
    /\ ~m_isStopped[t]
    /\ m_sockets[t] # {}
    /\ pc' = [pc EXCEPT ![t] = "pending"]
    /\ UNCHANGED <<acceptVars, m_connections, m_pendingSockets, m_sockets, m_isStopped, todo,
                   open, started, removed>>

\* The timer fires: update(), which has armed the timer again when it returns.
UpdateBegin(t) ==
    /\ pc[t] = "loop"
    /\ ~m_isStopped[t]
    /\ pc' = [pc EXCEPT ![t] = "pending"]
    /\ UNCHANGED <<acceptVars, m_connections, m_pendingSockets, m_sockets, m_isStopped, todo,
                   open, started, removed>>

\* processPendingSockets(), one socket: nobody can have closed it before start().
ProcessPending(t) ==
    /\ pc[t] = "pending"
    /\ m_pendingSockets[t] # <<>>
    /\ LET s == Head(m_pendingSockets[t])
           isOpen == s \in open
       IN  /\ m_sockets' = [m_sockets EXCEPT ![t] = IF isOpen THEN @ \cup {s} ELSE @]
           /\ started' = IF isOpen THEN started \cup {s} ELSE started
           /\ m_connections' = [m_connections EXCEPT ![t] = IF isOpen THEN @ ELSE @ - 1]
           /\ removed' = [removed EXCEPT ![t] = IF isOpen THEN @ ELSE @ + 1]
    /\ m_pendingSockets' = [m_pendingSockets EXCEPT ![t] = Tail(@)]
    /\ UNCHANGED <<acceptVars, m_isStopped, pc, todo, open>>

PendingDone(t) ==
    /\ pc[t] = "pending"
    /\ m_pendingSockets[t] = <<>>
    /\ pc' = [pc EXCEPT ![t] = "update"]
    /\ todo' = [todo EXCEPT ![t] = m_sockets[t]]
    /\ UNCHANGED <<acceptVars, m_connections, m_pendingSockets, m_sockets, m_isStopped, open,
                   started, removed>>

\* Mutant: the closed socket is removed, but still counted.
MutUpdateSocket(t, s) ==
    /\ pc[t] = "update"
    /\ s \in todo[t]
    /\ m_sockets' = [m_sockets EXCEPT ![t] = IF s \in open THEN @ ELSE @ \ {s}]
    /\ todo' = [todo EXCEPT ![t] = @ \ {s}]
    /\ UNCHANGED <<acceptVars, m_connections, m_pendingSockets, m_isStopped, pc, open, started,
                   removed>>

\* One call of the predicate of remove_if: an open socket is updated (see Socket), a
\* closed one is removed.
UpdateSocket(t, s) ==
    /\ pc[t] = "update"
    /\ s \in todo[t]
    /\ m_sockets' = [m_sockets EXCEPT ![t] = IF s \in open THEN @ ELSE @ \ {s}]
    /\ m_connections' = [m_connections EXCEPT ![t] = IF s \in open THEN @ ELSE @ - 1]
    /\ removed' = [removed EXCEPT ![t] = IF s \in open THEN @ ELSE @ + 1]
    /\ todo' = [todo EXCEPT ![t] = @ \ {s}]
    /\ UNCHANGED <<acceptVars, m_pendingSockets, m_isStopped, pc, open, started>>

UpdateDone(t) ==
    /\ pc[t] = "update"
    /\ todo[t] = {}
    /\ pc' = [pc EXCEPT ![t] = "loop"]
    /\ UNCHANGED <<acceptVars, m_connections, m_pendingSockets, m_sockets, m_isStopped, todo,
                   open, started, removed>>

\* Mutant: the thread leaves without releasing the sockets that wait.
MutExit(t) ==
    /\ pc[t] = "loop"
    /\ m_isStopped[t]
    /\ pc' = [pc EXCEPT ![t] = "exited"]
    /\ m_sockets' = [m_sockets EXCEPT ![t] = {}]
    /\ UNCHANGED <<acceptVars, m_connections, m_pendingSockets, m_isStopped, todo, open, started,
                   removed>>

\* run() returns after io_service::stop() and lets go of all its sockets.
Exit(t) ==
    /\ pc[t] = "loop"
    /\ m_isStopped[t]
    /\ pc' = [pc EXCEPT ![t] = "exited"]
    /\ m_pendingSockets' = [m_pendingSockets EXCEPT ![t] = <<>>]
    /\ m_sockets' = [m_sockets EXCEPT ![t] = {}]
    /\ UNCHANGED <<acceptVars, m_connections, m_isStopped, todo, open, started, removed>>

-----------------------------------------------------------------------------
(***************************************************************************)
(* The other threads.                                                       *)
(***************************************************************************)

\* closeSocket(), on whichever thread: only a socket that reads or has a session can be
\* closed, so not before start().
CloseSocket(s) ==
    /\ s \in started \cap open
    /\ open' = open \ {s}
    /\ UNCHANGED <<acceptVars, m_connections, m_pendingSockets, m_sockets, m_isStopped, pc, todo,
                   started, removed>>

\* shutdownThreadPool() lets a running handler of the acceptor finish; then
\* stopNetwork() closes the acceptor ...
CloseAcceptor ==
    /\ acceptor = "listening"
    /\ acceptor' = "closed"
    /\ UNCHANGED <<scan, chosen, arriving, accepted, m_connections, m_pendingSockets, m_sockets,
                   m_isStopped, pc, todo, open, started, removed>>

\* ... and stops the threads one after the other, each joined before the next.
StopThread(t) ==
    /\ acceptor = "closed"
    /\ ~m_isStopped[t]
    /\ \A u \in 1 .. t - 1 : pc[u] = "exited"
    /\ m_isStopped' = [m_isStopped EXCEPT ![t] = TRUE]
    /\ UNCHANGED <<acceptVars, m_connections, m_pendingSockets, m_sockets, pc, todo, open,
                   started, removed>>

\* stopNetwork() has returned.
Terminated ==
    /\ \A t \in Thread : pc[t] = "exited"
    /\ UNCHANGED vars

Acceptor ==
    \/ SelectThread \/ ArmAccept \/ AcceptFailed \/ AddPending
    \/ \E s \in Socket : AcceptSocket(s)

Run(t) ==
    \/ UpdateBegin(t) \/ ProcessPending(t) \/ PendingDone(t) \/ UpdateDone(t) \/ Exit(t)
    \/ \E s \in Socket : UpdateSocket(t, s)

Next ==
    \/ Acceptor
    \/ \E t \in Thread : Run(t) \/ StopThread(t)
    \/ \E s \in Socket : CloseSocket(s)
    \/ CloseAcceptor
    \/ Terminated

Spec == Init /\ [][Next]_vars

(***************************************************************************)
(* The event loops run, a handler of the acceptor ends, and the main thread *)
(* goes on once it is in stopNetwork().                                     *)
(***************************************************************************)
FairSpec ==
    /\ Spec
    /\ WF_vars(AddPending) /\ WF_vars(SelectThread) /\ WF_vars(ArmAccept)
    /\ \A t \in Thread : WF_vars(Run(t)) /\ WF_vars(StopThread(t))

-----------------------------------------------------------------------------
(***************************************************************************)
(* Properties.                                                              *)
(***************************************************************************)

(***************************************************************************)
(* The counter the acceptor balances by is the number of connections the    *)
(* thread has, waiting, being added or served, in every state: counted once *)
(* when accepted and taken off once when removed.                           *)
(***************************************************************************)
ConnectionsMatch ==
    \A t \in Thread : pc[t] # "exited" =>
        m_connections[t] = Len(m_pendingSockets[t]) + Cardinality(m_sockets[t])
                             + (IF acceptor = "adding" /\ chosen = t THEN 1 ELSE 0)

(***************************************************************************)
(* Connections are spread evenly although the counters are read one by one  *)
(* and used only when the next client comes: a thread gets ahead of another *)
(* by at most one plus the connections the other one has lost.              *)
(***************************************************************************)
Balanced ==
    \A t, u \in Thread : m_connections[t] <= m_connections[u] + 1 + removed[u]

(***************************************************************************)
(* After stopNetwork() no network thread holds a socket: what it keeps      *)
(* would be destroyed after its event loop.                                 *)
(***************************************************************************)
ExitedIsEmpty ==
    \A t \in Thread : pc[t] = "exited" => m_sockets[t] = {} /\ m_pendingSockets[t] = <<>>

(***************************************************************************)
(* Every accepted connection is started, or the server stops first; every   *)
(* started one leaves its thread after it was closed, whoever closed it and *)
(* when.  There are finitely many, and each is accepted, started and closed *)
(* once: all of them have come that far in the end, and for good.           *)
(***************************************************************************)
ConnectionsServed ==
    <>[](/\ accepted \subseteq started \/ acceptor = "closed"
         /\ \A s \in started \ open, t \in Thread : s \notin m_sockets[t])
=============================================================================
