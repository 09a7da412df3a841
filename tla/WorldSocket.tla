----------------------------- MODULE WorldSocket -----------------------------
(***************************************************************************)
(* A WorldSocket and the sessions that were created on it                   *)
(* (game/server/WorldSocket.cpp).  The network thread dereferences the raw  *)
(* pointer m_session under m_sessMutex; the main thread owns the session    *)
(* objects and deletes them.  The only bond between the two is              *)
(* closeSocket(): it sets m_isClosed, then takes m_sessMutex and clears     *)
(* m_session, on whichever of the two threads comes first.                  *)
(*                                                                          *)
(* Closing shuts down the sending side only, so the packets of the client   *)
(* are still received after it.                                             *)
(***************************************************************************)
EXTENDS Naturals

CONSTANTS
    Session,    \* the session objects that AUTH_PROOF packets may create on this socket
    None        \* the null pointer

ASSUME NoneAssumption == None \notin Session

VARIABLES
    m_isClosed,
    m_session,
    mutex,      \* who holds m_sessMutex: "net", "main" is never inside between two steps
    reading,    \* a read is armed
    net,        \* where the network thread is
    main,       \* where the main thread is
    target,     \* the session the main thread is closing the socket for
    heap,       \* the session objects that exist
    made,       \* the session objects that were ever created (history)
    late,       \* those of them that were created after the socket was closed (history)
    managed,    \* the sessions handed to TheaterManager::queueSession()
    attached,   \* the sessions whose m_socket is not null
    loggingOut  \* the sessions with m_isLoggingOut

socketVars == <<m_isClosed, m_session, mutex>>
netVars == <<reading, net>>
mainVars == <<main, target>>
sessionVars == <<heap, made, late, managed, attached, loggingOut>>
vars == <<m_isClosed, m_session, mutex, reading, net, main, target, heap, made, late, managed,
          attached, loggingOut>>

TypeOK ==
    /\ m_isClosed \in BOOLEAN
    /\ m_session \in Session \cup {None}
    /\ mutex \in {"free", "net"}
    /\ reading \in BOOLEAN
    /\ net \in {"loop", "test", "use", "created", "queued", "closing"}
    /\ main \in {"idle", "kicking", "deleting"}
    /\ target \in Session \cup {None}
    /\ heap \in SUBSET Session
    /\ made \in SUBSET Session
    /\ late \in SUBSET made
    /\ managed \in SUBSET Session
    /\ attached \in SUBSET Session
    /\ loggingOut \in SUBSET Session

Init ==
    /\ m_isClosed = FALSE
    /\ m_session = None
    /\ mutex = "free"
    /\ reading = TRUE
    /\ net = "loop"
    /\ main = "idle"
    /\ target = None
    /\ heap = {}
    /\ made = {}
    /\ late = {}
    /\ managed = {}
    /\ attached = {}
    /\ loggingOut = {}

-----------------------------------------------------------------------------
(***************************************************************************)
(* The network thread.                                                      *)
(***************************************************************************)

\* Any packet for the session, a ping or a time synchronisation: lock m_sessMutex.
LockSession ==
    /\ net = "loop" /\ reading /\ mutex = "free"
    /\ mutex' = "net"
    /\ net' = "test"
    /\ UNCHANGED <<m_isClosed, m_session, reading, mainVars, sessionVars>>

\* if (m_session)
TestSession ==
    /\ net = "test"
    /\ net' = IF m_session = None THEN "loop" ELSE "use"
    /\ mutex' = IF m_session = None THEN "free" ELSE "net"
    /\ UNCHANGED <<m_isClosed, m_session, reading, mainVars, sessionVars>>

\* addToRecvQueue(), resetTimeoutTimer(), setLatency() or updateClientTime() on the
\* session, then unlock.  The answer to a ping goes through the socket alone.
UseSession ==
    /\ net = "use"
    /\ mutex' = "free"
    /\ net' = "loop"
    /\ UNCHANGED <<m_isClosed, m_session, reading, mainVars, sessionVars>>

\* Mutant: the proof is handled without the lock.
MutCreateSession(s) ==
    /\ net = "loop" /\ reading /\ mutex = "free"
    /\ s \notin made
    /\ m_session' = s
    /\ heap' = heap \cup {s}
    /\ made' = made \cup {s}
    /\ late' = IF m_isClosed THEN late \cup {s} ELSE late
    /\ attached' = attached \cup {s}
    /\ net' = "created"
    /\ UNCHANGED <<m_isClosed, mutex, reading, mainVars, managed, loggingOut>>

\* handleAuthProof(): lock, and a new session replaces the pointer ...
CreateSession(s) ==
    /\ net = "loop" /\ reading /\ mutex = "free"
    /\ s \notin made
    /\ mutex' = "net"
    /\ m_session' = s
    /\ heap' = heap \cup {s}
    /\ made' = made \cup {s}
    /\ late' = IF m_isClosed THEN late \cup {s} ELSE late
    /\ attached' = attached \cup {s}
    /\ net' = "created"
    /\ UNCHANGED <<m_isClosed, reading, mainVars, managed, loggingOut>>

\* ... is set up and handed to the main thread, which may process it at once ...
QueueSession ==
    /\ net = "created"
    /\ managed' = managed \cup {m_session}
    /\ net' = "queued"
    /\ UNCHANGED <<socketVars, reading, mainVars, heap, made, late, attached, loggingOut>>

\* ... before the lock is released.
UnlockProof ==
    /\ net = "queued"
    /\ mutex' = "free"
    /\ net' = "loop"
    /\ UNCHANGED <<m_isClosed, m_session, reading, mainVars, sessionVars>>

(***************************************************************************)
(* closeSocket() on the network thread.  After a read error no read is      *)
(* armed any more; after a write error or with a full write queue the read  *)
(* goes on.  Nothing is written before a session exists.                    *)
(***************************************************************************)
NetClose(readError) ==
    /\ net = "loop" /\ reading
    /\ readError \/ made # {}
    /\ reading' = ~readError
    /\ m_isClosed' = TRUE
    /\ net' = IF m_isClosed THEN "loop" ELSE "closing"
    /\ UNCHANGED <<m_session, mutex, mainVars, sessionVars>>

\* onSocketClosed(): the session may have been deleted already.
NetForget ==
    /\ net = "closing" /\ mutex = "free"
    /\ m_session' = None
    /\ net' = "loop"
    /\ UNCHANGED <<m_isClosed, mutex, reading, mainVars, sessionVars>>

-----------------------------------------------------------------------------
(***************************************************************************)
(* The main thread.                                                         *)
(***************************************************************************)

\* kickPlayer(): closeSocket() up to the mutex; if another thread was first, all of it.
Kick(s) ==
    /\ main = "idle"
    /\ s \in managed \cap heap
    /\ s \notin loggingOut
    /\ m_isClosed' = (m_isClosed \/ s \in attached)
    /\ IF s \in attached /\ ~m_isClosed
       THEN main' = "kicking" /\ target' = s /\ UNCHANGED loggingOut
       ELSE loggingOut' = loggingOut \cup {s} /\ UNCHANGED mainVars
    /\ UNCHANGED <<m_session, mutex, netVars, heap, made, late, managed, attached>>

\* Mutant: the socket keeps its pointer when the player is kicked.
MutKickForget ==
    /\ main = "kicking" /\ mutex = "free"
    /\ loggingOut' = loggingOut \cup {target}
    /\ main' = "idle"
    /\ target' = None
    /\ UNCHANGED <<socketVars, netVars, heap, made, late, managed, attached>>

\* onSocketClosed() on the main thread, and the end of kickPlayer().
KickForget ==
    /\ main = "kicking" /\ mutex = "free"
    /\ m_session' = None
    /\ loggingOut' = loggingOut \cup {target}
    /\ main' = "idle"
    /\ target' = None
    /\ UNCHANGED <<m_isClosed, mutex, netVars, heap, made, late, managed, attached>>

\* WorldSession::update() finds the socket closed, lets it go, and updateSessions()
\* deletes the session.  A session that may be restored is kept for a while.
DropClosed(s) ==
    /\ main = "idle"
    /\ s \in managed \cap heap
    /\ m_isClosed
    /\ attached' = attached \ {s}
    /\ heap' = heap \ {s}
    /\ UNCHANGED <<socketVars, netVars, mainVars, made, late, managed, loggingOut>>

\* Mutant: the destructor leaves the socket open.
MutDelete(s) ==
    /\ main = "idle"
    /\ s \in managed \cap heap
    /\ heap' = heap \ {s}
    /\ UNCHANGED <<socketVars, netVars, mainVars, made, late, managed, attached, loggingOut>>

\* ~WorldSession() of a session that was replaced by a restoring one, or at the end of
\* the server: closeSocket() up to the mutex, or, if another thread was first, the end.
Delete(s) ==
    /\ main = "idle"
    /\ s \in managed \cap heap
    /\ m_isClosed' = TRUE
    /\ IF m_isClosed
       THEN heap' = heap \ {s} /\ UNCHANGED mainVars
       ELSE main' = "deleting" /\ target' = s /\ UNCHANGED heap
    /\ UNCHANGED <<m_session, mutex, netVars, made, late, managed, attached, loggingOut>>

DeleteForget ==
    /\ main = "deleting" /\ mutex = "free"
    /\ m_session' = None
    /\ heap' = heap \ {target}
    /\ main' = "idle"
    /\ target' = None
    /\ UNCHANGED <<m_isClosed, mutex, netVars, made, late, managed, attached, loggingOut>>

NetworkThread ==
    \/ LockSession \/ TestSession \/ UseSession
    \/ \E s \in Session : CreateSession(s)
    \/ QueueSession \/ UnlockProof
    \/ \E b \in BOOLEAN : NetClose(b)
    \/ NetForget

MainThread ==
    \/ \E s \in Session : Kick(s) \/ DropClosed(s) \/ Delete(s)
    \/ KickForget \/ DeleteForget

Next == NetworkThread \/ MainThread

Spec == Init /\ [][Next]_vars

-----------------------------------------------------------------------------
(***************************************************************************)
(* Properties.                                                              *)
(***************************************************************************)

(***************************************************************************)
(* While the socket is open, its pointer refers to a session that exists,   *)
(* however many sessions were created on it and whichever of them the main  *)
(* thread deletes (onSocketClosed and ~WorldSession).                       *)
(***************************************************************************)
OpenPointerValid == ~m_isClosed => m_session \in heap \cup {None}

(***************************************************************************)
(* handleAuthProof() sets up the session before the main thread knows it:   *)
(* until queueSession() nobody deletes it, takes it or clears the pointer   *)
(* through which it is set up, although the socket may be closed meanwhile. *)
(***************************************************************************)
SetUpInPrivate == net = "created" => m_session \in heap \ managed

(***************************************************************************)
(* The network thread never uses a session that the main thread has         *)
(* deleted, whichever thread closes the socket and at whatever moment; only *)
(* a session created after the close is not covered (KickedIsForgotten).    *)
(***************************************************************************)
UseIsSafe == net = "use" => m_session \in heap \cup late

(***************************************************************************)
(* "peer sent MSG_PING, but is not authenticated or got recently kicked":   *)
(* once closeSocket() has returned, the socket has no session.              *)
(***************************************************************************)
KickedIsForgotten ==
    m_isClosed /\ net # "closing" /\ main = "idle" => m_session = None
=============================================================================
