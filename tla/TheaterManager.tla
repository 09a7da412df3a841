--------------------------- MODULE TheaterManager ---------------------------
(***************************************************************************)
(* Sessions, players and theaters of the world server                      *)
(* (game/theater/TheaterManager.cpp, Theater.cpp, game/server/              *)
(* WorldSession.cpp, the character handlers).                               *)
(*                                                                          *)
(* The main thread runs TheaterManager::update() once per tick: it takes    *)
(* the sessions the network threads queued, updates every session, admits   *)
(* waiting ones, updates and purges theaters.  The network threads create   *)
(* sessions, deliver pings and close sockets at any moment in between; a    *)
(* signal may stop the server.                                              *)
(*                                                                          *)
(* Abstractions.  A WorldSession has a socket of its own; the message queue *)
(* of a session is a free choice of the next message while the session is   *)
(* updated (the network thread may deliver anything meanwhile); time is     *)
(* counted in updates of a session; a Player is named after the session     *)
(* that created it; the battle itself is left to the module Battle, so a    *)
(* theater is idle, waiting or active here.                                 *)
(***************************************************************************)
EXTENDS Integers, Sequences, FiniteSets

CONSTANTS
    Session,                \* WorldSession objects that may be created
    SessionId,              \* ids generateSessionId() may return
    Theater,                \* Theater objects that may exist at a time
    None,                   \* the null pointer, and the session id 0
    ClientKind,             \* the permissions and capabilities clients connect with
    PlayerLimit,            \* PlayerLimit of the configuration
    PopulationCap,          \* population cap of every map
    SessionTimeout,         \* the three timeouts, in updates; 0 is "never"
    QueuedSessionTimeout,
    ExpiredSessionDelay

ASSUME SetAssumption ==
    /\ IsFiniteSet(Session) /\ IsFiniteSet(SessionId) /\ IsFiniteSet(Theater)
    /\ None \notin Session /\ None \notin SessionId /\ None \notin Theater
ASSUME ClientAssumption == ClientKind \subseteq [gm : BOOLEAN, keep : BOOLEAN]
ASSUME LimitAssumption == PlayerLimit \in Nat /\ PopulationCap \in Nat \ {0}
ASSUME TimeoutAssumption ==
    SessionTimeout \in Nat /\ QueuedSessionTimeout \in Nat /\ ExpiredSessionDelay \in Nat

Player == Session
TIMEOUT_NEVER == 0

VARIABLES
    unused,         \* sessions not constructed yet
    alive,          \* sessions constructed and not deleted
    ses,            \* the fields of each WorldSession
    open,           \* whether the socket of a session is open
    pending,        \* m_pendingSessions, filled by the network threads
    sessions,       \* m_sessions
    queued,         \* m_queuedPlayers
    expired,        \* m_expiredPlayers
    playerCount,    \* m_playerCount
    gmCount,        \* m_gmCount
    theaters,       \* the theaters that exist (m_theaters, m_orderedTheaters)
    th,             \* the fields of each Theater
    inWorld,        \* players added to the map of their theater
    pSession,       \* Player::m_session
    phase,          \* where the main thread is in TheaterManager::update()
    visit,          \* sessions the current loop has not reached yet
    pos,            \* position of the loop over m_queuedPlayers
    cur,            \* the session whose update() runs
    isStopping, isStopped

sesVars == <<unused, alive, ses, open>>
listVars == <<pending, sessions, queued, expired, playerCount, gmCount>>
worldVars == <<theaters, th, inWorld, pSession>>
loopVars == <<phase, visit, pos, cur>>
stopVars == <<isStopping, isStopped>>
vars == <<sesVars, listVars, worldVars, loopVars, stopVars>>

Phase == {"idle", "pending", "sessions", "queued", "expired", "theaters", "purge",
          "stopped", "offline", "destroyed", "aborted"}

SessionRecord ==
    [sid : SessionId \cup {None},
     gm : BOOLEAN,
     keep : BOOLEAN,          \* REQUIRES_ALLOW_PLAYER_TO_RESTORE
     authed : BOOLEAN,        \* m_isAuthed
     kicked : BOOLEAN,        \* m_isLoggingOut
     player : Player \cup {None},
     theater : Theater \cup {None},
     timeout : Nat,           \* m_timeoutTime
     timer : Nat]             \* m_timeoutTimer

TheaterRecord ==
    [members : [SessionId -> Session \cup {None}],      \* m_sessions
     online : Int,                                      \* getOnlineCount()
     state : {"idle", "waiting", "active"},
     deleting : BOOLEAN,
     queue : SUBSET Player]                             \* m_pendingPlayers of SpawnManager

TypeOK ==
    /\ unused \in SUBSET Session /\ alive \in SUBSET Session
    /\ ses \in [Session -> SessionRecord]
    /\ open \in [Session -> BOOLEAN]
    /\ pending \in Seq(Session) /\ queued \in Seq(Session)
    /\ sessions \in [SessionId -> Session \cup {None}]
    /\ expired \in SUBSET Session
    /\ playerCount \in Int /\ gmCount \in Int
    /\ theaters \in SUBSET Theater
    /\ th \in [Theater -> TheaterRecord]
    /\ inWorld \in SUBSET Player
    /\ pSession \in [Player -> Session \cup {None}]
    /\ phase \in Phase
    /\ visit \in SUBSET Session
    /\ pos \in Nat
    /\ cur \in Session \cup {None}
    /\ isStopping \in BOOLEAN /\ isStopped \in BOOLEAN

NewSession ==
    [sid |-> None, gm |-> FALSE, keep |-> FALSE, authed |-> FALSE, kicked |-> FALSE,
     player |-> None, theater |-> None, timeout |-> TIMEOUT_NEVER, timer |-> 0]

NewTheater ==
    [members |-> [i \in SessionId |-> None], online |-> 0, state |-> "idle",
     deleting |-> FALSE, queue |-> {}]

Init ==
    /\ unused = Session /\ alive = {}
    /\ ses = [s \in Session |-> NewSession]
    /\ open = [s \in Session |-> FALSE]
    /\ pending = <<>> /\ queued = <<>>
    /\ sessions = [i \in SessionId |-> None]
    /\ expired = {}
    /\ playerCount = 0 /\ gmCount = 0
    /\ theaters = {}
    /\ th = [t \in Theater |-> NewTheater]
    /\ inWorld = {}
    /\ pSession = [p \in Player |-> None]
    /\ phase = "idle" /\ visit = {} /\ pos = 1 /\ cur = None
    /\ isStopping = FALSE /\ isStopped = FALSE

Active == {sessions[i] : i \in SessionId} \ {None}
Elements(q) == {q[i] : i \in 1..Len(q)}
\* std::list::erase of the element at position i
Erase(q, i) == [j \in 1..(Len(q) - 1) |-> IF j < i THEN q[j] ELSE q[j + 1]]

-----------------------------------------------------------------------------
(***************************************************************************)
(* The network threads and the signal handler.                              *)
(***************************************************************************)
NetworkUp == phase \notin {"offline", "destroyed", "aborted"}

\* WorldSocket::handleAuthProof(): the client sends the id of an earlier session
\* to get its player back, or 0.
AuthProof(s, id, kind) ==
    /\ NetworkUp
    /\ s \in unused
    /\ unused' = unused \ {s}
    /\ alive' = alive \cup {s}
    /\ ses' = [ses EXCEPT ![s] = [NewSession EXCEPT !.sid = id, !.gm = kind.gm,
                                                        !.keep = kind.keep]]
    /\ open' = [open EXCEPT ![s] = TRUE]
    /\ pending' = Append(pending, s)
    /\ UNCHANGED <<sessions, queued, expired, playerCount, gmCount, worldVars, loopVars, stopVars>>

\* WorldSocket::handlePing(): resets the timeout timer, whatever the session is.
Ping(s) ==
    /\ NetworkUp
    /\ s \in alive /\ open[s]
    /\ ses' = [ses EXCEPT ![s].timer = ses[s].timeout]
    /\ UNCHANGED <<unused, alive, open, listVars, worldVars, loopVars, stopVars>>

\* Socket::closeSocket() after a read or write error, or the peer's close.
Disconnect(s) ==
    /\ NetworkUp
    /\ s \in alive /\ open[s]
    /\ open' = [open EXCEPT ![s] = FALSE]
    /\ UNCHANGED <<unused, alive, ses, listVars, worldVars, loopVars, stopVars>>

\* Application::signalHandler() -> World::stopNow() -> TheaterManager::stop()
Stop ==
    /\ NetworkUp /\ ~isStopped /\ ~isStopping
    /\ isStopping' = TRUE
    /\ UNCHANGED <<sesVars, listVars, worldVars, loopVars, isStopped>>

-----------------------------------------------------------------------------
(***************************************************************************)
(* Pieces of state transformations.                                         *)
(***************************************************************************)

\* WorldSession::setTimeout()
WithTimeout(r, time) == [r EXCEPT !.timeout = time, !.timer = time]

\* tryAddSession() and addGMSession() give the session a new id and accept it
\* (onSessionAccepted()).  A GM who does not keep his player never times out.
Accepted(r, id) ==
    WithTimeout([r EXCEPT !.sid = id, !.authed = TRUE],
                IF r.gm /\ ~r.keep THEN TIMEOUT_NEVER ELSE SessionTimeout)

\* Mutant: the GM level is not taken over.
MutRestored(r, old) ==
    WithTimeout([r EXCEPT !.player = old.player, !.theater = old.theater,
                          !.keep = old.keep, !.authed = TRUE],
                old.timeout)

\* onSessionAccepted(oldSession): the fields the new session takes over.
Restored(r, old) ==
    WithTimeout([r EXCEPT !.player = old.player, !.theater = old.theater, !.gm = old.gm,
                          !.keep = old.keep, !.authed = TRUE],
                old.timeout)

\* Theater::removeSession(): the last one out starts the deletion delay.
RemoveSession(r, id) ==
    LET found == r.members[id] # None
        online == IF found THEN r.online - 1 ELSE r.online
    IN  [r EXCEPT !.members[id] = None, !.online = online,
                  !.deleting = @ \/ online <= 0]

\* Theater::replaceSession()
ReplaceSession(r, id, s) == [r EXCEPT !.members[id] = IF @ = None THEN None ELSE s]

\* SpawnManager::removePlayerFromQueue()
RemovePlayerFromQueue(r, p) == [r EXCEPT !.queue = @ \ {p}]

\* Theater::addSession(): emplace() leaves an existing entry alone.
AddSession(r, id, s) ==
    LET inserted == r.members[id] = None
    IN  [r EXCEPT !.members[id] = IF inserted THEN s ELSE @,
                  !.online = IF inserted THEN @ + 1 ELSE @,
                  !.deleting = FALSE]

\* Mutant: the player stays in the queue of the spawn manager.
MutLogoutPlayer(s) ==
    LET p == ses[s].player
        t == ses[s].theater
    IN
    \/ /\ p = None
       /\ UNCHANGED <<th, inWorld, pSession>>
    \/ /\ p # None
       /\ th' = IF t = None THEN th ELSE [th EXCEPT ![t] = RemoveSession(@, ses[s].sid)]
       /\ inWorld' = inWorld \ {p}
       /\ pSession' = [pSession EXCEPT ![p] = None]

\* WorldSession::logoutPlayer().  m_theater is left as it is.  A player that never
\* had a map is not deleted, but nothing refers to it any more.
LogoutPlayer(s) ==
    LET p == ses[s].player
        t == ses[s].theater
    IN
    \/ /\ p = None
       /\ UNCHANGED <<th, inWorld, pSession>>
    \/ /\ p # None
       /\ th' = IF t = None THEN th
                ELSE [th EXCEPT ![t] = RemoveSession(RemovePlayerFromQueue(@, p), ses[s].sid)]
       /\ inWorld' = inWorld \ {p}
       /\ pSession' = [pSession EXCEPT ![p] = None]

-----------------------------------------------------------------------------
(***************************************************************************)
(* TheaterManager::update(), first part: stop and the pending sessions.     *)
(***************************************************************************)

BeginUpdate ==
    /\ phase = "idle" /\ ~isStopping
    /\ phase' = "pending"
    /\ UNCHANGED <<sesVars, listVars, worldVars, visit, pos, cur, stopVars>>

\* Mutant: the waiting sessions are not kicked.
MutKickAll ==
    /\ ses' = [s \in Session |-> [ses[s] EXCEPT !.kicked = @ \/ s \in Active]]
    /\ open' = [s \in Session |-> open[s] /\ s \notin Active]

KickAll ==
    LET all == Elements(queued) \cup Active IN
    /\ ses' = [s \in Session |-> [ses[s] EXCEPT !.kicked = @ \/ s \in all]]
    /\ open' = [s \in Session |-> open[s] /\ s \notin all]

\* The last update() skips processPendingSessions().
BeginLastUpdate ==
    /\ phase = "idle" /\ isStopping
    /\ KickAll
    /\ isStopping' = FALSE /\ isStopped' = TRUE
    /\ phase' = "sessions"
    /\ visit' = Active
    /\ UNCHANGED <<unused, alive, listVars, worldVars, pos, cur>>

AtPending(s) == phase = "pending" /\ pending # <<>> /\ s = Head(pending)

\* tryRestoreSession() finds a session of that id whose player is in the world.
CanRestore(id) ==
    LET old == sessions[id] IN
    old # None /\ ses[old].player # None /\ ses[old].player \in inWorld

\* Mutant: the theater goes on listing the old session.
MutRestoreSession(s) ==
    LET id == ses[s].sid
        old == sessions[id]
    IN
    /\ AtPending(s)
    /\ id # None /\ CanRestore(id)
    /\ pending' = Tail(pending)
    /\ sessions' = [sessions EXCEPT ![id] = s]
    /\ ses' = [ses EXCEPT ![s] = Restored(@, ses[old]), ![old] = NewSession]
    /\ pSession' = [pSession EXCEPT ![ses[old].player] = None]
    /\ open' = [open EXCEPT ![old] = FALSE]
    /\ alive' = alive \ {old}
    /\ UNCHANGED <<unused, queued, expired, playerCount, gmCount, theaters, th, inWorld,
                   loopVars, stopVars>>

RestoreSession(s) ==
    LET id == ses[s].sid
        old == sessions[id]
        t == ses[old].theater
    IN
    /\ AtPending(s)
    /\ id # None /\ CanRestore(id)
    /\ pending' = Tail(pending)
    /\ th' = [th EXCEPT ![t] = ReplaceSession(@, id, s)]
    /\ sessions' = [sessions EXCEPT ![id] = s]
    /\ ses' = [ses EXCEPT ![s] = Restored(@, ses[old]), ![old] = NewSession]
    /\ pSession' = [pSession EXCEPT ![ses[old].player] = None]
    /\ open' = [open EXCEPT ![old] = FALSE]
    /\ alive' = alive \ {old}
    /\ UNCHANGED <<unused, queued, expired, playerCount, gmCount, theaters, inWorld,
                   loopVars, stopVars>>

\* Mutant: the session keeps the timeout it was created with, which is none.
MutAddExpiredPlayer(s) ==
    /\ AtPending(s)
    /\ ses[s].sid # None /\ ~CanRestore(ses[s].sid)
    /\ pending' = Tail(pending)
    /\ expired' = expired \cup {s}
    /\ UNCHANGED <<sesVars, sessions, queued, playerCount, gmCount, worldVars, loopVars,
                   stopVars>>

AddExpiredPlayer(s) ==
    /\ AtPending(s)
    /\ ses[s].sid # None /\ ~CanRestore(ses[s].sid)
    /\ pending' = Tail(pending)
    /\ expired' = expired \cup {s}
    /\ ses' = [ses EXCEPT ![s] = WithTimeout(@, ExpiredSessionDelay)]
    /\ UNCHANGED <<unused, alive, open, sessions, queued, playerCount, gmCount, worldVars,
                   loopVars, stopVars>>

\* m_sessions[id] = session: generateSessionId() returns an id not in use.
AddGMSession(s, id) ==
    /\ AtPending(s)
    /\ ses[s].sid = None /\ ses[s].gm
    /\ sessions[id] = None
    /\ pending' = Tail(pending)
    /\ sessions' = [sessions EXCEPT ![id] = s]
    /\ gmCount' = gmCount + 1
    /\ ses' = [ses EXCEPT ![s] = Accepted(@, id)]
    /\ UNCHANGED <<unused, alive, open, queued, expired, playerCount, worldVars, loopVars,
                   stopVars>>

\* tryAddSession() for a session from the pending list.
AddPendingSession(s, id) ==
    /\ AtPending(s)
    /\ ses[s].sid = None /\ ~ses[s].gm
    /\ playerCount < PlayerLimit
    /\ sessions[id] = None
    /\ pending' = Tail(pending)
    /\ sessions' = [sessions EXCEPT ![id] = s]
    /\ playerCount' = playerCount + 1
    /\ ses' = [ses EXCEPT ![s] = Accepted(@, id)]
    /\ UNCHANGED <<unused, alive, open, queued, expired, gmCount, worldVars, loopVars,
                   stopVars>>

AddQueuedPlayer(s) ==
    /\ AtPending(s)
    /\ ses[s].sid = None /\ ~ses[s].gm
    /\ playerCount >= PlayerLimit
    /\ pending' = Tail(pending)
    /\ queued' = Append(queued, s)
    /\ ses' = [ses EXCEPT ![s] = WithTimeout(@, QueuedSessionTimeout)]
    /\ UNCHANGED <<unused, alive, open, sessions, expired, playerCount, gmCount, worldVars,
                   loopVars, stopVars>>

PendingDone ==
    /\ phase = "pending" /\ pending = <<>>
    /\ phase' = "sessions"
    /\ visit' = Active
    /\ UNCHANGED <<sesVars, listVars, worldVars, pos, cur, stopVars>>

-----------------------------------------------------------------------------
(***************************************************************************)
(* WorldSession::update() of the session the loops have reached.            *)
(***************************************************************************)

\* updateSessions() and updateExpiredPlayers() visit in the order of their
\* containers, updateQueuedPlayers() by position.
Reached(s) ==
    /\ cur = None
    /\ \/ phase \in {"sessions", "expired"} /\ s \in visit
       \/ phase = "queued" /\ pos <= Len(queued) /\ s = queued[pos]

UpdateTimeoutTimer(timer) == IF timer <= 0 THEN timer ELSE timer - 1

\* Mutant: the boundary is missed.
MutIsSessionTimedOut(timeout, timer) == timeout > 0 /\ timer < 0

IsSessionTimedOut(timeout, timer) == timeout > 0 /\ timer <= 0

\* The timeout timer; a session that timed out is kicked.
UpdateBegin(s) ==
    /\ Reached(s)
    /\ cur' = s
    /\ visit' = visit \ {s}
    /\ LET timer == UpdateTimeoutTimer(ses[s].timer)
           timedOut == IsSessionTimedOut(ses[s].timeout, timer)
       IN  /\ ses' = [ses EXCEPT ![s].timer = timer, ![s].kicked = @ \/ timedOut]
           /\ open' = [open EXCEPT ![s] = @ /\ ~timedOut]
    /\ UNCHANGED <<unused, alive, listVars, worldVars, phase, pos, stopVars>>

\* STATUS_AUTHED and STATUS_LOGGEDIN of the handler table.
CanHandle(s) == s = cur /\ ses[s].authed
LoggedIn(s) == s = cur /\ ses[s].player # None

\* Theater::acceptSession().  Whether the map and the combat grade suit the player
\* is left open; robots only exist while the theater is active.
AcceptSession(t) ==
    /\ t \in theaters
    /\ th[t].online < PopulationCap
    /\ th[t].state # "active"

\* handlePlayerLogin(): a new player enters a theater that accepts it or a new one.
HandlePlayerLogin(s, t) ==
    /\ CanHandle(s) /\ ses[s].player = None
    /\ AcceptSession(t) \/ t \notin theaters
    /\ theaters' = theaters \cup {t}
    /\ th' = [th EXCEPT ![t] = AddSession(@, ses[s].sid, s)]
    /\ ses' = [ses EXCEPT ![s].player = s, ![s].theater = t]
    /\ pSession' = [pSession EXCEPT ![s] = s]
    /\ UNCHANGED <<unused, alive, open, listVars, inWorld, loopVars, stopVars>>

\* kickPlayer() in a handler: the player data cannot be loaded (handlePlayerLogin),
\* or a move or a stamina value is out of range.
HandleOffence(s) ==
    /\ \/ CanHandle(s) /\ ses[s].player = None
       \/ LoggedIn(s) /\ ses[s].player \in inWorld
    /\ ses' = [ses EXCEPT ![s].kicked = TRUE]
    /\ open' = [open EXCEPT ![s] = @ /\ ses[s].kicked]
    /\ UNCHANGED <<unused, alive, listVars, worldVars, loopVars, stopVars>>

\* handleJoinTheater(), which a client sends when it has a player.
HandleJoinTheater(s) ==
    LET p == ses[s].player
        t == ses[s].theater
        state == IF th[t].state = "idle" THEN "waiting" ELSE th[t].state
    IN
    /\ CanHandle(s) /\ p # None
    /\ \/ /\ p \in inWorld
          /\ pSession' = [pSession EXCEPT ![p] = s]
          /\ UNCHANGED <<th, inWorld>>
       \/ /\ p \notin inWorld /\ state = "waiting"
          /\ th' = [th EXCEPT ![t].state = state, ![t].queue = @ \cup {p}]
          /\ UNCHANGED <<inWorld, pSession>>
       \/ /\ p \notin inWorld /\ state = "active"
          /\ inWorld' = inWorld \cup {p}
          /\ UNCHANGED <<th, pSession>>
    /\ UNCHANGED <<sesVars, listVars, theaters, loopVars, stopVars>>

HandlePlayerLogout(s) ==
    /\ LoggedIn(s)
    /\ LogoutPlayer(s)
    /\ ses' = [ses EXCEPT ![s].player = None]
    /\ UNCHANGED <<unused, alive, open, listVars, theaters, loopVars, stopVars>>

\* The end of WorldSession::update() returns false: the socket is closed and
\* nobody may come back for the player.
Gone(s) ==
    /\ ~open[s]
    /\ ses[s].player = None \/ ses[s].kicked \/ (ses[s].authed /\ ~ses[s].keep)

\* logoutPlayer() and the deletion of the session, wherever it was.
DropSession(s) ==
    /\ LogoutPlayer(s)
    /\ ses' = [ses EXCEPT ![s] = NewSession]
    /\ alive' = alive \ {s}

UpdateEndDropped(s) ==
    /\ s = cur /\ Gone(s)
    /\ DropSession(s)
    /\ cur' = None
    /\ \/ /\ phase = "sessions"
          /\ sessions' = [sessions EXCEPT ![ses[s].sid] = None]
          /\ gmCount' = IF ses[s].gm THEN gmCount - 1 ELSE gmCount
          /\ playerCount' = IF ses[s].gm THEN playerCount ELSE playerCount - 1
          /\ UNCHANGED <<queued, expired>>
       \/ /\ phase = "queued"
          /\ queued' = Erase(queued, pos)
          /\ UNCHANGED <<sessions, expired, playerCount, gmCount>>
       \/ /\ phase = "expired"
          /\ expired' = expired \ {s}
          /\ UNCHANGED <<sessions, queued, playerCount, gmCount>>
    /\ UNCHANGED <<unused, open, pending, theaters, phase, visit, pos, stopVars>>

UpdateEndKept(s) ==
    /\ s = cur /\ ~Gone(s)
    /\ phase \in {"sessions", "expired"} \/ (phase = "queued" /\ playerCount >= PlayerLimit)
    /\ cur' = None
    /\ pos' = IF phase = "queued" THEN pos + 1 ELSE pos
    /\ UNCHANGED <<sesVars, listVars, worldVars, phase, visit, stopVars>>

\* Mutant: an admitted session stays in the waiting list.
MutUpdateEndAdmitted(s, id) ==
    /\ s = cur /\ ~Gone(s) /\ phase = "queued"
    /\ playerCount < PlayerLimit
    /\ sessions[id] = None
    /\ sessions' = [sessions EXCEPT ![id] = s]
    /\ playerCount' = playerCount + 1
    /\ ses' = [ses EXCEPT ![s] = Accepted(@, id)]
    /\ pos' = pos + 1
    /\ cur' = None
    /\ UNCHANGED <<unused, alive, open, pending, queued, expired, gmCount, worldVars, phase,
                   visit, stopVars>>

\* updateQueuedPlayers(): tryAddSession() succeeds for a waiting session.
UpdateEndAdmitted(s, id) ==
    /\ s = cur /\ ~Gone(s) /\ phase = "queued"
    /\ playerCount < PlayerLimit
    /\ sessions[id] = None
    /\ sessions' = [sessions EXCEPT ![id] = s]
    /\ playerCount' = playerCount + 1
    /\ ses' = [ses EXCEPT ![s] = Accepted(@, id)]
    /\ queued' = Erase(queued, pos)
    /\ cur' = None
    /\ UNCHANGED <<unused, alive, open, pending, expired, gmCount, worldVars, phase, visit,
                   pos, stopVars>>

-----------------------------------------------------------------------------
(***************************************************************************)
(* TheaterManager::update(), second part.                                   *)
(***************************************************************************)

SessionsDone ==
    /\ phase = "sessions" /\ cur = None /\ visit = {}
    /\ phase' = "queued"
    /\ pos' = 1
    /\ UNCHANGED <<sesVars, listVars, worldVars, visit, cur, stopVars>>

\* Mutant: the loop ends one session early.
MutQueuedDone ==
    /\ phase = "queued" /\ cur = None /\ pos >= Len(queued)
    /\ phase' = "expired"
    /\ visit' = expired
    /\ pos' = 1
    /\ UNCHANGED <<sesVars, listVars, worldVars, cur, stopVars>>

QueuedDone ==
    /\ phase = "queued" /\ cur = None /\ pos > Len(queued)
    /\ phase' = "expired"
    /\ visit' = expired
    /\ pos' = 1
    /\ UNCHANGED <<sesVars, listVars, worldVars, cur, stopVars>>

ExpiredDone ==
    /\ phase = "expired" /\ cur = None /\ visit = {}
    /\ phase' = "theaters"
    /\ UNCHANGED <<sesVars, listVars, worldVars, visit, pos, cur, stopVars>>

\* Theater::advancedUpdate() then Theater::update(); `passed' says whether the
\* timer of waitForPlayers() has run out.  A theater whose players are in place
\* starts its battle in the same tick.
Starts(t, passed) ==
    th[t].online > 0 /\ th[t].state = "waiting" /\ passed /\ th[t].queue # {}

UpdatedTheater(t, passed) ==
    IF Starts(t, passed) THEN [th[t] EXCEPT !.state = "active", !.queue = {}]
    ELSE IF th[t].online <= 0 THEN [th[t] EXCEPT !.state = "idle"]
    ELSE th[t]

UpdateTheaters(P) ==
    /\ phase = "theaters"
    /\ phase' = "purge"
    /\ th' = [t \in Theater |-> IF t \in theaters THEN UpdatedTheater(t, t \in P) ELSE th[t]]
    /\ inWorld' = inWorld \cup UNION {th[t].queue : t \in {u \in theaters : Starts(u, u \in P)}}
    /\ UNCHANGED <<sesVars, listVars, theaters, pSession, visit, pos, cur, stopVars>>

\* Mutant: the last update, too, waits for the deletion delay of a theater.
MutPurgeTheaters(D) ==
    /\ phase = "purge"
    /\ D \subseteq {t \in theaters : th[t].deleting}
    /\ theaters' = theaters \ D
    /\ th' = [t \in Theater |-> IF t \in D THEN NewTheater ELSE th[t]]
    /\ phase' = IF isStopped THEN "stopped" ELSE "idle"
    /\ UNCHANGED <<sesVars, listVars, inWorld, pSession, visit, pos, cur, stopVars>>

\* purgeTheaters(): D are the theaters whose deletion delay has run out.
PurgeTheaters(D) ==
    /\ phase = "purge"
    /\ IF isStopped THEN D = theaters ELSE D \subseteq {t \in theaters : th[t].deleting}
    /\ theaters' = theaters \ D
    /\ th' = [t \in Theater |-> IF t \in D THEN NewTheater ELSE th[t]]
    /\ phase' = IF isStopped THEN "stopped" ELSE "idle"
    /\ UNCHANGED <<sesVars, listVars, inWorld, pSession, visit, pos, cur, stopVars>>

\* Application::run() after World::run(): the network threads stop ...
StopNetwork ==
    /\ phase = "stopped"
    /\ phase' = "offline"
    /\ UNCHANGED <<sesVars, listVars, worldVars, visit, pos, cur, stopVars>>

\* ... and ~TheaterManager() deletes the sessions nobody took from the queue.  It asserts
\* that nothing is left in the other containers, of which m_expiredPlayers is not one; an
\* assertion that fails ends the process in every build.
Destructor ==
    /\ phase = "offline"
    /\ phase' = IF theaters = {} /\ queued = <<>> /\ Active = {} THEN "destroyed"
                ELSE "aborted"
    /\ alive' = alive \ Elements(pending)
    /\ open' = [s \in Session |-> open[s] /\ s \notin Elements(pending)]
    /\ ses' = [s \in Session |-> IF s \in Elements(pending) THEN NewSession ELSE ses[s]]
    /\ pending' = <<>>
    /\ UNCHANGED <<unused, sessions, queued, expired, playerCount, gmCount, worldVars,
                   visit, pos, cur, stopVars>>

Terminated == phase \in {"destroyed", "aborted"} /\ UNCHANGED vars

-----------------------------------------------------------------------------
Network(s) ==
    \/ \E id \in SessionId \cup {None}, kind \in ClientKind : AuthProof(s, id, kind)
    \/ Ping(s)
    \/ Disconnect(s)

Handle(s) ==
    \/ \E t \in Theater : HandlePlayerLogin(s, t)
    \/ HandleOffence(s)
    \/ HandleJoinTheater(s)
    \/ HandlePlayerLogout(s)

\* What the main thread does without waiting for anybody.
MainStep ==
    \/ BeginUpdate
    \/ BeginLastUpdate
    \/ PendingDone
    \/ SessionsDone
    \/ QueuedDone
    \/ ExpiredDone
    \/ \E P \in SUBSET Theater : UpdateTheaters(P)
    \/ \E D \in SUBSET Theater : PurgeTheaters(D)
    \/ StopNetwork
    \/ Destructor
    \/ \E s \in Session :
         \/ RestoreSession(s)
         \/ AddExpiredPlayer(s)
         \/ \E id \in SessionId : AddGMSession(s, id)
         \/ \E id \in SessionId : AddPendingSession(s, id)
         \/ AddQueuedPlayer(s)
         \/ UpdateBegin(s)
         \/ UpdateEndDropped(s)
         \/ UpdateEndKept(s)
         \/ \E id \in SessionId : UpdateEndAdmitted(s, id)

Next ==
    \/ MainStep
    \/ \E s \in Session : Network(s) \/ Handle(s)
    \/ Stop
    \/ Terminated

Spec == Init /\ [][Next]_vars

(***************************************************************************)
(* The main thread is never blocked, and its loop over the messages of a    *)
(* session ends: the update of a session is completed sooner or later.      *)
(* Nothing is assumed of the clients or of the signal.                      *)
(***************************************************************************)
FairSpec == Spec /\ WF_vars(MainStep)

-----------------------------------------------------------------------------
(***************************************************************************)
(* Properties.                                                              *)
(***************************************************************************)

Injective(f) == \A i, j \in DOMAIN f : f[i] = f[j] => i = j

\* Every session object that was created and not deleted is in exactly one of
\* m_pendingSessions, m_sessions, m_queuedPlayers and m_expiredPlayers, once; no
\* container refers to a deleted session.
OneHome ==
    /\ alive = Elements(pending) \cup Active \cup Elements(queued) \cup expired
    /\ Injective(pending) /\ Injective(queued)
    /\ \A i, j \in SessionId : sessions[i] = sessions[j] => i = j \/ sessions[i] = None
    /\ Elements(pending) \cap (Active \cup Elements(queued) \cup expired) = {}
    /\ Active \cap (Elements(queued) \cup expired) = {}
    /\ Elements(queued) \cap expired = {}

\* m_playerCount and m_gmCount count the accepted sessions of each kind through
\* admission, restoration and removal, and the player limit holds.
CountsMatch ==
    LET ofKind(isGM) == {i \in SessionId : sessions[i] # None /\ ses[sessions[i]].gm = isGM}
    IN  /\ playerCount = Cardinality(ofKind(FALSE))
        /\ gmCount = Cardinality(ofKind(TRUE))
        /\ playerCount <= PlayerLimit

(***************************************************************************)
(* Sessions and theaters agree.  A session with a player is accepted, its   *)
(* theater exists and lists it under its id (what the assertions of         *)
(* tryRestoreSession() and logoutPlayer() rely on); a theater lists only    *)
(* live sessions whose player is in it, and its online count is their       *)
(* number: no theater is deleted or reset under its players.                *)
(***************************************************************************)
MembersAgree ==
    /\ \A s \in alive : ses[s].player # None =>
          /\ ses[s].authed /\ ses[s].sid # None /\ sessions[ses[s].sid] = s
          /\ ses[s].theater \in theaters
          /\ th[ses[s].theater].members[ses[s].sid] = s
    /\ \A t \in theaters :
          /\ \A i \in SessionId : th[t].members[i] # None =>
                LET s == th[t].members[i] IN
                s \in alive /\ ses[s].player # None /\ ses[s].theater = t /\ ses[s].sid = i
          /\ th[t].online = Cardinality({i \in SessionId : th[t].members[i] # None})

Owners(p) == {s \in alive : ses[s].player = p}
Known == inWorld \cup UNION {th[t].queue : t \in theaters}

\* A player in the world or waiting for its battle belongs to exactly one live
\* session, and Player::m_session is null or that session, also after the session
\* was replaced by a restoring one.
PlayerOwned ==
    /\ \A s \in alive : ses[s].player # None =>
         Owners(ses[s].player) = {s} /\ pSession[ses[s].player] \in {s, None}
    /\ \A p \in Known : Owners(p) # {}

\* A newcomer is admitted only when nobody waits, and from the waiting list only
\* its first session is.
FirstComeFirstServed ==
    [][\A s \in alive :
         s \notin Active /\ s \in Active' /\ ses[s].sid = None /\ ~ses[s].gm =>
             \/ s \in Elements(pending) /\ queued = <<>>
             \/ queued # <<>> /\ s = Head(queued)]_vars

\* A session whose client is gone is deleted sooner or later, its player with it,
\* unless another session takes the player over (which deletes it, too).
DisconnectedIsDeleted ==
    \A s \in Session : s \in alive /\ ~open[s] ~> s \notin alive \/ isStopped

(***************************************************************************)
(* At whatever step of a tick the server is told to stop, the single update *)
(* that is left empties every container the destructor asserts to be empty, *)
(* and the destructor deletes what the network threads queued since.  Only  *)
(* expired sessions are left, which kickAll() does not reach.               *)
(***************************************************************************)
ShutdownIsClean ==
    /\ phase # "aborted"
    /\ phase = "destroyed" => alive = expired

\* Once the server is told to stop, the shutdown completes, without a failed assertion.
ShutdownCompletes == isStopping ~> phase = "destroyed"

\* An expired session is closed after ExpiredSessionDelay, or the client keeps pinging
\* it: handlePing() resets the timer of every session.
ExpiredIsClosed ==
    \A s \in Session :
        <>[][~Ping(s)]_vars => (s \in expired ~> s \notin expired \/ isStopped)
=============================================================================
