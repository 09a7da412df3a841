------------------------ MODULE TheaterManagerProofs ------------------------
(***************************************************************************)
(* Proofs about TheaterManager for any number of sessions, ids and theaters *)
(* and any limits and timeouts.                                             *)
(***************************************************************************)
EXTENDS TheaterManager, FiniteSetTheorems, SequenceTheorems, TLAPS

\* Erasing an element of a list gives a list of the same type.
LEMMA EraseType ==
  ASSUME NEW S, NEW q \in Seq(S), NEW i \in Nat
  PROVE  Erase(q, i) \in Seq(S)
<1>1. Len(q) \in Nat /\ \A j \in 1..Len(q) : q[j] \in S
  BY LenProperties, ElementOfSeq
<1>2. CASE Len(q) = 0
  <2> DEFINE f == [j \in 1..0 |-> IF j < i THEN q[j] ELSE q[j + 1]]
  <2>1. 1..(Len(q) - 1) = 1..0
    BY <1>2
  <2>2. f \in Seq(S)
    BY IsASeq
  <2>3. Erase(q, i) = f
    BY <2>1 DEF Erase
  <2> QED
    BY <2>2, <2>3
<1>3. CASE Len(q) # 0
  <2>1. Len(q) - 1 \in Nat
    BY <1>1, <1>3
  <2>2. \A j \in 1..(Len(q) - 1) : (IF j < i THEN q[j] ELSE q[j + 1]) \in S
    BY <1>1
  <2> QED
    BY <2>1, <2>2, IsASeq DEF Erase
<1> QED
  BY <1>2, <1>3

USE DEF sesVars, listVars, worldVars, loopVars, stopVars, vars

\* The record of a new session and the functions on records keep their types.
LEMMA RecordTypes ==
  /\ NewSession \in SessionRecord
  /\ NewTheater \in TheaterRecord
  /\ \A r \in SessionRecord, time \in Nat : WithTimeout(r, time) \in SessionRecord
  /\ \A r \in SessionRecord, id \in SessionId : Accepted(r, id) \in SessionRecord
  /\ \A r, old \in SessionRecord : Restored(r, old) \in SessionRecord
  /\ \A r \in TheaterRecord, id \in SessionId \cup {None} : RemoveSession(r, id) \in TheaterRecord
  /\ \A r \in TheaterRecord, id \in SessionId \cup {None}, s \in Session :
       AddSession(r, id, s) \in TheaterRecord
<1>1. NewSession \in SessionRecord
  BY DEF NewSession, SessionRecord, TIMEOUT_NEVER
<1>2. NewTheater \in TheaterRecord
  BY DEF NewTheater, TheaterRecord
<1>3. ASSUME NEW r \in SessionRecord, NEW time \in Nat
      PROVE  WithTimeout(r, time) \in SessionRecord
  BY DEF WithTimeout, SessionRecord
<1>4. ASSUME NEW r \in SessionRecord, NEW id \in SessionId
      PROVE  Accepted(r, id) \in SessionRecord
  <2>1. [r EXCEPT !.sid = id, !.authed = TRUE] \in SessionRecord
    BY DEF SessionRecord
  <2> QED
    BY <1>3, <2>1, TimeoutAssumption DEF Accepted, TIMEOUT_NEVER
<1>5. ASSUME NEW r \in SessionRecord, NEW old \in SessionRecord
      PROVE  Restored(r, old) \in SessionRecord
  <2>1. [r EXCEPT !.player = old.player, !.theater = old.theater, !.gm = old.gm,
                  !.keep = old.keep, !.authed = TRUE] \in SessionRecord /\ old.timeout \in Nat
    BY DEF SessionRecord
  <2> QED
    BY <1>3, <2>1 DEF Restored
<1>6. ASSUME NEW r \in TheaterRecord, NEW id \in SessionId \cup {None}
      PROVE  RemoveSession(r, id) \in TheaterRecord
  <2> DEFINE m == [r.members EXCEPT ![id] = None]
             n == IF r.members[id] # None THEN r.online - 1 ELSE r.online
  <2>0. r.members \in [SessionId -> Session \cup {None}] /\ r.online \in Int
    BY DEF TheaterRecord
  <2>9. m \in [SessionId -> Session \cup {None}]
    BY <2>0
  <2>1. n \in Int
    BY <2>0
  <2>2. RemoveSession(r, id) = [r EXCEPT !.members = m, !.online = n,
                                         !.deleting = r.deleting \/ n <= 0]
    BY DEF RemoveSession, TheaterRecord
  <2>3. (r.deleting \/ n <= 0) \in BOOLEAN
    OBVIOUS
  <2> HIDE DEF m, n
  <2> QED
    BY <2>9, <2>1, <2>2, <2>3 DEF TheaterRecord
<1>7. ASSUME NEW r \in TheaterRecord, NEW id \in SessionId \cup {None}, NEW s \in Session
      PROVE  AddSession(r, id, s) \in TheaterRecord
  <2> DEFINE m == [r.members EXCEPT ![id] = IF r.members[id] = None THEN s ELSE @]
             n == IF r.members[id] = None THEN r.online + 1 ELSE r.online
  <2>0. r.members \in [SessionId -> Session \cup {None}] /\ r.online \in Int
    BY DEF TheaterRecord
  <2>9. m \in [SessionId -> Session \cup {None}]
    BY <2>0
  <2>1. n \in Int
    BY <2>0
  <2>2. AddSession(r, id, s) = [r EXCEPT !.members = m, !.online = n, !.deleting = FALSE]
    BY DEF AddSession, TheaterRecord
  <2> HIDE DEF m, n
  <2> QED
    BY <2>9, <2>1, <2>2 DEF TheaterRecord
<1> QED
  BY <1>1, <1>2, <1>3, <1>4, <1>5, <1>6, <1>7

-----------------------------------------------------------------------------
(***************************************************************************)
(* Type correctness, one lemma per part of the next-state relation.         *)
(***************************************************************************)

\* Kicking a session or restarting its timer keeps it well-formed.
LEMMA FieldTypes ==
  /\ \A r \in SessionRecord, b \in BOOLEAN : [r EXCEPT !.kicked = b] \in SessionRecord
  /\ \A r \in SessionRecord : [r EXCEPT !.timer = r.timeout] \in SessionRecord
  /\ \A r \in SessionRecord, n \in Nat, b \in BOOLEAN :
       [r EXCEPT !.timer = n, !.kicked = b] \in SessionRecord
<1>1. \A r \in SessionRecord, b \in BOOLEAN : [r EXCEPT !.kicked = b] \in SessionRecord
  BY DEF SessionRecord
<1>2. \A r \in SessionRecord : [r EXCEPT !.timer = r.timeout] \in SessionRecord
  BY DEF SessionRecord
<1>3. \A r \in SessionRecord, n \in Nat, b \in BOOLEAN :
        [r EXCEPT !.timer = n, !.kicked = b] \in SessionRecord
  BY DEF SessionRecord
<1> QED
  BY <1>1, <1>2, <1>3

\* The types hold at the start.
LEMMA TypeInit ==
  ASSUME Init
  PROVE  TypeOK
<1>1. ses \in [Session -> SessionRecord] /\ th \in [Theater -> TheaterRecord]
  BY RecordTypes DEF Init
<1>2. open \in [Session -> BOOLEAN] /\ isStopping \in BOOLEAN /\ isStopped \in BOOLEAN
  BY Zenon DEF Init
<1>3. pending \in Seq(Session) /\ queued \in Seq(Session)
  BY EmptySeq DEF Init
<1>4. sessions \in [SessionId -> Session \cup {None}] /\ pSession \in [Player -> Session \cup {None}]
  BY DEF Init
<1>5. /\ unused \in SUBSET Session /\ alive \in SUBSET Session /\ expired \in SUBSET Session
      /\ visit \in SUBSET Session /\ inWorld \in SUBSET Player /\ theaters \in SUBSET Theater
      /\ cur \in Session \cup {None} /\ phase \in Phase
      /\ playerCount \in Int /\ gmCount \in Int /\ pos \in Nat
  BY DEF Init, Phase
<1> QED
  BY <1>1, <1>2, <1>3, <1>4, <1>5 DEF TypeOK

\* The network threads and the signal handler.
LEMMA TypeNetwork ==
  ASSUME TypeOK, NEW s \in Session, Network(s) \/ Stop
  PROVE  TypeOK'
<1>1. ASSUME NEW id \in SessionId \cup {None}, NEW kind \in ClientKind, AuthProof(s, id, kind)
      PROVE  TypeOK'
  <2>1. kind.gm \in BOOLEAN /\ kind.keep \in BOOLEAN
    BY ClientAssumption
  <2>2. [NewSession EXCEPT !.sid = id, !.gm = kind.gm, !.keep = kind.keep] \in SessionRecord
    BY <2>1, RecordTypes DEF SessionRecord
  <2>3. ses' \in [Session -> SessionRecord]
    BY <1>1, <2>2 DEF AuthProof, TypeOK
  <2>4. open' \in [Session -> BOOLEAN]
    BY <1>1 DEF AuthProof, TypeOK
  <2>5. pending' \in Seq(Session)
    BY <1>1, AppendProperties DEF AuthProof, TypeOK
  <2> QED
    BY <1>1, <2>3, <2>4, <2>5 DEF AuthProof, TypeOK
<1>2. ASSUME Ping(s) PROVE TypeOK'
  <2>1. [ses[s] EXCEPT !.timer = ses[s].timeout] \in SessionRecord
    BY FieldTypes DEF TypeOK
  <2>2. ses' \in [Session -> SessionRecord]
    BY <1>2, <2>1 DEF Ping, TypeOK
  <2> QED
    BY <1>2, <2>2 DEF Ping, TypeOK
<1>3. ASSUME Disconnect(s) PROVE TypeOK'
  BY <1>3 DEF Disconnect, TypeOK
<1>4. ASSUME Stop PROVE TypeOK'
  BY <1>4 DEF Stop, TypeOK
<1> QED
  BY <1>1, <1>2, <1>3, <1>4 DEF Network

\* The steps of update() between the loops.
LEMMA TypeLoop ==
  ASSUME TypeOK,
         \/ BeginUpdate \/ BeginLastUpdate \/ PendingDone \/ SessionsDone \/ QueuedDone
         \/ ExpiredDone \/ StopNetwork \/ Destructor
         \/ \E P \in SUBSET Theater : UpdateTheaters(P) \/ PurgeTheaters(P)
  PROVE  TypeOK'
<1>1. Active \in SUBSET Session
  BY DEF Active, TypeOK
<1>2. CASE BeginUpdate \/ PendingDone \/ SessionsDone \/ QueuedDone \/ ExpiredDone \/ StopNetwork
  BY <1>1, <1>2 DEF BeginUpdate, PendingDone, SessionsDone, QueuedDone, ExpiredDone, StopNetwork,
       TypeOK, Phase
<1>3. CASE BeginLastUpdate
  <2>1. \A t \in Session, b \in BOOLEAN : [ses[t] EXCEPT !.kicked = b] \in SessionRecord
    BY FieldTypes DEF TypeOK
  <2>2. \A t \in Session : \A S : (ses[t].kicked \/ t \in S) \in BOOLEAN
    OBVIOUS
  <2>3. ses' \in [Session -> SessionRecord]
    BY <1>3, <2>1, <2>2, Zenon DEF BeginLastUpdate, KickAll
  <2>4. open' \in [Session -> BOOLEAN]
    BY <1>3, Zenon DEF BeginLastUpdate, KickAll
  <2> QED
    BY <1>1, <1>3, <2>3, <2>4 DEF BeginLastUpdate, TypeOK, Phase
<1>4. CASE Destructor
  <2>1. ses' \in [Session -> SessionRecord]
    BY <1>4, RecordTypes DEF Destructor, TypeOK
  <2>2. open' \in [Session -> BOOLEAN]
    BY <1>4, Zenon DEF Destructor
  <2>3. pending' \in Seq(Session)
    BY <1>4, EmptySeq DEF Destructor
  <2> QED
    BY <1>4, <2>1, <2>2, <2>3 DEF Destructor, TypeOK, Phase
<1>5. ASSUME NEW P \in SUBSET Theater, UpdateTheaters(P) PROVE TypeOK'
  <2>1. \A t \in Theater : UpdatedTheater(t, t \in P) \in TheaterRecord
    BY DEF UpdatedTheater, TypeOK, TheaterRecord
  <2>2. th' \in [Theater -> TheaterRecord]
    BY <1>5, <2>1 DEF UpdateTheaters, TypeOK
  <2>3. \A t \in Theater : th[t].queue \in SUBSET Player
    BY DEF TypeOK, TheaterRecord
  <2>4. inWorld' \in SUBSET Player
    BY <1>5, <2>3 DEF UpdateTheaters, TypeOK
  <2> QED
    BY <1>5, <2>2, <2>4 DEF UpdateTheaters, TypeOK, Phase
<1>6. ASSUME NEW D \in SUBSET Theater, PurgeTheaters(D) PROVE TypeOK'
  <2>1. th' \in [Theater -> TheaterRecord]
    BY <1>6, RecordTypes DEF PurgeTheaters, TypeOK
  <2>2. theaters' \in SUBSET Theater /\ phase' \in Phase
    BY <1>6 DEF PurgeTheaters, TypeOK, Phase
  <2> QED
    BY <1>6, <2>1, <2>2 DEF PurgeTheaters, TypeOK
<1> QED
  BY <1>2, <1>3, <1>4, <1>5, <1>6

\* The sessions taken from m_pendingSessions.
LEMMA TypePending ==
  ASSUME TypeOK, NEW s \in Session,
         \/ RestoreSession(s) \/ AddExpiredPlayer(s) \/ AddQueuedPlayer(s)
         \/ \E id \in SessionId : AddGMSession(s, id) \/ AddPendingSession(s, id)
  PROVE  TypeOK'
<1>1. pending # <<>> => Tail(pending) \in Seq(Session)
  BY HeadTailProperties DEF TypeOK
<1>2. CASE RestoreSession(s)
  <2> DEFINE id == ses[s].sid
             old == sessions[id]
  <2>1. id \in SessionId /\ old \in Session /\ ses[s] \in SessionRecord /\ ses[old] \in SessionRecord
    BY <1>2 DEF RestoreSession, CanRestore, TypeOK, SessionRecord
  <2>2. ses' \in [Session -> SessionRecord]
    <3>1. Restored(ses[s], ses[old]) \in SessionRecord /\ NewSession \in SessionRecord
      BY <2>1, RecordTypes
    <3> QED
      BY <1>2, <2>1, <3>1 DEF RestoreSession, TypeOK
  <2>3. th' \in [Theater -> TheaterRecord]
    <3> DEFINE t == ses[old].theater
    <3>1. \A r \in TheaterRecord : ReplaceSession(r, id, s) \in TheaterRecord
      <4> TAKE r \in TheaterRecord
      <4> DEFINE m == [r.members EXCEPT ![id] = IF r.members[id] = None THEN None ELSE s]
      <4>1. m \in [SessionId -> Session \cup {None}]
        BY DEF TheaterRecord
      <4>2. [r EXCEPT !.members = m] \in TheaterRecord
        BY <4>1 DEF TheaterRecord
      <4> QED
        BY <4>2 DEF ReplaceSession
    <3>2. th' = [th EXCEPT ![t] = ReplaceSession(th[t], id, s)]
      BY <1>2 DEF RestoreSession
    <3>3. CASE t \in Theater
      <4>1. th[t] \in TheaterRecord
        BY <3>3 DEF TypeOK
      <4> QED
        BY <3>1, <3>2, <4>1 DEF TypeOK
    <3>4. CASE t \notin Theater
      BY <3>2, <3>4 DEF TypeOK
    <3> QED
      BY <3>3, <3>4
  <2>4. open' \in [Session -> BOOLEAN]
    BY <1>2, <2>1 DEF RestoreSession, TypeOK
  <2>5. /\ sessions' \in [SessionId -> Session \cup {None}]
        /\ pSession' \in [Player -> Session \cup {None}]
    BY <1>2, <2>1 DEF RestoreSession, TypeOK
  <2> QED
    BY <1>1, <1>2, <2>2, <2>3, <2>4, <2>5 DEF RestoreSession, AtPending, TypeOK
<1>3. CASE AddExpiredPlayer(s)
  <2>1. WithTimeout(ses[s], ExpiredSessionDelay) \in SessionRecord
    BY RecordTypes, TimeoutAssumption DEF TypeOK
  <2>2. ses' \in [Session -> SessionRecord]
    BY <1>3, <2>1 DEF AddExpiredPlayer, TypeOK
  <2> QED
    BY <1>1, <1>3, <2>2 DEF AddExpiredPlayer, AtPending, TypeOK
<1>4. CASE AddQueuedPlayer(s)
  <2>1. WithTimeout(ses[s], QueuedSessionTimeout) \in SessionRecord
    BY RecordTypes, TimeoutAssumption DEF TypeOK
  <2>2. ses' \in [Session -> SessionRecord]
    BY <1>4, <2>1 DEF AddQueuedPlayer, TypeOK
  <2>3. queued' \in Seq(Session)
    BY <1>4, AppendProperties DEF AddQueuedPlayer, TypeOK
  <2> QED
    BY <1>1, <1>4, <2>2, <2>3 DEF AddQueuedPlayer, AtPending, TypeOK
<1>5. ASSUME NEW id \in SessionId, AddGMSession(s, id) \/ AddPendingSession(s, id)
      PROVE  TypeOK'
  <2>1. Accepted(ses[s], id) \in SessionRecord
    BY RecordTypes DEF TypeOK
  <2>2. ses' \in [Session -> SessionRecord]
    BY <1>5, <2>1 DEF AddGMSession, AddPendingSession, TypeOK
  <2>3. sessions' \in [SessionId -> Session \cup {None}]
    BY <1>5 DEF AddGMSession, AddPendingSession, TypeOK
  <2>4. playerCount' \in Int /\ gmCount' \in Int
    BY <1>5 DEF AddGMSession, AddPendingSession, TypeOK
  <2>5. pending' \in Seq(Session)
    BY <1>1, <1>5 DEF AddGMSession, AddPendingSession, AtPending
  <2> QED
    BY <1>5, <2>2, <2>3, <2>4, <2>5 DEF AddGMSession, AddPendingSession, TypeOK
<1> QED
  BY <1>2, <1>3, <1>4, <1>5

\* WorldSession::logoutPlayer() keeps the types of what it changes.
LEMMA TypeLogout ==
  ASSUME TypeOK, NEW s \in Session, LogoutPlayer(s)
  PROVE  /\ th' \in [Theater -> TheaterRecord]
         /\ inWorld' \in SUBSET Player
         /\ pSession' \in [Player -> Session \cup {None}]
<1> DEFINE p == ses[s].player
           t == ses[s].theater
<1>1. p \in Player \cup {None} /\ t \in Theater \cup {None} /\ ses[s].sid \in SessionId \cup {None}
  BY DEF TypeOK, SessionRecord
<1>2. \A r \in TheaterRecord : RemovePlayerFromQueue(r, p) \in TheaterRecord
  BY DEF TheaterRecord, RemovePlayerFromQueue
<1>3. \A r \in TheaterRecord :
        RemoveSession(RemovePlayerFromQueue(r, p), ses[s].sid) \in TheaterRecord
  BY <1>1, <1>2, RecordTypes
<1>4. th' \in [Theater -> TheaterRecord]
  <2>1. CASE th' = th
    BY <2>1 DEF TypeOK
  <2>2. CASE th' # th
    <3>1. t \in Theater
      BY <1>1, <2>2 DEF LogoutPlayer
    <3>2. th' = [th EXCEPT ![t] = RemoveSession(RemovePlayerFromQueue(th[t], p), ses[s].sid)]
      BY <2>2 DEF LogoutPlayer
    <3>3. th[t] \in TheaterRecord
      BY <3>1 DEF TypeOK
    <3> QED
      BY <1>3, <3>1, <3>2, <3>3 DEF TypeOK
  <2> QED
    BY <2>1, <2>2
<1> QED
  BY <1>1, <1>4 DEF LogoutPlayer, TypeOK

\* WorldSession::update().
LEMMA TypeSession ==
  ASSUME TypeOK, NEW s \in Session,
         \/ UpdateBegin(s) \/ UpdateEndDropped(s) \/ UpdateEndKept(s) \/ Handle(s)
         \/ \E id \in SessionId : UpdateEndAdmitted(s, id)
  PROVE  TypeOK'
<1>1. CASE UpdateBegin(s)
  <2> DEFINE timer == UpdateTimeoutTimer(ses[s].timer)
             timedOut == IsSessionTimedOut(ses[s].timeout, timer)
  <2>1. timer \in Nat /\ timedOut \in BOOLEAN
    BY DEF TypeOK, SessionRecord, UpdateTimeoutTimer, IsSessionTimedOut
  <2>2. \A k \in BOOLEAN : [ses[s] EXCEPT !.timer = timer, !.kicked = k] \in SessionRecord
    BY <2>1, FieldTypes DEF TypeOK
  <2>3. (ses[s].kicked \/ timedOut) \in BOOLEAN
    OBVIOUS
  <2>4. ses' = [ses EXCEPT ![s] = [ses[s] EXCEPT !.timer = timer, !.kicked = ses[s].kicked \/ timedOut]]
    BY <1>1 DEF UpdateBegin, TypeOK, SessionRecord
  <2>5. open' = [open EXCEPT ![s] = open[s] /\ ~timedOut]
    BY <1>1 DEF UpdateBegin
  <2> HIDE DEF timer, timedOut
  <2>6. ses' \in [Session -> SessionRecord]
    BY <2>2, <2>3, <2>4 DEF TypeOK
  <2>7. open' \in [Session -> BOOLEAN]
    BY <2>1, <2>5 DEF TypeOK
  <2> QED
    BY <1>1, <2>6, <2>7 DEF UpdateBegin, TypeOK
<1>2. CASE UpdateEndDropped(s)
  <2>1. /\ th' \in [Theater -> TheaterRecord]
        /\ inWorld' \in SUBSET Player
        /\ pSession' \in [Player -> Session \cup {None}]
    BY <1>2, TypeLogout DEF UpdateEndDropped, DropSession
  <2>2. ses' \in [Session -> SessionRecord] /\ alive' \in SUBSET Session
    BY <1>2, RecordTypes DEF UpdateEndDropped, DropSession, TypeOK
  <2>3. queued' \in Seq(Session)
    <3>1. Erase(queued, pos) \in Seq(Session)
      BY EraseType DEF TypeOK
    <3> QED
      BY <1>2, <3>1 DEF UpdateEndDropped, TypeOK
  <2>4. sessions' \in [SessionId -> Session \cup {None}] /\ expired' \in SUBSET Session
    BY <1>2 DEF UpdateEndDropped, TypeOK
  <2>5. playerCount' \in Int /\ gmCount' \in Int
    BY <1>2 DEF UpdateEndDropped, TypeOK
  <2> QED
    BY <1>2, <2>1, <2>2, <2>3, <2>4, <2>5 DEF UpdateEndDropped, TypeOK
<1>3. CASE UpdateEndKept(s)
  BY <1>3 DEF UpdateEndKept, TypeOK
<1>4. ASSUME NEW id \in SessionId, UpdateEndAdmitted(s, id) PROVE TypeOK'
  <2>1. Accepted(ses[s], id) \in SessionRecord
    BY RecordTypes DEF TypeOK
  <2>2. ses' \in [Session -> SessionRecord]
    BY <1>4, <2>1 DEF UpdateEndAdmitted, TypeOK
  <2>3. queued' \in Seq(Session)
    BY <1>4, EraseType DEF UpdateEndAdmitted, TypeOK
  <2> QED
    BY <1>4, <2>2, <2>3 DEF UpdateEndAdmitted, TypeOK
<1>5. ASSUME NEW t \in Theater, HandlePlayerLogin(s, t) PROVE TypeOK'
  <2>1. ses[s].sid \in SessionId \cup {None}
    BY DEF TypeOK, SessionRecord
  <2>2. AddSession(th[t], ses[s].sid, s) \in TheaterRecord
    BY <2>1, RecordTypes DEF TypeOK
  <2>3. th' \in [Theater -> TheaterRecord]
    BY <1>5, <2>2 DEF HandlePlayerLogin, TypeOK
  <2>4. [ses[s] EXCEPT !.player = s, !.theater = t] \in SessionRecord
    <3>1. ses[s] \in SessionRecord
      BY DEF TypeOK
    <3> QED
      BY <3>1 DEF SessionRecord, Player
  <2>5. ses' \in [Session -> SessionRecord]
    BY <1>5, <2>4 DEF HandlePlayerLogin, TypeOK
  <2> QED
    BY <1>5, <2>3, <2>5 DEF HandlePlayerLogin, TypeOK, Player
<1>6. CASE HandleOffence(s)
  <2>1. [ses[s] EXCEPT !.kicked = TRUE] \in SessionRecord
    BY FieldTypes DEF TypeOK
  <2>2. ses' \in [Session -> SessionRecord]
    BY <1>6, <2>1 DEF HandleOffence, TypeOK
  <2>3. open' \in [Session -> BOOLEAN]
    <3>1. (open[s] /\ ses[s].kicked) \in BOOLEAN
      OBVIOUS
    <3> QED
      BY <1>6, <3>1 DEF HandleOffence, TypeOK
  <2> QED
    BY <1>6, <2>2, <2>3 DEF HandleOffence, TypeOK
<1>7. CASE HandleJoinTheater(s)
  <2> DEFINE p == ses[s].player
             t == ses[s].theater
  <2>1. p \in Player
    BY <1>7 DEF HandleJoinTheater, TypeOK, SessionRecord
  <2>2. \A r \in TheaterRecord, x \in {"idle", "waiting", "active"} :
          [r EXCEPT !.state = x, !.queue = @ \cup {p}] \in TheaterRecord
    BY <2>1 DEF TheaterRecord
  <2>3. th' \in [Theater -> TheaterRecord]
    <3> DEFINE x == IF th[t].state = "idle" THEN "waiting" ELSE th[t].state
    <3>1. CASE t \in Theater /\ x = "waiting"
      <4>1. th[t] \in TheaterRecord
        BY <3>1 DEF TypeOK
      <4>2. [th[t] EXCEPT !.state = x, !.queue = @ \cup {p}] \in TheaterRecord
        BY <2>2, <3>1, <4>1
      <4>3. \/ th' = th
            \/ th' = [th EXCEPT ![t] = [th[t] EXCEPT !.state = x, !.queue = @ \cup {p}]]
        <5>1. ASSUME th' = [th EXCEPT ![t].state = x, ![t].queue = @ \cup {p}]
              PROVE  th' = [th EXCEPT ![t] = [th[t] EXCEPT !.state = x, !.queue = @ \cup {p}]]
          BY <3>1, <4>1, <5>1 DEF TypeOK, TheaterRecord
        <5>2. th' = th \/ th' = [th EXCEPT ![t].state = x, ![t].queue = @ \cup {p}]
          BY <1>7 DEF HandleJoinTheater
        <5> QED
          BY <5>1, <5>2
      <4> QED
        BY <3>1, <4>2, <4>3 DEF TypeOK
    <3>2. CASE t \notin Theater \/ x # "waiting"
      BY <1>7, <3>2 DEF HandleJoinTheater, TypeOK
    <3> QED
      BY <3>1, <3>2
  <2>4. inWorld' \in SUBSET Player /\ pSession' \in [Player -> Session \cup {None}]
    BY <1>7, <2>1 DEF HandleJoinTheater, TypeOK, Player
  <2> QED
    BY <1>7, <2>3, <2>4 DEF HandleJoinTheater, TypeOK
<1>8. CASE HandlePlayerLogout(s)
  <2>1. /\ th' \in [Theater -> TheaterRecord]
        /\ inWorld' \in SUBSET Player
        /\ pSession' \in [Player -> Session \cup {None}]
    BY <1>8, TypeLogout DEF HandlePlayerLogout
  <2>2. [ses[s] EXCEPT !.player = None] \in SessionRecord
    <3>1. ses[s] \in SessionRecord
      BY DEF TypeOK
    <3> QED
      BY <3>1 DEF SessionRecord, Player
  <2>3. ses' \in [Session -> SessionRecord]
    BY <1>8, <2>2 DEF HandlePlayerLogout, TypeOK
  <2> QED
    BY <1>8, <2>1, <2>3 DEF HandlePlayerLogout, TypeOK
<1> QED
  BY <1>1, <1>2, <1>3, <1>4, <1>5, <1>6, <1>7, <1>8 DEF Handle

\* Every step keeps the types.
LEMMA TypeNext ==
  ASSUME TypeOK, [Next]_vars
  PROVE  TypeOK'
<1>1. CASE MainStep
  BY <1>1, TypeLoop, TypePending, TypeSession DEF MainStep
<1>2. ASSUME NEW s \in Session, Network(s) \/ Handle(s) PROVE TypeOK'
  BY <1>2, TypeNetwork, TypeSession
<1>3. CASE Stop
  BY <1>3 DEF Stop, TypeOK
<1>4. CASE UNCHANGED vars
  BY <1>4 DEF TypeOK
<1> QED
  BY <1>1, <1>2, <1>3, <1>4 DEF Next, Terminated

\* The state of the sessions, the containers and the theaters keeps its type in every
\* step of the main thread and of the network threads; in particular the timeout timers
\* never run below zero and every list of the manager holds session objects only.
THEOREM TypeCorrect == Spec => []TypeOK
<1>1. Init => TypeOK
  BY TypeInit
<1>2. TypeOK /\ [Next]_vars => TypeOK'
  BY TypeNext
<1> QED
  BY <1>1, <1>2, PTL DEF Spec

-----------------------------------------------------------------------------
(***************************************************************************)
(* What the operations on the containers do to the sets of their elements.  *)
(***************************************************************************)

\* push_back() adds one element.
LEMMA AppendElements ==
  ASSUME NEW S, NEW q \in Seq(S), NEW e \in S
  PROVE  /\ Elements(Append(q, e)) = Elements(q) \cup {e}
         /\ Injective(q) /\ e \notin Elements(q) => Injective(Append(q, e))
<1> DEFINE a == Append(q, e)
<1>1. Len(q) \in Nat /\ Len(a) = Len(q) + 1 /\ DOMAIN a = 1..(Len(q) + 1) /\ DOMAIN q = 1..Len(q)
  BY AppendProperties, LenProperties
<1>2. \A i \in 1..Len(q) : a[i] = q[i]
  BY AppendProperties, LenProperties
<1>3. a[Len(q) + 1] = e
  BY AppendProperties
<1> HIDE DEF a
<1>4. Elements(a) = Elements(q) \cup {e}
  <2>1. ASSUME NEW x \in Elements(a) PROVE x \in Elements(q) \cup {e}
    BY <1>1, <1>2, <1>3 DEF Elements
  <2>2. ASSUME NEW x \in Elements(q) PROVE x \in Elements(a)
    BY <1>1, <1>2 DEF Elements
  <2>3. e \in Elements(a)
    BY <1>1, <1>3 DEF Elements
  <2> QED
    BY <2>1, <2>2, <2>3
<1>5. ASSUME Injective(q), e \notin Elements(q) PROVE Injective(a)
  BY <1>1, <1>2, <1>3, <1>5 DEF Injective, Elements
<1> QED
  BY <1>4, <1>5 DEF a

\* pop() of the first element of a list without repetitions removes just that element.
LEMMA TailElements ==
  ASSUME NEW S, NEW q \in Seq(S), q # <<>>, Injective(q)
  PROVE  /\ Head(q) \in Elements(q)
         /\ Elements(Tail(q)) = Elements(q) \ {Head(q)}
         /\ Injective(Tail(q))
<1> DEFINE a == Tail(q)
<1>1. /\ Len(q) \in Nat \ {0} /\ Len(a) = Len(q) - 1 /\ DOMAIN q = 1..Len(q)
      /\ a \in Seq(S) /\ Head(q) = q[1]
  BY HeadTailProperties, EmptySeq, LenProperties
<1>2. DOMAIN a = 1..(Len(q) - 1)
  BY <1>1, LenProperties
<1>3. \A i \in 1..(Len(q) - 1) : a[i] = q[i + 1]
  BY <1>1, HeadTailProperties
<1> HIDE DEF a
<1>4. Head(q) \in Elements(q)
  BY <1>1 DEF Elements
<1>5. ASSUME NEW x \in Elements(a) PROVE x \in Elements(q) \ {Head(q)}
  <2>1. PICK i \in 1..(Len(q) - 1) : x = q[i + 1]
    BY <1>1, <1>3, <1>5 DEF Elements
  <2> QED
    BY <1>1, <2>1, SMTT(30) DEF Elements, Injective
<1>6. ASSUME NEW x \in Elements(q) \ {Head(q)} PROVE x \in Elements(a)
  <2>1. PICK i \in 1..Len(q) : x = q[i] /\ i # 1
    BY <1>1, <1>6 DEF Elements
  <2>2. i - 1 \in 1..(Len(q) - 1) /\ a[i - 1] = x
    BY <1>1, <1>3, <2>1
  <2> QED
    BY <1>1, <2>2 DEF Elements
<1>7. Injective(a)
  BY <1>1, <1>2, <1>3, SMTT(30) DEF Injective
<1> QED
  BY <1>4, <1>5, <1>6, <1>7 DEF a

\* erase() of a list without repetitions removes just the element at the position.
LEMMA EraseElements ==
  ASSUME NEW S, NEW q \in Seq(S), Injective(q), NEW k \in 1..Len(q)
  PROVE  /\ Elements(Erase(q, k)) = Elements(q) \ {q[k]}
         /\ Injective(Erase(q, k))
<1> DEFINE a == Erase(q, k)
<1>1. Len(q) \in Nat \ {0} /\ DOMAIN q = 1..Len(q) /\ k \in Nat
  BY LenProperties
<1>2. DOMAIN a = 1..(Len(q) - 1)
  BY DEF Erase
<1>3. \A i \in 1..(Len(q) - 1) : a[i] = IF i < k THEN q[i] ELSE q[i + 1]
  BY DEF Erase
<1>4. a \in Seq(S)
  BY <1>1, EraseType
<1>5. Len(a) = Len(q) - 1
  <2>1. DOMAIN a = 1..Len(a) /\ Len(a) \in Nat
    BY <1>4, LenProperties
  <2>2. \A m, n \in Nat : 1..m = 1..n => m = n
    <3> TAKE m, n \in Nat
    <3> HAVE 1..m = 1..n
    <3>1. m = 0 \/ m \in 1..n
      OBVIOUS
    <3>2. n = 0 \/ n \in 1..m
      OBVIOUS
    <3> QED
      BY <3>1, <3>2
  <2>3. Len(q) - 1 \in Nat
    BY <1>1
  <2> QED
    BY <1>2, <2>1, <2>2, <2>3
<1> HIDE DEF a
<1>6. ASSUME NEW x \in Elements(a) PROVE x \in Elements(q) \ {q[k]}
  <2>1. PICK i \in 1..(Len(q) - 1) : x = a[i]
    BY <1>5, <1>6 DEF Elements
  <2>2. PICK j \in 1..Len(q) : x = q[j] /\ j # k
    BY <1>1, <1>3, <2>1
  <2> QED
    BY <1>1, <2>2 DEF Elements, Injective
<1>7. ASSUME NEW x \in Elements(q) \ {q[k]} PROVE x \in Elements(a)
  <2>1. PICK i \in 1..Len(q) : x = q[i] /\ i # k
    BY <1>7 DEF Elements
  <2>2. PICK j \in 1..(Len(q) - 1) : x = a[j]
    <3>1. CASE i < k
      <4>1. i \in 1..(Len(q) - 1) /\ a[i] = x
        BY <1>1, <1>3, <2>1, <3>1
      <4> QED
        BY <4>1
    <3>2. CASE i > k
      <4>1. i - 1 \in 1..(Len(q) - 1) /\ a[i - 1] = x
        BY <1>1, <1>3, <2>1, <3>2
      <4> QED
        BY <4>1
    <3> QED
      BY <1>1, <2>1, <3>1, <3>2
  <2> QED
    BY <1>5, <2>2 DEF Elements
<1>8. Injective(a)
  <2> SUFFICES ASSUME NEW i \in 1..(Len(q) - 1), NEW j \in 1..(Len(q) - 1), a[i] = a[j]
               PROVE  i = j
    BY <1>2 DEF Injective
  <2> DEFINE g(n) == IF n < k THEN n ELSE n + 1
  <2>1. g(i) \in 1..Len(q) /\ g(j) \in 1..Len(q)
    BY <1>1
  <2>2. a[i] = q[g(i)] /\ a[j] = q[g(j)]
    BY <1>3
  <2>3. g(i) = g(j)
    BY <1>1, <2>1, <2>2 DEF Injective
  <2> QED
    BY <1>1, <2>3
<1> QED
  BY <1>6, <1>7, <1>8 DEF a

\* The entries of a map from ids to sessions.
Entries(f) == {f[i] : i \in SessionId} \ {None}
\* No session has two entries.
Distinct(f) == \A i, j \in SessionId : f[i] = f[j] => i = j \/ f[i] = None

\* m_sessions[id] = session, for a session without an entry: the old entry goes.
LEMMA InsertEntry ==
  ASSUME NEW f \in [SessionId -> Session \cup {None}], Distinct(f),
         NEW id \in SessionId, NEW s \in Session, s \notin Entries(f)
  PROVE  /\ Entries([f EXCEPT ![id] = s]) = (Entries(f) \ {f[id]}) \cup {s}
         /\ Distinct([f EXCEPT ![id] = s])
<1>1. s # None
  BY SetAssumption
<1>2. \A i \in SessionId : f[i] # s
  BY <1>1 DEF Entries
<1> QED
  BY <1>1, <1>2 DEF Entries, Distinct

\* m_sessions.erase(id)
LEMMA EraseEntry ==
  ASSUME NEW f \in [SessionId -> Session \cup {None}], Distinct(f),
         NEW id \in SessionId
  PROVE  /\ Entries([f EXCEPT ![id] = None]) = Entries(f) \ {f[id]}
         /\ Distinct([f EXCEPT ![id] = None])
BY DEF Entries, Distinct

-----------------------------------------------------------------------------
(***************************************************************************)
(* The inductive invariant.  A loop of update() removes the session at its  *)
(* iterator, so OneHome needs to know where the iterator is: in the         *)
(* container the phase is about, past the sessions still to be visited.     *)
(***************************************************************************)

\* A constructed session is not constructed again.
Fresh == unused \cap alive = {}

\* A session in m_sessions knows the id it is listed under.
SidMatches == \A i \in SessionId : sessions[i] # None => ses[sessions[i]].sid = i

\* The session being updated is in the container of the current loop.
CurAtHome ==
    cur # None =>
        /\ phase \in {"sessions", "queued", "expired"}
        /\ cur \notin visit
        /\ phase = "sessions" => ses[cur].sid \in SessionId /\ sessions[ses[cur].sid] = cur
        /\ phase = "queued" => pos \in 1..Len(queued) /\ queued[pos] = cur
        /\ phase = "expired" => cur \in expired

\* What a loop has still to visit is in its container.
VisitAtHome ==
    /\ phase = "sessions" => visit \subseteq Active
    /\ phase = "expired" => visit \subseteq expired
    /\ pos >= 1

HomeInv == OneHome /\ Fresh /\ SidMatches /\ CurAtHome /\ VisitAtHome

\* Active and the part of OneHome about m_sessions in terms of its entries.
LEMMA ActiveEntries ==
  /\ Active = Entries(sessions)
  /\ OneHome => Distinct(sessions)
BY DEF Active, Entries, OneHome, Distinct

\* What a restored session takes over and what it keeps.
LEMMA RestoredFields ==
  ASSUME NEW r \in SessionRecord, NEW q \in SessionRecord
  PROVE  Restored(r, q).gm = q.gm /\ Restored(r, q).sid = r.sid
<1> DEFINE x == [r EXCEPT !.player = q.player, !.theater = q.theater, !.gm = q.gm,
                          !.keep = q.keep, !.authed = TRUE]
<1>1. x \in SessionRecord /\ x.gm = q.gm /\ x.sid = r.sid
  BY DEF SessionRecord
<1> HIDE DEF x
<1>2. WithTimeout(x, q.timeout).gm = x.gm /\ WithTimeout(x, q.timeout).sid = x.sid
  BY <1>1 DEF WithTimeout, SessionRecord
<1>3. Restored(r, q) = WithTimeout(x, q.timeout)
  BY DEF Restored, x
<1> QED
  BY <1>1, <1>2, <1>3

\* No session has a home at the start.
LEMMA HomeInit ==
  ASSUME Init
  PROVE  HomeInv
<1>1. Elements(pending) = {} /\ Elements(queued) = {} /\ Injective(pending) /\ Injective(queued)
  <2>1. Len(<<>>) = 0 /\ DOMAIN <<>> = {}
    BY EmptySeq
  <2>2. 1..0 = {}
    OBVIOUS
  <2> QED
    BY <2>1, <2>2 DEF Init, Elements, Injective
<1>2. Active = {}
  BY DEF Init, Active
<1>3. OneHome
  BY <1>1, <1>2 DEF Init, OneHome
<1> QED
  BY <1>2, <1>3 DEF Init, HomeInv, Fresh, SidMatches, CurAtHome, VisitAtHome

\* Steps that leave the containers and the ids alone.
LEMMA HomeUnchanged ==
  ASSUME TypeOK, HomeInv, UNCHANGED <<unused, alive, pending, sessions, queued, expired>>,
         \A s \in Session : ses'[s].sid = ses[s].sid,
         CurAtHome', VisitAtHome'
  PROVE  HomeInv'
<1>1. OneHome'
  BY SMTT(30) DEF HomeInv, OneHome, Active, Elements, Injective
<1>2. Fresh'
  BY DEF HomeInv, Fresh
<1>3. SidMatches'
  <2> SUFFICES ASSUME NEW i \in SessionId, sessions[i] # None
               PROVE  ses'[sessions[i]].sid = i
    BY DEF SidMatches
  <2>1. sessions[i] \in Session
    BY DEF TypeOK
  <2> QED
    BY <2>1 DEF HomeInv, SidMatches
<1> QED
  BY <1>1, <1>2, <1>3 DEF HomeInv

\* The network threads and the signal handler.
LEMMA HomeNetwork ==
  ASSUME TypeOK, HomeInv, NEW s \in Session, Network(s) \/ Stop
  PROVE  HomeInv'
<1>1. ASSUME NEW id \in SessionId \cup {None}, NEW kind \in ClientKind, AuthProof(s, id, kind)
      PROVE  HomeInv'
  <2>1. s \notin alive /\ s \in unused
    BY <1>1 DEF AuthProof, HomeInv, Fresh
  <2>2. s \notin Elements(pending) /\ s \notin Active
    BY <2>1 DEF HomeInv, OneHome
  <2>3. Elements(pending') = Elements(pending) \cup {s} /\ Injective(pending')
    BY <1>1, <2>2, AppendElements DEF AuthProof, TypeOK, HomeInv, OneHome
  <2>4. Active' = Active /\ Elements(queued)' = Elements(queued)
    BY <1>1 DEF AuthProof, Active, Elements
  <2>5. OneHome'
    <3>1. alive' = Elements(pending') \cup Active' \cup Elements(queued)' \cup expired'
      BY <1>1, <2>3, <2>4 DEF AuthProof, HomeInv, OneHome
    <3>2. /\ Elements(pending') \cap (Active' \cup Elements(queued)' \cup expired') = {}
          /\ Active' \cap (Elements(queued)' \cup expired') = {}
          /\ Elements(queued)' \cap expired' = {}
      BY <1>1, <2>1, <2>3, <2>4 DEF AuthProof, HomeInv, OneHome
    <3>3. Injective(queued')
      BY <1>1 DEF AuthProof, HomeInv, OneHome
    <3>4. \A i, j \in SessionId : sessions'[i] = sessions'[j] => i = j \/ sessions'[i] = None
      BY <1>1 DEF AuthProof, HomeInv, OneHome
    <3> QED
      BY <2>3, <3>1, <3>2, <3>3, <3>4 DEF OneHome, Elements
  <2>6. Fresh'
    BY <1>1 DEF AuthProof, HomeInv, Fresh
  <2>7. \A u \in Session : u # s => ses'[u] = ses[u]
    BY <1>1 DEF AuthProof, TypeOK
  <2>8. SidMatches'
    <3> SUFFICES ASSUME NEW i \in SessionId, sessions[i] # None
                 PROVE  ses'[sessions[i]].sid = i
      BY <1>1 DEF SidMatches, AuthProof
    <3>1. sessions[i] \in Session /\ sessions[i] \in Active
      BY DEF TypeOK, Active
    <3> QED
      BY <2>2, <2>7, <3>1 DEF HomeInv, SidMatches
  <2>9. CurAtHome'
    <3> SUFFICES ASSUME cur # None PROVE CurAtHome'
      BY <1>1 DEF AuthProof, CurAtHome
    <3>1. cur \in Session
      BY DEF TypeOK
    <3>2. phase = "sessions" => ses'[cur] = ses[cur]
      <4>1. phase = "sessions" => cur \in Active
        BY <3>1, SetAssumption DEF HomeInv, CurAtHome, Active
      <4> QED
        BY <2>2, <2>7, <3>1, <4>1
    <3> QED
      BY <1>1, <3>2 DEF AuthProof, HomeInv, CurAtHome
  <2>10. VisitAtHome'
    BY <1>1, <2>4 DEF AuthProof, HomeInv, VisitAtHome
  <2> QED
    BY <2>5, <2>6, <2>8, <2>9, <2>10 DEF HomeInv
<1>2. CASE Ping(s) \/ Disconnect(s) \/ Stop
  <2>1. \A u \in Session : ses'[u].sid = ses[u].sid
    <3> SUFFICES ASSUME NEW u \in Session PROVE ses'[u].sid = ses[u].sid
      OBVIOUS
    <3>1. CASE Ping(s)
      BY <3>1 DEF Ping, TypeOK, SessionRecord
    <3>2. CASE Disconnect(s) \/ Stop
      BY <3>2 DEF Disconnect, Stop
    <3> QED
      BY <1>2, <3>1, <3>2
  <2>2. UNCHANGED <<unused, alive, pending, sessions, queued, expired, phase, cur, visit, pos>>
    BY <1>2 DEF Ping, Disconnect, Stop
  <2>3. CurAtHome'
    BY <2>1, <2>2 DEF HomeInv, CurAtHome, TypeOK
  <2>4. VisitAtHome'
    BY <2>2 DEF HomeInv, VisitAtHome, Active
  <2> QED
    BY <2>1, <2>2, <2>3, <2>4, HomeUnchanged
<1> QED
  BY <1>1, <1>2 DEF Network

\* The steps of update() between the loops, and the destructor.
LEMMA HomeLoop ==
  ASSUME TypeOK, HomeInv,
         \/ BeginUpdate \/ BeginLastUpdate \/ PendingDone \/ SessionsDone \/ QueuedDone
         \/ ExpiredDone \/ StopNetwork \/ Destructor
         \/ \E P \in SUBSET Theater : UpdateTheaters(P) \/ PurgeTheaters(P)
  PROVE  HomeInv'
<1>1. phase \notin {"sessions", "queued", "expired"} => cur = None
  BY DEF HomeInv, CurAtHome
<1>2. CASE BeginUpdate \/ BeginLastUpdate \/ PendingDone \/ SessionsDone \/ QueuedDone \/ ExpiredDone
  <2>1. UNCHANGED <<unused, alive, pending, sessions, queued, expired>>
    BY <1>2 DEF BeginUpdate, BeginLastUpdate, PendingDone, SessionsDone, QueuedDone, ExpiredDone
  <2>2. \A u \in Session : ses'[u].sid = ses[u].sid
    <3>1. CASE BeginLastUpdate
      BY <3>1 DEF BeginLastUpdate, KickAll, TypeOK, SessionRecord
    <3>2. CASE ~BeginLastUpdate
      BY <1>2, <3>2 DEF BeginUpdate, PendingDone, SessionsDone, QueuedDone, ExpiredDone
    <3> QED
      BY <3>1, <3>2
  <2>3. cur' = None
    BY <1>1, <1>2 DEF BeginUpdate, BeginLastUpdate, PendingDone, SessionsDone, QueuedDone, ExpiredDone
  <2>4. CurAtHome'
    BY <2>3 DEF CurAtHome
  <2>5. VisitAtHome'
    <3>1. pos' >= 1
      BY <1>2 DEF HomeInv, VisitAtHome, BeginUpdate, BeginLastUpdate, PendingDone, SessionsDone,
           QueuedDone, ExpiredDone
    <3>2. Active' = Active /\ expired' = expired
      BY <2>1 DEF Active
    <3>3. phase' = "sessions" => visit' = Active
      BY <1>2 DEF BeginUpdate, BeginLastUpdate, PendingDone, SessionsDone, QueuedDone, ExpiredDone
    <3>4. phase' = "expired" => visit' = expired
      BY <1>2 DEF BeginUpdate, BeginLastUpdate, PendingDone, SessionsDone, QueuedDone, ExpiredDone
    <3> QED
      BY <3>1, <3>2, <3>3, <3>4 DEF VisitAtHome
  <2> QED
    BY <2>1, <2>2, <2>4, <2>5, HomeUnchanged
<1>3. CASE StopNetwork \/ \E P \in SUBSET Theater : UpdateTheaters(P) \/ PurgeTheaters(P)
  <2>1. UNCHANGED <<unused, alive, ses, pending, sessions, queued, expired, pos, visit>>
    BY <1>3 DEF StopNetwork, UpdateTheaters, PurgeTheaters
  <2>2. cur' = None /\ phase' \in {"purge", "idle", "stopped", "offline"}
    BY <1>1, <1>3 DEF StopNetwork, UpdateTheaters, PurgeTheaters
  <2>3. CurAtHome' /\ VisitAtHome'
    BY <2>1, <2>2 DEF CurAtHome, VisitAtHome, HomeInv
  <2> QED
    BY <2>1, <2>3, HomeUnchanged
<1>4. CASE Destructor
  <2>1. /\ UNCHANGED <<unused, sessions, queued, expired, visit, pos>>
        /\ cur' = None /\ phase' \in {"destroyed", "aborted"} /\ pending' = <<>>
        /\ alive' = alive \ Elements(pending)
    BY <1>1, <1>4 DEF Destructor
  <2>2. Elements(pending') = {} /\ Injective(pending')
    <3>1. Len(<<>>) = 0 /\ DOMAIN <<>> = {} /\ 1..0 = {}
      BY EmptySeq
    <3> QED
      BY <2>1, <3>1 DEF Elements, Injective
  <2>3. Active' = Active /\ Elements(queued)' = Elements(queued)
    BY <2>1 DEF Active, Elements
  <2>4. OneHome'
    <3>1. alive' = Elements(pending') \cup Active' \cup Elements(queued)' \cup expired'
      BY <2>1, <2>2, <2>3 DEF HomeInv, OneHome
    <3>2. /\ Elements(pending') \cap (Active' \cup Elements(queued)' \cup expired') = {}
          /\ Active' \cap (Elements(queued)' \cup expired') = {}
          /\ Elements(queued)' \cap expired' = {}
      BY <2>1, <2>2, <2>3 DEF HomeInv, OneHome
    <3>3. Injective(queued')
      BY <2>1 DEF HomeInv, OneHome
    <3>4. \A i, j \in SessionId : sessions'[i] = sessions'[j] => i = j \/ sessions'[i] = None
      BY <2>1 DEF HomeInv, OneHome
    <3> QED
      BY <2>2, <3>1, <3>2, <3>3, <3>4 DEF OneHome, Elements
  <2>5. Fresh'
    BY <2>1 DEF HomeInv, Fresh
  <2>6. SidMatches'
    <3> SUFFICES ASSUME NEW i \in SessionId, sessions[i] # None
                 PROVE  ses'[sessions[i]].sid = i
      BY <2>1 DEF SidMatches
    <3>1. sessions[i] \in Session /\ sessions[i] \notin Elements(pending)
      BY DEF TypeOK, Active, HomeInv, OneHome
    <3> QED
      BY <1>4, <3>1 DEF Destructor, HomeInv, SidMatches
  <2>7. CurAtHome' /\ VisitAtHome'
    BY <2>1 DEF CurAtHome, VisitAtHome, HomeInv
  <2> QED
    BY <2>4, <2>5, <2>6, <2>7 DEF HomeInv
<1> QED
  BY <1>2, <1>3, <1>4

\* The sessions taken from m_pendingSessions move to another container.
LEMMA HomePending ==
  ASSUME TypeOK, HomeInv, NEW s \in Session,
         \/ RestoreSession(s) \/ AddExpiredPlayer(s) \/ AddQueuedPlayer(s)
         \/ \E id \in SessionId : AddGMSession(s, id) \/ AddPendingSession(s, id)
  PROVE  HomeInv'
<1>0. AtPending(s)
  BY DEF RestoreSession, AddExpiredPlayer, AddQueuedPlayer, AddGMSession, AddPendingSession
<1>1. /\ s \in Elements(pending)
      /\ Elements(Tail(pending)) = Elements(pending) \ {s}
      /\ Injective(Tail(pending))
  BY <1>0, TailElements DEF AtPending, TypeOK, HomeInv, OneHome
<1>2. s \in alive /\ s \notin Active /\ s \notin Elements(queued) /\ s \notin expired
  BY <1>1 DEF HomeInv, OneHome
<1>3. /\ UNCHANGED <<unused, phase, cur, visit, pos>> /\ pending' = Tail(pending)
      /\ phase = "pending" /\ cur = None
  BY <1>0 DEF RestoreSession, AddExpiredPlayer, AddQueuedPlayer, AddGMSession, AddPendingSession,
       AtPending, HomeInv, CurAtHome
<1>4. CurAtHome' /\ VisitAtHome'
  BY <1>3 DEF CurAtHome, VisitAtHome, HomeInv
<1>5. Elements(pending') = Elements(pending) \ {s} /\ Injective(pending')
  BY <1>1, <1>3
<1>6. Distinct(sessions) /\ s \notin Entries(sessions) /\ Active = Entries(sessions)
  BY <1>2, ActiveEntries DEF HomeInv
<1>7. \A i \in SessionId : sessions[i] # None => sessions[i] \in Session /\ sessions[i] # s
  BY <1>2 DEF TypeOK, Active
<1>8. CASE RestoreSession(s)
  <2> DEFINE id == ses[s].sid
             old == sessions[id]
  <2>1. id \in SessionId /\ old \in Session /\ old # s /\ old \in Active
    BY <1>7, <1>8 DEF RestoreSession, CanRestore, TypeOK, SessionRecord, Active
  <2>2. /\ sessions' = [sessions EXCEPT ![id] = s] /\ alive' = alive \ {old}
        /\ UNCHANGED <<queued, expired>>
        /\ ses' = [ses EXCEPT ![s] = Restored(ses[s], ses[old]), ![old] = NewSession]
    BY <1>8, <2>1 DEF RestoreSession, TypeOK
  <2> HIDE DEF id, old
  <2>3. Entries(sessions') = (Entries(sessions) \ {sessions[id]}) \cup {s} /\ Distinct(sessions')
    <3>1. sessions \in [SessionId -> Session \cup {None}]
      BY DEF TypeOK
    <3>2. /\ Entries([sessions EXCEPT ![id] = s]) = (Entries(sessions) \ {sessions[id]}) \cup {s}
          /\ Distinct([sessions EXCEPT ![id] = s])
      BY <1>6, <2>1, <3>1, InsertEntry
    <3> QED
      BY <2>2, <3>2
  <2>4. Active' = (Active \ {old}) \cup {s}
    <3>1. Active' = Entries(sessions')
      BY DEF Active, Entries
    <3> QED
      BY <1>6, <2>3, <3>1 DEF old
  <2>5. Elements(queued') = Elements(queued)
    BY <2>2
  <2>6. OneHome'
    <3>1. alive' = Elements(pending') \cup Active' \cup Elements(queued') \cup expired'
      BY <1>2, <1>5, <2>1, <2>2, <2>4, <2>5 DEF HomeInv, OneHome
    <3>2. /\ Elements(pending') \cap (Active' \cup Elements(queued') \cup expired') = {}
          /\ Active' \cap (Elements(queued') \cup expired') = {}
          /\ Elements(queued') \cap expired' = {}
      BY <1>2, <1>5, <2>2, <2>4, <2>5 DEF HomeInv, OneHome
    <3>3. Injective(queued')
      BY <2>2 DEF HomeInv, OneHome
    <3> QED
      BY <1>5, <2>3, <3>1, <3>2, <3>3 DEF OneHome, Elements, Distinct
  <2>7. Fresh'
    BY <1>3, <2>2 DEF HomeInv, Fresh
  <2>8. SidMatches'
    <3>1. ses'[s].sid = id
      <4>1. ses[s] \in SessionRecord /\ ses[old] \in SessionRecord
        BY <2>1 DEF TypeOK
      <4>2. ses'[s] = Restored(ses[s], ses[old])
        BY <2>1, <2>2 DEF TypeOK
      <4> QED
        BY <4>1, <4>2, RestoredFields DEF id
    <3>2. ASSUME NEW i \in SessionId, i # id, sessions[i] # None
          PROVE  ses'[sessions[i]].sid = i
      <4>1. sessions[i] # old /\ sessions[i] # s /\ sessions[i] \in Session
        BY <1>6, <1>7, <2>1, <3>2, SetAssumption DEF Distinct, old
      <4>2. ses'[sessions[i]] = ses[sessions[i]]
        BY <2>1, <2>2, <4>1 DEF TypeOK
      <4> QED
        BY <3>2, <4>2 DEF HomeInv, SidMatches
    <3> QED
      BY <2>1, <2>2, <3>1, <3>2 DEF SidMatches, TypeOK
  <2> QED
    BY <1>4, <2>6, <2>7, <2>8 DEF HomeInv
<1>9. CASE AddExpiredPlayer(s) \/ AddQueuedPlayer(s)
  <2>1. UNCHANGED <<alive, sessions>>
    BY <1>9 DEF AddExpiredPlayer, AddQueuedPlayer
  <2>2. Active' = Active
    BY <2>1 DEF Active
  <2>3. \/ Elements(queued') = Elements(queued) \cup {s} /\ expired' = expired
        \/ Elements(queued') = Elements(queued) /\ expired' = expired \cup {s}
    <3>1. CASE AddExpiredPlayer(s)
      BY <3>1 DEF AddExpiredPlayer
    <3>2. CASE AddQueuedPlayer(s)
      BY <3>2, AppendElements DEF AddQueuedPlayer, TypeOK
    <3> QED
      BY <1>9, <3>1, <3>2
  <2>4. Injective(queued')
    <3>1. CASE AddExpiredPlayer(s)
      BY <3>1 DEF AddExpiredPlayer, HomeInv, OneHome
    <3>2. CASE AddQueuedPlayer(s)
      BY <1>2, <3>2, AppendElements DEF AddQueuedPlayer, TypeOK, HomeInv, OneHome
    <3> QED
      BY <1>9, <3>1, <3>2
  <2>5. OneHome'
    <3>1. alive' = Elements(pending') \cup Active' \cup Elements(queued') \cup expired'
      BY <1>1, <1>5, <2>1, <2>2, <2>3 DEF HomeInv, OneHome
    <3>2. /\ Elements(pending') \cap (Active' \cup Elements(queued') \cup expired') = {}
          /\ Active' \cap (Elements(queued') \cup expired') = {}
          /\ Elements(queued') \cap expired' = {}
      BY <1>2, <1>5, <2>2, <2>3 DEF HomeInv, OneHome
    <3> QED
      BY <1>5, <1>6, <2>1, <2>4, <3>1, <3>2 DEF OneHome, Elements, Distinct
  <2>6. Fresh'
    BY <1>3, <2>1 DEF HomeInv, Fresh
  <2>7. SidMatches'
    <3>1. \A u \in Session : u # s => ses'[u] = ses[u]
      BY <1>9 DEF AddExpiredPlayer, AddQueuedPlayer, TypeOK
    <3> QED
      BY <1>7, <2>1, <3>1 DEF HomeInv, SidMatches
  <2> QED
    BY <1>4, <2>5, <2>6, <2>7 DEF HomeInv
<1>10. ASSUME NEW id \in SessionId, AddGMSession(s, id) \/ AddPendingSession(s, id)
       PROVE  HomeInv'
  <2>1. /\ sessions[id] = None /\ sessions' = [sessions EXCEPT ![id] = s]
        /\ UNCHANGED <<alive, queued, expired>>
        /\ ses' = [ses EXCEPT ![s] = Accepted(ses[s], id)]
    BY <1>10 DEF AddGMSession, AddPendingSession
  <2>2. Entries(sessions') = (Entries(sessions) \ {sessions[id]}) \cup {s} /\ Distinct(sessions')
    <3>1. sessions \in [SessionId -> Session \cup {None}]
      BY DEF TypeOK
    <3>2. /\ Entries([sessions EXCEPT ![id] = s]) = (Entries(sessions) \ {sessions[id]}) \cup {s}
          /\ Distinct([sessions EXCEPT ![id] = s])
      BY <1>6, <3>1, InsertEntry
    <3> QED
      BY <2>1, <3>2
  <2>3. Active' = Active \cup {s}
    <3>1. Active' = Entries(sessions') /\ None \notin Active
      BY DEF Active, Entries
    <3> QED
      BY <1>6, <2>1, <2>2, <3>1
  <2>4. OneHome'
    <3>1. alive' = Elements(pending') \cup Active' \cup Elements(queued') \cup expired'
      BY <1>1, <1>5, <2>1, <2>3 DEF HomeInv, OneHome
    <3>2. /\ Elements(pending') \cap (Active' \cup Elements(queued') \cup expired') = {}
          /\ Active' \cap (Elements(queued') \cup expired') = {}
          /\ Elements(queued') \cap expired' = {}
      BY <1>2, <1>5, <2>1, <2>3 DEF HomeInv, OneHome
    <3>3. Injective(queued')
      BY <2>1 DEF HomeInv, OneHome
    <3> QED
      BY <1>5, <2>2, <3>1, <3>2, <3>3 DEF OneHome, Elements, Distinct
  <2>5. Fresh'
    BY <1>3, <2>1 DEF HomeInv, Fresh
  <2>6. SidMatches'
    <3>1. ses'[s].sid = id
      BY <2>1 DEF Accepted, WithTimeout, TypeOK, SessionRecord
    <3>2. \A u \in Session : u # s => ses'[u] = ses[u]
      BY <2>1 DEF TypeOK
    <3> QED
      BY <1>7, <2>1, <3>1, <3>2 DEF HomeInv, SidMatches, TypeOK
  <2> QED
    BY <1>4, <2>4, <2>5, <2>6 DEF HomeInv
<1> QED
  BY <1>8, <1>9, <1>10

\* The update() of a session: where it is dropped or admitted it is the session at the
\* iterator of the loop, so exactly it leaves the container.
LEMMA HomeSession ==
  ASSUME TypeOK, HomeInv, NEW s \in Session,
         \/ UpdateBegin(s) \/ UpdateEndDropped(s) \/ UpdateEndKept(s) \/ Handle(s)
         \/ \E id \in SessionId : UpdateEndAdmitted(s, id)
  PROVE  HomeInv'
<1>0. s # None
  BY SetAssumption
<1>1. /\ Distinct(sessions) /\ Active = Entries(sessions)
      /\ \A i \in SessionId : sessions[i] # None => sessions[i] \in Session
      /\ queued \in Seq(Session) /\ Injective(queued)
  BY ActiveEntries DEF HomeInv, OneHome, TypeOK
<1>2. CASE UpdateBegin(s)
  <2>1. UNCHANGED <<unused, alive, pending, sessions, queued, expired, phase, pos>>
    BY <1>2 DEF UpdateBegin
  <2>2. \A u \in Session : ses'[u].sid = ses[u].sid
    BY <1>2 DEF UpdateBegin, TypeOK, SessionRecord
  <2>3. cur' = s /\ visit' = visit \ {s} /\ Reached(s)
    BY <1>2 DEF UpdateBegin
  <2>4. CurAtHome'
    <3>1. phase \in {"sessions", "queued", "expired"}
      BY <2>3 DEF Reached
    <3>2. CASE phase = "sessions"
      <4>1. s \in Active
        BY <2>3, <3>2 DEF Reached, HomeInv, VisitAtHome
      <4>2. PICK i \in SessionId : sessions[i] = s
        BY <4>1 DEF Active
      <4>3. ses[s].sid = i
        BY <1>0, <4>2 DEF HomeInv, SidMatches
      <4> QED
        BY <2>1, <2>2, <2>3, <3>2, <4>2, <4>3 DEF CurAtHome
    <3>3. CASE phase = "queued"
      <4>1. Len(queued) \in Nat /\ pos \in Nat /\ pos >= 1 /\ pos <= Len(queued) /\ queued[pos] = s
        BY <1>1, <2>3, <3>3, LenProperties DEF Reached, HomeInv, VisitAtHome, TypeOK
      <4> QED
        BY <2>1, <2>3, <3>3, <4>1 DEF CurAtHome
    <3>4. CASE phase = "expired"
      BY <2>1, <2>3, <3>4 DEF CurAtHome, Reached, HomeInv, VisitAtHome
    <3> QED
      BY <3>1, <3>2, <3>3, <3>4
  <2>5. VisitAtHome'
    <3>1. Active' = Active
      BY <2>1 DEF Active
    <3> QED
      BY <2>1, <2>3, <3>1 DEF HomeInv, VisitAtHome
  <2> QED
    BY <2>1, <2>2, <2>4, <2>5, HomeUnchanged
<1>3. CASE UpdateEndKept(s)
  <2>1. UNCHANGED <<unused, alive, ses, pending, sessions, queued, expired, phase, visit>>
    BY <1>3 DEF UpdateEndKept
  <2>2. cur' = None /\ pos' >= 1
    BY <1>3 DEF UpdateEndKept, HomeInv, VisitAtHome, TypeOK
  <2>3. Active' = Active
    BY <2>1 DEF Active
  <2>4. CurAtHome' /\ VisitAtHome'
    BY <2>1, <2>2, <2>3 DEF CurAtHome, VisitAtHome, HomeInv
  <2> QED
    BY <2>1, <2>4, HomeUnchanged
<1>4. CASE Handle(s)
  <2>1. UNCHANGED <<unused, alive, pending, sessions, queued, expired, phase, cur, visit, pos>>
    BY <1>4 DEF Handle, HandlePlayerLogin, HandleOffence, HandleJoinTheater, HandlePlayerLogout
  <2>2. \A u \in Session : ses'[u].sid = ses[u].sid
    <3> SUFFICES ASSUME NEW u \in Session PROVE ses'[u].sid = ses[u].sid
      OBVIOUS
    <3>1. CASE \E t \in Theater : HandlePlayerLogin(s, t)
      BY <3>1 DEF HandlePlayerLogin, TypeOK, SessionRecord
    <3>2. CASE HandleOffence(s)
      BY <3>2 DEF HandleOffence, TypeOK, SessionRecord
    <3>3. CASE HandleJoinTheater(s)
      BY <3>3 DEF HandleJoinTheater
    <3>4. CASE HandlePlayerLogout(s)
      BY <3>4 DEF HandlePlayerLogout, TypeOK, SessionRecord
    <3> QED
      BY <1>4, <3>1, <3>2, <3>3, <3>4 DEF Handle
  <2>3. CurAtHome'
    BY <2>1, <2>2 DEF HomeInv, CurAtHome, TypeOK
  <2>4. VisitAtHome'
    BY <2>1 DEF HomeInv, VisitAtHome, Active
  <2> QED
    BY <2>1, <2>2, <2>3, <2>4, HomeUnchanged
<1>5. CASE UpdateEndDropped(s)
  <2>1. /\ s = cur /\ cur' = None /\ alive' = alive \ {s}
        /\ UNCHANGED <<unused, pending, phase, visit, pos>>
        /\ phase \in {"sessions", "queued", "expired"} /\ s \notin visit
        /\ \A u \in Session : u # s => ses'[u] = ses[u]
    BY <1>0, <1>5 DEF UpdateEndDropped, DropSession, HomeInv, CurAtHome, TypeOK
  <2>2. Elements(pending') = Elements(pending) /\ Injective(pending')
    BY <2>1 DEF HomeInv, OneHome
  \* Exactly s leaves the container of the loop.
  <2>3. /\ Distinct(sessions') /\ Injective(queued')
        /\ \/ /\ phase = "sessions" /\ s \in Active
              /\ Entries(sessions') = Active \ {s}
              /\ Elements(queued') = Elements(queued) /\ expired' = expired
           \/ /\ phase = "queued" /\ s \in Elements(queued)
              /\ Entries(sessions') = Active /\ sessions' = sessions
              /\ Elements(queued') = Elements(queued) \ {s} /\ expired' = expired
           \/ /\ phase = "expired" /\ s \in expired
              /\ Entries(sessions') = Active /\ sessions' = sessions
              /\ Elements(queued') = Elements(queued) /\ expired' = expired \ {s}
    <3>1. CASE phase = "sessions"
      <4>1. ses[s].sid \in SessionId /\ sessions[ses[s].sid] = s
        BY <1>0, <2>1, <3>1 DEF HomeInv, CurAtHome
      <4>2. sessions' = [sessions EXCEPT ![ses[s].sid] = None] /\ UNCHANGED <<queued, expired>>
        BY <1>5, <3>1 DEF UpdateEndDropped
      <4>3. Entries(sessions') = Entries(sessions) \ {s} /\ Distinct(sessions')
        BY <1>1, <4>1, <4>2, EraseEntry DEF TypeOK
      <4>4. s \in Active
        BY <1>0, <4>1 DEF Active
      <4> QED
        BY <1>1, <3>1, <4>2, <4>3, <4>4
    <3>2. CASE phase = "queued"
      <4>1. pos \in 1..Len(queued) /\ queued[pos] = s
        BY <1>0, <2>1, <3>2 DEF HomeInv, CurAtHome
      <4>2. queued' = Erase(queued, pos) /\ UNCHANGED <<sessions, expired>>
        BY <1>5, <3>2 DEF UpdateEndDropped
      <4>3. Elements(queued') = Elements(queued) \ {s} /\ Injective(queued')
        BY <1>1, <4>1, <4>2, EraseElements
      <4>4. s \in Elements(queued)
        BY <4>1 DEF Elements
      <4> QED
        BY <1>1, <3>2, <4>2, <4>3, <4>4
    <3>3. CASE phase = "expired"
      <4>1. s \in expired
        BY <1>0, <2>1, <3>3 DEF HomeInv, CurAtHome
      <4>2. expired' = expired \ {s} /\ UNCHANGED <<sessions, queued>>
        BY <1>5, <3>3 DEF UpdateEndDropped
      <4> QED
        BY <1>1, <3>3, <4>1, <4>2
    <3> QED
      BY <2>1, <3>1, <3>2, <3>3
  <2>4. Active' = Entries(sessions')
    BY DEF Active, Entries
  <2>5. OneHome'
    <3>1. alive' = Elements(pending') \cup Active' \cup Elements(queued') \cup expired'
      BY <2>1, <2>2, <2>3, <2>4 DEF HomeInv, OneHome
    <3>2. /\ Elements(pending') \cap (Active' \cup Elements(queued') \cup expired') = {}
          /\ Active' \cap (Elements(queued') \cup expired') = {}
          /\ Elements(queued') \cap expired' = {}
      BY <2>2, <2>3, <2>4 DEF HomeInv, OneHome
    <3> QED
      BY <2>2, <2>3, <3>1, <3>2 DEF OneHome, Elements, Distinct
  <2>6. Fresh'
    BY <2>1 DEF HomeInv, Fresh
  <2>7. SidMatches'
    <3> SUFFICES ASSUME NEW i \in SessionId, sessions'[i] # None
                 PROVE  ses'[sessions'[i]].sid = i
      BY DEF SidMatches
    <3>1. s \notin Active'
      BY <2>3, <2>4 DEF HomeInv, OneHome
    <3>2. sessions'[i] \in Active'
      BY DEF Active
    <3>3. sessions'[i] = sessions[i]
      <4>1. CASE phase = "sessions"
        BY <1>5, <4>1 DEF UpdateEndDropped, TypeOK
      <4>2. CASE phase # "sessions"
        BY <2>3, <4>2
      <4> QED
        BY <4>1, <4>2
    <3> QED
      BY <1>1, <2>1, <3>1, <3>2, <3>3 DEF HomeInv, SidMatches
  <2>8. CurAtHome' /\ VisitAtHome'
    BY <2>1, <2>3, <2>4 DEF HomeInv, CurAtHome, VisitAtHome
  <2> QED
    BY <2>5, <2>6, <2>7, <2>8 DEF HomeInv
<1>6. ASSUME NEW id \in SessionId, UpdateEndAdmitted(s, id) PROVE HomeInv'
  <2>1. /\ s = cur /\ cur' = None /\ phase = "queued" /\ sessions[id] = None
        /\ UNCHANGED <<unused, alive, pending, expired, phase, visit, pos>>
        /\ sessions' = [sessions EXCEPT ![id] = s] /\ queued' = Erase(queued, pos)
        /\ ses' = [ses EXCEPT ![s] = Accepted(ses[s], id)]
    BY <1>6 DEF UpdateEndAdmitted
  <2>2. pos \in 1..Len(queued) /\ queued[pos] = s
    BY <1>0, <2>1 DEF HomeInv, CurAtHome
  <2>3. Elements(queued') = Elements(queued) \ {s} /\ Injective(queued') /\ s \in Elements(queued)
    <3>1. s \in Elements(queued)
      BY <2>2 DEF Elements
    <3> QED
      BY <1>1, <2>1, <2>2, <3>1, EraseElements
  <2>4. s \notin Active /\ s \notin Entries(sessions)
    BY <1>1, <2>3 DEF HomeInv, OneHome
  <2>5. Entries(sessions') = (Entries(sessions) \ {sessions[id]}) \cup {s} /\ Distinct(sessions')
    <3>1. sessions \in [SessionId -> Session \cup {None}]
      BY DEF TypeOK
    <3>2. /\ Entries([sessions EXCEPT ![id] = s]) = (Entries(sessions) \ {sessions[id]}) \cup {s}
          /\ Distinct([sessions EXCEPT ![id] = s])
      BY <1>1, <2>4, <3>1, InsertEntry
    <3> QED
      BY <2>1, <3>2
  <2>6. Active' = Active \cup {s}
    <3>1. Active' = Entries(sessions') /\ None \notin Active
      BY DEF Active, Entries
    <3> QED
      BY <1>1, <2>1, <2>5, <3>1
  <2>7. OneHome'
    <3>1. alive' = Elements(pending') \cup Active' \cup Elements(queued') \cup expired'
      BY <2>1, <2>3, <2>6 DEF HomeInv, OneHome
    <3>2. /\ Elements(pending') \cap (Active' \cup Elements(queued') \cup expired') = {}
          /\ Active' \cap (Elements(queued') \cup expired') = {}
          /\ Elements(queued') \cap expired' = {}
      BY <2>1, <2>3, <2>6 DEF HomeInv, OneHome
    <3>3. Injective(pending')
      BY <2>1 DEF HomeInv, OneHome
    <3> QED
      BY <2>3, <2>5, <3>1, <3>2, <3>3 DEF OneHome, Elements, Distinct
  <2>8. Fresh'
    BY <2>1 DEF HomeInv, Fresh
  <2>9. SidMatches'
    <3>1. ses'[s].sid = id
      BY <2>1 DEF Accepted, WithTimeout, TypeOK, SessionRecord
    <3>2. \A u \in Session : u # s => ses'[u] = ses[u]
      BY <2>1 DEF TypeOK
    <3>3. \A i \in SessionId : sessions[i] # None => sessions[i] # s
      BY <2>4 DEF Active
    <3> QED
      BY <1>1, <2>1, <3>1, <3>2, <3>3 DEF HomeInv, SidMatches, TypeOK
  <2>10. CurAtHome' /\ VisitAtHome'
    BY <2>1 DEF HomeInv, CurAtHome, VisitAtHome
  <2> QED
    BY <2>7, <2>8, <2>9, <2>10 DEF HomeInv
<1> QED
  BY <1>2, <1>3, <1>4, <1>5, <1>6

\* Every step keeps every session in its one container.
LEMMA HomeNext ==
  ASSUME TypeOK, HomeInv, [Next]_vars
  PROVE  HomeInv'
<1>1. CASE MainStep
  BY <1>1, HomeLoop, HomePending, HomeSession DEF MainStep
<1>2. ASSUME NEW s \in Session, Network(s) \/ Handle(s) PROVE HomeInv'
  BY <1>2, HomeNetwork, HomeSession
<1>3. CASE Stop
  <2>1. /\ UNCHANGED <<unused, alive, ses, pending, sessions, queued, expired>>
        /\ UNCHANGED <<phase, cur, visit, pos>>
    BY <1>3 DEF Stop
  <2>2. CurAtHome' /\ VisitAtHome'
    BY <2>1 DEF HomeInv, CurAtHome, VisitAtHome, Active
  <2> QED
    BY <2>1, <2>2, HomeUnchanged
<1>4. CASE UNCHANGED vars
  <2>1. CurAtHome' /\ VisitAtHome'
    BY <1>4 DEF HomeInv, CurAtHome, VisitAtHome, Active
  <2> QED
    BY <1>4, <2>1, HomeUnchanged
<1> QED
  BY <1>1, <1>2, <1>3, <1>4 DEF Next, Terminated

\* Whatever the network threads and the main thread do, a session object is neither
\* lost (it would leak with its socket) nor kept in two containers or after its deletion
\* (it would be deleted twice or used after being freed).
THEOREM OneHomeCorrect == Spec => []OneHome
<1>1. Init => HomeInv
  BY HomeInit
<1>2. TypeOK /\ HomeInv /\ [Next]_vars => HomeInv'
  BY HomeNext
<1>3. HomeInv => OneHome
  BY DEF HomeInv
<1> QED
  BY <1>1, <1>2, <1>3, TypeCorrect, PTL DEF Spec

-----------------------------------------------------------------------------
(***************************************************************************)
(* The counts and the waiting list.                                         *)
(***************************************************************************)

\* The ids of the accepted sessions of a kind.
Kind(isGM) == {i \in SessionId : sessions[i] # None /\ ses[sessions[i]].gm = isGM}

\* Only players without an earlier id wait for a place.
QueuedPlain == \A s \in Elements(queued) : ~ses[s].gm /\ ses[s].sid = None

\* A place is left only while nobody waits, except in the loops that free the places
\* and hand them out; the second one goes on to the next session only when no place is
\* left.
RoomOrder ==
    /\ phase = "queued" /\ pos > 1 => playerCount >= PlayerLimit
    /\ phase \notin {"sessions", "queued"} => queued = <<>> \/ playerCount >= PlayerLimit

CountInv == CountsMatch /\ QueuedPlain /\ RoomOrder

\* Accepted sessions of a kind can be counted.
LEMMA KindFinite ==
  \A b \in BOOLEAN : IsFiniteSet(Kind(b)) /\ Cardinality(Kind(b)) \in Nat
<1> TAKE b \in BOOLEAN
<1>1. Kind(b) \subseteq SessionId
  BY DEF Kind
<1> QED
  BY <1>1, SetAssumption, FS_Subset, FS_CardinalityType

\* CountsMatch in terms of the accepted sessions of each kind.
LEMMA CountsByKind ==
  CountsMatch <=> /\ playerCount = Cardinality(Kind(FALSE))
                  /\ gmCount = Cardinality(Kind(TRUE))
                  /\ playerCount <= PlayerLimit
BY DEF CountsMatch, Kind

\* The same entries, none of which changes its kind.
LEMMA CountSame ==
  ASSUME TypeOK, CountsMatch, UNCHANGED <<sessions, playerCount, gmCount>>,
         \A u \in Active : ses'[u].gm = ses[u].gm
  PROVE  CountsMatch'
<1>1. ASSUME NEW i \in SessionId, sessions[i] # None
      PROVE  ses'[sessions[i]].gm = ses[sessions[i]].gm
  BY <1>1 DEF Active
<1>2. {i \in SessionId : sessions'[i] # None /\ ses'[sessions'[i]].gm = FALSE} = Kind(FALSE)
  BY <1>1 DEF Kind
<1>3. {i \in SessionId : sessions'[i] # None /\ ses'[sessions'[i]].gm = TRUE} = Kind(TRUE)
  BY <1>1 DEF Kind
<1>4. Kind(FALSE)' = Kind(FALSE) /\ Kind(TRUE)' = Kind(TRUE)
  BY <1>2, <1>3 DEF Kind
<1> QED
  BY <1>4 DEF CountsMatch, Kind

\* A new entry counts for its kind.
LEMMA CountAdd ==
  ASSUME TypeOK, CountsMatch, NEW s \in Session, NEW id \in SessionId, s \notin Active,
         sessions[id] = None, sessions' = [sessions EXCEPT ![id] = s],
         \A u \in Active : ses'[u].gm = ses[u].gm,
         \/ /\ ses'[s].gm = FALSE /\ playerCount < PlayerLimit
            /\ playerCount' = playerCount + 1 /\ gmCount' = gmCount
         \/ /\ ses'[s].gm = TRUE
            /\ gmCount' = gmCount + 1 /\ playerCount' = playerCount
  PROVE  CountsMatch'
<1>1. s # None
  BY SetAssumption
<1>2. ASSUME NEW i \in SessionId, sessions[i] # None
      PROVE  ses'[sessions[i]].gm = ses[sessions[i]].gm
  BY <1>2 DEF Active
<1>3. \A i \in SessionId : sessions'[i] = IF i = id THEN s ELSE sessions[i]
  BY DEF TypeOK
<1>4. ASSUME NEW b \in BOOLEAN
      PROVE  /\ id \notin Kind(b)
             /\ ses'[s].gm = b => Kind(b)' = Kind(b) \cup {id}
             /\ ses'[s].gm # b => Kind(b)' = Kind(b)
  <2>1. Kind(b)' = {i \in SessionId : sessions'[i] # None /\ ses'[sessions'[i]].gm = b}
    BY DEF Kind
  <2> QED
    BY <1>1, <1>2, <1>3, <2>1 DEF Kind
<1>5. ASSUME NEW b \in BOOLEAN
      PROVE  Cardinality(Kind(b) \cup {id}) = Cardinality(Kind(b)) + 1
  BY <1>4, <1>5, KindFinite, FS_AddElement
<1>6. playerCount = Cardinality(Kind(FALSE)) /\ gmCount = Cardinality(Kind(TRUE))
  BY CountsByKind
<1>7. /\ playerCount' = Cardinality(Kind(FALSE)') /\ gmCount' = Cardinality(Kind(TRUE)')
      /\ playerCount' <= PlayerLimit
  <2>1. CASE ses'[s].gm = FALSE
    <3>1. Kind(FALSE)' = Kind(FALSE) \cup {id} /\ Kind(TRUE)' = Kind(TRUE)
      BY <1>4, <2>1
    <3>2. Cardinality(Kind(FALSE) \cup {id}) = Cardinality(Kind(FALSE)) + 1
      BY <1>5
    <3>3. playerCount' = playerCount + 1 /\ gmCount' = gmCount /\ playerCount < PlayerLimit
      BY <2>1
    <3>4. playerCount \in Int
      BY DEF TypeOK
    <3>5. playerCount' <= PlayerLimit
      BY <3>3, <3>4, LimitAssumption
    <3>6. playerCount' = Cardinality(Kind(FALSE)')
      BY <1>6, <3>1, <3>2, <3>3
    <3>7. gmCount' = Cardinality(Kind(TRUE)')
      BY <1>6, <3>1, <3>3
    <3> QED
      BY <3>5, <3>6, <3>7
  <2>2. CASE ses'[s].gm = TRUE
    <3>1. Kind(TRUE)' = Kind(TRUE) \cup {id} /\ Kind(FALSE)' = Kind(FALSE)
      BY <1>4, <2>2
    <3> QED
      BY <1>5, <1>6, <2>2, <3>1 DEF CountsMatch
  <2> QED
    BY <2>1, <2>2
<1> QED
  BY <1>7 DEF CountsMatch, Kind

\* A session that leaves m_sessions no longer counts.
LEMMA CountRemove ==
  ASSUME TypeOK, CountsMatch, Distinct(sessions), NEW s \in Session, NEW id \in SessionId,
         sessions[id] = s, sessions' = [sessions EXCEPT ![id] = None],
         \A u \in Active \ {s} : ses'[u].gm = ses[u].gm,
         gmCount' = (IF ses[s].gm THEN gmCount - 1 ELSE gmCount),
         playerCount' = (IF ses[s].gm THEN playerCount ELSE playerCount - 1)
  PROVE  CountsMatch'
<1>1. s # None
  BY SetAssumption
<1>2. ASSUME NEW i \in SessionId, i # id, sessions[i] # None
      PROVE  ses'[sessions[i]].gm = ses[sessions[i]].gm
  <2>1. sessions[i] \in Active \ {s}
    BY <1>2 DEF Active, Distinct
  <2> QED
    BY <2>1
<1>3. \A i \in SessionId : sessions'[i] = IF i = id THEN None ELSE sessions[i]
  BY DEF TypeOK
<1>4. ASSUME NEW b \in BOOLEAN
      PROVE  /\ ses[s].gm = b => id \in Kind(b) /\ Kind(b)' = Kind(b) \ {id}
             /\ ses[s].gm # b => Kind(b)' = Kind(b)
  <2>1. Kind(b)' = {i \in SessionId : sessions'[i] # None /\ ses'[sessions'[i]].gm = b}
    BY DEF Kind
  <2> QED
    BY <1>1, <1>2, <1>3, <2>1 DEF Kind
<1>5. ASSUME NEW b \in BOOLEAN, id \in Kind(b)
      PROVE  Cardinality(Kind(b) \ {id}) = Cardinality(Kind(b)) - 1
  BY <1>5, KindFinite, FS_RemoveElement
<1>6. playerCount = Cardinality(Kind(FALSE)) /\ gmCount = Cardinality(Kind(TRUE))
  BY CountsByKind
<1>7. ses[s].gm \in BOOLEAN
  BY DEF TypeOK, SessionRecord
<1>8. /\ playerCount' = Cardinality(Kind(FALSE)') /\ gmCount' = Cardinality(Kind(TRUE)')
      /\ playerCount' <= PlayerLimit
  <2>1. CASE ses[s].gm = FALSE
    <3>1. Kind(FALSE)' = Kind(FALSE) \ {id} /\ id \in Kind(FALSE) /\ Kind(TRUE)' = Kind(TRUE)
      BY <1>4, <2>1
    <3>2. Cardinality(Kind(FALSE) \ {id}) = Cardinality(Kind(FALSE)) - 1
      BY <1>5, <3>1
    <3>3. playerCount' = playerCount - 1 /\ gmCount' = gmCount
      BY <2>1
    <3>4. playerCount \in Int /\ playerCount <= PlayerLimit
      BY DEF TypeOK, CountsMatch
    <3>5. playerCount' <= PlayerLimit
      BY <3>3, <3>4, LimitAssumption
    <3>6. playerCount' = Cardinality(Kind(FALSE)')
      BY <1>6, <3>1, <3>2, <3>3
    <3>7. gmCount' = Cardinality(Kind(TRUE)')
      BY <1>6, <3>1, <3>3
    <3> QED
      BY <3>5, <3>6, <3>7
  <2>2. CASE ses[s].gm = TRUE
    <3>1. Kind(TRUE)' = Kind(TRUE) \ {id} /\ id \in Kind(TRUE) /\ Kind(FALSE)' = Kind(FALSE)
      BY <1>4, <2>2
    <3> QED
      BY <1>5, <1>6, <2>2, <3>1 DEF CountsMatch
  <2> QED
    BY <1>7, <2>1, <2>2
<1> QED
  BY <1>8 DEF CountsMatch, Kind

\* A session takes the place of another one of its kind.
LEMMA CountReplace ==
  ASSUME TypeOK, CountsMatch, Distinct(sessions), NEW s \in Session, NEW id \in SessionId,
         sessions[id] # None, sessions' = [sessions EXCEPT ![id] = s],
         \A u \in Active \ {sessions[id]} : ses'[u].gm = ses[u].gm,
         ses'[s].gm = ses[sessions[id]].gm,
         UNCHANGED <<gmCount, playerCount>>
  PROVE  CountsMatch'
<1>1. s # None
  BY SetAssumption
<1>2. ASSUME NEW i \in SessionId, i # id, sessions[i] # None
      PROVE  ses'[sessions[i]].gm = ses[sessions[i]].gm
  <2>1. sessions[i] \in Active \ {sessions[id]}
    BY <1>2 DEF Active, Distinct
  <2> QED
    BY <2>1
<1>3. \A i \in SessionId : sessions'[i] = IF i = id THEN s ELSE sessions[i]
  BY DEF TypeOK
<1>4. ASSUME NEW b \in BOOLEAN
      PROVE  Kind(b)' = Kind(b)
  <2>1. Kind(b)' = {i \in SessionId : sessions'[i] # None /\ ses'[sessions'[i]].gm = b}
    BY DEF Kind
  <2> QED
    BY <1>1, <1>2, <1>3, <2>1 DEF Kind
<1>5. Kind(FALSE)' = Kind(FALSE) /\ Kind(TRUE)' = Kind(TRUE)
  BY <1>4
<1> QED
  BY <1>5 DEF CountsMatch, Kind

\* The steps that only move the main thread on, or only touch sockets and timers.
Quiet ==
    \/ Stop \/ UNCHANGED vars
    \/ BeginUpdate \/ BeginLastUpdate \/ PendingDone \/ SessionsDone \/ QueuedDone
    \/ ExpiredDone \/ StopNetwork
    \/ \E s \in Session :
         Ping(s) \/ Disconnect(s) \/ UpdateBegin(s) \/ UpdateEndKept(s) \/ HandleOffence(s)

\* What the invariants say of a session stays true of it.
SameSession(u) ==
    /\ ses'[u].sid = ses[u].sid /\ ses'[u].gm = ses[u].gm /\ ses'[u].authed = ses[u].authed
    /\ ses'[u].player = ses[u].player /\ ses'[u].theater = ses[u].theater

\* What a step of the network or of the iteration leaves alone.
LEMMA QuietFrame ==
  ASSUME TypeOK, Quiet
  PROVE  /\ UNCHANGED <<unused, alive, listVars, worldVars>>
         /\ \A u \in Session : SameSession(u)
<1>1. UNCHANGED <<unused, alive, listVars, worldVars>>
  BY DEF Quiet, Ping, Disconnect, Stop, BeginUpdate, BeginLastUpdate, PendingDone, SessionsDone,
       QueuedDone, ExpiredDone, StopNetwork, UpdateBegin, UpdateEndKept, HandleOffence
<1>2. ASSUME NEW u \in Session PROVE SameSession(u)
  <2>0. ses \in [Session -> SessionRecord] /\ ses[u] \in SessionRecord
    BY DEF TypeOK
  <2>1. ASSUME NEW s \in Session, Ping(s) PROVE SameSession(u)
    BY <2>0, <2>1 DEF Ping, SessionRecord, SameSession
  <2>2. ASSUME NEW s \in Session, UpdateBegin(s) PROVE SameSession(u)
    BY <2>0, <2>2 DEF UpdateBegin, SessionRecord, SameSession
  <2>3. ASSUME NEW s \in Session, HandleOffence(s) PROVE SameSession(u)
    BY <2>0, <2>3 DEF HandleOffence, SessionRecord, SameSession
  <2>4. CASE BeginLastUpdate
    BY <2>0, <2>4 DEF BeginLastUpdate, KickAll, SessionRecord, SameSession
  <2>5. CASE ses' = ses
    BY <2>5 DEF SameSession
  <2>6. \/ ses' = ses \/ BeginLastUpdate
        \/ \E s \in Session : Ping(s) \/ UpdateBegin(s) \/ HandleOffence(s)
    BY DEF Quiet, Disconnect, Stop, BeginUpdate, PendingDone, SessionsDone, QueuedDone,
         ExpiredDone, StopNetwork, UpdateEndKept
  <2> QED
    BY <2>1, <2>2, <2>3, <2>4, <2>5, <2>6
<1> QED
  BY <1>1, <1>2

\* The steps that are not quiet.
LEMMA NextCases ==
  ASSUME [Next]_vars
  PROVE  \/ Quiet \/ Destructor
         \/ \E P \in SUBSET Theater : UpdateTheaters(P)
         \/ \E D \in SUBSET Theater : PurgeTheaters(D)
         \/ \E s \in Session :
              \/ \E id \in SessionId \cup {None}, kind \in ClientKind : AuthProof(s, id, kind)
              \/ RestoreSession(s) \/ AddExpiredPlayer(s) \/ AddQueuedPlayer(s)
              \/ \E id \in SessionId : AddGMSession(s, id)
              \/ \E id \in SessionId : AddPendingSession(s, id)
              \/ UpdateEndDropped(s)
              \/ \E id \in SessionId : UpdateEndAdmitted(s, id)
              \/ \E t \in Theater : HandlePlayerLogin(s, t)
              \/ HandleJoinTheater(s) \/ HandlePlayerLogout(s)
<1>1. CASE UNCHANGED vars
  BY <1>1 DEF Quiet
<1>2. CASE Next
  BY <1>2 DEF Next, MainStep, Network, Handle, Quiet, Terminated
<1> QED
  BY <1>1, <1>2

\* The counts are right at the start.
LEMMA CountInit ==
  ASSUME Init
  PROVE  CountInv
<1>1. Kind(TRUE) = {} /\ Kind(FALSE) = {}
  BY DEF Init, Kind
<1>2. CountsMatch
  <2>1. Cardinality({}) = 0
    BY FS_EmptySet
  <2>2. playerCount = Cardinality(Kind(FALSE)) /\ gmCount = Cardinality(Kind(TRUE))
    BY <1>1, <2>1 DEF Init
  <2>3. playerCount <= PlayerLimit
    BY LimitAssumption DEF Init
  <2> QED
    BY <2>2, <2>3, CountsByKind
<1>3. Elements(queued) = {}
  <2>1. Len(<<>>) = 0 /\ 1..0 = {}
    BY EmptySeq
  <2> QED
    BY <2>1 DEF Init, Elements
<1> QED
  BY <1>2, <1>3 DEF CountInv, QueuedPlain, RoomOrder, Init

\* The waiting list when no session joins it.
LEMMA PlainKept ==
  ASSUME QueuedPlain, Elements(queued') \subseteq Elements(queued),
         \A u \in Elements(queued') : ses'[u].gm = ses[u].gm /\ ses'[u].sid = ses[u].sid
  PROVE  QueuedPlain'
BY DEF QueuedPlain, Elements

\* A step that moves no session keeps the counts.
LEMMA CountQuiet ==
  ASSUME TypeOK, HomeInv, CountInv, Quiet
  PROVE  CountInv'
<1>1. UNCHANGED <<sessions, playerCount, gmCount, queued>> /\ \A u \in Session : SameSession(u)
  BY QuietFrame
<1>2. Active \subseteq Session /\ Elements(queued) \subseteq Session
  BY DEF TypeOK, Active, Elements
<1>3. CountsMatch'
  BY <1>1, <1>2, CountSame DEF CountInv, SameSession
<1>4. QueuedPlain'
  BY <1>1, <1>2, PlainKept DEF CountInv, SameSession
<1>5. RoomOrder'
  <2>1. CASE UNCHANGED <<phase, pos>>
    BY <1>1, <2>1 DEF CountInv, RoomOrder
  <2>2. CASE QueuedDone
    <3>1. CASE pos > 1
      BY <1>1, <2>2, <3>1 DEF CountInv, RoomOrder, QueuedDone
    <3>2. CASE ~(pos > 1)
      <4>1. Len(queued) = 0
        BY <2>2, <3>2, LenProperties DEF QueuedDone, TypeOK
      <4>2. queued = <<>>
        BY <4>1, EmptySeq DEF TypeOK
      <4> QED
        BY <1>1, <2>2, <4>2 DEF RoomOrder, QueuedDone
    <3> QED
      BY <3>1, <3>2
  <2>3. CASE \E s \in Session : UpdateEndKept(s)
    BY <1>1, <2>3 DEF UpdateEndKept, CountInv, RoomOrder
  <2>4. CASE BeginUpdate \/ BeginLastUpdate \/ PendingDone \/ SessionsDone \/ ExpiredDone \/ StopNetwork
    BY <1>1, <2>4 DEF BeginUpdate, BeginLastUpdate, PendingDone, SessionsDone, ExpiredDone,
         StopNetwork, CountInv, RoomOrder
  <2> QED
    BY <2>1, <2>2, <2>3, <2>4 DEF Quiet, Stop, Ping, Disconnect, UpdateBegin, HandleOffence
<1> QED
  BY <1>3, <1>4, <1>5 DEF CountInv

\* The sessions that are in a container are not touched with one that is in another.
LEMMA CountNetwork ==
  ASSUME TypeOK, HomeInv, CountInv,
         \/ \E s \in Session, id \in SessionId \cup {None}, kind \in ClientKind : AuthProof(s, id, kind)
         \/ Destructor
  PROVE  CountInv'
<1>1. UNCHANGED <<sessions, playerCount, gmCount, queued, pos>>
  BY DEF AuthProof, Destructor
<1>2. \A u \in Active \cup Elements(queued) : ses'[u] = ses[u]
  <2> SUFFICES ASSUME NEW u \in Active \cup Elements(queued) PROVE ses'[u] = ses[u]
    OBVIOUS
  <2>1. u \in Session /\ u \notin Elements(pending) /\ u \notin unused
    BY DEF TypeOK, HomeInv, OneHome, Fresh
  <2>2. CASE Destructor
    BY <2>1, <2>2 DEF Destructor
  <2>3. ASSUME NEW s \in Session, NEW id \in SessionId \cup {None}, NEW kind \in ClientKind,
               AuthProof(s, id, kind)
        PROVE  ses'[u] = ses[u]
    BY <2>1, <2>3 DEF AuthProof, TypeOK
  <2> QED
    BY <2>2, <2>3
<1>3. CountsMatch'
  BY <1>1, <1>2, CountSame DEF CountInv
<1>4. QueuedPlain'
  BY <1>1, <1>2, PlainKept DEF CountInv
<1>5. RoomOrder'
  BY <1>1 DEF AuthProof, Destructor, CountInv, RoomOrder
<1> QED
  BY <1>3, <1>4, <1>5 DEF CountInv

\* Steps of the theaters and of their players keep the counts.
LEMMA CountWorld ==
  ASSUME TypeOK, HomeInv, CountInv,
         \/ \E P \in SUBSET Theater : UpdateTheaters(P) \/ PurgeTheaters(P)
         \/ \E s \in Session, t \in Theater : HandlePlayerLogin(s, t)
         \/ \E s \in Session : HandleJoinTheater(s) \/ HandlePlayerLogout(s)
  PROVE  CountInv'
<1>1. UNCHANGED <<sessions, playerCount, gmCount, queued, pos>>
  BY DEF UpdateTheaters, PurgeTheaters, HandlePlayerLogin, HandleJoinTheater, HandlePlayerLogout
<1>2. \A u \in Session : ses'[u].gm = ses[u].gm /\ ses'[u].sid = ses[u].sid
  <2> SUFFICES ASSUME NEW u \in Session PROVE ses'[u].gm = ses[u].gm /\ ses'[u].sid = ses[u].sid
    OBVIOUS
  <2>0. ses \in [Session -> SessionRecord] /\ ses[u] \in SessionRecord
    BY DEF TypeOK
  <2>1. CASE ses' = ses
    BY <2>1
  <2>2. ASSUME NEW s \in Session, NEW t \in Theater, HandlePlayerLogin(s, t)
        PROVE  ses'[u].gm = ses[u].gm /\ ses'[u].sid = ses[u].sid
    BY <2>0, <2>2 DEF HandlePlayerLogin, SessionRecord
  <2>3. ASSUME NEW s \in Session, HandlePlayerLogout(s)
        PROVE  ses'[u].gm = ses[u].gm /\ ses'[u].sid = ses[u].sid
    BY <2>0, <2>3 DEF HandlePlayerLogout, SessionRecord
  <2> QED
    BY <2>1, <2>2, <2>3 DEF UpdateTheaters, PurgeTheaters, HandleJoinTheater
<1>3. Active \subseteq Session /\ Elements(queued) \subseteq Session
  BY DEF TypeOK, Active, Elements
<1>4. CountsMatch'
  BY <1>1, <1>2, <1>3, CountSame DEF CountInv
<1>5. QueuedPlain'
  BY <1>1, <1>2, <1>3, PlainKept DEF CountInv
<1>6. RoomOrder'
  BY <1>1 DEF UpdateTheaters, PurgeTheaters, HandlePlayerLogin, HandleJoinTheater,
       HandlePlayerLogout, CountInv, RoomOrder
<1> QED
  BY <1>4, <1>5, <1>6 DEF CountInv

\* The sessions taken from m_pendingSessions.
LEMMA CountPending ==
  ASSUME TypeOK, HomeInv, CountInv, NEW s \in Session,
         \/ RestoreSession(s) \/ AddExpiredPlayer(s) \/ AddQueuedPlayer(s)
         \/ \E id \in SessionId : AddGMSession(s, id) \/ AddPendingSession(s, id)
  PROVE  CountInv'
<1>0. AtPending(s)
  BY DEF RestoreSession, AddExpiredPlayer, AddQueuedPlayer, AddGMSession, AddPendingSession
<1>1. s \in Elements(pending)
  BY <1>0, TailElements DEF AtPending, TypeOK, HomeInv, OneHome
<1>2. s \notin Active /\ s \notin Elements(queued)
  BY <1>1 DEF HomeInv, OneHome
<1>3. /\ Distinct(sessions) /\ Active \cap Elements(queued) = {}
      /\ Active \subseteq Session /\ Elements(queued) \subseteq Session
  BY ActiveEntries DEF HomeInv, OneHome, TypeOK, Active, Elements
<1>4. UNCHANGED <<phase, pos>> /\ phase = "pending"
  BY <1>0 DEF RestoreSession, AddExpiredPlayer, AddQueuedPlayer, AddGMSession, AddPendingSession,
       AtPending
<1>5. CASE RestoreSession(s)
  <2> DEFINE id == ses[s].sid
             old == sessions[id]
  <2>1. id \in SessionId /\ old \in Session /\ old # s /\ old \in Active /\ old # None
    BY <1>2, <1>5 DEF RestoreSession, CanRestore, TypeOK, SessionRecord, Active
  <2>2. /\ sessions' = [sessions EXCEPT ![id] = s]
        /\ UNCHANGED <<queued, playerCount, gmCount>>
        /\ ses' = [ses EXCEPT ![s] = Restored(ses[s], ses[old]), ![old] = NewSession]
    BY <1>5, <2>1 DEF RestoreSession, TypeOK
  <2>3. ses'[s].gm = ses[old].gm
    <3>1. ses[s] \in SessionRecord /\ ses[old] \in SessionRecord
      BY <2>1 DEF TypeOK
    <3>2. ses'[s] = Restored(ses[s], ses[old])
      BY <2>1, <2>2 DEF TypeOK
    <3> QED
      BY <3>1, <3>2, RestoredFields
  <2>4. \A u \in Session \ {s, old} : ses'[u] = ses[u]
    BY <2>1, <2>2 DEF TypeOK
  <2>5. \A u \in Active \ {old} : ses'[u].gm = ses[u].gm
    BY <1>2, <1>3, <2>4
  <2> HIDE DEF id, old
  <2>6. old = sessions[id]
    BY DEF old
  <2>7. CountsMatch'
    BY <1>3, <2>1, <2>2, <2>3, <2>5, <2>6, CountReplace DEF CountInv
  <2>8. QueuedPlain'
    BY <1>2, <1>3, <2>1, <2>2, <2>4, PlainKept DEF CountInv
  <2>9. RoomOrder'
    BY <1>4, <2>2 DEF CountInv, RoomOrder
  <2> QED
    BY <2>7, <2>8, <2>9 DEF CountInv
<1>6. CASE AddExpiredPlayer(s) \/ AddQueuedPlayer(s)
  <2>1. UNCHANGED <<sessions, playerCount, gmCount>>
    BY <1>6 DEF AddExpiredPlayer, AddQueuedPlayer
  <2>2. \A u \in Session \ {s} : ses'[u] = ses[u]
    BY <1>6 DEF AddExpiredPlayer, AddQueuedPlayer, TypeOK
  <2>3. CountsMatch'
    BY <1>2, <1>3, <2>1, <2>2, CountSame DEF CountInv
  <2>4. QueuedPlain' /\ RoomOrder'
    <3>1. CASE AddExpiredPlayer(s)
      <4>1. queued' = queued
        BY <3>1 DEF AddExpiredPlayer
      <4>2. QueuedPlain'
        BY <1>2, <1>3, <2>2, <4>1, PlainKept DEF CountInv
      <4> QED
        BY <1>4, <2>1, <4>1, <4>2 DEF CountInv, RoomOrder
    <3>2. CASE AddQueuedPlayer(s)
      <4>1. Elements(queued') = Elements(queued) \cup {s}
        BY <3>2, AppendElements DEF AddQueuedPlayer, TypeOK
      <4>2. ses'[s].gm = ses[s].gm /\ ses'[s].sid = ses[s].sid
        BY <3>2 DEF AddQueuedPlayer, WithTimeout, TypeOK, SessionRecord
      <4>3. ~ses[s].gm /\ ses[s].sid = None /\ playerCount >= PlayerLimit
        BY <3>2 DEF AddQueuedPlayer
      <4>4. \A u \in Elements(queued') : ~ses'[u].gm /\ ses'[u].sid = None
        BY <1>2, <1>3, <2>2, <4>1, <4>2, <4>3 DEF CountInv, QueuedPlain
      <4>5. QueuedPlain'
        BY <4>4 DEF QueuedPlain, Elements
      <4> QED
        BY <1>4, <2>1, <4>3, <4>5 DEF RoomOrder
    <3> QED
      BY <1>6, <3>1, <3>2
  <2> QED
    BY <2>3, <2>4 DEF CountInv
<1>7. ASSUME NEW id \in SessionId, AddGMSession(s, id) \/ AddPendingSession(s, id)
      PROVE  CountInv'
  <2>1. /\ sessions[id] = None /\ sessions' = [sessions EXCEPT ![id] = s]
        /\ queued' = queued /\ ses' = [ses EXCEPT ![s] = Accepted(ses[s], id)]
    BY <1>7 DEF AddGMSession, AddPendingSession
  <2>2. ses'[s].gm = ses[s].gm /\ ses[s].gm \in BOOLEAN
    BY <2>1 DEF Accepted, WithTimeout, TypeOK, SessionRecord
  <2>3. \A u \in Session \ {s} : ses'[u] = ses[u]
    BY <2>1 DEF TypeOK
  <2>4. \A u \in Active : ses'[u].gm = ses[u].gm
    BY <1>2, <1>3, <2>3
  <2>5. \/ /\ ses'[s].gm = FALSE /\ playerCount < PlayerLimit
           /\ playerCount' = playerCount + 1 /\ gmCount' = gmCount
        \/ /\ ses'[s].gm = TRUE
           /\ gmCount' = gmCount + 1 /\ playerCount' = playerCount
    BY <1>7, <2>2 DEF AddGMSession, AddPendingSession
  <2>6. CountsMatch'
    BY <1>2, <2>1, <2>4, <2>5, CountAdd DEF CountInv
  <2>7. QueuedPlain'
    BY <1>2, <1>3, <2>1, <2>3, PlainKept DEF CountInv
  <2>8. RoomOrder'
    <3>1. queued = <<>> \/ playerCount >= PlayerLimit
      BY <1>4 DEF CountInv, RoomOrder
    <3>2. playerCount' >= PlayerLimit \/ queued' = <<>>
      BY <2>1, <2>5, <3>1, LimitAssumption DEF TypeOK
    <3> QED
      BY <1>4, <3>2 DEF RoomOrder
  <2> QED
    BY <2>6, <2>7, <2>8 DEF CountInv
<1> QED
  BY <1>5, <1>6, <1>7

\* A session leaves the server, or its place in the waiting list for one in the game.
LEMMA CountSession ==
  ASSUME TypeOK, HomeInv, CountInv, NEW s \in Session,
         UpdateEndDropped(s) \/ \E id \in SessionId : UpdateEndAdmitted(s, id)
  PROVE  CountInv'
<1>0. s # None /\ s = cur
  BY SetAssumption DEF UpdateEndDropped, UpdateEndAdmitted
<1>1. /\ Distinct(sessions) /\ Active \cap Elements(queued) = {} /\ Injective(queued)
      /\ Active \subseteq Session /\ Elements(queued) \subseteq Session
      /\ queued \in Seq(Session)
  BY ActiveEntries DEF HomeInv, OneHome, TypeOK, Active, Elements
<1>2. phase = "queued" => pos \in 1..Len(queued) /\ queued[pos] = s
  BY <1>0 DEF HomeInv, CurAtHome
<1>3. /\ phase = "queued" => s \in Elements(queued)
      /\ phase = "queued" => Elements(Erase(queued, pos)) = Elements(queued) \ {s}
  BY <1>1, <1>2, EraseElements DEF Elements
<1>4. UNCHANGED <<phase, pos>>
  BY DEF UpdateEndDropped, UpdateEndAdmitted
<1>5. CASE UpdateEndDropped(s)
  <2>1. \A u \in Session \ {s} : ses'[u] = ses[u]
    BY <1>5 DEF UpdateEndDropped, DropSession, TypeOK
  <2>2. CASE phase = "sessions"
    <3>1. ses[s].sid \in SessionId /\ sessions[ses[s].sid] = s
      BY <1>0, <2>2 DEF HomeInv, CurAtHome
    <3>2. /\ sessions' = [sessions EXCEPT ![ses[s].sid] = None] /\ queued' = queued
          /\ gmCount' = IF ses[s].gm THEN gmCount - 1 ELSE gmCount
          /\ playerCount' = IF ses[s].gm THEN playerCount ELSE playerCount - 1
      BY <1>5, <2>2 DEF UpdateEndDropped
    <3>3. \A u \in Active \ {s} : ses'[u].gm = ses[u].gm
      BY <1>1, <2>1
    <3>4. CountsMatch'
      BY <1>1, <3>1, <3>2, <3>3, CountRemove DEF CountInv
    <3>5. s \notin Elements(queued)
      BY <1>0, <1>1, <3>1 DEF Active
    <3>6. QueuedPlain'
      BY <1>1, <2>1, <3>2, <3>5, PlainKept DEF CountInv
    <3> QED
      BY <1>4, <2>2, <3>4, <3>6 DEF CountInv, RoomOrder
  <2>3. CASE phase \in {"queued", "expired"}
    <3>1. UNCHANGED <<sessions, playerCount, gmCount>>
      BY <1>5, <2>3 DEF UpdateEndDropped
    <3>2. s \notin Active
      BY <1>0, <1>1, <1>3, <2>3 DEF HomeInv, CurAtHome, OneHome
    <3>3. CountsMatch'
      BY <1>1, <2>1, <3>1, <3>2, CountSame DEF CountInv
    <3>4. Elements(queued') \subseteq Elements(queued) \ {s}
      <4>1. CASE phase = "queued"
        BY <1>3, <1>5, <4>1 DEF UpdateEndDropped
      <4>2. CASE phase = "expired"
        BY <1>0, <1>5, <4>2 DEF UpdateEndDropped, HomeInv, CurAtHome, OneHome
      <4> QED
        BY <2>3, <4>1, <4>2
    <3>5. QueuedPlain'
      BY <1>1, <2>1, <3>4, PlainKept DEF CountInv
    <3>6. phase = "expired" => queued' = queued
      BY <1>5 DEF UpdateEndDropped
    <3> QED
      BY <1>4, <2>3, <3>1, <3>3, <3>5, <3>6 DEF CountInv, RoomOrder
  <2> QED
    BY <1>5, <2>2, <2>3 DEF UpdateEndDropped
<1>6. ASSUME NEW id \in SessionId, UpdateEndAdmitted(s, id) PROVE CountInv'
  <2>1. /\ sessions[id] = None /\ sessions' = [sessions EXCEPT ![id] = s] /\ phase = "queued"
        /\ queued' = Erase(queued, pos) /\ ses' = [ses EXCEPT ![s] = Accepted(ses[s], id)]
        /\ playerCount < PlayerLimit /\ playerCount' = playerCount + 1 /\ gmCount' = gmCount
    BY <1>6 DEF UpdateEndAdmitted
  <2>2. ses'[s].gm = ses[s].gm /\ ses[s].gm \in BOOLEAN
    BY <2>1 DEF Accepted, WithTimeout, TypeOK, SessionRecord
  <2>3. ses[s].gm = FALSE
    BY <1>3, <2>1, <2>2 DEF CountInv, QueuedPlain
  <2>4. \A u \in Session \ {s} : ses'[u] = ses[u]
    BY <2>1 DEF TypeOK
  <2>5. s \notin Active
    BY <1>1, <1>3, <2>1
  <2>6. \A u \in Active : ses'[u].gm = ses[u].gm
    BY <1>1, <2>4, <2>5
  <2>7. CountsMatch'
    BY <2>1, <2>2, <2>3, <2>5, <2>6, CountAdd DEF CountInv
  <2>8. QueuedPlain'
    BY <1>1, <1>3, <2>1, <2>4, PlainKept DEF CountInv
  <2>9. RoomOrder'
    BY <1>4, <2>1, LimitAssumption DEF CountInv, RoomOrder, TypeOK
  <2> QED
    BY <2>7, <2>8, <2>9 DEF CountInv
<1> QED
  BY <1>5, <1>6

\* Every step keeps the counts and the order of admission.
LEMMA CountNext ==
  ASSUME TypeOK, HomeInv, CountInv, [Next]_vars
  PROVE  CountInv'
BY NextCases, CountQuiet, CountNetwork, CountWorld, CountPending, CountSession

\* The counters the manager keeps beside m_sessions are the numbers of players and of
\* game masters in it in every state, also after a session was restored by another one,
\* and the player limit of the configuration is never exceeded.
THEOREM CountsCorrect == Spec => []CountsMatch
<1>1. Init => TypeOK /\ HomeInv /\ CountInv
  BY TypeInit, HomeInit, CountInit
<1>2. TypeOK /\ HomeInv /\ CountInv /\ [Next]_vars => (TypeOK /\ HomeInv /\ CountInv)'
  BY TypeNext, HomeNext, CountNext
<1>3. CountInv => CountsMatch
  BY DEF CountInv
<1> QED
  BY <1>1, <1>2, <1>3, PTL DEF Spec

\* Nobody is overtaken on the way into the game: a newcomer gets a place only while the
\* waiting list is empty, and of those who wait only the first one does.
THEOREM FirstComeCorrect == Spec => FirstComeFirstServed
<1> DEFINE Served ==
      \A s \in alive :
        s \notin Active /\ s \in Active' /\ ses[s].sid = None /\ ~ses[s].gm =>
            \/ s \in Elements(pending) /\ queued = <<>>
            \/ queued # <<>> /\ s = Head(queued)
<1>1. ASSUME TypeOK, HomeInv, CountInv, [Next]_vars PROVE Served
  <2> SUFFICES ASSUME NEW u \in alive, u \notin Active, u \in Active', ses[u].sid = None, ~ses[u].gm
               PROVE  \/ u \in Elements(pending) /\ queued = <<>>
                      \/ queued # <<>> /\ u = Head(queued)
    OBVIOUS
  \* Only the steps that write an entry of m_sessions matter.
  <2>1. CASE sessions' = sessions
    BY <2>1 DEF Active
  <2>2. ASSUME NEW s \in Session, NEW id \in SessionId, sessions' = [sessions EXCEPT ![id] = s]
        PROVE  u = s
    BY <2>2, <1>1 DEF Active, TypeOK
  <2>3. ASSUME NEW s \in Session, RestoreSession(s) PROVE FALSE
    <3>1. ses[s].sid \in SessionId /\ sessions' = [sessions EXCEPT ![ses[s].sid] = s]
      BY <1>1, <2>3 DEF RestoreSession, TypeOK, SessionRecord
    <3> QED
      BY <2>2, <3>1, SetAssumption
  <2>4. ASSUME NEW s \in Session, NEW id \in SessionId, AddGMSession(s, id) PROVE FALSE
    <3>1. sessions' = [sessions EXCEPT ![id] = s] /\ ses[s].gm
      BY <2>4 DEF AddGMSession
    <3> QED
      BY <2>2, <3>1
  <2>5. ASSUME NEW s \in Session, NEW id \in SessionId, AddPendingSession(s, id)
        PROVE  u \in Elements(pending) /\ queued = <<>>
    <3>1. /\ sessions' = [sessions EXCEPT ![id] = s] /\ playerCount < PlayerLimit
          /\ phase = "pending" /\ pending # <<>> /\ s = Head(pending)
      BY <2>5 DEF AddPendingSession, AtPending
    <3>2. u = s
      BY <2>2, <3>1
    <3>3. s \in Elements(pending)
      BY <1>1, <3>1, TailElements DEF TypeOK, HomeInv, OneHome
    <3>4. queued = <<>>
      BY <1>1, <3>1, LimitAssumption DEF CountInv, RoomOrder, TypeOK
    <3> QED
      BY <3>2, <3>3, <3>4
  <2>6. ASSUME NEW s \in Session, NEW id \in SessionId, UpdateEndAdmitted(s, id)
        PROVE  queued # <<>> /\ u = Head(queued)
    <3>1. /\ sessions' = [sessions EXCEPT ![id] = s] /\ playerCount < PlayerLimit
          /\ phase = "queued" /\ s = cur
      BY <2>6 DEF UpdateEndAdmitted
    <3>2. u = s
      BY <2>2, <3>1
    <3>3. pos \in 1..Len(queued) /\ queued[pos] = s
      BY <1>1, <3>1, SetAssumption DEF HomeInv, CurAtHome
    <3>4. pos = 1
      BY <1>1, <3>1, <3>3, LimitAssumption DEF CountInv, RoomOrder, TypeOK
    <3>5. queued # <<>> /\ Head(queued) = queued[1]
      BY <1>1, <3>3, EmptySeq, HeadTailProperties DEF TypeOK
    <3> QED
      BY <3>2, <3>3, <3>4, <3>5
  <2>7. ASSUME NEW s \in Session, UpdateEndDropped(s) PROVE FALSE
    <3>1. \A i \in SessionId : sessions'[i] # None => sessions'[i] = sessions[i]
      BY <1>1, <2>7 DEF UpdateEndDropped, TypeOK
    <3> QED
      BY <3>1 DEF Active
  <2>8. \/ sessions' = sessions
        \/ \E s \in Session :
             \/ RestoreSession(s) \/ UpdateEndDropped(s)
             \/ \E id \in SessionId :
                  AddGMSession(s, id) \/ AddPendingSession(s, id) \/ UpdateEndAdmitted(s, id)
    <3>1. Quiet => sessions' = sessions
      BY <1>1, QuietFrame
    <3>2. Destructor => sessions' = sessions
      BY DEF Destructor
    <3>3. \A P \in SUBSET Theater : UpdateTheaters(P) \/ PurgeTheaters(P) => sessions' = sessions
      BY DEF UpdateTheaters, PurgeTheaters
    <3>4. ASSUME NEW s \in Session,
                 \/ \E id \in SessionId \cup {None}, kind \in ClientKind : AuthProof(s, id, kind)
                 \/ AddExpiredPlayer(s) \/ AddQueuedPlayer(s)
                 \/ \E t \in Theater : HandlePlayerLogin(s, t)
                 \/ HandleJoinTheater(s) \/ HandlePlayerLogout(s)
          PROVE  sessions' = sessions
      BY <3>4 DEF AuthProof, AddExpiredPlayer, AddQueuedPlayer, HandlePlayerLogin, HandleJoinTheater,
           HandlePlayerLogout
    <3> QED
      BY <1>1, <3>1, <3>2, <3>3, <3>4, NextCases
  <2> QED
    BY <2>1, <2>3, <2>4, <2>5, <2>6, <2>7, <2>8
<1>2. TypeOK /\ HomeInv /\ CountInv /\ [Next]_vars => [Served]_vars
  BY <1>1
<1>3. Init => TypeOK /\ HomeInv /\ CountInv
  BY TypeInit, HomeInit, CountInit
<1>4. TypeOK /\ HomeInv /\ CountInv /\ [Next]_vars => (TypeOK /\ HomeInv /\ CountInv)'
  BY TypeNext, HomeNext, CountNext
<1>5. [][Served]_vars => FirstComeFirstServed
  BY PTL DEF FirstComeFirstServed
<1> QED
  BY <1>2, <1>3, <1>4, <1>5, PTL DEF Spec

-----------------------------------------------------------------------------
(***************************************************************************)
(* Sessions, theaters and players agree.                                    *)
(***************************************************************************)

\* The sessions that have a player.
Owner == {s \in alive : ses[s].player # None}

\* An authenticated session is listed under its id.
AuthedActive ==
    \A s \in alive : ses[s].authed => ses[s].sid \in SessionId /\ sessions[ses[s].sid] = s

Listed ==
    \A s \in Owner :
        /\ ses[s].authed /\ ses[s].sid \in SessionId /\ sessions[ses[s].sid] = s
        /\ ses[s].theater \in theaters
        /\ th[ses[s].theater].members[ses[s].sid] = s

MemberIds(m) == {i \in SessionId : m[i] # None}

Members ==
    \A t \in theaters : \A i \in SessionId :
        th[t].members[i] # None =>
            /\ th[t].members[i] \in Owner
            /\ ses[th[t].members[i]].theater = t /\ ses[th[t].members[i]].sid = i

\* A theater about to be deleted has nobody in it, a deleted one leaves nothing behind.
Counted ==
    /\ \A t \in theaters : th[t].online = Cardinality(MemberIds(th[t].members))
    /\ \A t \in theaters : th[t].deleting => th[t].online <= 0
    /\ \A t \in Theater \ theaters : th[t] = NewTheater

\* A player is named after the session that created it: that session or, once it was
\* replaced, a deleted one.
Names ==
    \A s \in Owner :
        /\ ses[s].player \notin unused
        /\ ses[s].player = s \/ ses[s].player \notin alive

OnlyOwner ==
    /\ \A s, u \in Owner : ses[s].player = ses[u].player => s = u
    /\ \A s \in Owner : pSession[ses[s].player] \in {s, None}

Owned ==
    /\ \A p \in inWorld : \E s \in Owner : ses[s].player = p
    /\ \A t \in theaters : \A p \in th[t].queue :
         \E s \in Owner : ses[s].player = p /\ ses[s].theater = t

WorldCore == Listed /\ Members /\ Counted /\ Names /\ OnlyOwner /\ Owned

\* The last update() leaves no session in the game: all were kicked before it, and each
\* is dropped when the loop reaches it.
LastUpdate ==
    isStopped =>
        /\ phase \notin {"idle", "pending"}
        /\ \A s \in Active \cup Elements(queued) : ~open[s] /\ ses[s].kicked
        /\ phase = "sessions" => Active \subseteq visit \cup {cur}
        /\ phase # "sessions" => Active = {}

WorldInv == AuthedActive /\ WorldCore /\ LastUpdate

\* The invariant contains both properties.
LEMMA WorldImplies ==
  ASSUME TypeOK, WorldInv
  PROVE  MembersAgree /\ PlayerOwned
<1>1. /\ Listed /\ Members /\ Counted /\ OnlyOwner /\ Owned
      /\ \A s \in alive : s \in Owner <=> ses[s].player # None
      /\ Owner \subseteq alive
  BY DEF WorldInv, WorldCore, Owner
<1>2. MembersAgree
  <2>1. ASSUME NEW s \in alive, ses[s].player # None
        PROVE  /\ ses[s].authed /\ ses[s].sid # None /\ sessions[ses[s].sid] = s
               /\ ses[s].theater \in theaters
               /\ th[ses[s].theater].members[ses[s].sid] = s
    BY <1>1, <2>1, SetAssumption DEF Listed
  <2>2. ASSUME NEW t \in theaters, NEW i \in SessionId, th[t].members[i] # None
        PROVE  LET s == th[t].members[i] IN
               s \in alive /\ ses[s].player # None /\ ses[s].theater = t /\ ses[s].sid = i
    <3>1. /\ th[t].members[i] \in Owner
          /\ ses[th[t].members[i]].theater = t /\ ses[th[t].members[i]].sid = i
      BY <1>1, <2>2 DEF Members
    <3> QED
      BY <3>1 DEF Owner
  <2>3. ASSUME NEW t \in theaters
        PROVE  th[t].online = Cardinality({i \in SessionId : th[t].members[i] # None})
    BY <1>1 DEF Counted, MemberIds
  <2> QED
    BY <2>1, <2>2, <2>3 DEF MembersAgree
<1>3. PlayerOwned
  <2>1. ASSUME NEW s \in alive, ses[s].player # None
        PROVE  Owners(ses[s].player) = {s} /\ pSession[ses[s].player] \in {s, None}
    <3>1. s \in Owner
      BY <1>1, <2>1
    <3>2. ASSUME NEW u \in Owners(ses[s].player) PROVE u = s
      <4>1. u \in Owner /\ ses[u].player = ses[s].player
        BY <1>1, <2>1 DEF Owners
      <4> QED
        BY <1>1, <3>1, <4>1 DEF OnlyOwner
    <3>3. s \in Owners(ses[s].player)
      BY DEF Owners
    <3> QED
      BY <1>1, <3>1, <3>2, <3>3 DEF OnlyOwner
  <2>2. ASSUME NEW p \in Known PROVE Owners(p) # {}
    <3>1. PICK s \in Owner : ses[s].player = p
      BY <1>1 DEF Known, Owned
    <3>2. s \in Owners(p)
      BY <1>1, <3>1 DEF Owners
    <3> QED
      BY <3>2
  <2> QED
    BY <2>1, <2>2 DEF PlayerOwned
<1> QED
  BY <1>2, <1>3

\* There are neither theaters nor players at the start.
LEMMA WorldInit ==
  ASSUME Init
  PROVE  WorldInv
<1>1. Owner = {} /\ alive = {} /\ theaters = {} /\ inWorld = {} /\ ~isStopped
  BY DEF Init, Owner
<1>2. \A t \in Theater : th[t] = NewTheater
  BY DEF Init
<1> QED
  BY <1>1, <1>2 DEF WorldInv, AuthedActive, WorldCore, Listed, Members, Counted, Names, OnlyOwner,
       Owned, LastUpdate

\* Steps that leave the theaters and the sessions with a player alone.
LEMMA CoreKept ==
  ASSUME TypeOK, WorldCore, UNCHANGED worldVars, Owner' = Owner,
         \A u \in Owner : SameSession(u) /\ sessions'[ses[u].sid] = sessions[ses[u].sid],
         unused' \subseteq unused, alive' \subseteq alive \cup unused
  PROVE  WorldCore'
<1>1. \A u \in Owner : /\ ses'[u].sid = ses[u].sid /\ ses'[u].authed = ses[u].authed
                       /\ ses'[u].player = ses[u].player /\ ses'[u].theater = ses[u].theater
  BY DEF SameSession
<1>2. Listed'
  BY <1>1 DEF WorldCore, Listed
<1>3. Members'
  BY <1>1 DEF WorldCore, Members
<1>4. Counted'
  BY DEF WorldCore, Counted, MemberIds
<1>5. Names'
  BY <1>1 DEF WorldCore, Names
<1>6. OnlyOwner'
  BY <1>1 DEF WorldCore, OnlyOwner
<1>7. Owned'
  BY <1>1 DEF WorldCore, Owned
<1> QED
  BY <1>2, <1>3, <1>4, <1>5, <1>6, <1>7 DEF WorldCore

\* Only sessions in m_sessions have a player.
LEMMA OwnerActive ==
  ASSUME TypeOK, Listed
  PROVE  Owner \subseteq Active /\ Owner \subseteq Session /\ Owner \subseteq alive
<1>1. Owner \subseteq Session /\ Owner \subseteq alive
  BY DEF Owner, TypeOK
<1>2. ASSUME NEW s \in Owner PROVE s \in Active
  BY <1>1, SetAssumption DEF Listed, Active
<1> QED
  BY <1>1, <1>2

\* A step that moves no session keeps what is known of the last update.
LEMMA LastQuiet ==
  ASSUME TypeOK, HomeInv, LastUpdate, Quiet
  PROVE  LastUpdate'
<1> SUFFICES ASSUME isStopped' PROVE LastUpdate'
  BY DEF LastUpdate
<1>1. UNCHANGED <<sessions, queued>> /\ Active' = Active /\ Elements(queued)' = Elements(queued)
  BY QuietFrame DEF Active, Elements
<1>2. Active \subseteq Session /\ Elements(queued) \subseteq Session
  BY DEF TypeOK, Active, Elements
<1> DEFINE all == Active \cup Elements(queued)
           Out == \A s \in all : ~open[s] /\ ses[s].kicked
           Out2 == \A s \in all : ~open'[s] /\ ses'[s].kicked
<1>3. isStopped => Out /\ phase \notin {"idle", "pending"}
  BY DEF LastUpdate
<1>4. Out2 => \A s \in Active' \cup Elements(queued)' : ~open'[s] /\ ses'[s].kicked
  BY <1>1
<1>5. CASE BeginLastUpdate
  <2>1. Out2
    <3> SUFFICES ASSUME NEW s \in all PROVE ~open'[s] /\ ses'[s].kicked
      OBVIOUS
    <3>1. s \in Session
      BY <1>2
    <3> QED
      BY <1>5, <3>1 DEF BeginLastUpdate, KickAll, TypeOK, SessionRecord
  <2>2. phase' = "sessions" /\ visit' = Active
    BY <1>5 DEF BeginLastUpdate
  <2> HIDE DEF all, Out, Out2
  <2> QED
    BY <1>1, <1>4, <2>1, <2>2 DEF LastUpdate
<1>6. CASE ~BeginLastUpdate
  <2>1. isStopped
    BY <1>6 DEF Quiet, Stop, Ping, Disconnect, BeginUpdate, PendingDone, SessionsDone, QueuedDone,
         ExpiredDone, StopNetwork, UpdateBegin, UpdateEndKept, HandleOffence
  <2>2. ~BeginUpdate /\ ~PendingDone
    BY <1>3, <2>1 DEF BeginUpdate, PendingDone
  <2>3. Out
    BY <1>3, <2>1
  <2>4. Out2
    <3> SUFFICES ASSUME NEW u \in all PROVE ~open'[u] /\ ses'[u].kicked
      OBVIOUS
    <3>0. u \in Session /\ ~open[u] /\ ses[u].kicked
      BY <1>2, <2>3
    <3>1. CASE UNCHANGED <<ses, open>>
      BY <3>0, <3>1
    <3>2. ASSUME NEW s \in Session, Ping(s) PROVE ~open'[u] /\ ses'[u].kicked
      BY <3>0, <3>2 DEF Ping, TypeOK, SessionRecord
    <3>3. ASSUME NEW s \in Session, Disconnect(s) PROVE ~open'[u] /\ ses'[u].kicked
      BY <3>0, <3>3 DEF Disconnect, TypeOK
    <3>4. ASSUME NEW s \in Session, UpdateBegin(s) PROVE ~open'[u] /\ ses'[u].kicked
      BY <3>0, <3>4 DEF UpdateBegin, TypeOK, SessionRecord
    <3>5. ASSUME NEW s \in Session, HandleOffence(s) PROVE ~open'[u] /\ ses'[u].kicked
      BY <3>0, <3>5 DEF HandleOffence, TypeOK, SessionRecord
    <3>6. \/ UNCHANGED <<ses, open>>
          \/ \E s \in Session : Ping(s) \/ Disconnect(s) \/ UpdateBegin(s) \/ HandleOffence(s)
      BY <1>6 DEF Quiet, Stop, BeginUpdate, PendingDone, SessionsDone, QueuedDone, ExpiredDone,
           StopNetwork, UpdateEndKept
    <3> QED
      BY <3>1, <3>2, <3>3, <3>4, <3>5, <3>6
  <2> HIDE DEF Out, Out2
  <2>5. CASE UNCHANGED <<phase, visit, cur>>
    BY <1>1, <1>4, <2>1, <2>4, <2>5 DEF LastUpdate
  <2>6. CASE SessionsDone
    <3>1. phase' = "queued" /\ Active \subseteq {None}
      BY <2>1, <2>6 DEF SessionsDone, LastUpdate
    <3>2. Active = {}
      BY <3>1 DEF Active
    <3> QED
      BY <1>1, <1>4, <2>4, <3>1, <3>2 DEF LastUpdate
  <2>7. CASE QueuedDone \/ ExpiredDone \/ StopNetwork
    <3>1. phase' \notin {"idle", "pending", "sessions"} /\ phase # "sessions"
      BY <2>7 DEF QueuedDone, ExpiredDone, StopNetwork
    <3> QED
      BY <1>1, <1>4, <2>1, <2>4, <3>1 DEF LastUpdate
  <2>8. ASSUME NEW s \in Session, UpdateBegin(s) PROVE LastUpdate'
    <3>1. phase' = phase /\ visit' = visit \ {s} /\ cur = None /\ cur' = s
      BY <2>8 DEF UpdateBegin, Reached
    <3>2. None \notin Active
      BY DEF Active
    <3> QED
      BY <1>1, <1>4, <2>1, <2>4, <3>1, <3>2 DEF LastUpdate
  <2>9. ASSUME NEW s \in Session, UpdateEndKept(s) PROVE LastUpdate'
    <3>1. s = cur /\ s # None /\ ~Gone(s) /\ phase' = phase /\ phase \in {"sessions", "queued", "expired"}
      BY <2>9, SetAssumption DEF UpdateEndKept
    <3>2. CASE phase = "expired"
      BY <1>1, <1>4, <2>1, <2>4, <3>1, <3>2 DEF LastUpdate
    <3>3. CASE phase # "expired"
      <4>1. s \in all
        BY <3>1, <3>3 DEF HomeInv, CurAtHome, Active, Elements
      <4>2. Gone(s)
        BY <2>3, <4>1 DEF Gone, Out
      <4> QED
        BY <3>1, <4>2
    <3> QED
      BY <3>2, <3>3
  <2> QED
    BY <1>6, <2>2, <2>5, <2>6, <2>7, <2>8, <2>9 DEF Quiet, Stop, Ping, Disconnect, HandleOffence
<1> QED
  BY <1>5, <1>6

\* Every step keeps what is known of the last update.
LEMMA LastNext ==
  ASSUME TypeOK, HomeInv, LastUpdate, [Next]_vars
  PROVE  LastUpdate'
<1>0. CASE Quiet
  BY <1>0, LastQuiet
<1> SUFFICES ASSUME ~Quiet, isStopped' PROVE LastUpdate'
  BY <1>0 DEF LastUpdate
<1>1. isStopped
  BY NextCases, ZenonT(40) DEF AuthProof, RestoreSession, AddExpiredPlayer, AddQueuedPlayer, AddGMSession,
       AddPendingSession, UpdateEndDropped, UpdateEndAdmitted, HandlePlayerLogin,
       HandleJoinTheater, HandlePlayerLogout, Destructor, UpdateTheaters, PurgeTheaters
<1>2. phase \notin {"idle", "pending"}
  BY <1>1 DEF LastUpdate
<1>3. \A s \in Active \cup Elements(queued) : s \in Session /\ ~open[s] /\ ses[s].kicked
  BY <1>1 DEF LastUpdate, TypeOK, Active, Elements
\* Steps that take nobody into the containers of the game.
<1>4. ASSUME Active' \subseteq Active, Elements(queued') \subseteq Elements(queued),
             \A u \in Active' \cup Elements(queued') : ~open'[u] /\ ses'[u].kicked,
             \/ UNCHANGED <<phase, visit, cur>>
             \/ phase # "sessions" /\ phase' \notin {"idle", "pending", "sessions"}
      PROVE  LastUpdate'
  <2>1. \A u \in Active' \cup Elements(queued)' : ~open'[u] /\ ses'[u].kicked
    BY <1>4 DEF Elements
  <2> QED
    BY <1>1, <1>4, <2>1 DEF LastUpdate
<1>5. ASSUME NEW s \in Session, NEW id \in SessionId \cup {None}, NEW kind \in ClientKind,
             AuthProof(s, id, kind)
      PROVE  LastUpdate'
  <2>1. UNCHANGED <<sessions, queued, phase, visit, cur>> /\ Active' = Active
    BY <1>5 DEF AuthProof, Active
  <2>2. s \notin Active \cup Elements(queued)
    BY <1>5 DEF AuthProof, HomeInv, OneHome, Fresh
  <2>3. \A u \in Session \ {s} : ses'[u] = ses[u] /\ open'[u] = open[u]
    BY <1>5 DEF AuthProof, TypeOK
  <2> QED
    BY <1>3, <1>4, <2>1, <2>2, <2>3
<1>6. CASE Destructor
  <2>1. UNCHANGED <<sessions, queued>> /\ Active' = Active /\ phase = "offline" /\ phase' \in {"destroyed", "aborted"}
    BY <1>6 DEF Destructor, Active
  <2>2. \A u \in Session : u \notin Elements(pending) => ses'[u] = ses[u] /\ open'[u] = open[u]
    BY <1>6 DEF Destructor, TypeOK
  <2>3. \A u \in Active \cup Elements(queued) : u \notin Elements(pending)
    BY DEF HomeInv, OneHome
  <2> QED
    BY <1>3, <1>4, <2>1, <2>2, <2>3
<1>7. ASSUME NEW P \in SUBSET Theater, UpdateTheaters(P) \/ PurgeTheaters(P) PROVE LastUpdate'
  <2>1. UNCHANGED <<sessions, queued, ses, open>> /\ Active' = Active
    BY <1>7 DEF UpdateTheaters, PurgeTheaters, Active
  <2>2. phase # "sessions" /\ phase' \notin {"idle", "pending", "sessions"}
    BY <1>1, <1>7 DEF UpdateTheaters, PurgeTheaters
  <2> QED
    BY <1>3, <1>4, <2>1, <2>2
<1>8. ASSUME NEW s \in Session,
             \/ \E t \in Theater : HandlePlayerLogin(s, t)
             \/ HandleJoinTheater(s) \/ HandlePlayerLogout(s)
      PROVE  LastUpdate'
  <2>1. UNCHANGED <<sessions, queued, open, phase, visit, cur>> /\ Active' = Active
    BY <1>8 DEF HandlePlayerLogin, HandleJoinTheater, HandlePlayerLogout, Active
  <2>2. ASSUME NEW u \in Session PROVE ses'[u].kicked = ses[u].kicked
    <3>0. ses \in [Session -> SessionRecord] /\ ses[u] \in SessionRecord
      BY DEF TypeOK
    <3>1. ASSUME NEW t \in Theater, HandlePlayerLogin(s, t) PROVE ses'[u].kicked = ses[u].kicked
      BY <3>0, <3>1 DEF HandlePlayerLogin, SessionRecord
    <3>2. CASE HandleJoinTheater(s)
      BY <3>2 DEF HandleJoinTheater
    <3>3. CASE HandlePlayerLogout(s)
      BY <3>0, <3>3 DEF HandlePlayerLogout, SessionRecord
    <3> QED
      BY <1>8, <3>1, <3>2, <3>3
  <2> QED
    BY <1>3, <1>4, <2>1, <2>2
<1>9. ASSUME NEW s \in Session, UpdateEndDropped(s) PROVE LastUpdate'
  <2>0. s = cur /\ s # None /\ cur' = None /\ UNCHANGED <<phase, visit, pos, open>>
    BY <1>9, SetAssumption DEF UpdateEndDropped
  <2>1. \A u \in Session \ {s} : ses'[u] = ses[u]
    BY <1>9 DEF UpdateEndDropped, DropSession, TypeOK
  <2>2. CASE phase = "sessions"
    <3>1. ses[s].sid \in SessionId /\ sessions[ses[s].sid] = s /\ queued' = queued
      BY <1>9, <2>0, <2>2 DEF HomeInv, CurAtHome, UpdateEndDropped
    <3>2. sessions' = [sessions EXCEPT ![ses[s].sid] = None]
      BY <1>9, <2>2 DEF UpdateEndDropped
    <3>3. Active' = Active \ {s}
      <4>1. Active = Entries(sessions) /\ Distinct(sessions) /\ Active' = Entries(sessions')
        BY ActiveEntries DEF HomeInv, Active, Entries
      <4> QED
        BY <3>1, <3>2, <4>1, EraseEntry DEF TypeOK
    <3>4. s \notin Elements(queued)
      BY <2>0, <3>1 DEF HomeInv, OneHome, Active
    <3>5. \A u \in Active' \cup Elements(queued') : ~open'[u] /\ ses'[u].kicked
      BY <1>3, <2>0, <2>1, <3>1, <3>3, <3>4
    <3>6. \A u \in Active' \cup Elements(queued)' : ~open'[u] /\ ses'[u].kicked
      BY <3>5 DEF Elements
    <3> QED
      BY <1>1, <2>0, <2>2, <3>3, <3>6 DEF LastUpdate
  <2>3. CASE phase \in {"queued", "expired"}
    <3>1. sessions' = sessions /\ Active' = Active /\ Active = {}
      BY <1>1, <1>9, <2>3 DEF UpdateEndDropped, Active, LastUpdate
    <3>2. Elements(queued') \subseteq Elements(queued) \ {s}
      <4>1. CASE phase = "queued"
        <5>1. pos \in 1..Len(queued) /\ queued[pos] = s /\ queued' = Erase(queued, pos)
          BY <1>9, <2>0, <4>1 DEF HomeInv, CurAtHome, UpdateEndDropped
        <5> QED
          BY <5>1, EraseElements DEF TypeOK, HomeInv, OneHome
      <4>2. CASE phase = "expired"
        BY <1>9, <2>0, <4>2 DEF UpdateEndDropped, HomeInv, CurAtHome, OneHome
      <4> QED
        BY <2>3, <4>1, <4>2
    <3>3. \A u \in Active' \cup Elements(queued)' : ~open'[u] /\ ses'[u].kicked
      <4>1. \A u \in Active' \cup Elements(queued') : ~open'[u] /\ ses'[u].kicked
        BY <1>3, <2>0, <2>1, <3>1, <3>2
      <4> QED
        BY <4>1 DEF Elements
    <3> QED
      BY <2>0, <2>3, <3>1, <3>3 DEF LastUpdate
  <2> QED
    BY <1>9, <2>2, <2>3 DEF UpdateEndDropped
<1>10. ASSUME NEW s \in Session, NEW id \in SessionId, UpdateEndAdmitted(s, id) PROVE LastUpdate'
  <2>1. s = cur /\ s # None /\ phase = "queued" /\ ~Gone(s)
    BY <1>10, SetAssumption DEF UpdateEndAdmitted
  <2>2. s \in Elements(queued)
    BY <2>1 DEF HomeInv, CurAtHome, Elements
  <2> QED
    BY <1>3, <2>1, <2>2 DEF Gone
<1>11. ASSUME NEW s \in Session, AtPending(s) PROVE LastUpdate'
  BY <1>2, <1>11 DEF AtPending
<1> QED
  BY <1>5, <1>6, <1>7, <1>8, <1>9, <1>10, <1>11, NextCases DEF RestoreSession, AddExpiredPlayer,
       AddQueuedPlayer, AddGMSession, AddPendingSession

\* Queueing or expiring a session leaves the sessions themselves alone.
LEMMA TimeoutFrame ==
  ASSUME TypeOK, NEW s \in Session, AddExpiredPlayer(s) \/ AddQueuedPlayer(s)
  PROVE  \A u \in Session : SameSession(u)
<1>1. PICK time : ses' = [ses EXCEPT ![s] = WithTimeout(ses[s], time)]
  BY DEF AddExpiredPlayer, AddQueuedPlayer
<1>2. ses \in [Session -> SessionRecord] /\ ses[s] \in SessionRecord
  BY DEF TypeOK
<1>3. LET r == WithTimeout(ses[s], time) IN
        /\ r.sid = ses[s].sid /\ r.gm = ses[s].gm /\ r.authed = ses[s].authed
        /\ r.player = ses[s].player /\ r.theater = ses[s].theater
  BY <1>2 DEF WithTimeout, SessionRecord
<1>4. ses'[s] = WithTimeout(ses[s], time) /\ \A u \in Session \ {s} : ses'[u] = ses[u]
  BY <1>1, <1>2
<1> QED
  BY <1>3, <1>4 DEF SameSession

\* Every step keeps authenticated sessions active.
LEMMA AuthNext ==
  ASSUME TypeOK, HomeInv, AuthedActive, [Next]_vars
  PROVE  AuthedActive'
<1>0. alive \subseteq Session /\ Distinct(sessions)
  BY ActiveEntries DEF TypeOK, HomeInv
\* Steps that take nobody into m_sessions or out of it.
<1>1. ASSUME sessions' = sessions,
             \A u \in alive' : ses'[u].authed => u \in alive /\ ses[u].authed /\ ses'[u].sid = ses[u].sid
      PROVE  AuthedActive'
  BY <1>1 DEF AuthedActive
\* Steps that give s the entry of an id nobody alive has.
<1>2. ASSUME NEW s \in Session, NEW id \in SessionId, sessions' = [sessions EXCEPT ![id] = s],
             alive' = alive \ {sessions[id]}, ses'[s].sid = id,
             \A u \in alive' \ {s} : ses'[u] = ses[u]
      PROVE  AuthedActive'
  <2> SUFFICES ASSUME NEW u \in alive', ses'[u].authed
               PROVE  ses'[u].sid \in SessionId /\ sessions'[ses'[u].sid] = u
    BY DEF AuthedActive
  <2>1. CASE u = s
    BY <1>2, <2>1 DEF TypeOK
  <2>2. CASE u # s
    <3>1. u \in alive /\ ses'[u] = ses[u] /\ u # sessions[id]
      BY <1>2, <2>2
    <3>2. ses[u].sid \in SessionId /\ sessions[ses[u].sid] = u
      BY <3>1 DEF AuthedActive
    <3> QED
      BY <1>2, <3>1, <3>2 DEF TypeOK
  <2> QED
    BY <2>1, <2>2
<1>3. CASE Quiet
  <2>1. UNCHANGED <<alive, sessions>> /\ \A u \in Session : SameSession(u)
    BY <1>3, QuietFrame
  <2> QED
    BY <1>0, <1>1, <2>1 DEF SameSession
<1>4. ASSUME NEW s \in Session, NEW id \in SessionId \cup {None}, NEW kind \in ClientKind,
             AuthProof(s, id, kind)
      PROVE  AuthedActive'
  <2>1. sessions' = sessions /\ alive' = alive \cup {s} /\ s \notin alive
    BY <1>4 DEF AuthProof, HomeInv, Fresh
  <2>2. \A u \in Session \ {s} : ses'[u] = ses[u]
    BY <1>4 DEF AuthProof, TypeOK
  <2>3. ~ses'[s].authed
    <3>1. ses'[s] = [NewSession EXCEPT !.sid = id, !.gm = kind.gm, !.keep = kind.keep]
      BY <1>4 DEF AuthProof, TypeOK
    <3> QED
      BY <3>1 DEF NewSession
  <2> QED
    BY <1>0, <1>1, <2>1, <2>2, <2>3
<1>5. CASE Destructor
  <2>1. sessions' = sessions /\ alive' = alive \ Elements(pending)
    BY <1>5 DEF Destructor
  <2>2. \A u \in Session : u \notin Elements(pending) => ses'[u] = ses[u]
    BY <1>5 DEF Destructor
  <2> QED
    BY <1>0, <1>1, <2>1, <2>2
<1>6. ASSUME NEW P \in SUBSET Theater, UpdateTheaters(P) \/ PurgeTheaters(P) PROVE AuthedActive'
  BY <1>1, <1>6 DEF UpdateTheaters, PurgeTheaters
<1>7. ASSUME NEW s \in Session, RestoreSession(s) PROVE AuthedActive'
  <2> DEFINE id == ses[s].sid
             old == sessions[id]
  <2>0. s \notin Active
    BY <1>7, TailElements DEF RestoreSession, AtPending, TypeOK, HomeInv, OneHome
  <2>1. id \in SessionId /\ old \in Session /\ old # s
    BY <1>7, <2>0, ZenonT(40) DEF RestoreSession, CanRestore, TypeOK, SessionRecord, Active
  <2>2. /\ sessions' = [sessions EXCEPT ![id] = s] /\ alive' = alive \ {old}
        /\ ses' = [ses EXCEPT ![s] = Restored(ses[s], ses[old]), ![old] = NewSession]
    BY <1>7, <2>1 DEF RestoreSession, TypeOK
  <2>3. ses'[s].sid = id
    <3>1. ses[s] \in SessionRecord /\ ses[old] \in SessionRecord
      BY <2>1 DEF TypeOK
    <3>2. ses'[s] = Restored(ses[s], ses[old])
      BY <2>1, <2>2 DEF TypeOK
    <3> QED
      BY <3>1, <3>2, RestoredFields
  <2>4. \A u \in Session \ {s, old} : ses'[u] = ses[u]
    BY <2>1, <2>2 DEF TypeOK
  <2>5. \A u \in alive' \ {s} : ses'[u] = ses[u]
    BY <1>0, <2>2, <2>4
  <2> HIDE DEF id
  <2> QED
    BY <1>2, <2>1, <2>2, <2>3, <2>5
<1>8. ASSUME NEW s \in Session, AddExpiredPlayer(s) \/ AddQueuedPlayer(s) PROVE AuthedActive'
  <2>1. UNCHANGED <<alive, sessions>>
    BY <1>8 DEF AddExpiredPlayer, AddQueuedPlayer
  <2>2. \A u \in Session : ses'[u].authed = ses[u].authed /\ ses'[u].sid = ses[u].sid
    BY <1>8, TimeoutFrame DEF SameSession
  <2> QED
    BY <1>0, <1>1, <2>1, <2>2
<1>9. ASSUME NEW s \in Session, NEW id \in SessionId,
             AddGMSession(s, id) \/ AddPendingSession(s, id) \/ UpdateEndAdmitted(s, id)
      PROVE  AuthedActive'
  <2>1. /\ sessions[id] = None /\ sessions' = [sessions EXCEPT ![id] = s] /\ alive' = alive
        /\ ses' = [ses EXCEPT ![s] = Accepted(ses[s], id)]
    BY <1>9 DEF AddGMSession, AddPendingSession, UpdateEndAdmitted
  <2>2. ses'[s].sid = id /\ \A u \in Session \ {s} : ses'[u] = ses[u]
    BY <2>1 DEF Accepted, WithTimeout, TypeOK, SessionRecord
  <2>3. alive' = alive \ {sessions[id]}
    BY <1>0, <2>1, SetAssumption
  <2> QED
    BY <1>0, <1>2, <2>1, <2>2, <2>3
<1>10. ASSUME NEW s \in Session, UpdateEndDropped(s) PROVE AuthedActive'
  <2>1. alive' = alive \ {s} /\ \A u \in Session \ {s} : ses'[u] = ses[u]
    BY <1>10 DEF UpdateEndDropped, DropSession, TypeOK
  <2>2. CASE sessions' = sessions
    BY <1>0, <1>1, <2>1, <2>2
  <2>3. CASE sessions' # sessions
    <3>1. phase = "sessions" /\ sessions' = [sessions EXCEPT ![ses[s].sid] = None] /\ s = cur
      BY <1>10, <2>3 DEF UpdateEndDropped
    <3>2. ses[s].sid \in SessionId /\ sessions[ses[s].sid] = s
      BY <3>1, SetAssumption DEF HomeInv, CurAtHome
    <3> SUFFICES ASSUME NEW u \in alive', ses'[u].authed
                 PROVE  ses'[u].sid \in SessionId /\ sessions'[ses'[u].sid] = u
      BY DEF AuthedActive
    <3>3. u \in alive /\ u # s /\ ses'[u] = ses[u]
      BY <1>0, <2>1
    <3>4. ses[u].sid \in SessionId /\ sessions[ses[u].sid] = u
      BY <3>3 DEF AuthedActive
    <3> QED
      BY <3>1, <3>2, <3>3, <3>4 DEF TypeOK
  <2> QED
    BY <2>2, <2>3
<1>11. ASSUME NEW s \in Session,
              \/ \E t \in Theater : HandlePlayerLogin(s, t)
              \/ HandleJoinTheater(s) \/ HandlePlayerLogout(s)
       PROVE  AuthedActive'
  <2>1. UNCHANGED <<alive, sessions>>
    BY <1>11 DEF HandlePlayerLogin, HandleJoinTheater, HandlePlayerLogout
  <2>2. ASSUME NEW u \in Session PROVE ses'[u].authed = ses[u].authed /\ ses'[u].sid = ses[u].sid
    <3>0. ses \in [Session -> SessionRecord] /\ ses[u] \in SessionRecord
      BY DEF TypeOK
    <3>1. ASSUME NEW t \in Theater, HandlePlayerLogin(s, t)
          PROVE  ses'[u].authed = ses[u].authed /\ ses'[u].sid = ses[u].sid
      BY <3>0, <3>1 DEF HandlePlayerLogin, SessionRecord
    <3>2. CASE HandleJoinTheater(s)
      BY <3>2 DEF HandleJoinTheater
    <3>3. CASE HandlePlayerLogout(s)
      BY <3>0, <3>3 DEF HandlePlayerLogout, SessionRecord
    <3> QED
      BY <1>11, <3>1, <3>2, <3>3
  <2> QED
    BY <1>0, <1>1, <2>1, <2>2
<1> QED
  BY <1>3, <1>4, <1>5, <1>6, <1>7, <1>8, <1>9, <1>10, <1>11, NextCases

\* Steps that create, delete or move sessions without a player.
LEMMA CoreContainers ==
  ASSUME TypeOK, HomeInv, AuthedActive, WorldCore, NEW s \in Session,
         \/ Quiet \/ Destructor
         \/ \E id \in SessionId \cup {None}, kind \in ClientKind : AuthProof(s, id, kind)
         \/ AddExpiredPlayer(s) \/ AddQueuedPlayer(s)
         \/ \E id \in SessionId :
              AddGMSession(s, id) \/ AddPendingSession(s, id) \/ UpdateEndAdmitted(s, id)
  PROVE  WorldCore'
<1>0. Owner \subseteq Active /\ Owner \subseteq Session /\ Owner \subseteq alive /\ alive \subseteq Session
  BY OwnerActive DEF WorldCore, TypeOK
\* What is left to show when the sessions of a set N, none of which has a player, change.
<1>1. ASSUME NEW N \in SUBSET Session, N \cap Owner = {}, UNCHANGED worldVars,
             \A u \in Session \ N : SameSession(u) /\ (u \in alive' <=> u \in alive),
             \A u \in N : u \in alive' => ses'[u].player = None,
             \A u \in Owner : sessions'[ses[u].sid] = sessions[ses[u].sid],
             unused' \subseteq unused, alive' \subseteq alive \cup unused
      PROVE  WorldCore'
  <2>1. alive' \subseteq Session
    BY <1>1 DEF TypeOK
  <2>2. Owner' = {u \in alive' : ses'[u].player # None}
    BY DEF Owner
  <2>3. ASSUME NEW u \in Session PROVE u \in Owner' <=> u \in Owner
    <3>1. CASE u \in N
      BY <1>1, <2>2, <3>1
    <3>2. CASE u \notin N
      BY <1>1, <2>2, <3>2 DEF Owner, SameSession
    <3> QED
      BY <3>1, <3>2
  <2>4. Owner' = Owner
    BY <1>0, <2>1, <2>2, <2>3
  <2>5. \A u \in Owner : SameSession(u)
    BY <1>0, <1>1
  <2> QED
    BY <1>1, <2>4, <2>5, CoreKept
<1>2. CASE Quiet
  <2>1. UNCHANGED <<unused, alive, sessions, worldVars>> /\ \A u \in Session : SameSession(u)
    BY <1>2, QuietFrame
  <2>2. \A u \in Session \ {} : SameSession(u) /\ (u \in alive' <=> u \in alive)
    BY <2>1
  <2>3. {} \in SUBSET Session
    OBVIOUS
  <2> QED
    BY <1>1, <2>1, <2>2, <2>3
<1>3. CASE Destructor
  <2>1. /\ UNCHANGED <<unused, sessions, worldVars>> /\ alive' = alive \ Elements(pending)
        /\ \A u \in Session \ Elements(pending) : ses'[u] = ses[u]
    BY <1>3 DEF Destructor
  <2>2. Elements(pending) \in SUBSET Session /\ Elements(pending) \cap Owner = {}
    BY <1>0 DEF HomeInv, OneHome, Elements, TypeOK
  <2> QED
    BY <1>1, <2>1, <2>2 DEF SameSession
<1>4. ASSUME NEW id \in SessionId \cup {None}, NEW kind \in ClientKind, AuthProof(s, id, kind)
      PROVE  WorldCore'
  <2>1. /\ UNCHANGED <<sessions, worldVars>> /\ alive' = alive \cup {s} /\ s \in unused
        /\ unused' = unused \ {s} /\ s \notin alive
    BY <1>4 DEF AuthProof, HomeInv, Fresh
  <2>2. \A u \in Session \ {s} : ses'[u] = ses[u]
    BY <1>4 DEF AuthProof, TypeOK
  <2>3. ses'[s].player = None
    <3>1. ses'[s] = [NewSession EXCEPT !.sid = id, !.gm = kind.gm, !.keep = kind.keep]
      BY <1>4 DEF AuthProof, TypeOK
    <3> QED
      BY <3>1 DEF NewSession
  <2>4. {s} \in SUBSET Session /\ {s} \cap Owner = {}
    BY <1>0, <2>1
  <2>5. \A u \in Session \ {s} : SameSession(u) /\ (u \in alive' <=> u \in alive)
    BY <2>1, <2>2 DEF SameSession
  <2> QED
    BY <1>1, <2>1, <2>3, <2>4, <2>5
<1>5. CASE AddExpiredPlayer(s) \/ AddQueuedPlayer(s)
  <2>1. UNCHANGED <<unused, alive, sessions, worldVars>>
    BY <1>5 DEF AddExpiredPlayer, AddQueuedPlayer
  <2>2. \A u \in Session : SameSession(u)
    BY <1>5, TimeoutFrame
  <2>3. \A u \in Session \ {} : SameSession(u) /\ (u \in alive' <=> u \in alive)
    BY <2>1, <2>2
  <2>4. {} \in SUBSET Session
    OBVIOUS
  <2> QED
    BY <1>1, <2>1, <2>3, <2>4
<1>6. ASSUME NEW id \in SessionId,
             AddGMSession(s, id) \/ AddPendingSession(s, id) \/ UpdateEndAdmitted(s, id)
      PROVE  WorldCore'
  <2>1. /\ sessions[id] = None /\ sessions' = [sessions EXCEPT ![id] = s]
        /\ UNCHANGED <<unused, alive, worldVars>>
        /\ ses' = [ses EXCEPT ![s] = Accepted(ses[s], id)]
    BY <1>6 DEF AddGMSession, AddPendingSession, UpdateEndAdmitted
  <2>2. \A u \in Session \ {s} : ses'[u] = ses[u]
    BY <2>1 DEF TypeOK
  <2>3. ses'[s].player = ses[s].player
    BY <2>1 DEF Accepted, WithTimeout, TypeOK, SessionRecord
  <2>4. s \notin Active
    <3>1. CASE AtPending(s)
      BY <3>1, TailElements DEF AtPending, TypeOK, HomeInv, OneHome
    <3>2. CASE UpdateEndAdmitted(s, id)
      <4>1. s \in Elements(queued)
        BY <3>2, SetAssumption DEF UpdateEndAdmitted, HomeInv, CurAtHome, Elements
      <4> QED
        BY <4>1 DEF HomeInv, OneHome
    <3> QED
      BY <1>6, <3>1, <3>2 DEF AddGMSession, AddPendingSession
  <2>5. {s} \in SUBSET Session /\ {s} \cap Owner = {}
    BY <1>0, <2>4
  <2>6. s \in alive => ses[s].player = None
    BY <2>5 DEF Owner
  <2>7. ASSUME NEW u \in Owner PROVE sessions'[ses[u].sid] = sessions[ses[u].sid]
    <3>1. sessions[ses[u].sid] = u /\ u # None /\ ses[u].sid \in SessionId
      BY <1>0, <2>7, SetAssumption DEF WorldCore, Listed
    <3> QED
      BY <2>1, <3>1 DEF TypeOK
  <2>8. \A u \in Session \ {s} : SameSession(u) /\ (u \in alive' <=> u \in alive)
    BY <2>1, <2>2 DEF SameSession
  <2> QED
    BY <1>1, <2>1, <2>3, <2>5, <2>6, <2>7, <2>8
<1> QED
  BY <1>2, <1>3, <1>4, <1>5, <1>6

\* What logoutPlayer() does to a theater that lists the session.
LEMMA RemoveFields ==
  ASSUME NEW r \in TheaterRecord, NEW id \in SessionId, NEW p, r.members[id] # None
  PROVE  LET q == RemoveSession(RemovePlayerFromQueue(r, p), id) IN
         /\ q.members = [r.members EXCEPT ![id] = None] /\ q.online = r.online - 1
         /\ q.deleting => r.deleting \/ r.online - 1 <= 0
         /\ q.queue = r.queue \ {p}
<1> DEFINE x == RemovePlayerFromQueue(r, p)
<1>1. /\ x \in [members : [SessionId -> Session \cup {None}], online : Int,
                state : {"idle", "waiting", "active"}, deleting : BOOLEAN, queue : SUBSET Player]
      /\ x.members = r.members /\ x.online = r.online /\ x.deleting = r.deleting
      /\ x.queue = r.queue \ {p}
  BY DEF RemovePlayerFromQueue, TheaterRecord
<1> HIDE DEF x
<1>2. RemoveSession(x, id) = [x EXCEPT !.members = [x.members EXCEPT ![id] = None],
                                       !.online = x.online - 1,
                                       !.deleting = x.deleting \/ x.online - 1 <= 0]
  BY <1>1 DEF RemoveSession
<1> QED
  BY <1>1, <1>2 DEF x

\* Theater::addSession() of a session whose id is not listed.
LEMMA AddFields ==
  ASSUME NEW r \in TheaterRecord, NEW id \in SessionId, NEW s \in Session, r.members[id] = None
  PROVE  LET q == AddSession(r, id, s) IN
         /\ q.members = [r.members EXCEPT ![id] = s] /\ q.online = r.online + 1
         /\ ~q.deleting /\ q.queue = r.queue
BY DEF AddSession, TheaterRecord

\* Theater::replaceSession() where the id is listed.
LEMMA ReplaceFields ==
  ASSUME NEW r \in TheaterRecord, NEW id \in SessionId, NEW s \in Session, r.members[id] # None
  PROVE  LET q == ReplaceSession(r, id, s) IN
         /\ q.members = [r.members EXCEPT ![id] = s] /\ q.online = r.online
         /\ q.deleting = r.deleting /\ q.queue = r.queue
BY DEF ReplaceSession, TheaterRecord

\* The number of entries of a theater when one is written or erased.
LEMMA MemberCount ==
  ASSUME NEW m \in [SessionId -> Session \cup {None}], NEW id \in SessionId, NEW s \in Session
  PROVE  /\ Cardinality(MemberIds(m)) \in Nat
         /\ Cardinality(MemberIds(m)) = 0 => \A i \in SessionId : m[i] = None
         /\ m[id] # None =>
              /\ Cardinality(MemberIds([m EXCEPT ![id] = s])) = Cardinality(MemberIds(m))
              /\ Cardinality(MemberIds([m EXCEPT ![id] = None])) = Cardinality(MemberIds(m)) - 1
         /\ m[id] = None =>
              Cardinality(MemberIds([m EXCEPT ![id] = s])) = Cardinality(MemberIds(m)) + 1
<1>0. s # None
  BY SetAssumption
<1>1. IsFiniteSet(MemberIds(m))
  <2>1. MemberIds(m) \subseteq SessionId
    BY DEF MemberIds
  <2> QED
    BY <2>1, SetAssumption, FS_Subset
<1>2. Cardinality(MemberIds(m)) \in Nat
  BY <1>1, FS_CardinalityType
<1>3. ASSUME Cardinality(MemberIds(m)) = 0, NEW i \in SessionId PROVE m[i] = None
  <2>1. MemberIds(m) = {}
    BY <1>1, <1>3, FS_EmptySet
  <2> QED
    BY <2>1 DEF MemberIds
<1>4. ASSUME m[id] # None
      PROVE  /\ Cardinality(MemberIds([m EXCEPT ![id] = s])) = Cardinality(MemberIds(m))
             /\ Cardinality(MemberIds([m EXCEPT ![id] = None])) = Cardinality(MemberIds(m)) - 1
  <2>1. MemberIds([m EXCEPT ![id] = s]) = MemberIds(m)
    BY <1>0, <1>4 DEF MemberIds
  <2>2. MemberIds([m EXCEPT ![id] = None]) = MemberIds(m) \ {id} /\ id \in MemberIds(m)
    BY <1>4 DEF MemberIds
  <2> QED
    BY <1>1, <2>1, <2>2, FS_RemoveElement
<1>5. ASSUME m[id] = None
      PROVE  Cardinality(MemberIds([m EXCEPT ![id] = s])) = Cardinality(MemberIds(m)) + 1
  <2>1. MemberIds([m EXCEPT ![id] = s]) = MemberIds(m) \cup {id} /\ id \notin MemberIds(m)
    BY <1>0, <1>5 DEF MemberIds
  <2> QED
    BY <1>1, <2>1, FS_AddElement
<1> QED
  BY <1>2, <1>3, <1>4, <1>5

\* WorldSession::logoutPlayer() of a session that has a player.
LEMMA CoreLogout ==
  ASSUME TypeOK, HomeInv, WorldCore, NEW s \in Session, s \in Owner, LogoutPlayer(s),
         UNCHANGED <<unused, theaters>>, alive' \subseteq alive,
         Owner' = Owner \ {s}, \A u \in Session \ {s} : ses'[u] = ses[u],
         \A u \in Owner \ {s} : sessions'[ses[u].sid] = sessions[ses[u].sid]
  PROVE  WorldCore'
<1> DEFINE p == ses[s].player
           t == ses[s].theater
           id == ses[s].sid
           q == RemoveSession(RemovePlayerFromQueue(th[t], p), id)
<1>0. /\ Listed /\ Members /\ Counted /\ Names /\ OnlyOwner /\ Owned
      /\ Owner \subseteq Session /\ theaters \subseteq Theater
  BY OwnerActive DEF WorldCore, TypeOK
<1>1. p # None /\ p \in Player /\ t \in theaters /\ t \in Theater /\ id \in SessionId /\ t # None
  BY <1>0, SetAssumption DEF Listed, Owner, TypeOK, SessionRecord
<1>2. th[t].members[id] = s /\ th[t].members[id] # None /\ sessions[id] = s
  BY <1>0, SetAssumption DEF Listed
<1>3. th[t] \in TheaterRecord /\ th[t].members \in [SessionId -> Session \cup {None}] /\ th[t].online \in Int
  BY <1>1 DEF TypeOK, TheaterRecord
<1>4. /\ th' = [th EXCEPT ![t] = q] /\ inWorld' = inWorld \ {p}
      /\ pSession' = [pSession EXCEPT ![p] = None]
  BY <1>1 DEF LogoutPlayer
<1> HIDE DEF p, t, id
<1>5. /\ q.members = [th[t].members EXCEPT ![id] = None] /\ q.online = th[t].online - 1
      /\ (q.deleting => th[t].deleting \/ th[t].online - 1 <= 0) /\ q.queue = th[t].queue \ {p}
  BY <1>1, <1>2, <1>3, RemoveFields
<1> HIDE DEF q
<1>6. th'[t] = q /\ \A v \in Theater \ {t} : th'[v] = th[v]
  BY <1>1, <1>4 DEF TypeOK
<1>7. \A u \in Owner' : u \in Owner /\ u # s /\ u \in Session /\ ses'[u] = ses[u]
  BY <1>0
<1>8. ASSUME NEW u \in Owner' PROVE ses[u].player # p /\ ses[u].sid # id
  <2>1. u \in Owner /\ u # s
    BY <1>7
  <2> QED
    BY <1>0, <1>2, <2>1 DEF OnlyOwner, Listed, p
<1>9. \A v \in theaters : \A i \in SessionId :
        th'[v].members[i] = IF v = t /\ i = id THEN None ELSE th[v].members[i]
  BY <1>0, <1>1, <1>3, <1>5, <1>6
<1>10. Listed'
  <2> SUFFICES ASSUME NEW u \in Owner'
               PROVE  /\ ses'[u].authed /\ ses'[u].sid \in SessionId /\ sessions'[ses'[u].sid] = u
                      /\ ses'[u].theater \in theaters'
                      /\ th'[ses'[u].theater].members[ses'[u].sid] = u
    BY DEF Listed
  <2>1. /\ ses[u].authed /\ ses[u].sid \in SessionId /\ sessions[ses[u].sid] = u
        /\ ses[u].theater \in theaters /\ th[ses[u].theater].members[ses[u].sid] = u
    BY <1>0, <1>7 DEF Listed
  <2> QED
    BY <1>7, <1>8, <1>9, <2>1
<1>11. Members'
  <2> SUFFICES ASSUME NEW v \in theaters, NEW i \in SessionId, th'[v].members[i] # None
               PROVE  /\ th'[v].members[i] \in Owner'
                      /\ ses'[th'[v].members[i]].theater = v /\ ses'[th'[v].members[i]].sid = i
    BY DEF Members
  <2>1. th'[v].members[i] = th[v].members[i] /\ ~(v = t /\ i = id)
    BY <1>9
  <2>2. /\ th[v].members[i] \in Owner /\ ses[th[v].members[i]].theater = v
        /\ ses[th[v].members[i]].sid = i
    BY <1>0, <2>1 DEF Members
  <2>3. th[v].members[i] # s
    BY <2>1, <2>2 DEF t, id
  <2> QED
    BY <1>7, <2>1, <2>2, <2>3
<1>12. Counted'
  <2>1. ASSUME NEW v \in theaters
        PROVE  /\ th'[v].online = Cardinality(MemberIds(th'[v].members))
               /\ th'[v].deleting => th'[v].online <= 0
    <3>1. /\ th[v].online = Cardinality(MemberIds(th[v].members))
          /\ th[v].deleting => th[v].online <= 0
      BY <1>0 DEF Counted
    <3>2. CASE v = t
      <4>1. /\ Cardinality(MemberIds(q.members)) = Cardinality(MemberIds(th[t].members)) - 1
        BY <1>1, <1>2, <1>3, <1>5, MemberCount
      <4>2. q.online = Cardinality(MemberIds(q.members))
        BY <1>5, <3>1, <3>2, <4>1
      <4>3. q.deleting => q.online <= 0
        BY <1>3, <1>5, <3>1, <3>2
      <4> QED
        BY <1>6, <3>2, <4>2, <4>3
    <3>3. CASE v # t
      BY <1>0, <1>6, <3>1, <3>3
    <3> QED
      BY <3>2, <3>3
  <2>2. ASSUME NEW v \in Theater \ theaters PROVE th'[v] = NewTheater
    BY <1>0, <1>1, <1>6 DEF Counted
  <2> QED
    BY <2>1, <2>2 DEF Counted, MemberIds
<1>13. Names'
  BY <1>0, <1>7 DEF Names
<1>14. OnlyOwner'
  <2>1. \A u \in Owner' : pSession'[ses'[u].player] \in {u, None}
    BY <1>0, <1>4, <1>7, <1>8 DEF OnlyOwner
  <2> QED
    BY <1>0, <1>7, <2>1 DEF OnlyOwner
<1>15. Owned'
  <2>1. ASSUME NEW x \in inWorld' PROVE \E u \in Owner' : ses'[u].player = x
    <3>1. PICK u \in Owner : ses[u].player = x
      BY <1>0, <1>4 DEF Owned
    <3>2. u # s
      BY <1>4, <3>1 DEF p
    <3> QED
      BY <1>7, <3>1, <3>2
  <2>2. ASSUME NEW v \in theaters, NEW x \in th'[v].queue
        PROVE  \E u \in Owner' : ses'[u].player = x /\ ses'[u].theater = v
    <3>1. x \in th[v].queue /\ (v = t => x # p)
      BY <1>0, <1>5, <1>6, <2>2
    <3>2. PICK u \in Owner : ses[u].player = x /\ ses[u].theater = v
      BY <1>0, <3>1 DEF Owned
    <3>3. u # s
      BY <3>1, <3>2 DEF p, t
    <3> QED
      BY <1>7, <3>2, <3>3
  <2> QED
    BY <2>1, <2>2 DEF Owned
<1> QED
  BY <1>10, <1>11, <1>12, <1>13, <1>14, <1>15 DEF WorldCore

\* A session that is dropped or logs out.
LEMMA CoreLeave ==
  ASSUME TypeOK, HomeInv, WorldCore, NEW s \in Session, s \in alive,
         UpdateEndDropped(s) \/ HandlePlayerLogout(s)
  PROVE  WorldCore'
<1>0. Owner \subseteq Active /\ Owner \subseteq Session /\ Owner \subseteq alive
  BY OwnerActive DEF WorldCore
<1>1. /\ LogoutPlayer(s) /\ UNCHANGED <<unused, theaters>> /\ alive' \subseteq alive
      /\ alive \subseteq alive' \cup {s}
  BY DEF UpdateEndDropped, DropSession, HandlePlayerLogout
<1>2. \A u \in Session \ {s} : ses'[u] = ses[u]
  BY DEF UpdateEndDropped, DropSession, HandlePlayerLogout, TypeOK
<1>3. s \in alive' => ses'[s].player = None
  BY DEF UpdateEndDropped, DropSession, HandlePlayerLogout, TypeOK, SessionRecord
<1>4. Owner' = Owner \ {s}
  <2>1. Owner' = {u \in alive' : ses'[u].player # None}
    BY DEF Owner
  <2>2. ASSUME NEW u \in Owner' PROVE u \in Owner \ {s}
    <3>1. u \in alive' /\ ses'[u].player # None /\ u # s /\ u \in Session
      BY <1>1, <1>3, <2>1 DEF TypeOK
    <3> QED
      BY <1>1, <1>2, <3>1 DEF Owner
  <2>3. ASSUME NEW u \in Owner \ {s} PROVE u \in Owner'
    <3>1. u \in alive /\ ses[u].player # None /\ u \in Session
      BY <1>0 DEF Owner
    <3> QED
      BY <1>1, <1>2, <2>1, <3>1
  <2> QED
    BY <2>2, <2>3
<1>5. ASSUME NEW u \in Owner \ {s} PROVE sessions'[ses[u].sid] = sessions[ses[u].sid]
  <2>1. ses[u].sid \in SessionId /\ sessions[ses[u].sid] = u
    BY DEF WorldCore, Listed
  <2>2. CASE sessions' = sessions
    BY <2>2
  <2>3. CASE sessions' # sessions
    <3>1. phase = "sessions" /\ sessions' = [sessions EXCEPT ![ses[s].sid] = None] /\ s = cur
      BY <2>3 DEF UpdateEndDropped, HandlePlayerLogout
    <3>2. ses[s].sid \in SessionId /\ sessions[ses[s].sid] = s
      BY <3>1, SetAssumption DEF HomeInv, CurAtHome
    <3> QED
      BY <2>1, <3>1, <3>2 DEF TypeOK
  <2> QED
    BY <2>2, <2>3
<1>6. CASE s \in Owner
  BY <1>1, <1>2, <1>4, <1>5, <1>6, CoreLogout
<1>7. CASE s \notin Owner
  <2>1. ses[s].player = None
    BY <1>7 DEF Owner
  <2>2. UNCHANGED worldVars
    BY <1>1, <2>1 DEF LogoutPlayer
  <2>3. Owner' = Owner /\ \A u \in Owner : SameSession(u)
    BY <1>0, <1>2, <1>4, <1>7 DEF SameSession
  <2> QED
    BY <1>1, <1>5, <1>7, <2>2, <2>3, CoreKept
<1> QED
  BY <1>6, <1>7

\* The session that is updated is alive.
LEMMA CurAlive ==
  ASSUME TypeOK, HomeInv, cur # None
  PROVE  cur \in alive
<1>1. cur \in Active \cup Elements(queued) \cup expired
  BY DEF HomeInv, CurAtHome, Active, Elements
<1> QED
  BY <1>1 DEF HomeInv, OneHome

\* A session without a player gets one and enters a theater.
LEMMA CoreLogin ==
  ASSUME TypeOK, HomeInv, AuthedActive, WorldCore, NEW s \in Session, NEW t \in Theater,
         HandlePlayerLogin(s, t)
  PROVE  WorldCore'
<1> DEFINE id == ses[s].sid
           q == AddSession(th[t], id, s)
<1>0. /\ Listed /\ Members /\ Counted /\ Names /\ OnlyOwner /\ Owned
      /\ Owner \subseteq Session /\ theaters \subseteq Theater /\ Owner \subseteq alive
  BY OwnerActive DEF WorldCore, TypeOK
<1>1. s = cur /\ s # None /\ ses[s].authed /\ ses[s].player = None
  BY SetAssumption DEF HandlePlayerLogin, CanHandle
<1>2. s \in alive /\ s \notin Owner /\ s \notin unused
  BY <1>1, CurAlive DEF Owner, HomeInv, Fresh
<1>3. id \in SessionId /\ sessions[id] = s
  BY <1>1, <1>2 DEF AuthedActive
<1>4. /\ theaters' = theaters \cup {t} /\ th' = [th EXCEPT ![t] = q]
      /\ ses' = [ses EXCEPT ![s].player = s, ![s].theater = t]
      /\ pSession' = [pSession EXCEPT ![s] = s]
      /\ UNCHANGED <<unused, alive, sessions, inWorld>>
  BY DEF HandlePlayerLogin
<1>5. /\ ses'[s].player = s /\ ses'[s].theater = t /\ ses'[s].authed = ses[s].authed
      /\ ses'[s].sid = id
      /\ \A u \in Session \ {s} : ses'[u] = ses[u]
  BY <1>4 DEF TypeOK, SessionRecord
<1> HIDE DEF id
<1>6. Owner' = Owner \cup {s}
  <2>1. Owner' = {u \in alive : ses'[u].player # None}
    BY <1>4 DEF Owner
  <2> QED
    BY <1>0, <1>1, <1>2, <1>5, <2>1 DEF Owner, TypeOK
<1>7. th[t] \in TheaterRecord /\ th[t].members \in [SessionId -> Session \cup {None}] /\ th[t].online \in Int
  BY DEF TypeOK, TheaterRecord
<1>8. th[t].members[id] = None
  <2>1. CASE t \in theaters
    <3> SUFFICES ASSUME th[t].members[id] # None PROVE FALSE
      OBVIOUS
    <3>1. th[t].members[id] \in Owner /\ ses[th[t].members[id]].sid = id
      BY <1>0, <1>3, <2>1 DEF Members
    <3>2. sessions[id] = th[t].members[id]
      BY <1>0, <3>1 DEF Listed
    <3> QED
      BY <1>2, <1>3, <3>1, <3>2
  <2>2. CASE t \notin theaters
    BY <1>0, <1>3, <2>2 DEF Counted, NewTheater
  <2> QED
    BY <2>1, <2>2
<1>9. /\ q.members = [th[t].members EXCEPT ![id] = s] /\ q.online = th[t].online + 1
      /\ ~q.deleting /\ q.queue = th[t].queue
  BY <1>3, <1>7, <1>8, AddFields
<1> HIDE DEF q
<1>10. th'[t] = q /\ \A v \in Theater \ {t} : th'[v] = th[v]
  BY <1>4 DEF TypeOK
<1>11. \A v \in theaters' : \A i \in SessionId :
         /\ v = t /\ i = id => th'[v].members[i] = s
         /\ v = t /\ i # id /\ t \in theaters => th'[v].members[i] = th[v].members[i]
         /\ v = t /\ i # id /\ t \notin theaters => th'[v].members[i] = None
         /\ v # t => v \in theaters /\ th'[v].members[i] = th[v].members[i]
  <2>1. t \notin theaters => th[t].members = [i \in SessionId |-> None]
    BY <1>0 DEF Counted, NewTheater
  <2> QED
    BY <1>0, <1>3, <1>4, <1>7, <1>9, <1>10, <2>1
<1>12. Listed'
  <2> SUFFICES ASSUME NEW u \in Owner'
               PROVE  /\ ses'[u].authed /\ ses'[u].sid \in SessionId /\ sessions'[ses'[u].sid] = u
                      /\ ses'[u].theater \in theaters'
                      /\ th'[ses'[u].theater].members[ses'[u].sid] = u
    BY DEF Listed
  <2>1. CASE u = s
    <3>1. t \in theaters' /\ th'[t].members[id] = s
      BY <1>3, <1>4, <1>11
    <3> QED
      BY <1>1, <1>3, <1>4, <1>5, <2>1, <3>1
  <2>2. CASE u # s
    <3>1. u \in Owner /\ ses'[u] = ses[u]
      BY <1>0, <1>5, <1>6, <2>2
    <3>2. /\ ses[u].authed /\ ses[u].sid \in SessionId /\ sessions[ses[u].sid] = u
          /\ ses[u].theater \in theaters /\ th[ses[u].theater].members[ses[u].sid] = u
      BY <1>0, <3>1 DEF Listed
    <3>3. ses[u].sid # id
      BY <1>3, <2>2, <3>2
    <3>4. /\ ses[u].theater \in theaters'
          /\ th'[ses[u].theater].members[ses[u].sid] = th[ses[u].theater].members[ses[u].sid]
      BY <1>4, <1>11, <3>2, <3>3
    <3> QED
      BY <1>4, <3>1, <3>2, <3>4
  <2> QED
    BY <2>1, <2>2
<1>13. Members'
  <2> SUFFICES ASSUME NEW v \in theaters', NEW i \in SessionId, th'[v].members[i] # None
               PROVE  /\ th'[v].members[i] \in Owner'
                      /\ ses'[th'[v].members[i]].theater = v /\ ses'[th'[v].members[i]].sid = i
    BY DEF Members
  <2>1. CASE v = t /\ i = id
    BY <1>5, <1>6, <1>11, <2>1
  <2>2. CASE ~(v = t /\ i = id)
    <3>1. v \in theaters /\ th'[v].members[i] = th[v].members[i]
      BY <1>11, <2>2
    <3>2. /\ th[v].members[i] \in Owner /\ ses[th[v].members[i]].theater = v
          /\ ses[th[v].members[i]].sid = i
      BY <1>0, <3>1 DEF Members
    <3>3. th[v].members[i] # s /\ th[v].members[i] \in Session
      BY <1>0, <1>2, <3>2
    <3> QED
      BY <1>5, <1>6, <3>1, <3>2, <3>3
  <2> QED
    BY <2>1, <2>2
<1>14. Counted'
  <2>1. ASSUME NEW v \in theaters'
        PROVE  /\ th'[v].online = Cardinality(MemberIds(th'[v].members))
               /\ th'[v].deleting => th'[v].online <= 0
    <3>1. CASE v = t
      <4>1. th[t].online = Cardinality(MemberIds(th[t].members))
        <5>1. CASE t \in theaters
          BY <1>0, <5>1 DEF Counted
        <5>2. CASE t \notin theaters
          <6>1. th[t].online = 0 /\ th[t].members = [i \in SessionId |-> None]
            BY <1>0, <5>2 DEF Counted, NewTheater
          <6>2. MemberIds(th[t].members) = {}
            BY <6>1 DEF MemberIds
          <6> QED
            BY <6>1, <6>2, FS_EmptySet
        <5> QED
          BY <5>1, <5>2
      <4>2. Cardinality(MemberIds(q.members)) = Cardinality(MemberIds(th[t].members)) + 1
        BY <1>3, <1>7, <1>8, <1>9, MemberCount
      <4>3. q.online = Cardinality(MemberIds(q.members)) /\ ~q.deleting
        BY <1>9, <4>1, <4>2
      <4> QED
        BY <1>10, <3>1, <4>3
    <3>2. CASE v # t
      <4>1. v \in theaters /\ th'[v] = th[v]
        BY <1>0, <1>4, <1>10, <3>2
      <4> QED
        BY <1>0, <4>1 DEF Counted
    <3> QED
      BY <3>1, <3>2
  <2>2. ASSUME NEW v \in Theater \ theaters' PROVE th'[v] = NewTheater
    BY <1>0, <1>4, <1>10 DEF Counted
  <2> QED
    BY <2>1, <2>2 DEF Counted, MemberIds
<1>15. \A u \in Owner : /\ u \in Owner' /\ u # s /\ ses'[u] = ses[u] /\ ses[u].player # s
  <2> SUFFICES ASSUME NEW u \in Owner PROVE u \in Owner' /\ u # s /\ ses'[u] = ses[u] /\ ses[u].player # s
    OBVIOUS
  <2> QED
    BY <1>0, <1>2, <1>5, <1>6 DEF Names
<1>16. Names'
  <2> SUFFICES ASSUME NEW u \in Owner'
               PROVE  /\ ses'[u].player \notin unused'
                      /\ ses'[u].player = u \/ ses'[u].player \notin alive'
    BY DEF Names
  <2>1. CASE u = s
    BY <1>2, <1>4, <1>5, <2>1
  <2>2. CASE u \in Owner
    <3>1. ses'[u] = ses[u] /\ unused' = unused /\ alive' = alive
      BY <1>4, <1>15, <2>2
    <3>2. ses[u].player \notin unused /\ (ses[u].player = u \/ ses[u].player \notin alive)
      BY <1>0, <2>2 DEF Names
    <3> QED
      BY <3>1, <3>2
  <2> QED
    BY <1>6, <2>1, <2>2
<1>17. OnlyOwner'
  <2>1. ASSUME NEW u \in Owner' PROVE pSession'[ses'[u].player] \in {u, None}
    <3>1. CASE u = s
      BY <1>4, <1>5, <3>1 DEF TypeOK, Player
    <3>2. CASE u # s
      <4>1. u \in Owner /\ pSession[ses[u].player] \in {u, None}
        BY <1>0, <1>6, <3>2 DEF OnlyOwner
      <4>2. ses[u].player # s /\ ses'[u] = ses[u]
        BY <1>15, <4>1
      <4>3. ses[u].player \in Player /\ s \in Player
        BY <1>0, <4>1 DEF Owner, TypeOK, SessionRecord, Player
      <4> QED
        BY <1>4, <4>1, <4>2, <4>3 DEF TypeOK
    <3> QED
      BY <3>1, <3>2
  <2>2. ASSUME NEW u \in Owner', NEW w \in Owner', ses'[u].player = ses'[w].player PROVE u = w
    <3>1. CASE u = s \/ w = s
      BY <1>5, <1>6, <1>15, <2>2, <3>1
    <3>2. CASE u # s /\ w # s
      BY <1>0, <1>6, <1>15, <2>2, <3>2 DEF OnlyOwner
    <3> QED
      BY <3>1, <3>2
  <2> QED
    BY <2>1, <2>2 DEF OnlyOwner
<1>18. Owned'
  <2>1. ASSUME NEW x \in inWorld' PROVE \E u \in Owner' : ses'[u].player = x
    <3>1. PICK u \in Owner : ses[u].player = x
      BY <1>0, <1>4 DEF Owned
    <3> QED
      BY <1>15, <3>1
  <2>2. ASSUME NEW v \in theaters', NEW x \in th'[v].queue
        PROVE  \E u \in Owner' : ses'[u].player = x /\ ses'[u].theater = v
    <3>1. th'[v].queue = th[v].queue
      BY <1>0, <1>4, <1>9, <1>10
    <3>2. v \in theaters
      <4> SUFFICES ASSUME v \notin theaters PROVE FALSE
        OBVIOUS
      <4>1. v = t /\ th[v].queue = {}
        BY <1>0, <1>4 DEF Counted, NewTheater
      <4> QED
        BY <2>2, <3>1, <4>1
    <3>3. PICK u \in Owner : ses[u].player = x /\ ses[u].theater = v
      BY <1>0, <2>2, <3>1, <3>2 DEF Owned
    <3> QED
      BY <1>15, <3>3
  <2> QED
    BY <2>1, <2>2 DEF Owned
<1> QED
  BY <1>12, <1>13, <1>14, <1>16, <1>17, <1>18 DEF WorldCore

\* The player changes hands: the theater lists the new session under the same id.
LEMMA CoreRestore ==
  ASSUME TypeOK, HomeInv, AuthedActive, WorldCore, NEW s \in Session, RestoreSession(s)
  PROVE  WorldCore'
<1> DEFINE id == ses[s].sid
           old == sessions[id]
           p == ses[old].player
           t == ses[old].theater
           q == ReplaceSession(th[t], id, s)
<1>0. /\ Listed /\ Members /\ Counted /\ Names /\ OnlyOwner /\ Owned
      /\ Owner \subseteq Session /\ theaters \subseteq Theater /\ Owner \subseteq alive
      /\ Owner \subseteq Active
  BY OwnerActive DEF WorldCore, TypeOK
<1>1. s \in Elements(pending)
  BY TailElements DEF RestoreSession, AtPending, TypeOK, HomeInv, OneHome
<1>2. s \in alive /\ s \notin Active /\ s \notin Owner /\ s # None
  BY <1>0, <1>1, SetAssumption DEF HomeInv, OneHome
<1>3. /\ id \in SessionId /\ old \in Session /\ old # s /\ old \in Active /\ old # None
      /\ p # None /\ old \in alive
  BY <1>2 DEF RestoreSession, CanRestore, TypeOK, SessionRecord, Active, HomeInv, OneHome
<1>4. old \in Owner /\ p \in Player
  BY <1>3 DEF Owner, TypeOK, SessionRecord
<1>5. /\ ses[old].authed /\ ses[old].sid \in SessionId /\ sessions[ses[old].sid] = old
      /\ t \in theaters /\ th[t].members[ses[old].sid] = old
  BY <1>0, <1>4 DEF Listed
<1>6. ses[old].sid = id
  BY <1>3, <1>5 DEF HomeInv, OneHome
<1>7. /\ th' = [th EXCEPT ![t] = q] /\ sessions' = [sessions EXCEPT ![id] = s]
      /\ ses' = [ses EXCEPT ![s] = Restored(ses[s], ses[old]), ![old] = NewSession]
      /\ pSession' = [pSession EXCEPT ![p] = None] /\ alive' = alive \ {old}
      /\ UNCHANGED <<unused, theaters, inWorld>>
  BY <1>3 DEF RestoreSession, TypeOK
<1>8. /\ ses'[s].player = p /\ ses'[s].theater = t /\ ses'[s].sid = id /\ ses'[s].authed
  <2>1. ses'[s] = Restored(ses[s], ses[old])
    BY <1>3, <1>7 DEF TypeOK
  <2>2. ses[s] \in SessionRecord
    BY DEF TypeOK
  <2> QED
    BY <2>1, <2>2 DEF Restored, WithTimeout, SessionRecord
<1>9. \A u \in Session \ {s, old} : ses'[u] = ses[u]
  BY <1>3, <1>7 DEF TypeOK
<1>10. old = sessions[id] /\ p = ses[old].player /\ t = ses[old].theater
  OBVIOUS
<1> HIDE DEF id, old, p, t
<1>11. Owner' = (Owner \ {old}) \cup {s}
  <2>1. Owner' = {u \in alive \ {old} : ses'[u].player # None}
    BY <1>7 DEF Owner
  <2> QED
    BY <1>0, <1>2, <1>3, <1>8, <1>9, <2>1 DEF Owner, TypeOK
<1>12. th[t] \in TheaterRecord /\ th[t].members \in [SessionId -> Session \cup {None}] /\ t \in Theater
  BY <1>0, <1>5 DEF TypeOK, TheaterRecord
<1>13. th[t].members[id] = old /\ th[t].members[id] # None
  BY <1>3, <1>5, <1>6
<1>14. /\ q.members = [th[t].members EXCEPT ![id] = s] /\ q.online = th[t].online
       /\ q.deleting = th[t].deleting /\ q.queue = th[t].queue
  BY <1>3, <1>12, <1>13, ReplaceFields
<1> HIDE DEF q
<1>15. th'[t] = q /\ \A v \in Theater \ {t} : th'[v] = th[v]
  BY <1>7, <1>12 DEF TypeOK
<1>16. \A v \in theaters : \A i \in SessionId :
         th'[v].members[i] = IF v = t /\ i = id THEN s ELSE th[v].members[i]
  BY <1>0, <1>3, <1>12, <1>14, <1>15
<1>17. ASSUME NEW u \in Owner', u # s
       PROVE  u \in Owner /\ u # old /\ ses'[u] = ses[u] /\ ses[u].player # p /\ ses[u].sid # id
  <2>1. u \in Owner /\ u # old /\ ses'[u] = ses[u]
    BY <1>0, <1>9, <1>11, <1>17
  <2>2. ses[u].player # p
    BY <1>0, <1>4, <1>10, <2>1 DEF OnlyOwner
  <2>3. sessions[ses[u].sid] = u
    BY <1>0, <2>1 DEF Listed
  <2> QED
    BY <1>10, <2>1, <2>2, <2>3
<1>18. Listed'
  <2> SUFFICES ASSUME NEW u \in Owner'
               PROVE  /\ ses'[u].authed /\ ses'[u].sid \in SessionId /\ sessions'[ses'[u].sid] = u
                      /\ ses'[u].theater \in theaters'
                      /\ th'[ses'[u].theater].members[ses'[u].sid] = u
    BY DEF Listed
  <2>1. CASE u = s
    <3>1. th'[t].members[id] = s /\ sessions'[id] = s
      BY <1>3, <1>5, <1>7, <1>16 DEF TypeOK
    <3> QED
      BY <1>3, <1>5, <1>7, <1>8, <2>1, <3>1
  <2>2. CASE u # s
    <3>1. u \in Owner /\ ses'[u] = ses[u] /\ ses[u].sid # id
      BY <1>17, <2>2
    <3>2. /\ ses[u].authed /\ ses[u].sid \in SessionId /\ sessions[ses[u].sid] = u
          /\ ses[u].theater \in theaters /\ th[ses[u].theater].members[ses[u].sid] = u
      BY <1>0, <3>1 DEF Listed
    <3>3. /\ sessions'[ses[u].sid] = u
          /\ th'[ses[u].theater].members[ses[u].sid] = u
      BY <1>7, <1>16, <3>1, <3>2 DEF TypeOK
    <3> QED
      BY <1>7, <3>1, <3>2, <3>3
  <2> QED
    BY <2>1, <2>2
<1>19. Members'
  <2> SUFFICES ASSUME NEW v \in theaters, NEW i \in SessionId, th'[v].members[i] # None
               PROVE  /\ th'[v].members[i] \in Owner'
                      /\ ses'[th'[v].members[i]].theater = v /\ ses'[th'[v].members[i]].sid = i
    BY <1>7 DEF Members
  <2>1. CASE v = t /\ i = id
    BY <1>8, <1>11, <1>16, <2>1
  <2>2. CASE ~(v = t /\ i = id)
    <3>1. th'[v].members[i] = th[v].members[i]
      BY <1>16, <2>2
    <3>2. /\ th[v].members[i] \in Owner /\ ses[th[v].members[i]].theater = v
          /\ ses[th[v].members[i]].sid = i
      BY <1>0, <3>1 DEF Members
    <3>3. th[v].members[i] # old
      BY <1>6, <1>10, <2>2, <3>2
    <3>4. th[v].members[i] # s /\ th[v].members[i] \in Session
      BY <1>0, <1>2, <3>2
    <3> QED
      BY <1>9, <1>11, <3>1, <3>2, <3>3, <3>4
  <2> QED
    BY <2>1, <2>2
<1>20. Counted'
  <2>1. ASSUME NEW v \in theaters
        PROVE  /\ th'[v].online = Cardinality(MemberIds(th'[v].members))
               /\ th'[v].deleting => th'[v].online <= 0
    <3>1. /\ th[v].online = Cardinality(MemberIds(th[v].members))
          /\ th[v].deleting => th[v].online <= 0
      BY <1>0 DEF Counted
    <3>2. CASE v = t
      <4>1. Cardinality(MemberIds(q.members)) = Cardinality(MemberIds(th[t].members))
        <5> DEFINE m == th[t].members
        <5>1. m \in [SessionId -> Session \cup {None}] /\ m[id] # None /\ id \in SessionId
          BY <1>3, <1>12, <1>13
        <5> HIDE DEF m
        <5>2. Cardinality(MemberIds([m EXCEPT ![id] = s])) = Cardinality(MemberIds(m))
          BY <5>1, MemberCount
        <5> QED
          BY <1>14, <5>2 DEF m
      <4>2. q.online = Cardinality(MemberIds(q.members))
        BY <1>14, <3>1, <3>2, <4>1
      <4>3. q.deleting => q.online <= 0
        BY <1>14, <3>1, <3>2
      <4> QED
        BY <1>15, <3>2, <4>2, <4>3
    <3>3. CASE v # t
      BY <1>0, <1>15, <3>1, <3>3
    <3> QED
      BY <3>2, <3>3
  <2>2. ASSUME NEW v \in Theater \ theaters PROVE th'[v] = NewTheater
    BY <1>0, <1>5, <1>15 DEF Counted
  <2> QED
    BY <1>7, <2>1, <2>2 DEF Counted, MemberIds
<1>21. Names'
  <2> SUFFICES ASSUME NEW u \in Owner'
               PROVE  /\ ses'[u].player \notin unused'
                      /\ ses'[u].player = u \/ ses'[u].player \notin alive'
    BY DEF Names
  <2>1. CASE u = s
    <3>1. p \notin unused /\ (p = old \/ p \notin alive)
      BY <1>0, <1>4, <1>10 DEF Names
    <3> QED
      BY <1>7, <1>8, <2>1, <3>1
  <2>2. CASE u # s
    <3>1. u \in Owner /\ ses'[u] = ses[u]
      BY <1>17, <2>2
    <3>2. ses[u].player \notin unused /\ (ses[u].player = u \/ ses[u].player \notin alive)
      BY <1>0, <3>1 DEF Names
    <3> QED
      BY <1>7, <3>1, <3>2
  <2> QED
    BY <2>1, <2>2
<1>22. OnlyOwner'
  <2>1. ASSUME NEW u \in Owner' PROVE pSession'[ses'[u].player] \in {u, None}
    <3>1. CASE u = s
      BY <1>4, <1>7, <1>8, <3>1 DEF TypeOK
    <3>2. CASE u # s
      <4>1. u \in Owner /\ pSession[ses[u].player] \in {u, None}
        BY <1>0, <1>17, <3>2 DEF OnlyOwner
      <4>2. ses[u].player # p /\ ses'[u] = ses[u]
        BY <1>17, <3>2
      <4>3. ses[u].player \in Player
        BY <1>0, <4>1 DEF Owner, TypeOK, SessionRecord, Player
      <4> QED
        BY <1>4, <1>7, <4>1, <4>2, <4>3 DEF TypeOK
    <3> QED
      BY <3>1, <3>2
  <2>2. ASSUME NEW u \in Owner', NEW w \in Owner', ses'[u].player = ses'[w].player PROVE u = w
    <3>1. CASE u = s \/ w = s
      BY <1>8, <1>17, <2>2, <3>1
    <3>2. CASE u # s /\ w # s
      <4>1. /\ u \in Owner /\ ses'[u] = ses[u]
            /\ w \in Owner /\ ses'[w] = ses[w]
        BY <1>17, <3>2
      <4> QED
        BY <1>0, <2>2, <4>1 DEF OnlyOwner
    <3> QED
      BY <3>1, <3>2
  <2> QED
    BY <2>1, <2>2 DEF OnlyOwner
<1>23. Owned'
  \* Whoever owned the player, somebody still does, in the same theater.
  <2>1. ASSUME NEW u \in Owner
        PROVE  \E w \in Owner' : ses'[w].player = ses[u].player /\ ses'[w].theater = ses[u].theater
    <3>1. CASE u = old
      BY <1>8, <1>10, <1>11, <3>1
    <3>2. CASE u # old
      <4>1. u \in Owner' /\ u # s /\ ses'[u] = ses[u]
        BY <1>0, <1>2, <1>9, <1>11, <3>2
      <4> QED
        BY <4>1
    <3> QED
      BY <3>1, <3>2
  <2>2. ASSUME NEW x \in inWorld' PROVE \E w \in Owner' : ses'[w].player = x
    <3>1. PICK u \in Owner : ses[u].player = x
      BY <1>0, <1>7 DEF Owned
    <3> QED
      BY <2>1, <3>1
  <2>3. ASSUME NEW v \in theaters, NEW x \in th'[v].queue
        PROVE  \E w \in Owner' : ses'[w].player = x /\ ses'[w].theater = v
    <3>1. x \in th[v].queue
      BY <1>0, <1>14, <1>15, <2>3
    <3>2. PICK u \in Owner : ses[u].player = x /\ ses[u].theater = v
      BY <1>0, <3>1 DEF Owned
    <3> QED
      BY <2>1, <3>2
  <2> QED
    BY <1>7, <2>2, <2>3 DEF Owned
<1> QED
  BY <1>18, <1>19, <1>20, <1>21, <1>22, <1>23 DEF WorldCore

\* Steps that change what the theaters hold besides their members.
LEMMA CoreQueues ==
  ASSUME TypeOK, WorldCore, UNCHANGED <<unused, alive, ses, sessions, theaters>>,
         \A t \in theaters :
           /\ th'[t].members = th[t].members /\ th'[t].online = th[t].online
           /\ th'[t].deleting = th[t].deleting,
         \A t \in Theater \ theaters : th'[t] = th[t],
         \A s \in Owner : pSession'[ses[s].player] \in {pSession[ses[s].player], s},
         \A p \in inWorld' : p \in inWorld \/ \E s \in Owner : ses[s].player = p,
         \A t \in theaters : \A p \in th'[t].queue :
           p \in th[t].queue \/ \E s \in Owner : ses[s].player = p /\ ses[s].theater = t
  PROVE  WorldCore'
<1>1. Owner' = Owner
  BY DEF Owner
<1>2. Listed'
  BY <1>1 DEF WorldCore, Listed
<1>3. Members'
  BY <1>1 DEF WorldCore, Members
<1>4. Counted'
  <2>1. \A t \in theaters : /\ th'[t].online = Cardinality(MemberIds(th'[t].members))
                            /\ th'[t].deleting => th'[t].online <= 0
    BY DEF WorldCore, Counted
  <2> QED
    BY <2>1 DEF WorldCore, Counted, MemberIds
<1>5. Names'
  BY <1>1 DEF WorldCore, Names
<1>6. OnlyOwner'
  BY <1>1 DEF WorldCore, OnlyOwner
<1>7. Owned'
  BY <1>1 DEF WorldCore, Owned
<1> QED
  BY <1>2, <1>3, <1>4, <1>5, <1>6, <1>7 DEF WorldCore

\* A player who joins its theater keeps members and owners.
LEMMA CoreJoin ==
  ASSUME TypeOK, HomeInv, WorldCore, NEW s \in Session, HandleJoinTheater(s)
  PROVE  WorldCore'
<1> DEFINE p == ses[s].player
           t == ses[s].theater
<1>0. Owner \subseteq Session /\ theaters \subseteq Theater
  BY OwnerActive DEF WorldCore, TypeOK
<1>1. s \in Owner /\ p \in Player
  <2>1. s = cur /\ s # None /\ p # None
    BY SetAssumption DEF HandleJoinTheater, CanHandle
  <2>2. s \in alive
    BY <2>1, CurAlive
  <2> QED
    BY <2>1, <2>2 DEF Owner, TypeOK, SessionRecord
<1>2. t \in theaters /\ t \in Theater
  BY <1>0, <1>1 DEF WorldCore, Listed
<1>3. UNCHANGED <<unused, alive, ses, sessions, theaters>>
  BY DEF HandleJoinTheater
<1>4. /\ \A v \in Theater \ {t} : th'[v] = th[v]
      /\ th'[t].members = th[t].members /\ th'[t].online = th[t].online
      /\ th'[t].deleting = th[t].deleting /\ th'[t].queue \subseteq th[t].queue \cup {p}
  <2>1. CASE th' = th
    BY <2>1
  <2>2. CASE th' # th
    <3> DEFINE x == IF th[t].state = "idle" THEN "waiting" ELSE th[t].state
    <3>1. th[t] \in TheaterRecord
      BY <1>2 DEF TypeOK
    <3>2. th' = [th EXCEPT ![t] = [th[t] EXCEPT !.state = x, !.queue = th[t].queue \cup {p}]]
      BY <1>2, <2>2, <3>1 DEF HandleJoinTheater, TypeOK, TheaterRecord
    <3> HIDE DEF x
    <3>3. /\ th'[t] = [th[t] EXCEPT !.state = x, !.queue = th[t].queue \cup {p}]
          /\ \A v \in Theater \ {t} : th'[v] = th[v]
      BY <1>2, <3>2 DEF TypeOK
    <3> QED
      BY <3>1, <3>3 DEF TheaterRecord
  <2> QED
    BY <2>1, <2>2
<1>5. \A u \in Owner : pSession'[ses[u].player] \in {pSession[ses[u].player], u}
  <2> SUFFICES ASSUME NEW u \in Owner PROVE pSession'[ses[u].player] \in {pSession[ses[u].player], u}
    OBVIOUS
  <2>1. CASE u = s
    BY <1>1, <2>1 DEF HandleJoinTheater, TypeOK
  <2>2. CASE u # s
    <3>1. ses[u].player # p
      BY <1>1, <2>2 DEF WorldCore, OnlyOwner
    <3>2. ses[u].player \in Player
      BY <1>0 DEF Owner, TypeOK, SessionRecord
    <3> QED
      BY <1>1, <3>1, <3>2 DEF HandleJoinTheater, TypeOK
  <2> QED
    BY <2>1, <2>2
<1>6. \A x \in inWorld' : x \in inWorld \/ \E u \in Owner : ses[u].player = x
  BY <1>1 DEF HandleJoinTheater
<1> HIDE DEF p
<1>7. \A v \in theaters : \A x \in th'[v].queue :
        x \in th[v].queue \/ \E u \in Owner : ses[u].player = x /\ ses[u].theater = v
  <2> SUFFICES ASSUME NEW v \in theaters, NEW x \in th'[v].queue, x \notin th[v].queue
               PROVE  \E u \in Owner : ses[u].player = x /\ ses[u].theater = v
    OBVIOUS
  <2>1. v = t /\ x = p
    BY <1>0, <1>4
  <2> QED
    BY <1>1, <2>1 DEF p
<1> QED
  BY <1>0, <1>2, <1>3, <1>4, <1>5, <1>6, <1>7, CoreQueues

\* The update of the theaters keeps members and owners.
LEMMA CoreUpdate ==
  ASSUME TypeOK, WorldCore, NEW P \in SUBSET Theater, UpdateTheaters(P)
  PROVE  WorldCore'
<1>0. theaters \subseteq Theater
  BY DEF TypeOK
<1>1. UNCHANGED <<unused, alive, ses, sessions, theaters, pSession>>
  BY DEF UpdateTheaters
<1>2. \A t \in Theater : th'[t] = IF t \in theaters THEN UpdatedTheater(t, t \in P) ELSE th[t]
  BY DEF UpdateTheaters
<1>3. ASSUME NEW t \in theaters
      PROVE  /\ th'[t].members = th[t].members /\ th'[t].online = th[t].online
             /\ th'[t].deleting = th[t].deleting /\ th'[t].queue \subseteq th[t].queue
  <2>1. th'[t] = UpdatedTheater(t, t \in P) /\ th[t] \in TheaterRecord
    BY <1>0, <1>2 DEF TypeOK
  <2> QED
    BY <2>1 DEF UpdatedTheater, TheaterRecord
<1>4. ASSUME NEW p \in inWorld'
      PROVE  p \in inWorld \/ \E s \in Owner : ses[s].player = p
  <2>1. CASE p \in inWorld
    BY <2>1
  <2>2. CASE p \notin inWorld
    <3>1. PICK t \in theaters : p \in th[t].queue
      BY <1>4, <2>2 DEF UpdateTheaters
    <3> QED
      BY <3>1 DEF WorldCore, Owned
  <2> QED
    BY <2>1, <2>2
<1> QED
  BY <1>0, <1>1, <1>2, <1>3, <1>4, CoreQueues

\* A theater is deleted only when nobody is in it, or when nobody is left at all.
LEMMA CorePurge ==
  ASSUME TypeOK, WorldCore, LastUpdate, NEW D \in SUBSET Theater, PurgeTheaters(D)
  PROVE  WorldCore'
<1>0. /\ Listed /\ Members /\ Counted /\ Names /\ OnlyOwner /\ Owned
      /\ Owner \subseteq Active /\ theaters \subseteq Theater
  BY OwnerActive DEF WorldCore, TypeOK
<1>1. /\ theaters' = theaters \ D /\ UNCHANGED <<unused, alive, ses, sessions, inWorld, pSession>>
      /\ \A t \in Theater : th'[t] = IF t \in D THEN NewTheater ELSE th[t]
      /\ phase = "purge"
  BY DEF PurgeTheaters
<1>2. Owner' = Owner
  BY <1>1 DEF Owner
<1>3. ASSUME NEW s \in Owner PROVE ses[s].theater \notin D
  <2>1. ses[s].theater \in theaters /\ ses[s].sid \in SessionId /\ s \in Session
        /\ th[ses[s].theater].members[ses[s].sid] = s
    BY <1>0 DEF Listed, Owner, TypeOK
  <2>2. CASE isStopped
    <3>1. Active = {}
      BY <1>1, <2>2 DEF LastUpdate
    <3> QED
      BY <1>0, <3>1
  <2>3. CASE ~isStopped
    <3> SUFFICES ASSUME ses[s].theater \in D PROVE FALSE
      OBVIOUS
    <3> DEFINE t == ses[s].theater
    <3>1. th[t].deleting /\ t \in Theater
      BY <1>0, <2>1, <2>3 DEF PurgeTheaters
    <3>2. th[t].online <= 0 /\ th[t].online = Cardinality(MemberIds(th[t].members))
      BY <1>0, <2>1, <3>1 DEF Counted
    <3>3. th[t].members \in [SessionId -> Session \cup {None}]
      BY <3>1 DEF TypeOK, TheaterRecord
    <3> HIDE DEF t
    <3>4. Cardinality(MemberIds(th[t].members)) \in Nat
      BY <2>1, <3>3, MemberCount
    <3>5. Cardinality(MemberIds(th[t].members)) = 0
      BY <3>2, <3>4
    <3>6. \A i \in SessionId : th[t].members[i] = None
      BY <2>1, <3>3, <3>5, MemberCount
    <3> QED
      BY <2>1, <3>6, SetAssumption DEF t
  <2> QED
    BY <2>2, <2>3
<1>4. \A t \in theaters' : t \in theaters /\ th'[t] = th[t]
  BY <1>0, <1>1
<1>5. \A s \in Owner : ses[s].theater \in theaters => ses[s].theater \in theaters'
  BY <1>1, <1>3
<1>6. Listed'
  <2> SUFFICES ASSUME NEW s \in Owner'
               PROVE  /\ ses'[s].authed /\ ses'[s].sid \in SessionId /\ sessions'[ses'[s].sid] = s
                      /\ ses'[s].theater \in theaters'
                      /\ th'[ses'[s].theater].members[ses'[s].sid] = s
    BY DEF Listed
  <2>1. s \in Owner
    BY <1>2
  <2>2. /\ ses[s].authed /\ ses[s].sid \in SessionId /\ sessions[ses[s].sid] = s
        /\ ses[s].theater \in theaters /\ th[ses[s].theater].members[ses[s].sid] = s
    BY <1>0, <2>1 DEF Listed
  <2>3. ses[s].theater \in theaters' /\ th'[ses[s].theater] = th[ses[s].theater]
    BY <1>4, <1>5, <2>1, <2>2
  <2> QED
    BY <1>1, <2>2, <2>3
<1>7. Members'
  BY <1>0, <1>1, <1>2, <1>4 DEF Members
<1>8. Counted'
  <2>1. \A t \in theaters' : /\ th'[t].online = Cardinality(MemberIds(th'[t].members))
                             /\ th'[t].deleting => th'[t].online <= 0
    BY <1>0, <1>4 DEF Counted
  <2>2. \A t \in Theater \ theaters' : th'[t] = NewTheater
    BY <1>0, <1>1 DEF Counted
  <2> QED
    BY <2>1, <2>2 DEF Counted, MemberIds
<1>9. Names' /\ OnlyOwner'
  BY <1>0, <1>1, <1>2 DEF Names, OnlyOwner
<1>10. Owned'
  BY <1>0, <1>1, <1>2, <1>4 DEF Owned
<1> QED
  BY <1>6, <1>7, <1>8, <1>9, <1>10 DEF WorldCore

\* Every step keeps members and owners.
LEMMA WorldNext ==
  ASSUME TypeOK, HomeInv, WorldInv, [Next]_vars
  PROVE  WorldInv'
<1>1. AuthedActive /\ WorldCore /\ LastUpdate
  BY DEF WorldInv
<1>2. AuthedActive' /\ LastUpdate'
  BY <1>1, AuthNext, LastNext
<1>3. CASE Quiet \/ Destructor
  <2>1. CASE Session = {}
    <3>1. UNCHANGED <<unused, sessions, worldVars>> /\ alive' \subseteq alive
      BY <1>3, QuietFrame DEF Destructor
    <3>2. Owner = {} /\ Owner' = {}
      BY <2>1, <3>1 DEF Owner, TypeOK
    <3>3. WorldCore'
      BY <1>1, <3>1, <3>2, CoreKept
    <3> QED
      BY <1>2, <3>3 DEF WorldInv
  <2>2. CASE Session # {}
    <3>1. WorldCore'
      BY <1>1, <1>3, <2>2, CoreContainers
    <3> QED
      BY <1>2, <3>1 DEF WorldInv
  <2> QED
    BY <2>1, <2>2
<1>4. ASSUME NEW P \in SUBSET Theater, UpdateTheaters(P) \/ PurgeTheaters(P) PROVE WorldInv'
  BY <1>1, <1>2, <1>4, CoreUpdate, CorePurge DEF WorldInv
<1>5. ASSUME NEW s \in Session,
             \/ \E id \in SessionId \cup {None}, kind \in ClientKind : AuthProof(s, id, kind)
             \/ AddExpiredPlayer(s) \/ AddQueuedPlayer(s)
             \/ \E id \in SessionId :
                  AddGMSession(s, id) \/ AddPendingSession(s, id) \/ UpdateEndAdmitted(s, id)
      PROVE  WorldInv'
  <2>1. WorldCore'
    BY <1>1, <1>5, CoreContainers
  <2> QED
    BY <1>2, <2>1 DEF WorldInv
<1>6. ASSUME NEW s \in Session, UpdateEndDropped(s) \/ HandlePlayerLogout(s) PROVE WorldInv'
  <2>1. s = cur /\ cur # None
    BY <1>6, SetAssumption DEF UpdateEndDropped, HandlePlayerLogout, LoggedIn
  <2>2. s \in alive
    BY <2>1, CurAlive
  <2>3. WorldCore'
    BY <1>1, <1>6, <2>2, CoreLeave
  <2> QED
    BY <1>2, <2>3 DEF WorldInv
<1>7. ASSUME NEW s \in Session,
             RestoreSession(s) \/ HandleJoinTheater(s) \/ \E t \in Theater : HandlePlayerLogin(s, t)
      PROVE  WorldInv'
  BY <1>1, <1>2, <1>7, CoreRestore, CoreJoin, CoreLogin DEF WorldInv
<1> QED
  BY <1>3, <1>4, <1>5, <1>6, <1>7, NextCases

\* A session with a player is accepted and listed by an existing theater under its id,
\* and a theater lists and counts exactly those sessions: no theater is deleted or reset
\* under its players, also when a session takes over the player of another one.
THEOREM MembersCorrect == Spec => []MembersAgree
<1>1. Init => TypeOK /\ HomeInv /\ WorldInv
  BY TypeInit, HomeInit, WorldInit
<1>2. TypeOK /\ HomeInv /\ WorldInv /\ [Next]_vars => (TypeOK /\ HomeInv /\ WorldInv)'
  BY TypeNext, HomeNext, WorldNext
<1>3. TypeOK /\ WorldInv => MembersAgree
  BY WorldImplies
<1> QED
  BY <1>1, <1>2, <1>3, PTL DEF Spec

\* A player in the world or waiting for its battle belongs to exactly one live session,
\* and its back pointer is null or leads to that session.
THEOREM OwnershipCorrect == Spec => []PlayerOwned
<1>1. Init => TypeOK /\ HomeInv /\ WorldInv
  BY TypeInit, HomeInit, WorldInit
<1>2. TypeOK /\ HomeInv /\ WorldInv /\ [Next]_vars => (TypeOK /\ HomeInv /\ WorldInv)'
  BY TypeNext, HomeNext, WorldNext
<1>3. TypeOK /\ WorldInv => PlayerOwned
  BY WorldImplies
<1> QED
  BY <1>1, <1>2, <1>3, PTL DEF Spec

-----------------------------------------------------------------------------
(***************************************************************************)
(* The shutdown: every session of the game and of the waiting list was      *)
(* kicked, so each is dropped when its loop reaches it, the waiting list    *)
(* shrinks at its head, and what is left for the destructor is in the       *)
(* pending queue or expired.                                                *)
(***************************************************************************)
CleanPass ==
    /\ isStopped /\ phase = "queued" => pos = 1
    /\ isStopped /\ phase \notin {"sessions", "queued"} => queued = <<>>
    /\ phase \in {"stopped", "offline"} => isStopped /\ theaters = {}
    /\ phase # "aborted"
    /\ phase = "destroyed" => isStopped /\ pending = <<>>

\* What is left of the containers after the destructor is the expired sessions.
LEMMA CleanImplies ==
  ASSUME TypeOK, HomeInv, LastUpdate, CleanPass
  PROVE  ShutdownIsClean
<1>1. CASE phase # "destroyed"
  BY <1>1 DEF CleanPass, ShutdownIsClean
<1>2. CASE phase = "destroyed"
  <2>1. Active = {} /\ queued = <<>> /\ pending = <<>>
    BY <1>2 DEF CleanPass, LastUpdate
  <2>2. Elements(queued) = {} /\ Elements(pending) = {}
    BY <2>1 DEF Elements
  <2>3. alive = expired
    BY <2>1, <2>2 DEF HomeInv, OneHome
  <2> QED
    BY <1>2, <2>3 DEF ShutdownIsClean
<1> QED
  BY <1>1, <1>2

\* In the last update nobody is kept in the waiting list or admitted from it.
LEMMA LastGone ==
  ASSUME TypeOK, HomeInv, LastUpdate, isStopped, phase = "queued", NEW s \in Session, s = cur
  PROVE  Gone(s)
<1>1. s # None
  BY SetAssumption
<1>2. pos \in 1..Len(queued) /\ queued[pos] = s
  BY <1>1 DEF HomeInv, CurAtHome
<1>3. s \in Elements(queued)
  BY <1>2 DEF Elements
<1> QED
  BY <1>3 DEF LastUpdate, Gone

\* Every step keeps the waiting list and the theaters on their way to nothing.
LEMMA CleanNext ==
  ASSUME TypeOK, HomeInv, LastUpdate, CleanPass, [Next]_vars
  PROVE  CleanPass'
<1>0. isStopped => phase \notin {"idle", "pending"}
  BY DEF LastUpdate
<1>1. ASSUME UNCHANGED <<phase, pos, isStopped, queued, theaters>>,
             phase = "destroyed" => UNCHANGED pending
      PROVE  CleanPass'
  BY <1>1 DEF CleanPass
<1>2. CASE Quiet
  <2>0. UNCHANGED listVars /\ UNCHANGED worldVars
    BY <1>2, QuietFrame
  <2>1. UNCHANGED <<pending, queued, theaters>>
    BY <2>0 DEF listVars, worldVars
  <2>2. CASE UNCHANGED <<phase, pos, isStopped>>
    BY <1>1, <2>1, <2>2
  <2>3. CASE BeginUpdate \/ BeginLastUpdate \/ PendingDone
    <3>1. phase' \in {"pending", "sessions"} /\ (isStopped' => phase' = "sessions")
      BY <1>0, <2>3 DEF BeginUpdate, BeginLastUpdate, PendingDone
    <3> QED
      BY <3>1 DEF CleanPass
  <2>4. CASE SessionsDone
    BY <2>1, <2>4 DEF SessionsDone, CleanPass
  <2>5. CASE QueuedDone
    <3>1. isStopped => Len(queued) = 0
      BY <2>5 DEF QueuedDone, CleanPass, TypeOK
    <3>2. isStopped => queued = <<>>
      BY <3>1 DEF TypeOK
    <3> QED
      BY <2>1, <2>5, <3>2 DEF QueuedDone, CleanPass
  <2>6. CASE ExpiredDone
    BY <2>1, <2>6 DEF ExpiredDone, CleanPass
  <2>7. CASE StopNetwork
    BY <2>1, <2>7 DEF StopNetwork, CleanPass
  <2>8. ASSUME NEW s \in Session, UpdateEndKept(s) PROVE CleanPass'
    <3>1. s = cur /\ ~Gone(s) /\ UNCHANGED <<phase, isStopped>>
          /\ (phase # "queued" => pos' = pos)
          /\ phase \in {"sessions", "queued", "expired"}
      BY <2>8 DEF UpdateEndKept
    <3>2. isStopped => phase # "queued"
      BY <3>1, LastGone
    <3> QED
      BY <2>1, <3>1, <3>2 DEF CleanPass
  <2> QED
    BY <1>2, <2>2, <2>3, <2>4, <2>5, <2>6, <2>7, <2>8
    DEF Quiet, vars, loopVars, stopVars, Stop, Ping, Disconnect, UpdateBegin, HandleOffence
<1>3. CASE Destructor
  <2>1. isStopped /\ theaters = {} /\ queued = <<>> /\ phase = "offline"
    BY <1>3 DEF Destructor, CleanPass
  <2>2. Active = {}
    BY <2>1 DEF LastUpdate
  <2> QED
    BY <1>3, <2>1, <2>2 DEF Destructor, CleanPass
<1>4. ASSUME NEW P \in SUBSET Theater, UpdateTheaters(P) PROVE CleanPass'
  BY <1>4 DEF UpdateTheaters, CleanPass
<1>5. ASSUME NEW D \in SUBSET Theater, PurgeTheaters(D) PROVE CleanPass'
  BY <1>5 DEF PurgeTheaters, CleanPass
<1>6. ASSUME NEW s \in Session, NEW id \in SessionId \cup {None}, NEW kind \in ClientKind,
             AuthProof(s, id, kind)
      PROVE  CleanPass'
  <2>1. phase # "destroyed" /\ UNCHANGED <<phase, pos, isStopped, queued, theaters>>
    BY <1>6 DEF AuthProof, NetworkUp
  <2> QED
    BY <1>1, <2>1
<1>7. ASSUME NEW s \in Session, AtPending(s), UNCHANGED <<phase, pos, isStopped>> PROVE CleanPass'
  <2>1. phase = "pending" /\ ~isStopped
    BY <1>0, <1>7 DEF AtPending
  <2> QED
    BY <1>7, <2>1 DEF CleanPass
<1>8. ASSUME NEW s \in Session,
             \/ RestoreSession(s) \/ AddExpiredPlayer(s) \/ AddQueuedPlayer(s)
             \/ \E id \in SessionId : AddGMSession(s, id) \/ AddPendingSession(s, id)
      PROVE  CleanPass'
  BY <1>7, <1>8 DEF RestoreSession, AddExpiredPlayer, AddQueuedPlayer, AddGMSession,
                    AddPendingSession
<1>9. ASSUME NEW s \in Session, UpdateEndDropped(s) PROVE CleanPass'
  <2>1. UNCHANGED <<phase, pos, isStopped, pending, theaters>>
        /\ phase \in {"sessions", "queued", "expired"}
        /\ (phase # "queued" => queued' = queued)
    BY <1>9 DEF UpdateEndDropped
  <2> QED
    BY <2>1 DEF CleanPass
<1>10. ASSUME NEW s \in Session, NEW id \in SessionId, UpdateEndAdmitted(s, id) PROVE CleanPass'
  <2>1. s = cur /\ ~Gone(s) /\ phase = "queued" /\ UNCHANGED <<phase, isStopped>>
    BY <1>10 DEF UpdateEndAdmitted
  <2>2. ~isStopped
    BY <2>1, LastGone
  <2> QED
    BY <2>1, <2>2 DEF CleanPass
<1>11. ASSUME NEW s \in Session,
              \/ \E t \in Theater : HandlePlayerLogin(s, t)
              \/ HandleJoinTheater(s) \/ HandlePlayerLogout(s)
       PROVE  CleanPass'
  <2>1. s = cur /\ s # None /\ UNCHANGED <<phase, pos, isStopped, queued, pending>>
    BY <1>11, SetAssumption
    DEF HandlePlayerLogin, HandleJoinTheater, HandlePlayerLogout, CanHandle, LoggedIn
  <2>2. phase \in {"sessions", "queued", "expired"}
    BY <2>1 DEF HomeInv, CurAtHome
  <2> QED
    BY <2>1, <2>2 DEF CleanPass
<1> QED
  BY <1>2, <1>3, <1>4, <1>5, <1>6, <1>8, <1>9, <1>10, <1>11, NextCases

\* Whenever the server is told to stop, the assertions of the destructor hold, and no
\* session but the expired ones is left (kickAll, the last update, ~TheaterManager).
THEOREM ShutdownCorrect == Spec => []ShutdownIsClean
<1>1. Init => TypeOK /\ HomeInv /\ WorldInv /\ CleanPass
  BY TypeInit, HomeInit, WorldInit DEF Init, CleanPass
<1>2. TypeOK /\ HomeInv /\ WorldInv /\ CleanPass /\ [Next]_vars
        => (TypeOK /\ HomeInv /\ WorldInv /\ CleanPass)'
  BY TypeNext, HomeNext, WorldNext, CleanNext DEF WorldInv
<1>3. TypeOK /\ HomeInv /\ WorldInv /\ CleanPass => ShutdownIsClean
  BY CleanImplies DEF WorldInv
<1> QED
  BY <1>1, <1>2, <1>3, PTL DEF Spec
=============================================================================
