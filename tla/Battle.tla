------------------------------- MODULE Battle -------------------------------
(***************************************************************************)
(* One theater and its battle (game/theater/Theater.cpp,                    *)
(* game/maps/BattleMap.cpp, game/maps/SpawnManager.cpp, the life and death  *)
(* of players and robots in game/behaviors).                                *)
(*                                                                          *)
(* A tick alternates between the main thread, which handles the messages of *)
(* the sessions (login, join, logout, game master commands) and calls       *)
(* Theater::advancedUpdate(), and a worker, which calls Theater::update():  *)
(* the units are updated one by one, may die meanwhile, and the state of    *)
(* the battle is updated last.                                              *)
(*                                                                          *)
(* Abstractions.  A player is named after its session; where units are and  *)
(* who hits whom is left open, so a unit may die whenever the code lets     *)
(* damage through; the durations of waiting and of the preparation are left *)
(* open, the withdrawal delay is counted in updates.                        *)
(***************************************************************************)
EXTENDS Integers, FiniteSets

CONSTANTS
    Player, Robot,          \* the objects that may exist
    PopulationCap,          \* MapData::getPopulationCap()
    WithdrawalDelay,        \* CONFIG_WITHDRAWAL_DELAY, in updates
    GMCommand               \* the commands game masters use

ASSUME UnitAssumption == IsFiniteSet(Player) /\ IsFiniteSet(Robot) /\ Player \cap Robot = {}
ASSUME CapAssumption == PopulationCap \in Nat \ {0}
ASSUME BattleAssumption ==
    /\ WithdrawalDelay \in Nat
    /\ GMCommand \subseteq {"die", "receivedamage", "add", "del"}

Unit == Player \cup Robot

VARIABLES
    online,         \* players with a session in the theater (m_sessions)
    waiting,        \* m_pendingPlayers of the SpawnManager
    state,          \* Theater::m_state
    prepared,       \* prepareForBattle() was called since the last battle began
    isTrainingGround, \* the combat grade of the map is that of trainees
    battleState,    \* BattleMap::m_battleState; NONE exactly when m_isStopped
    inWorld,        \* units on the map
    unit,           \* the fields of each unit
    aliveCounter, playerInBattleCounter, rankTotal,
    phase,          \* what runs: the sessions, Theater::update(), BattleMap::update();
                    \* "aborted" after a failed assertion
    toUpdate,       \* units whose update() the current tick has not called yet
    joinedLate,     \* history: a unit entered a battle that had begun
    killedTwice     \* history: a command killed a dead unit

theaterVars == <<online, waiting, state, prepared>>
mapVars == <<isTrainingGround, battleState, rankTotal>>
unitVars == <<inWorld, unit, aliveCounter, playerInBattleCounter>>
loopVars == <<phase, toUpdate>>
historyVars == <<joinedLate, killedTwice>>
vars == <<theaterVars, mapVars, unitVars, loopVars, historyVars>>

UnitRecord ==
    [alive : BOOLEAN,
     withdrawal : {"NONE", "WITHDRAWING", "WITHDREW"},
     timer : Nat,
     outcome : {"none", "VICTORY", "DEFEAT"},
     rankNo : Nat]

NewUnit == [alive |-> TRUE, withdrawal |-> "NONE", timer |-> 0, outcome |-> "none", rankNo |-> 0]

TypeOK ==
    /\ online \in SUBSET Player /\ waiting \in SUBSET Player
    /\ state \in {"IDLE", "WAITING_FOR_PLAYERS", "PLAYERS_IN_PLACE", "ACTIVE"}
    /\ prepared \in BOOLEAN /\ isTrainingGround \in BOOLEAN
    /\ battleState \in {"NONE", "PREPARING", "IN_PROGRESS", "ENDING", "ENDED"}
    /\ inWorld \in SUBSET Unit
    /\ unit \in [Unit -> UnitRecord]
    /\ aliveCounter \in Int   \* below zero only once an assertion has failed
    /\ playerInBattleCounter \in Nat /\ rankTotal \in Int
    /\ phase \in {"sessions", "update", "units", "aborted"}
    /\ toUpdate \in SUBSET Unit
    /\ joinedLate \in BOOLEAN /\ killedTwice \in BOOLEAN

Init ==
    /\ online = {} /\ waiting = {} /\ state = "IDLE" /\ prepared = FALSE
    /\ isTrainingGround = FALSE /\ battleState = "NONE" /\ rankTotal = 0
    /\ inWorld = {} /\ unit = [u \in Unit |-> NewUnit]
    /\ aliveCounter = 0 /\ playerInBattleCounter = 0
    /\ phase = "sessions" /\ toUpdate = {}
    /\ joinedLate = FALSE /\ killedTwice = FALSE

OnlineCount == Cardinality(online)
PlayerList == inWorld \cap Player
Robots == inWorld \cap Robot

IsAllPlayersHere == OnlineCount = Cardinality(PlayerList)
CanJoinBattle == battleState = "NONE"
IsSleepState == online = {} /\ state = "IDLE"

-----------------------------------------------------------------------------
(***************************************************************************)
(* Units enter, die and leave.                                              *)
(***************************************************************************)

\* Player::addToWorld() and Robot::addToWorld() of all units in U.
AddToWorld(U) ==
    /\ inWorld' = inWorld \cup U
    /\ unit' = [u \in Unit |-> IF u \in U THEN NewUnit ELSE unit[u]]
    /\ aliveCounter' = aliveCounter + Cardinality(U)
    /\ playerInBattleCounter' = playerInBattleCounter + Cardinality(U \cap Player)

\* Player::removeFromWorld() and Robot::removeFromWorld(); the object is deleted or
\* reset before it is used again.
RemoveFromWorld(U) ==
    LET gone == U \cap inWorld
        alive == {u \in gone : unit[u].alive}
        inBattle == {p \in gone \cap Player : unit[p].withdrawal # "WITHDREW"}
    IN
    /\ inWorld' = inWorld \ gone
    /\ unit' = [u \in Unit |-> IF u \in gone THEN NewUnit ELSE unit[u]]
    /\ aliveCounter' = aliveCounter - Cardinality(alive)
    /\ playerInBattleCounter' = playerInBattleCounter - Cardinality(inBattle)

\* Units that leave alive are taken off the count by decreaseAliveCounter(), which
\* asserts that somebody is alive.
RemoveFails(U) == aliveCounter < Cardinality({u \in U \cap inWorld : unit[u].alive})

\* Unit::withdrawDelayed()
WithdrawDelayed(r, outcome, rankNo) ==
    IF r.withdrawal # "NONE" THEN r
    ELSE [r EXCEPT !.withdrawal = "WITHDRAWING", !.timer = WithdrawalDelay,
                   !.outcome = outcome, !.rankNo = rankNo]

\* Mutant: the rank is the number of those left.
MutKilled(u, r) ==
    LET left == aliveCounter - 1
        withdraws == IF u \in Player THEN ~isTrainingGround ELSE left > 0
    IN  IF withdraws THEN WithdrawDelayed(r, IF left > 0 THEN "DEFEAT" ELSE "VICTORY", left)
        ELSE r

\* BattleMap::playerKilled() and robotKilled(): the counter is decreased first, so
\* the rank is one more than the number of those left.
Killed(u, r) ==
    LET left == aliveCounter - 1
        withdraws == IF u \in Player THEN ~isTrainingGround ELSE left > 0
    IN  IF withdraws THEN WithdrawDelayed(r, IF left > 0 THEN "DEFEAT" ELSE "VICTORY", left + 1)
        ELSE r

\* Player::died() and Robot::died(); decreaseAliveCounter() asserts that somebody is
\* alive.
Died(u) ==
    /\ \/ /\ aliveCounter > 0
          /\ unit' = [unit EXCEPT ![u] = Killed(u, [@ EXCEPT !.alive = FALSE])]
          /\ aliveCounter' = aliveCounter - 1
          /\ phase' = phase
       \/ /\ aliveCounter <= 0
          /\ phase' = "aborted"
          /\ UNCHANGED <<unit, aliveCounter>>
    /\ UNCHANGED <<inWorld, playerInBattleCounter>>

-----------------------------------------------------------------------------
(***************************************************************************)
(* The main thread: messages of the sessions.                               *)
(***************************************************************************)

(***************************************************************************)
(* Theater::acceptSession() and addSession().  A sleeping theater is        *)
(* configured for the player, who may be a trainee; a theater that is       *)
(* awake takes neither trainees nor anybody on a training ground.  Whether  *)
(* the combat grade and the map suit the player otherwise is left open.     *)
(***************************************************************************)
AddSession(p, trainee) ==
    /\ phase = "sessions" /\ p \notin online
    /\ OnlineCount + Cardinality(Robots) < PopulationCap
    /\ CanJoinBattle
    /\ IsSleepState \/ ~(trainee \/ isTrainingGround)
    /\ online' = online \cup {p}
    /\ prepared' = (prepared \/ IsSleepState)
    /\ isTrainingGround' = IF IsSleepState THEN trainee ELSE isTrainingGround
    /\ UNCHANGED <<waiting, state, battleState, rankTotal, unitVars, loopVars, historyVars>>

\* handleJoinTheater() of a player not on the map: waits, or enters the running battle.
JoinTheater(p) ==
    /\ phase = "sessions" /\ p \in online \ inWorld
    /\ \/ /\ state \in {"IDLE", "WAITING_FOR_PLAYERS"}
          /\ state' = "WAITING_FOR_PLAYERS"
          /\ waiting' = waiting \cup {p}
          /\ UNCHANGED <<unitVars, joinedLate>>
       \/ /\ state = "ACTIVE"
          /\ AddToWorld({p})
          /\ joinedLate' = TRUE
          /\ UNCHANGED <<state, waiting>>
    /\ UNCHANGED <<online, prepared, mapVars, loopVars, killedTwice>>

\* WorldSession::logoutPlayer(): removePlayerFromQueue(), removeSession(),
\* removePlayerFromMap().
LogoutPlayer(p) ==
    /\ phase = "sessions" /\ p \in online
    /\ online' = online \ {p}
    /\ waiting' = waiting \ {p}
    /\ RemoveFromWorld({p})
    /\ phase' = IF RemoveFails({p}) THEN "aborted" ELSE phase
    /\ UNCHANGED <<state, prepared, mapVars, toUpdate, historyVars>>

\* The commands of game masters on the map.
ExecuteDieCommand(u) ==
    /\ "die" \in GMCommand
    /\ phase = "sessions" /\ PlayerList # {} /\ u \in inWorld
    /\ unit[u].alive
    /\ Died(u)
    /\ UNCHANGED <<theaterVars, mapVars, toUpdate, historyVars>>

\* dealDamage() kills a unit whose health does not exceed the damage; the health of
\* a dead one is 0.
ExecuteReceiveDamageCommand(u) ==
    /\ "receivedamage" \in GMCommand
    /\ phase = "sessions" /\ PlayerList # {} /\ u \in inWorld
    /\ Died(u)
    /\ killedTwice' = (killedTwice \/ ~unit[u].alive)
    /\ UNCHANGED <<theaterVars, mapVars, toUpdate, joinedLate>>

AddRobotCommand(u) ==
    /\ "add" \in GMCommand
    /\ phase = "sessions" /\ PlayerList # {} /\ u \in Robot \ inWorld
    /\ AddToWorld({u})
    /\ joinedLate' = TRUE
    /\ UNCHANGED <<theaterVars, mapVars, loopVars, killedTwice>>

DelRobotCommand(u) ==
    /\ "del" \in GMCommand
    /\ phase = "sessions" /\ PlayerList # {} /\ u \in Robots
    /\ RemoveFromWorld({u})
    /\ phase' = IF RemoveFails({u}) THEN "aborted" ELSE phase
    /\ UNCHANGED <<theaterVars, mapVars, toUpdate, historyVars>>

-----------------------------------------------------------------------------
(***************************************************************************)
(* Theater::advancedUpdate() and update().                                  *)
(***************************************************************************)

\* SpawnManager::fillRobotsIfNeeded(): how many robots are missing; the players who
\* are online and have not joined yet keep their places.
MissingRobots ==
    LET n == PopulationCap - OnlineCount - Cardinality(Robots)
    IN  IF isTrainingGround \/ n <= 0 THEN 0 ELSE n

\* advancedUpdate() when the wait is over and a player is there: onPlayersInPlace().
PlayersInPlace(R) ==
    /\ phase = "sessions"
    /\ state = "WAITING_FOR_PLAYERS" /\ waiting # {}
    /\ Cardinality(R) = MissingRobots
    /\ AddToWorld(waiting \cup R)
    /\ waiting' = {}
    /\ state' = "PLAYERS_IN_PLACE"
    /\ phase' = "update"
    /\ UNCHANGED <<online, prepared, mapVars, toUpdate, historyVars>>

\* advancedUpdate() otherwise.
AdvancedUpdate ==
    /\ phase = "sessions"
    /\ phase' = "update"
    /\ UNCHANGED <<theaterVars, mapVars, unitVars, toUpdate, historyVars>>

\* Theater::update(): BattleMap::onStart() and restart().
OnStart ==
    /\ phase = "update" /\ state = "PLAYERS_IN_PLACE"
    /\ rankTotal' = aliveCounter
    /\ battleState' = IF isTrainingGround THEN "IN_PROGRESS" ELSE "PREPARING"
    /\ state' = "ACTIVE"
    /\ prepared' = FALSE
    /\ joinedLate' = FALSE
    /\ phase' = "units" /\ toUpdate' = inWorld
    /\ UNCHANGED <<online, waiting, isTrainingGround, unitVars, killedTwice>>

\* Theater::update(): everybody has left; BattleMap::onStop() cleans up the grids.
OnStop ==
    /\ phase = "update" /\ state \in {"WAITING_FOR_PLAYERS", "ACTIVE"} /\ online = {}
    /\ IF state = "ACTIVE" THEN RemoveFromWorld(Robots) /\ battleState' = "NONE"
       ELSE UNCHANGED <<unitVars, battleState>>
    /\ state' = "IDLE"
    /\ phase' = IF state = "ACTIVE" /\ RemoveFails(Robots) THEN "aborted" ELSE "sessions"
    /\ UNCHANGED <<online, waiting, prepared, isTrainingGround, rankTotal, toUpdate, historyVars>>

\* Theater::update(): the map is updated unless its battle has ended.
BeginMapUpdate ==
    /\ phase = "update" /\ state = "ACTIVE" /\ online # {} /\ battleState # "ENDED"
    /\ phase' = "units" /\ toUpdate' = inWorld
    /\ UNCHANGED <<theaterVars, mapVars, unitVars, historyVars>>

NoMapUpdate ==
    /\ phase = "update"
    /\ \/ state = "IDLE"
       \/ state = "WAITING_FOR_PLAYERS" /\ online # {}
       \/ state = "ACTIVE" /\ online # {} /\ battleState = "ENDED"
    /\ phase' = "sessions"
    /\ UNCHANGED <<theaterVars, mapVars, unitVars, toUpdate, historyVars>>

-----------------------------------------------------------------------------
(***************************************************************************)
(* BattleMap::update()                                                      *)
(***************************************************************************)

\* A projectile kills in the battle, the danger zone also while it is ending.
UnitDies(u) ==
    /\ phase = "units" /\ u \in inWorld
    /\ unit[u].alive
    /\ battleState = "IN_PROGRESS" \/ (battleState = "ENDING" /\ ~isTrainingGround)
    /\ Died(u)
    /\ UNCHANGED <<theaterVars, mapVars, toUpdate, historyVars>>

\* Mutant: the player stays counted.
MutWithdraw(u) ==
    /\ unit' = [unit EXCEPT ![u].withdrawal = "WITHDREW", ![u].timer = 0]
    /\ UNCHANGED <<inWorld, aliveCounter, playerInBattleCounter>>

\* Player::withdraw() takes the player out of the count, Robot::withdraw() takes the
\* robot off the map.
Withdraw(u) ==
    IF u \in Player
    THEN /\ unit' = [unit EXCEPT ![u].withdrawal = "WITHDREW", ![u].timer = 0]
         /\ playerInBattleCounter' = playerInBattleCounter - 1
         /\ UNCHANGED <<inWorld, aliveCounter>>
    ELSE RemoveFromWorld({u})

\* Unit::updateWithdrawalTimer(), the part of a unit's update() that matters here.
UpdateUnit(u) ==
    /\ phase = "units" /\ u \in toUpdate
    /\ toUpdate' = toUpdate \ {u}
    /\ LET timer == IF unit[u].timer <= 0 THEN unit[u].timer ELSE unit[u].timer - 1 IN
       \/ unit[u].withdrawal # "WITHDRAWING" /\ UNCHANGED unitVars
       \/ /\ unit[u].withdrawal = "WITHDRAWING" /\ timer > 0
          /\ unit' = [unit EXCEPT ![u].timer = timer]
          /\ UNCHANGED <<inWorld, aliveCounter, playerInBattleCounter>>
       \/ unit[u].withdrawal = "WITHDRAWING" /\ timer <= 0 /\ Withdraw(u)
    /\ UNCHANGED <<theaterVars, mapVars, phase, historyVars>>

\* Mutant: the players who have not arrived yet are not waited for.
MutIsOver ==
    /\ PopulationCap > 1
    /\ aliveCounter <= 1
    /\ ~isTrainingGround \/ Robots # {}

\* When a battle in progress is over.
IsOver ==
    /\ PopulationCap > 1
    /\ aliveCounter <= 1 /\ IsAllPlayersHere
    /\ ~isTrainingGround \/ Robots # {}

HaveAllWithdrawn == playerInBattleCounter <= 0

Victors == IF isTrainingGround THEN {} ELSE {p \in PlayerList : unit[p].alive}

\* Mutant: nobody is told of his victory.
MutVictorWithdraws == UNCHANGED unit

\* findVictoriousPlayer() takes the first one of the list.
VictorWithdraws ==
    \/ Victors = {} /\ UNCHANGED unit
    \/ \E p \in Victors : unit' = [unit EXCEPT ![p] = WithdrawDelayed(@, "VICTORY", 1)]

\* updateBattleState(); `passed' says whether the preparation is over.
UpdateBattleState(passed) ==
    /\ phase = "units" /\ toUpdate = {}
    /\ \/ /\ battleState = "PREPARING"
          /\ battleState' = IF passed THEN "IN_PROGRESS" ELSE "PREPARING"
          /\ UNCHANGED unit
       \/ /\ battleState = "IN_PROGRESS" /\ IsOver
          /\ battleState' = "ENDING"
          /\ VictorWithdraws
       \/ /\ battleState = "IN_PROGRESS" /\ ~IsOver
          /\ UNCHANGED <<battleState, unit>>
       \/ /\ battleState = "ENDING"
          /\ battleState' = IF HaveAllWithdrawn THEN "ENDED" ELSE "ENDING"
          /\ UNCHANGED unit
    /\ phase' = "sessions"
    /\ UNCHANGED <<theaterVars, isTrainingGround, rankTotal, inWorld, aliveCounter, playerInBattleCounter,
                   toUpdate, historyVars>>

-----------------------------------------------------------------------------
Aborted == phase = "aborted" /\ UNCHANGED vars

Messages ==
    \E u \in Unit :
        \/ u \in Player /\ ((\E b \in BOOLEAN : AddSession(u, b)) \/ JoinTheater(u) \/ LogoutPlayer(u))
        \/ ExecuteDieCommand(u)
        \/ ExecuteReceiveDamageCommand(u)
        \/ AddRobotCommand(u)
        \/ DelRobotCommand(u)

Tick ==
    \/ AdvancedUpdate
    \/ OnStart
    \/ OnStop
    \/ BeginMapUpdate
    \/ NoMapUpdate
    \/ \E u \in Unit : UpdateUnit(u)
    \/ \E passed \in BOOLEAN : UpdateBattleState(passed)

Next ==
    \/ Messages
    \/ Tick
    \/ \E R \in SUBSET (Robot \ inWorld) : PlayersInPlace(R)
    \/ \E u \in Unit : UnitDies(u)
    \/ Aborted

Spec == Init /\ [][Next]_vars

\* The ticks go on: the main thread and the workers are never blocked for good.
FairSpec == Spec /\ WF_vars(Tick)

-----------------------------------------------------------------------------
(***************************************************************************)
(* Properties.                                                              *)
(***************************************************************************)

(***************************************************************************)
(* Through deaths, withdrawals, removals and late arrivals, m_aliveCounter  *)
(* is the number of living units on the map, so that a death gets the right *)
(* rank and the end is noticed, and m_playerInBattleCounter the number of   *)
(* players on the map who have not withdrawn, so that a battle neither ends *)
(* before everybody has his result nor waits for nobody.  A unit that a     *)
(* command of a game master kills twice is subtracted twice, and only then  *)
(* can the assertion on the alive counter fail: projectiles, the danger     *)
(* zone, logouts, withdrawals and the clean-up of the map never count a     *)
(* unit off that is not counted.                                            *)
(***************************************************************************)
CountersMatch ==
    /\ ~killedTwice => aliveCounter = Cardinality({u \in inWorld : unit[u].alive})
    /\ playerInBattleCounter = Cardinality({p \in PlayerList : unit[p].withdrawal # "WITHDREW"})
    /\ phase = "aborted" => killedTwice

\* NS_ASSERT(m_aliveCounter > 0) of decreaseAliveCounter() never fails.
NoAssertionFails == phase # "aborted"

\* Nobody enters a battle that is ending or has ended: acceptSession() turns newcomers
\* away, and the end waits for those who were accepted.
NobodyEntersLate ==
    [][\A p \in Player : p \notin inWorld /\ p \in inWorld' =>
          battleState \notin {"ENDING", "ENDED"}]_vars

Ranked == {u \in inWorld : unit[u].withdrawal # "NONE"}

\* Unless somebody entered after the start or was killed twice, the ranks of a battle are distinct, within
\* the total used for the rewards, and only rank 1 is a victory.
RanksDistinct ==
    ~joinedLate /\ ~killedTwice =>
        /\ \A u, v \in Ranked : unit[u].rankNo = unit[v].rankNo => u = v
        /\ \A u \in Ranked :
             /\ unit[u].rankNo \in 1..rankTotal
             /\ unit[u].outcome = "VICTORY" <=> unit[u].rankNo = 1

(***************************************************************************)
(* A battle that is ending ends, unless a unit was killed twice: every      *)
(* player on the map withdraws.  (On the training ground players are not    *)
(* withdrawn.)                                                              *)
(***************************************************************************)
EndingEnds ==
    battleState = "ENDING" /\ ~isTrainingGround
        ~> battleState \in {"ENDED", "NONE"} \/ killedTwice
=============================================================================
