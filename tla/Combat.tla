------------------------------- MODULE Combat -------------------------------
(***************************************************************************)
(* Projectiles, the damage they deal and the rewards for it                 *)
(* (game/behaviors/Projectile.cpp, ItemBox.cpp, the combat parts of         *)
(* Unit.cpp, Player.cpp and Robot.cpp, game/combat/RewardManager.cpp and    *)
(* the references of game/combat, game/dynamic/reference).                  *)
(*                                                                          *)
(* A projectile that touches targets when the relocations of an update are  *)
(* processed only notes them; it strikes them in its own next update, and   *)
(* returns to the store of the map some updates later.  The references that *)
(* connect launchers, projectiles, targets, victims and those who are paid  *)
(* for a death are cut whenever one of the two ends dies or leaves.         *)
(*                                                                          *)
(* Abstractions.  Positions are left out: a test may have either outcome.   *)
(* Damage and regeneration are any number of points; flights end and        *)
(* awardees time out at any update.  The effects of items, game masters     *)
(* that are switched invisible, threats and the amount of a reward are left *)
(* out, as are theater and session (see TheaterManager) and what the state  *)
(* of a battle depends on (see Battle, which has the command receivedamage).*)
(* m_isDirty of a RewardManager is set with every reference that is cut and *)
(* cleared when all of them were erased: there is something to erase only   *)
(* if it is set, and it is left out.  An object that was never allocated is *)
(* taken for one in the store: loadData() ends with reloadData().           *)
(***************************************************************************)
EXTENDS Integers, FiniteSets, FiniteSetsExt

CONSTANTS
    Player, Robot,      \* the units; a player that joins again is a new object
    Projectile,         \* the projectile objects that may be allocated
    ItemBox,            \* the item boxes
    None,
    MaxHealth,          \* of units and boxes
    MaxDamage,          \* of one hit
    WithdrawalDelay,    \* updates a dead robot stays on the map
    MaxPoints           \* bound: a victim with this much recorded damage does not recover

Unit == Player \cup Robot
Target == Unit \cup ItemBox

ASSUME ObjectAssumption ==
    /\ IsFiniteSet(Unit) /\ IsFiniteSet(Projectile) /\ IsFiniteSet(ItemBox)
    /\ Player \cap Robot = {} /\ Unit \cap ItemBox = {} /\ None \notin Unit \cup Projectile
ASSUME PointAssumption ==
    MaxHealth \in Nat \ {0} /\ MaxDamage \in Nat \ {0} /\ MaxPoints \in Nat
\* WithdrawalDelay is 2000 ms, many updates.
ASSUME DelayAssumption == WithdrawalDelay \in Nat \ {0}

VARIABLES
    unit, reward,       \* the fields of the units, their RewardManagers
    proj, box,          \* the fields of projectiles and item boxes
    phase,              \* the sessions, or the stage of BattleMap::update()
    todo,               \* the projectiles this update has not reached
    striking,           \* the projectile in updateCollidedObjects()
    inBattle,           \* isInBattle()
    crashed             \* a null pointer was used: the server has crashed

vars == <<unit, reward, proj, box, phase, todo, striking, inBattle, crashed>>

\* Where an object is: on the map, in m_objectsToRemove, or in m_reusableObjectsStore;
\* "deleted" are robots in the store that a command put there.
Place == {"map", "removing", "store", "deleted"}
OffMap == {"store", "deleted"}

UnitRecord ==
    [place : Place, alive : BOOLEAN, health : 0..MaxHealth,
     deaths : 0..2,                 \* calls of died() since it was spawned (history)
     since : 0..WithdrawalDelay]    \* updates since the death of a robot

RewardRecord ==
    [points : [Unit -> Nat],        \* getDamagePoints() of each valid reference, 0: none
     invalid : Nat,                 \* the points of references whose attacker is gone
     aggDamage : Int]

ProjectileRecord ==
    [place : Place,
     state : {"ACTIVE", "COLLIDED", "INACTIVATE", "INACTIVE"},
     moving : BOOLEAN,              \* the spline is not finished
     launcher : Unit \cup {None},   \* m_launcher
     touched : BOOLEAN,             \* m_collidedObjects is not empty
     valid : SUBSET Target]         \* its references that are valid and not used yet

BoxRecord ==
    [place : Place, locked : BOOLEAN, health : 0..MaxHealth,
     loot : 0..2]                   \* calls of dropLoot() since it was loaded (history)

TypeOK ==
    /\ unit \in [Unit -> UnitRecord] /\ reward \in [Unit -> RewardRecord]
    /\ proj \in [Projectile -> ProjectileRecord] /\ box \in [ItemBox -> BoxRecord]
    /\ phase \in {"sessions", "update", "notify"}
    /\ todo \subseteq Projectile /\ striking \in Projectile \cup {None}
    /\ inBattle \in BOOLEAN /\ crashed \in BOOLEAN

NoAwardees == [points |-> [a \in Unit |-> 0], invalid |-> 0, aggDamage |-> 0]
NewUnit == [place |-> "map", alive |-> TRUE, health |-> MaxHealth, deaths |-> 0, since |-> 0]
NewBox == [place |-> "map", locked |-> TRUE, health |-> MaxHealth, loot |-> 0]
NewProjectile == [place |-> "store", state |-> "INACTIVE", moving |-> FALSE, launcher |-> None,
                  touched |-> FALSE, valid |-> {}]

Init ==
    /\ unit = [u \in Unit |-> [NewUnit EXCEPT !.place = "store"]]
    /\ reward = [u \in Unit |-> NoAwardees]
    /\ proj = [p \in Projectile |-> NewProjectile]
    /\ box = [b \in ItemBox |-> [NewBox EXCEPT !.place = "store"]]
    /\ phase = "sessions" /\ todo = {} /\ striking = None
    /\ inBattle = FALSE /\ crashed = FALSE

InWorld(t) == IF t \in Unit THEN unit[t].place = "map" ELSE box[t].place = "map"

-----------------------------------------------------------------------------
(***************************************************************************)
(* RewardManager.                                                           *)
(***************************************************************************)

Awardees(r) == {a \in Unit : r.points[a] > 0}
AwardeesOf(t) == IF t \in Unit THEN Awardees(reward[t]) ELSE {}
PointsOf(r, A) == SumFunctionOnSet(r.points, A)

\* addDamage()
AddDamage(r, a, n) == [r EXCEPT !.points[a] = @ + n, !.aggDamage = @ + n]

\* Mutant: the damage of an awardee that timed out stays in the sum.
MutUpdateAwardees(r, T) ==
    [points |-> [a \in Unit |-> IF a \in T THEN 0 ELSE r.points[a]], invalid |-> 0,
     aggDamage |-> r.aggDamage - r.invalid]

\* update(), when the awardees T have timed out: they go, with those whose attacker is gone.
UpdateAwardees(r, T) ==
    [points |-> [a \in Unit |-> IF a \in T THEN 0 ELSE r.points[a]], invalid |-> 0,
     aggDamage |-> r.aggDamage - PointsOf(r, T) - r.invalid]

\* m_awardSourceManager.clearReferences() of the attacker a
ClearAwardSources(rs, a) ==
    [v \in Unit |-> IF rs[v].points[a] = 0 THEN rs[v]
                    ELSE [rs[v] EXCEPT !.points[a] = 0, !.invalid = @ + rs[v].points[a]]]

-----------------------------------------------------------------------------
(***************************************************************************)
(* Damage and death.  w has the fields unit, reward and crashed.            *)
(***************************************************************************)
World == [unit |-> unit, reward |-> reward, crashed |-> crashed]
Becomes(w) == unit' = w.unit /\ reward' = w.reward /\ crashed' = w.crashed

\* RewardManager::awardAllAwardees() of u: T time out, applyReward() uses the map of the others.
AwardAllAwardees(w, u, T) ==
    LET r == UpdateAwardees(w.reward[u], T) IN
    [w EXCEPT !.reward[u] = NoAwardees,
              !.crashed = \E a \in Awardees(r) : w.unit[a].place \in OffMap]

\* setDeathState(DEATH_STATE_DEAD)
SetDead(w, u) ==
    [w EXCEPT !.unit[u].alive = FALSE, !.unit[u].health = 0, !.unit[u].since = 0,
              !.unit[u].deaths = Min({@ + 1, 2}),
              !.reward = ClearAwardSources(@, u)]

\* Player::died() and Robot::died()
Died(w, u, T) == SetDead(AwardAllAwardees(w, u, T), u)

\* Unit::dealDamage(), with receiveDamage() or kill()
DealDamage(w, a, u, n, T) ==
    LET hit == [w EXCEPT !.reward[u] = AddDamage(@, a, Min({n, w.unit[u].health}))] IN
    IF w.unit[u].health > n THEN [hit EXCEPT !.unit[u].health = @ - n] ELSE Died(hit, u, T)

\* Unit::updateHealthLossTimer() outside the safe zone
LoseHealth(w, u, n, T) ==
    IF w.unit[u].health > n THEN [w EXCEPT !.unit[u].health = @ - n] ELSE Died(w, u, T)

\* What Unit::cleanupBeforeDelete() does to the RewardManagers.
CleanupUnit(w, u) ==
    [w EXCEPT !.reward = ClearAwardSources([@ EXCEPT ![u] = NoAwardees], u)]

\* m_projCollisionRefManager.clearReferences() of the targets S
ClearCollisions(S) == [p \in Projectile |-> [proj[p] EXCEPT !.valid = @ \ S]]

-----------------------------------------------------------------------------
(***************************************************************************)
(* Sessions and commands, between the updates of the map.                   *)
(***************************************************************************)
Sessions == phase = "sessions" /\ ~crashed

\* addPlayerToMap() of a new player
JoinBattle(u) ==
    /\ Sessions /\ unit[u].place = "store"
    /\ unit' = [unit EXCEPT ![u] = NewUnit]
    /\ UNCHANGED <<reward, proj, box, phase, todo, striking, inBattle, crashed>>

\* WorldSession::logoutPlayer(): cleanupBeforeDelete() and the destructor, which also cuts
\* off the projectiles of the player.
LogoutPlayer(u) ==
    /\ Sessions /\ unit[u].place = "map"
    /\ Becomes([CleanupUnit(World, u) EXCEPT !.unit[u] = [NewUnit EXCEPT !.place = "store"]])
    /\ proj' = [p \in Projectile |->
                  [proj[p] EXCEPT !.valid = @ \ {u},
                                  !.launcher = IF @ = u THEN None ELSE @]]
    /\ UNCHANGED <<box, phase, todo, striking, inBattle>>

\* takeReusableObject(), Robot::reloadData() and addToMap()
AddRobot(u) ==
    /\ Sessions /\ unit[u].place \in OffMap
    /\ unit' = [unit EXCEPT ![u] = NewUnit]
    /\ UNCHANGED <<reward, proj, box, phase, todo, striking, inBattle, crashed>>

\* The command delRobot: cleanupBeforeDelete() and removeFromMap(), which leave the
\* projectiles of the robot alone.
DelRobot(u) ==
    /\ Sessions /\ unit[u].place = "map" /\ \E g \in Player : unit[g].place = "map"
    /\ Becomes([CleanupUnit(World, u) EXCEPT !.unit[u].place = "deleted"])
    /\ proj' = ClearCollisions({u})
    /\ UNCHANGED <<box, phase, todo, striking, inBattle>>

\* The item boxes of the map, or of the command addItemBox.
AddItemBox(b) ==
    /\ Sessions /\ box[b].place = "store"
    /\ box' = [box EXCEPT ![b] = NewBox]
    /\ UNCHANGED <<unit, reward, proj, phase, todo, striking, inBattle, crashed>>

DelItemBox(b) ==
    /\ Sessions /\ box[b].place = "map" /\ \E g \in Player : unit[g].place = "map"
    /\ box' = [box EXCEPT ![b] = [NewBox EXCEPT !.place = "store"]]
    /\ proj' = ClearCollisions({b})
    /\ UNCHANGED <<unit, reward, phase, todo, striking, inBattle, crashed>>

\* executeDieCommand() of the game master g
ExecuteDie(g, u, T) ==
    LET hit == [World EXCEPT !.reward[u] = AddDamage(@, g, MaxHealth)] IN
    /\ Sessions /\ unit[g].place = "map" /\ unit[u].place = "map" /\ unit[u].alive
    /\ g \notin T
    /\ Becomes(Died(hit, u, T))
    /\ UNCHANGED <<proj, box, phase, todo, striking, inBattle>>

\* BattleMap::onStop() when everybody has left: ObjectGridCleaner.
CleanupAllGrids ==
    /\ Sessions /\ \A u \in Player : unit[u].place = "store"
    /\ LET stored(o) == IF o.place = "map" THEN [o EXCEPT !.place = "store"] ELSE o IN
       /\ unit' = [u \in Unit |-> stored(unit[u])]
       /\ box' = [b \in ItemBox |-> stored(box[b])]
       /\ proj' = [p \in Projectile |-> IF proj[p].place = "map"
                                        THEN [NewProjectile EXCEPT !.place = "store"] ELSE proj[p]]
    /\ reward' = [u \in Unit |-> NoAwardees]
    /\ inBattle' = FALSE
    /\ UNCHANGED <<phase, todo, striking, crashed>>

-----------------------------------------------------------------------------
(***************************************************************************)
(* Launching.                                                               *)
(***************************************************************************)
\* Projectile::reloadData(), the link to the launcher, and addToMap()
Launched(r, u) ==
    [r EXCEPT !.place = "map", !.state = "ACTIVE", !.moving = TRUE, !.launcher = u]

\* Player::attack(), in the handler of the player or, continuously, in its update; the
\* update may or may not still reach the projectile.
Attack(u, p) ==
    /\ Sessions \/ (phase = "update" /\ striking = None /\ ~crashed)
    /\ unit[u].place = "map" /\ unit[u].alive /\ proj[p].place = "store"
    /\ proj' = [proj EXCEPT ![p] = Launched(@, u)]
    /\ todo' \in {todo} \cup (IF phase = "update" THEN {todo \cup {p}} ELSE {})
    /\ UNCHANGED <<unit, reward, box, phase, striking, inBattle, crashed>>

\* Robot::attackInternal(), in the update of the robot
AttackInternal(u, p) ==
    /\ phase = "update" /\ striking = None /\ ~crashed
    /\ unit[u].place = "map" /\ unit[u].alive /\ proj[p].place = "store"
    /\ proj' = [proj EXCEPT ![p] = Launched(@, u)]
    /\ todo' \in {todo, todo \cup {p}}
    /\ UNCHANGED <<unit, reward, box, phase, striking, inBattle, crashed>>

-----------------------------------------------------------------------------
(***************************************************************************)
(* BattleMap::update(): the units.                                          *)
(***************************************************************************)
BeginUpdate ==
    /\ Sessions
    /\ phase' = "update" /\ todo' = {p \in Projectile : proj[p].place = "map"}
    /\ UNCHANGED <<unit, reward, proj, box, striking, inBattle, crashed>>

Updating == phase = "update" /\ striking = None /\ ~crashed

\* Unit::updateHealthRegenTimer()
RegenHealth(u, n) ==
    /\ Updating /\ unit[u].place = "map" /\ unit[u].alive
    /\ unit[u].health < MaxHealth /\ reward[u].aggDamage < MaxPoints
    /\ unit' = [unit EXCEPT ![u].health = Min({@ + n, MaxHealth})]
    /\ UNCHANGED <<reward, proj, box, phase, todo, striking, inBattle, crashed>>

UpdateHealthLossTimer(u, n, T) ==
    /\ Updating /\ unit[u].place = "map" /\ unit[u].alive
    /\ Becomes(LoseHealth(World, u, n, T))
    /\ UNCHANGED <<proj, box, phase, todo, striking, inBattle>>

\* m_rewardManager.update()
UpdateRewardManager(u, T) ==
    /\ Updating /\ unit[u].place = "map" /\ unit[u].alive
    /\ reward' = [reward EXCEPT ![u] = UpdateAwardees(@, T)]
    /\ UNCHANGED <<unit, proj, box, phase, todo, striking, inBattle, crashed>>

\* Mutant: the robot does not wait.
MutWithdrawRobot(u) ==
    /\ Updating /\ unit[u].place = "map" /\ ~unit[u].alive
    /\ Becomes([CleanupUnit(World, u) EXCEPT !.unit[u].place = "removing"])
    /\ proj' = ClearCollisions({u})
    /\ UNCHANGED <<box, phase, todo, striking, inBattle>>

\* Unit::updateWithdrawalTimer() and Robot::withdraw(): addObjectToRemoveList().
WithdrawRobot(u) ==
    /\ Updating /\ unit[u].place = "map" /\ ~unit[u].alive /\ unit[u].since = WithdrawalDelay
    /\ Becomes([CleanupUnit(World, u) EXCEPT !.unit[u].place = "removing"])
    /\ proj' = ClearCollisions({u})
    /\ UNCHANGED <<box, phase, todo, striking, inBattle>>

-----------------------------------------------------------------------------
(***************************************************************************)
(* Projectile::update().                                                    *)
(***************************************************************************)

\* The spline moves on, until it ends or a building is hit.
Fly(p, hitsBuilding, ends) ==
    /\ Updating /\ p \in todo /\ proj[p].state = "ACTIVE"
    /\ proj' = [proj EXCEPT ![p].moving = ~ends,
                            ![p].state = IF hitsBuilding \/ ends THEN "INACTIVATE" ELSE @]
    /\ todo' = todo \ {p}
    /\ UNCHANGED <<unit, reward, box, phase, striking, inBattle, crashed>>

\* Mutant: the box is opened by every hit once its health is used up.
MutStruckBox(r, n) ==
    IF r.health > n THEN [r EXCEPT !.health = @ - n]
    ELSE [r EXCEPT !.health = 0, !.locked = FALSE, !.loot = Min({@ + 1, 2})]

\* ItemBox::enterCollision() in battle, Unit::dealDamage() and ItemBox::opened()
StruckBox(r, n) ==
    IF ~r.locked THEN r
    ELSE IF r.health > n THEN [r EXCEPT !.health = @ - n]
    ELSE [r EXCEPT !.health = 0, !.locked = FALSE, !.loot = Min({@ + 1, 2})]

\* Mutant: a dead unit is hit like a living one.
MutStruckUnit(w, a, u, n, T) == DealDamage(w, a, u, n, T)

\* Unit::enterCollision() in battle; its launcher may have died meanwhile.
StruckUnit(w, a, u, n, T) == IF w.unit[u].alive THEN DealDamage(w, a, u, n, T) ELSE w

(***************************************************************************)
(* updateCollidedObjects(): the valid targets are struck one after the      *)
(* other, if the projectile still has a launcher and there is a battle.     *)
(***************************************************************************)
Strike(p, t, n, T) ==
    LET a == proj[p].launcher
        hits == a # None /\ inBattle
    IN
    /\ phase = "update" /\ ~crashed /\ striking \in {None, p}
    /\ p \in todo /\ proj[p].state = "COLLIDED" /\ t \in proj[p].valid
    /\ proj' = [proj EXCEPT ![p].valid = @ \ {t}]
    /\ striking' = p
    /\ \/ /\ hits /\ t \in Unit
          /\ a \notin T
          /\ Becomes(StruckUnit(World, a, t, n, T)) /\ UNCHANGED box
       \/ /\ hits /\ t \in ItemBox /\ T = {}
          /\ box' = [box EXCEPT ![t] = StruckBox(@, n)]
          /\ UNCHANGED <<unit, reward, crashed>>
       \/ /\ ~hits /\ T = {} /\ n = 1
          /\ UNCHANGED <<unit, reward, box, crashed>>
    /\ UNCHANGED <<phase, todo, inBattle>>

StrikeDone(p) ==
    /\ phase = "update" /\ ~crashed /\ striking \in {None, p}
    /\ p \in todo /\ proj[p].state = "COLLIDED" /\ proj[p].valid = {}
    /\ proj' = [proj EXCEPT ![p].state = "INACTIVATE"]
    /\ striking' = None /\ todo' = todo \ {p}
    /\ UNCHANGED <<unit, reward, box, phase, inBattle, crashed>>

\* Mutant: the projectile keeps what it touched.
MutInactivated(r) ==
    [r EXCEPT !.place = "removing", !.state = "INACTIVE", !.moving = FALSE, !.launcher = None]

\* The spline stops; inactivate(): setProjectileState(PROJECTILE_STATE_INACTIVE) and
\* addObjectToRemoveList().
Inactivated(r) ==
    [r EXCEPT !.place = "removing", !.state = "INACTIVE", !.moving = FALSE, !.launcher = None,
              !.touched = FALSE, !.valid = {}]

\* PROJECTILE_STATE_INACTIVATE and, after a delay that nothing else depends on,
\* PROJECTILE_STATE_INACTIVATING.
Inactivate(p) ==
    /\ Updating /\ p \in todo /\ proj[p].state = "INACTIVATE"
    /\ proj' = [proj EXCEPT ![p] = Inactivated(@)]
    /\ todo' = todo \ {p}
    /\ UNCHANGED <<unit, reward, box, phase, striking, inBattle, crashed>>

-----------------------------------------------------------------------------
(***************************************************************************)
(* BattleMap::update(): the tests, the remove list and the battle state.    *)
(***************************************************************************)
BeginNotify ==
    /\ Updating /\ todo = {}
    /\ phase' = "notify"
    /\ UNCHANGED <<unit, reward, proj, box, todo, striking, inBattle, crashed>>

\* Projectile::canDetect()
CanDetect(p, t) ==
    /\ proj[p].state \in {"ACTIVE", "COLLIDED"} /\ proj[p].launcher \notin {None, t}
    /\ unit[proj[p].launcher].alive
    /\ InWorld(t)
    /\ t \in Unit => unit[t].alive

\* Projectile::testCollision() and addCollidedObject(), which notes a target once.
TestCollision(p, t) ==
    /\ phase = "notify" /\ proj[p].place = "map" /\ CanDetect(p, t) /\ t \notin proj[p].valid
    /\ proj' = [proj EXCEPT ![p].state = "COLLIDED", ![p].touched = TRUE,
                            ![p].valid = @ \cup {t}]
    /\ UNCHANGED <<unit, reward, box, phase, todo, striking, inBattle, crashed>>

\* processObjectRemoveList() and updateBattleState()
EndUpdate ==
    /\ phase = "notify" /\ phase' = "sessions"
    /\ unit' = [u \in Unit |-> [unit[u] EXCEPT
                  !.place = IF @ = "removing" THEN "store" ELSE @,
                  !.since = IF u \in Robot /\ unit[u].place = "map" /\ ~unit[u].alive
                            THEN Min({@ + 1, WithdrawalDelay}) ELSE 0]]
    /\ proj' = [p \in Projectile |-> [proj[p] EXCEPT !.place = IF @ = "removing" THEN "store" ELSE @]]
    /\ inBattle' \in BOOLEAN
    /\ UNCHANGED <<reward, box, todo, striking, crashed>>

-----------------------------------------------------------------------------
UpdateProjectile(p) ==
    \/ \E hitsBuilding, ends \in BOOLEAN : Fly(p, hitsBuilding, ends)
    \/ \E t \in proj[p].valid, n \in 1..MaxDamage : \E T \in SUBSET AwardeesOf(t) : Strike(p, t, n, T)
    \/ StrikeDone(p) \/ Inactivate(p)

\* The server is gone; or it goes on for ever.
Terminated == crashed /\ UNCHANGED vars

Next ==
    \/ \E u \in Player : JoinBattle(u) \/ LogoutPlayer(u)
    \/ \E u \in Robot : AddRobot(u) \/ DelRobot(u) \/ WithdrawRobot(u)
    \/ \E b \in ItemBox : AddItemBox(b) \/ DelItemBox(b)
    \/ \E g \in Player, u \in Unit : \E T \in SUBSET AwardeesOf(u) : ExecuteDie(g, u, T)
    \/ \E u \in Unit, n \in 1..MaxDamage : RegenHealth(u, n)
    \/ \E u \in Unit : \E T \in SUBSET AwardeesOf(u) :
         UpdateRewardManager(u, T) \/ \E n \in 1..MaxDamage : UpdateHealthLossTimer(u, n, T)
    \/ \E u \in Player, p \in Projectile : Attack(u, p)
    \/ \E u \in Robot, p \in Projectile : AttackInternal(u, p)
    \/ \E p \in Projectile : UpdateProjectile(p) \/ \E t \in Target : TestCollision(p, t)
    \/ CleanupAllGrids \/ BeginUpdate \/ BeginNotify \/ EndUpdate
    \/ Terminated

Spec == Init /\ [][Next]_vars

-----------------------------------------------------------------------------
(***************************************************************************)
(* Properties.                                                              *)
(***************************************************************************)

(***************************************************************************)
(* m_aggDamage, which the shares of a reward are computed from, is the sum  *)
(* of the damage of all references, whichever attackers died, left or timed *)
(* out: the assertion of awardAllAwardees() holds, and the shares add up.   *)
(***************************************************************************)
LedgerExact ==
    \A u \in Unit : reward[u].aggDamage = PointsOf(reward[u], Unit) + reward[u].invalid

(***************************************************************************)
(* A unit dies once: it is dead exactly when died() was called, once, since *)
(* it was spawned, and exactly when it has no health, however many          *)
(* projectiles, commands and losses of health meet in one update.           *)
(***************************************************************************)
KilledOnce ==
    \A u \in Unit :
        /\ unit[u].deaths = (IF unit[u].alive THEN 0 ELSE 1)
        /\ unit[u].alive <=> unit[u].health > 0

\* An item box drops its loot once, when it is opened, also if several projectiles
\* have touched it before it was.
OpenedOnce ==
    \A b \in ItemBox : box[b].loot = (IF box[b].locked THEN 0 ELSE 1)

(***************************************************************************)
(* A projectile starts with nothing of its last flight: in the store it has *)
(* no launcher, no targets and a finished spline (which                     *)
(* setProjectileState(PROJECTILE_STATE_ACTIVE) asserts), and in flight it   *)
(* has touched nothing before it has collided.                              *)
(***************************************************************************)
LaunchedClean ==
    \A p \in Projectile :
        /\ proj[p].place # "map" =>
             proj[p].launcher = None /\ ~proj[p].touched /\ ~proj[p].moving
        /\ proj[p].place = "map" /\ proj[p].state = "ACTIVE" => ~proj[p].touched

(***************************************************************************)
(* Whoever is to be paid for a death is on the map (applyReward() uses its  *)
(* map), although the dead are still credited with what their projectiles   *)
(* hit; the one exception are robots that a game master removed.            *)
(***************************************************************************)
AwardeesOnMap ==
    \A u \in Unit : \A a \in Awardees(reward[u]) : unit[a].place \in {"map", "deleted"}
=============================================================================
