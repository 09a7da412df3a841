---------------------------- MODULE CombatProofs ----------------------------
(***************************************************************************)
(* Proofs about Combat, for any number of units, projectiles and boxes, any *)
(* health and damage.                                                       *)
(***************************************************************************)
EXTENDS Combat, FiniteSetTheorems, TLAPS

-----------------------------------------------------------------------------
(***************************************************************************)
(* Projectiles.  LaunchedClean is inductive together with what it means to  *)
(* be off the map: only a projectile on the map has anything to update.     *)
(***************************************************************************)
Clean(r) ==
    /\ r \in ProjectileRecord
    /\ r.place # "map" => r.state = "INACTIVE" /\ r.launcher = None /\ ~r.touched /\ ~r.moving
    /\ r.state = "ACTIVE" => ~r.touched

ProjectileInv == proj = [p \in Projectile |-> proj[p]] /\ \A p \in Projectile : Clean(proj[p])

\* Projectiles are clean at the start.
LEMMA ProjectileInit == Init => ProjectileInv
BY DEF Init, ProjectileInv, Clean, ProjectileRecord, Place, NewProjectile

\* One projectile changes into a clean one.
LEMMA ChangeOne ==
  ASSUME ProjectileInv, NEW p \in Projectile, NEW r, Clean(r), proj' = [proj EXCEPT ![p] = r]
  PROVE  ProjectileInv'
BY DEF ProjectileInv

\* Forgetting touched targets keeps projectiles clean.
LEMMA ClearCollisionsKeeps ==
  ASSUME ProjectileInv, NEW S, proj' = ClearCollisions(S)
  PROVE  ProjectileInv'
<1>1. ASSUME NEW r, Clean(r) PROVE Clean([r EXCEPT !.valid = @ \ S])
  BY <1>1 DEF Clean, ProjectileRecord
<1> QED
  BY <1>1 DEF ProjectileInv, ClearCollisions

\* The steps of Projectile::update() and the tests change one projectile, on the map.
LEMMA ProjectileNext == ProjectileInv /\ [Next]_vars => ProjectileInv'
<1> SUFFICES ASSUME ProjectileInv, [Next]_vars PROVE ProjectileInv'
  OBVIOUS
<1>0. \A p \in Projectile : Clean(proj[p])
  BY DEF ProjectileInv
<1>1. CASE UNCHANGED proj
  BY <1>1 DEF ProjectileInv
<1>2. ASSUME NEW u \in Player, LogoutPlayer(u) PROVE ProjectileInv'
  <2> DEFINE cut(r) == [r EXCEPT !.valid = @ \ {u},
                                 !.launcher = IF @ = u THEN None ELSE @]
  <2>1. proj' = [p \in Projectile |-> cut(proj[p])]
    BY <1>2 DEF LogoutPlayer
  <2>2. ASSUME NEW r, Clean(r) PROVE Clean(cut(r))
    BY <2>2 DEF Clean, ProjectileRecord
  <2> HIDE DEF cut
  <2> QED
    BY <1>0, <2>1, <2>2 DEF ProjectileInv
<1>3. ASSUME NEW u \in Robot, DelRobot(u) \/ WithdrawRobot(u) PROVE ProjectileInv'
  BY <1>3, ClearCollisionsKeeps DEF DelRobot, WithdrawRobot
<1>4. ASSUME NEW b \in ItemBox, DelItemBox(b) PROVE ProjectileInv'
  BY <1>4, ClearCollisionsKeeps DEF DelItemBox
<1>5. ASSUME NEW u \in Unit, NEW p \in Projectile, Attack(u, p) \/ AttackInternal(u, p)
      PROVE  ProjectileInv'
  <2>1. proj[p].place = "store" /\ proj' = [proj EXCEPT ![p] = Launched(proj[p], u)]
    BY <1>5 DEF Attack, AttackInternal
  <2>2. Clean(Launched(proj[p], u))
    BY <1>0, <2>1 DEF Clean, Launched, ProjectileRecord, Place
  <2> QED
    BY <2>1, <2>2, ChangeOne
<1>6. ASSUME NEW p \in Projectile, UpdateProjectile(p) PROVE ProjectileInv'
  <2>1. ASSUME NEW h \in BOOLEAN, NEW e \in BOOLEAN, Fly(p, h, e) PROVE ProjectileInv'
    <3> DEFINE r == [proj[p] EXCEPT !.moving = ~e,
                                    !.state = IF h \/ e THEN "INACTIVATE" ELSE @]
    <3>1. proj[p].state = "ACTIVE" /\ proj' = [proj EXCEPT ![p] = r]
      BY <1>0, <2>1 DEF Fly, ProjectileInv, Clean, ProjectileRecord
    <3>2. Clean(r)
      BY <1>0, <3>1 DEF Clean, ProjectileRecord
    <3> QED
      BY <3>1, <3>2, ChangeOne
  <2>2. ASSUME NEW t, NEW n, NEW T, Strike(p, t, n, T) PROVE ProjectileInv'
    <3> DEFINE r == [proj[p] EXCEPT !.valid = @ \ {t}]
    <3>1. proj' = [proj EXCEPT ![p] = r]
      BY <2>2 DEF Strike
    <3>2. Clean(r)
      BY <1>0 DEF Clean, ProjectileRecord
    <3> QED
      BY <3>1, <3>2, ChangeOne
  <2>3. CASE StrikeDone(p)
    <3> DEFINE r == [proj[p] EXCEPT !.state = "INACTIVATE"]
    <3>1. proj[p].state = "COLLIDED" /\ proj' = [proj EXCEPT ![p] = r]
      BY <2>3 DEF StrikeDone
    <3>2. Clean(r)
      BY <1>0, <3>1 DEF Clean, ProjectileRecord
    <3> QED
      BY <3>1, <3>2, ChangeOne
  <2>4. CASE Inactivate(p)
    <3>1. proj' = [proj EXCEPT ![p] = Inactivated(proj[p])]
      BY <2>4 DEF Inactivate
    <3>2. Clean(Inactivated(proj[p]))
      BY <1>0 DEF Clean, Inactivated, ProjectileRecord, Place
    <3> QED
      BY <3>1, <3>2, ChangeOne
  <2> QED
    BY <1>6, <2>1, <2>2, <2>3, <2>4 DEF UpdateProjectile
<1>7. ASSUME NEW p \in Projectile, NEW t \in Target, TestCollision(p, t) PROVE ProjectileInv'
  <2> DEFINE r == [proj[p] EXCEPT !.state = "COLLIDED", !.touched = TRUE, !.valid = @ \cup {t}]
  <2>1. proj[p].place = "map" /\ proj' = [proj EXCEPT ![p] = r]
    BY <1>0, <1>7 DEF TestCollision, ProjectileInv, Clean, ProjectileRecord
  <2>2. Clean(r)
    BY <1>0, <2>1 DEF Clean, ProjectileRecord
  <2> QED
    BY <2>1, <2>2, ChangeOne
<1>8. CASE CleanupAllGrids
  <2>1. Clean([NewProjectile EXCEPT !.place = "store"])
    BY DEF NewProjectile, Clean, ProjectileRecord, Place
  <2> QED
    BY <1>0, <1>8, <2>1 DEF CleanupAllGrids, ProjectileInv
<1>9. CASE EndUpdate
  <2>1. ASSUME NEW r, Clean(r)
        PROVE  Clean([r EXCEPT !.place = IF @ = "removing" THEN "store" ELSE @])
    BY <2>1 DEF Clean, ProjectileRecord, Place
  <2> QED
    BY <1>0, <1>9, <2>1 DEF EndUpdate, ProjectileInv
<1>10. CASE UNCHANGED vars
  BY <1>1, <1>10 DEF vars
<1> QED
  <2>1. ASSUME Next PROVE ProjectileInv'
    BY <2>1, <1>1, <1>2, <1>3, <1>4, <1>5, <1>6, <1>7, <1>8, <1>9, <1>10
       DEF Next, JoinBattle, AddRobot, AddItemBox, ExecuteDie, RegenHealth, UpdateRewardManager,
           UpdateHealthLossTimer, BeginUpdate, BeginNotify, Terminated, Unit
  <2> QED
    BY <2>1, <1>10

(***************************************************************************)
(* A projectile is launched without anything of its last flight: no         *)
(* launcher, no targets, no spline, whoever died or left meanwhile          *)
(* (Projectile::setProjectileState() and BattleMap::takeReusableObject()).  *)
(***************************************************************************)
THEOREM LaunchedCleanCorrect == Spec => []LaunchedClean
<1>1. ProjectileInv => LaunchedClean
  BY DEF ProjectileInv, Clean, LaunchedClean
<1> QED
  BY <1>1, ProjectileInit, ProjectileNext, PTL DEF Spec

-----------------------------------------------------------------------------
\* The smaller of two numbers.
LEMMA MinOfTwo ==
  ASSUME NEW a \in Int, NEW b \in Int
  PROVE  Min({a, b}) = IF a <= b THEN a ELSE b
<1> DEFINE m == IF a <= b THEN a ELSE b
<1>1. m \in {a, b} /\ \A y \in {a, b} : m <= y
  OBVIOUS
<1>2. \A x \in {a, b} : (\A y \in {a, b} : x <= y) => x = m
  OBVIOUS
<1> QED
  BY <1>1, <1>2 DEF Min

(***************************************************************************)
(* Boxes.                                                                   *)
(***************************************************************************)
SoundBox(r) ==
    /\ r \in BoxRecord
    /\ r.loot = IF r.locked THEN 0 ELSE 1

BoxInv == box = [b \in ItemBox |-> box[b]] /\ \A b \in ItemBox : SoundBox(box[b])

\* A new box and one in the store are sound.
LEMMA NewBoxSound == SoundBox(NewBox) /\ SoundBox([NewBox EXCEPT !.place = "store"])
<1>1. MaxHealth \in 0..MaxHealth
  BY PointAssumption
<1>2. 0 \in 0..2 /\ TRUE \in BOOLEAN /\ "map" \in Place /\ "store" \in Place
  BY DEF Place
<1>3. NewBox \in BoxRecord
  BY <1>1, <1>2 DEF NewBox, BoxRecord
<1>4. [NewBox EXCEPT !.place = "store"] \in BoxRecord
  BY <1>2, <1>3 DEF BoxRecord
<1> QED
  BY <1>3, <1>4 DEF SoundBox, NewBox

\* A box that is struck opens at most once.
LEMMA StruckBoxSound ==
  ASSUME NEW r, SoundBox(r), NEW n \in 1..MaxDamage
  PROVE  SoundBox(StruckBox(r, n))
<1>1. CASE ~r.locked
  BY <1>1 DEF StruckBox
<1>2. CASE r.locked /\ r.health > n
  <2>1. StruckBox(r, n) = [r EXCEPT !.health = @ - n]
    BY <1>2 DEF StruckBox
  <2>2. r.health - n \in 0..MaxHealth
    BY <1>2, PointAssumption DEF SoundBox, BoxRecord
  <2> QED
    BY <2>1, <2>2 DEF SoundBox, BoxRecord
<1>3. CASE r.locked /\ ~(r.health > n)
  <2>1. r.loot = 0
    BY <1>3 DEF SoundBox
  <2>2. Min({r.loot + 1, 2}) = 1
    BY <2>1, MinOfTwo
  <2>3. StruckBox(r, n) = [r EXCEPT !.health = 0, !.locked = FALSE, !.loot = 1]
    BY <1>3, <2>2 DEF StruckBox
  <2>4. 0 \in 0..MaxHealth /\ 1 \in 0..2
    BY PointAssumption
  <2>5. StruckBox(r, n) \in BoxRecord
    BY <2>3, <2>4 DEF SoundBox, BoxRecord
  <2> QED
    BY <2>3, <2>5 DEF SoundBox, BoxRecord
<1> QED
  BY <1>1, <1>2, <1>3

\* Every step keeps boxes sound.
LEMMA BoxNext == BoxInv /\ [Next]_vars => BoxInv'
<1> SUFFICES ASSUME BoxInv, [Next]_vars PROVE BoxInv'
  OBVIOUS
<1> USE DEF BoxInv
<1>1. CASE UNCHANGED box
  BY <1>1
<1>2. ASSUME NEW b \in ItemBox, AddItemBox(b) \/ DelItemBox(b) PROVE BoxInv'
  BY <1>2, NewBoxSound DEF AddItemBox, DelItemBox
<1>3. ASSUME NEW p \in Projectile, NEW t, NEW n \in 1..MaxDamage, NEW T, Strike(p, t, n, T)
      PROVE  BoxInv'
  <2>1. CASE UNCHANGED box
    BY <2>1
  <2>2. CASE t \in ItemBox /\ box' = [box EXCEPT ![t] = StruckBox(box[t], n)]
    BY <2>2, StruckBoxSound
  <2> QED
    BY <1>3, <2>1, <2>2 DEF Strike
<1>4. CASE CleanupAllGrids
  <2>1. ASSUME NEW r, SoundBox(r)
        PROVE  SoundBox(IF r.place = "map" THEN [r EXCEPT !.place = "store"] ELSE r)
    BY <2>1 DEF SoundBox, BoxRecord, Place
  <2> QED
    BY <1>4, <2>1 DEF CleanupAllGrids
<1>5. CASE UNCHANGED vars
  BY <1>5 DEF vars
<1> QED
  <2>1. ASSUME Next PROVE BoxInv'
    BY <2>1, <1>1, <1>2, <1>3, <1>4, <1>5
       DEF Next, UpdateProjectile, JoinBattle, LogoutPlayer, AddRobot, DelRobot, WithdrawRobot,
           ExecuteDie, RegenHealth, UpdateRewardManager, UpdateHealthLossTimer, Attack,
           AttackInternal, Fly, StrikeDone, Inactivate, TestCollision, BeginUpdate, BeginNotify,
           EndUpdate, Terminated
  <2> QED
    BY <2>1, <1>5

(***************************************************************************)
(* A box drops its loot exactly once, when it is opened, however many       *)
(* projectiles strike it (ItemBox::enterCollision() and opened()).          *)
(***************************************************************************)
THEOREM OpenedOnceCorrect == Spec => []OpenedOnce
<1>1. Init => BoxInv
  BY NewBoxSound DEF Init, BoxInv
<1>2. BoxInv => OpenedOnce
  BY DEF BoxInv, SoundBox, OpenedOnce
<1> QED
  BY <1>1, <1>2, BoxNext, PTL DEF Spec

-----------------------------------------------------------------------------
(***************************************************************************)
(* Units.  KilledOnce is inductive together with the types: whatever calls  *)
(* died() has found the unit alive.                                         *)
(***************************************************************************)
SoundUnit(r) ==
    /\ r \in UnitRecord
    /\ r.deaths = IF r.alive THEN 0 ELSE 1
    /\ r.alive <=> r.health > 0

UnitInv == unit = [u \in Unit |-> unit[u]] /\ \A u \in Unit : SoundUnit(unit[u])

\* What died() does to the fields of a unit.
Dead(r) == [r EXCEPT !.alive = FALSE, !.health = 0, !.since = 0, !.deaths = Min({@ + 1, 2})]

\* A new unit and one in the store are sound.
LEMMA NewUnitSound == SoundUnit(NewUnit) /\ SoundUnit([NewUnit EXCEPT !.place = "store"])
<1>1. MaxHealth \in 0..MaxHealth /\ MaxHealth > 0 /\ 0 \in 0..2 /\ 0 \in 0..WithdrawalDelay
  BY PointAssumption, DelayAssumption
<1>2. TRUE \in BOOLEAN /\ "map" \in Place /\ "store" \in Place
  BY DEF Place
<1>3. NewUnit \in UnitRecord
  BY <1>1, <1>2 DEF NewUnit, UnitRecord
<1>4. [NewUnit EXCEPT !.place = "store"] \in UnitRecord
  BY <1>2, <1>3 DEF UnitRecord
<1> QED
  BY <1>1, <1>3, <1>4 DEF SoundUnit, NewUnit

\* A living unit that dies has died once.
LEMMA DeadSound ==
  ASSUME NEW r, SoundUnit(r), r.alive
  PROVE  SoundUnit(Dead(r))
<1>1. r.deaths = 0
  BY DEF SoundUnit
<1>2. Min({r.deaths + 1, 2}) = 1
  BY <1>1, MinOfTwo
<1>3. Dead(r) = [r EXCEPT !.alive = FALSE, !.health = 0, !.since = 0, !.deaths = 1]
  BY <1>2 DEF Dead
<1>4. 0 \in 0..MaxHealth /\ 0 \in 0..WithdrawalDelay /\ 1 \in 0..2 /\ FALSE \in BOOLEAN
  BY PointAssumption, DelayAssumption
<1>5. Dead(r) \in UnitRecord
  BY <1>3, <1>4 DEF SoundUnit, UnitRecord
<1> QED
  BY <1>3, <1>5 DEF SoundUnit, UnitRecord

\* A unit that survives a hit stays sound.
LEMMA HurtSound ==
  ASSUME NEW r, SoundUnit(r), r.alive, NEW n \in 1..MaxDamage, r.health > n
  PROVE  SoundUnit([r EXCEPT !.health = @ - n])
<1>1. r.health - n \in 0..MaxHealth /\ r.health - n > 0
  BY PointAssumption DEF SoundUnit, UnitRecord
<1>2. [r EXCEPT !.health = @ - n] \in UnitRecord
  BY <1>1 DEF SoundUnit, UnitRecord
<1> QED
  BY <1>1, <1>2 DEF SoundUnit, UnitRecord

\* A unit is moved to another place and keeps the rest.
LEMMA PlacedSound ==
  ASSUME NEW r, SoundUnit(r), NEW pl \in Place
  PROVE  SoundUnit([r EXCEPT !.place = pl])
BY DEF SoundUnit, UnitRecord

\* RewardManager and references aside, died() changes the one unit.
LEMMA DiedUnit ==
  ASSUME NEW f, f = [x \in Unit |-> f[x]], NEW g, NEW c, NEW u \in Unit, NEW T
  PROVE  Died([unit |-> f, reward |-> g, crashed |-> c], u, T).unit
           = [f EXCEPT ![u] = Dead(f[u])]
<1> DEFINE w == [unit |-> f, reward |-> g, crashed |-> c]
           a == AwardAllAwardees(w, u, T)
<1>1. a.unit = f /\ "unit" \in DOMAIN a /\ "reward" \in DOMAIN a
  BY DEF AwardAllAwardees
<1> HIDE DEF a
<1>2. SetDead(a, u).unit = [f EXCEPT ![u] = Dead(f[u])]
  BY <1>1 DEF SetDead, Dead
<1> QED
  BY <1>2 DEF Died, a

\* One unit changes into a sound one.
LEMMA ChangeUnit ==
  ASSUME UnitInv, NEW u \in Unit, NEW r, SoundUnit(r), unit' = [unit EXCEPT ![u] = r]
  PROVE  UnitInv'
BY DEF UnitInv

\* died() of a living unit, with whatever happened to rewards before.
LEMMA DeathKeeps ==
  ASSUME UnitInv, NEW u \in Unit, unit[u].alive, NEW g, NEW c, NEW T,
         unit' = Died([unit |-> unit, reward |-> g, crashed |-> c], u, T).unit
  PROVE  UnitInv'
<1>1. unit' = [unit EXCEPT ![u] = Dead(unit[u])]
  BY DiedUnit DEF UnitInv
<1>2. SoundUnit(Dead(unit[u]))
  BY DeadSound DEF UnitInv
<1> QED
  BY <1>1, <1>2, ChangeUnit

\* cleanupBeforeDelete() leaves the fields of all units alone.
LEMMA CleanupUnits ==
  ASSUME NEW u \in Unit
  PROVE  CleanupUnit(World, u).unit = unit /\ "unit" \in DOMAIN CleanupUnit(World, u)
BY DEF CleanupUnit, World

\* Every step keeps units sound.
LEMMA UnitNext == UnitInv /\ [Next]_vars => UnitInv'
<1> SUFFICES ASSUME UnitInv, [Next]_vars PROVE UnitInv'
  OBVIOUS
<1>0. unit = [u \in Unit |-> unit[u]] /\ \A u \in Unit : SoundUnit(unit[u])
  BY DEF UnitInv
<1>1. CASE UNCHANGED unit
  BY <1>1 DEF UnitInv
<1>2. ASSUME NEW u \in Unit, JoinBattle(u) \/ AddRobot(u) PROVE UnitInv'
  <2>1. unit' = [unit EXCEPT ![u] = NewUnit]
    BY <1>2 DEF JoinBattle, AddRobot
  <2> QED
    BY <2>1, NewUnitSound, ChangeUnit
<1>3. ASSUME NEW u \in Unit, LogoutPlayer(u) PROVE UnitInv'
  <2>1. unit' = [unit EXCEPT ![u] = [NewUnit EXCEPT !.place = "store"]]
    BY <1>3, CleanupUnits DEF LogoutPlayer, Becomes
  <2> QED
    BY <2>1, NewUnitSound, ChangeUnit
<1>4. ASSUME NEW u \in Unit, DelRobot(u) \/ WithdrawRobot(u) PROVE UnitInv'
  <2>1. \/ unit' = [unit EXCEPT ![u] = [unit[u] EXCEPT !.place = "deleted"]]
        \/ unit' = [unit EXCEPT ![u] = [unit[u] EXCEPT !.place = "removing"]]
    BY <1>0, <1>4, CleanupUnits DEF DelRobot, WithdrawRobot, Becomes
  <2>2. "deleted" \in Place /\ "removing" \in Place
    BY DEF Place
  <2> QED
    BY <1>0, <2>1, <2>2, PlacedSound, ChangeUnit
<1>5. ASSUME NEW g \in Player, NEW u \in Unit, NEW T, ExecuteDie(g, u, T) PROVE UnitInv'
  <2> DEFINE h == [reward EXCEPT ![u] = AddDamage(reward[u], g, MaxHealth)]
  <2>1. [World EXCEPT !.reward[u] = AddDamage(@, g, MaxHealth)]
          = [unit |-> unit, reward |-> h, crashed |-> crashed]
    BY DEF World
  <2>2. unit[u].alive /\ unit' = Died([unit |-> unit, reward |-> h, crashed |-> crashed], u, T).unit
    BY <1>5, <2>1 DEF ExecuteDie, Becomes
  <2> QED
    BY <2>2, DeathKeeps
<1>6. ASSUME NEW u \in Unit, NEW n \in 1..MaxDamage, RegenHealth(u, n) PROVE UnitInv'
  <2> DEFINE m == Min({unit[u].health + n, MaxHealth})
             r == [unit[u] EXCEPT !.health = m]
  <2>1. unit[u].alive /\ unit' = [unit EXCEPT ![u] = r]
    BY <1>0, <1>6 DEF RegenHealth
  <2>2. unit[u].health \in 0..MaxHealth
    BY <1>0 DEF SoundUnit, UnitRecord
  <2>3. unit[u].health + n \in Int /\ MaxHealth \in Int
    BY <2>2, PointAssumption
  <2>4. m = IF unit[u].health + n <= MaxHealth THEN unit[u].health + n ELSE MaxHealth
    BY <2>3, MinOfTwo
  <2>5. m \in 0..MaxHealth /\ m > 0
    BY <2>2, <2>4, PointAssumption
  <2> HIDE DEF m
  <2>6. SoundUnit(r)
    BY <1>0, <2>1, <2>5 DEF SoundUnit, UnitRecord
  <2> QED
    BY <2>1, <2>6, ChangeUnit
<1>7. ASSUME NEW u \in Unit, NEW n \in 1..MaxDamage, NEW T, UpdateHealthLossTimer(u, n, T)
      PROVE  UnitInv'
  <2>1. unit[u].alive /\ unit' = LoseHealth(World, u, n, T).unit
    BY <1>7 DEF UpdateHealthLossTimer, Becomes
  <2>2. CASE unit[u].health > n
    <3>1. unit' = [unit EXCEPT ![u] = [unit[u] EXCEPT !.health = @ - n]]
      BY <1>0, <2>1, <2>2 DEF LoseHealth, World
    <3>2. SoundUnit([unit[u] EXCEPT !.health = @ - n])
      BY <1>0, <2>1, <2>2, HurtSound
    <3> QED
      BY <3>1, <3>2, ChangeUnit
  <2>3. CASE ~(unit[u].health > n)
    <3>1. unit' = Died([unit |-> unit, reward |-> reward, crashed |-> crashed], u, T).unit
      BY <2>1, <2>3 DEF LoseHealth, World
    <3> QED
      BY <2>1, <3>1, DeathKeeps
  <2> QED
    BY <2>2, <2>3
<1>8. ASSUME NEW p \in Projectile, NEW t, NEW n \in 1..MaxDamage, NEW T, Strike(p, t, n, T)
      PROVE  UnitInv'
  <2> DEFINE a == proj[p].launcher
  <2>1. CASE t \in Unit /\ unit' = StruckUnit(World, a, t, n, T).unit
    <3>1. CASE ~unit[t].alive
      <4>1. UNCHANGED unit
        BY <2>1, <3>1 DEF StruckUnit, World
      <4> QED
        BY <1>1, <4>1
    <3>2. CASE unit[t].alive
      <4> DEFINE d == Min({n, unit[t].health})
                 h == [reward EXCEPT ![t] = AddDamage(reward[t], a, d)]
                 w == [unit |-> unit, reward |-> h, crashed |-> crashed]
      <4>1. [World EXCEPT !.reward[t] = AddDamage(@, a, Min({n, World.unit[t].health}))] = w
        BY DEF World
      <4>2. unit' = (IF unit[t].health > n THEN [w EXCEPT !.unit[t].health = @ - n]
                                           ELSE Died(w, t, T)).unit
        BY <2>1, <3>2, <4>1 DEF StruckUnit, DealDamage, World
      <4>3. CASE unit[t].health > n
        <5>1. unit' = [unit EXCEPT ![t] = [unit[t] EXCEPT !.health = @ - n]]
          BY <1>0, <2>1, <4>2, <4>3
        <5>2. SoundUnit([unit[t] EXCEPT !.health = @ - n])
          BY <1>0, <2>1, <3>2, <4>3, HurtSound
        <5> QED
          BY <2>1, <5>1, <5>2, ChangeUnit
      <4>4. CASE ~(unit[t].health > n)
        <5>1. unit' = Died(w, t, T).unit
          BY <4>2, <4>4
        <5> HIDE DEF h
        <5> QED
          BY <2>1, <3>2, <5>1, DeathKeeps
      <4> QED
        BY <4>3, <4>4
    <3> QED
      BY <3>1, <3>2
  <2> QED
    BY <1>1, <1>8, <2>1 DEF Strike, Becomes
<1>9. CASE CleanupAllGrids
  <2>1. "store" \in Place
    BY DEF Place
  <2>2. \A u \in Unit : SoundUnit(IF unit[u].place = "map" THEN [unit[u] EXCEPT !.place = "store"]
                                                          ELSE unit[u])
    BY <1>0, <2>1, PlacedSound
  <2> QED
    BY <1>9, <2>2 DEF CleanupAllGrids, UnitInv
<1>10. CASE EndUpdate
  <2> DEFINE s(u) == IF u \in Robot /\ unit[u].place = "map" /\ ~unit[u].alive
                     THEN Min({unit[u].since + 1, WithdrawalDelay}) ELSE 0
             l(u) == IF unit[u].place = "removing" THEN "store" ELSE unit[u].place
  <2>1. unit' = [u \in Unit |-> [unit[u] EXCEPT !.place = l(u), !.since = s(u)]]
    BY <1>10 DEF EndUpdate
  <2>2. ASSUME NEW u \in Unit PROVE SoundUnit([unit[u] EXCEPT !.place = l(u), !.since = s(u)])
    <3>1. unit[u] \in UnitRecord
      BY <1>0 DEF SoundUnit
    <3>2. l(u) \in Place
      BY <3>1 DEF UnitRecord, Place
    <3>3. unit[u].since + 1 \in Int /\ WithdrawalDelay \in Int
      BY <3>1, DelayAssumption DEF UnitRecord
    <3>4. Min({unit[u].since + 1, WithdrawalDelay}) \in 0..WithdrawalDelay
      BY <3>1, <3>3, MinOfTwo, DelayAssumption DEF UnitRecord
    <3>5. s(u) \in 0..WithdrawalDelay
      BY <3>4, DelayAssumption
    <3> HIDE DEF s, l
    <3> QED
      BY <1>0, <3>2, <3>5 DEF SoundUnit, UnitRecord
  <2> HIDE DEF s, l
  <2> QED
    BY <2>1, <2>2 DEF UnitInv
<1>11. CASE UNCHANGED vars
  BY <1>1, <1>11 DEF vars
<1> QED
  <2>1. ASSUME Next PROVE UnitInv'
    BY <2>1, <1>1, <1>2, <1>3, <1>4, <1>5, <1>6, <1>7, <1>8, <1>9, <1>10
       DEF Next, UpdateProjectile, AddItemBox, DelItemBox, UpdateRewardManager, Attack,
           AttackInternal, Fly, StrikeDone, Inactivate, TestCollision, BeginUpdate, BeginNotify,
           Terminated, Unit, vars
  <2> QED
    BY <2>1, <1>11

(***************************************************************************)
(* A unit dies once in a life, and exactly when its health is used up,      *)
(* however many projectiles, losses of health and die commands meet         *)
(* (Unit::enterCollision(), updateHealthLossTimer(), executeDieCommand()).  *)
(***************************************************************************)
THEOREM KilledOnceCorrect == Spec => []KilledOnce
<1>1. Init => UnitInv
  BY NewUnitSound DEF Init, UnitInv
<1>2. UnitInv => KilledOnce
  BY DEF UnitInv, SoundUnit, KilledOnce
<1> QED
  BY <1>1, <1>2, UnitNext, PTL DEF Spec

-----------------------------------------------------------------------------
(***************************************************************************)
(* Those who are paid.  A launcher is credited with what its projectile     *)
(* strikes, in the update after the touch, so it must not have left         *)
(* meanwhile.  A robot leaves some updates after its death; in that time    *)
(* every projectile that touched something while the robot lived has        *)
(* struck.                                                                  *)
(***************************************************************************)
Here(a) == unit[a].place \in {"map", "deleted"}

Collided(p) == proj[p].state = "COLLIDED" /\ proj[p].launcher # None

\* A RewardManager; what its damage adds up to is not needed.
Shape(r) == DOMAIN r = {"points", "invalid", "aggDamage"} /\ r.points \in [Unit -> Nat]
RewardShape == reward = [u \in Unit |-> reward[u]] /\ \A u \in Unit : Shape(reward[u])

\* The launcher of a projectile that is about to strike is here, and has not been dead
\* since an earlier update.
LaunchersHere ==
    \A p \in Projectile : Collided(p) =>
        /\ Here(proj[p].launcher)
        /\ unit[proj[p].launcher].place = "map" /\ ~unit[proj[p].launcher].alive =>
             unit[proj[p].launcher].since = 0 /\ phase # "notify"

\* An update comes to every projectile that is about to strike.
StrikesDue == phase = "update" => \A p \in Projectile : proj[p].state = "COLLIDED" => p \in todo

\* A launcher that may touch something is here.
LivingHere ==
    \A p \in Projectile : proj[p].launcher # None =>
        (unit[proj[p].launcher].alive => Here(proj[p].launcher))

RemovedAreDead == \A u \in Unit : unit[u].place = "removing" => ~unit[u].alive

AwardInv ==
    /\ ProjectileInv /\ UnitInv /\ RewardShape
    /\ AwardeesOnMap /\ LaunchersHere /\ StrikesDue /\ LivingHere /\ RemovedAreDead

\* A unit without attackers on record.
LEMMA NoAwardeesShape == Shape(NoAwardees) /\ Awardees(NoAwardees) = {}
BY DEF Shape, Awardees, NoAwardees

\* Damage puts at most its own attacker on record.
LEMMA AddDamageShape ==
  ASSUME NEW r, Shape(r), NEW a \in Unit, NEW n \in Nat
  PROVE  /\ Shape(AddDamage(r, a, n))
         /\ Awardees(AddDamage(r, a, n)) \subseteq Awardees(r) \cup {a}
<1> DEFINE s == AddDamage(r, a, n)
<1>1. DOMAIN s = DOMAIN r /\ s.points = [r.points EXCEPT ![a] = @ + n]
  BY DEF AddDamage, Shape
<1>2. s.points \in [Unit -> Nat]
  BY <1>1 DEF Shape
<1>3. \A x \in Unit : x # a => s.points[x] = r.points[x]
  BY <1>1 DEF Shape
<1> HIDE DEF s
<1>4. Shape(s)
  BY <1>1, <1>2 DEF Shape
<1>5. Awardees(s) \subseteq Awardees(r) \cup {a}
  BY <1>3 DEF Awardees
<1> QED
  BY <1>4, <1>5 DEF s

\* An update of the references adds nobody.
LEMMA UpdateAwardeesShape ==
  ASSUME NEW r, Shape(r), NEW T
  PROVE  /\ Shape(UpdateAwardees(r, T))
         /\ Awardees(UpdateAwardees(r, T)) \subseteq Awardees(r)
<1> DEFINE s == UpdateAwardees(r, T)
<1>1. /\ DOMAIN s = {"points", "invalid", "aggDamage"}
      /\ s.points = [a \in Unit |-> IF a \in T THEN 0 ELSE r.points[a]]
  BY DEF UpdateAwardees
<1> HIDE DEF s
<1>2. Shape(s)
  BY <1>1 DEF Shape
<1>3. Awardees(s) \subseteq Awardees(r)
  BY <1>1 DEF Awardees
<1> QED
  BY <1>2, <1>3 DEF s

\* A unit that leaves is cut from every record.
LEMMA ClearAwardSourcesShape ==
  ASSUME NEW rs, \A v \in Unit : Shape(rs[v]), NEW a \in Unit
  PROVE  LET cs == ClearAwardSources(rs, a)
         IN  /\ cs = [v \in Unit |-> cs[v]]
             /\ \A v \in Unit : Shape(cs[v]) /\ Awardees(cs[v]) \subseteq Awardees(rs[v]) \ {a}
<1> DEFINE cs == ClearAwardSources(rs, a)
           cut(r) == [r EXCEPT !.points[a] = 0, !.invalid = @ + r.points[a]]
<1>1. /\ cs = [v \in Unit |-> IF rs[v].points[a] = 0 THEN rs[v] ELSE cut(rs[v])]
      /\ cs = [v \in Unit |-> cs[v]]
  BY DEF ClearAwardSources
<1>2. ASSUME NEW r, Shape(r)
      PROVE  Shape(cut(r)) /\ Awardees(cut(r)) \subseteq Awardees(r) \ {a}
  <2>1. DOMAIN cut(r) = DOMAIN r /\ cut(r).points = [r.points EXCEPT ![a] = 0]
    BY <1>2 DEF Shape
  <2> HIDE DEF cut
  <2>2. cut(r).points \in [Unit -> Nat] /\ cut(r).points[a] = 0
        /\ \A x \in Unit : x # a => cut(r).points[x] = r.points[x]
    BY <1>2, <2>1 DEF Shape
  <2> QED
    BY <1>2, <2>1, <2>2 DEF Shape, Awardees
<1>3. ASSUME NEW r, Shape(r), r.points[a] = 0 PROVE Awardees(r) \subseteq Awardees(r) \ {a}
  BY <1>3 DEF Awardees
<1> HIDE DEF cs, cut
<1>4. ASSUME NEW v \in Unit
      PROVE  Shape(cs[v]) /\ Awardees(cs[v]) \subseteq Awardees(rs[v]) \ {a}
  <2>1. CASE rs[v].points[a] = 0
    BY <1>1, <1>3, <2>1
  <2>2. CASE rs[v].points[a] # 0
    BY <1>1, <1>2, <2>2
  <2> QED
    BY <2>1, <2>2
<1> QED
  BY <1>1, <1>4 DEF cs

\* died() of u pays its awardees and takes u from the lists of the others.
LEMMA DiedReward ==
  ASSUME NEW f, NEW g, g = [x \in Unit |-> g[x]], \A v \in Unit : Shape(g[v]),
         NEW c, NEW u \in Unit, NEW T,
         NEW e, e = Died([unit |-> f, reward |-> g, crashed |-> c], u, T).reward
  PROVE  /\ e = [x \in Unit |-> e[x]]
         /\ \A v \in Unit : Shape(e[v]) /\ Awardees(e[v]) \subseteq Awardees(g[v])
<1> DEFINE w == [unit |-> f, reward |-> g, crashed |-> c]
           a == AwardAllAwardees(w, u, T)
           h == [g EXCEPT ![u] = NoAwardees]
<1>1. a.reward = h /\ "unit" \in DOMAIN a /\ "reward" \in DOMAIN a
  BY DEF AwardAllAwardees
<1>2. \A v \in Unit : Shape(h[v]) /\ Awardees(h[v]) \subseteq Awardees(g[v])
  BY NoAwardeesShape
<1> HIDE DEF a, h
<1>4. SetDead(a, u).reward = ClearAwardSources(h, u)
  BY <1>1 DEF SetDead
<1>5. Died(w, u, T).reward = ClearAwardSources(h, u)
  BY <1>4 DEF Died, a
<1> DEFINE d == ClearAwardSources(h, u)
<1>6. /\ d = [v \in Unit |-> d[v]]
      /\ \A v \in Unit : Shape(d[v]) /\ Awardees(d[v]) \subseteq Awardees(h[v]) \ {u}
  BY <1>2, ClearAwardSourcesShape
<1> HIDE DEF d
<1>7. \A v \in Unit : Awardees(d[v]) \subseteq Awardees(g[v])
  BY <1>2, <1>6
<1>8. e = d
  BY <1>5 DEF d
<1> QED
  BY <1>6, <1>7, <1>8

\* cleanupBeforeDelete() of u: nobody pays u or is to be paid for u any more.
LEMMA CleanupReward ==
  ASSUME RewardShape, NEW u \in Unit
  PROVE  LET d == CleanupUnit(World, u).reward
         IN  /\ d = [x \in Unit |-> d[x]]
             /\ \A v \in Unit : Shape(d[v]) /\ Awardees(d[v]) \subseteq Awardees(reward[v]) \ {u}
             /\ DOMAIN CleanupUnit(World, u) = {"unit", "reward", "crashed"}
<1> DEFINE h == [reward EXCEPT ![u] = NoAwardees]
           d == ClearAwardSources(h, u)
<1>1. CleanupUnit(World, u).reward = d /\ DOMAIN CleanupUnit(World, u) = {"unit", "reward", "crashed"}
  BY DEF CleanupUnit, World
<1>2. \A v \in Unit : Shape(h[v]) /\ Awardees(h[v]) \subseteq Awardees(reward[v])
  BY NoAwardeesShape DEF RewardShape
<1> HIDE DEF h
<1>3. /\ d = [v \in Unit |-> d[v]]
      /\ \A v \in Unit : Shape(d[v]) /\ Awardees(d[v]) \subseteq Awardees(h[v]) \ {u}
  BY <1>2, ClearAwardSourcesShape
<1> HIDE DEF d
<1>4. \A v \in Unit : Awardees(d[v]) \subseteq Awardees(reward[v]) \ {u}
  BY <1>2, <1>3
<1> QED
  BY <1>1, <1>3, <1>4

(***************************************************************************)
(* The steps that move nobody: units may die outside the tests, rewards go  *)
(* to units that are here, projectiles may lose their launcher, stop or be  *)
(* launched.                                                                *)
(***************************************************************************)
LEMMA NobodyMoves ==
  ASSUME AwardInv, ProjectileInv', UnitInv', RewardShape', phase' = phase,
         \A a \in Unit :
            /\ unit'[a].place = unit[a].place
            /\ \/ unit'[a].alive = unit[a].alive /\ unit'[a].since = unit[a].since
               \/ ~unit'[a].alive /\ unit'[a].since = 0 /\ phase # "notify",
         \A u \in Unit : \A a \in Awardees(reward'[u]) : a \in Awardees(reward[u]) \/ Here(a),
         \A p \in Projectile :
            /\ \/ proj'[p].launcher \in {proj[p].launcher, None}
               \/ Here(proj'[p].launcher) /\ proj'[p].state # "COLLIDED"
            /\ proj'[p].state = "COLLIDED" =>
                 proj[p].state = "COLLIDED" /\ (phase = "update" => p \in todo')
  PROVE  AwardInv'
<1>0. \A p \in Projectile : proj'[p].launcher \in Unit \cup {None}
  BY DEF ProjectileInv, Clean, ProjectileRecord
<1>1. AwardeesOnMap'
  BY DEF AwardInv, AwardeesOnMap, Here, Awardees
<1>2. LaunchersHere'
  <2> SUFFICES ASSUME NEW p \in Projectile, Collided(p)'
               PROVE  /\ Here(proj[p].launcher)'
                      /\ unit'[proj'[p].launcher].place = "map" /\ ~unit'[proj'[p].launcher].alive =>
                           unit'[proj'[p].launcher].since = 0 /\ phase' # "notify"
    BY DEF LaunchersHere
  <2>1. Collided(p) /\ proj'[p].launcher = proj[p].launcher /\ proj[p].launcher \in Unit
    BY <1>0 DEF Collided
  <2>2. /\ Here(proj[p].launcher)
        /\ unit[proj[p].launcher].place = "map" /\ ~unit[proj[p].launcher].alive =>
             unit[proj[p].launcher].since = 0 /\ phase # "notify"
    BY <2>1 DEF AwardInv, LaunchersHere
  <2> QED
    BY <2>1, <2>2 DEF Here
<1>3. StrikesDue'
  BY DEF StrikesDue
<1>4. LivingHere'
  <2> SUFFICES ASSUME NEW p \in Projectile, proj'[p].launcher # None, unit'[proj'[p].launcher].alive
               PROVE  Here(proj[p].launcher)'
    BY DEF LivingHere
  <2>1. proj'[p].launcher \in Unit
    BY <1>0
  <2>2. unit[proj'[p].launcher].alive /\ unit'[proj'[p].launcher].place = unit[proj'[p].launcher].place
    BY <2>1
  <2>3. Here(proj'[p].launcher)
    BY <2>2 DEF AwardInv, LivingHere
  <2> QED
    BY <2>2, <2>3 DEF Here
<1>5. RemovedAreDead'
  BY DEF AwardInv, RemovedAreDead
<1> QED
  BY <1>1, <1>2, <1>3, <1>4, <1>5 DEF AwardInv

(***************************************************************************)
(* The unit u enters, or leaves and takes its references with it; it leaves *)
(* to where commands remove robots to, or no projectile of u may strike.    *)
(***************************************************************************)
LEMMA OneMoves ==
  ASSUME AwardInv, ProjectileInv', UnitInv', RewardShape', phase' = phase, todo' = todo,
         NEW u \in Unit,
         \A a \in Unit : a # u => unit'[a] = unit[a],
         \A v \in Unit : Awardees(reward'[v]) \subseteq Awardees(reward[v]),
         \A p \in Projectile : /\ proj'[p].launcher \in {proj[p].launcher, None}
                               /\ proj'[p].state = proj[p].state,
         \/ unit'[u].place = "map" /\ unit'[u].alive
         \/ /\ \A v \in Unit : u \notin Awardees(reward'[v])
            /\ \/ unit'[u].place = "deleted"
               \/ unit'[u].place = "removing" /\ ~unit'[u].alive
                    /\ \A p \in Projectile : Collided(p) => proj[p].launcher # u
               \/ unit'[u].place = "store" /\ \A p \in Projectile : proj'[p].launcher # u
  PROVE  AwardInv'
<1>0. \A p \in Projectile : proj'[p].launcher \in Unit \cup {None}
  BY DEF ProjectileInv, Clean, ProjectileRecord
<1>1. AwardeesOnMap'
  <2> SUFFICES ASSUME NEW v \in Unit, NEW a \in Awardees(reward'[v])
               PROVE  unit'[a].place \in {"map", "deleted"}
    BY DEF AwardeesOnMap
  <2>1. a \in Unit /\ a \in Awardees(reward[v])
    BY DEF Awardees
  <2>2. unit[a].place \in {"map", "deleted"}
    BY <2>1 DEF AwardInv, AwardeesOnMap
  <2>3. CASE a # u
    BY <2>1, <2>2, <2>3
  <2>4. CASE a = u
    BY <2>4
  <2> QED
    BY <2>3, <2>4
<1>2. LaunchersHere'
  <2> SUFFICES ASSUME NEW p \in Projectile, Collided(p)'
               PROVE  /\ Here(proj[p].launcher)'
                      /\ unit'[proj'[p].launcher].place = "map" /\ ~unit'[proj'[p].launcher].alive =>
                           unit'[proj'[p].launcher].since = 0 /\ phase' # "notify"
    BY DEF LaunchersHere
  <2>1. Collided(p) /\ proj'[p].launcher = proj[p].launcher /\ proj[p].launcher \in Unit
    BY <1>0 DEF Collided
  <2>2. /\ Here(proj[p].launcher)
        /\ unit[proj[p].launcher].place = "map" /\ ~unit[proj[p].launcher].alive =>
             unit[proj[p].launcher].since = 0 /\ phase # "notify"
    BY <2>1 DEF AwardInv, LaunchersHere
  <2>3. CASE proj[p].launcher # u
    BY <2>1, <2>2, <2>3 DEF Here
  <2>4. CASE proj[p].launcher = u
    BY <2>1, <2>4 DEF Here
  <2> QED
    BY <2>3, <2>4
<1>3. StrikesDue'
  BY DEF AwardInv, StrikesDue
<1>4. LivingHere'
  <2> SUFFICES ASSUME NEW p \in Projectile, proj'[p].launcher # None, unit'[proj'[p].launcher].alive
               PROVE  Here(proj[p].launcher)'
    BY DEF LivingHere
  <2>1. proj'[p].launcher \in Unit /\ proj'[p].launcher = proj[p].launcher
    BY <1>0
  <2>2. CASE proj[p].launcher # u
    BY <2>1, <2>2 DEF AwardInv, LivingHere, Here
  <2>3. CASE proj[p].launcher = u
    BY <2>1, <2>3 DEF Here
  <2> QED
    BY <2>2, <2>3
<1>5. RemovedAreDead'
  BY DEF AwardInv, RemovedAreDead
<1> QED
  BY <1>1, <1>2, <1>3, <1>4, <1>5 DEF AwardInv

\* Nobody is on record at the start.
LEMMA AwardInit == Init => AwardInv
<1> SUFFICES ASSUME Init PROVE AwardInv
  OBVIOUS
<1>1. ProjectileInv /\ UnitInv
  BY ProjectileInit, NewUnitSound DEF Init, UnitInv
<1>2. RewardShape /\ AwardeesOnMap
  BY NoAwardeesShape DEF Init, RewardShape, AwardeesOnMap
<1>3. LaunchersHere /\ StrikesDue /\ LivingHere
  BY DEF Init, NewProjectile, LaunchersHere, Collided, StrikesDue, LivingHere
<1>4. RemovedAreDead
  BY DEF Init, NewUnit, RemovedAreDead
<1> QED
  BY <1>1, <1>2, <1>3, <1>4 DEF AwardInv

\* died() of u moves nobody.
LEMMA DeathAwards ==
  ASSUME AwardInv, ProjectileInv', UnitInv', UNCHANGED <<phase, todo>>, phase # "notify",
         NEW u \in Unit, NEW g, g = [x \in Unit |-> g[x]], \A v \in Unit : Shape(g[v]),
         \A v \in Unit : \A a \in Awardees(g[v]) : a \in Awardees(reward[v]) \/ Here(a),
         NEW c, NEW T,
         Becomes(Died([unit |-> unit, reward |-> g, crashed |-> c], u, T)),
         \A p \in Projectile : /\ proj'[p].launcher = proj[p].launcher
                               /\ proj'[p].state = proj[p].state
  PROVE  AwardInv'
<1> DEFINE d == Died([unit |-> unit, reward |-> g, crashed |-> c], u, T)
           e == d.reward
<1>1. unit' = d.unit /\ reward' = e
  BY DEF Becomes
<1>2. d.unit = [unit EXCEPT ![u] = Dead(unit[u])]
  BY DiedUnit DEF AwardInv, UnitInv
<1>3. /\ e = [x \in Unit |-> e[x]]
      /\ \A v \in Unit : Shape(e[v]) /\ Awardees(e[v]) \subseteq Awardees(g[v])
  <2>1. e = Died([unit |-> unit, reward |-> g, crashed |-> c], u, T).reward
    OBVIOUS
  <2> HIDE DEF d, e
  <2> QED
    BY <2>1, DiedReward, SMTT(30)
<1> HIDE DEF d, e
<1>4. RewardShape'
  BY <1>1, <1>3 DEF RewardShape
<1>5. \A v \in Unit : \A a \in Awardees(reward'[v]) : a \in Awardees(reward[v]) \/ Here(a)
  BY <1>1, <1>3
<1>6. Dead(unit[u]).place = unit[u].place /\ ~Dead(unit[u]).alive /\ Dead(unit[u]).since = 0
  BY DEF Dead, AwardInv, UnitInv, SoundUnit, UnitRecord
<1>7. \A a \in Unit :
         /\ unit'[a].place = unit[a].place
         /\ \/ unit'[a].alive = unit[a].alive /\ unit'[a].since = unit[a].since
            \/ ~unit'[a].alive /\ unit'[a].since = 0 /\ phase # "notify"
  BY <1>1, <1>2, <1>6 DEF AwardInv, UnitInv
<1>8. \A p \in Projectile : proj'[p].state = "COLLIDED" /\ phase = "update" => p \in todo'
  BY DEF AwardInv, StrikesDue
<1> QED
  BY <1>4, <1>5, <1>7, <1>8, NobodyMoves

\* A strike credits a launcher that is on the map.
LEMMA StrikeAwards ==
  ASSUME AwardInv, ProjectileInv', UnitInv', NEW p \in Projectile, NEW t, NEW n \in 1..MaxDamage,
         NEW T, Strike(p, t, n, T)
  PROVE  AwardInv'
<1> DEFINE a == proj[p].launcher
<1>1. /\ UNCHANGED <<phase, todo>> /\ phase = "update" /\ proj[p].state = "COLLIDED"
      /\ \A q \in Projectile : /\ proj'[q].launcher = proj[q].launcher
                               /\ proj'[q].state = proj[q].state
  <2> DEFINE r == [proj[p] EXCEPT !.valid = @ \ {t}]
  <2>1. /\ UNCHANGED <<phase, todo>> /\ phase = "update" /\ proj[p].state = "COLLIDED"
        /\ proj' = [proj EXCEPT ![p] = r]
    BY DEF Strike
  <2>2. r.launcher = proj[p].launcher /\ r.state = proj[p].state
    BY DEF AwardInv, ProjectileInv, Clean, ProjectileRecord
  <2> HIDE DEF r
  <2> QED
    BY <2>1, <2>2 DEF AwardInv, ProjectileInv
<1>2. \A q \in Projectile : proj'[q].state = "COLLIDED" /\ phase = "update" => q \in todo'
  BY <1>1 DEF AwardInv, StrikesDue
<1>3. CASE UNCHANGED <<unit, reward>>
  <2>1. RewardShape'
    BY <1>3 DEF AwardInv, RewardShape
  <2> QED
    BY <1>1, <1>2, <1>3, <2>1, NobodyMoves
<1>4. CASE a # None /\ t \in Unit /\ Becomes(StruckUnit(World, a, t, n, T))
  <2>1. a \in Unit /\ Here(a)
    BY <1>1, <1>4 DEF AwardInv, ProjectileInv, Clean, ProjectileRecord, LaunchersHere, Collided
  <2>2. CASE ~unit[t].alive
    BY <1>3, <1>4, <2>2 DEF StruckUnit, World, Becomes
  <2>3. CASE unit[t].alive
    <3> DEFINE d == Min({n, unit[t].health})
               g == [reward EXCEPT ![t] = AddDamage(reward[t], a, d)]
               w == [unit |-> unit, reward |-> g, crashed |-> crashed]
    <3>1. d \in Nat
      <4>1. unit[t].health \in 0..MaxHealth /\ n \in Nat
        BY <1>4, PointAssumption DEF AwardInv, UnitInv, SoundUnit, UnitRecord
      <4> QED
        BY <4>1, MinOfTwo, PointAssumption
    <3>2. /\ Shape(AddDamage(reward[t], a, d))
          /\ Awardees(AddDamage(reward[t], a, d)) \subseteq Awardees(reward[t]) \cup {a}
      <4>1. Shape(reward[t])
        BY <1>4 DEF AwardInv, RewardShape
      <4> HIDE DEF a, d
      <4> QED
        BY <2>1, <3>1, <4>1, AddDamageShape
    <3>3. /\ g = [x \in Unit |-> g[x]]
          /\ \A v \in Unit : Shape(g[v])
          /\ \A v \in Unit : \A x \in Awardees(g[v]) : x \in Awardees(reward[v]) \/ Here(x)
      BY <1>4, <2>1, <3>2 DEF AwardInv, RewardShape
    <3>4. [World EXCEPT !.reward[t] = AddDamage(@, a, Min({n, World.unit[t].health}))] = w
      BY DEF World
    <3>5. Becomes(IF unit[t].health > n THEN [w EXCEPT !.unit[t].health = @ - n] ELSE Died(w, t, T))
      BY <1>4, <2>3, <3>4 DEF StruckUnit, DealDamage, World
    <3> HIDE DEF g
    <3>6. CASE ~(unit[t].health > n)
      <4>1. Becomes(Died(w, t, T))
        BY <3>5, <3>6
      <4> QED
        BY <1>1, <1>4, <3>3, <4>1, DeathAwards
    <3>7. CASE unit[t].health > n
      <4>1. reward' = g /\ unit' = [unit EXCEPT ![t] = [unit[t] EXCEPT !.health = @ - n]]
        BY <1>4, <3>5, <3>7 DEF Becomes, AwardInv, UnitInv
      <4>2. \A x \in Unit : /\ unit'[x].place = unit[x].place
                            /\ unit'[x].alive = unit[x].alive /\ unit'[x].since = unit[x].since
        BY <1>4, <4>1 DEF AwardInv, UnitInv, SoundUnit, UnitRecord
      <4>3. RewardShape'
        BY <3>3, <4>1 DEF RewardShape
      <4> QED
        BY <1>1, <1>2, <3>3, <4>1, <4>2, <4>3, NobodyMoves
    <3> QED
      BY <3>6, <3>7
  <2> QED
    BY <2>2, <2>3
<1> QED
  BY <1>3, <1>4 DEF Strike

\* Every step keeps the awardees on the map.
LEMMA AwardNext == AwardInv /\ [Next]_vars => AwardInv'
<1> SUFFICES ASSUME AwardInv, [Next]_vars PROVE AwardInv'
  OBVIOUS
<1>0. ProjectileInv' /\ UnitInv'
  BY ProjectileNext, UnitNext DEF AwardInv
<1>r. RewardShape
  BY DEF AwardInv
<1>s. \A p \in Projectile : proj[p].state = "COLLIDED" /\ phase = "update" => p \in todo
  BY DEF AwardInv, StrikesDue
<1>u. UNCHANGED reward => RewardShape'
  BY <1>r DEF RewardShape
<1>1. CASE UNCHANGED <<unit, reward, proj, phase, todo>>
  BY <1>0, <1>1, <1>s, <1>u, NobodyMoves
<1>2. ASSUME NEW u \in Unit, JoinBattle(u) \/ AddRobot(u) PROVE AwardInv'
  <2>1. unit' = [unit EXCEPT ![u] = NewUnit] /\ UNCHANGED <<reward, proj, phase, todo>>
    BY <1>2 DEF JoinBattle, AddRobot
  <2>2. \A a \in Unit : a # u => unit'[a] = unit[a]
    BY <2>1 DEF AwardInv, UnitInv
  <2>3. unit'[u].place = "map" /\ unit'[u].alive
    BY <2>1 DEF AwardInv, UnitInv, NewUnit
  <2> QED
    BY <1>0, <1>u, <2>1, <2>2, <2>3, OneMoves
<1>3. ASSUME NEW u \in Unit, LogoutPlayer(u) PROVE AwardInv'
  <2>1. /\ unit' = [unit EXCEPT ![u] = [NewUnit EXCEPT !.place = "store"]]
        /\ reward' = CleanupUnit(World, u).reward
        /\ UNCHANGED <<phase, todo>>
    BY <1>3, <1>r, CleanupUnits, CleanupReward DEF LogoutPlayer, Becomes
  <2>2. /\ RewardShape'
        /\ \A v \in Unit : Awardees(reward'[v]) \subseteq Awardees(reward[v]) \ {u}
    BY <1>r, <2>1, CleanupReward DEF RewardShape
  <2>3. \A p \in Projectile : /\ proj'[p].launcher = IF proj[p].launcher = u THEN None
                                                     ELSE proj[p].launcher
                              /\ proj'[p].state = proj[p].state
    BY <1>3 DEF LogoutPlayer, AwardInv, ProjectileInv, Clean, ProjectileRecord
  <2>4. \A a \in Unit : a # u => unit'[a] = unit[a]
    BY <2>1 DEF AwardInv, UnitInv
  <2>5. unit'[u].place = "store"
    BY <2>1 DEF AwardInv, UnitInv, NewUnit
  <2>6. u # None
    BY ObjectAssumption
  <2>7. \A p \in Projectile : /\ proj'[p].launcher \in {proj[p].launcher, None}
                              /\ proj'[p].state = proj[p].state
                              /\ proj'[p].launcher # u
    BY <2>3, <2>6
  <2>8. \A v \in Unit : /\ Awardees(reward'[v]) \subseteq Awardees(reward[v])
                        /\ u \notin Awardees(reward'[v])
    BY <2>2
  <2>9. RewardShape' /\ phase' = phase /\ todo' = todo
    BY <2>1, <2>2
  <2> QED
    BY <1>0, <2>4, <2>5, <2>7, <2>8, <2>9, OneMoves
<1>4. ASSUME NEW u \in Unit, DelRobot(u) \/ WithdrawRobot(u) PROVE AwardInv'
  <2>1. /\ \/ unit' = [unit EXCEPT ![u] = [unit[u] EXCEPT !.place = "deleted"]]
           \/ /\ unit' = [unit EXCEPT ![u] = [unit[u] EXCEPT !.place = "removing"]]
              /\ unit[u].place = "map" /\ ~unit[u].alive /\ unit[u].since = WithdrawalDelay
        /\ reward' = CleanupUnit(World, u).reward
        /\ proj' = ClearCollisions({u})
        /\ UNCHANGED <<phase, todo>>
    BY <1>4, <1>r, CleanupUnits, CleanupReward
       DEF DelRobot, WithdrawRobot, Becomes, AwardInv, UnitInv
  <2>2. /\ RewardShape'
        /\ \A v \in Unit : Awardees(reward'[v]) \subseteq Awardees(reward[v]) \ {u}
    BY <1>r, <2>1, CleanupReward DEF RewardShape
  <2>3. \A p \in Projectile : proj'[p].launcher = proj[p].launcher /\ proj'[p].state = proj[p].state
    BY <2>1 DEF ClearCollisions, AwardInv, ProjectileInv, Clean, ProjectileRecord
  <2>4. \A a \in Unit : a # u => unit'[a] = unit[a]
    BY <2>1 DEF AwardInv, UnitInv
  <2>7. \A v \in Unit : /\ Awardees(reward'[v]) \subseteq Awardees(reward[v])
                        /\ u \notin Awardees(reward'[v])
    BY <2>2
  <2>8. RewardShape' /\ phase' = phase /\ todo' = todo
    BY <2>1, <2>2
  <2>5. CASE unit' = [unit EXCEPT ![u] = [unit[u] EXCEPT !.place = "deleted"]]
    <3>1. unit'[u].place = "deleted"
      BY <2>5 DEF AwardInv, UnitInv, SoundUnit, UnitRecord
    <3> QED
      BY <1>0, <2>3, <2>4, <2>7, <2>8, <3>1, OneMoves
  <2>6. CASE /\ unit' = [unit EXCEPT ![u] = [unit[u] EXCEPT !.place = "removing"]]
             /\ unit[u].place = "map" /\ ~unit[u].alive /\ unit[u].since = WithdrawalDelay
    <3>1. unit'[u].place = "removing" /\ ~unit'[u].alive
      BY <2>6 DEF AwardInv, UnitInv, SoundUnit, UnitRecord
    <3>2. unit[u].since # 0
      BY <2>6, DelayAssumption
    <3>3. \A p \in Projectile : Collided(p) => proj[p].launcher # u
      BY <2>6, <3>2 DEF AwardInv, LaunchersHere
    <3> QED
      BY <1>0, <2>3, <2>4, <2>7, <2>8, <3>1, <3>3, OneMoves
  <2> QED
    BY <2>1, <2>5, <2>6
<1>5. ASSUME NEW b \in ItemBox, DelItemBox(b) PROVE AwardInv'
  <2>1. proj' = ClearCollisions({b}) /\ UNCHANGED <<unit, reward, phase, todo>>
    BY <1>5 DEF DelItemBox
  <2>2. \A p \in Projectile : proj'[p].launcher = proj[p].launcher /\ proj'[p].state = proj[p].state
    BY <2>1 DEF ClearCollisions, AwardInv, ProjectileInv, Clean, ProjectileRecord
  <2> QED
    BY <1>0, <1>s, <1>u, <2>1, <2>2, NobodyMoves
<1>6. ASSUME NEW g \in Player, NEW u \in Unit, NEW T, ExecuteDie(g, u, T) PROVE AwardInv'
  <2> DEFINE h == [reward EXCEPT ![u] = AddDamage(reward[u], g, MaxHealth)]
  <2>1. [World EXCEPT !.reward[u] = AddDamage(@, g, MaxHealth)]
          = [unit |-> unit, reward |-> h, crashed |-> crashed]
    BY DEF World
  <2>2. /\ phase = "sessions" /\ unit[g].place = "map" /\ UNCHANGED <<phase, todo, proj>>
        /\ Becomes(Died([unit |-> unit, reward |-> h, crashed |-> crashed], u, T))
    BY <1>6, <2>1 DEF ExecuteDie, Sessions
  <2>3. g \in Unit /\ Here(g) /\ MaxHealth \in Nat /\ Shape(reward[u])
    BY <1>r, <2>2, PointAssumption DEF Unit, Here, RewardShape
  <2>4. /\ Shape(AddDamage(reward[u], g, MaxHealth))
        /\ Awardees(AddDamage(reward[u], g, MaxHealth)) \subseteq Awardees(reward[u]) \cup {g}
    BY <2>3, AddDamageShape
  <2>5. /\ h = [x \in Unit |-> h[x]]
        /\ \A v \in Unit : Shape(h[v])
        /\ \A v \in Unit : \A x \in Awardees(h[v]) : x \in Awardees(reward[v]) \/ Here(x)
    BY <1>r, <2>3, <2>4 DEF RewardShape
  <2> HIDE DEF h
  <2> QED
    BY <1>0, <2>2, <2>5, DeathAwards
<1>7. ASSUME NEW u \in Unit, NEW n \in 1..MaxDamage, RegenHealth(u, n) PROVE AwardInv'
  <2> DEFINE m == Min({unit[u].health + n, MaxHealth})
  <2>1. unit' = [unit EXCEPT ![u] = [unit[u] EXCEPT !.health = m]] /\ UNCHANGED <<reward, proj, phase, todo>>
    BY <1>7 DEF RegenHealth, AwardInv, UnitInv
  <2> HIDE DEF m
  <2>2. \A a \in Unit : /\ unit'[a].place = unit[a].place
                        /\ unit'[a].alive = unit[a].alive /\ unit'[a].since = unit[a].since
    BY <2>1 DEF AwardInv, UnitInv, SoundUnit, UnitRecord
  <2> QED
    BY <1>0, <1>s, <1>u, <2>1, <2>2, NobodyMoves
<1>8. ASSUME NEW u \in Unit, NEW n \in 1..MaxDamage, NEW T, UpdateHealthLossTimer(u, n, T)
      PROVE  AwardInv'
  <2>1. phase = "update" /\ Becomes(LoseHealth(World, u, n, T)) /\ UNCHANGED <<proj, phase, todo>>
    BY <1>8 DEF UpdateHealthLossTimer, Updating
  <2>2. CASE unit[u].health > n
    <3>1. reward' = reward /\ unit' = [unit EXCEPT ![u] = [unit[u] EXCEPT !.health = @ - n]]
      BY <2>1, <2>2 DEF LoseHealth, World, Becomes, AwardInv, UnitInv
    <3>2. \A a \in Unit : /\ unit'[a].place = unit[a].place
                          /\ unit'[a].alive = unit[a].alive /\ unit'[a].since = unit[a].since
      BY <3>1 DEF AwardInv, UnitInv, SoundUnit, UnitRecord
    <3> QED
      BY <1>0, <1>s, <1>u, <2>1, <3>1, <3>2, NobodyMoves
  <2>3. CASE ~(unit[u].health > n)
    <3>1. Becomes(Died([unit |-> unit, reward |-> reward, crashed |-> crashed], u, T))
      BY <2>1, <2>3 DEF LoseHealth, World
    <3>2. reward = [x \in Unit |-> reward[x]] /\ \A v \in Unit : Shape(reward[v])
      BY <1>r DEF RewardShape
    <3> QED
      BY <1>0, <2>1, <3>1, <3>2, DeathAwards
  <2> QED
    BY <2>2, <2>3
<1>9. ASSUME NEW u \in Unit, NEW T, UpdateRewardManager(u, T) PROVE AwardInv'
  <2>1. /\ reward' = [reward EXCEPT ![u] = UpdateAwardees(reward[u], T)]
        /\ UNCHANGED <<unit, proj, phase, todo>>
    BY <1>9 DEF UpdateRewardManager
  <2>2. /\ Shape(UpdateAwardees(reward[u], T))
        /\ Awardees(UpdateAwardees(reward[u], T)) \subseteq Awardees(reward[u])
    BY <1>r, UpdateAwardeesShape DEF RewardShape
  <2>3. RewardShape' /\ \A v \in Unit : Awardees(reward'[v]) \subseteq Awardees(reward[v])
    BY <1>r, <2>1, <2>2 DEF RewardShape
  <2> QED
    BY <1>0, <1>s, <2>1, <2>3, NobodyMoves
<1>10. ASSUME NEW u \in Unit, NEW p \in Projectile, Attack(u, p) \/ AttackInternal(u, p)
       PROVE  AwardInv'
  <2>1. /\ unit[u].place = "map" /\ todo \subseteq todo' /\ UNCHANGED <<unit, reward, phase>>
        /\ proj' = [proj EXCEPT ![p] = Launched(proj[p], u)]
    BY <1>10 DEF Attack, AttackInternal
  <2>2. Launched(proj[p], u).launcher = u /\ Launched(proj[p], u).state = "ACTIVE"
    BY DEF Launched, AwardInv, ProjectileInv, Clean, ProjectileRecord
  <2>3. Here(u)
    BY <2>1 DEF Here
  <2>4. /\ proj'[p] = Launched(proj[p], u)
        /\ \A q \in Projectile : q # p => proj'[q] = proj[q]
    BY <2>1 DEF AwardInv, ProjectileInv
  <2> QED
    BY <1>0, <1>s, <1>u, <2>1, <2>2, <2>3, <2>4, NobodyMoves
<1>11. ASSUME NEW p \in Projectile, UpdateProjectile(p) PROVE AwardInv'
  <2>1. ASSUME NEW r, proj' = [proj EXCEPT ![p] = r], r.state # "COLLIDED",
               r.launcher \in {proj[p].launcher, None},
               todo' = todo \ {p}, UNCHANGED <<unit, reward, phase>>
        PROVE  AwardInv'
    <3>1. proj'[p] = r /\ \A q \in Projectile : q # p => proj'[q] = proj[q]
      BY <2>1 DEF AwardInv, ProjectileInv
    <3> QED
      BY <1>0, <1>s, <1>u, <2>1, <3>1, NobodyMoves
  <2>2. proj[p] \in ProjectileRecord
    BY DEF AwardInv, ProjectileInv, Clean
  <2>3. ASSUME NEW h \in BOOLEAN, NEW e \in BOOLEAN, Fly(p, h, e) PROVE AwardInv'
    <3> DEFINE r == [proj[p] EXCEPT !.moving = ~e,
                                    !.state = IF h \/ e THEN "INACTIVATE" ELSE @]
    <3>1. /\ proj[p].state = "ACTIVE" /\ proj' = [proj EXCEPT ![p] = r]
          /\ todo' = todo \ {p} /\ UNCHANGED <<unit, reward, phase>>
      BY <2>2, <2>3 DEF Fly, AwardInv, ProjectileInv, ProjectileRecord
    <3>2. r.state # "COLLIDED" /\ r.launcher = proj[p].launcher
      BY <2>2, <3>1 DEF ProjectileRecord
    <3> HIDE DEF r
    <3> QED
      BY <2>1, <3>1, <3>2
  <2>4. CASE StrikeDone(p)
    <3> DEFINE r == [proj[p] EXCEPT !.state = "INACTIVATE"]
    <3>1. /\ proj' = [proj EXCEPT ![p] = r]
          /\ todo' = todo \ {p} /\ UNCHANGED <<unit, reward, phase>>
      BY <2>4 DEF StrikeDone
    <3>2. r.state # "COLLIDED" /\ r.launcher = proj[p].launcher
      BY <2>2 DEF ProjectileRecord
    <3> HIDE DEF r
    <3> QED
      BY <2>1, <3>1, <3>2
  <2>5. CASE Inactivate(p)
    <3> DEFINE r == Inactivated(proj[p])
    <3>1. /\ proj' = [proj EXCEPT ![p] = r]
          /\ todo' = todo \ {p} /\ UNCHANGED <<unit, reward, phase>>
      BY <2>5 DEF Inactivate
    <3>2. r.state # "COLLIDED" /\ r.launcher = None
      BY <2>2 DEF Inactivated, ProjectileRecord
    <3> HIDE DEF r
    <3> QED
      BY <2>1, <3>1, <3>2
  <2> QED
    BY <1>0, <1>11, <2>3, <2>4, <2>5, StrikeAwards DEF UpdateProjectile
<1>12. ASSUME NEW p \in Projectile, NEW t \in Target, TestCollision(p, t) PROVE AwardInv'
  <2> DEFINE r == [proj[p] EXCEPT !.state = "COLLIDED", !.touched = TRUE, !.valid = @ \cup {t}]
  <2>1. /\ phase = "notify" /\ proj' = [proj EXCEPT ![p] = r]
        /\ proj[p].launcher # None /\ unit[proj[p].launcher].alive
        /\ UNCHANGED <<unit, reward, phase, todo>>
    BY <1>12 DEF TestCollision, CanDetect, AwardInv, ProjectileInv, Clean, ProjectileRecord
  <2>2. r.launcher = proj[p].launcher
    BY DEF AwardInv, ProjectileInv, Clean, ProjectileRecord
  <2> HIDE DEF r
  <2>3. /\ proj'[p] = r /\ \A q \in Projectile : q # p => proj'[q] = proj[q]
    BY <2>1 DEF AwardInv, ProjectileInv
  <2>4. Here(proj[p].launcher)
    BY <2>1 DEF AwardInv, LivingHere
  <2>5. AwardeesOnMap' /\ StrikesDue' /\ RemovedAreDead'
    BY <2>1 DEF AwardInv, AwardeesOnMap, StrikesDue, RemovedAreDead
  <2>6. LivingHere'
    BY <2>1, <2>2, <2>3 DEF AwardInv, LivingHere, Here
  <2>7. LaunchersHere'
    BY <2>1, <2>2, <2>3, <2>4 DEF AwardInv, LaunchersHere, Collided, Here
  <2> QED
    BY <1>0, <1>u, <2>1, <2>5, <2>6, <2>7 DEF AwardInv
<1>13. CASE CleanupAllGrids
  <2>1. /\ phase = "sessions" /\ UNCHANGED <<phase, todo>>
        /\ reward' = [u \in Unit |-> NoAwardees]
        /\ \A u \in Unit : unit'[u] = IF unit[u].place = "map"
                                      THEN [unit[u] EXCEPT !.place = "store"] ELSE unit[u]
        /\ \A p \in Projectile : proj'[p] = IF proj[p].place = "map"
                                            THEN [NewProjectile EXCEPT !.place = "store"] ELSE proj[p]
    BY <1>13 DEF CleanupAllGrids, Sessions
  <2>2. RewardShape' /\ AwardeesOnMap'
    BY <2>1, NoAwardeesShape DEF RewardShape, AwardeesOnMap
  <2>3. \A p \in Projectile : proj'[p].launcher = None
    BY <2>1 DEF NewProjectile, AwardInv, ProjectileInv, Clean
  <2>4. LaunchersHere' /\ LivingHere' /\ StrikesDue'
    BY <2>1, <2>3 DEF LaunchersHere, Collided, LivingHere, StrikesDue
  <2>5. RemovedAreDead'
    BY <2>1 DEF RemovedAreDead, AwardInv, UnitInv, SoundUnit, UnitRecord
  <2> QED
    BY <1>0, <2>2, <2>4, <2>5 DEF AwardInv
<1>14. CASE EndUpdate
  <2>1. phase = "notify" /\ phase' = "sessions" /\ UNCHANGED <<reward, todo>>
    BY <1>14 DEF EndUpdate
  <2>2. \A u \in Unit :
           /\ unit'[u].alive = unit[u].alive
           /\ unit'[u].place = IF unit[u].place = "removing" THEN "store" ELSE unit[u].place
    BY <1>14 DEF EndUpdate, AwardInv, UnitInv, SoundUnit, UnitRecord
  <2>3. \A p \in Projectile : proj'[p].launcher = proj[p].launcher /\ proj'[p].state = proj[p].state
    BY <1>14 DEF EndUpdate, AwardInv, ProjectileInv, Clean, ProjectileRecord
  <2>4. \A p \in Projectile : proj[p].launcher \in Unit \cup {None}
    BY DEF AwardInv, ProjectileInv, Clean, ProjectileRecord
  <2>5. AwardeesOnMap' /\ StrikesDue' /\ RemovedAreDead'
    BY <2>1, <2>2 DEF AwardInv, AwardeesOnMap, Awardees, StrikesDue, RemovedAreDead
  <2>6. LivingHere'
    BY <2>2, <2>3, <2>4 DEF AwardInv, LivingHere, Here
  <2>7. LaunchersHere'
    BY <2>1, <2>2, <2>3, <2>4 DEF AwardInv, LaunchersHere, Collided, Here
  <2> QED
    BY <1>0, <1>u, <2>1, <2>5, <2>6, <2>7 DEF AwardInv
<1>15. CASE BeginUpdate
  <2>1. /\ phase = "sessions" /\ phase' = "update" /\ UNCHANGED <<unit, reward, proj>>
        /\ todo' = {p \in Projectile : proj[p].place = "map"}
    BY <1>15 DEF BeginUpdate, Sessions
  <2>2. StrikesDue'
    BY <2>1 DEF StrikesDue, AwardInv, ProjectileInv, Clean
  <2>3. LaunchersHere'
    BY <2>1 DEF AwardInv, LaunchersHere, Collided, Here
  <2> QED
    BY <1>0, <1>u, <2>1, <2>2, <2>3 DEF AwardInv, AwardeesOnMap, LivingHere, Here, RemovedAreDead
<1>16. CASE BeginNotify
  <2>1. /\ phase = "update" /\ todo = {} /\ phase' = "notify" /\ UNCHANGED <<unit, reward, proj>>
    BY <1>16 DEF BeginNotify, Updating
  <2>2. \A p \in Projectile : proj[p].state # "COLLIDED"
    BY <1>s, <2>1
  <2>3. StrikesDue' /\ LaunchersHere'
    BY <2>1, <2>2 DEF StrikesDue, LaunchersHere, Collided
  <2> QED
    BY <1>0, <1>u, <2>1, <2>3 DEF AwardInv, AwardeesOnMap, LivingHere, Here, RemovedAreDead
<1>17. CASE UNCHANGED vars
  BY <1>1, <1>17 DEF vars
<1> QED
  <2>1. ASSUME Next PROVE AwardInv'
    BY <2>1, <1>1, <1>2, <1>3, <1>4, <1>5, <1>6, <1>7, <1>8, <1>9, <1>10, <1>11, <1>12, <1>13,
       <1>14, <1>15, <1>16, <1>17
       DEF Next, AddItemBox, Terminated, Unit
  <2> QED
    BY <2>1, <1>17

(***************************************************************************)
(* Whoever is on record to be paid for a death is still on the map, unless  *)
(* a game master removed it: neither a robot that withdraws nor a player    *)
(* that logs out is credited with what its projectiles strike later         *)
(* (Unit::cleanupBeforeDelete(), Projectile::updateCollidedObjects()).      *)
(***************************************************************************)
THEOREM AwardeesCorrect == Spec => []AwardeesOnMap
<1>1. AwardInv => AwardeesOnMap
  BY DEF AwardInv
<1> QED
  BY <1>1, AwardInit, AwardNext, PTL DEF Spec

-----------------------------------------------------------------------------
(***************************************************************************)
(* Sums.  SumFunctionOnSet is a recursive function over the subsets of its  *)
(* set, which takes out one element after the other; what holds of it for   *)
(* all finite sets is shown for a minimal set for which it would not hold.  *)
(***************************************************************************)

\* Among sets of elements of a finite set there is one that contains no other.
LEMMA MinimalSubset ==
    ASSUME NEW S, IsFiniteSet(S), NEW T \in SUBSET SUBSET S, T # {}
    PROVE  \E X \in T : \A Y \in T : Y \subseteq X => Y = X
<1>1. IsWellFoundedOn(StrictSubsetOrdering(S), SUBSET S)
  BY FS_StrictSubsetOrderingWellFounded, FS_FiniteSubsetsOfFinite
<1>2. \E x \in T : \A y \in T : ~ (<<y, x>> \in StrictSubsetOrdering(S))
  BY <1>1, WFMin
<1> QED BY <1>2 DEF StrictSubsetOrdering

\* The element that is added first.
Picked(s) == CHOOSE x \in s : TRUE

\* g[s] is the sum of f over s, for all subsets s of S.
Adds(g, f, S) ==
    \A s \in SUBSET S : g[s] = IF s = {} THEN 0 ELSE f[Picked(s)] + g[s \ {Picked(s)}]

\* The values of f that are added up are natural numbers.
Summable(f, S) == IsFiniteSet(S) /\ \A x \in S : f[x] \in Nat

\* The definition, as one equation.
LEMMA SumDef ==
    ASSUME NEW f, NEW S
    PROVE  SumFunctionOnSet(f, S) =
           (CHOOSE g : g = [s \in SUBSET S |-> IF s = {} THEN 0
                                               ELSE f[Picked(s)] + g[s \ {Picked(s)}]])[S]
BY DEF SumFunctionOnSet, FoldFunctionOnSet, MapThenFoldSet, Picked

\* A set that is not empty has the element that is picked.
LEMMA PickedIn ==
    ASSUME NEW s, s # {}
    PROVE  Picked(s) \in s
BY DEF Picked

\* Two functions with the equation agree.
LEMMA AddsUnique ==
    ASSUME NEW f, NEW S, IsFiniteSet(S), NEW g, NEW h, Adds(g, f, S), Adds(h, f, S)
    PROVE  \A s \in SUBSET S : g[s] = h[s]
<1> DEFINE T == {s \in SUBSET S : g[s] # h[s]}
<1> SUFFICES ASSUME T # {} PROVE FALSE
  OBVIOUS
<1>1. PICK s \in T : \A t \in T : t \subseteq s => t = s
  <2>1. T \in SUBSET SUBSET S
    OBVIOUS
  <2> HIDE DEF T
  <2> QED BY <2>1, MinimalSubset
<1>2. s # {}
  BY DEF Adds
<1>3. Picked(s) \in s
  BY <1>2, PickedIn
<1> DEFINE t == s \ {Picked(s)}
<1>4. t \in SUBSET S /\ t \subseteq s /\ t # s
  BY <1>3
<1>5. g[t] = h[t]
  BY <1>1, <1>4
<1>6. g[s] = f[Picked(s)] + g[t] /\ h[s] = f[Picked(s)] + h[t]
  BY <1>2 DEF Adds
<1> QED BY <1>5, <1>6

\* The equation for a set is one for its subsets.
LEMMA AddsSubset ==
    ASSUME NEW f, NEW S, NEW g, Adds(g, f, S), NEW V \in SUBSET S
    PROVE  Adds(g, f, V)
BY DEF Adds

\* There is such a function.
LEMMA AddsExist ==
    ASSUME NEW f, NEW S, Summable(f, S)
    PROVE  \E g \in [SUBSET S -> Nat] : Adds(g, f, S)
<1> DEFINE Has(V) == \E g \in [SUBSET V -> Nat] : Adds(g, f, V)
           T == {V \in SUBSET S : ~ Has(V)}
<1>0. IsFiniteSet(S) /\ \A x \in S : f[x] \in Nat
  BY DEF Summable
<1> SUFFICES ASSUME T # {} PROVE FALSE
  OBVIOUS
<1>1. PICK U \in T : \A V \in T : V \subseteq U => V = U
  <2>1. T \in SUBSET SUBSET S
    OBVIOUS
  <2> HIDE DEF T
  <2> QED BY <2>1, <1>0, MinimalSubset
<1>2. ASSUME NEW V \in SUBSET U, V # U PROVE Has(V)
  BY <1>1, <1>2
<1> DEFINE H(V) == CHOOSE g \in [SUBSET V -> Nat] : Adds(g, f, V)
           G == [s \in SUBSET U |-> IF s = {} THEN 0
                                    ELSE f[Picked(s)] + H(s \ {Picked(s)})[s \ {Picked(s)}]]
<1>3. ASSUME NEW V \in SUBSET U, V # U PROVE H(V) \in [SUBSET V -> Nat] /\ Adds(H(V), f, V)
  BY <1>2, <1>3, Zenon
<1>4. ASSUME NEW s \in SUBSET U, s # {}
      PROVE  /\ Picked(s) \in s /\ s \ {Picked(s)} \in SUBSET U /\ s \ {Picked(s)} # U
             /\ f[Picked(s)] \in Nat
  <2>1. Picked(s) \in s
    BY <1>4, PickedIn
  <2> QED BY <2>1, <1>0, <1>1
<1> HIDE DEF H
<1>5. G \in [SUBSET U -> Nat]
  <2>1. ASSUME NEW s \in SUBSET U, s # {}
        PROVE  f[Picked(s)] + H(s \ {Picked(s)})[s \ {Picked(s)}] \in Nat
    <3> DEFINE V == s \ {Picked(s)}
    <3>1. V \in SUBSET U /\ V # U /\ f[Picked(s)] \in Nat
      BY <1>4, <2>1
    <3> HIDE DEF V
    <3>2. H(V)[V] \in Nat
      BY <1>3, <3>1
    <3>3. f[Picked(s)] + H(V)[V] \in Nat
      BY <3>1, <3>2
    <3> QED BY <3>3 DEF V
  <2> QED BY <2>1
<1>6. ASSUME NEW s \in SUBSET U, s # {} PROVE G[s] = f[Picked(s)] + G[s \ {Picked(s)}]
  <2> DEFINE V == s \ {Picked(s)}
  <2>1. V \in SUBSET U /\ V # U
    BY <1>4, <1>6
  <2>2. G[s] = f[Picked(s)] + H(V)[V]
    BY <1>6
  <2> HIDE DEF V
  <2>3. Adds(H(V), f, V)
    BY <1>3, <2>1
  <2>4. CASE V = {}
    <3>1. H(V)[V] = 0
      BY <2>3, <2>4 DEF Adds
    <3>2. G[V] = 0
      BY <2>1, <2>4
    <3> QED BY <2>2, <3>1, <3>2 DEF V
  <2>5. CASE V # {}
    <3> DEFINE W == V \ {Picked(V)}
    <3>1. W \in SUBSET U /\ W # U /\ W \in SUBSET V
      BY <1>4, <2>1, <2>5
    <3>2. H(V)[V] = f[Picked(V)] + H(V)[W]
      BY <2>3, <2>5 DEF Adds
    <3>3. G[V] = f[Picked(V)] + H(W)[W]
      BY <2>1, <2>5
    <3> HIDE DEF W, G
    <3>4. Adds(H(V), f, W) /\ Adds(H(W), f, W)
      BY <1>3, <2>3, <3>1, AddsSubset
    <3>5. IsFiniteSet(W)
      BY <1>0, <3>1, <1>1, FS_Subset
    <3>6. H(V)[W] = H(W)[W]
      BY <3>4, <3>5, AddsUnique
    <3>7. G[V] = H(V)[V]
      BY <3>2, <3>3, <3>6
    <3> QED BY <2>2, <3>7 DEF V
  <2> QED BY <2>4, <2>5
<1>7. G[{}] = 0
  OBVIOUS
<1> HIDE DEF G
<1>8. Adds(G, f, U)
  BY <1>6, <1>7 DEF Adds
<1>9. Has(U)
  BY <1>5, <1>8
<1> QED BY <1>9, <1>1

\* What the sum over a set is.
LEMMA SumIs ==
    ASSUME NEW f, NEW S, Summable(f, S), NEW h, Adds(h, f, S)
    PROVE  SumFunctionOnSet(f, S) = h[S]
<1> DEFINE Eq(g) == g = [s \in SUBSET S |-> IF s = {} THEN 0
                                            ELSE f[Picked(s)] + g[s \ {Picked(s)}]]
           c == CHOOSE g : Eq(g)
<1>1. \E g : Eq(g)
  <2>1. PICK g \in [SUBSET S -> Nat] : Adds(g, f, S)
    BY AddsExist
  <2>2. Eq(g)
    BY <2>1 DEF Adds
  <2> QED BY <2>2
<1>2. Eq(c)
  BY <1>1
<1>3. SumFunctionOnSet(f, S) = c[S]
  BY SumDef
<1> HIDE DEF c
<1>4. Adds(c, f, S)
  BY <1>2 DEF Adds
<1>5. IsFiniteSet(S)
  BY DEF Summable
<1> QED BY <1>3, <1>4, <1>5, AddsUnique

\* The recursion, for the sum itself.
LEMMA SumSteps ==
    ASSUME NEW f, NEW S, Summable(f, S)
    PROVE  /\ SumFunctionOnSet(f, S) \in Nat
           /\ S = {} => SumFunctionOnSet(f, S) = 0
           /\ S # {} => /\ Picked(S) \in S
                        /\ SumFunctionOnSet(f, S) = f[Picked(S)] + SumFunctionOnSet(f, S \ {Picked(S)})
<1>1. PICK g \in [SUBSET S -> Nat] : Adds(g, f, S)
  BY AddsExist
<1>2. SumFunctionOnSet(f, S) = g[S] /\ g[S] \in Nat
  BY <1>1, SumIs
<1>3. ASSUME S # {}
      PROVE  Picked(S) \in S /\ SumFunctionOnSet(f, S) = f[Picked(S)] + SumFunctionOnSet(f, S \ {Picked(S)})
  <2> DEFINE V == S \ {Picked(S)}
  <2>1. V \in SUBSET S /\ Picked(S) \in S
    BY <1>3, PickedIn
  <2>2. g[S] = f[Picked(S)] + g[V]
    BY <1>1, <1>3 DEF Adds
  <2> HIDE DEF V
  <2>3. Summable(f, V)
    BY <2>1, FS_Subset DEF Summable
  <2>4. SumFunctionOnSet(f, V) = g[V]
    BY <2>1, <2>3, <1>1, AddsSubset, SumIs
  <2> QED BY <1>2, <2>1, <2>2, <2>4 DEF V
<1>4. S = {} => g[S] = 0
  BY <1>1 DEF Adds
<1> QED BY <1>2, <1>3, <1>4

\* A subset of a set that can be summed up can be summed up.
LEMMA SummableSubset ==
    ASSUME NEW f, NEW S, Summable(f, S), NEW V \in SUBSET S
    PROVE  Summable(f, V)
BY FS_Subset DEF Summable

\* Any element may be taken out first.
LEMMA SumRemove ==
    ASSUME NEW f, NEW S, Summable(f, S), NEW x \in S
    PROVE  SumFunctionOnSet(f, S) = f[x] + SumFunctionOnSet(f, S \ {x})
<1> DEFINE Sum(V) == SumFunctionOnSet(f, V)
           T == {V \in SUBSET S : \E y \in V : Sum(V) # f[y] + Sum(V \ {y})}
<1>0. IsFiniteSet(S) /\ \A y \in S : f[y] \in Nat
  BY DEF Summable
<1> SUFFICES ASSUME T # {} PROVE FALSE
  OBVIOUS
<1>1. PICK U \in T : \A V \in T : V \subseteq U => V = U
  <2>1. T \in SUBSET SUBSET S
    OBVIOUS
  <2> HIDE DEF T
  <2> QED BY <2>1, <1>0, MinimalSubset
<1>2. PICK y \in U : Sum(U) # f[y] + Sum(U \ {y})
  BY <1>1
<1> DEFINE p == Picked(U)
<1>3. U \in SUBSET S /\ Summable(f, U)
  BY <1>1, SummableSubset
<1>4. p \in U /\ Sum(U) = f[p] + Sum(U \ {p})
  BY <1>2, <1>3, SumSteps
<1>5. p # y
  BY <1>2, <1>4
<1> DEFINE V == U \ {p}
           W == U \ {y}
<1>6. Sum(V) = f[y] + Sum(V \ {y})
  <2>1. V \in SUBSET S /\ V # U /\ V \subseteq U /\ y \in V
    BY <1>3, <1>4, <1>5
  <2> QED BY <1>1, <2>1
<1>7. Sum(W) = f[p] + Sum(W \ {p})
  <2>1. W \in SUBSET S /\ W # U /\ W \subseteq U /\ p \in W
    BY <1>3, <1>4, <1>5
  <2> QED BY <1>1, <2>1
<1>8. V \ {y} = W \ {p}
  OBVIOUS
<1>9. Sum(V \ {y}) \in Nat /\ f[y] \in Nat /\ f[p] \in Nat
  <2>1. Summable(f, V \ {y})
    BY <1>3, SummableSubset
  <2> HIDE DEF V
  <2> QED BY <2>1, <1>0, <1>3, <1>4, SumSteps
<1> HIDE DEF Sum, V, W, p
<1>10. Sum(W) = f[p] + Sum(V \ {y})
  BY <1>7, <1>8
<1>11. Sum(U) = f[p] + (f[y] + Sum(V \ {y}))
  BY <1>4, <1>6 DEF V
<1>12. f[p] + (f[y] + Sum(V \ {y})) = f[y] + (f[p] + Sum(V \ {y}))
  BY <1>9
<1> QED BY <1>2, <1>10, <1>11, <1>12 DEF W

\* If no value grows, except by one piece each in C, the sum grows at most by their number.
LEMMA SumGrows ==
    ASSUME NEW f, NEW g, NEW S, Summable(f, S), Summable(g, S), NEW C \in SUBSET S,
           \A x \in S : g[x] <= f[x] + (IF x \in C THEN 1 ELSE 0)
    PROVE  SumFunctionOnSet(g, S) <= SumFunctionOnSet(f, S) + Cardinality(C)
<1> DEFINE F(V) == SumFunctionOnSet(f, V)
           G(V) == SumFunctionOnSet(g, V)
           T == {V \in SUBSET S : ~ (G(V) <= F(V) + Cardinality(C \cap V))}
<1>0. IsFiniteSet(S) /\ \A y \in S : f[y] \in Nat /\ g[y] \in Nat
  BY DEF Summable
<1>1. ASSUME T # {} PROVE FALSE
  <2>1. PICK U \in T : \A V \in T : V \subseteq U => V = U
    <3>1. T \in SUBSET SUBSET S
      OBVIOUS
    <3> HIDE DEF T
    <3> QED BY <1>1, <3>1, <1>0, MinimalSubset
  <2>2. U \in SUBSET S /\ Summable(f, U) /\ Summable(g, U) /\ ~ (G(U) <= F(U) + Cardinality(C \cap U))
    BY <2>1, SummableSubset
  <2>3. U # {}
    <3>1. ASSUME U = {} PROVE G(U) = 0 /\ F(U) = 0 /\ Cardinality(C \cap U) = 0
      <4>1. C \cap U = {}
        BY <3>1
      <4> QED BY <3>1, <4>1, <2>2, SumSteps, FS_EmptySet
    <3> QED BY <3>1, <2>2
  <2>4. PICK x \in U : TRUE
    BY <2>3
  <2> DEFINE V == U \ {x}
  <2>5. V \in SUBSET S /\ V \subseteq U /\ V # U /\ Summable(f, V) /\ Summable(g, V)
    BY <2>2, <2>4, SummableSubset
  <2>6. G(V) <= F(V) + Cardinality(C \cap V)
    BY <2>1, <2>5
  <2>7. G(U) = g[x] + G(V) /\ F(U) = f[x] + F(V)
    BY <2>2, <2>4, SumRemove
  <2>8. Cardinality(C \cap U) = Cardinality(C \cap V) + (IF x \in C THEN 1 ELSE 0)
    <3>1. IsFiniteSet(C \cap U)
      BY <1>0, FS_Subset
    <3>2. CASE x \in C
      <4>1. x \in C \cap U /\ (C \cap U) \ {x} = C \cap V
        BY <3>2, <2>4
      <4>2. Cardinality(C \cap V) = Cardinality(C \cap U) - 1
        BY <3>1, <4>1, FS_RemoveElement
      <4>3. Cardinality(C \cap U) \in Nat
        BY <3>1, FS_CardinalityType
      <4> QED BY <3>2, <4>2, <4>3
    <3>3. CASE x \notin C
      <4>1. C \cap U = C \cap V
        BY <3>3
      <4>2. Cardinality(C \cap U) \in Nat
        BY <3>1, FS_CardinalityType
      <4> QED BY <3>3, <4>1, <4>2
    <3> QED BY <3>2, <3>3
  <2>9. /\ G(V) \in Nat /\ F(V) \in Nat /\ Cardinality(C \cap V) \in Nat
        /\ f[x] \in Nat /\ g[x] \in Nat /\ g[x] <= f[x] + (IF x \in C THEN 1 ELSE 0)
    <3>1. IsFiniteSet(C \cap V)
      BY <1>0, FS_Subset
    <3>2. x \in S
      BY <2>2, <2>4
    <3> HIDE DEF V
    <3> QED BY <3>1, <3>2, <2>5, <1>0, SumSteps, FS_CardinalityType
  <2> HIDE DEF F, G, V, T
  <2> QED BY <2>2, <2>6, <2>7, <2>8, <2>9
<1>2. G(S) <= F(S) + Cardinality(C \cap S)
  BY <1>1
<1>3. C \cap S = C
  OBVIOUS
<1> QED BY <1>2, <1>3

\* If no value grows, neither does the sum.
LEMMA SumMonotone ==
    ASSUME NEW f, NEW g, NEW S, Summable(f, S), Summable(g, S), \A x \in S : g[x] <= f[x]
    PROVE  SumFunctionOnSet(g, S) <= SumFunctionOnSet(f, S)
<1>1. \A x \in S : f[x] \in Nat /\ g[x] \in Nat
  BY DEF Summable
<1>2. \A x \in S : g[x] <= f[x] + (IF x \in {} THEN 1 ELSE 0)
  BY <1>1
<1>3. SumFunctionOnSet(g, S) <= SumFunctionOnSet(f, S) + Cardinality({})
  BY <1>2, SumGrows
<1>4. Cardinality({}) = 0
  BY FS_EmptySet
<1>5. SumFunctionOnSet(f, S) \in Nat
  BY SumSteps
<1> QED BY <1>3, <1>4, <1>5

\* The sum depends on the values on the set alone.
LEMMA SumSame ==
    ASSUME NEW f, NEW g, NEW S, Summable(f, S), \A x \in S : g[x] = f[x]
    PROVE  SumFunctionOnSet(g, S) = SumFunctionOnSet(f, S)
<1>1. Summable(g, S)
  BY DEF Summable
<1>2. \A x \in S : f[x] \in Nat /\ g[x] <= f[x] /\ f[x] <= g[x]
  BY DEF Summable
<1>3. SumFunctionOnSet(g, S) <= SumFunctionOnSet(f, S) /\ SumFunctionOnSet(f, S) <= SumFunctionOnSet(g, S)
  BY <1>1, <1>2, SumMonotone
<1>4. SumFunctionOnSet(g, S) \in Nat /\ SumFunctionOnSet(f, S) \in Nat
  BY <1>1, SumSteps
<1> QED BY <1>3, <1>4

-----------------------------------------------------------------------------
\* If one value changes, the sum changes by as much.
LEMMA SumChangeOne ==
    ASSUME NEW f, NEW g, NEW S, Summable(f, S), Summable(g, S), NEW x \in S,
           \A y \in S : y # x => g[y] = f[y]
    PROVE  SumFunctionOnSet(g, S) = SumFunctionOnSet(f, S) - f[x] + g[x]
<1> DEFINE R == S \ {x}
<1>1. R \in SUBSET S /\ \A y \in R : g[y] = f[y]
  OBVIOUS
<1>2. SumFunctionOnSet(f, S) = f[x] + SumFunctionOnSet(f, R)
      /\ SumFunctionOnSet(g, S) = g[x] + SumFunctionOnSet(g, R)
  BY SumRemove
<1> HIDE DEF R
<1>3. Summable(f, R)
  BY <1>1, SummableSubset
<1>4. SumFunctionOnSet(g, R) = SumFunctionOnSet(f, R)
  BY <1>1, <1>3, SumSame
<1>6. SumFunctionOnSet(f, R) \in Nat
  BY <1>3, SumSteps
<1>5. f[x] \in Nat /\ g[x] \in Nat
  BY DEF Summable
<1> QED BY <1>2, <1>4, <1>5, <1>6

\* The values of a part of the set are set to 0.
LEMMA SumSplit ==
    ASSUME NEW f, NEW g, NEW S, Summable(f, S), NEW C \in SUBSET S,
           \A x \in S : g[x] = IF x \in C THEN 0 ELSE f[x]
    PROVE  SumFunctionOnSet(f, S) = SumFunctionOnSet(g, S) + SumFunctionOnSet(f, C)
<1> DEFINE F(V) == SumFunctionOnSet(f, V)
           G(V) == SumFunctionOnSet(g, V)
           T == {V \in SUBSET S : F(V) # G(V) + F(C \cap V)}
<1>0. IsFiniteSet(S) /\ \A y \in S : f[y] \in Nat /\ g[y] \in Nat
  BY DEF Summable
<1>s. Summable(g, S)
  BY <1>0 DEF Summable
<1>1. ASSUME T # {} PROVE FALSE
  <2>1. PICK U \in T : \A V \in T : V \subseteq U => V = U
    <3>1. T \in SUBSET SUBSET S
      OBVIOUS
    <3> HIDE DEF T
    <3> QED BY <1>1, <3>1, <1>0, MinimalSubset
  <2>2. U \in SUBSET S /\ Summable(f, U) /\ Summable(g, U) /\ F(U) # G(U) + F(C \cap U)
    BY <2>1, <1>s, SummableSubset
  <2>3. U # {}
    <3>1. ASSUME U = {} PROVE G(U) = 0 /\ F(U) = 0 /\ F(C \cap U) = 0
      <4>1. C \cap U = U
        BY <3>1
      <4>2. G(U) = 0 /\ F(U) = 0
        BY <3>1, <2>2, SumSteps
      <4> HIDE DEF F, G
      <4> QED BY <4>1, <4>2
    <3> QED BY <3>1, <2>2
  <2>4. PICK x \in U : TRUE
    BY <2>3
  <2> DEFINE V == U \ {x}
  <2>5. V \in SUBSET S /\ V \subseteq U /\ V # U /\ Summable(f, V) /\ Summable(g, V)
    BY <2>2, <2>4, <1>s, SummableSubset
  <2>6. F(V) = G(V) + F(C \cap V)
    BY <2>1, <2>5
  <2>7. G(U) = g[x] + G(V) /\ F(U) = f[x] + F(V)
    BY <2>2, <2>4, SumRemove
  <2>8. F(C \cap U) = F(C \cap V) + (IF x \in C THEN f[x] ELSE 0)
    <3>1. Summable(f, C \cap U) /\ Summable(f, C \cap V)
      BY <2>2, SummableSubset
    <3>2. F(C \cap U) \in Nat /\ F(C \cap V) \in Nat /\ f[x] \in Nat
      <4>1. f[x] \in Nat
        BY <1>0, <2>2, <2>4
      <4> QED BY <3>1, <4>1, SumSteps
    <3>3. CASE x \in C
      <4>1. x \in C \cap U /\ (C \cap U) \ {x} = C \cap V
        BY <3>3, <2>4
      <4>2. F(C \cap U) = f[x] + F(C \cap V)
        BY <3>1, <4>1, SumRemove
      <4> HIDE DEF F, V
      <4> QED BY <3>2, <3>3, <4>2
    <3>4. CASE x \notin C
      <4>1. C \cap U = C \cap V
        BY <3>4
      <4>2. F(C \cap U) = F(C \cap V)
        BY <4>1
      <4> HIDE DEF F, V
      <4> QED BY <3>2, <3>4, <4>2
    <3> QED BY <3>3, <3>4
  <2>9. /\ G(V) \in Nat /\ F(V) \in Nat /\ F(C \cap V) \in Nat
        /\ f[x] \in Nat /\ g[x] = IF x \in C THEN 0 ELSE f[x]
    <3>1. x \in S /\ Summable(f, C \cap V)
      BY <2>2, <2>4, SummableSubset
    <3>2. G(V) \in Nat /\ F(V) \in Nat /\ F(C \cap V) \in Nat
      <4> HIDE DEF V
      <4> QED BY <3>1, <2>5, SumSteps
    <3> QED BY <3>1, <3>2, <1>0
  <2> HIDE DEF F, G, V, T
  <2> QED BY <2>2, <2>6, <2>7, <2>8, <2>9
<1>2. F(S) = G(S) + F(C \cap S)
  BY <1>1
<1>3. C \cap S = C
  OBVIOUS
<1> QED BY <1>2, <1>3

\* A sum of zeros.
LEMMA SumOfZeros ==
    ASSUME NEW f, NEW S, IsFiniteSet(S), \A x \in S : f[x] = 0
    PROVE  SumFunctionOnSet(f, S) = 0
<1>1. Summable(f, S)
  BY DEF Summable
<1>2. SumFunctionOnSet(f, S) = SumFunctionOnSet(f, S) + SumFunctionOnSet(f, S)
  BY <1>1, SumSplit
<1>3. SumFunctionOnSet(f, S) \in Nat
  BY <1>1, SumSteps
<1>4. \A n \in Nat : n = n + n => n = 0
  OBVIOUS
<1> QED BY <1>2, <1>3, <1>4

-----------------------------------------------------------------------------
(***************************************************************************)
(* The ledger.  m_aggDamage is the sum of the valid and the invalid         *)
(* references through hits, timeouts, deaths and departures; the points     *)
(* need to be natural numbers, which the health of the living gives.        *)
(***************************************************************************)
Balanced(r) ==
    /\ Shape(r) /\ r.invalid \in Nat
    /\ r.aggDamage = PointsOf(r, Unit) + r.invalid

LedgerInv == reward = [u \in Unit |-> reward[u]] /\ \A u \in Unit : Balanced(reward[u])

\* The points of a RewardManager can be summed up.
LEMMA PointsSummable ==
  ASSUME NEW r, Shape(r)
  PROVE  Summable(r.points, Unit) /\ PointsOf(r, Unit) \in Nat
<1>1. Summable(r.points, Unit)
  BY ObjectAssumption DEF Shape, Summable
<1> QED
  BY <1>1, SumSteps DEF PointsOf

\* A RewardManager that was reset is balanced.
LEMMA NoAwardeesBalanced == Balanced(NoAwardees)
<1>1. \A x \in Unit : NoAwardees.points[x] = 0
  BY DEF NoAwardees
<1>2. PointsOf(NoAwardees, Unit) = 0
  BY <1>1, ObjectAssumption, SumOfZeros DEF PointsOf
<1>3. NoAwardees.invalid = 0 /\ NoAwardees.aggDamage = 0
  BY DEF NoAwardees
<1> QED
  BY <1>2, <1>3, NoAwardeesShape DEF Balanced

\* addDamage() adds the same to a reference and to the sum.
LEMMA AddDamageBalanced ==
  ASSUME NEW r, Balanced(r), NEW a \in Unit, NEW n \in Nat
  PROVE  Balanced(AddDamage(r, a, n))
<1> DEFINE s == AddDamage(r, a, n)
<1>0. Shape(r)
  BY DEF Balanced
<1>1. Shape(s)
  BY <1>0, AddDamageShape
<1>2. /\ s.points = [r.points EXCEPT ![a] = @ + n]
      /\ s.invalid = r.invalid /\ s.aggDamage = r.aggDamage + n
  BY <1>0 DEF AddDamage, Shape
<1> HIDE DEF s
<1>3. r.points[a] \in Nat /\ s.points[a] = r.points[a] + n
      /\ \A y \in Unit : y # a => s.points[y] = r.points[y]
  BY <1>0, <1>2 DEF Shape
<1>4. PointsOf(s, Unit) = PointsOf(r, Unit) - r.points[a] + s.points[a]
  BY <1>0, <1>1, <1>3, PointsSummable, SumChangeOne DEF PointsOf
<1>5. PointsOf(r, Unit) \in Nat
  BY <1>0, PointsSummable
<1>6. PointsOf(s, Unit) = PointsOf(r, Unit) + n
  BY <1>3, <1>4, <1>5
<1>7. r.invalid \in Nat /\ r.aggDamage = PointsOf(r, Unit) + r.invalid
  BY DEF Balanced
<1>8. s.aggDamage = PointsOf(s, Unit) + s.invalid
  BY <1>2, <1>5, <1>6, <1>7
<1>9. Balanced(s)
  BY <1>1, <1>2, <1>7, <1>8 DEF Balanced
<1> QED
  BY <1>9 DEF s

\* update() takes out of the sum what it erases.
LEMMA UpdateAwardeesBalanced ==
  ASSUME NEW r, Balanced(r), NEW T \in SUBSET Unit
  PROVE  Balanced(UpdateAwardees(r, T))
<1> DEFINE s == UpdateAwardees(r, T)
<1>0. Shape(r)
  BY DEF Balanced
<1>1. Shape(s)
  BY <1>0, UpdateAwardeesShape
<1>2. /\ s.points = [a \in Unit |-> IF a \in T THEN 0 ELSE r.points[a]]
      /\ s.invalid = 0 /\ s.aggDamage = r.aggDamage - PointsOf(r, T) - r.invalid
  BY DEF UpdateAwardees
<1> HIDE DEF s
<1>3. \A a \in Unit : s.points[a] = IF a \in T THEN 0 ELSE r.points[a]
  BY <1>2
<1>4. Summable(r.points, Unit) /\ Summable(r.points, T)
  BY <1>0, PointsSummable, SummableSubset
<1>5. PointsOf(r, Unit) = PointsOf(s, Unit) + PointsOf(r, T)
  BY <1>3, <1>4, SumSplit DEF PointsOf
<1>6. PointsOf(s, Unit) \in Nat /\ PointsOf(r, T) \in Nat
  BY <1>1, <1>4, PointsSummable, SumSteps DEF PointsOf
<1>7. r.invalid \in Nat /\ r.aggDamage = PointsOf(r, Unit) + r.invalid
  BY DEF Balanced
<1>8. s.aggDamage = PointsOf(s, Unit) + s.invalid
  BY <1>2, <1>5, <1>6, <1>7
<1>9. Balanced(s)
  BY <1>1, <1>2, <1>8 DEF Balanced
<1> QED
  BY <1>9 DEF s

\* The reference to an attacker that leaves becomes invalid and keeps its points.
LEMMA ClearAwardSourcesBalanced ==
  ASSUME NEW rs, \A v \in Unit : Balanced(rs[v]), NEW a \in Unit
  PROVE  LET cs == ClearAwardSources(rs, a)
         IN  cs = [v \in Unit |-> cs[v]] /\ \A v \in Unit : Balanced(cs[v])
<1> DEFINE cs == ClearAwardSources(rs, a)
           cut(r) == [r EXCEPT !.points[a] = 0, !.invalid = @ + r.points[a]]
<1>1. /\ cs = [v \in Unit |-> IF rs[v].points[a] = 0 THEN rs[v] ELSE cut(rs[v])]
      /\ cs = [v \in Unit |-> cs[v]]
  BY DEF ClearAwardSources
<1>2. \A v \in Unit : Shape(cs[v])
  BY ClearAwardSourcesShape DEF Balanced
<1>3. ASSUME NEW v \in Unit, rs[v].points[a] # 0 PROVE Balanced(cs[v])
  <2> DEFINE r == rs[v]
             s == cs[v]
  <2>0. Balanced(r) /\ Shape(r) /\ Shape(s)
    BY <1>2, <1>3 DEF Balanced
  <2>1. s = cut(r)
    BY <1>1, <1>3
  <2> HIDE DEF r, s, cs
  <2>2. /\ s.points = [r.points EXCEPT ![a] = 0]
        /\ s.invalid = r.invalid + r.points[a] /\ s.aggDamage = r.aggDamage
    BY <2>0, <2>1 DEF Shape
  <2>3. r.points[a] \in Nat /\ s.points[a] = 0 /\ \A y \in Unit : y # a => s.points[y] = r.points[y]
    BY <2>0, <2>2 DEF Shape
  <2>4. PointsOf(s, Unit) = PointsOf(r, Unit) - r.points[a] + s.points[a]
    BY <2>0, <2>3, PointsSummable, SumChangeOne DEF PointsOf
  <2>5. PointsOf(r, Unit) \in Nat /\ r.invalid \in Nat /\ r.aggDamage = PointsOf(r, Unit) + r.invalid
    BY <2>0, PointsSummable DEF Balanced
  <2>6. s.invalid \in Nat /\ s.aggDamage = PointsOf(s, Unit) + s.invalid
    BY <2>2, <2>3, <2>4, <2>5
  <2>7. Balanced(s)
    BY <2>0, <2>6 DEF Balanced
  <2> QED
    BY <2>7 DEF s
<1>4. ASSUME NEW v \in Unit, rs[v].points[a] = 0 PROVE Balanced(cs[v])
  BY <1>1, <1>4
<1> QED
  BY <1>1, <1>3, <1>4

\* A unit whose record is reset is cut from the records of all others.
LEMMA ResetBalanced ==
  ASSUME NEW g, \A v \in Unit : Balanced(g[v]), g = [x \in Unit |-> g[x]], NEW u \in Unit,
         reward' = ClearAwardSources([g EXCEPT ![u] = NoAwardees], u)
  PROVE  LedgerInv'
<1> DEFINE h == [g EXCEPT ![u] = NoAwardees]
<1>1. \A v \in Unit : Balanced(h[v])
  BY NoAwardeesBalanced
<1> HIDE DEF h
<1> DEFINE cs == ClearAwardSources(h, u)
<1>2. cs = [v \in Unit |-> cs[v]] /\ \A v \in Unit : Balanced(cs[v])
  BY <1>1, ClearAwardSourcesBalanced
<1>3. reward' = cs
  BY DEF h
<1> HIDE DEF cs
<1> QED
  BY <1>2, <1>3 DEF LedgerInv

\* died() of u resets its record.
LEMMA DiedReset ==
  ASSUME NEW f, NEW g, NEW c, NEW u \in Unit, NEW T
  PROVE  Died([unit |-> f, reward |-> g, crashed |-> c], u, T).reward
           = ClearAwardSources([g EXCEPT ![u] = NoAwardees], u)
<1> DEFINE w == [unit |-> f, reward |-> g, crashed |-> c]
           a == AwardAllAwardees(w, u, T)
           h == [g EXCEPT ![u] = NoAwardees]
<1>1. a.reward = h /\ "unit" \in DOMAIN a /\ "reward" \in DOMAIN a
  BY DEF AwardAllAwardees
<1> HIDE DEF a, h
<1>2. SetDead(a, u).reward = ClearAwardSources(h, u)
  BY <1>1 DEF SetDead
<1>3. Died(w, u, T).reward = ClearAwardSources(h, u)
  BY <1>2 DEF Died, a
<1> QED
  BY <1>3 DEF h

\* died() of u keeps balanced ledgers balanced.
LEMMA DeathBalanced ==
  ASSUME NEW g, \A v \in Unit : Balanced(g[v]), g = [x \in Unit |-> g[x]], NEW u \in Unit,
         NEW T, NEW f, NEW c, reward' = Died([unit |-> f, reward |-> g, crashed |-> c], u, T).reward
  PROVE  LedgerInv'
<1>1. Died([unit |-> f, reward |-> g, crashed |-> c], u, T).reward
        = ClearAwardSources([g EXCEPT ![u] = NoAwardees], u)
  BY DiedReset
<1>2. reward' = ClearAwardSources([g EXCEPT ![u] = NoAwardees], u)
  BY <1>1
<1> QED
  BY <1>2, ResetBalanced

\* A hit of n points of the attacker a.
LEMMA HitBalanced ==
  ASSUME LedgerInv, NEW a \in Unit, NEW u \in Unit, NEW n \in Nat
  PROVE  LET h == [reward EXCEPT ![u] = AddDamage(reward[u], a, n)]
         IN  h = [x \in Unit |-> h[x]] /\ \A v \in Unit : Balanced(h[v])
<1>1. Balanced(AddDamage(reward[u], a, n))
  BY AddDamageBalanced DEF LedgerInv
<1> QED
  BY <1>1 DEF LedgerInv

\* Every step keeps the ledgers balanced.
LEMMA LedgerNext == LedgerInv /\ UnitInv /\ ProjectileInv /\ [Next]_vars => LedgerInv'
<1> SUFFICES ASSUME LedgerInv, UnitInv, ProjectileInv, [Next]_vars PROVE LedgerInv'
  OBVIOUS
<1>0. reward = [u \in Unit |-> reward[u]] /\ \A u \in Unit : Balanced(reward[u])
  BY DEF LedgerInv
<1>1. CASE UNCHANGED reward
  BY <1>1 DEF LedgerInv
<1>2. ASSUME NEW u \in Unit, reward' = CleanupUnit(World, u).reward PROVE LedgerInv'
  <2>1. reward' = ClearAwardSources([reward EXCEPT ![u] = NoAwardees], u)
    BY <1>2 DEF CleanupUnit, World
  <2> QED
    BY <1>0, <2>1, ResetBalanced
<1>3. ASSUME NEW u \in Unit, LogoutPlayer(u) \/ DelRobot(u) \/ WithdrawRobot(u) PROVE LedgerInv'
  <2>1. DOMAIN CleanupUnit(World, u) = {"unit", "reward", "crashed"}
    BY DEF CleanupUnit, World
  <2>2. reward' = CleanupUnit(World, u).reward
    BY <1>3, <2>1 DEF LogoutPlayer, DelRobot, WithdrawRobot, Becomes
  <2> QED
    BY <1>2, <2>2
<1>4. ASSUME NEW u \in Unit, NEW T, reward' = Died(World, u, T).reward PROVE LedgerInv'
  <2>1. reward' = Died([unit |-> unit, reward |-> reward, crashed |-> crashed], u, T).reward
    BY <1>4 DEF World
  <2> QED
    BY <1>0, <2>1, DeathBalanced
<1>5. ASSUME NEW g \in Player, NEW u \in Unit, NEW T, ExecuteDie(g, u, T) PROVE LedgerInv'
  <2> DEFINE h == [reward EXCEPT ![u] = AddDamage(reward[u], g, MaxHealth)]
  <2>1. [World EXCEPT !.reward[u] = AddDamage(@, g, MaxHealth)]
          = [unit |-> unit, reward |-> h, crashed |-> crashed]
    BY DEF World
  <2>2. reward' = Died([unit |-> unit, reward |-> h, crashed |-> crashed], u, T).reward
    BY <1>5, <2>1 DEF ExecuteDie, Becomes
  <2>3. g \in Unit /\ MaxHealth \in Nat
    BY PointAssumption DEF Unit
  <2>4. h = [x \in Unit |-> h[x]] /\ \A v \in Unit : Balanced(h[v])
    BY <2>3, HitBalanced
  <2> HIDE DEF h
  <2> QED
    BY <2>2, <2>4, DeathBalanced
<1>6. ASSUME NEW u \in Unit, NEW T \in SUBSET AwardeesOf(u), UpdateRewardManager(u, T) PROVE LedgerInv'
  <2>1. T \in SUBSET Unit
    BY DEF AwardeesOf, Awardees
  <2>2. Balanced(UpdateAwardees(reward[u], T))
    BY <1>0, <2>1, UpdateAwardeesBalanced
  <2>3. reward' = [reward EXCEPT ![u] = UpdateAwardees(reward[u], T)]
    BY <1>6 DEF UpdateRewardManager
  <2> QED
    BY <1>0, <2>2, <2>3 DEF LedgerInv
<1>7. ASSUME NEW u \in Unit, NEW n \in 1..MaxDamage, NEW T, UpdateHealthLossTimer(u, n, T)
      PROVE  LedgerInv'
  <2>1. reward' = LoseHealth(World, u, n, T).reward
    BY <1>7 DEF UpdateHealthLossTimer, Becomes
  <2>2. CASE unit[u].health > n
    <3>1. UNCHANGED reward
      BY <2>1, <2>2 DEF LoseHealth, World
    <3> QED
      BY <1>1, <3>1
  <2>3. CASE ~(unit[u].health > n)
    <3>1. reward' = Died(World, u, T).reward
      BY <2>1, <2>3 DEF LoseHealth, World
    <3> QED
      BY <1>4, <3>1
  <2> QED
    BY <2>2, <2>3
<1>8. ASSUME NEW p \in Projectile, NEW t, NEW n \in 1..MaxDamage, NEW T, Strike(p, t, n, T)
      PROVE  LedgerInv'
  <2> DEFINE a == proj[p].launcher
  <2>1. CASE t \in Unit /\ a # None /\ reward' = StruckUnit(World, a, t, n, T).reward
    <3>0. a \in Unit
      BY <2>1 DEF ProjectileInv, Clean, ProjectileRecord
    <3>1. CASE ~unit[t].alive
      <4>1. UNCHANGED reward
        BY <2>1, <3>1 DEF StruckUnit, World
      <4> QED
        BY <1>1, <4>1
    <3>2. CASE unit[t].alive
      <4> DEFINE d == Min({n, unit[t].health})
                 h == [reward EXCEPT ![t] = AddDamage(reward[t], a, d)]
                 w == [unit |-> unit, reward |-> h, crashed |-> crashed]
      <4>0. d \in Nat
        <5>1. unit[t].health \in Nat /\ n \in Nat
          BY <2>1, PointAssumption DEF UnitInv, SoundUnit, UnitRecord
        <5> QED
          BY <5>1, MinOfTwo
      <4>1. [World EXCEPT !.reward[t] = AddDamage(@, a, Min({n, World.unit[t].health}))] = w
        BY DEF World
      <4>2. reward' = (IF unit[t].health > n THEN [w EXCEPT !.unit[t].health = @ - n]
                                             ELSE Died(w, t, T)).reward
        BY <2>1, <3>2, <4>1 DEF StruckUnit, DealDamage, World
      <4>3. h = [x \in Unit |-> h[x]] /\ \A v \in Unit : Balanced(h[v])
        <5> HIDE DEF d
        <5> QED
          BY <2>1, <3>0, <4>0, HitBalanced
      <4>4. CASE unit[t].health > n
        <5>1. reward' = h
          BY <4>2, <4>4
        <5> HIDE DEF h
        <5> QED
          BY <4>3, <5>1 DEF LedgerInv
      <4>5. CASE ~(unit[t].health > n)
        <5>1. reward' = Died(w, t, T).reward
          BY <4>2, <4>5
        <5> HIDE DEF h
        <5> QED
          BY <2>1, <4>3, <5>1, DeathBalanced
      <4> QED
        BY <4>4, <4>5
    <3> QED
      BY <3>1, <3>2
  <2> QED
    BY <1>1, <1>8, <2>1 DEF Strike, Becomes
<1>9. CASE CleanupAllGrids
  BY <1>9, NoAwardeesBalanced DEF CleanupAllGrids, LedgerInv
<1>10. CASE UNCHANGED vars
  BY <1>1, <1>10 DEF vars
<1> QED
  <2>1. ASSUME Next PROVE LedgerInv'
    BY <2>1, <1>1, <1>3, <1>5, <1>6, <1>7, <1>8, <1>9
       DEF Next, UpdateProjectile, JoinBattle, AddRobot, RegenHealth, EndUpdate, AddItemBox,
           DelItemBox, Attack, AttackInternal, Fly, StrikeDone, Inactivate, TestCollision,
           BeginUpdate, BeginNotify, Terminated, Unit, vars
  <2> QED
    BY <2>1, <1>10

(***************************************************************************)
(* m_aggDamage stays the sum of the damage of all references, whichever     *)
(* attackers die, leave or time out, for any units and any amounts: the     *)
(* assertion of RewardManager::awardAllAwardees() holds.                    *)
(***************************************************************************)
THEOREM LedgerCorrect == Spec => []LedgerExact
<1>1. Init => LedgerInv /\ UnitInv /\ ProjectileInv
  <2>1. Init => LedgerInv
    BY NoAwardeesBalanced DEF Init, LedgerInv
  <2>2. Init => UnitInv
    BY NewUnitSound DEF Init, UnitInv
  <2> QED
    BY <2>1, <2>2, ProjectileInit
<1>2. LedgerInv => LedgerExact
  BY DEF LedgerInv, Balanced, LedgerExact
<1> QED
  BY <1>1, <1>2, LedgerNext, UnitNext, ProjectileNext, PTL DEF Spec
=============================================================================
