----------------------------- MODULE FieldItems -----------------------------
(***************************************************************************)
(* The items that lie on a battle map, the units that pick them up and the  *)
(* objects the map reuses (game/behaviors/Item.cpp, the pickup and the      *)
(* inventory of Unit.cpp, Player.cpp and Robot.cpp, the lists of            *)
(* game/maps/BattleMap.cpp, the pair tests of game/grids/GridNotifiers.cpp).*)
(*                                                                          *)
(* An update of the map first runs the timers of units and items, then puts *)
(* moved objects on their new grids, tests which units touch which items,   *)
(* and last takes the removed objects off their grids to keep them for use. *)
(* A removed object is cleaned up at once but stays on its grid, where the  *)
(* tests still find it, until the end of the update.                        *)
(*                                                                          *)
(* Abstractions.  Positions are left out: a test may have either outcome,   *)
(* and a move may or may not cross into another grid.  Timers expire at any *)
(* update.  A unit has one equipment slot and the slot for first aid; the   *)
(* templates are several equipments and one stackable first aid.            *)
(* What nobody reads until it is set again is not kept: the count of an     *)
(* equipment or of an inactive item, and the data of a stored item.         *)
(* Players with the game master switch on touch no items and are left out,  *)
(* with the commands on a master's own inventory.                           *)
(***************************************************************************)
EXTENDS Naturals, FiniteSets, FiniteSetsExt

CONSTANTS
    Player, Robot,      \* the units; a player that joins again is a new object
    Item,               \* the item objects that may be allocated
    Equipment, FirstAid,    \* the templates
    LowLevel,           \* equipments of the lower of two levels
    Stackable,          \* ItemTemplate::stackable of the first aid
    MaxCount,           \* the largest count of a first aid on the ground
    None

Unit == Player \cup Robot
Template == Equipment \cup {FirstAid}

ASSUME ObjectAssumption ==
    /\ IsFiniteSet(Unit) /\ IsFiniteSet(Item) /\ IsFiniteSet(Equipment)
    /\ Player \cap Robot = {} /\ Unit \cap Item = {} /\ None \notin Item \cup Template
ASSUME TemplateAssumption ==
    /\ FirstAid \notin Equipment /\ LowLevel \subseteq Equipment
    /\ Stackable \in Nat \ {0} /\ MaxCount \in Nat \ {0}

VARIABLES
    unit,       \* the fields of the units
    item,       \* the fields of the items
    grid,       \* the robots and items on the grids of the map
    toNewGrid,  \* m_objectToNewGridList
    toRemove,   \* m_objectsToRemove
    store,      \* m_reusableObjectsStore
    phase       \* the sessions, or the stage of BattleMap::update()

vars == <<unit, item, grid, toNewGrid, toRemove, store, phase>>

UnitRecord ==
    [inWorld : BOOLEAN, alive : BOOLEAN,
     pickingUp : Item \cup {None},      \* m_pickingUp
     forbidden : BOOLEAN,               \* UNIT_STATE_FORBIDDING_PICKUP
     equip : Equipment \cup {None},     \* the equipment slot
     aid : 0..Stackable]                \* the count in the first aid slot, 0 when empty

ItemRecord ==
    [inWorld : BOOLEAN,
     state : {"NONE", "ACTIVATING", "ACTIVE", "INACTIVE"},  \* m_itemState; NONE: not allocated
     id : Template, n : 0..MaxCount,    \* getCount() of an active first aid, otherwise 0
     respawns : BOOLEAN,                \* the spawn info has a spawnTime
     pickers : SUBSET Unit,             \* m_pickers
     collided : SUBSET Unit]            \* the guids in m_collidedObjects

NewUnit == [inWorld |-> TRUE, alive |-> TRUE, pickingUp |-> None, forbidden |-> FALSE,
            equip |-> None, aid |-> 0]
NewItem == [inWorld |-> FALSE, state |-> "NONE", id |-> FirstAid, n |-> 0, respawns |-> FALSE,
            pickers |-> {}, collided |-> {}]

(***************************************************************************)
(* Types; through merges and partly merged pickups no stack grows beyond    *)
(* the limit of its template.                                               *)
(***************************************************************************)
TypeOK ==
    /\ unit \in [Unit -> UnitRecord]
    /\ item \in [Item -> ItemRecord]
    /\ grid \subseteq Robot \cup Item
    /\ toNewGrid \subseteq Robot \cup Item /\ toRemove \subseteq Robot \cup Item
    /\ store \subseteq Robot \cup Item
    /\ phase \in {"sessions", "update", "notify"}

Init ==
    /\ unit = [u \in Unit |-> [NewUnit EXCEPT !.inWorld = FALSE]]
    /\ item = [i \in Item |-> NewItem]
    /\ grid = {} /\ toNewGrid = {} /\ toRemove = {} /\ store = {}
    /\ phase = "sessions"

\* The units and items a handler works on, passed on from call to call.
World == [unit |-> unit, item |-> item]
Becomes(w) == unit' = w.unit /\ item' = w.item

-----------------------------------------------------------------------------
(***************************************************************************)
(* Picking up.                                                              *)
(***************************************************************************)

\* Unit::canStoreItem(): the first aid slot takes more until its stack is full; an
\* equipment takes the slot unless it is worn or of a lower level than the worn one.
CanStoreItem(r, id) ==
    IF id = FirstAid THEN r.aid < Stackable
    ELSE r.equip = None \/ (r.equip # id /\ ~(id \in LowLevel /\ r.equip \notin LowLevel))

\* Unit::pickupStop() and Player::pickupStop()
PickupStop(w, u) ==
    LET i == w.unit[u].pickingUp IN
    IF i = None THEN w
    ELSE [unit |-> [w.unit EXCEPT ![u].pickingUp = None, ![u].forbidden = FALSE],
          item |-> [w.item EXCEPT ![i].pickers = @ \ {u}]]

\* Item::removeAllPickers()
RemoveAllPickers(w, i) ==
    LET P == w.item[i].pickers IN
    [unit |-> [u \in Unit |-> IF u \in P /\ w.unit[u].pickingUp # None
                              THEN [w.unit[u] EXCEPT !.pickingUp = None, !.forbidden = FALSE]
                              ELSE w.unit[u]],
     item |-> [w.item EXCEPT ![i].pickers = {}]]

\* Item::removeAllCollidedObjects(): the units leave the item.  Those that were picking
\* it up are its pickers, whom both callers remove next.
RemoveAllCollidedObjects(w, i) == [w EXCEPT !.item[i].collided = {}]

\* Mutant: the item goes without telling its pickers.
MutCleanupItem(w, i) == [RemoveAllCollidedObjects(w, i) EXCEPT !.item[i].inWorld = FALSE]

\* Item::cleanupBeforeDelete()
CleanupItem(w, i) ==
    RemoveAllPickers([RemoveAllCollidedObjects(w, i) EXCEPT !.item[i].inWorld = FALSE], i)

\* Unit::canPickup() and Robot::canPickup(); a player starts even when its inventory is
\* full, to be told so.
CanPickup(u, i) ==
    /\ unit[u].alive /\ item[i].inWorld
    /\ u \in Robot => CanStoreItem(unit[u], item[i].id)

\* Mutant: the item given up for a nearer one still counts the unit.
MutPickup(w, u, i) ==
    [unit |-> [w.unit EXCEPT ![u].pickingUp = i,
                             ![u].forbidden = u \in Player /\ ~CanStoreItem(w.unit[u], w.item[i].id)],
     item |-> [w.item EXCEPT ![i].pickers = @ \cup {u}]]

\* Unit::pickup() of an item that is nearer than the one being picked up, with
\* Player::updateItemPickupResultForPlayer().
Pickup(w, u, i) ==
    [unit |-> [w.unit EXCEPT ![u].pickingUp = i,
                             ![u].forbidden = u \in Player /\ ~CanStoreItem(w.unit[u], w.item[i].id)],
     item |-> [j \in Item |-> IF j = i THEN [w.item[j] EXCEPT !.pickers = @ \cup {u}]
                              ELSE IF j = w.unit[u].pickingUp THEN [w.item[j] EXCEPT !.pickers = @ \ {u}]
                              ELSE w.item[j]]]

-----------------------------------------------------------------------------
(***************************************************************************)
(* Objects enter and leave the map.                                         *)
(***************************************************************************)

\* takeReusableObject<Item>() of the items D, or new items when the store has no more.
Reusable == store \cap Item
Unallocated == {i \in Item : item[i].state = "NONE"}
Takeable == {D \in SUBSET (Reusable \cup Unallocated) : D \subseteq Reusable \/ Reusable \subseteq D}

\* Item::loadData() or reloadData() with the data f[i] of each item, then addToMap().
\* Only setItemState(ITEM_STATE_INACTIVE) forgets whom a reused item touched.
PutOnMap(w, D, f, state) ==
    [w EXCEPT !.item = [i \in Item |->
        IF i \notin D THEN @[i]
        ELSE [inWorld |-> TRUE, state |-> state, id |-> f[i].id, n |-> f[i].n,
              respawns |-> f[i].respawns,
              pickers |-> IF state = "INACTIVE" THEN {} ELSE @[i].pickers,
              collided |-> IF state = "INACTIVE" THEN {} ELSE @[i].collided]]]

\* The data of an item that no ItemSpawnInfo brings back.
Dropped(id, n) == [id |-> id, n |-> IF id = FirstAid THEN n ELSE 0, respawns |-> FALSE]

\* What removeFromMap() leaves of items that go to the store.
Stored(items, S) ==
    [i \in Item |-> IF i \in S THEN [NewItem EXCEPT !.state = "INACTIVE", !.pickers = items[i].pickers,
                                                   !.collided = items[i].collided]
                    ELSE items[i]]

\* Unit::removeFromWorld() and cleanupBeforeDelete()
CleanupUnit(w, u) ==
    [PickupStop(w, u) EXCEPT !.unit[u].inWorld = FALSE, !.unit[u].equip = None, !.unit[u].aid = 0]

\* addPlayerToMap()
JoinBattle(p) ==
    /\ phase = "sessions" /\ ~unit[p].inWorld
    /\ unit' = [unit EXCEPT ![p].inWorld = TRUE]
    /\ UNCHANGED <<item, grid, toNewGrid, toRemove, store, phase>>

\* WorldSession::logoutPlayer(): cleanupBeforeDelete() and removePlayerFromMap().  The
\* items keep a guid that no player will have again; the next player p is a new object.
LogoutPlayer(p) ==
    /\ phase = "sessions" /\ unit[p].inWorld
    /\ LET w == CleanupUnit(World, p) IN
       /\ unit' = [w.unit EXCEPT ![p].alive = TRUE]
       /\ item' = [i \in Item |-> [w.item[i] EXCEPT !.collided = @ \ {p}]]
    /\ UNCHANGED <<grid, toNewGrid, toRemove, store, phase>>

\* A robot of the SpawnManager or of a game master: taken from the store or allocated;
\* reloadData() resets neither what it carries nor what it picks up.
AddRobot(r) ==
    /\ phase = "sessions" /\ r \notin grid
    /\ r \in store \/ store \cap Robot = {}
    /\ unit' = [unit EXCEPT ![r].inWorld = TRUE, ![r].alive = TRUE]
    /\ grid' = grid \cup {r} /\ store' = store \ {r}
    /\ UNCHANGED <<item, toNewGrid, toRemove, phase>>

\* The commands delRobot and delItem: cleanupBeforeDelete() and removeFromMap().
DelObject(o) ==
    /\ phase = "sessions"
    /\ \/ o \in Robot /\ unit[o].inWorld /\ Becomes(CleanupUnit(World, o))
       \/ /\ o \in Item /\ item[o].inWorld
          /\ LET w == CleanupItem(World, o) IN unit' = w.unit /\ item' = Stored(w.item, {o})
    /\ grid' = grid \ {o} /\ store' = store \cup {o}
    /\ UNCHANGED <<toNewGrid, toRemove, phase>>

\* The command addItem, or the loot of an item box: an item that activates when it has
\* come down.
DropItem(i, id, n) ==
    /\ phase \in {"sessions", "update"} /\ {i} \in Takeable
    /\ Becomes(PutOnMap(World, {i}, [j \in {i} |-> Dropped(id, n)], "ACTIVATING"))
    /\ grid' = grid \cup {i} /\ store' = store \ {i}
    /\ UNCHANGED <<toNewGrid, toRemove, phase>>

\* ObjectGridLoader: the items of a grid that is loaded when somebody enters it.
LoadItem(i, id, n, respawns) ==
    /\ phase \in {"sessions", "update"} /\ {i} \in Takeable
    /\ Becomes(IF respawns
               THEN PutOnMap(World, {i}, [j \in {i} |-> [Dropped(id, 0) EXCEPT !.respawns = TRUE]], "INACTIVE")
               ELSE PutOnMap(World, {i}, [j \in {i} |-> Dropped(id, n)], "ACTIVE"))
    /\ grid' = grid \cup {i} /\ store' = store \ {i}
    /\ UNCHANGED <<toNewGrid, toRemove, phase>>

\* BattleMap::onStop() when everybody has left: ObjectGridCleaner.
CleanupAllGrids ==
    /\ phase = "sessions" /\ \A p \in Player : ~unit[p].inWorld
    /\ unit' = [u \in Unit |-> IF u \in grid
                               THEN [NewUnit EXCEPT !.inWorld = FALSE, !.alive = unit[u].alive]
                               ELSE unit[u]]
    /\ item' = [i \in Item |-> IF i \in grid THEN [NewItem EXCEPT !.state = "INACTIVE"] ELSE item[i]]
    /\ grid' = {} /\ store' = store \cup grid
    /\ UNCHANGED <<toNewGrid, toRemove, phase>>

-----------------------------------------------------------------------------
(***************************************************************************)
(* BattleMap::update(): the timers.                                         *)
(***************************************************************************)

BeginUpdate ==
    /\ phase = "sessions" /\ phase' = "update"
    /\ UNCHANGED <<unit, item, grid, toNewGrid, toRemove, store>>

\* Item::setItemState(ITEM_STATE_INACTIVE)
Inactivate(w, i) ==
    RemoveAllPickers([RemoveAllCollidedObjects(w, i) EXCEPT !.item[i].state = "INACTIVE",
                                                            !.item[i].n = 0], i)

\* Unit::storeItem(); what does not fit on the stack is lost (getCannotStoreItemCount()).
StoreItem(r, id, n) ==
    IF id = FirstAid THEN [r EXCEPT !.aid = Min({@ + n, Stackable})] ELSE [r EXCEPT !.equip = id]

(***************************************************************************)
(* Player::receiveItem() and Robot::receiveItem().  The item is brought     *)
(* back later, at a place that may be on another grid, if its spawn info    *)
(* says so and the place is safe; otherwise it is removed.  Then the worn   *)
(* equipment is dropped (CarriedItem::drop()) as the item in D, and the new *)
(* one takes its slot.                                                      *)
(***************************************************************************)
ReceiveItem(u, D, back, crossing) ==
    LET i == unit[u].pickingUp
        r == item[i]
        swaps == r.id \in Equipment /\ unit[u].equip # None
        received == IF back THEN Inactivate(World, i) ELSE CleanupItem(World, i)
        stored == [received EXCEPT !.unit[u] = StoreItem(@, r.id, r.n)]
    IN
    /\ back => r.respawns
    /\ crossing => back
    /\ Cardinality(D) = (IF swaps THEN 1 ELSE 0)
    /\ Becomes(PickupStop(PutOnMap(stored, D, [d \in D |-> Dropped(unit[u].equip, 0)], "ACTIVATING"), u))
    /\ toRemove' = IF back THEN toRemove ELSE toRemove \cup {i}
    /\ toNewGrid' = IF crossing THEN toNewGrid \cup {i} ELSE toNewGrid
    /\ grid' = grid \cup D /\ store' = store \ D

\* Unit::updatePickupTimer() when the time is over: receiveItem(), which does nothing if
\* there is no place for the item any more, and pickupStop().
UpdatePickupTimer(u) ==
    /\ phase = "update" /\ unit[u].inWorld /\ unit[u].alive
    /\ unit[u].pickingUp # None /\ ~unit[u].forbidden
    /\ IF CanStoreItem(unit[u], item[unit[u].pickingUp].id)
       THEN \E D \in Takeable, back, crossing \in BOOLEAN : ReceiveItem(u, D, back, crossing)
       ELSE Becomes(PickupStop(World, u)) /\ UNCHANGED <<grid, toNewGrid, toRemove, store>>
    /\ UNCHANGED phase

\* Mutant: a player that was refused is not asked again.
MutTakeItem(w, u) == [w EXCEPT !.unit[u].aid = @ - 1]

\* Unit::takeItem(); Player::takeItem() starts over if the inventory was full.
TakeItem(w, u) ==
    LET taken == [w EXCEPT !.unit[u].aid = @ - 1] IN
    IF u \in Player /\ w.unit[u].forbidden THEN PickupStop(taken, u) ELSE taken

\* handleUseItem() of a player, SparringRobotAI::doUse() of a robot.
UseItem(u) ==
    /\ phase = (IF u \in Player THEN "sessions" ELSE "update")
    /\ unit[u].inWorld /\ unit[u].alive /\ unit[u].aid > 0
    /\ Becomes(TakeItem(World, u))
    /\ UNCHANGED <<grid, toNewGrid, toRemove, store, phase>>

\* What a unit that dies may leave behind: one of each equipment it wears, some of the
\* first aids it carries.
IsLoot(u, f) ==
    /\ \A d \in DOMAIN f : f[d] \in {unit[u].equip, FirstAid}
    /\ Cardinality({d \in DOMAIN f : f[d] = unit[u].equip}) <= 1
    /\ Cardinality({d \in DOMAIN f : f[d] = FirstAid}) <= unit[u].aid

\* Player::died() and Robot::died(): the loot f[i] becomes the items i, each a single
\* piece; then setDeathState(DEATH_STATE_DEAD).
Die(u, f) ==
    LET left == PutOnMap(World, DOMAIN f, [d \in DOMAIN f |-> Dropped(f[d], 1)], "ACTIVATING") IN
    /\ unit[u].inWorld /\ unit[u].alive
    /\ IsLoot(u, f)
    /\ Becomes([PickupStop(left, u) EXCEPT !.unit[u].alive = FALSE, !.unit[u].equip = None,
                                           !.unit[u].aid = 0])
    /\ grid' = grid \cup DOMAIN f /\ store' = store \ DOMAIN f
    /\ UNCHANGED <<toNewGrid, toRemove, phase>>

\* Mutant: the robot is taken off the map at once.
MutWithdrawRobot(r) ==
    /\ phase = "update" /\ unit[r].inWorld /\ ~unit[r].alive
    /\ Becomes(CleanupUnit(World, r))
    /\ grid' = grid \ {r} /\ store' = store \cup {r}
    /\ UNCHANGED <<toNewGrid, toRemove, phase>>

\* Robot::withdraw() after its death: addObjectToRemoveList().
WithdrawRobot(r) ==
    /\ phase = "update" /\ unit[r].inWorld /\ ~unit[r].alive
    /\ Becomes(CleanupUnit(World, r))
    /\ toRemove' = toRemove \cup {r}
    /\ UNCHANGED <<grid, toNewGrid, store, phase>>

\* robotRelocation() into another grid.
RelocateRobot(r) ==
    /\ phase = "update" /\ unit[r].inWorld /\ unit[r].alive
    /\ toNewGrid' = toNewGrid \cup {r}
    /\ UNCHANGED <<unit, item, grid, toRemove, store, phase>>

\* Item::update(): activate().
Activate(i) ==
    /\ phase = "update" /\ item[i].inWorld /\ item[i].state = "ACTIVATING"
    /\ item' = [item EXCEPT ![i].state = "ACTIVE"]
    /\ UNCHANGED <<unit, grid, toNewGrid, toRemove, store, phase>>

\* Item::update(): respawn().
Respawn(i, n) ==
    /\ phase = "update" /\ item[i].inWorld /\ item[i].state = "INACTIVE"
    /\ item' = [item EXCEPT ![i].state = "ACTIVE", ![i].n = Dropped(item[i].id, n).n]
    /\ UNCHANGED <<unit, grid, toNewGrid, toRemove, store, phase>>

-----------------------------------------------------------------------------
(***************************************************************************)
(* BattleMap::update(): the lists and the tests.                            *)
(***************************************************************************)

\* An object is taken off its grid and put on the one it has come to.
ProcessObjectToNewGridList ==
    /\ phase = "update" /\ phase' = "notify"
    /\ grid' = grid \cup toNewGrid /\ toNewGrid' = {}
    /\ UNCHANGED <<unit, item, toRemove, store>>

\* Item::canDetect(); the item itself may have left the world.
CanDetect(i, u) == item[i].state = "ACTIVE" /\ unit[u].inWorld /\ unit[u].alive

\* Item::addCollidedObject() with Unit::enterCollision() or stayCollision(): the unit
\* picks up an item unless the one it is picking up is nearer.
Touch(u, i) ==
    /\ phase = "notify" /\ i \in grid /\ CanDetect(i, u)
    /\ LET touched == [World EXCEPT !.item[i].collided = @ \cup {u}] IN
       \/ /\ CanPickup(u, i) /\ unit[u].pickingUp # i
          /\ Becomes(Pickup(touched, u, i))
       \/ /\ ~CanPickup(u, i) \/ unit[u].pickingUp # None
          /\ Becomes(touched)
    /\ UNCHANGED <<grid, toNewGrid, toRemove, store, phase>>

\* Item::removeCollidedObject() with Unit::leaveCollision().
Leave(u, i) ==
    /\ phase = "notify" /\ i \in grid /\ CanDetect(i, u) /\ u \in item[i].collided
    /\ LET left == [World EXCEPT !.item[i].collided = @ \ {u}] IN
       Becomes(IF unit[u].pickingUp = i THEN PickupStop(left, u) ELSE left)
    /\ UNCHANGED <<grid, toNewGrid, toRemove, store, phase>>

\* removeFromMap() of all objects cleaned up since the last update.
ProcessObjectRemoveList ==
    /\ phase = "notify" /\ phase' = "sessions"
    /\ grid' = grid \ toRemove /\ store' = store \cup toRemove
    /\ item' = Stored(item, toRemove \cap Item)
    /\ toRemove' = {}
    /\ UNCHANGED <<unit, toNewGrid>>

-----------------------------------------------------------------------------
\* New pieces come into the battle.
Spawn ==
    \E i \in Item, n \in 1..MaxCount :
        \/ \E id \in Template : DropItem(i, id, n) \/ \E b \in BOOLEAN : LoadItem(i, id, n, b)
        \/ Respawn(i, n)

Next ==
    \/ \E p \in Player : JoinBattle(p) \/ LogoutPlayer(p)
    \/ \E r \in Robot : AddRobot(r) \/ WithdrawRobot(r) \/ RelocateRobot(r)
    \/ \E o \in Robot \cup Item : DelObject(o)
    \/ CleanupAllGrids
    \/ BeginUpdate \/ ProcessObjectToNewGridList \/ ProcessObjectRemoveList
    \/ \E u \in Unit :
        \/ UpdatePickupTimer(u)
        \/ UseItem(u)
        \/ \E D \in Takeable : \E f \in [D -> Template] : Die(u, f)
        \/ \E i \in Item : Touch(u, i) \/ Leave(u, i)
    \/ \E i \in Item : Activate(i)
    \/ Spawn

Spec == Init /\ [][Next]_vars

-----------------------------------------------------------------------------
(***************************************************************************)
(* Properties.                                                              *)
(***************************************************************************)

(***************************************************************************)
(* m_pickers of the items and m_pickingUp of the units say the same, so     *)
(* that removeAllPickers() never meets "an picker that isn't picking it     *)
(* up", and whoever picks up an item is alive on the map and touches it,    *)
(* and the item is there to be had: neither death, logout, removal, respawn *)
(* nor the reuse of the item leaves a pickup behind that would be completed *)
(* later.                                                                   *)
(***************************************************************************)
PickingSound ==
    /\ \A u \in Unit, i \in Item : u \in item[i].pickers <=> unit[u].pickingUp = i
    /\ \A u \in Unit : unit[u].pickingUp # None =>
          LET r == item[unit[u].pickingUp] IN
          /\ unit[u].inWorld /\ unit[u].alive
          /\ r.inWorld /\ r.state = "ACTIVE" /\ u \in r.collided

(***************************************************************************)
(* Every robot and item is either on the map or in the store of reusable    *)
(* objects.  One that has left the world stays on its grid until the remove *)
(* list is processed, even if it moved in the same update; between updates  *)
(* both lists are empty.  A stored robot is fit for reloadData(), which     *)
(* asserts that it does nothing, and a stored item has no pickers.          *)
(***************************************************************************)
OnePlacePerObject ==
    /\ store \cap grid = {}
    /\ grid = {r \in Robot : unit[r].inWorld} \cup {i \in Item : item[i].inWorld} \cup toRemove
    /\ \A o \in toRemove : IF o \in Robot THEN ~unit[o].inWorld ELSE ~item[o].inWorld
    /\ toNewGrid \subseteq grid
    /\ phase = "sessions" => toNewGrid = {} /\ toRemove = {}
    /\ \A o \in store :
          IF o \in Robot THEN unit[o].pickingUp = None /\ unit[o].equip = None /\ unit[o].aid = 0
          ELSE item[o].pickers = {}

Carried(id, u) == IF id = FirstAid THEN unit[u].aid ELSE IF unit[u].equip = id THEN 1 ELSE 0

OnGround(id, i) ==
    IF ~item[i].inWorld \/ item[i].state = "INACTIVE" \/ item[i].id # id THEN 0
    ELSE IF id = FirstAid THEN item[i].n ELSE 1

Pieces(id) ==
    SumFunction([u \in Unit |-> Carried(id, u)]) + SumFunction([i \in Item |-> OnGround(id, i)])

(***************************************************************************)
(* Nothing is duplicated: except where new pieces are spawned, no step      *)
(* makes more of a template, carried and on the ground together.  An item   *)
(* that two units pick up at the same time goes to one of them, and what is *)
(* dropped in exchange or at death is taken from its owner.                 *)
(***************************************************************************)
NoDuplication == [][(\A id \in Template : Pieces(id)' <= Pieces(id)) \/ Spawn]_vars

(***************************************************************************)
(* A player that picks up an item is refused exactly while its inventory    *)
(* has no place for it: using an item up does not leave it refused, which   *)
(* would stop its pickup timer for good while it stands there.              *)
(***************************************************************************)
ForbiddenIffFull ==
    \A p \in Player :
        unit[p].forbidden <=>
            /\ unit[p].pickingUp # None
            /\ ~CanStoreItem(unit[p], item[unit[p].pickingUp].id)
=============================================================================
