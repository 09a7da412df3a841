-------------------------- MODULE FieldItemsProofs --------------------------
(***************************************************************************)
(* Pickups are sound, no player is refused for nothing and every object has *)
(* one place, for any number of players, robots, items and templates.       *)
(*                                                                          *)
(* The three are proved together.  That a reused item brings no pickup with *)
(* it follows from its place: a stored item is not in the world, and nobody *)
(* picks up an item that is not.  The places in turn need that the units    *)
(* and items taken from the store are not on the remove list.               *)
(*                                                                          *)
(* Last, that nothing is duplicated.  What each handler does is brought     *)
(* down to records: a unit carries no more than before and an item holds no *)
(* more, or what one unit gains is taken from one item and what it drops is *)
(* taken from it.  Facts about sums over finite sets carry this over to the *)
(* number of pieces.                                                        *)
(***************************************************************************)
EXTENDS FieldItems, FiniteSetTheorems, TLAPS

\* The fields of units and items between two calls of a handler.
Worlds == [unit : [Unit -> UnitRecord], item : [Item -> ItemRecord]]

\* The two sides of a pickup say the same.
Matched(w) ==
    \A u \in Unit, i \in Item : u \in w.item[i].pickers <=> w.unit[u].pickingUp = i

\* Who picks up an item is there, and so is the item.
Present(w) ==
    \A u \in Unit : w.unit[u].pickingUp # None =>
        LET r == w.item[w.unit[u].pickingUp] IN
        /\ w.unit[u].inWorld /\ w.unit[u].alive
        /\ r.inWorld /\ r.state = "ACTIVE" /\ u \in r.collided

\* A player is refused exactly while it has no place for what it picks up.
Refused(w) ==
    \A p \in Player :
        w.unit[p].forbidden <=>
            /\ w.unit[p].pickingUp # None
            /\ ~CanStoreItem(w.unit[p], w.item[w.unit[p].pickingUp].id)

Sound(w) == w \in Worlds /\ Matched(w) /\ Present(w) /\ Refused(w)

\* The fields a pickup that stops leaves alone.
SameUnit(r, q) == r.inWorld = q.inWorld /\ r.alive = q.alive /\ r.equip = q.equip /\ r.aid = q.aid
SameItem(r, q) ==
    /\ r.inWorld = q.inWorld /\ r.state = q.state /\ r.id = q.id /\ r.n = q.n
    /\ r.respawns = q.respawns /\ r.collided = q.collided

-----------------------------------------------------------------------------
(***************************************************************************)
(* The calls handlers are made of keep pickups sound.                       *)
(***************************************************************************)

\* pickupStop() of a unit, whatever it was doing.
LEMMA PickupStopSound ==
  ASSUME NEW w, Sound(w), NEW u \in Unit
  PROVE  LET v == PickupStop(w, u) IN
         /\ Sound(v)
         /\ v.unit[u].pickingUp = None
         /\ \A x \in Unit : x # u => v.unit[x] = w.unit[x]
         /\ SameUnit(v.unit[u], w.unit[u])
         /\ \A i \in Item : SameItem(v.item[i], w.item[i]) /\ v.item[i].pickers = w.item[i].pickers \ {u}
<1> DEFINE i == w.unit[u].pickingUp
           v == PickupStop(w, u)
<1>1. w.unit \in [Unit -> UnitRecord] /\ w.item \in [Item -> ItemRecord]
  BY DEF Sound, Worlds
<1>2. CASE i = None
  <2>1. v = w
    BY <1>2 DEF PickupStop
  <2>2. \A j \in Item : u \notin w.item[j].pickers
    BY <1>2, ObjectAssumption DEF Sound, Matched
  <2> QED
    BY <1>1, <1>2, <2>1, <2>2 DEF SameUnit, SameItem, ItemRecord
<1>3. CASE i # None
  <2>1. i \in Item
    BY <1>1, <1>3 DEF UnitRecord
  <2>2. /\ v.unit = [w.unit EXCEPT ![u].pickingUp = None, ![u].forbidden = FALSE]
        /\ v.item = [w.item EXCEPT ![i].pickers = @ \ {u}]
        /\ v = [unit |-> v.unit, item |-> v.item]
    BY <1>3 DEF PickupStop
  <2> HIDE DEF v
  <2>3. /\ v.unit[u] = [w.unit[u] EXCEPT !.pickingUp = None, !.forbidden = FALSE]
        /\ \A x \in Unit : x # u => v.unit[x] = w.unit[x]
    BY <1>1, <2>2
  <2>4. \A j \in Item : j # i => v.item[j] = w.item[j]
    BY <1>1, <2>2
  <2>5. v.item[i] = [w.item[i] EXCEPT !.pickers = @ \ {u}]
    BY <1>1, <2>1, <2>2
  <2>6. /\ v.unit[u].pickingUp = None /\ v.unit[u].forbidden = FALSE
        /\ SameUnit(v.unit[u], w.unit[u])
    BY <1>1, <2>3 DEF UnitRecord, SameUnit
  <2>7. \A j \in Item : SameItem(v.item[j], w.item[j])
    BY <1>1, <2>1, <2>4, <2>5 DEF ItemRecord, SameItem
  <2>8. \A j \in Item : v.item[j].pickers = w.item[j].pickers \ {u}
    <3>1. \A j \in Item : j # i => u \notin w.item[j].pickers
      BY <1>1 DEF Sound, Matched
    <3>2. v.item[i].pickers = w.item[i].pickers \ {u}
      BY <1>1, <2>1, <2>5 DEF ItemRecord
    <3>3. ASSUME NEW j \in Item, j # i PROVE v.item[j].pickers = w.item[j].pickers \ {u}
      BY <2>4, <3>1, <3>3
    <3> QED
      BY <3>2, <3>3
  <2>9. v \in Worlds
    <3>1. v.unit[u] \in UnitRecord
      BY <1>1, <2>3 DEF UnitRecord
    <3>2. v.item[i] \in ItemRecord
      <4>1. w.item[i] \in ItemRecord
        BY <1>1, <2>1
      <4>2. w.item[i].pickers \ {u} \in SUBSET Unit
        BY <4>1 DEF ItemRecord
      <4> QED
        BY <2>5, <4>1, <4>2 DEF ItemRecord
    <3>3. v.unit = [x \in Unit |-> IF x = u THEN v.unit[u] ELSE w.unit[x]]
      BY <1>1, <2>2
    <3>4. v.item = [j \in Item |-> IF j = i THEN v.item[i] ELSE w.item[j]]
      BY <1>1, <2>1, <2>2
    <3>5. v.unit \in [Unit -> UnitRecord]
      BY <1>1, <3>1, <3>3
    <3>6. v.item \in [Item -> ItemRecord]
      BY <1>1, <3>2, <3>4
    <3> QED
      BY <2>2, <3>5, <3>6 DEF Worlds
  <2>10. Matched(v)
    <3> SUFFICES ASSUME NEW x \in Unit, NEW j \in Item
                 PROVE  x \in v.item[j].pickers <=> v.unit[x].pickingUp = j
      BY DEF Matched
    <3>1. CASE x = u
      BY <2>6, <2>8, <3>1, ObjectAssumption
    <3>2. CASE x # u
      BY <2>3, <2>8, <3>2 DEF Sound, Matched
    <3> QED
      BY <3>1, <3>2
  <2>11. Present(v)
    <3> SUFFICES ASSUME NEW x \in Unit, v.unit[x].pickingUp # None
                 PROVE  LET r == v.item[v.unit[x].pickingUp] IN
                        /\ v.unit[x].inWorld /\ v.unit[x].alive
                        /\ r.inWorld /\ r.state = "ACTIVE" /\ x \in r.collided
      BY DEF Present
    <3>1. v.unit[x] = w.unit[x]
      BY <2>3, <2>6
    <3>2. w.unit[x].pickingUp \in Item
      BY <1>1, <3>1 DEF UnitRecord
    <3> QED
      BY <2>7, <3>1, <3>2 DEF Sound, Present, SameItem
  <2>12. Refused(v)
    <3> SUFFICES ASSUME NEW p \in Player
                 PROVE  v.unit[p].forbidden <=>
                          /\ v.unit[p].pickingUp # None
                          /\ ~CanStoreItem(v.unit[p], v.item[v.unit[p].pickingUp].id)
      BY DEF Refused
    <3>1. CASE p = u
      BY <2>6, <3>1
    <3>2. CASE p # u
      <4>1. p \in Unit /\ v.unit[p] = w.unit[p]
        BY <2>3, <3>2 DEF Unit
      <4>2. w.unit[p].pickingUp # None => w.unit[p].pickingUp \in Item
        BY <1>1, <4>1 DEF UnitRecord
      <4> QED
        BY <2>7, <4>1, <4>2 DEF Sound, Refused, SameItem
    <3> QED
      BY <3>1, <3>2
  <2> QED
    BY <2>3, <2>6, <2>7, <2>8, <2>9, <2>10, <2>11, <2>12 DEF v, Sound
<1> QED
  BY <1>2, <1>3

\* removeAllPickers() of an item whose other fields have changed to those of r.
LEMMA RemoveAllPickersSound ==
  ASSUME NEW w, Sound(w), NEW i \in Item, NEW r \in ItemRecord, r.pickers = w.item[i].pickers
  PROVE  LET v == RemoveAllPickers([unit |-> w.unit, item |-> [w.item EXCEPT ![i] = r]], i) IN
         /\ Sound(v)
         /\ \A u \in Unit : SameUnit(v.unit[u], w.unit[u])
         /\ \A u \in Unit : v.unit[u].pickingUp
                           = IF w.unit[u].pickingUp = i THEN None ELSE w.unit[u].pickingUp
         /\ \A j \in Item : j # i => v.item[j] = w.item[j]
         /\ v.item[i] = [r EXCEPT !.pickers = {}]
<1> DEFINE v == RemoveAllPickers([unit |-> w.unit, item |-> [w.item EXCEPT ![i] = r]], i)
           released(u) == [w.unit[u] EXCEPT !.pickingUp = None, !.forbidden = FALSE]
           Picks(u) == w.unit[u].pickingUp = i
<1>1. w.unit \in [Unit -> UnitRecord] /\ w.item \in [Item -> ItemRecord]
  BY DEF Sound, Worlds
<1>2. \A u \in Unit : u \in r.pickers <=> Picks(u)
  BY DEF Sound, Matched
<1>3. i # None
  BY ObjectAssumption
<1>4. /\ v.unit = [u \in Unit |-> IF u \in r.pickers /\ w.unit[u].pickingUp # None
                                THEN released(u) ELSE w.unit[u]]
      /\ v.item = [[w.item EXCEPT ![i] = r] EXCEPT ![i].pickers = {}]
      /\ v = [unit |-> v.unit, item |-> v.item]
  BY <1>1 DEF RemoveAllPickers
<1>5. v.unit = [u \in Unit |-> IF Picks(u) THEN released(u) ELSE w.unit[u]]
  BY <1>2, <1>3, <1>4
<1>6. v.item = [j \in Item |-> IF j = i THEN [r EXCEPT !.pickers = {}] ELSE w.item[j]]
  BY <1>1, <1>4
<1>7. v = [unit |-> v.unit, item |-> v.item]
  BY <1>4
<1> HIDE DEF v
<1>8. \A u \in Unit : /\ Picks(u) => v.unit[u] = released(u)
                      /\ ~Picks(u) => v.unit[u] = w.unit[u]
  BY <1>5
<1>9. \A u \in Unit : w.unit[u] \in UnitRecord
  BY <1>1
<1>10. \A u \in Unit : SameUnit(v.unit[u], w.unit[u])
  BY <1>8, <1>9 DEF SameUnit, UnitRecord
<1>11. \A u \in Unit : /\ Picks(u) => v.unit[u].pickingUp = None /\ v.unit[u].forbidden = FALSE
                       /\ ~Picks(u) => v.unit[u].pickingUp = w.unit[u].pickingUp
  BY <1>8, <1>9 DEF UnitRecord
<1>12. /\ \A j \in Item : j # i => v.item[j] = w.item[j]
       /\ v.item[i] = [r EXCEPT !.pickers = {}]
       /\ v.item[i].pickers = {}
  BY <1>6 DEF ItemRecord
<1>13. v \in Worlds
  <2>1. \A u \in Unit : released(u) \in UnitRecord
    BY <1>9 DEF UnitRecord
  <2>2. [r EXCEPT !.pickers = {}] \in ItemRecord
    BY DEF ItemRecord
  <2>3. v.unit \in [Unit -> UnitRecord]
    BY <1>5, <1>9, <2>1
  <2>4. v.item \in [Item -> ItemRecord]
    BY <1>1, <1>6, <2>2
  <2> QED
    BY <1>7, <2>3, <2>4 DEF Worlds
<1>14. Matched(v)
  <2> SUFFICES ASSUME NEW u \in Unit, NEW j \in Item
               PROVE  u \in v.item[j].pickers <=> v.unit[u].pickingUp = j
    BY DEF Matched
  <2>1. u \in w.item[j].pickers <=> w.unit[u].pickingUp = j
    BY DEF Sound, Matched
  <2> QED
    BY <1>3, <1>11, <1>12, <2>1, ObjectAssumption
<1>15. Present(v)
  <2> SUFFICES ASSUME NEW u \in Unit, v.unit[u].pickingUp # None
               PROVE  LET q == v.item[v.unit[u].pickingUp] IN
                      /\ v.unit[u].inWorld /\ v.unit[u].alive
                      /\ q.inWorld /\ q.state = "ACTIVE" /\ u \in q.collided
    BY DEF Present
  <2>1. ~Picks(u) /\ v.unit[u] = w.unit[u]
    BY <1>8, <1>11
  <2>2. w.unit[u].pickingUp \in Item \ {i}
    BY <1>9, <2>1 DEF UnitRecord
  <2> QED
    BY <1>12, <2>1, <2>2 DEF Sound, Present
<1>16. Refused(v)
  <2> SUFFICES ASSUME NEW p \in Player
               PROVE  v.unit[p].forbidden <=>
                        /\ v.unit[p].pickingUp # None
                        /\ ~CanStoreItem(v.unit[p], v.item[v.unit[p].pickingUp].id)
    BY DEF Refused
  <2>1. p \in Unit
    BY DEF Unit
  <2>2. CASE Picks(p)
    BY <1>11, <2>1, <2>2
  <2>3. CASE ~Picks(p)
    <3>1. v.unit[p] = w.unit[p]
      BY <1>8, <2>1, <2>3
    <3>2. w.unit[p].pickingUp # None => w.unit[p].pickingUp \in Item \ {i}
      BY <1>9, <2>1, <2>3 DEF UnitRecord
    <3> QED
      BY <1>12, <3>1, <3>2 DEF Sound, Refused
  <2> QED
    BY <2>2, <2>3
<1> QED
  BY <1>10, <1>11, <1>12, <1>13, <1>14, <1>15, <1>16 DEF v, Sound

\* An item leaves the world.
LEMMA CleanupItemSound ==
  ASSUME NEW w, Sound(w), NEW i \in Item
  PROVE  LET v == CleanupItem(w, i) IN
         /\ Sound(v)
         /\ \A u \in Unit : SameUnit(v.unit[u], w.unit[u])
         /\ \A u \in Unit : v.unit[u].pickingUp
                           = IF w.unit[u].pickingUp = i THEN None ELSE w.unit[u].pickingUp
         /\ \A j \in Item : j # i => v.item[j] = w.item[j]
         /\ v.item[i] = [w.item[i] EXCEPT !.collided = {}, !.inWorld = FALSE, !.pickers = {}]
<1> DEFINE r == [w.item[i] EXCEPT !.collided = {}, !.inWorld = FALSE]
<1>1. w.unit \in [Unit -> UnitRecord] /\ w.item \in [Item -> ItemRecord]
      /\ w = [unit |-> w.unit, item |-> w.item]
  BY DEF Sound, Worlds
<1>2. r \in ItemRecord /\ r.pickers = w.item[i].pickers
      /\ [r EXCEPT !.pickers = {}] = [w.item[i] EXCEPT !.collided = {}, !.inWorld = FALSE, !.pickers = {}]
  BY <1>1 DEF ItemRecord
<1>3. [RemoveAllCollidedObjects(w, i) EXCEPT !.item[i].inWorld = FALSE]
        = [unit |-> w.unit, item |-> [w.item EXCEPT ![i] = r]]
  <2>1. RemoveAllCollidedObjects(w, i) = [unit |-> w.unit, item |-> [w.item EXCEPT ![i].collided = {}]]
    BY <1>1 DEF RemoveAllCollidedObjects
  <2>2. [RemoveAllCollidedObjects(w, i) EXCEPT !.item[i].inWorld = FALSE]
          = [unit |-> w.unit, item |-> [[w.item EXCEPT ![i].collided = {}] EXCEPT ![i].inWorld = FALSE]]
    BY <2>1
  <2>3. [[w.item EXCEPT ![i].collided = {}] EXCEPT ![i].inWorld = FALSE] = [w.item EXCEPT ![i] = r]
    BY <1>1
  <2> QED
    BY <2>2, <2>3
<1>4. CleanupItem(w, i) = RemoveAllPickers([unit |-> w.unit, item |-> [w.item EXCEPT ![i] = r]], i)
  BY <1>3 DEF CleanupItem
<1> HIDE DEF r
<1> QED
  BY <1>2, <1>4, RemoveAllPickersSound, SMTT(30)

\* An item waits to be brought back.
LEMMA InactivateSound ==
  ASSUME NEW w, Sound(w), NEW i \in Item
  PROVE  LET v == Inactivate(w, i) IN
         /\ Sound(v)
         /\ \A u \in Unit : SameUnit(v.unit[u], w.unit[u])
         /\ \A u \in Unit : v.unit[u].pickingUp
                           = IF w.unit[u].pickingUp = i THEN None ELSE w.unit[u].pickingUp
         /\ \A j \in Item : j # i => v.item[j] = w.item[j]
         /\ v.item[i] = [w.item[i] EXCEPT !.collided = {}, !.state = "INACTIVE", !.n = 0, !.pickers = {}]
<1> DEFINE r == [w.item[i] EXCEPT !.collided = {}, !.state = "INACTIVE", !.n = 0]
<1>1. w.unit \in [Unit -> UnitRecord] /\ w.item \in [Item -> ItemRecord]
      /\ w = [unit |-> w.unit, item |-> w.item]
  BY DEF Sound, Worlds
<1>2. r \in ItemRecord /\ r.pickers = w.item[i].pickers
      /\ [r EXCEPT !.pickers = {}]
           = [w.item[i] EXCEPT !.collided = {}, !.state = "INACTIVE", !.n = 0, !.pickers = {}]
  <2>1. 0 \in 0..MaxCount
    BY TemplateAssumption
  <2> QED
    BY <1>1, <2>1 DEF ItemRecord
<1>3. [RemoveAllCollidedObjects(w, i) EXCEPT !.item[i].state = "INACTIVE", !.item[i].n = 0]
        = [unit |-> w.unit, item |-> [w.item EXCEPT ![i] = r]]
  <2> DEFINE c == RemoveAllCollidedObjects(w, i)
             f == [w.item EXCEPT ![i].collided = {}]
             g == [f EXCEPT ![i].state = "INACTIVE"]
             a == [c EXCEPT !.item[i].state = "INACTIVE"]
  <2>1. c = [unit |-> w.unit, item |-> f]
    BY <1>1 DEF RemoveAllCollidedObjects
  <2>2. a = [unit |-> w.unit, item |-> g]
    BY <2>1
  <2>3. [c EXCEPT !.item[i].state = "INACTIVE", !.item[i].n = 0] = [a EXCEPT !.item[i].n = 0]
    OBVIOUS
  <2>4. [a EXCEPT !.item[i].n = 0] = [unit |-> w.unit, item |-> [g EXCEPT ![i].n = 0]]
    <3> HIDE DEF a, g
    <3> QED
      BY <2>2
  <2>5. [g EXCEPT ![i].n = 0] = [w.item EXCEPT ![i] = r]
    BY <1>1
  <2> QED
    BY <2>3, <2>4, <2>5
<1>4. Inactivate(w, i) = RemoveAllPickers([unit |-> w.unit, item |-> [w.item EXCEPT ![i] = r]], i)
  BY <1>3 DEF Inactivate
<1> HIDE DEF r
<1> QED
  BY <1>2, <1>4, RemoveAllPickersSound, SMTT(30)

\* Pickups stay sound when only items change that nobody picks up.
LEMMA PickedUnchanged ==
  ASSUME NEW w, Sound(w), NEW v \in Worlds, v.unit = w.unit, NEW D \in SUBSET Item,
         \A i \in D : w.item[i].pickers = {} /\ v.item[i].pickers = {},
         \A i \in Item \ D : v.item[i] = w.item[i]
  PROVE  Sound(v)
<1>1. \A u \in Unit : w.unit[u] \in UnitRecord
  BY DEF Sound, Worlds
<1>2. ASSUME NEW u \in Unit, w.unit[u].pickingUp # None
      PROVE  /\ w.unit[u].pickingUp \in Item
             /\ v.item[w.unit[u].pickingUp] = w.item[w.unit[u].pickingUp]
  <2>1. w.unit[u].pickingUp \in Item
    BY <1>1, <1>2 DEF UnitRecord
  <2>2. w.unit[u].pickingUp \notin D
    BY <2>1 DEF Sound, Matched
  <2> QED
    BY <2>1, <2>2
<1>3. Matched(v)
  <2> SUFFICES ASSUME NEW u \in Unit, NEW i \in Item
               PROVE  u \in v.item[i].pickers <=> v.unit[u].pickingUp = i
    BY DEF Matched
  <2>1. v.item[i].pickers = w.item[i].pickers
    BY DEF Sound
  <2>2. u \in w.item[i].pickers <=> w.unit[u].pickingUp = i
    BY DEF Sound, Matched
  <2> QED
    BY <2>1, <2>2
<1>4. Present(v)
  <2> SUFFICES ASSUME NEW u \in Unit, v.unit[u].pickingUp # None
               PROVE  LET q == v.item[v.unit[u].pickingUp] IN
                      /\ v.unit[u].inWorld /\ v.unit[u].alive
                      /\ q.inWorld /\ q.state = "ACTIVE" /\ u \in q.collided
    BY DEF Present
  <2>1. LET q == w.item[w.unit[u].pickingUp] IN
        /\ w.unit[u].inWorld /\ w.unit[u].alive
        /\ q.inWorld /\ q.state = "ACTIVE" /\ u \in q.collided
    BY DEF Sound, Present
  <2> QED
    BY <1>2, <2>1
<1>5. Refused(v)
  <2> SUFFICES ASSUME NEW p \in Player
               PROVE  v.unit[p].forbidden <=>
                        /\ v.unit[p].pickingUp # None
                        /\ ~CanStoreItem(v.unit[p], v.item[v.unit[p].pickingUp].id)
    BY DEF Refused
  <2>1. p \in Unit
    BY DEF Unit
  <2>2. w.unit[p].forbidden <=>
          /\ w.unit[p].pickingUp # None
          /\ ~CanStoreItem(w.unit[p], w.item[w.unit[p].pickingUp].id)
    BY DEF Sound, Refused
  <2>3. CASE w.unit[p].pickingUp = None
    BY <2>2, <2>3
  <2>4. CASE w.unit[p].pickingUp # None
    <3>1. v.item[w.unit[p].pickingUp] = w.item[w.unit[p].pickingUp]
      BY <1>2, <2>1, <2>4
    <3> QED
      BY <2>2, <3>1
  <2> QED
    BY <2>3, <2>4
<1> QED
  BY <1>3, <1>4, <1>5 DEF Sound

StatesOnMap == {"ACTIVATING", "ACTIVE", "INACTIVE"}
Data == [id : Template, n : 0..MaxCount, respawns : BOOLEAN]

\* What is dropped is data of an item.
LEMMA DroppedType ==
  ASSUME NEW id \in Template, NEW n \in 0..MaxCount
  PROVE  Dropped(id, n) \in Data /\ [Dropped(id, n) EXCEPT !.respawns = TRUE] \in Data
<1>1. 0 \in 0..MaxCount
  BY TemplateAssumption
<1>2. (IF id = FirstAid THEN n ELSE 0) \in 0..MaxCount
  BY <1>1
<1> QED
  BY <1>2 DEF Dropped, Data

\* Items nobody picks up are put on the map.
LEMMA PutOnMapSound ==
  ASSUME NEW w, Sound(w), NEW D \in SUBSET Item, NEW f,
         NEW state \in StatesOnMap,
         \A d \in D : w.item[d].pickers = {}, \A d \in D : f[d] \in Data
  PROVE  LET v == PutOnMap(w, D, f, state) IN
         /\ Sound(v)
         /\ v.unit = w.unit
         /\ \A i \in Item \ D : v.item[i] = w.item[i]
         /\ \A i \in D : v.item[i].inWorld /\ v.item[i].state = state /\ v.item[i].pickers = {}
<1> DEFINE v == PutOnMap(w, D, f, state)
           put(i) == [inWorld |-> TRUE, state |-> state, id |-> f[i].id, n |-> f[i].n,
                      respawns |-> f[i].respawns,
                      pickers |-> IF state = "INACTIVE" THEN {} ELSE w.item[i].pickers,
                      collided |-> IF state = "INACTIVE" THEN {} ELSE w.item[i].collided]
<1>1. w.unit \in [Unit -> UnitRecord] /\ w.item \in [Item -> ItemRecord]
      /\ w = [unit |-> w.unit, item |-> w.item]
  BY DEF Sound, Worlds
<1>2. /\ v = [unit |-> w.unit, item |-> v.item]
      /\ v.item = [i \in Item |-> IF i \notin D THEN w.item[i] ELSE put(i)]
  <2> DEFINE F == [i \in Item |-> IF i \notin D THEN w.item[i] ELSE put(i)]
  <2>1. v = [w EXCEPT !.item = F]
    BY DEF PutOnMap
  <2>2. [w EXCEPT !.item = F] = [unit |-> w.unit, item |-> F]
    <3> HIDE DEF F
    <3> QED
      BY <1>1
  <2> QED
    BY <2>1, <2>2
<1>3. v.unit = w.unit
  BY <1>2
<1>4. \A i \in Item : /\ i \notin D => v.item[i] = w.item[i]
                      /\ i \in D => v.item[i] = put(i)
  BY <1>2
<1>5. v = [unit |-> v.unit, item |-> v.item]
  BY <1>2
<1> HIDE DEF v
<1>6. \A i \in D : /\ put(i) \in ItemRecord
                   /\ put(i).inWorld /\ put(i).state = state /\ put(i).pickers = {}
  <2> SUFFICES ASSUME NEW i \in D
               PROVE  /\ put(i) \in ItemRecord
                      /\ put(i).inWorld /\ put(i).state = state /\ put(i).pickers = {}
    OBVIOUS
  <2>1. w.item[i] \in ItemRecord /\ w.item[i].pickers = {} /\ f[i] \in Data
    BY <1>1
  <2>2. w.item[i].collided \in SUBSET Unit
    BY <2>1 DEF ItemRecord
  <2> QED
    BY <2>1, <2>2 DEF ItemRecord, Data, StatesOnMap
<1>7. \A i \in D : v.item[i].inWorld /\ v.item[i].state = state /\ v.item[i].pickers = {}
  <2> HIDE DEF put
  <2> QED
    BY <1>4, <1>6
<1>8. v \in Worlds
  <2>1. v.item \in [Item -> ItemRecord]
    BY <1>1, <1>2, <1>4, <1>6
  <2> QED
    BY <1>1, <1>3, <1>5, <2>1 DEF Worlds
<1>9. Sound(v)
  <2>1. \A i \in D : w.item[i].pickers = {} /\ v.item[i].pickers = {}
    BY <1>7
  <2>2. \A i \in Item \ D : v.item[i] = w.item[i]
    BY <1>4
  <2> QED
    BY <1>3, <1>8, <2>1, <2>2, PickedUnchanged
<1> QED
  BY <1>3, <1>4, <1>7, <1>9 DEF v

\* Items nobody picks up go to the store.
LEMMA StoredSound ==
  ASSUME NEW w, Sound(w), NEW S \in SUBSET Item, \A i \in S : w.item[i].pickers = {}
  PROVE  LET items == Stored(w.item, S) IN
         /\ Sound([unit |-> w.unit, item |-> items])
         /\ \A i \in Item \ S : items[i] = w.item[i]
         /\ \A i \in S : ~items[i].inWorld /\ items[i].state = "INACTIVE" /\ items[i].pickers = {}
<1> DEFINE items == Stored(w.item, S)
           put(i) == [NewItem EXCEPT !.state = "INACTIVE", !.pickers = w.item[i].pickers,
                                     !.collided = w.item[i].collided]
           v == [unit |-> w.unit, item |-> items]
<1>1. w.unit \in [Unit -> UnitRecord] /\ w.item \in [Item -> ItemRecord]
  BY DEF Sound, Worlds
<1>2. items = [i \in Item |-> IF i \in S THEN put(i) ELSE w.item[i]]
  BY DEF Stored
<1>3. \A i \in Item : /\ i \notin S => items[i] = w.item[i]
                      /\ i \in S => items[i] = put(i)
  BY <1>2
<1> HIDE DEF items
<1>4. \A i \in S : /\ put(i) \in ItemRecord /\ ~put(i).inWorld
                   /\ put(i).state = "INACTIVE" /\ put(i).pickers = {}
  <2> SUFFICES ASSUME NEW i \in S
               PROVE  /\ put(i) \in ItemRecord /\ ~put(i).inWorld
                      /\ put(i).state = "INACTIVE" /\ put(i).pickers = {}
    OBVIOUS
  <2>1. w.item[i].pickers = {} /\ w.item[i].collided \in SUBSET Unit
    BY <1>1 DEF ItemRecord
  <2>2. 0 \in 0..MaxCount
    BY TemplateAssumption
  <2> QED
    BY <2>1, <2>2 DEF NewItem, ItemRecord, Template
<1>5. \A i \in S : ~items[i].inWorld /\ items[i].state = "INACTIVE" /\ items[i].pickers = {}
  BY <1>3, <1>4
<1>6. v \in Worlds
  <2>1. items \in [Item -> ItemRecord]
    BY <1>1, <1>2, <1>3, <1>4
  <2> QED
    BY <1>1, <2>1 DEF Worlds
<1>7. v.unit = w.unit /\ v.item = items
  OBVIOUS
<1>8. Sound(v)
  <2>1. \A i \in S : w.item[i].pickers = {} /\ v.item[i].pickers = {}
    BY <1>5, <1>7
  <2>2. \A i \in Item \ S : v.item[i] = w.item[i]
    BY <1>3, <1>7
  <2> HIDE DEF v
  <2> QED
    BY <1>6, <1>7, <2>1, <2>2, PickedUnchanged
<1> QED
  BY <1>3, <1>5, <1>8 DEF items

\* Nobody picks up anything.
LEMMA IdleSound ==
  ASSUME NEW w \in Worlds, \A u \in Unit : w.unit[u].pickingUp = None,
         \A p \in Player : ~w.unit[p].forbidden, \A i \in Item : w.item[i].pickers = {}
  PROVE  Sound(w)
BY ObjectAssumption DEF Sound, Matched, Present, Refused, Unit

\* The fields of a unit change that picks up nothing.
LEMMA IdleUnitChanged ==
  ASSUME NEW w, Sound(w), NEW u \in Unit, NEW r \in UnitRecord, w.unit[u].pickingUp = None,
         r.pickingUp = None, u \in Player => ~r.forbidden
  PROVE  Sound([unit |-> [w.unit EXCEPT ![u] = r], item |-> w.item])
<1> DEFINE f == [w.unit EXCEPT ![u] = r]
           v == [unit |-> f, item |-> w.item]
<1>1. w.unit \in [Unit -> UnitRecord] /\ w.item \in [Item -> ItemRecord]
  BY DEF Sound, Worlds
<1>2. f[u] = r /\ \A x \in Unit : x # u => f[x] = w.unit[x]
  BY <1>1
<1>3. f \in [Unit -> UnitRecord]
  BY <1>1
<1> HIDE DEF f
<1>4. v \in Worlds /\ v.unit = f /\ v.item = w.item
  BY <1>1, <1>3 DEF Worlds
<1> HIDE DEF v
<1>5. Matched(v)
  <2> SUFFICES ASSUME NEW x \in Unit, NEW i \in Item
               PROVE  x \in v.item[i].pickers <=> v.unit[x].pickingUp = i
    BY DEF Matched
  <2>1. x \in w.item[i].pickers <=> w.unit[x].pickingUp = i
    BY DEF Sound, Matched
  <2> QED
    BY <1>2, <1>4, <2>1
<1>6. Present(v)
  <2> SUFFICES ASSUME NEW x \in Unit, v.unit[x].pickingUp # None
               PROVE  LET q == v.item[v.unit[x].pickingUp] IN
                      /\ v.unit[x].inWorld /\ v.unit[x].alive
                      /\ q.inWorld /\ q.state = "ACTIVE" /\ x \in q.collided
    BY DEF Present
  <2>1. v.unit[x] = w.unit[x]
    BY <1>2, <1>4
  <2> QED
    BY <1>4, <2>1 DEF Sound, Present
<1>7. Refused(v)
  <2> SUFFICES ASSUME NEW p \in Player
               PROVE  v.unit[p].forbidden <=>
                        /\ v.unit[p].pickingUp # None
                        /\ ~CanStoreItem(v.unit[p], v.item[v.unit[p].pickingUp].id)
    BY DEF Refused
  <2>1. CASE p = u
    BY <1>2, <1>4, <2>1
  <2>2. CASE p # u
    <3>1. v.unit[p] = w.unit[p]
      BY <1>2, <1>4, <2>2 DEF Unit
    <3> QED
      BY <1>4, <3>1 DEF Sound, Refused
  <2> QED
    BY <2>1, <2>2
<1> QED
  BY <1>4, <1>5, <1>6, <1>7 DEF Sound, v, f

\* What the items have touched changes, but for those that pick them up.
LEMMA CollidedChanged ==
  ASSUME NEW w, Sound(w), NEW C \in [Item -> SUBSET Unit],
         \A u \in Unit : w.unit[u].pickingUp # None => u \in C[w.unit[u].pickingUp]
  PROVE  Sound([unit |-> w.unit, item |-> [i \in Item |-> [w.item[i] EXCEPT !.collided = C[i]]]])
<1> DEFINE f == [i \in Item |-> [w.item[i] EXCEPT !.collided = C[i]]]
           v == [unit |-> w.unit, item |-> f]
<1>1. w.unit \in [Unit -> UnitRecord] /\ w.item \in [Item -> ItemRecord]
  BY DEF Sound, Worlds
<1>2. \A i \in Item : /\ f[i].inWorld = w.item[i].inWorld /\ f[i].state = w.item[i].state
                      /\ f[i].id = w.item[i].id /\ f[i].pickers = w.item[i].pickers
                      /\ f[i].collided = C[i]
  BY <1>1 DEF ItemRecord
<1>3. f \in [Item -> ItemRecord]
  <2> SUFFICES ASSUME NEW i \in Item PROVE [w.item[i] EXCEPT !.collided = C[i]] \in ItemRecord
    OBVIOUS
  <2>1. w.item[i] \in ItemRecord /\ C[i] \in SUBSET Unit
    BY <1>1
  <2> QED
    BY <2>1 DEF ItemRecord
<1> HIDE DEF f
<1>4. v \in Worlds /\ v.unit = w.unit /\ v.item = f
  BY <1>1, <1>3 DEF Worlds
<1> HIDE DEF v
<1>5. \A u \in Unit : w.unit[u].pickingUp # None => w.unit[u].pickingUp \in Item
  BY <1>1 DEF UnitRecord
<1>6. Matched(v)
  BY <1>2, <1>4 DEF Sound, Matched
<1>7. Present(v)
  <2> SUFFICES ASSUME NEW x \in Unit, v.unit[x].pickingUp # None
               PROVE  LET q == v.item[v.unit[x].pickingUp] IN
                      /\ v.unit[x].inWorld /\ v.unit[x].alive
                      /\ q.inWorld /\ q.state = "ACTIVE" /\ x \in q.collided
    BY DEF Present
  <2>1. LET q == w.item[w.unit[x].pickingUp] IN
        /\ w.unit[x].inWorld /\ w.unit[x].alive /\ q.inWorld /\ q.state = "ACTIVE"
    BY <1>4 DEF Sound, Present
  <2> QED
    BY <1>2, <1>4, <1>5, <2>1
<1>8. Refused(v)
  <2> SUFFICES ASSUME NEW p \in Player
               PROVE  v.unit[p].forbidden <=>
                        /\ v.unit[p].pickingUp # None
                        /\ ~CanStoreItem(v.unit[p], v.item[v.unit[p].pickingUp].id)
    BY DEF Refused
  <2>1. w.unit[p].forbidden <=>
          /\ w.unit[p].pickingUp # None
          /\ ~CanStoreItem(w.unit[p], w.item[w.unit[p].pickingUp].id)
    BY DEF Sound, Refused
  <2>2. w.unit[p].pickingUp # None =>
          v.item[w.unit[p].pickingUp].id = w.item[w.unit[p].pickingUp].id
    BY <1>2, <1>4, <1>5 DEF Unit
  <2> QED
    BY <1>4, <2>1, <2>2
<1> QED
  BY <1>4, <1>6, <1>7, <1>8 DEF Sound, v, f

\* A unit leaves the world.
LEMMA CleanupUnitSound ==
  ASSUME NEW w, Sound(w), NEW u \in Unit
  PROVE  LET v == CleanupUnit(w, u) IN
         /\ Sound(v)
         /\ v.unit[u].pickingUp = None /\ ~v.unit[u].inWorld
         /\ v.unit[u].equip = None /\ v.unit[u].aid = 0
         /\ \A x \in Unit : x # u => v.unit[x] = w.unit[x]
         /\ \A i \in Item : SameItem(v.item[i], w.item[i])
         /\ u \in Player => ~v.unit[u].forbidden
<1> DEFINE s == PickupStop(w, u)
           r == [s.unit[u] EXCEPT !.inWorld = FALSE, !.equip = None, !.aid = 0]
           v == CleanupUnit(w, u)
<1>1. /\ Sound(s)
      /\ s.unit[u].pickingUp = None
      /\ \A x \in Unit : x # u => s.unit[x] = w.unit[x]
      /\ \A i \in Item : SameItem(s.item[i], w.item[i])
  BY PickupStopSound
<1>2. v = [s EXCEPT !.unit[u].inWorld = FALSE, !.unit[u].equip = None, !.unit[u].aid = 0]
  BY DEF CleanupUnit
<1> HIDE DEF s, v
<1>3. /\ s.unit \in [Unit -> UnitRecord] /\ s.item \in [Item -> ItemRecord]
      /\ s = [unit |-> s.unit, item |-> s.item]
  BY <1>1 DEF Sound, Worlds
<1>4. v = [unit |-> [s.unit EXCEPT ![u] = r], item |-> s.item]
  <2> DEFINE a == [s EXCEPT !.unit[u].inWorld = FALSE]
             b == [a EXCEPT !.unit[u].equip = None]
             f == [s.unit EXCEPT ![u].inWorld = FALSE]
             g == [f EXCEPT ![u].equip = None]
  <2>1. a = [unit |-> f, item |-> s.item]
    <3>1. a = [s EXCEPT !.unit = f]
      OBVIOUS
    <3>2. [s EXCEPT !.unit = f] = [unit |-> f, item |-> s.item]
      <4> HIDE DEF f
      <4> QED
        BY <1>3
    <3> QED
      BY <3>1, <3>2
  <2>2. v = [b EXCEPT !.unit[u].aid = 0]
    BY <1>2
  <2>3. b = [unit |-> g, item |-> s.item]
    <3> HIDE DEF a, f
    <3> QED
      BY <2>1
  <2>4. v = [unit |-> [g EXCEPT ![u].aid = 0], item |-> s.item]
    <3> HIDE DEF b, g
    <3> QED
      BY <2>2, <2>3
  <2>5. [g EXCEPT ![u].aid = 0] = [s.unit EXCEPT ![u] = r]
    BY <1>3
  <2> QED
    BY <2>4, <2>5
<1>5. /\ r \in UnitRecord /\ r.pickingUp = None /\ ~r.inWorld /\ r.equip = None /\ r.aid = 0
      /\ r.forbidden = s.unit[u].forbidden
  <2>1. s.unit[u] \in UnitRecord /\ 0 \in 0..Stackable
    BY <1>3, TemplateAssumption
  <2> QED
    BY <1>1, <2>1 DEF UnitRecord
<1>6. u \in Player => ~s.unit[u].forbidden
  BY <1>1 DEF Sound, Refused
<1> HIDE DEF r
<1>7. Sound(v)
  BY <1>1, <1>4, <1>5, <1>6, IdleUnitChanged
<1>8. v.unit[u] = r /\ (\A x \in Unit : x # u => v.unit[x] = s.unit[x]) /\ v.item = s.item
  BY <1>3, <1>4
<1> QED
  BY <1>1, <1>5, <1>6, <1>7, <1>8 DEF v

-----------------------------------------------------------------------------
(***************************************************************************)
(* The inductive invariant: pickups are sound, and the places of robots and *)
(* items, object by object.  Beyond OnePlacePerObject it knows that a unit  *)
(* that has left the world carries nothing, that an item nobody allocated   *)
(* is nowhere, and that moved objects are on their grids before the tests.  *)
(***************************************************************************)
Lists ==
    /\ grid \subseteq Robot \cup Item /\ store \subseteq Robot \cup Item
    /\ toNewGrid \subseteq grid /\ toRemove \subseteq grid
    /\ store \cap grid = {}
    /\ phase \in {"sessions", "update", "notify"}
    /\ phase = "sessions" => toRemove = {}
    /\ phase # "update" => toNewGrid = {}

Places ==
    /\ \A r \in Robot : unit[r].inWorld <=> r \in grid /\ r \notin toRemove
    /\ \A i \in Item : item[i].inWorld <=> i \in grid /\ i \notin toRemove

LeftBehind ==
    /\ \A u \in Unit : ~unit[u].inWorld => unit[u].equip = None /\ unit[u].aid = 0
    /\ \A i \in grid \cap Item : item[i].state # "NONE"

IInv == Sound(World) /\ Lists /\ Places /\ LeftBehind

\* Nobody picks up an item that is not in the world.
LEMMA NotInWorld ==
  ASSUME Sound(World)
  PROVE  /\ \A u \in Unit : ~unit[u].inWorld => unit[u].pickingUp = None
         /\ \A i \in Item : ~item[i].inWorld \/ item[i].state # "ACTIVE" => item[i].pickers = {}
<1>1. ASSUME NEW u \in Unit, ~unit[u].inWorld PROVE unit[u].pickingUp = None
  BY <1>1 DEF World, Sound, Present
<1>2. ASSUME NEW i \in Item, ~item[i].inWorld \/ item[i].state # "ACTIVE", item[i].pickers # {}
      PROVE  FALSE
  <2>1. PICK u \in Unit : u \in item[i].pickers
    BY <1>2 DEF World, Sound, Worlds, ItemRecord
  <2>2. unit[u].pickingUp = i /\ i # None
    BY <2>1, ObjectAssumption DEF World, Sound, Matched
  <2>3. item[i].inWorld /\ item[i].state = "ACTIVE"
    BY <2>2 DEF World, Sound, Present
  <2> QED
    BY <1>2, <2>3
<1> QED
  BY <1>1, <1>2

\* The types of units and items.
LEMMA TypesOfWorld ==
  ASSUME Sound(World)
  PROVE  unit \in [Unit -> UnitRecord] /\ item \in [Item -> ItemRecord]
BY DEF World, Sound, Worlds

\* What the invariant says.
LEMMA Consequences ==
  ASSUME IInv
  PROVE  TypeOK /\ PickingSound /\ ForbiddenIffFull /\ OnePlacePerObject
<1>1. unit \in [Unit -> UnitRecord] /\ item \in [Item -> ItemRecord]
  BY TypesOfWorld DEF IInv
<1>2. TypeOK
  BY <1>1 DEF IInv, Lists, TypeOK
<1>3. PickingSound
  BY DEF IInv, Sound, Matched, Present, World, PickingSound
<1>4. ForbiddenIffFull
  BY DEF IInv, Sound, Refused, World, ForbiddenIffFull
<1>5. Robot \cap Item = {} /\ Robot \subseteq Unit
  BY ObjectAssumption DEF Unit
<1>6. OnePlacePerObject
  <2>1. grid = {r \in Robot : unit[r].inWorld} \cup {i \in Item : item[i].inWorld} \cup toRemove
    BY <1>5 DEF IInv, Lists, Places
  <2>2. \A o \in toRemove : IF o \in Robot THEN ~unit[o].inWorld ELSE ~item[o].inWorld
    BY <1>5 DEF IInv, Lists, Places
  <2>3. \A o \in store :
          IF o \in Robot THEN unit[o].pickingUp = None /\ unit[o].equip = None /\ unit[o].aid = 0
          ELSE item[o].pickers = {}
    <3> SUFFICES ASSUME NEW o \in store
                 PROVE  /\ o \in Robot => /\ unit[o].pickingUp = None
                                          /\ unit[o].equip = None /\ unit[o].aid = 0
                        /\ o \notin Robot => item[o].pickers = {}
      OBVIOUS
    <3>1. CASE o \in Robot
      <4>1. ~unit[o].inWorld
        BY <3>1 DEF IInv, Lists, Places
      <4> QED
        BY <1>5, <3>1, <4>1, NotInWorld DEF IInv, LeftBehind
    <3>2. CASE o \notin Robot
      <4>1. o \in Item /\ ~item[o].inWorld
        BY <3>2 DEF IInv, Lists, Places
      <4> QED
        BY <3>2, <4>1, NotInWorld DEF IInv
    <3> QED
      BY <3>1, <3>2
  <2> QED
    BY <2>1, <2>2, <2>3 DEF IInv, Lists, OnePlacePerObject
<1> QED
  BY <1>2, <1>3, <1>4, <1>6

\* An empty map satisfies the invariant.
LEMMA InitSound ==
  ASSUME Init
  PROVE  IInv
<1>1. \A u \in Unit : unit[u] = [NewUnit EXCEPT !.inWorld = FALSE]
  BY DEF Init
<1>2. \A i \in Item : item[i] = NewItem
  BY DEF Init
<1>3. [NewUnit EXCEPT !.inWorld = FALSE] \in UnitRecord
  <2>1. 0 \in 0..Stackable
    BY TemplateAssumption
  <2> QED
    BY <2>1 DEF NewUnit, UnitRecord
<1>4. NewItem \in ItemRecord
  BY TemplateAssumption DEF NewItem, ItemRecord, Template
<1>5. World \in Worlds
  BY <1>3, <1>4 DEF Init, World, Worlds
<1>6. \A u \in Unit : ~unit[u].inWorld /\ unit[u].pickingUp = None /\ ~unit[u].forbidden
                        /\ unit[u].equip = None /\ unit[u].aid = 0
  BY <1>1 DEF NewUnit
<1>7. \A i \in Item : ~item[i].inWorld /\ item[i].pickers = {}
  BY <1>2 DEF NewItem
<1>8. Sound(World)
  BY <1>5, <1>6, <1>7, ObjectAssumption DEF Sound, Matched, Present, Refused, World, Unit
<1>9. Lists /\ Places /\ LeftBehind
  BY <1>6, <1>7 DEF Init, Lists, Places, LeftBehind, Unit
<1> QED
  BY <1>8, <1>9 DEF IInv

-----------------------------------------------------------------------------
(***************************************************************************)
(* The steps.                                                               *)
(***************************************************************************)

\* Players, robots and items are different objects.
LEMMA DisjointObjects == Robot \cap Item = {} /\ Robot \cap Player = {} /\ Robot \subseteq Unit /\ Player \subseteq Unit
BY ObjectAssumption DEF Unit

\* A player who joins keeps the invariant.
LEMMA JoinStep ==
  ASSUME IInv, NEW p \in Player, JoinBattle(p)
  PROVE  IInv'
<1> DEFINE r == [unit[p] EXCEPT !.inWorld = TRUE]
<1>1. p \in Unit /\ unit[p] \in UnitRecord /\ unit \in [Unit -> UnitRecord]
  BY DisjointObjects, TypesOfWorld DEF IInv
<1>2. unit[p].pickingUp = None
  BY <1>1, NotInWorld DEF IInv, JoinBattle
<1>3. ~unit[p].forbidden
  BY <1>2 DEF IInv, Sound, Refused, World
<1>4. r \in UnitRecord /\ r.pickingUp = None /\ ~r.forbidden /\ r.inWorld
  BY <1>1, <1>2, <1>3 DEF UnitRecord
<1>5. unit' = [unit EXCEPT ![p] = r] /\ item' = item
  BY DEF JoinBattle
<1> HIDE DEF r
<1>6. Sound(World')
  <2>1. Sound([unit |-> [World.unit EXCEPT ![p] = r], item |-> World.item])
    BY <1>1, <1>2, <1>4, IdleUnitChanged DEF IInv, World
  <2> QED
    BY <1>5, <2>1 DEF World
<1>7. unit'[p] = r /\ \A u \in Unit : u # p => unit'[u] = unit[u]
  BY <1>1, <1>5
<1>8. Lists' /\ Places' /\ LeftBehind'
  <2>1. UNCHANGED <<grid, toNewGrid, toRemove, store, phase>>
    BY DEF JoinBattle
  <2> QED
    BY <1>4, <1>5, <1>7, <2>1, DisjointObjects DEF IInv, Lists, Places, LeftBehind
<1> QED
  BY <1>6, <1>8 DEF IInv

\* A player who logs out, perhaps while picking up, keeps the invariant.
LEMMA LogoutStep ==
  ASSUME IInv, NEW p \in Player, LogoutPlayer(p)
  PROVE  IInv'
<1> DEFINE w == CleanupUnit(World, p)
           r == [w.unit[p] EXCEPT !.alive = TRUE]
           x == [unit |-> [w.unit EXCEPT ![p] = r], item |-> w.item]
           C == [i \in Item |-> x.item[i].collided \ {p}]
<1>1. p \in Unit
  BY DisjointObjects
<1>2. /\ Sound(w)
      /\ w.unit[p].pickingUp = None /\ ~w.unit[p].inWorld
      /\ w.unit[p].equip = None /\ w.unit[p].aid = 0
      /\ \A u \in Unit : u # p => w.unit[u] = World.unit[u]
      /\ \A i \in Item : SameItem(w.item[i], World.item[i])
      /\ ~w.unit[p].forbidden
  BY <1>1, CleanupUnitSound DEF IInv
<1> HIDE DEF w
<1>3. w.unit \in [Unit -> UnitRecord] /\ w.item \in [Item -> ItemRecord]
  BY <1>2 DEF Sound, Worlds
<1>4. r \in UnitRecord /\ r.pickingUp = None /\ ~r.forbidden /\ ~r.inWorld /\ r.equip = None /\ r.aid = 0
  BY <1>1, <1>2, <1>3 DEF UnitRecord
<1>5. /\ unit' = [w.unit EXCEPT ![p] = r]
      /\ item' = [i \in Item |-> [w.item[i] EXCEPT !.collided = @ \ {p}]]
  BY <1>3 DEF LogoutPlayer, w
<1> HIDE DEF r
<1>6. Sound(x)
  BY <1>1, <1>2, <1>4, IdleUnitChanged
<1>7. x.unit = [w.unit EXCEPT ![p] = r] /\ x.item = w.item
  OBVIOUS
<1> HIDE DEF x
<1>8. C \in [Item -> SUBSET Unit]
  BY <1>3, <1>7 DEF ItemRecord
<1>9. \A u \in Unit : x.unit[u].pickingUp # None => u \in C[x.unit[u].pickingUp]
  <2> SUFFICES ASSUME NEW u \in Unit, x.unit[u].pickingUp # None
               PROVE  u \in C[x.unit[u].pickingUp]
    OBVIOUS
  <2>1. u # p
    BY <1>1, <1>3, <1>4, <1>7
  <2>2. x.unit[u].pickingUp \in Item /\ u \in x.item[x.unit[u].pickingUp].collided
    BY <1>6 DEF Sound, Present, Worlds, UnitRecord
  <2> QED
    BY <2>1, <2>2
<1>10. Sound(World')
  <2>1. Sound([unit |-> x.unit, item |-> [i \in Item |-> [x.item[i] EXCEPT !.collided = C[i]]]])
    BY <1>6, <1>8, <1>9, CollidedChanged
  <2>2. [i \in Item |-> [x.item[i] EXCEPT !.collided = C[i]]] = item'
    BY <1>5, <1>7
  <2> QED
    BY <1>5, <1>7, <2>1, <2>2 DEF World
<1>11. unit'[p] = r /\ \A u \in Unit : u # p => unit'[u] = unit[u]
  BY <1>1, <1>2, <1>3, <1>5 DEF World
<1>12. \A i \in Item : item'[i].inWorld = item[i].inWorld /\ item'[i].state = item[i].state
  BY <1>2, <1>3, <1>5 DEF World, SameItem, ItemRecord
<1>13. Lists' /\ Places' /\ LeftBehind'
  <2>1. UNCHANGED <<grid, toNewGrid, toRemove, store, phase>>
    BY DEF LogoutPlayer
  <2> QED
    BY <1>4, <1>11, <1>12, <2>1, DisjointObjects DEF IInv, Lists, Places, LeftBehind
<1> QED
  BY <1>10, <1>13 DEF IInv

\* A robot that is added, perhaps a reused one, keeps the invariant.
LEMMA AddRobotStep ==
  ASSUME IInv, NEW o \in Robot, AddRobot(o)
  PROVE  IInv'
<1> DEFINE r == [unit[o] EXCEPT !.inWorld = TRUE, !.alive = TRUE]
<1>1. o \in Unit /\ unit[o] \in UnitRecord /\ unit \in [Unit -> UnitRecord] /\ o \notin Player
  BY DisjointObjects, TypesOfWorld DEF IInv
<1>2. unit[o].pickingUp = None
  BY <1>1, NotInWorld DEF IInv, AddRobot, Places
<1>3. r \in UnitRecord /\ r.pickingUp = None /\ r.inWorld
  BY <1>1, <1>2 DEF UnitRecord
<1>4. unit' = [unit EXCEPT ![o] = r] /\ item' = item
  BY <1>1 DEF AddRobot
<1> HIDE DEF r
<1>5. Sound(World')
  <2>1. Sound([unit |-> [World.unit EXCEPT ![o] = r], item |-> World.item])
    BY <1>1, <1>2, <1>3, IdleUnitChanged DEF IInv, World
  <2> QED
    BY <1>4, <2>1 DEF World
<1>6. unit'[o] = r /\ \A u \in Unit : u # o => unit'[u] = unit[u]
  BY <1>1, <1>4
<1>7. grid' = grid \cup {o} /\ store' = store \ {o} /\ UNCHANGED <<toNewGrid, toRemove, phase>>
  BY DEF AddRobot
<1>8. Lists' /\ Places' /\ LeftBehind'
  <2>1. o \notin toRemove
    BY DEF AddRobot, IInv, Lists
  <2>2. Lists'
    BY <1>7 DEF IInv, Lists
  <2>3. Places'
    BY <1>3, <1>4, <1>6, <1>7, <2>1, DisjointObjects DEF IInv, Places
  <2>4. LeftBehind'
    BY <1>3, <1>4, <1>6, <1>7, DisjointObjects DEF IInv, LeftBehind
  <2> QED
    BY <2>2, <2>3, <2>4
<1> QED
  BY <1>5, <1>8 DEF IInv

\* Items that can be taken are on no grid and nobody picks them up.
LEMMA TakeableItems ==
  ASSUME IInv, NEW D \in Takeable
  PROVE  /\ D \in SUBSET Item
         /\ \A i \in D : /\ i \notin grid /\ i \notin toRemove /\ i \notin toNewGrid
                         /\ ~item[i].inWorld /\ item[i].pickers = {}
<1>1. D \in SUBSET Item
  BY DEF Takeable, Reusable, Unallocated
<1>2. ASSUME NEW i \in D PROVE i \notin grid
  BY <1>1 DEF Takeable, Reusable, Unallocated, IInv, Lists, LeftBehind
<1>3. ASSUME NEW i \in D PROVE ~item[i].inWorld
  BY <1>1, <1>2 DEF IInv, Places
<1> QED
  BY <1>1, <1>2, <1>3, NotInWorld DEF IInv, Lists

\* The command that deletes an object keeps the invariant.
LEMMA DelObjectStep ==
  ASSUME IInv, NEW o \in Robot \cup Item, DelObject(o)
  PROVE  IInv'
<1>1. /\ grid' = grid \ {o} /\ store' = store \cup {o} /\ UNCHANGED <<toNewGrid, toRemove, phase>>
      /\ toNewGrid = {} /\ toRemove = {} /\ phase = "sessions"
  BY DEF DelObject, IInv, Lists
<1>2. Lists'
  BY <1>1 DEF IInv, Lists
<1>3. CASE o \in Robot /\ unit[o].inWorld /\ Becomes(CleanupUnit(World, o))
  <2> DEFINE w == CleanupUnit(World, o)
  <2>1. o \in Unit /\ o \notin Item
    BY <1>3, DisjointObjects
  <2>2. /\ Sound(w)
        /\ ~w.unit[o].inWorld /\ w.unit[o].equip = None /\ w.unit[o].aid = 0
        /\ \A u \in Unit : u # o => w.unit[u] = World.unit[u]
        /\ \A i \in Item : SameItem(w.item[i], World.item[i])
    BY <2>1, CleanupUnitSound DEF IInv
  <2> HIDE DEF w
  <2>3. unit' = w.unit /\ item' = w.item
    BY <1>3 DEF Becomes, w
  <2>4. Sound(World')
    <3>1. w = [unit |-> w.unit, item |-> w.item]
      BY <2>2 DEF Sound, Worlds
    <3> QED
      BY <2>2, <2>3, <3>1 DEF World
  <2>5. Places'
    BY <1>1, <2>1, <2>2, <2>3, DisjointObjects DEF IInv, Places, World, SameItem
  <2>6. LeftBehind'
    BY <1>1, <2>1, <2>2, <2>3, DisjointObjects DEF IInv, LeftBehind, World, SameItem
  <2> QED
    BY <1>2, <2>4, <2>5, <2>6 DEF IInv
<1>4. CASE /\ o \in Item /\ item[o].inWorld
           /\ LET w == CleanupItem(World, o) IN unit' = w.unit /\ item' = Stored(w.item, {o})
  <2> DEFINE w == CleanupItem(World, o)
             items == Stored(w.item, {o})
  <2>1. o \in Item /\ o \notin Robot
    BY <1>4, DisjointObjects
  <2>2. /\ Sound(w)
        /\ \A u \in Unit : SameUnit(w.unit[u], World.unit[u])
        /\ \A i \in Item : i # o => w.item[i] = World.item[i]
        /\ w.item[o] = [World.item[o] EXCEPT !.collided = {}, !.inWorld = FALSE, !.pickers = {}]
    BY <2>1, CleanupItemSound, ZenonT(40) DEF IInv
  <2>3. unit' = w.unit /\ item' = items
    BY <1>4
  <2> HIDE DEF w
  <2>4. {o} \in SUBSET Item /\ \A i \in {o} : w.item[i].pickers = {}
    <3>1. World.item[o] \in ItemRecord
      BY <2>1, TypesOfWorld DEF IInv, World
    <3> QED
      BY <2>1, <2>2, <3>1 DEF ItemRecord
  <2>5. /\ Sound([unit |-> w.unit, item |-> items])
        /\ \A i \in Item \ {o} : items[i] = w.item[i]
        /\ ~items[o].inWorld
    BY <2>2, <2>4, StoredSound
  <2> HIDE DEF items
  <2>6. Sound(World')
    BY <2>3, <2>5 DEF World
  <2>7. Places'
    BY <1>1, <2>1, <2>2, <2>3, <2>5, DisjointObjects DEF IInv, Places, World, SameUnit
  <2>8. LeftBehind'
    BY <1>1, <2>1, <2>2, <2>3, <2>5, DisjointObjects DEF IInv, LeftBehind, World, SameUnit
  <2> QED
    BY <1>2, <2>6, <2>7, <2>8 DEF IInv
<1> QED
  BY <1>3, <1>4 DEF DelObject

\* Items taken from the store are put on the map.
LEMMA TakenSound ==
  ASSUME IInv, NEW D \in Takeable, NEW f, NEW state \in StatesOnMap, \A d \in D : f[d] \in Data
  PROVE  LET v == PutOnMap(World, D, f, state) IN
         /\ Sound(v)
         /\ v.unit = World.unit
         /\ \A i \in Item \ D : v.item[i] = World.item[i]
         /\ \A i \in D : v.item[i].inWorld /\ v.item[i].state = state /\ v.item[i].pickers = {}
<1>1. D \in SUBSET Item /\ \A i \in D : World.item[i].pickers = {}
  BY TakeableItems DEF World
<1>2. Sound(World)
  BY DEF IInv
<1> QED
  BY <1>1, <1>2, PutOnMapSound

\* The common part of the steps that only put items on the map.
LEMMA PutStep ==
  ASSUME IInv, NEW D \in Takeable, NEW f, NEW state \in StatesOnMap,
         \A d \in D : f[d] \in Data,
         Becomes(PutOnMap(World, D, f, state)), phase \in {"sessions", "update"},
         grid' = grid \cup D, store' = store \ D, UNCHANGED <<toNewGrid, toRemove, phase>>
  PROVE  IInv'
<1> DEFINE v == PutOnMap(World, D, f, state)
<1>1. /\ D \in SUBSET Item
      /\ \A i \in D : /\ i \notin grid /\ i \notin toRemove /\ i \notin toNewGrid
                      /\ ~item[i].inWorld /\ item[i].pickers = {}
  BY TakeableItems
<1>2. /\ Sound(v)
      /\ v.unit = World.unit
      /\ \A i \in Item \ D : v.item[i] = World.item[i]
      /\ \A i \in D : v.item[i].inWorld /\ v.item[i].state = state
  BY TakenSound
<1> HIDE DEF v
<1>3. unit' = v.unit /\ item' = v.item
  BY DEF Becomes, v
<1>4. Sound(World')
  <2>1. v = [unit |-> v.unit, item |-> v.item]
    BY <1>2 DEF Sound, Worlds
  <2> QED
    BY <1>2, <1>3, <2>1 DEF World
<1>5. Lists'
  BY <1>1 DEF IInv, Lists
<1>6. Places'
  BY <1>1, <1>2, <1>3, DisjointObjects DEF IInv, Places, World
<1>7. LeftBehind'
  BY <1>1, <1>2, <1>3, DisjointObjects DEF IInv, LeftBehind, World, StatesOnMap
<1> QED
  BY <1>4, <1>5, <1>6, <1>7 DEF IInv

\* The command that drops an item keeps the invariant.
LEMMA DropItemStep ==
  ASSUME IInv, NEW i \in Item, NEW id \in Template, NEW n \in 1..MaxCount, DropItem(i, id, n)
  PROVE  IInv'
<1> DEFINE f == [j \in {i} |-> Dropped(id, n)]
<1>1. \A d \in {i} : f[d] \in Data
  <2>1. n \in 0..MaxCount
    BY TemplateAssumption
  <2> QED
    BY <2>1, DroppedType
<1>2. Becomes(PutOnMap(World, {i}, f, "ACTIVATING"))
  BY DEF DropItem
<1> HIDE DEF f
<1> QED
  BY <1>1, <1>2, PutStep DEF DropItem, StatesOnMap

\* An item of the map that is loaded keeps the invariant.
LEMMA LoadItemStep ==
  ASSUME IInv, NEW i \in Item, NEW id \in Template, NEW n \in 1..MaxCount,
         NEW respawns \in BOOLEAN, LoadItem(i, id, n, respawns)
  PROVE  IInv'
<1> DEFINE f == [j \in {i} |-> [Dropped(id, 0) EXCEPT !.respawns = TRUE]]
           g == [j \in {i} |-> Dropped(id, n)]
<1>1. \A d \in {i} : f[d] \in Data /\ g[d] \in Data
  <2>1. n \in 0..MaxCount /\ 0 \in 0..MaxCount
    BY TemplateAssumption
  <2> QED
    BY <2>1, DroppedType
<1>2. \/ Becomes(PutOnMap(World, {i}, f, "INACTIVE"))
      \/ Becomes(PutOnMap(World, {i}, g, "ACTIVE"))
  BY DEF LoadItem
<1> HIDE DEF f, g
<1>3. CASE Becomes(PutOnMap(World, {i}, f, "INACTIVE"))
  BY <1>1, <1>3, PutStep DEF LoadItem, StatesOnMap
<1>4. CASE Becomes(PutOnMap(World, {i}, g, "ACTIVE"))
  BY <1>1, <1>4, PutStep DEF LoadItem, StatesOnMap
<1> QED
  BY <1>2, <1>3, <1>4

\* The cleanup of all grids keeps the invariant.
LEMMA CleanupStep ==
  ASSUME IInv, CleanupAllGrids
  PROVE  IInv'
<1> DEFINE cleaned(u) == [NewUnit EXCEPT !.inWorld = FALSE, !.alive = unit[u].alive]
           kept == [NewItem EXCEPT !.state = "INACTIVE"]
<1>1. unit \in [Unit -> UnitRecord] /\ item \in [Item -> ItemRecord]
  BY TypesOfWorld DEF IInv
<1>2. /\ unit' = [u \in Unit |-> IF u \in grid THEN cleaned(u) ELSE unit[u]]
      /\ item' = [i \in Item |-> IF i \in grid THEN kept ELSE item[i]]
      /\ grid' = {} /\ store' = store \cup grid /\ UNCHANGED <<toNewGrid, toRemove, phase>>
      /\ toRemove = {} /\ toNewGrid = {}
  BY DEF CleanupAllGrids, IInv, Lists
<1>3. \A u \in Unit : /\ cleaned(u) \in UnitRecord /\ ~cleaned(u).inWorld /\ cleaned(u).pickingUp = None
                      /\ ~cleaned(u).forbidden /\ cleaned(u).equip = None /\ cleaned(u).aid = 0
  <2> SUFFICES ASSUME NEW u \in Unit
               PROVE  /\ cleaned(u) \in UnitRecord /\ ~cleaned(u).inWorld /\ cleaned(u).pickingUp = None
                      /\ ~cleaned(u).forbidden /\ cleaned(u).equip = None /\ cleaned(u).aid = 0
    OBVIOUS
  <2>1. unit[u].alive \in BOOLEAN
    BY <1>1 DEF UnitRecord
  <2>2. 0 \in 0..Stackable
    BY TemplateAssumption
  <2> QED
    BY <2>1, <2>2 DEF NewUnit, UnitRecord
<1>4. kept \in ItemRecord /\ ~kept.inWorld /\ kept.pickers = {}
  <2>1. 0 \in 0..MaxCount
    BY TemplateAssumption
  <2> QED
    BY <2>1 DEF NewItem, ItemRecord, Template
<1>5. \A u \in Unit : u \notin grid =>
        /\ ~unit[u].inWorld /\ unit[u].pickingUp = None /\ unit[u].equip = None /\ unit[u].aid = 0
  <2>1. \A u \in Unit : u \notin grid => ~unit[u].inWorld
    BY DEF CleanupAllGrids, IInv, Places, Unit
  <2> QED
    BY <2>1, NotInWorld DEF IInv, LeftBehind
<1>6. \A i \in Item : i \notin grid => ~item[i].inWorld /\ item[i].pickers = {}
  BY NotInWorld DEF IInv, Places
<1>7. \A p \in Player : unit[p].pickingUp = None => ~unit[p].forbidden
  BY DEF IInv, Sound, Refused, World
<1> HIDE DEF cleaned, kept
<1>8. \A u \in Unit : /\ ~unit'[u].inWorld /\ unit'[u].pickingUp = None
                      /\ unit'[u].equip = None /\ unit'[u].aid = 0
  BY <1>2, <1>3, <1>5
<1>9. \A i \in Item : ~item'[i].inWorld /\ item'[i].pickers = {}
  BY <1>2, <1>4, <1>6
<1>10. \A p \in Player : ~unit'[p].forbidden
  BY <1>2, <1>3, <1>5, <1>7, DisjointObjects
<1>11. Sound(World')
  <2>1. World' \in Worlds
    BY <1>1, <1>2, <1>3, <1>4 DEF World, Worlds
  <2>2. World'.unit = unit' /\ World'.item = item'
    BY DEF World
  <2> QED
    BY <1>8, <1>9, <1>10, <2>1, <2>2, IdleSound
<1>12. Lists' /\ Places' /\ LeftBehind'
  BY <1>2, <1>8, <1>9, DisjointObjects DEF IInv, Lists, Places, LeftBehind
<1> QED
  BY <1>11, <1>12 DEF IInv

\* A robot that withdraws keeps the invariant.
LEMMA WithdrawStep ==
  ASSUME IInv, NEW r \in Robot, WithdrawRobot(r)
  PROVE  IInv'
<1> DEFINE w == CleanupUnit(World, r)
<1>1. r \in Unit
  BY DisjointObjects
<1>2. /\ Sound(w)
      /\ ~w.unit[r].inWorld /\ w.unit[r].equip = None /\ w.unit[r].aid = 0
      /\ \A u \in Unit : u # r => w.unit[u] = World.unit[u]
      /\ \A i \in Item : SameItem(w.item[i], World.item[i])
  BY <1>1, CleanupUnitSound DEF IInv
<1>3. /\ unit' = w.unit /\ item' = w.item
      /\ toRemove' = toRemove \cup {r} /\ UNCHANGED <<grid, toNewGrid, store, phase>>
      /\ phase = "update" /\ r \in grid
  BY DEF WithdrawRobot, Becomes, IInv, Places
<1> HIDE DEF w
<1>4. Sound(World')
  <2>1. w = [unit |-> w.unit, item |-> w.item]
    BY <1>2 DEF Sound, Worlds
  <2> QED
    BY <1>2, <1>3, <2>1 DEF World
<1>5. Lists'
  BY <1>3 DEF IInv, Lists
<1>6. Places'
  BY <1>1, <1>2, <1>3, DisjointObjects DEF IInv, Places, World, SameItem
<1>7. LeftBehind'
  BY <1>1, <1>2, <1>3, DisjointObjects DEF IInv, LeftBehind, World, SameItem
<1> QED
  BY <1>4, <1>5, <1>6, <1>7 DEF IInv

\* The steps that change lists only.
LEMMA ListSteps ==
  ASSUME IInv, BeginUpdate \/ ProcessObjectToNewGridList \/ \E r \in Robot : RelocateRobot(r)
  PROVE  IInv'
<1>1. unit' = unit /\ item' = item /\ toRemove' = toRemove /\ store' = store /\ grid' = grid
  BY DEF BeginUpdate, ProcessObjectToNewGridList, RelocateRobot, IInv, Lists
<1>2. Sound(World')
  BY <1>1 DEF IInv, World
<1>3. Lists'
  BY <1>1 DEF IInv, Lists, Places, BeginUpdate, ProcessObjectToNewGridList, RelocateRobot
<1>4. Places' /\ LeftBehind'
  BY <1>1 DEF IInv, Places, LeftBehind
<1> QED
  BY <1>2, <1>3, <1>4 DEF IInv

\* The removal of the listed objects into the store keeps the invariant.
LEMMA RemoveListStep ==
  ASSUME IInv, ProcessObjectRemoveList
  PROVE  IInv'
<1> DEFINE S == toRemove \cap Item
           items == Stored(item, S)
<1>1. /\ S \in SUBSET Item /\ World.item = item /\ World.unit = unit
      /\ \A i \in S : World.item[i].pickers = {}
  BY NotInWorld DEF IInv, Places, World
<1>2. /\ Sound([unit |-> unit, item |-> items])
      /\ \A i \in Item \ S : items[i] = item[i]
      /\ \A i \in S : ~items[i].inWorld
  <2> HIDE DEF S
  <2> QED
    BY <1>1, StoredSound DEF IInv
<1>3. /\ unit' = unit /\ item' = items /\ toNewGrid' = toNewGrid
      /\ phase = "notify" /\ phase' = "sessions" /\ toRemove' = {}
      /\ grid' = grid \ toRemove /\ store' = store \cup toRemove
  BY DEF ProcessObjectRemoveList
<1> HIDE DEF items
<1>4. Sound(World')
  BY <1>2, <1>3 DEF World
<1>5. Lists'
  BY <1>3 DEF IInv, Lists
<1>6. Places'
  BY <1>2, <1>3, DisjointObjects DEF IInv, Places, Lists
<1>7. LeftBehind'
  BY <1>2, <1>3, DisjointObjects DEF IInv, LeftBehind, Lists
<1> QED
  BY <1>4, <1>5, <1>6, <1>7 DEF IInv

\* activate() and respawn() of an item that nobody picks up yet.
LEMMA ActivateStep ==
  ASSUME IInv, NEW i \in Item, Activate(i) \/ \E n \in 1..MaxCount : Respawn(i, n)
  PROVE  IInv'
<1>1. unit \in [Unit -> UnitRecord] /\ item \in [Item -> ItemRecord] /\ item[i] \in ItemRecord
  BY TypesOfWorld DEF IInv
<1>2. PICK m \in 0..MaxCount : item' = [item EXCEPT ![i].state = "ACTIVE", ![i].n = m]
  <2>1. CASE Activate(i)
    <3>1. item' = [item EXCEPT ![i].state = "ACTIVE", ![i].n = item[i].n]
      BY <1>1, <2>1 DEF Activate, ItemRecord
    <3>2. item[i].n \in 0..MaxCount
      BY <1>1 DEF ItemRecord
    <3> QED
      BY <3>1, <3>2
  <2>2. CASE \E n \in 1..MaxCount : Respawn(i, n)
    <3>1. PICK n \in 1..MaxCount : Respawn(i, n)
      BY <2>2
    <3>2. n \in 0..MaxCount /\ item[i].id \in Template
      BY <1>1, TemplateAssumption DEF ItemRecord
    <3>3. Dropped(item[i].id, n).n \in 0..MaxCount
      BY <3>2, DroppedType DEF Data
    <3> QED
      BY <3>1, <3>3 DEF Respawn
  <2> QED
    BY <2>1, <2>2
<1> DEFINE r == [item[i] EXCEPT !.state = "ACTIVE", !.n = m]
<1>3. /\ unit' = unit /\ item[i].inWorld /\ item[i].state # "ACTIVE"
      /\ UNCHANGED <<grid, toNewGrid, toRemove, store, phase>>
  BY DEF Activate, Respawn
<1>4. item[i].pickers = {}
  BY <1>3, NotInWorld DEF IInv
<1>5. r \in ItemRecord /\ r.inWorld /\ r.pickers = {} /\ r.state = "ACTIVE"
  BY <1>1, <1>3, <1>4 DEF ItemRecord
<1>6. item' = [item EXCEPT ![i] = r]
  BY <1>1, <1>2
<1> HIDE DEF r
<1>7. item'[i] = r /\ \A j \in Item : j # i => item'[j] = item[j]
  BY <1>1, <1>6
<1>8. Sound(World')
  <2>1. World' \in Worlds
    BY <1>1, <1>3, <1>5, <1>6 DEF World, Worlds
  <2>2. /\ World'.unit = World.unit /\ {i} \in SUBSET Item /\ Sound(World)
        /\ \A j \in {i} : World.item[j].pickers = {} /\ World'.item[j].pickers = {}
        /\ \A j \in Item \ {i} : World'.item[j] = World.item[j]
    BY <1>3, <1>4, <1>5, <1>7 DEF World, IInv
  <2> QED
    BY <2>1, <2>2, PickedUnchanged
<1>9. Lists' /\ Places' /\ LeftBehind'
  BY <1>3, <1>5, <1>7 DEF IInv, Lists, Places, LeftBehind
<1> QED
  BY <1>8, <1>9 DEF IInv

\* A unit that is there starts to pick up an active item it touches.
LEMMA PickupSound ==
  ASSUME NEW w, Sound(w), NEW u \in Unit, NEW i \in Item,
         w.unit[u].inWorld, w.unit[u].alive,
         w.item[i].inWorld, w.item[i].state = "ACTIVE", u \in w.item[i].collided
  PROVE  LET v == Pickup(w, u, i) IN
         /\ Sound(v)
         /\ \A x \in Unit : SameUnit(v.unit[x], w.unit[x])
         /\ \A j \in Item : SameItem(v.item[j], w.item[j])
<1> DEFINE v == Pickup(w, u, i)
           b == u \in Player /\ ~CanStoreItem(w.unit[u], w.item[i].id)
           r == [w.unit[u] EXCEPT !.pickingUp = i, !.forbidden = b]
           q(j) == IF j = i THEN [w.item[j] EXCEPT !.pickers = @ \cup {u}]
                   ELSE IF j = w.unit[u].pickingUp THEN [w.item[j] EXCEPT !.pickers = @ \ {u}]
                   ELSE w.item[j]
<1>1. w.unit \in [Unit -> UnitRecord] /\ w.item \in [Item -> ItemRecord]
  BY DEF Sound, Worlds
<1>2. /\ v.unit = [w.unit EXCEPT ![u].pickingUp = i, ![u].forbidden = b]
      /\ v.item = [j \in Item |-> q(j)]
      /\ v = [unit |-> v.unit, item |-> v.item]
  BY DEF Pickup
<1>b. b \in BOOLEAN
  OBVIOUS
<1> HIDE DEF v, b
<1>3. v.unit[u] = r /\ \A x \in Unit : x # u => v.unit[x] = w.unit[x]
  <2>1. v.unit = [w.unit EXCEPT ![u].pickingUp = i, ![u].forbidden = b]
    BY <1>2
  <2> QED
    BY <1>1, <2>1
<1>4. r \in UnitRecord /\ SameUnit(r, w.unit[u]) /\ r.pickingUp = i /\ r.forbidden = b
  <2>1. w.unit[u] \in UnitRecord
    BY <1>1
  <2> QED
    BY <1>b, <2>1 DEF UnitRecord, SameUnit
<1> HIDE DEF r
<1>5. \A j \in Item : /\ q(j) \in ItemRecord /\ SameItem(q(j), w.item[j])
                      /\ q(j).pickers = IF j = i THEN w.item[j].pickers \cup {u}
                                        ELSE w.item[j].pickers \ {u}
  <2> SUFFICES ASSUME NEW j \in Item
               PROVE  /\ q(j) \in ItemRecord /\ SameItem(q(j), w.item[j])
                      /\ q(j).pickers = IF j = i THEN w.item[j].pickers \cup {u}
                                        ELSE w.item[j].pickers \ {u}
    OBVIOUS
  <2>1. w.item[j] \in ItemRecord
    BY <1>1
  <2>2. w.item[j].pickers \cup {u} \in SUBSET Unit /\ w.item[j].pickers \ {u} \in SUBSET Unit
    BY <2>1 DEF ItemRecord
  <2>3. j # w.unit[u].pickingUp => w.item[j].pickers \ {u} = w.item[j].pickers
    BY DEF Sound, Matched
  <2>4. CASE j = i
    BY <2>1, <2>2, <2>4 DEF ItemRecord, SameItem
  <2>5. CASE j # i /\ j = w.unit[u].pickingUp
    BY <2>1, <2>2, <2>5 DEF ItemRecord, SameItem
  <2>6. CASE j # i /\ j # w.unit[u].pickingUp
    BY <2>1, <2>3, <2>6 DEF SameItem
  <2> QED
    BY <2>4, <2>5, <2>6
<1>6. \A j \in Item : /\ v.item[j] = q(j) /\ SameItem(v.item[j], w.item[j])
                      /\ v.item[j].pickers = IF j = i THEN w.item[j].pickers \cup {u}
                                             ELSE w.item[j].pickers \ {u}
  <2>1. \A j \in Item : v.item[j] = q(j)
    BY <1>2
  <2> HIDE DEF q
  <2> QED
    BY <1>5, <2>1
<1> HIDE DEF q
<1>7. v \in Worlds
  <2>1. v.unit = [x \in Unit |-> IF x = u THEN r ELSE w.unit[x]]
    BY <1>1, <1>2, <1>3
  <2>2. v.unit \in [Unit -> UnitRecord]
    BY <1>1, <1>4, <2>1
  <2>3. v.item \in [Item -> ItemRecord]
    <3>1. v.item = [j \in Item |-> q(j)]
      BY <1>2
    <3>2. \A j \in Item : q(j) \in ItemRecord
      BY <1>5
    <3> QED
      BY <3>1, <3>2
  <2> QED
    BY <1>2, <2>2, <2>3 DEF Worlds
<1>8. Matched(v)
  <2> SUFFICES ASSUME NEW x \in Unit, NEW j \in Item
               PROVE  x \in v.item[j].pickers <=> v.unit[x].pickingUp = j
    BY DEF Matched
  <2>1. x \in w.item[j].pickers <=> w.unit[x].pickingUp = j
    BY DEF Sound, Matched
  <2>2. CASE x = u
    BY <1>3, <1>4, <1>6, <2>2, ZenonT(40)
  <2>3. CASE x # u
    <3>1. v.unit[x].pickingUp = w.unit[x].pickingUp
      BY <1>3, <2>3
    <3>2. v.item[j].pickers = IF j = i THEN w.item[j].pickers \cup {u} ELSE w.item[j].pickers \ {u}
      BY <1>6
    <3>3. x \in v.item[j].pickers <=> x \in w.item[j].pickers
      BY <2>3, <3>2
    <3> QED
      BY <2>1, <3>1, <3>3
  <2> QED
    BY <2>2, <2>3
<1>9. Present(v)
  <2> SUFFICES ASSUME NEW x \in Unit, v.unit[x].pickingUp # None
               PROVE  LET p == v.item[v.unit[x].pickingUp] IN
                      /\ v.unit[x].inWorld /\ v.unit[x].alive
                      /\ p.inWorld /\ p.state = "ACTIVE" /\ x \in p.collided
    BY DEF Present
  <2>1. CASE x = u
    BY <1>3, <1>4, <1>6, <2>1 DEF SameUnit, SameItem
  <2>2. CASE x # u
    <3>1. v.unit[x] = w.unit[x] /\ w.unit[x].pickingUp \in Item
      BY <1>1, <1>3, <2>2 DEF UnitRecord
    <3> QED
      <4> DEFINE k == w.unit[x].pickingUp
      <4>1. SameItem(v.item[k], w.item[k])
        BY <1>6, <3>1
      <4>2. /\ w.unit[x].inWorld /\ w.unit[x].alive
            /\ w.item[k].inWorld /\ w.item[k].state = "ACTIVE" /\ x \in w.item[k].collided
        BY <3>1 DEF Sound, Present
      <4> QED
        BY <3>1, <4>1, <4>2 DEF SameItem
  <2> QED
    BY <2>1, <2>2
<1>10. Refused(v)
  <2> SUFFICES ASSUME NEW p \in Player
               PROVE  v.unit[p].forbidden <=>
                        /\ v.unit[p].pickingUp # None
                        /\ ~CanStoreItem(v.unit[p], v.item[v.unit[p].pickingUp].id)
    BY DEF Refused
  <2>1. CASE p = u
    <3>1. v.item[i].id = w.item[i].id /\ i # None
      BY <1>6, ObjectAssumption DEF SameItem
    <3>2. CanStoreItem(r, w.item[i].id) <=> CanStoreItem(w.unit[u], w.item[i].id)
      BY <1>4 DEF CanStoreItem, SameUnit
    <3> QED
      BY <1>3, <1>4, <2>1, <3>1, <3>2 DEF b
  <2>2. CASE p # u
    <3>1. p \in Unit /\ v.unit[p] = w.unit[p]
      BY <1>3, <2>2 DEF Unit
    <3>2. w.unit[p].pickingUp # None => w.unit[p].pickingUp \in Item
      BY <1>1, <3>1 DEF UnitRecord
    <3> QED
      BY <1>6, <3>1, <3>2, ZenonT(40) DEF Sound, Refused, SameItem
  <2> QED
    BY <2>1, <2>2
<1>11. \A x \in Unit : SameUnit(v.unit[x], w.unit[x])
  BY <1>3, <1>4 DEF SameUnit
<1>12. \A j \in Item : SameItem(v.item[j], w.item[j])
  BY <1>6
<1> QED
  BY <1>7, <1>8, <1>9, <1>10, <1>11, <1>12 DEF Sound, v

\* Who is on the map and where, the collided objects aside.
SamePlaces(w) ==
    /\ \A u \in Unit : SameUnit(w.unit[u], unit[u])
    /\ \A i \in Item : w.item[i].inWorld = item[i].inWorld /\ w.item[i].state = item[i].state

\* The invariant after a step that changes pickups only.
LEMMA PickupsOnly ==
  ASSUME IInv, NEW w, Sound(w), Becomes(w), SamePlaces(w),
         UNCHANGED <<grid, toNewGrid, toRemove, store, phase>>
  PROVE  IInv'
<1>1. unit' = w.unit /\ item' = w.item
  BY DEF Becomes
<1>2. Sound(World')
  <2>1. w = [unit |-> w.unit, item |-> w.item]
    BY DEF Sound, Worlds
  <2> QED
    BY <1>1, <2>1 DEF World
<1>3. Lists'
  BY DEF IInv, Lists
<1>4. Places'
  BY <1>1, DisjointObjects DEF IInv, Places, SamePlaces, SameUnit
<1>5. LeftBehind'
  BY <1>1 DEF IInv, LeftBehind, SamePlaces, SameUnit
<1> QED
  BY <1>2, <1>3, <1>4, <1>5 DEF IInv

\* A unit touches an item, or an item it does not pick up forgets it.
Collided(w, i, C) == [w EXCEPT !.item[i].collided = C]

\* The units that touch an item change, but not below those that pick it up.
LEMMA OneCollided ==
  ASSUME NEW w, Sound(w), NEW i \in Item, NEW C \in SUBSET Unit,
         \A u \in Unit : w.unit[u].pickingUp = i => u \in C
  PROVE  LET v == Collided(w, i, C) IN
         /\ v = [unit |-> w.unit, item |-> [w.item EXCEPT ![i].collided = C]]
         /\ Sound(v)
         /\ v.unit = w.unit
         /\ v.item[i].collided = C
         /\ \A j \in Item : /\ v.item[j].inWorld = w.item[j].inWorld
                            /\ v.item[j].state = w.item[j].state
                            /\ v.item[j].pickers = w.item[j].pickers
<1> DEFINE v == Collided(w, i, C)
           f == [w.item EXCEPT ![i].collided = C]
           c == [j \in Item |-> IF j = i THEN C ELSE w.item[j].collided]
<1>1. w.unit \in [Unit -> UnitRecord] /\ w.item \in [Item -> ItemRecord]
      /\ w = [unit |-> w.unit, item |-> w.item]
  BY DEF Sound, Worlds
<1>2. v = [unit |-> w.unit, item |-> f]
  <2>1. v = [w EXCEPT !.item = f]
    BY DEF Collided
  <2> HIDE DEF f, v
  <2> QED
    BY <1>1, <2>1
<1>3. f = [j \in Item |-> [w.item[j] EXCEPT !.collided = c[j]]]
  <2>1. \A j \in Item : j # i => [w.item[j] EXCEPT !.collided = w.item[j].collided] = w.item[j]
    BY <1>1 DEF ItemRecord
  <2> QED
    BY <1>1, <2>1
<1>4. c \in [Item -> SUBSET Unit]
  <2>1. \A j \in Item : w.item[j].collided \in SUBSET Unit
    BY <1>1 DEF ItemRecord
  <2> QED
    BY <2>1
<1>5. \A u \in Unit : w.unit[u].pickingUp # None => u \in c[w.unit[u].pickingUp]
  <2> SUFFICES ASSUME NEW u \in Unit, w.unit[u].pickingUp # None
               PROVE  u \in c[w.unit[u].pickingUp]
    OBVIOUS
  <2>1. w.unit[u].pickingUp \in Item /\ u \in w.item[w.unit[u].pickingUp].collided
    BY <1>1 DEF Sound, Present, UnitRecord
  <2> QED
    BY <2>1
<1>6. Sound([unit |-> w.unit, item |-> [j \in Item |-> [w.item[j] EXCEPT !.collided = c[j]]]])
  <2> HIDE DEF c
  <2> QED
    BY <1>4, <1>5, CollidedChanged
<1>7. \A j \in Item : /\ f[j].inWorld = w.item[j].inWorld /\ f[j].state = w.item[j].state
                      /\ f[j].pickers = w.item[j].pickers
  BY <1>1 DEF ItemRecord
<1>8. f[i].collided = C
  BY <1>1 DEF ItemRecord
<1> HIDE DEF f, v
<1>9. v.unit = w.unit /\ v.item = f
  BY <1>2
<1>10. Sound(v)
  BY <1>2, <1>3, <1>6
<1> QED
  BY <1>2, <1>7, <1>8, <1>9, <1>10 DEF v, f

\* A unit that begins to touch an item, and may pick it up, keeps the invariant.
LEMMA TouchStep ==
  ASSUME IInv, NEW u \in Unit, NEW i \in Item, Touch(u, i)
  PROVE  IInv'
<1> DEFINE C == item[i].collided \cup {u}
           t == Collided(World, i, C)
<1>1. unit \in [Unit -> UnitRecord] /\ item \in [Item -> ItemRecord] /\ item[i] \in ItemRecord
  BY TypesOfWorld DEF IInv
<1>2. /\ Sound(World) /\ C \in SUBSET Unit
      /\ \A x \in Unit : World.unit[x].pickingUp = i => x \in C
  BY <1>1, ObjectAssumption DEF IInv, Sound, Present, World, ItemRecord
<1>3. t = [World EXCEPT !.item[i].collided = @ \cup {u}]
  BY DEF World, Collided
<1> HIDE DEF C
<1>4. /\ Sound(t)
      /\ t.unit = World.unit
      /\ t.item[i].collided = C
      /\ \A j \in Item : t.item[j].inWorld = World.item[j].inWorld /\ t.item[j].state = World.item[j].state
  BY <1>2, OneCollided
<1>5. u \in t.item[i].collided
  BY <1>4 DEF C
<1>6. /\ \/ CanPickup(u, i) /\ Becomes(Pickup(t, u, i))
         \/ Becomes(t)
      /\ CanDetect(i, u)
      /\ UNCHANGED <<grid, toNewGrid, toRemove, store, phase>>
  BY <1>3 DEF Touch
<1> HIDE DEF t
<1>7. SamePlaces(t)
  BY <1>4 DEF SamePlaces, World, SameUnit
<1>8. CASE Becomes(t)
  BY <1>4, <1>6, <1>7, <1>8, PickupsOnly
<1>9. CASE CanPickup(u, i) /\ Becomes(Pickup(t, u, i))
  <2>1. /\ t.unit[u].inWorld /\ t.unit[u].alive
        /\ t.item[i].inWorld /\ t.item[i].state = "ACTIVE"
    BY <1>4, <1>6, <1>9 DEF CanPickup, CanDetect, World
  <2>2. /\ Sound(Pickup(t, u, i))
        /\ \A x \in Unit : SameUnit(Pickup(t, u, i).unit[x], t.unit[x])
        /\ \A j \in Item : SameItem(Pickup(t, u, i).item[j], t.item[j])
    BY <1>4, <1>5, <2>1, PickupSound
  <2>3. SamePlaces(Pickup(t, u, i))
    BY <1>7, <2>2 DEF SamePlaces, SameUnit, SameItem
  <2> QED
    BY <1>6, <1>9, <2>2, <2>3, PickupsOnly
<1> QED
  BY <1>6, <1>8, <1>9

\* A unit that leaves an item, and stops picking it up, keeps the invariant.
LEMMA LeaveStep ==
  ASSUME IInv, NEW u \in Unit, NEW i \in Item, Leave(u, i)
  PROVE  IInv'
<1> DEFINE C == item[i].collided \ {u}
           left == Collided(World, i, C)
           s == PickupStop(World, u)
<1>1. unit \in [Unit -> UnitRecord] /\ item \in [Item -> ItemRecord] /\ item[i] \in ItemRecord
      /\ Sound(World)
  BY TypesOfWorld DEF IInv
<1>2. C \in SUBSET Unit
  BY <1>1 DEF ItemRecord
<1>3. \A x \in Unit : unit[x].pickingUp = i /\ x # u => x \in C
  BY <1>1, ObjectAssumption DEF Sound, Present, World
<1>4. left = [World EXCEPT !.item[i].collided = @ \ {u}]
  BY DEF World, Collided
<1>5. /\ Becomes(IF unit[u].pickingUp = i THEN PickupStop(left, u) ELSE left)
      /\ UNCHANGED <<grid, toNewGrid, toRemove, store, phase>>
  BY <1>4 DEF Leave
<1> HIDE DEF C
<1>6. CASE unit[u].pickingUp # i
  <2>1. \A x \in Unit : World.unit[x].pickingUp = i => x \in C
    BY <1>3, <1>6 DEF World
  <2>2. /\ Sound(left)
        /\ left.unit = World.unit
        /\ \A j \in Item : /\ left.item[j].inWorld = World.item[j].inWorld
                           /\ left.item[j].state = World.item[j].state
    BY <1>1, <1>2, <2>1, OneCollided
  <2>3. SamePlaces(left)
    BY <2>2 DEF SamePlaces, World, SameUnit
  <2>4. Becomes(left)
    BY <1>5, <1>6
  <2> HIDE DEF left
  <2> QED
    BY <1>5, <2>2, <2>3, <2>4, PickupsOnly
<1>7. CASE unit[u].pickingUp = i
  <2>1. /\ Sound(s) /\ s.unit[u].pickingUp = None
        /\ \A x \in Unit : x # u => s.unit[x] = World.unit[x]
        /\ SameUnit(s.unit[u], World.unit[u])
        /\ \A j \in Item : SameItem(s.item[j], World.item[j])
    BY <1>1, PickupStopSound
  <2>2. i # None
    BY ObjectAssumption
  <2> DEFINE f == [item EXCEPT ![i].collided = C]
             g == [unit EXCEPT ![u].pickingUp = None, ![u].forbidden = FALSE]
             h == [item EXCEPT ![i].pickers = @ \ {u}]
  <2>3. left = [unit |-> unit, item |-> f]
    <3>1. left = [World EXCEPT !.item = f]
      BY DEF Collided, World
    <3> HIDE DEF f, left
    <3> QED
      BY <3>1 DEF World
  <2>4. PickupStop(left, u) = [unit |-> g, item |-> [f EXCEPT ![i].pickers = @ \ {u}]]
    <3> HIDE DEF f, left
    <3>1. left.unit = unit /\ left.item = f
      BY <2>3
    <3> QED
      BY <1>7, <2>2, <3>1 DEF PickupStop
  <2>5. s = [unit |-> g, item |-> h]
    BY <1>7, <2>2 DEF PickupStop, World
  <2>6. Collided(s, i, C) = [unit |-> g, item |-> [h EXCEPT ![i].collided = C]]
    <3>1. Collided(s, i, C) = [s EXCEPT !.item = [s.item EXCEPT ![i].collided = C]]
      BY DEF Collided
    <3>2. s.item = h /\ s.unit = g
      BY <2>5
    <3> HIDE DEF s, g, h
    <3> QED
      BY <2>5, <3>1, <3>2
  <2>7. [f EXCEPT ![i].pickers = @ \ {u}] = [h EXCEPT ![i].collided = C]
    <3> DEFINE P == item[i].pickers \ {u}
               a == [item[i] EXCEPT !.collided = C]
               b == [item[i] EXCEPT !.pickers = P]
               c == [item[i] EXCEPT !.collided = C, !.pickers = P]
    <3>1. a.pickers = item[i].pickers /\ [a EXCEPT !.pickers = P] = c /\ [b EXCEPT !.collided = C] = c
      BY <1>1 DEF ItemRecord
    <3>2. f = [item EXCEPT ![i] = a]
      BY <1>1
    <3>3. h = [item EXCEPT ![i] = b]
      BY <1>1
    <3> HIDE DEF f, h, a, b, c
    <3>4. f[i] = a /\ h[i] = b
      BY <1>1, <3>2, <3>3
    <3>5. [f EXCEPT ![i].pickers = @ \ {u}] = [item EXCEPT ![i] = c]
      BY <1>1, <3>1, <3>2, <3>4
    <3>6. [h EXCEPT ![i].collided = C] = [item EXCEPT ![i] = c]
      BY <1>1, <3>1, <3>3, <3>4
    <3> QED
      BY <3>5, <3>6
  <2>8. PickupStop(left, u) = Collided(s, i, C)
    BY <2>4, <2>6, <2>7
  <2>9. Becomes(Collided(s, i, C))
    BY <1>5, <1>7, <2>8
  <2> HIDE DEF s
  <2>10. \A x \in Unit : s.unit[x].pickingUp = i => x \in C
    BY <1>3, <2>1, <2>2 DEF World
  <2>11. /\ Sound(Collided(s, i, C))
         /\ Collided(s, i, C).unit = s.unit
         /\ \A j \in Item : /\ Collided(s, i, C).item[j].inWorld = s.item[j].inWorld
                            /\ Collided(s, i, C).item[j].state = s.item[j].state
    BY <1>2, <2>1, <2>10, OneCollided
  <2>12. SamePlaces(Collided(s, i, C))
    BY <2>1, <2>11 DEF SamePlaces, World, SameUnit, SameItem
  <2> QED
    BY <1>5, <2>9, <2>11, <2>12, PickupsOnly
<1> QED
  BY <1>6, <1>7

\* A unit that is not refused uses up a first aid.
LEMMA AidTaken ==
  ASSUME NEW w, Sound(w), NEW u \in Unit, w.unit[u].aid > 0, u \in Player => ~w.unit[u].forbidden
  PROVE  Sound([unit |-> [w.unit EXCEPT ![u].aid = @ - 1], item |-> w.item])
<1> DEFINE r == [w.unit[u] EXCEPT !.aid = @ - 1]
           f == [w.unit EXCEPT ![u].aid = @ - 1]
           v == [unit |-> f, item |-> w.item]
<1>1. w.unit \in [Unit -> UnitRecord] /\ w.item \in [Item -> ItemRecord] /\ w.unit[u] \in UnitRecord
  BY DEF Sound, Worlds
<1>2. f[u] = r /\ \A x \in Unit : x # u => f[x] = w.unit[x]
  BY <1>1
<1>3. /\ r \in UnitRecord /\ r.pickingUp = w.unit[u].pickingUp /\ r.forbidden = w.unit[u].forbidden
      /\ r.inWorld = w.unit[u].inWorld /\ r.alive = w.unit[u].alive /\ r.equip = w.unit[u].equip
      /\ r.aid = w.unit[u].aid - 1
  <2>1. w.unit[u].aid \in 0..Stackable /\ Stackable \in Nat
    BY <1>1, TemplateAssumption DEF UnitRecord
  <2>2. w.unit[u].aid - 1 \in 0..Stackable
    BY <2>1
  <2> QED
    BY <1>1, <2>2 DEF UnitRecord
<1>4. f = [x \in Unit |-> IF x = u THEN r ELSE w.unit[x]]
  BY <1>1
<1> HIDE DEF r, f
<1>5. f \in [Unit -> UnitRecord]
  BY <1>1, <1>3, <1>4
<1>6. v \in Worlds /\ v.unit = f /\ v.item = w.item
  BY <1>1, <1>5 DEF Worlds
<1> HIDE DEF v
<1>7. Matched(v)
  <2> SUFFICES ASSUME NEW x \in Unit, NEW i \in Item
               PROVE  x \in v.item[i].pickers <=> v.unit[x].pickingUp = i
    BY DEF Matched
  <2>1. x \in w.item[i].pickers <=> w.unit[x].pickingUp = i
    BY DEF Sound, Matched
  <2> QED
    BY <1>2, <1>3, <1>6, <2>1
<1>8. Present(v)
  <2> SUFFICES ASSUME NEW x \in Unit, v.unit[x].pickingUp # None
               PROVE  LET q == v.item[v.unit[x].pickingUp] IN
                      /\ v.unit[x].inWorld /\ v.unit[x].alive
                      /\ q.inWorld /\ q.state = "ACTIVE" /\ x \in q.collided
    BY DEF Present
  <2>1. /\ v.unit[x].pickingUp = w.unit[x].pickingUp
        /\ v.unit[x].inWorld = w.unit[x].inWorld /\ v.unit[x].alive = w.unit[x].alive
    BY <1>2, <1>3, <1>6
  <2> QED
    BY <1>6, <2>1 DEF Sound, Present
<1>9. Refused(v)
  <2> SUFFICES ASSUME NEW p \in Player
               PROVE  v.unit[p].forbidden <=>
                        /\ v.unit[p].pickingUp # None
                        /\ ~CanStoreItem(v.unit[p], v.item[v.unit[p].pickingUp].id)
    BY DEF Refused
  <2>1. w.unit[p].forbidden <=>
          /\ w.unit[p].pickingUp # None
          /\ ~CanStoreItem(w.unit[p], w.item[w.unit[p].pickingUp].id)
    BY DEF Sound, Refused
  <2>2. CASE p = u
    <3>1. ~w.unit[u].forbidden
      BY <2>2
    <3>2. w.unit[u].aid \in Nat /\ Stackable \in Nat
      BY <1>1, TemplateAssumption DEF UnitRecord
    <3>3. \A id : CanStoreItem(w.unit[u], id) => CanStoreItem(r, id)
      BY <1>3, <3>2 DEF CanStoreItem
    <3> QED
      BY <1>2, <1>3, <1>6, <2>1, <2>2, <3>1, <3>3
  <2>3. CASE p # u
    <3>1. v.unit[p] = w.unit[p]
      BY <1>2, <1>6, <2>3 DEF Unit
    <3> QED
      BY <1>6, <2>1, <3>1
  <2> QED
    BY <2>2, <2>3
<1> QED
  BY <1>6, <1>7, <1>8, <1>9 DEF Sound, v, f

\* An item that is used up, which may end a refusal, keeps the invariant.
LEMMA UseItemStep ==
  ASSUME IInv, NEW u \in Unit, UseItem(u)
  PROVE  IInv'
<1> DEFINE g == [unit EXCEPT ![u].aid = @ - 1]
           taken == [World EXCEPT !.unit[u].aid = @ - 1]
           s == PickupStop(World, u)
<1>1. unit \in [Unit -> UnitRecord] /\ item \in [Item -> ItemRecord] /\ unit[u] \in UnitRecord
      /\ Sound(World) /\ World.unit = unit /\ World.item = item
  BY TypesOfWorld DEF IInv, World
<1>2. taken = [unit |-> g, item |-> item]
  <2>1. taken = [World EXCEPT !.unit = g]
    BY DEF World
  <2> HIDE DEF taken, g
  <2> QED
    BY <2>1 DEF World
<1>3. /\ unit[u].inWorld /\ unit[u].aid > 0
      /\ Becomes(IF u \in Player /\ unit[u].forbidden THEN PickupStop(taken, u) ELSE taken)
      /\ UNCHANGED <<grid, toNewGrid, toRemove, store, phase>>
  BY DEF UseItem, TakeItem, World
<1>4. unit[u].aid - 1 \in 0..Stackable
  BY <1>1, <1>3, TemplateAssumption DEF UnitRecord
<1> SUFFICES /\ Sound(World')
             /\ \A x \in Unit : /\ unit'[x].inWorld = unit[x].inWorld
                                /\ x # u => SameUnit(unit'[x], unit[x])
             /\ \A i \in Item : SameItem(item'[i], item[i])
  <2>1. Lists'
    BY <1>3 DEF IInv, Lists
  <2>2. Places'
    BY <1>3, DisjointObjects DEF IInv, Places, SameItem
  <2>3. LeftBehind'
    BY <1>3 DEF IInv, LeftBehind, SameItem, SameUnit
  <2> QED
    BY <2>1, <2>2, <2>3 DEF IInv
<1>5. CASE ~(u \in Player /\ unit[u].forbidden)
  <2>1. Sound([unit |-> g, item |-> item])
    BY <1>1, <1>3, <1>5, AidTaken
  <2>2. unit' = g /\ item' = item
    <3> HIDE DEF taken, g
    <3> QED
      BY <1>2, <1>3, <1>5 DEF Becomes
  <2>3. g[u].inWorld = unit[u].inWorld /\ \A x \in Unit : x # u => g[x] = unit[x]
    BY <1>1 DEF UnitRecord
  <2> HIDE DEF g
  <2> QED
    BY <2>1, <2>2, <2>3 DEF World, SameUnit, SameItem
<1>6. CASE u \in Player /\ unit[u].forbidden
  <2>1. unit[u].pickingUp # None
    BY <1>1, <1>6 DEF Sound, Refused
  <2> DEFINE i == unit[u].pickingUp
             h == [item EXCEPT ![i].pickers = @ \ {u}]
             k == [unit EXCEPT ![u].pickingUp = None, ![u].forbidden = FALSE]
             r == [unit[u] EXCEPT !.pickingUp = None, !.forbidden = FALSE, !.aid = @ - 1]
  <2>2. g[u].pickingUp = i
    BY <1>1 DEF UnitRecord
  <2>3. PickupStop(taken, u) = [unit |-> [g EXCEPT ![u].pickingUp = None, ![u].forbidden = FALSE],
                                item |-> h]
    <3>1. taken.unit = g /\ taken.item = item
      BY <1>2
    <3> HIDE DEF taken, g, i
    <3> QED
      BY <2>1, <2>2, <3>1 DEF PickupStop, i
  <2>4. s = [unit |-> k, item |-> h]
    BY <2>1 DEF PickupStop, World
  <2>5. s.unit = k /\ s.item = h
    BY <2>4
  <2>6. [g EXCEPT ![u].pickingUp = None, ![u].forbidden = FALSE] = [k EXCEPT ![u] = r]
    BY <1>1 DEF UnitRecord
  <2>7. r \in UnitRecord /\ r.pickingUp = None /\ r.forbidden = FALSE /\ r.inWorld = unit[u].inWorld
    BY <1>1, <1>4 DEF UnitRecord
  <2>8. unit' = [s.unit EXCEPT ![u] = r] /\ item' = s.item
    <3> HIDE DEF taken, g, k, h, r, s
    <3> QED
      BY <1>3, <1>6, <2>3, <2>5, <2>6 DEF Becomes
  <2>9. /\ Sound(s) /\ s.unit[u].pickingUp = None
        /\ \A x \in Unit : x # u => s.unit[x] = World.unit[x]
        /\ \A j \in Item : SameItem(s.item[j], World.item[j])
    BY <1>1, PickupStopSound
  <2> HIDE DEF s, r
  <2>10. Sound(World')
    <3>1. Sound([unit |-> [s.unit EXCEPT ![u] = r], item |-> s.item])
      BY <2>7, <2>9, IdleUnitChanged
    <3> QED
      BY <2>8, <3>1 DEF World
  <2>11. unit'[u] = r /\ \A x \in Unit : x # u => unit'[x] = unit[x]
    <3>1. s.unit \in [Unit -> UnitRecord]
      BY <2>9 DEF Sound, Worlds
    <3> QED
      BY <1>1, <2>8, <2>9, <3>1
  <2> QED
    BY <1>1, <2>7, <2>8, <2>9, <2>10, <2>11 DEF SameUnit
<1> QED
  BY <1>5, <1>6

\* The smaller of two numbers is at most the second.
LEMMA MinOfTwo ==
  ASSUME NEW a \in Nat, NEW b \in Nat
  PROVE  Min({a, b}) \in 0..b
<1>1. \E x \in {a, b} : \A y \in {a, b} : x <= y
  OBVIOUS
<1>2. Min({a, b}) \in {a, b} /\ \A y \in {a, b} : Min({a, b}) <= y
  BY <1>1 DEF Min
<1> QED
  BY <1>2

\* storeItem() changes only what the unit carries, and no stack outgrows its limit.
LEMMA StoreItemType ==
  ASSUME NEW r \in UnitRecord, NEW id \in Template, NEW n \in 0..MaxCount
  PROVE  LET q == StoreItem(r, id, n) IN
         /\ q \in UnitRecord /\ q.pickingUp = r.pickingUp /\ q.forbidden = r.forbidden
         /\ q.inWorld = r.inWorld
<1>1. r.aid \in Nat /\ n \in Nat /\ Stackable \in Nat
  BY TemplateAssumption DEF UnitRecord
<1> DEFINE m == Min({r.aid + n, Stackable})
<1>2. m \in 0..Stackable
  BY <1>1, MinOfTwo
<1>3. StoreItem(r, id, n) = IF id = FirstAid THEN [r EXCEPT !.aid = m] ELSE [r EXCEPT !.equip = id]
  BY DEF StoreItem
<1> HIDE DEF m
<1> QED
  BY <1>2, <1>3 DEF UnitRecord, Template

\* An item that is received, with what is dropped for it, keeps the invariant.
LEMMA ReceiveItemStep ==
  ASSUME IInv, NEW u \in Unit, NEW D \in Takeable, NEW back \in BOOLEAN, NEW crossing \in BOOLEAN,
         phase = "update", phase' = phase, unit[u].pickingUp # None,
         ReceiveItem(u, D, back, crossing)
  PROVE  IInv'
<1> DEFINE i == unit[u].pickingUp
           swaps == item[i].id \in Equipment /\ unit[u].equip # None
           w == IF back THEN Inactivate(World, i) ELSE CleanupItem(World, i)
           r == StoreItem(w.unit[u], item[i].id, item[i].n)
           stored == [w EXCEPT !.unit[u] = StoreItem(@, item[i].id, item[i].n)]
           x == [unit |-> [w.unit EXCEPT ![u] = r], item |-> w.item]
           f == [d \in D |-> Dropped(unit[u].equip, 0)]
           y == PutOnMap(x, D, f, "ACTIVATING")
           z == PickupStop(y, u)
<1>1. unit \in [Unit -> UnitRecord] /\ item \in [Item -> ItemRecord] /\ unit[u] \in UnitRecord
      /\ Sound(World) /\ World.unit = unit /\ World.item = item
  BY TypesOfWorld DEF IInv, World
<1>2. i \in Item /\ item[i].inWorld /\ i \in grid /\ i \notin toRemove /\ item[i] \in ItemRecord
  <2>1. i \in Item
    BY <1>1 DEF UnitRecord
  <2>2. item[i].inWorld
    BY <1>1 DEF Sound, Present
  <2> QED
    BY <1>1, <2>1, <2>2 DEF IInv, Places
<1>3. /\ Cardinality(D) = (IF swaps THEN 1 ELSE 0)
      /\ Becomes(PickupStop(PutOnMap(stored, D, f, "ACTIVATING"), u))
      /\ toRemove' = IF back THEN toRemove ELSE toRemove \cup {i}
      /\ toNewGrid' = IF crossing THEN toNewGrid \cup {i} ELSE toNewGrid
      /\ grid' = grid \cup D /\ store' = store \ D
  BY DEF ReceiveItem
<1>4. /\ D \in SUBSET Item
      /\ \A d \in D : /\ d \notin grid /\ d \notin toRemove /\ d \notin toNewGrid
                      /\ ~item[d].inWorld /\ item[d].pickers = {}
  BY TakeableItems
<1>5. \A d \in D : f[d] \in Data
  <2> SUFFICES ASSUME NEW d \in D PROVE Dropped(unit[u].equip, 0) \in Data
    OBVIOUS
  <2>1. Cardinality(D) # 0
    <3>1. IsFiniteSet(D)
      BY <1>4, ObjectAssumption, FS_Subset
    <3> QED
      BY <3>1, FS_EmptySet
  <2>2. unit[u].equip \in Template
    BY <1>1, <1>3, <2>1 DEF UnitRecord, Template
  <2>3. 0 \in 0..MaxCount
    BY TemplateAssumption
  <2> QED
    BY <2>2, <2>3, DroppedType
<1>6. /\ Sound(w) /\ w.unit[u].pickingUp = None
      /\ \A v \in Unit : SameUnit(w.unit[v], unit[v])
      /\ \A j \in Item : j # i => w.item[j] = item[j]
      /\ w.item[i].inWorld = back /\ w.item[i].state # "NONE"
  <2>1. CASE back = TRUE
    <3>1. w = Inactivate(World, i)
      BY <2>1
    <3> DEFINE a == Inactivate(World, i)
    <3>2. /\ Sound(a)
          /\ \A v \in Unit : SameUnit(a.unit[v], World.unit[v])
          /\ \A v \in Unit : a.unit[v].pickingUp
                            = IF World.unit[v].pickingUp = i THEN None ELSE World.unit[v].pickingUp
          /\ \A j \in Item : j # i => a.item[j] = World.item[j]
          /\ a.item[i] = [World.item[i] EXCEPT !.collided = {}, !.state = "INACTIVE", !.n = 0, !.pickers = {}]
      BY <1>1, <1>2, InactivateSound, ZenonT(40)
    <3> HIDE DEF a, w
    <3>3. a.item[i].inWorld = item[i].inWorld /\ a.item[i].state = "INACTIVE"
      BY <1>1, <1>2, <3>2 DEF ItemRecord
    <3>4. item[i].inWorld = TRUE
      BY <1>2 DEF ItemRecord
    <3> QED
      BY <1>1, <2>1, <3>1, <3>2, <3>3, <3>4 DEF a
  <2>2. CASE back = FALSE
    <3>1. w = CleanupItem(World, i)
      BY <2>2
    <3> DEFINE a == CleanupItem(World, i)
    <3>2. /\ Sound(a)
          /\ \A v \in Unit : SameUnit(a.unit[v], World.unit[v])
          /\ \A v \in Unit : a.unit[v].pickingUp
                            = IF World.unit[v].pickingUp = i THEN None ELSE World.unit[v].pickingUp
          /\ \A j \in Item : j # i => a.item[j] = World.item[j]
          /\ a.item[i] = [World.item[i] EXCEPT !.collided = {}, !.inWorld = FALSE, !.pickers = {}]
      BY <1>1, <1>2, CleanupItemSound, ZenonT(40)
    <3> HIDE DEF a, w
    <3>3. a.item[i].inWorld = FALSE /\ a.item[i].state = item[i].state
      BY <1>1, <1>2, <3>2 DEF ItemRecord
    <3>4. item[i].state # "NONE"
      BY <1>2 DEF IInv, LeftBehind
    <3> QED
      BY <1>1, <2>2, <3>1, <3>2, <3>3, <3>4 DEF a
  <2> QED
    BY <2>1, <2>2
<1> HIDE DEF w
<1>7. /\ w.unit \in [Unit -> UnitRecord] /\ w.item \in [Item -> ItemRecord] /\ w.unit[u] \in UnitRecord
      /\ w = [unit |-> w.unit, item |-> w.item]
  BY <1>6 DEF Sound, Worlds
<1>8. stored = x
  <2> DEFINE g == [w.unit EXCEPT ![u] = r]
  <2>1. stored = [w EXCEPT !.unit = g]
    OBVIOUS
  <2> HIDE DEF g, stored
  <2> QED
    BY <1>7, <2>1 DEF g
<1>9. r \in UnitRecord /\ r.pickingUp = None /\ r.inWorld = unit[u].inWorld /\ (u \in Player => ~r.forbidden)
  <2>1. item[i].id \in Template /\ item[i].n \in 0..MaxCount
    BY <1>2 DEF ItemRecord
  <2>2. /\ r \in UnitRecord /\ r.pickingUp = w.unit[u].pickingUp /\ r.forbidden = w.unit[u].forbidden
        /\ r.inWorld = w.unit[u].inWorld
    <3> HIDE DEF i
    <3> QED
      BY <1>7, <2>1, StoreItemType
  <2>3. u \in Player => ~w.unit[u].forbidden
    BY <1>6 DEF Sound, Refused
  <2> HIDE DEF r
  <2> QED
    BY <1>6, <2>2, <2>3 DEF SameUnit
<1> HIDE DEF r
<1>10. Sound(x) /\ x.item = w.item /\ x.unit[u] = r /\ \A v \in Unit : v # u => x.unit[v] = w.unit[v]
  BY <1>6, <1>7, <1>9, IdleUnitChanged
<1> HIDE DEF x, f, stored
<1>11. \A d \in D : x.item[d].pickers = {}
  BY <1>2, <1>4, <1>6, <1>10
<1>12. /\ Sound(y)
       /\ y.unit = x.unit
       /\ \A j \in Item \ D : y.item[j] = x.item[j]
       /\ \A d \in D : y.item[d].inWorld /\ y.item[d].state = "ACTIVATING" /\ y.item[d].pickers = {}
  <2>1. "ACTIVATING" \in StatesOnMap
    BY DEF StatesOnMap
  <2> QED
    BY <1>4, <1>5, <1>10, <1>11, <2>1, PutOnMapSound, ZenonT(40)
<1> HIDE DEF y
<1>13. /\ Sound(z)
       /\ \A v \in Unit : v # u => z.unit[v] = y.unit[v]
       /\ SameUnit(z.unit[u], y.unit[u])
       /\ \A j \in Item : SameItem(z.item[j], y.item[j])
  BY <1>12, PickupStopSound
<1>14. unit' = z.unit /\ item' = z.item
  BY <1>3, <1>8 DEF Becomes, y, z
<1> HIDE DEF z
<1>15. Sound(World')
  <2>1. z = [unit |-> z.unit, item |-> z.item]
    BY <1>13 DEF Sound, Worlds
  <2> QED
    BY <1>13, <1>14, <2>1 DEF World
<1>16. /\ \A v \in Unit : v # u => SameUnit(unit'[v], unit[v])
       /\ unit'[u].inWorld = unit[u].inWorld /\ unit[u].inWorld
  <2>1. \A v \in Unit : v # u => SameUnit(unit'[v], unit[v])
    BY <1>6, <1>10, <1>12, <1>13, <1>14 DEF SameUnit
  <2>2. unit'[u].inWorld = unit[u].inWorld
    BY <1>9, <1>10, <1>12, <1>13, <1>14 DEF SameUnit
  <2>3. unit[u].inWorld
    BY <1>1 DEF Sound, Present
  <2> QED
    BY <2>1, <2>2, <2>3
<1>17. /\ \A j \in Item : j # i /\ j \notin D => item'[j].inWorld = item[j].inWorld /\ item'[j].state = item[j].state
       /\ item'[i].inWorld = back /\ item'[i].state # "NONE"
       /\ \A d \in D : item'[d].inWorld /\ item'[d].state # "NONE"
       /\ i \notin D
  <2>1. i \notin D
    BY <1>2, <1>4
  <2> QED
    BY <1>2, <1>4, <1>6, <1>10, <1>12, <1>13, <1>14, <2>1 DEF SameItem
<1> HIDE DEF i
<1>18. Lists'
  BY <1>2, <1>3, <1>4 DEF IInv, Lists
<1>19. Places'
  <2>1. \A v \in Robot : unit'[v].inWorld <=> v \in grid' /\ v \notin toRemove'
    BY <1>2, <1>3, <1>4, <1>16, DisjointObjects DEF IInv, Places, SameUnit
  <2>2. ASSUME NEW j \in Item PROVE item'[j].inWorld <=> j \in grid' /\ j \notin toRemove'
    <3>1. CASE j = i
      BY <1>2, <1>3, <1>17, <3>1
    <3>2. CASE j # i
      BY <1>2, <1>3, <1>4, <1>17, <3>2 DEF IInv, Places
    <3> QED
      BY <3>1, <3>2
  <2> QED
    BY <2>1, <2>2 DEF Places
<1>20. LeftBehind'
  <2>1. ASSUME NEW v \in Unit, ~unit'[v].inWorld PROVE unit'[v].equip = None /\ unit'[v].aid = 0
    BY <1>16, <2>1 DEF IInv, LeftBehind, SameUnit
  <2>2. ASSUME NEW j \in grid' \cap Item PROVE item'[j].state # "NONE"
    BY <1>3, <1>17, <2>2 DEF IInv, LeftBehind
  <2> QED
    BY <2>1, <2>2 DEF LeftBehind
<1> QED
  BY <1>15, <1>18, <1>19, <1>20 DEF IInv

\* The timer of a pickup keeps the invariant.
LEMMA PickupTimerStep ==
  ASSUME IInv, NEW u \in Unit, UpdatePickupTimer(u)
  PROVE  IInv'
<1>1. phase = "update" /\ phase' = phase /\ unit[u].pickingUp # None
  BY DEF UpdatePickupTimer
<1>2. CASE \E D \in Takeable, back, crossing \in BOOLEAN : ReceiveItem(u, D, back, crossing)
  BY <1>1, <1>2, ReceiveItemStep
<1>3. CASE Becomes(PickupStop(World, u)) /\ UNCHANGED <<grid, toNewGrid, toRemove, store>>
  <2> DEFINE s == PickupStop(World, u)
  <2>1. /\ Sound(s)
        /\ \A x \in Unit : x # u => s.unit[x] = World.unit[x]
        /\ SameUnit(s.unit[u], World.unit[u])
        /\ \A j \in Item : SameItem(s.item[j], World.item[j])
    BY PickupStopSound DEF IInv
  <2>2. Becomes(s)
    BY <1>3
  <2> HIDE DEF s
  <2>3. SamePlaces(s)
    BY <2>1 DEF SamePlaces, World, SameUnit, SameItem
  <2> QED
    BY <1>1, <1>3, <2>1, <2>2, <2>3, PickupsOnly
<1> QED
  BY <1>2, <1>3 DEF UpdatePickupTimer

\* A unit that dies and drops what it carries keeps the invariant.
LEMMA DieStep ==
  ASSUME IInv, NEW u \in Unit, NEW D \in Takeable, NEW f \in [D -> Template], Die(u, f)
  PROVE  IInv'
<1> DEFINE F == [d \in D |-> Dropped(f[d], 1)]
           left == PutOnMap(World, D, F, "ACTIVATING")
           s == PickupStop(left, u)
           r == [s.unit[u] EXCEPT !.alive = FALSE, !.equip = None, !.aid = 0]
           v == [s EXCEPT !.unit[u].alive = FALSE, !.unit[u].equip = None, !.unit[u].aid = 0]
<1>1. DOMAIN f = D
  OBVIOUS
<1>2. /\ unit[u].inWorld /\ Becomes(v)
      /\ grid' = grid \cup D /\ store' = store \ D /\ UNCHANGED <<toNewGrid, toRemove, phase>>
  BY <1>1 DEF Die
<1>3. /\ D \in SUBSET Item
      /\ \A d \in D : /\ d \notin grid /\ d \notin toRemove /\ d \notin toNewGrid
                      /\ ~item[d].inWorld /\ item[d].pickers = {}
  BY TakeableItems
<1>4. \A d \in D : F[d] \in Data
  <2>1. 1 \in 0..MaxCount
    BY TemplateAssumption
  <2> QED
    BY <2>1, DroppedType
<1> HIDE DEF F
<1>5. /\ Sound(left)
      /\ left.unit = World.unit
      /\ \A i \in Item \ D : left.item[i] = World.item[i]
      /\ \A i \in D : left.item[i].inWorld /\ left.item[i].state = "ACTIVATING"
  <2>1. "ACTIVATING" \in StatesOnMap
    BY DEF StatesOnMap
  <2> QED
    BY <1>4, <2>1, TakenSound
<1> HIDE DEF left
<1>6. /\ Sound(s) /\ s.unit[u].pickingUp = None
      /\ \A x \in Unit : x # u => s.unit[x] = left.unit[x]
      /\ SameUnit(s.unit[u], left.unit[u])
      /\ \A i \in Item : SameItem(s.item[i], left.item[i])
  BY <1>5, PickupStopSound
<1> HIDE DEF s
<1>7. /\ s.unit \in [Unit -> UnitRecord] /\ s.item \in [Item -> ItemRecord]
      /\ s = [unit |-> s.unit, item |-> s.item]
  BY <1>6 DEF Sound, Worlds
<1>8. v = [unit |-> [s.unit EXCEPT ![u] = r], item |-> s.item]
  <2> DEFINE a == [s EXCEPT !.unit[u].alive = FALSE]
             b == [a EXCEPT !.unit[u].equip = None]
             g == [s.unit EXCEPT ![u].alive = FALSE]
             h == [g EXCEPT ![u].equip = None]
  <2>1. a = [unit |-> g, item |-> s.item]
    <3>1. a = [s EXCEPT !.unit = g]
      OBVIOUS
    <3>2. [s EXCEPT !.unit = g] = [unit |-> g, item |-> s.item]
      <4> HIDE DEF g
      <4> QED
        BY <1>7
    <3> QED
      BY <3>1, <3>2
  <2>2. v = [b EXCEPT !.unit[u].aid = 0]
    OBVIOUS
  <2>3. b = [unit |-> h, item |-> s.item]
    <3> HIDE DEF a, g
    <3> QED
      BY <2>1
  <2>4. v = [unit |-> [h EXCEPT ![u].aid = 0], item |-> s.item]
    <3> HIDE DEF b, h, v
    <3> QED
      BY <2>2, <2>3
  <2>5. [h EXCEPT ![u].aid = 0] = [s.unit EXCEPT ![u] = r]
    BY <1>7
  <2> QED
    BY <2>4, <2>5
<1>9. /\ r \in UnitRecord /\ r.pickingUp = None /\ r.inWorld = s.unit[u].inWorld
      /\ r.forbidden = s.unit[u].forbidden
  <2>1. s.unit[u] \in UnitRecord /\ 0 \in 0..Stackable
    BY <1>7, TemplateAssumption
  <2> QED
    BY <1>6, <2>1 DEF UnitRecord
<1>10. u \in Player => ~s.unit[u].forbidden
  BY <1>6 DEF Sound, Refused
<1> HIDE DEF r, v
<1>11. Sound(v)
  BY <1>6, <1>8, <1>9, <1>10, IdleUnitChanged
<1>12. v.unit[u] = r /\ (\A x \in Unit : x # u => v.unit[x] = s.unit[x]) /\ v.item = s.item
  BY <1>7, <1>8
<1>13. unit' = v.unit /\ item' = v.item
  BY <1>2 DEF Becomes
<1>14. Sound(World')
  <2>1. v = [unit |-> v.unit, item |-> v.item]
    BY <1>11 DEF Sound, Worlds
  <2> QED
    BY <1>11, <1>13, <2>1 DEF World
<1>15. unit'[u].inWorld = unit[u].inWorld /\ \A x \in Unit : x # u => unit'[x] = unit[x]
  BY <1>5, <1>6, <1>9, <1>12, <1>13 DEF SameUnit, World
<1>16. /\ \A i \in Item \ D : item'[i].inWorld = item[i].inWorld /\ item'[i].state = item[i].state
       /\ \A i \in D : item'[i].inWorld /\ item'[i].state = "ACTIVATING"
  BY <1>3, <1>5, <1>6, <1>12, <1>13 DEF SameItem, World
<1>17. Lists'
  BY <1>2, <1>3 DEF IInv, Lists
<1>18. Places'
  BY <1>2, <1>3, <1>15, <1>16, DisjointObjects DEF IInv, Places
<1>19. LeftBehind'
  <2>1. ASSUME NEW x \in Unit, ~unit'[x].inWorld PROVE unit'[x].equip = None /\ unit'[x].aid = 0
    BY <1>2, <1>15, <2>1 DEF IInv, LeftBehind
  <2>2. ASSUME NEW i \in grid' \cap Item PROVE item'[i].state # "NONE"
    BY <1>2, <1>16, <2>2 DEF IInv, LeftBehind
  <2> QED
    BY <2>1, <2>2 DEF LeftBehind
<1> QED
  BY <1>14, <1>17, <1>18, <1>19 DEF IInv

-----------------------------------------------------------------------------
\* Every step keeps the invariant.
LEMMA StepSound ==
  ASSUME IInv, [Next]_vars
  PROVE  IInv'
<1>1. CASE UNCHANGED vars
  BY <1>1 DEF vars, IInv, World, Lists, Places, LeftBehind
<1>2. CASE Spawn
  <2>1. PICK i \in Item, n \in 1..MaxCount :
          \/ \E id \in Template : DropItem(i, id, n) \/ \E b \in BOOLEAN : LoadItem(i, id, n, b)
          \/ Respawn(i, n)
    BY <1>2 DEF Spawn
  <2> QED
    BY <2>1, DropItemStep, LoadItemStep, ActivateStep
<1>3. CASE \E p \in Player : JoinBattle(p) \/ LogoutPlayer(p)
  BY <1>3, JoinStep, LogoutStep
<1>4. CASE \E r \in Robot : AddRobot(r) \/ WithdrawRobot(r) \/ RelocateRobot(r)
  BY <1>4, AddRobotStep, WithdrawStep, ListSteps
<1>5. CASE (\E o \in Robot \cup Item : DelObject(o)) \/ CleanupAllGrids
  BY <1>5, DelObjectStep, CleanupStep
<1>6. CASE BeginUpdate \/ ProcessObjectToNewGridList \/ ProcessObjectRemoveList
  BY <1>6, ListSteps, RemoveListStep
<1>7. CASE \E u \in Unit : UpdatePickupTimer(u) \/ UseItem(u) \/ \E i \in Item : Touch(u, i) \/ Leave(u, i)
  BY <1>7, PickupTimerStep, UseItemStep, TouchStep, LeaveStep
<1>8. CASE \E u \in Unit : \E D \in Takeable : \E f \in [D -> Template] : Die(u, f)
  BY <1>8, DieStep
<1>9. CASE \E i \in Item : Activate(i)
  BY <1>9, ActivateStep
<1> QED
  BY <1>1, <1>2, <1>3, <1>4, <1>5, <1>6, <1>7, <1>8, <1>9 DEF Next

(***************************************************************************)
(* Pickups are sound in every reachable state: m_pickers and m_pickingUp    *)
(* say the same, and neither death, logout, removal, respawn nor the reuse  *)
(* of an item leaves a pickup behind (Unit::pickup(), pickupStop(),         *)
(* Item::removeAllPickers()).                                               *)
(***************************************************************************)
THEOREM PickingCorrect == Spec => []PickingSound
<1>1. Init => IInv
  BY InitSound
<1>2. IInv /\ [Next]_vars => IInv'
  BY StepSound
<1>3. IInv => PickingSound
  BY Consequences
<1> QED
  BY <1>1, <1>2, <1>3, PTL DEF Spec

(***************************************************************************)
(* Every robot and item has one place: its grid, until the remove list is   *)
(* processed, or the store of reusable objects (BattleMap::update(),        *)
(* addObjectToRemoveList(), takeReusableObject()).                          *)
(***************************************************************************)
THEOREM PlacesCorrect == Spec => []OnePlacePerObject
<1>1. Init => IInv
  BY InitSound
<1>2. IInv /\ [Next]_vars => IInv'
  BY StepSound
<1>3. IInv => OnePlacePerObject
  BY Consequences
<1> QED
  BY <1>1, <1>2, <1>3, PTL DEF Spec

(***************************************************************************)
(* A player is refused exactly while its inventory has no place for what it *)
(* picks up (Player::updateItemPickupResultForPlayer(), takeItem()).        *)
(***************************************************************************)
THEOREM RefusalCorrect == Spec => []ForbiddenIffFull
<1>1. Init => IInv
  BY InitSound
<1>2. IInv /\ [Next]_vars => IInv'
  BY StepSound
<1>3. IInv => ForbiddenIffFull
  BY Consequences
<1> QED
  BY <1>1, <1>2, <1>3, PTL DEF Spec

(***************************************************************************)
(* Types, with the limits of the stacks.                                    *)
(***************************************************************************)
THEOREM TypeCorrect == Spec => []TypeOK
<1>1. Init => IInv
  BY InitSound
<1>2. IInv /\ [Next]_vars => IInv'
  BY StepSound
<1>3. IInv => TypeOK
  BY Consequences
<1> QED
  BY <1>1, <1>2, <1>3, PTL DEF Spec

-----------------------------------------------------------------------------
(***************************************************************************)
(* Sums.  SumFunctionOnSet is a recursive function over the subsets of its  *)
(* set, which takes out one element after the other; what holds of it for   *)
(* all finite sets is shown for a minimal set for which it would not hold.  *)
(***************************************************************************)

\* Among sets of elements of a finite set there is one that contains no other.
LEMMA MinimalSubset ==
    ASSUME NEW S, IsFiniteSet(S), NEW T \in SUBSET SUBSET S, T # {}
    PROVE  \E X \in T : \A Y \in T : Y \subseteq X => Y = X
<1>1. IsWellFoundedOn(StrictSubsetOrdering(S), SUBSET S)
  BY FS_StrictSubsetOrderingWellFounded, FS_FiniteSubsetsOfFinite
<1>2. \E x \in T : \A y \in T : ~ (<<y, x>> \in StrictSubsetOrdering(S))
  BY <1>1, WFMin
<1> QED BY <1>2 DEF StrictSubsetOrdering

\* The element that is added first.
Picked(s) == CHOOSE x \in s : TRUE

\* g[s] is the sum of f over s, for all subsets s of S.
Adds(g, f, S) ==
    \A s \in SUBSET S : g[s] = IF s = {} THEN 0 ELSE f[Picked(s)] + g[s \ {Picked(s)}]

\* The values of f that are added up are natural numbers.
Summable(f, S) == IsFiniteSet(S) /\ \A x \in S : f[x] \in Nat

\* The definition, as one equation.
LEMMA SumDef ==
    ASSUME NEW f, NEW S
    PROVE  SumFunctionOnSet(f, S) =
           (CHOOSE g : g = [s \in SUBSET S |-> IF s = {} THEN 0
                                               ELSE f[Picked(s)] + g[s \ {Picked(s)}]])[S]
BY DEF SumFunctionOnSet, FoldFunctionOnSet, MapThenFoldSet, Picked

\* A set that is not empty has the element that is picked.
LEMMA PickedIn ==
    ASSUME NEW s, s # {}
    PROVE  Picked(s) \in s
BY DEF Picked

\* Two functions with the equation agree.
LEMMA AddsUnique ==
    ASSUME NEW f, NEW S, IsFiniteSet(S), NEW g, NEW h, Adds(g, f, S), Adds(h, f, S)
    PROVE  \A s \in SUBSET S : g[s] = h[s]
<1> DEFINE T == {s \in SUBSET S : g[s] # h[s]}
<1> SUFFICES ASSUME T # {} PROVE FALSE
  OBVIOUS
<1>1. PICK s \in T : \A t \in T : t \subseteq s => t = s
  <2>1. T \in SUBSET SUBSET S
    OBVIOUS
  <2> HIDE DEF T
  <2> QED BY <2>1, MinimalSubset
<1>2. s # {}
  BY DEF Adds
<1>3. Picked(s) \in s
  BY <1>2, PickedIn
<1> DEFINE t == s \ {Picked(s)}
<1>4. t \in SUBSET S /\ t \subseteq s /\ t # s
  BY <1>3
<1>5. g[t] = h[t]
  BY <1>1, <1>4
<1>6. g[s] = f[Picked(s)] + g[t] /\ h[s] = f[Picked(s)] + h[t]
  BY <1>2 DEF Adds
<1> QED BY <1>5, <1>6

\* The equation for a set is one for its subsets.
LEMMA AddsSubset ==
    ASSUME NEW f, NEW S, NEW g, Adds(g, f, S), NEW V \in SUBSET S
    PROVE  Adds(g, f, V)
BY DEF Adds

\* There is such a function.
LEMMA AddsExist ==
    ASSUME NEW f, NEW S, Summable(f, S)
    PROVE  \E g \in [SUBSET S -> Nat] : Adds(g, f, S)
<1> DEFINE Has(V) == \E g \in [SUBSET V -> Nat] : Adds(g, f, V)
           T == {V \in SUBSET S : ~ Has(V)}
<1>0. IsFiniteSet(S) /\ \A x \in S : f[x] \in Nat
  BY DEF Summable
<1> SUFFICES ASSUME T # {} PROVE FALSE
  OBVIOUS
<1>1. PICK U \in T : \A V \in T : V \subseteq U => V = U
  <2>1. T \in SUBSET SUBSET S
    OBVIOUS
  <2> HIDE DEF T
  <2> QED BY <2>1, <1>0, MinimalSubset
<1>2. ASSUME NEW V \in SUBSET U, V # U PROVE Has(V)
  BY <1>1, <1>2
<1> DEFINE H(V) == CHOOSE g \in [SUBSET V -> Nat] : Adds(g, f, V)
           G == [s \in SUBSET U |-> IF s = {} THEN 0
                                    ELSE f[Picked(s)] + H(s \ {Picked(s)})[s \ {Picked(s)}]]
<1>3. ASSUME NEW V \in SUBSET U, V # U PROVE H(V) \in [SUBSET V -> Nat] /\ Adds(H(V), f, V)
  BY <1>2, <1>3, Zenon
<1>4. ASSUME NEW s \in SUBSET U, s # {}
      PROVE  /\ Picked(s) \in s /\ s \ {Picked(s)} \in SUBSET U /\ s \ {Picked(s)} # U
             /\ f[Picked(s)] \in Nat
  <2>1. Picked(s) \in s
    BY <1>4, PickedIn
  <2> QED BY <2>1, <1>0, <1>1
<1> HIDE DEF H
<1>5. G \in [SUBSET U -> Nat]
  <2>1. ASSUME NEW s \in SUBSET U, s # {}
        PROVE  f[Picked(s)] + H(s \ {Picked(s)})[s \ {Picked(s)}] \in Nat
    <3> DEFINE V == s \ {Picked(s)}
    <3>1. V \in SUBSET U /\ V # U /\ f[Picked(s)] \in Nat
      BY <1>4, <2>1
    <3> HIDE DEF V
    <3>2. H(V)[V] \in Nat
      BY <1>3, <3>1
    <3>3. f[Picked(s)] + H(V)[V] \in Nat
      BY <3>1, <3>2
    <3> QED BY <3>3 DEF V
  <2> QED BY <2>1
<1>6. ASSUME NEW s \in SUBSET U, s # {} PROVE G[s] = f[Picked(s)] + G[s \ {Picked(s)}]
  <2> DEFINE V == s \ {Picked(s)}
  <2>1. V \in SUBSET U /\ V # U
    BY <1>4, <1>6
  <2>2. G[s] = f[Picked(s)] + H(V)[V]
    BY <1>6
  <2> HIDE DEF V
  <2>3. Adds(H(V), f, V)
    BY <1>3, <2>1
  <2>4. CASE V = {}
    <3>1. H(V)[V] = 0
      BY <2>3, <2>4 DEF Adds
    <3>2. G[V] = 0
      BY <2>1, <2>4
    <3> QED BY <2>2, <3>1, <3>2 DEF V
  <2>5. CASE V # {}
    <3> DEFINE W == V \ {Picked(V)}
    <3>1. W \in SUBSET U /\ W # U /\ W \in SUBSET V
      BY <1>4, <2>1, <2>5
    <3>2. H(V)[V] = f[Picked(V)] + H(V)[W]
      BY <2>3, <2>5 DEF Adds
    <3>3. G[V] = f[Picked(V)] + H(W)[W]
      BY <2>1, <2>5
    <3> HIDE DEF W, G
    <3>4. Adds(H(V), f, W) /\ Adds(H(W), f, W)
      BY <1>3, <2>3, <3>1, AddsSubset
    <3>5. IsFiniteSet(W)
      BY <1>0, <3>1, <1>1, FS_Subset
    <3>6. H(V)[W] = H(W)[W]
      BY <3>4, <3>5, AddsUnique
    <3>7. G[V] = H(V)[V]
      BY <3>2, <3>3, <3>6
    <3> QED BY <2>2, <3>7 DEF V
  <2> QED BY <2>4, <2>5
<1>7. G[{}] = 0
  OBVIOUS
<1> HIDE DEF G
<1>8. Adds(G, f, U)
  BY <1>6, <1>7 DEF Adds
<1>9. Has(U)
  BY <1>5, <1>8
<1> QED BY <1>9, <1>1

\* What the sum over a set is.
LEMMA SumIs ==
    ASSUME NEW f, NEW S, Summable(f, S), NEW h, Adds(h, f, S)
    PROVE  SumFunctionOnSet(f, S) = h[S]
<1> DEFINE Eq(g) == g = [s \in SUBSET S |-> IF s = {} THEN 0
                                            ELSE f[Picked(s)] + g[s \ {Picked(s)}]]
           c == CHOOSE g : Eq(g)
<1>1. \E g : Eq(g)
  <2>1. PICK g \in [SUBSET S -> Nat] : Adds(g, f, S)
    BY AddsExist
  <2>2. Eq(g)
    BY <2>1 DEF Adds
  <2> QED BY <2>2
<1>2. Eq(c)
  BY <1>1
<1>3. SumFunctionOnSet(f, S) = c[S]
  BY SumDef
<1> HIDE DEF c
<1>4. Adds(c, f, S)
  BY <1>2 DEF Adds
<1>5. IsFiniteSet(S)
  BY DEF Summable
<1> QED BY <1>3, <1>4, <1>5, AddsUnique

\* The recursion, for the sum itself.
LEMMA SumSteps ==
    ASSUME NEW f, NEW S, Summable(f, S)
    PROVE  /\ SumFunctionOnSet(f, S) \in Nat
           /\ S = {} => SumFunctionOnSet(f, S) = 0
           /\ S # {} => /\ Picked(S) \in S
                        /\ SumFunctionOnSet(f, S) = f[Picked(S)] + SumFunctionOnSet(f, S \ {Picked(S)})
<1>1. PICK g \in [SUBSET S -> Nat] : Adds(g, f, S)
  BY AddsExist
<1>2. SumFunctionOnSet(f, S) = g[S] /\ g[S] \in Nat
  BY <1>1, SumIs
<1>3. ASSUME S # {}
      PROVE  Picked(S) \in S /\ SumFunctionOnSet(f, S) = f[Picked(S)] + SumFunctionOnSet(f, S \ {Picked(S)})
  <2> DEFINE V == S \ {Picked(S)}
  <2>1. V \in SUBSET S /\ Picked(S) \in S
    BY <1>3, PickedIn
  <2>2. g[S] = f[Picked(S)] + g[V]
    BY <1>1, <1>3 DEF Adds
  <2> HIDE DEF V
  <2>3. Summable(f, V)
    BY <2>1, FS_Subset DEF Summable
  <2>4. SumFunctionOnSet(f, V) = g[V]
    BY <2>1, <2>3, <1>1, AddsSubset, SumIs
  <2> QED BY <1>2, <2>1, <2>2, <2>4 DEF V
<1>4. S = {} => g[S] = 0
  BY <1>1 DEF Adds
<1> QED BY <1>2, <1>3, <1>4

\* A subset of a set that can be summed up can be summed up.
LEMMA SummableSubset ==
    ASSUME NEW f, NEW S, Summable(f, S), NEW V \in SUBSET S
    PROVE  Summable(f, V)
BY FS_Subset DEF Summable

\* Any element may be taken out first.
LEMMA SumRemove ==
    ASSUME NEW f, NEW S, Summable(f, S), NEW x \in S
    PROVE  SumFunctionOnSet(f, S) = f[x] + SumFunctionOnSet(f, S \ {x})
<1> DEFINE Sum(V) == SumFunctionOnSet(f, V)
           T == {V \in SUBSET S : \E y \in V : Sum(V) # f[y] + Sum(V \ {y})}
<1>0. IsFiniteSet(S) /\ \A y \in S : f[y] \in Nat
  BY DEF Summable
<1> SUFFICES ASSUME T # {} PROVE FALSE
  OBVIOUS
<1>1. PICK U \in T : \A V \in T : V \subseteq U => V = U
  <2>1. T \in SUBSET SUBSET S
    OBVIOUS
  <2> HIDE DEF T
  <2> QED BY <2>1, <1>0, MinimalSubset
<1>2. PICK y \in U : Sum(U) # f[y] + Sum(U \ {y})
  BY <1>1
<1> DEFINE p == Picked(U)
<1>3. U \in SUBSET S /\ Summable(f, U)
  BY <1>1, SummableSubset
<1>4. p \in U /\ Sum(U) = f[p] + Sum(U \ {p})
  BY <1>2, <1>3, SumSteps
<1>5. p # y
  BY <1>2, <1>4
<1> DEFINE V == U \ {p}
           W == U \ {y}
<1>6. Sum(V) = f[y] + Sum(V \ {y})
  <2>1. V \in SUBSET S /\ V # U /\ V \subseteq U /\ y \in V
    BY <1>3, <1>4, <1>5
  <2> QED BY <1>1, <2>1
<1>7. Sum(W) = f[p] + Sum(W \ {p})
  <2>1. W \in SUBSET S /\ W # U /\ W \subseteq U /\ p \in W
    BY <1>3, <1>4, <1>5
  <2> QED BY <1>1, <2>1
<1>8. V \ {y} = W \ {p}
  OBVIOUS
<1>9. Sum(V \ {y}) \in Nat /\ f[y] \in Nat /\ f[p] \in Nat
  <2>1. Summable(f, V \ {y})
    BY <1>3, SummableSubset
  <2> HIDE DEF V
  <2> QED BY <2>1, <1>0, <1>3, <1>4, SumSteps
<1> HIDE DEF Sum, V, W, p
<1>10. Sum(W) = f[p] + Sum(V \ {y})
  BY <1>7, <1>8
<1>11. Sum(U) = f[p] + (f[y] + Sum(V \ {y}))
  BY <1>4, <1>6 DEF V
<1>12. f[p] + (f[y] + Sum(V \ {y})) = f[y] + (f[p] + Sum(V \ {y}))
  BY <1>9
<1> QED BY <1>2, <1>10, <1>11, <1>12 DEF W

\* If no value grows, except by one piece each in C, the sum grows at most by their number.
LEMMA SumGrows ==
    ASSUME NEW f, NEW g, NEW S, Summable(f, S), Summable(g, S), NEW C \in SUBSET S,
           \A x \in S : g[x] <= f[x] + (IF x \in C THEN 1 ELSE 0)
    PROVE  SumFunctionOnSet(g, S) <= SumFunctionOnSet(f, S) + Cardinality(C)
<1> DEFINE F(V) == SumFunctionOnSet(f, V)
           G(V) == SumFunctionOnSet(g, V)
           T == {V \in SUBSET S : ~ (G(V) <= F(V) + Cardinality(C \cap V))}
<1>0. IsFiniteSet(S) /\ \A y \in S : f[y] \in Nat /\ g[y] \in Nat
  BY DEF Summable
<1>1. ASSUME T # {} PROVE FALSE
  <2>1. PICK U \in T : \A V \in T : V \subseteq U => V = U
    <3>1. T \in SUBSET SUBSET S
      OBVIOUS
    <3> HIDE DEF T
    <3> QED BY <1>1, <3>1, <1>0, MinimalSubset
  <2>2. U \in SUBSET S /\ Summable(f, U) /\ Summable(g, U) /\ ~ (G(U) <= F(U) + Cardinality(C \cap U))
    BY <2>1, SummableSubset
  <2>3. U # {}
    <3>1. ASSUME U = {} PROVE G(U) = 0 /\ F(U) = 0 /\ Cardinality(C \cap U) = 0
      <4>1. C \cap U = {}
        BY <3>1
      <4> QED BY <3>1, <4>1, <2>2, SumSteps, FS_EmptySet
    <3> QED BY <3>1, <2>2
  <2>4. PICK x \in U : TRUE
    BY <2>3
  <2> DEFINE V == U \ {x}
  <2>5. V \in SUBSET S /\ V \subseteq U /\ V # U /\ Summable(f, V) /\ Summable(g, V)
    BY <2>2, <2>4, SummableSubset
  <2>6. G(V) <= F(V) + Cardinality(C \cap V)
    BY <2>1, <2>5
  <2>7. G(U) = g[x] + G(V) /\ F(U) = f[x] + F(V)
    BY <2>2, <2>4, SumRemove
  <2>8. Cardinality(C \cap U) = Cardinality(C \cap V) + (IF x \in C THEN 1 ELSE 0)
    <3>1. IsFiniteSet(C \cap U)
      BY <1>0, FS_Subset
    <3>2. CASE x \in C
      <4>1. x \in C \cap U /\ (C \cap U) \ {x} = C \cap V
        BY <3>2, <2>4
      <4>2. Cardinality(C \cap V) = Cardinality(C \cap U) - 1
        BY <3>1, <4>1, FS_RemoveElement
      <4>3. Cardinality(C \cap U) \in Nat
        BY <3>1, FS_CardinalityType
      <4> QED BY <3>2, <4>2, <4>3
    <3>3. CASE x \notin C
      <4>1. C \cap U = C \cap V
        BY <3>3
      <4>2. Cardinality(C \cap U) \in Nat
        BY <3>1, FS_CardinalityType
      <4> QED BY <3>3, <4>1, <4>2
    <3> QED BY <3>2, <3>3
  <2>9. /\ G(V) \in Nat /\ F(V) \in Nat /\ Cardinality(C \cap V) \in Nat
        /\ f[x] \in Nat /\ g[x] \in Nat /\ g[x] <= f[x] + (IF x \in C THEN 1 ELSE 0)
    <3>1. IsFiniteSet(C \cap V)
      BY <1>0, FS_Subset
    <3>2. x \in S
      BY <2>2, <2>4
    <3> HIDE DEF V
    <3> QED BY <3>1, <3>2, <2>5, <1>0, SumSteps, FS_CardinalityType
  <2> HIDE DEF F, G, V, T
  <2> QED BY <2>2, <2>6, <2>7, <2>8, <2>9
<1>2. G(S) <= F(S) + Cardinality(C \cap S)
  BY <1>1
<1>3. C \cap S = C
  OBVIOUS
<1> QED BY <1>2, <1>3

\* If no value grows, neither does the sum.
LEMMA SumMonotone ==
    ASSUME NEW f, NEW g, NEW S, Summable(f, S), Summable(g, S), \A x \in S : g[x] <= f[x]
    PROVE  SumFunctionOnSet(g, S) <= SumFunctionOnSet(f, S)
<1>1. \A x \in S : f[x] \in Nat /\ g[x] \in Nat
  BY DEF Summable
<1>2. \A x \in S : g[x] <= f[x] + (IF x \in {} THEN 1 ELSE 0)
  BY <1>1
<1>3. SumFunctionOnSet(g, S) <= SumFunctionOnSet(f, S) + Cardinality({})
  BY <1>2, SumGrows
<1>4. Cardinality({}) = 0
  BY FS_EmptySet
<1>5. SumFunctionOnSet(f, S) \in Nat
  BY SumSteps
<1> QED BY <1>3, <1>4, <1>5

\* The sum depends on the values on the set alone.
LEMMA SumSame ==
    ASSUME NEW f, NEW g, NEW S, Summable(f, S), \A x \in S : g[x] = f[x]
    PROVE  SumFunctionOnSet(g, S) = SumFunctionOnSet(f, S)
<1>1. Summable(g, S)
  BY DEF Summable
<1>2. \A x \in S : f[x] \in Nat /\ g[x] <= f[x] /\ f[x] <= g[x]
  BY DEF Summable
<1>3. SumFunctionOnSet(g, S) <= SumFunctionOnSet(f, S) /\ SumFunctionOnSet(f, S) <= SumFunctionOnSet(g, S)
  BY <1>1, <1>2, SumMonotone
<1>4. SumFunctionOnSet(g, S) \in Nat /\ SumFunctionOnSet(f, S) \in Nat
  BY <1>1, SumSteps
<1> QED BY <1>3, <1>4

\* If one value changes, the sum changes by as much.
LEMMA SumChangeOne ==
    ASSUME NEW f, NEW g, NEW S, Summable(f, S), Summable(g, S), NEW x \in S,
           \A y \in S : y # x => g[y] = f[y]
    PROVE  SumFunctionOnSet(g, S) = SumFunctionOnSet(f, S) - f[x] + g[x]
<1> DEFINE R == S \ {x}
<1>1. R \in SUBSET S /\ \A y \in R : g[y] = f[y]
  OBVIOUS
<1>2. SumFunctionOnSet(f, S) = f[x] + SumFunctionOnSet(f, R)
      /\ SumFunctionOnSet(g, S) = g[x] + SumFunctionOnSet(g, R)
  BY SumRemove
<1> HIDE DEF R
<1>3. Summable(f, R)
  BY <1>1, SummableSubset
<1>4. SumFunctionOnSet(g, R) = SumFunctionOnSet(f, R)
  BY <1>1, <1>3, SumSame
<1>6. SumFunctionOnSet(f, R) \in Nat
  BY <1>3, SumSteps
<1>5. f[x] \in Nat /\ g[x] \in Nat
  BY DEF Summable
<1> QED BY <1>2, <1>4, <1>5, <1>6

-----------------------------------------------------------------------------
(***************************************************************************)
(* Pieces.  What a unit carries and what lies on the ground, record by      *)
(* record; a step that spawns nothing moves pieces from one record to       *)
(* another, or loses them.                                                  *)
(***************************************************************************)
Has(r, id) == IF id = FirstAid THEN r.aid ELSE IF r.equip = id THEN 1 ELSE 0
Lies(r, id) ==
    IF ~r.inWorld \/ r.state = "INACTIVE" \/ r.id # id THEN 0 ELSE IF id = FirstAid THEN r.n ELSE 1

\* The pieces a unit has are a number, and so are those of an item.
LEMMA PieceTypes ==
  ASSUME NEW id \in Template
  PROVE  /\ \A r \in UnitRecord : Has(r, id) \in Nat
         /\ \A r \in ItemRecord : Lies(r, id) \in Nat
<1>1. Stackable \in Nat /\ MaxCount \in Nat
  BY TemplateAssumption
<1> QED
  BY <1>1 DEF UnitRecord, ItemRecord, Has, Lies

\* The pieces of a template, as sums over records.
LEMMA PiecesAre ==
  ASSUME NEW id
  PROVE  Pieces(id) = SumFunctionOnSet([u \in Unit |-> Has(unit[u], id)], Unit)
                      + SumFunctionOnSet([i \in Item |-> Lies(item[i], id)], Item)
BY DEF Pieces, Carried, OnGround, Has, Lies, SumFunction

\* The same after a step.
LEMMA PiecesAfter ==
  ASSUME NEW id
  PROVE  Pieces(id)' = SumFunctionOnSet([u \in Unit |-> Has(unit'[u], id)], Unit)
                       + SumFunctionOnSet([i \in Item |-> Lies(item'[i], id)], Item)
BY DEF Pieces, Carried, OnGround, Has, Lies, SumFunction

\* The types after a step.
LEMMA TypesAfter ==
  ASSUME IInv'
  PROVE  unit' \in [Unit -> UnitRecord] /\ item' \in [Item -> ItemRecord]
BY DEF IInv, World, Sound, Worlds

\* The units' and the items' pieces of a template can be summed up.
LEMMA PiecesSummable ==
  ASSUME NEW f \in [Unit -> UnitRecord], NEW g \in [Item -> ItemRecord], NEW id \in Template
  PROVE  /\ Summable([u \in Unit |-> Has(f[u], id)], Unit)
         /\ Summable([i \in Item |-> Lies(g[i], id)], Item)
BY PieceTypes, ObjectAssumption DEF Summable

(***************************************************************************)
(* Pieces move: the unit u gains what the k pieces taken from the ground    *)
(* and the ones it drops as the items C leave it.                           *)
(***************************************************************************)
LEMMA Moved ==
  ASSUME IInv, IInv', NEW id \in Template, NEW u \in Unit, NEW C \in SUBSET Item,
         NEW F \in [Item -> Nat], NEW k \in Nat,
         \A x \in Unit : x # u => Has(unit'[x], id) = Has(unit[x], id),
         \A j \in Item : Lies(item'[j], id) <= F[j] + (IF j \in C THEN 1 ELSE 0),
         SumFunctionOnSet([j \in Item |-> Lies(item[j], id)], Item) = SumFunctionOnSet(F, Item) + k,
         Has(unit'[u], id) + Cardinality(C) <= Has(unit[u], id) + k
  PROVE  Pieces(id)' <= Pieces(id)
<1> DEFINE c == [x \in Unit |-> Has(unit[x], id)]
           d == [x \in Unit |-> Has(unit'[x], id)]
           g == [j \in Item |-> Lies(item[j], id)]
           h == [j \in Item |-> Lies(item'[j], id)]
           SC == SumFunctionOnSet(c, Unit)
           SD == SumFunctionOnSet(d, Unit)
           SG == SumFunctionOnSet(g, Item)
           SH == SumFunctionOnSet(h, Item)
           SF == SumFunctionOnSet(F, Item)
<1>1. unit \in [Unit -> UnitRecord] /\ item \in [Item -> ItemRecord]
  BY TypesOfWorld DEF IInv
<1>2. unit' \in [Unit -> UnitRecord] /\ item' \in [Item -> ItemRecord]
  BY TypesAfter
<1>3. Summable(c, Unit) /\ Summable(d, Unit) /\ Summable(g, Item) /\ Summable(h, Item)
  BY <1>1, <1>2, PiecesSummable
<1>4. Summable(F, Item)
  BY ObjectAssumption DEF Summable
<1>5. /\ \A x \in Unit : x # u => d[x] = c[x]
      /\ \A j \in Item : h[j] <= F[j] + (IF j \in C THEN 1 ELSE 0)
  OBVIOUS
<1>6. c[u] = Has(unit[u], id) /\ d[u] = Has(unit'[u], id) /\ SG = SF + k
  OBVIOUS
<1> HIDE DEF c, d, g, h
<1>7. SD = SC - c[u] + d[u]
  BY <1>3, <1>5, SumChangeOne
<1>8. SH <= SF + Cardinality(C)
  BY <1>3, <1>4, <1>5, SumGrows
<1>9. SC \in Nat /\ SD \in Nat /\ SH \in Nat /\ SF \in Nat
  BY <1>3, <1>4, SumSteps
<1>10. c[u] \in Nat /\ d[u] \in Nat
  BY <1>3 DEF Summable
<1>11. IsFiniteSet(C) /\ Cardinality(C) \in Nat
  BY ObjectAssumption, FS_Subset, FS_CardinalityType
<1>12. d[u] + Cardinality(C) <= c[u] + k
  BY <1>6
<1>13. Pieces(id) = SC + SG /\ Pieces(id)' = SD + SH
  BY PiecesAre, PiecesAfter DEF c, d, g, h
<1> HIDE DEF SC, SD, SG, SH, SF
<1>14. SD + SH <= SC + (SF + k)
  BY <1>7, <1>8, <1>9, <1>10, <1>11, <1>12
<1> QED
  BY <1>6, <1>13, <1>14

\* What a unit carries is what it carried, one first aid less, or nothing.
NoMoreCarried(r, q) ==
    \/ r.equip = q.equip /\ r.aid = q.aid
    \/ r.equip = q.equip /\ q.aid > 0 /\ r.aid = q.aid - 1
    \/ r.equip = None /\ r.aid = 0

\* An item is what it was, or there is nothing to be had of it.
NoMoreLying(r, q) ==
    \/ ~r.inWorld \/ r.state = "INACTIVE"
    \/ q.state # "INACTIVE" /\ r.inWorld = q.inWorld /\ r.id = q.id /\ r.n = q.n

\* There are no more pieces of any template after the step.
NoMorePieces == \A id \in Template : Pieces(id)' <= Pieces(id)

\* A step that takes and loses at most.
LEMMA NoMore ==
  ASSUME IInv, IInv', \A u \in Unit : NoMoreCarried(unit'[u], unit[u]),
         \A i \in Item : NoMoreLying(item'[i], item[i])
  PROVE  NoMorePieces
<1> SUFFICES ASSUME NEW id \in Template PROVE Pieces(id)' <= Pieces(id)
  BY DEF NoMorePieces
<1> DEFINE c == [x \in Unit |-> Has(unit[x], id)]
           d == [x \in Unit |-> Has(unit'[x], id)]
           g == [j \in Item |-> Lies(item[j], id)]
           h == [j \in Item |-> Lies(item'[j], id)]
           SC == SumFunctionOnSet(c, Unit)
           SD == SumFunctionOnSet(d, Unit)
           SG == SumFunctionOnSet(g, Item)
           SH == SumFunctionOnSet(h, Item)
<1>1. unit \in [Unit -> UnitRecord] /\ item \in [Item -> ItemRecord]
  BY TypesOfWorld DEF IInv
<1>2. unit' \in [Unit -> UnitRecord] /\ item' \in [Item -> ItemRecord]
  BY TypesAfter
<1>3. Summable(c, Unit) /\ Summable(d, Unit) /\ Summable(g, Item) /\ Summable(h, Item)
  BY <1>1, <1>2, PiecesSummable
<1>4. \A u \in Unit : d[u] <= c[u]
  <2> SUFFICES ASSUME NEW u \in Unit PROVE Has(unit'[u], id) <= Has(unit[u], id)
    OBVIOUS
  <2>1. NoMoreCarried(unit'[u], unit[u])
    OBVIOUS
  <2>2. unit[u].aid \in Nat /\ id # None
    BY <1>1, TemplateAssumption, ObjectAssumption DEF UnitRecord
  <2> QED
    BY <2>1, <2>2 DEF NoMoreCarried, Has
<1>5. \A i \in Item : h[i] <= g[i]
  <2> SUFFICES ASSUME NEW i \in Item PROVE Lies(item'[i], id) <= Lies(item[i], id)
    OBVIOUS
  <2>1. NoMoreLying(item'[i], item[i])
    OBVIOUS
  <2>2. item[i].n \in Nat
    BY <1>1, TemplateAssumption DEF ItemRecord
  <2> QED
    BY <2>1, <2>2 DEF NoMoreLying, Lies
<1> HIDE DEF c, d, g, h
<1>6. SD <= SC /\ SH <= SG
  BY <1>3, <1>4, <1>5, SumMonotone
<1>7. SC \in Nat /\ SD \in Nat /\ SG \in Nat /\ SH \in Nat
  BY <1>3, SumSteps
<1>8. Pieces(id) = SC + SG /\ Pieces(id)' = SD + SH
  BY PiecesAre, PiecesAfter DEF c, d, g, h
<1> HIDE DEF SC, SD, SG, SH
<1> QED
  BY <1>6, <1>7, <1>8

\* A step that leaves units and items what they were.
LEMMA NothingMoves ==
  ASSUME IInv, IInv', \A u \in Unit : SameUnit(unit'[u], unit[u]),
         \A i \in Item : SameItem(item'[i], item[i])
  PROVE  NoMorePieces
<1>1. \A u \in Unit : NoMoreCarried(unit'[u], unit[u])
  BY DEF SameUnit, NoMoreCarried
<1>2. \A i \in Item : NoMoreLying(item'[i], item[i])
  BY DEF SameItem, NoMoreLying
<1> QED
  BY <1>1, <1>2, NoMore

\* pickupStop() touches nothing a unit carries and no item itself.
LEMMA StopKeeps ==
  ASSUME NEW w \in Worlds, NEW u \in Unit
  PROVE  /\ \A x \in Unit : SameUnit(PickupStop(w, u).unit[x], w.unit[x])
         /\ \A j \in Item : SameItem(PickupStop(w, u).item[j], w.item[j])
<1>1. w.unit \in [Unit -> UnitRecord] /\ w.item \in [Item -> ItemRecord]
  BY DEF Worlds
<1>2. \A x \in Unit : w.unit[x] \in UnitRecord
  BY <1>1
<1>3. \A j \in Item : w.item[j] \in ItemRecord
  BY <1>1
<1>4. \A x \in Unit : SameUnit(PickupStop(w, u).unit[x], w.unit[x])
  BY <1>1, <1>2 DEF PickupStop, SameUnit, UnitRecord
<1>5. \A j \in Item : SameItem(PickupStop(w, u).item[j], w.item[j])
  BY <1>1, <1>3 DEF PickupStop, SameItem, ItemRecord
<1> QED
  BY <1>4, <1>5

\* Nor does pickup().
LEMMA PickupKeeps ==
  ASSUME NEW w \in Worlds, NEW u \in Unit, NEW i \in Item
  PROVE  /\ \A x \in Unit : SameUnit(Pickup(w, u, i).unit[x], w.unit[x])
         /\ \A j \in Item : SameItem(Pickup(w, u, i).item[j], w.item[j])
<1>1. w.unit \in [Unit -> UnitRecord] /\ w.item \in [Item -> ItemRecord]
  BY DEF Worlds
<1>2. \A x \in Unit : w.unit[x] \in UnitRecord
  BY <1>1
<1>3. \A j \in Item : w.item[j] \in ItemRecord
  BY <1>1
<1>4. \A x \in Unit : SameUnit(Pickup(w, u, i).unit[x], w.unit[x])
  BY <1>1, <1>2 DEF Pickup, SameUnit, UnitRecord
<1>5. \A j \in Item : SameItem(Pickup(w, u, i).item[j], w.item[j])
  BY <1>1, <1>3 DEF Pickup, SameItem, ItemRecord
<1> QED
  BY <1>4, <1>5

\* Joining, logging out, adding and removing objects spawn nothing.
LEMMA MembersNoMore ==
  ASSUME IInv, IInv',
         \/ \E p \in Player : JoinBattle(p) \/ LogoutPlayer(p)
         \/ \E r \in Robot : AddRobot(r) \/ WithdrawRobot(r) \/ RelocateRobot(r)
  PROVE  NoMorePieces
<1>1. unit \in [Unit -> UnitRecord] /\ item \in [Item -> ItemRecord] /\ Sound(World)
  BY TypesOfWorld DEF IInv
<1>2. CASE UNCHANGED <<unit, item>>
  BY <1>2, NothingMoves DEF SameUnit, SameItem
<1>3. ASSUME NEW p \in Unit,
             \/ unit' = [unit EXCEPT ![p].inWorld = TRUE]
             \/ unit' = [unit EXCEPT ![p].inWorld = TRUE, ![p].alive = TRUE],
             item' = item
      PROVE  NoMorePieces
  <2>1. \A u \in Unit : NoMoreCarried(unit'[u], unit[u])
    BY <1>1, <1>3 DEF NoMoreCarried, UnitRecord
  <2>2. \A i \in Item : NoMoreLying(item'[i], item[i])
    BY <1>3 DEF NoMoreLying
  <2> QED
    BY <2>1, <2>2, NoMore
<1>4. ASSUME NEW p \in Player, LogoutPlayer(p) PROVE NoMorePieces
  <2> DEFINE w == CleanupUnit(World, p)
  <2>1. p \in Unit
    BY DisjointObjects
  <2>2. /\ Sound(w)
        /\ w.unit[p].equip = None /\ w.unit[p].aid = 0
        /\ \A u \in Unit : u # p => w.unit[u] = World.unit[u]
        /\ \A i \in Item : SameItem(w.item[i], World.item[i])
    BY <1>1, <2>1, CleanupUnitSound
  <2> HIDE DEF w
  <2>3. w.unit \in [Unit -> UnitRecord] /\ w.item \in [Item -> ItemRecord]
    BY <2>2 DEF Sound, Worlds
  <2>4. /\ unit' = [w.unit EXCEPT ![p].alive = TRUE]
        /\ item' = [i \in Item |-> [w.item[i] EXCEPT !.collided = @ \ {p}]]
    BY <1>4, <2>3 DEF LogoutPlayer, w
  <2>5. ASSUME NEW u \in Unit PROVE NoMoreCarried(unit'[u], unit[u])
    <3>1. unit'[u].equip = w.unit[u].equip /\ unit'[u].aid = w.unit[u].aid
      BY <2>3, <2>4 DEF UnitRecord
    <3> QED
      BY <2>2, <3>1 DEF NoMoreCarried, World
  <2>6. ASSUME NEW i \in Item PROVE NoMoreLying(item'[i], item[i])
    <3>1. /\ item'[i].inWorld = w.item[i].inWorld /\ item'[i].state = w.item[i].state
          /\ item'[i].id = w.item[i].id /\ item'[i].n = w.item[i].n
      BY <2>3, <2>4 DEF ItemRecord
    <3> QED
      BY <2>2, <3>1 DEF NoMoreLying, World, SameItem
  <2> QED
    BY <2>5, <2>6, NoMore
<1>5. ASSUME NEW r \in Robot, WithdrawRobot(r) PROVE NoMorePieces
  <2> DEFINE w == CleanupUnit(World, r)
  <2>1. r \in Unit
    BY DisjointObjects
  <2>2. /\ w.unit[r].equip = None /\ w.unit[r].aid = 0
        /\ \A u \in Unit : u # r => w.unit[u] = World.unit[u]
        /\ \A i \in Item : SameItem(w.item[i], World.item[i])
    BY <1>1, <2>1, CleanupUnitSound
  <2>3. unit' = w.unit /\ item' = w.item
    BY <1>5 DEF WithdrawRobot, Becomes
  <2> HIDE DEF w
  <2>4. \A u \in Unit : NoMoreCarried(unit'[u], unit[u])
    BY <2>2, <2>3 DEF NoMoreCarried, World
  <2>5. \A i \in Item : NoMoreLying(item'[i], item[i])
    BY <2>2, <2>3 DEF NoMoreLying, World, SameItem
  <2> QED
    BY <2>4, <2>5, NoMore
<1> QED
  BY <1>2, <1>3, <1>4, <1>5, DisjointObjects DEF JoinBattle, AddRobot, RelocateRobot

\* The commands that delete and the cleanup of the grids lose pieces.
LEMMA DeletionNoMore ==
  ASSUME IInv, IInv', (\E o \in Robot \cup Item : DelObject(o)) \/ CleanupAllGrids
  PROVE  NoMorePieces
<1>1. unit \in [Unit -> UnitRecord] /\ item \in [Item -> ItemRecord] /\ Sound(World)
  BY TypesOfWorld DEF IInv
<1>2. ASSUME NEW o \in Robot, Becomes(CleanupUnit(World, o)) PROVE NoMorePieces
  <2> DEFINE w == CleanupUnit(World, o)
  <2>1. o \in Unit
    BY DisjointObjects
  <2>2. /\ w.unit[o].equip = None /\ w.unit[o].aid = 0
        /\ \A u \in Unit : u # o => w.unit[u] = World.unit[u]
        /\ \A i \in Item : SameItem(w.item[i], World.item[i])
    BY <1>1, <2>1, CleanupUnitSound
  <2>3. unit' = w.unit /\ item' = w.item
    BY <1>2 DEF Becomes
  <2> HIDE DEF w
  <2>4. \A u \in Unit : NoMoreCarried(unit'[u], unit[u])
    BY <2>2, <2>3 DEF NoMoreCarried, World
  <2>5. \A i \in Item : NoMoreLying(item'[i], item[i])
    BY <2>2, <2>3 DEF NoMoreLying, World, SameItem
  <2> QED
    BY <2>4, <2>5, NoMore
<1>3. ASSUME NEW o \in Item, unit' = CleanupItem(World, o).unit,
             item' = Stored(CleanupItem(World, o).item, {o})
      PROVE  NoMorePieces
  <2> DEFINE w == CleanupItem(World, o)
  <2>1. /\ \A u \in Unit : SameUnit(w.unit[u], World.unit[u])
        /\ \A i \in Item : i # o => w.item[i] = World.item[i]
    BY <1>1, CleanupItemSound, ZenonT(40)
  <2>2. unit' = w.unit /\ item' = Stored(w.item, {o})
    BY <1>3
  <2> HIDE DEF w
  <2>3. \A i \in Item : i # o => item'[i] = w.item[i]
    BY <2>2 DEF Stored
  <2>4. item'[o].inWorld = FALSE
    BY <2>2 DEF Stored, NewItem
  <2>5. \A u \in Unit : NoMoreCarried(unit'[u], unit[u])
    BY <2>1, <2>2 DEF NoMoreCarried, World, SameUnit
  <2>6. \A i \in Item : NoMoreLying(item'[i], item[i])
    BY <2>1, <2>3, <2>4 DEF NoMoreLying, World
  <2> QED
    BY <2>5, <2>6, NoMore
<1>4. CASE CleanupAllGrids
  <2>1. /\ unit' = [u \in Unit |-> IF u \in grid
                                   THEN [NewUnit EXCEPT !.inWorld = FALSE, !.alive = unit[u].alive]
                                   ELSE unit[u]]
        /\ item' = [i \in Item |-> IF i \in grid THEN [NewItem EXCEPT !.state = "INACTIVE"] ELSE item[i]]
    BY <1>4 DEF CleanupAllGrids
  <2>2. \A u \in Unit : NoMoreCarried(unit'[u], unit[u])
    BY <2>1 DEF NoMoreCarried, NewUnit
  <2>3. \A i \in Item : NoMoreLying(item'[i], item[i])
    BY <2>1 DEF NoMoreLying, NewItem
  <2> QED
    BY <2>2, <2>3, NoMore
<1> QED
  BY <1>2, <1>3, <1>4 DEF DelObject

\* The lists, and the items that are stored, spawn nothing, nor does an item that activates.
LEMMA ListsNoMore ==
  ASSUME IInv, IInv',
         \/ BeginUpdate \/ ProcessObjectToNewGridList \/ ProcessObjectRemoveList
         \/ \E i \in Item : Activate(i)
  PROVE  NoMorePieces
<1>1. unit \in [Unit -> UnitRecord] /\ item \in [Item -> ItemRecord]
  BY TypesOfWorld DEF IInv
<1>2. CASE UNCHANGED <<unit, item>>
  BY <1>2, NothingMoves DEF SameUnit, SameItem
<1>3. \A u \in Unit : unit' = unit => NoMoreCarried(unit'[u], unit[u])
  BY DEF NoMoreCarried
<1>4. CASE ProcessObjectRemoveList
  <2>1. unit' = unit /\ item' = Stored(item, toRemove \cap Item)
    BY <1>4 DEF ProcessObjectRemoveList
  <2>2. \A i \in Item : NoMoreLying(item'[i], item[i])
    BY <2>1 DEF NoMoreLying, Stored, NewItem
  <2> QED
    BY <1>3, <2>1, <2>2, NoMore
<1>5. ASSUME NEW i \in Item, Activate(i) PROVE NoMorePieces
  <2>1. unit' = unit /\ item' = [item EXCEPT ![i].state = "ACTIVE"] /\ item[i].state = "ACTIVATING"
    BY <1>5 DEF Activate
  <2>2. \A j \in Item : NoMoreLying(item'[j], item[j])
    BY <1>1, <2>1 DEF NoMoreLying, ItemRecord
  <2> QED
    BY <1>3, <2>1, <2>2, NoMore
<1> QED
  BY <1>2, <1>4, <1>5 DEF BeginUpdate, ProcessObjectToNewGridList

\* Touching, leaving and picking up move nothing yet.
LEMMA TouchNoMore ==
  ASSUME IInv, IInv', NEW u \in Unit, NEW i \in Item, Touch(u, i) \/ Leave(u, i)
  PROVE  NoMorePieces
<1>1. unit \in [Unit -> UnitRecord] /\ item \in [Item -> ItemRecord] /\ item[i] \in ItemRecord
  BY TypesOfWorld DEF IInv
<1>2. ASSUME NEW C \in SUBSET Unit
      PROVE  LET t == [World EXCEPT !.item[i].collided = C] IN
             /\ t \in Worlds /\ t.unit = unit
             /\ \A j \in Item : /\ t.item[j].inWorld = item[j].inWorld /\ t.item[j].state = item[j].state
                                /\ t.item[j].id = item[j].id /\ t.item[j].n = item[j].n
  <2> DEFINE r == [item[i] EXCEPT !.collided = C]
             f == [item EXCEPT ![i] = r]
             t == [World EXCEPT !.item[i].collided = C]
  <2>1. t = [unit |-> unit, item |-> f]
    BY DEF World
  <2>2. /\ r \in ItemRecord /\ r.inWorld = item[i].inWorld /\ r.state = item[i].state
        /\ r.id = item[i].id /\ r.n = item[i].n
    BY <1>1, <1>2 DEF ItemRecord
  <2> HIDE DEF r
  <2>3. f \in [Item -> ItemRecord]
    BY <1>1, <2>2
  <2>4. \A j \in Item : /\ f[j].inWorld = item[j].inWorld /\ f[j].state = item[j].state
                        /\ f[j].id = item[j].id /\ f[j].n = item[j].n
    BY <1>1, <2>2
  <2> HIDE DEF f, t
  <2>5. t.unit = unit /\ t.item = f
    BY <2>1
  <2>6. t \in Worlds
    BY <1>1, <2>1, <2>3 DEF Worlds
  <2> QED
    BY <2>4, <2>5, <2>6 DEF t
<1>3. ASSUME NEW t \in Worlds, t.unit = unit,
             \A j \in Item : /\ t.item[j].inWorld = item[j].inWorld /\ t.item[j].state = item[j].state
                             /\ t.item[j].id = item[j].id /\ t.item[j].n = item[j].n,
             Becomes(t) \/ Becomes(Pickup(t, u, i)) \/ Becomes(PickupStop(t, u))
      PROVE  NoMorePieces
  <2>1. /\ \A x \in Unit : unit'[x].equip = t.unit[x].equip /\ unit'[x].aid = t.unit[x].aid
        /\ \A j \in Item : /\ item'[j].inWorld = t.item[j].inWorld /\ item'[j].state = t.item[j].state
                           /\ item'[j].id = t.item[j].id /\ item'[j].n = t.item[j].n
    BY <1>3, StopKeeps, PickupKeeps DEF Becomes, SameUnit, SameItem
  <2>2. \A x \in Unit : NoMoreCarried(unit'[x], unit[x])
    BY <1>3, <2>1 DEF NoMoreCarried
  <2>3. \A j \in Item : NoMoreLying(item'[j], item[j])
    BY <1>3, <2>1 DEF NoMoreLying
  <2> QED
    BY <2>2, <2>3, NoMore
<1>4. \E C \in SUBSET Unit : LET t == [World EXCEPT !.item[i].collided = C] IN
        Becomes(t) \/ Becomes(Pickup(t, u, i)) \/ Becomes(PickupStop(t, u))
  <2> DEFINE A == item[i].collided \cup {u}
             B == item[i].collided \ {u}
  <2>1. A \in SUBSET Unit /\ B \in SUBSET Unit
    BY <1>1 DEF ItemRecord
  <2>2. /\ [World EXCEPT !.item[i].collided = @ \cup {u}] = [World EXCEPT !.item[i].collided = A]
        /\ [World EXCEPT !.item[i].collided = @ \ {u}] = [World EXCEPT !.item[i].collided = B]
    BY DEF World
  <2> QED
    BY <2>1, <2>2 DEF Touch, Leave
<1>5. PICK C \in SUBSET Unit : LET t == [World EXCEPT !.item[i].collided = C] IN
        Becomes(t) \/ Becomes(Pickup(t, u, i)) \/ Becomes(PickupStop(t, u))
  BY <1>4
<1> DEFINE t == [World EXCEPT !.item[i].collided = C]
<1>6. /\ t \in Worlds /\ t.unit = unit
      /\ \A j \in Item : /\ t.item[j].inWorld = item[j].inWorld /\ t.item[j].state = item[j].state
                         /\ t.item[j].id = item[j].id /\ t.item[j].n = item[j].n
  BY <1>2
<1>7. Becomes(t) \/ Becomes(Pickup(t, u, i)) \/ Becomes(PickupStop(t, u))
  BY <1>5
<1> HIDE DEF t
<1> QED
  BY <1>3, <1>6, <1>7

\* Using a first aid takes one.
LEMMA UseNoMore ==
  ASSUME IInv, IInv', NEW u \in Unit, UseItem(u)
  PROVE  NoMorePieces
<1> DEFINE b == unit[u].aid - 1
           r == [unit[u] EXCEPT !.aid = b]
           g == [unit EXCEPT ![u] = r]
           taken == [World EXCEPT !.unit[u].aid = @ - 1]
<1>1. unit \in [Unit -> UnitRecord] /\ item \in [Item -> ItemRecord] /\ unit[u] \in UnitRecord
  BY TypesOfWorld DEF IInv
<1>2. /\ unit[u].aid > 0
      /\ Becomes(taken) \/ Becomes(PickupStop(taken, u))
  BY DEF UseItem, TakeItem, World
<1>3. b \in 0..Stackable
  BY <1>1, <1>2, TemplateAssumption DEF UnitRecord
<1>4. taken = [unit |-> g, item |-> item]
  <2> DEFINE h == [unit EXCEPT ![u].aid = @ - 1]
  <2>1. taken = [World EXCEPT !.unit = h]
    BY DEF World
  <2>2. h = g
    OBVIOUS
  <2> HIDE DEF taken, g, h
  <2> QED
    BY <2>1, <2>2 DEF World
<1> HIDE DEF b
<1>5. r \in UnitRecord /\ r.equip = unit[u].equip /\ r.aid = b
  BY <1>1, <1>3 DEF UnitRecord
<1> HIDE DEF r
<1>6. g \in [Unit -> UnitRecord] /\ g[u] = r /\ \A x \in Unit : x # u => g[x] = unit[x]
  BY <1>1, <1>5
<1> HIDE DEF g, taken
<1>7. taken \in Worlds /\ taken.unit = g /\ taken.item = item
  BY <1>1, <1>4, <1>6 DEF Worlds
<1>8. /\ \A x \in Unit : unit'[x].equip = g[x].equip /\ unit'[x].aid = g[x].aid
      /\ \A j \in Item : /\ item'[j].inWorld = item[j].inWorld /\ item'[j].state = item[j].state
                         /\ item'[j].id = item[j].id /\ item'[j].n = item[j].n
  <2>1. CASE Becomes(taken)
    BY <1>7, <2>1 DEF Becomes
  <2>2. CASE Becomes(PickupStop(taken, u))
    <3>1. /\ \A x \in Unit : SameUnit(PickupStop(taken, u).unit[x], taken.unit[x])
          /\ \A j \in Item : SameItem(PickupStop(taken, u).item[j], taken.item[j])
      BY <1>7, StopKeeps
    <3> QED
      BY <1>7, <2>2, <3>1 DEF Becomes, SameUnit, SameItem
  <2> QED
    BY <1>2, <2>1, <2>2
<1>9. ASSUME NEW x \in Unit PROVE NoMoreCarried(unit'[x], unit[x])
  <2>1. CASE x = u
    BY <1>2, <1>5, <1>6, <1>8, <2>1 DEF NoMoreCarried, b
  <2>2. CASE x # u
    BY <1>6, <1>8, <2>2 DEF NoMoreCarried
  <2> QED
    BY <2>1, <2>2
<1>10. \A j \in Item : NoMoreLying(item'[j], item[j])
  BY <1>8 DEF NoMoreLying
<1> QED
  BY <1>9, <1>10, NoMore

\* An item on the map has the data it was loaded with.
LEMMA PutOnMapData ==
  ASSUME NEW w \in Worlds, NEW D \in SUBSET Item, NEW f, NEW state, NEW d \in D
  PROVE  LET v == PutOnMap(w, D, f, state) IN v.item[d].id = f[d].id /\ v.item[d].n = f[d].n
BY DEF PutOnMap, Worlds

\* It stays within the types.
LEMMA PutOnMapWorld ==
  ASSUME NEW w \in Worlds, NEW D \in SUBSET Item, NEW f, NEW state \in StatesOnMap,
         \A d \in D : f[d] \in Data
  PROVE  PutOnMap(w, D, f, state) \in Worlds
<1> DEFINE v == PutOnMap(w, D, f, state)
           put(i) == [inWorld |-> TRUE, state |-> state, id |-> f[i].id, n |-> f[i].n,
                      respawns |-> f[i].respawns,
                      pickers |-> IF state = "INACTIVE" THEN {} ELSE w.item[i].pickers,
                      collided |-> IF state = "INACTIVE" THEN {} ELSE w.item[i].collided]
           F == [i \in Item |-> IF i \notin D THEN w.item[i] ELSE put(i)]
<1>1. w.unit \in [Unit -> UnitRecord] /\ w.item \in [Item -> ItemRecord]
      /\ w = [unit |-> w.unit, item |-> w.item]
  BY DEF Worlds
<1>2. v = [w EXCEPT !.item = F]
  BY DEF PutOnMap
<1>3. \A i \in D : put(i) \in ItemRecord
  <2> SUFFICES ASSUME NEW i \in D PROVE put(i) \in ItemRecord
    OBVIOUS
  <2>1. w.item[i].pickers \in SUBSET Unit /\ w.item[i].collided \in SUBSET Unit /\ f[i] \in Data
    BY <1>1 DEF ItemRecord
  <2> QED
    BY <2>1 DEF ItemRecord, Data, StatesOnMap
<1> HIDE DEF put
<1>4. F \in [Item -> ItemRecord]
  BY <1>1, <1>3
<1> HIDE DEF F, v
<1> QED
  BY <1>1, <1>2, <1>4 DEF Worlds, v

\* What is left behind at death is taken from its owner.
LEMMA DieNoMore ==
  ASSUME IInv, IInv', NEW u \in Unit, NEW D \in Takeable, NEW f \in [D -> Template], Die(u, f)
  PROVE  NoMorePieces
<1> DEFINE F == [d \in D |-> Dropped(f[d], 1)]
           left == PutOnMap(World, D, F, "ACTIVATING")
           s == PickupStop(left, u)
           r == [s.unit[u] EXCEPT !.alive = FALSE, !.equip = None, !.aid = 0]
           v == [s EXCEPT !.unit[u].alive = FALSE, !.unit[u].equip = None, !.unit[u].aid = 0]
<1>1. DOMAIN f = D
  OBVIOUS
<1>2. IsLoot(u, f) /\ Becomes(v)
  BY <1>1 DEF Die
<1>3. D \in SUBSET Item /\ \A d \in D : ~item[d].inWorld
  BY TakeableItems
<1>4. \A d \in D : F[d] \in Data
  <2>1. 1 \in 0..MaxCount
    BY TemplateAssumption
  <2> QED
    BY <2>1, DroppedType
<1>5. \A d \in D : F[d].id = f[d] /\ F[d].n = IF f[d] = FirstAid THEN 1 ELSE 0
  BY DEF Dropped
<1> HIDE DEF F
<1>6. /\ Sound(left) /\ left \in Worlds
      /\ left.unit = unit
      /\ \A i \in Item \ D : left.item[i] = item[i]
      /\ \A d \in D : left.item[d].id = F[d].id /\ left.item[d].n = F[d].n
  <2>1. "ACTIVATING" \in StatesOnMap /\ World \in Worlds /\ World.unit = unit /\ World.item = item
    BY DEF StatesOnMap, IInv, Sound, World
  <2>2. Sound(left) /\ left.unit = World.unit /\ \A i \in Item \ D : left.item[i] = World.item[i]
    BY <1>4, <2>1, TakenSound
  <2>3. \A d \in D : left.item[d].id = F[d].id /\ left.item[d].n = F[d].n
    BY <1>3, <2>1, PutOnMapData
  <2> HIDE DEF left
  <2> QED
    BY <2>1, <2>2, <2>3 DEF Sound
<1> HIDE DEF left
<1>7. /\ s.unit \in [Unit -> UnitRecord] /\ s.item \in [Item -> ItemRecord]
      /\ s = [unit |-> s.unit, item |-> s.item]
      /\ \A x \in Unit : SameUnit(s.unit[x], left.unit[x])
      /\ \A i \in Item : SameItem(s.item[i], left.item[i])
  <2>1. Sound(s)
    BY <1>6, PickupStopSound
  <2>2. /\ \A x \in Unit : SameUnit(s.unit[x], left.unit[x])
        /\ \A i \in Item : SameItem(s.item[i], left.item[i])
    BY <1>6, StopKeeps
  <2> HIDE DEF s
  <2> QED
    BY <2>1, <2>2 DEF Sound, Worlds
<1> HIDE DEF s
<1>8. v = [unit |-> [s.unit EXCEPT ![u] = r], item |-> s.item]
  <2> DEFINE a == [s EXCEPT !.unit[u].alive = FALSE]
             b == [a EXCEPT !.unit[u].equip = None]
             g == [s.unit EXCEPT ![u].alive = FALSE]
             h == [g EXCEPT ![u].equip = None]
  <2>1. a = [unit |-> g, item |-> s.item]
    <3>1. a = [s EXCEPT !.unit = g]
      OBVIOUS
    <3>2. [s EXCEPT !.unit = g] = [unit |-> g, item |-> s.item]
      <4> HIDE DEF g
      <4> QED
        BY <1>7
    <3> QED
      BY <3>1, <3>2
  <2>2. v = [b EXCEPT !.unit[u].aid = 0]
    OBVIOUS
  <2>3. b = [unit |-> h, item |-> s.item]
    <3> HIDE DEF a, g
    <3> QED
      BY <2>1
  <2>4. v = [unit |-> [h EXCEPT ![u].aid = 0], item |-> s.item]
    <3> HIDE DEF b, h, v
    <3> QED
      BY <2>2, <2>3
  <2>5. [h EXCEPT ![u].aid = 0] = [s.unit EXCEPT ![u] = r]
    BY <1>7
  <2> QED
    BY <2>4, <2>5
<1>9. r.equip = None /\ r.aid = 0
  BY <1>7 DEF UnitRecord
<1> HIDE DEF r, v
<1>10. unit' = [s.unit EXCEPT ![u] = r] /\ item' = s.item
  BY <1>2, <1>8 DEF Becomes
<1>11. /\ \A x \in Unit : x # u => unit'[x].equip = unit[x].equip /\ unit'[x].aid = unit[x].aid
       /\ unit'[u].equip = None /\ unit'[u].aid = 0
  BY <1>6, <1>7, <1>9, <1>10 DEF SameUnit
<1>12. /\ \A i \in Item \ D : /\ item'[i].inWorld = item[i].inWorld /\ item'[i].state = item[i].state
                              /\ item'[i].id = item[i].id /\ item'[i].n = item[i].n
       /\ \A d \in D : item'[d].id = f[d] /\ (f[d] = FirstAid => item'[d].n = 1)
  BY <1>3, <1>5, <1>6, <1>7, <1>10 DEF SameItem
<1> SUFFICES ASSUME NEW id \in Template PROVE Pieces(id)' <= Pieces(id)
  BY DEF NoMorePieces
<1> DEFINE C == {d \in D : f[d] = id}
           G == [j \in Item |-> Lies(item[j], id)]
<1>13. unit \in [Unit -> UnitRecord] /\ item \in [Item -> ItemRecord]
  BY TypesOfWorld DEF IInv
<1>14. C \in SUBSET Item /\ G \in [Item -> Nat]
  BY <1>3, <1>13, PieceTypes
<1>15. \A x \in Unit : x # u => Has(unit'[x], id) = Has(unit[x], id)
  BY <1>11 DEF Has
<1>16. ASSUME NEW j \in Item PROVE Lies(item'[j], id) <= G[j] + (IF j \in C THEN 1 ELSE 0)
  <2>1. G[j] = Lies(item[j], id) /\ G[j] \in Nat
    BY <1>14
  <2>2. CASE j \notin D
    <3>1. Lies(item'[j], id) = Lies(item[j], id)
      BY <1>12, <2>2 DEF Lies
    <3>2. j \notin C
      BY <2>2
    <3> QED
      BY <2>1, <3>1, <3>2
  <2>3. CASE j \in D /\ f[j] # id
    <3>1. Lies(item'[j], id) = 0 /\ j \notin C
      BY <1>12, <2>3 DEF Lies
    <3> QED
      BY <2>1, <3>1
  <2>4. CASE j \in D /\ f[j] = id
    <3>1. Lies(item'[j], id) \in {0, 1} /\ j \in C
      BY <1>12, <2>4 DEF Lies
    <3> QED
      BY <2>1, <3>1
  <2> QED
    BY <2>2, <2>3, <2>4
<1>17. SumFunctionOnSet([j \in Item |-> Lies(item[j], id)], Item) = SumFunctionOnSet(G, Item) + 0
  <2>1. Summable(G, Item)
    BY <1>13, PiecesSummable
  <2>2. SumFunctionOnSet(G, Item) \in Nat
    BY <2>1, SumSteps
  <2> QED
    BY <2>2
<1>18. Has(unit'[u], id) + Cardinality(C) <= Has(unit[u], id) + 0
  <2>1. IsFiniteSet(C) /\ Cardinality(C) \in Nat
    BY <1>14, ObjectAssumption, FS_Subset, FS_CardinalityType
  <2>2. Has(unit[u], id) \in Nat
    BY <1>13, PieceTypes
  <2>3. Has(unit'[u], id) = 0
    BY <1>11, ObjectAssumption DEF Has
  <2>4. Cardinality(C) <= Has(unit[u], id)
    <3>1. CASE id = FirstAid
      BY <1>1, <1>2, <3>1 DEF IsLoot, Has
    <3>2. CASE id # FirstAid /\ unit[u].equip = id
      BY <1>1, <1>2, <3>2 DEF IsLoot, Has
    <3>3. CASE id # FirstAid /\ unit[u].equip # id
      <4>1. C = {}
        BY <1>1, <1>2, <3>3 DEF IsLoot
      <4> HIDE DEF C
      <4>2. Cardinality(C) = 0
        BY <4>1, FS_EmptySet
      <4> QED
        BY <2>2, <4>2
    <3> QED
      BY <3>1, <3>2, <3>3
  <2> HIDE DEF C
  <2> QED
    BY <2>1, <2>2, <2>3, <2>4
<1> HIDE DEF C
<1> QED
  BY <1>14, <1>15, <1>16, <1>17, <1>18, Moved

\* The smaller of two numbers is at most the first.
LEMMA MinAtMost ==
  ASSUME NEW a \in Nat, NEW b \in Nat
  PROVE  Min({a, b}) <= a
<1>1. \E x \in {a, b} : \A y \in {a, b} : x <= y
  OBVIOUS
<1>2. \A y \in {a, b} : Min({a, b}) <= y
  BY <1>1 DEF Min
<1> QED
  BY <1>2

\* What a unit stores it has no more of than it got.
LEMMA StoreItemPieces ==
  ASSUME NEW r \in UnitRecord, NEW id \in Template, NEW n \in 0..MaxCount
  PROVE  LET q == StoreItem(r, id, n) IN
         IF id = FirstAid THEN q.equip = r.equip /\ q.aid \in Nat /\ q.aid <= r.aid + n
         ELSE q.equip = id /\ q.aid = r.aid
<1> DEFINE m == Min({r.aid + n, Stackable})
<1>1. r.aid \in Nat /\ n \in Nat /\ Stackable \in Nat
  BY TemplateAssumption DEF UnitRecord
<1>2. m \in Nat /\ m <= r.aid + n
  BY <1>1, MinOfTwo, MinAtMost
<1>3. StoreItem(r, id, n) = IF id = FirstAid THEN [r EXCEPT !.aid = m] ELSE [r EXCEPT !.equip = id]
  BY DEF StoreItem
<1> HIDE DEF m
<1> QED
  BY <1>2, <1>3 DEF UnitRecord

(***************************************************************************)
(* What receiveItem() leaves: the item is taken, the unit has it, and what *)
(* it wore lies on the ground if the new one takes its place.              *)
(***************************************************************************)
Exchanged(u, D) ==
    LET i == unit[u].pickingUp
        r == StoreItem(unit[u], item[i].id, item[i].n)
    IN
    /\ i \in Item /\ item[i].inWorld /\ item[i].state = "ACTIVE"
    /\ D \in SUBSET (Item \ {i}) /\ \A d \in D : ~item[d].inWorld
    /\ Cardinality(D) = IF item[i].id \in Equipment /\ unit[u].equip # None THEN 1 ELSE 0
    /\ \A x \in Unit : x # u => unit'[x].equip = unit[x].equip /\ unit'[x].aid = unit[x].aid
    /\ unit'[u].equip = r.equip /\ unit'[u].aid = r.aid
    /\ ~item'[i].inWorld \/ item'[i].state = "INACTIVE"
    /\ \A d \in D : item'[d].id = unit[u].equip
    /\ \A j \in Item \ (D \cup {i}) :
          /\ item'[j].inWorld = item[j].inWorld /\ item'[j].state = item[j].state
          /\ item'[j].id = item[j].id /\ item'[j].n = item[j].n

\* An item is received in exchange for what is worn.
LEMMA Received ==
  ASSUME IInv, NEW u \in Unit, NEW D \in Takeable, NEW back \in BOOLEAN, NEW crossing \in BOOLEAN,
         unit[u].pickingUp # None, ReceiveItem(u, D, back, crossing)
  PROVE  Exchanged(u, D)
<1> DEFINE i == unit[u].pickingUp
           q == StoreItem(unit[u], item[i].id, item[i].n)
           w == IF back THEN Inactivate(World, i) ELSE CleanupItem(World, i)
           r == StoreItem(w.unit[u], item[i].id, item[i].n)
           stored == [w EXCEPT !.unit[u] = StoreItem(@, item[i].id, item[i].n)]
           x == [unit |-> [w.unit EXCEPT ![u] = r], item |-> w.item]
           f == [d \in D |-> Dropped(unit[u].equip, 0)]
           y == PutOnMap(x, D, f, "ACTIVATING")
           z == PickupStop(y, u)
<1>1. unit \in [Unit -> UnitRecord] /\ item \in [Item -> ItemRecord] /\ unit[u] \in UnitRecord
      /\ Sound(World) /\ World.unit = unit /\ World.item = item
  BY TypesOfWorld DEF IInv, World
<1>2. i \in Item /\ item[i].inWorld /\ item[i].state = "ACTIVE" /\ item[i] \in ItemRecord
  <2>1. i \in Item
    BY <1>1 DEF UnitRecord
  <2>2. item[i].inWorld /\ item[i].state = "ACTIVE"
    BY <1>1 DEF Sound, Present
  <2> QED
    BY <1>1, <2>1, <2>2
<1>3. /\ Cardinality(D) = IF item[i].id \in Equipment /\ unit[u].equip # None THEN 1 ELSE 0
      /\ Becomes(PickupStop(PutOnMap(stored, D, f, "ACTIVATING"), u))
  BY DEF ReceiveItem
<1>4. D \in SUBSET (Item \ {i}) /\ \A d \in D : ~item[d].inWorld /\ item[d].pickers = {}
  BY <1>2, TakeableItems
<1>5. \A d \in D : f[d] \in Data /\ f[d].id = unit[u].equip
  <2> SUFFICES ASSUME NEW d \in D
               PROVE  /\ Dropped(unit[u].equip, 0) \in Data
                      /\ Dropped(unit[u].equip, 0).id = unit[u].equip
    OBVIOUS
  <2>1. Cardinality(D) # 0
    <3>1. IsFiniteSet(D)
      BY <1>4, ObjectAssumption, FS_Subset
    <3> QED
      BY <3>1, FS_EmptySet
  <2>2. unit[u].equip \in Template
    BY <1>1, <1>3, <2>1 DEF UnitRecord, Template
  <2>3. 0 \in 0..MaxCount
    BY TemplateAssumption
  <2>4. Dropped(unit[u].equip, 0) \in Data
    BY <2>2, <2>3, DroppedType
  <2> QED
    BY <2>4 DEF Dropped
<1>6. /\ Sound(w) /\ w.unit[u].pickingUp = None
      /\ \A v \in Unit : SameUnit(w.unit[v], unit[v])
      /\ \A j \in Item : j # i => w.item[j] = item[j]
      /\ ~w.item[i].inWorld \/ w.item[i].state = "INACTIVE"
  <2>1. CASE back = TRUE
    <3>1. w = Inactivate(World, i)
      BY <2>1
    <3> DEFINE a == Inactivate(World, i)
    <3>2. /\ Sound(a)
          /\ \A v \in Unit : SameUnit(a.unit[v], World.unit[v])
          /\ \A v \in Unit : a.unit[v].pickingUp
                            = IF World.unit[v].pickingUp = i THEN None ELSE World.unit[v].pickingUp
          /\ \A j \in Item : j # i => a.item[j] = World.item[j]
          /\ a.item[i] = [World.item[i] EXCEPT !.collided = {}, !.state = "INACTIVE", !.n = 0, !.pickers = {}]
      BY <1>1, <1>2, InactivateSound, ZenonT(40)
    <3> HIDE DEF a, w
    <3>3. a.item[i].state = "INACTIVE"
      BY <1>1, <1>2, <3>2 DEF ItemRecord
    <3> QED
      BY <1>1, <3>1, <3>2, <3>3 DEF a
  <2>2. CASE back = FALSE
    <3>1. w = CleanupItem(World, i)
      BY <2>2
    <3> DEFINE a == CleanupItem(World, i)
    <3>2. /\ Sound(a)
          /\ \A v \in Unit : SameUnit(a.unit[v], World.unit[v])
          /\ \A v \in Unit : a.unit[v].pickingUp
                            = IF World.unit[v].pickingUp = i THEN None ELSE World.unit[v].pickingUp
          /\ \A j \in Item : j # i => a.item[j] = World.item[j]
          /\ a.item[i] = [World.item[i] EXCEPT !.collided = {}, !.inWorld = FALSE, !.pickers = {}]
      BY <1>1, <1>2, CleanupItemSound, ZenonT(40)
    <3> HIDE DEF a, w
    <3>3. ~a.item[i].inWorld
      BY <1>1, <1>2, <3>2 DEF ItemRecord
    <3> QED
      BY <1>1, <3>1, <3>2, <3>3 DEF a
  <2> QED
    BY <2>1, <2>2
<1> HIDE DEF w
<1>7. /\ w.unit \in [Unit -> UnitRecord] /\ w.item \in [Item -> ItemRecord] /\ w.unit[u] \in UnitRecord
      /\ w = [unit |-> w.unit, item |-> w.item]
  BY <1>6 DEF Sound, Worlds
<1>8. stored = x
  <2> DEFINE g == [w.unit EXCEPT ![u] = r]
  <2>1. stored = [w EXCEPT !.unit = g]
    OBVIOUS
  <2> HIDE DEF g, stored
  <2> QED
    BY <1>7, <2>1 DEF g
<1>9. r \in UnitRecord /\ r.equip = q.equip /\ r.aid = q.aid
  <2>1. item[i].id \in Template /\ item[i].n \in 0..MaxCount
    BY <1>2 DEF ItemRecord
  <2>2. r \in UnitRecord
    <3> HIDE DEF i
    <3> QED
      BY <1>7, <2>1, StoreItemType
  <2>3. w.unit[u].equip = unit[u].equip /\ w.unit[u].aid = unit[u].aid
    BY <1>6 DEF SameUnit
  <2>4. r.equip = q.equip /\ r.aid = q.aid
    BY <1>1, <1>7, <2>3 DEF StoreItem, UnitRecord
  <2> QED
    BY <2>2, <2>4
<1> HIDE DEF r, q
<1>10. x \in Worlds /\ x.item = w.item /\ x.unit[u] = r /\ \A v \in Unit : v # u => x.unit[v] = w.unit[v]
  BY <1>7, <1>9 DEF Worlds
<1> HIDE DEF x, f, stored
<1>11. /\ y \in Worlds /\ y.unit = x.unit
       /\ \A j \in Item \ D : y.item[j] = x.item[j]
       /\ \A d \in D : y.item[d].id = unit[u].equip
  <2>1. "ACTIVATING" \in StatesOnMap
    BY DEF StatesOnMap
  <2>2. \A d \in D : y.item[d].id = unit[u].equip
    BY <1>4, <1>5, <1>10, PutOnMapData
  <2>3. y.unit = x.unit /\ \A j \in Item \ D : y.item[j] = x.item[j]
    BY <1>10 DEF PutOnMap, Worlds
  <2>4. y \in Worlds
    BY <1>4, <1>5, <1>10, <2>1, PutOnMapWorld
  <2> QED
    BY <2>2, <2>3, <2>4
<1> HIDE DEF y
<1>12. /\ \A v \in Unit : SameUnit(z.unit[v], y.unit[v])
       /\ \A j \in Item : SameItem(z.item[j], y.item[j])
  BY <1>11, StopKeeps
<1>13. unit' = z.unit /\ item' = z.item
  BY <1>3, <1>8 DEF Becomes, y, z
<1> HIDE DEF z
<1>14. /\ \A v \in Unit : v # u => unit'[v].equip = unit[v].equip /\ unit'[v].aid = unit[v].aid
       /\ unit'[u].equip = q.equip /\ unit'[u].aid = q.aid
  BY <1>6, <1>9, <1>10, <1>11, <1>12, <1>13 DEF SameUnit
<1>15. /\ ~item'[i].inWorld \/ item'[i].state = "INACTIVE"
       /\ \A d \in D : item'[d].id = unit[u].equip
       /\ \A j \in Item \ (D \cup {i}) :
               /\ item'[j].inWorld = item[j].inWorld /\ item'[j].state = item[j].state
               /\ item'[j].id = item[j].id /\ item'[j].n = item[j].n
  <2>1. \A j \in Item : /\ item'[j].inWorld = y.item[j].inWorld /\ item'[j].state = y.item[j].state
                        /\ item'[j].id = y.item[j].id /\ item'[j].n = y.item[j].n
    BY <1>12, <1>13 DEF SameItem
  <2>2. y.item[i] = w.item[i]
    BY <1>2, <1>4, <1>10, <1>11
  <2>3. \A j \in Item \ (D \cup {i}) : y.item[j] = item[j]
    BY <1>6, <1>10, <1>11
  <2>4. ~item'[i].inWorld \/ item'[i].state = "INACTIVE"
    BY <1>2, <1>6, <2>1, <2>2
  <2>5. \A d \in D : item'[d].id = unit[u].equip
    BY <1>4, <1>11, <2>1
  <2> QED
    BY <2>1, <2>3, <2>4, <2>5
<1> QED
  BY <1>2, <1>3, <1>4, <1>14, <1>15 DEF q, Exchanged

\* An item that is received is taken from the ground; what is worn is dropped for it.
LEMMA ReceiveNoMore ==
  ASSUME IInv, IInv', NEW u \in Unit, NEW D \in Takeable, NEW back \in BOOLEAN, NEW crossing \in BOOLEAN,
         unit[u].pickingUp # None, CanStoreItem(unit[u], item[unit[u].pickingUp].id),
         ReceiveItem(u, D, back, crossing)
  PROVE  NoMorePieces
<1> DEFINE i == unit[u].pickingUp
           r == StoreItem(unit[u], item[i].id, item[i].n)
<1>1. /\ i \in Item /\ item[i].inWorld /\ item[i].state = "ACTIVE"
      /\ D \in SUBSET (Item \ {i}) /\ \A d \in D : ~item[d].inWorld
      /\ Cardinality(D) = IF item[i].id \in Equipment /\ unit[u].equip # None THEN 1 ELSE 0
      /\ \A x \in Unit : x # u => unit'[x].equip = unit[x].equip /\ unit'[x].aid = unit[x].aid
      /\ unit'[u].equip = r.equip /\ unit'[u].aid = r.aid
      /\ ~item'[i].inWorld \/ item'[i].state = "INACTIVE"
      /\ \A d \in D : item'[d].id = unit[u].equip
      /\ \A j \in Item \ (D \cup {i}) :
            /\ item'[j].inWorld = item[j].inWorld /\ item'[j].state = item[j].state
            /\ item'[j].id = item[j].id /\ item'[j].n = item[j].n
  <2>1. Exchanged(u, D)
    BY Received
  <2> QED
    BY <2>1 DEF Exchanged
<1>2. unit \in [Unit -> UnitRecord] /\ item \in [Item -> ItemRecord]
      /\ unit[u] \in UnitRecord /\ item[i] \in ItemRecord
  BY <1>1, TypesOfWorld DEF IInv
<1>3. item[i].id \in Template /\ item[i].n \in 0..MaxCount
  BY <1>2 DEF ItemRecord
<1>4. IF item[i].id = FirstAid THEN r.equip = unit[u].equip /\ r.aid \in Nat /\ r.aid <= unit[u].aid + item[i].n
      ELSE r.equip = item[i].id /\ r.aid = unit[u].aid
  BY <1>2, <1>3, StoreItemPieces
<1>5. item[i].id # FirstAid => unit[u].equip # item[i].id
  BY <1>3, ObjectAssumption DEF CanStoreItem
<1> HIDE DEF r, i
<1> SUFFICES ASSUME NEW id \in Template PROVE Pieces(id)' <= Pieces(id)
  BY DEF NoMorePieces
<1> DEFINE C == {d \in D : unit[u].equip = id}
           G == [j \in Item |-> Lies(item[j], id)]
           F == [j \in Item |-> IF j = i THEN 0 ELSE Lies(item[j], id)]
           k == Lies(item[i], id)
<1>6. C \in SUBSET Item /\ G \in [Item -> Nat] /\ F \in [Item -> Nat] /\ k \in Nat
  BY <1>1, <1>2, PieceTypes
<1>7. \A x \in Unit : x # u => Has(unit'[x], id) = Has(unit[x], id)
  BY <1>1 DEF Has
<1>8. ASSUME NEW j \in Item PROVE Lies(item'[j], id) <= F[j] + (IF j \in C THEN 1 ELSE 0)
  <2>1. CASE j = i
    <3>1. Lies(item'[j], id) = 0
      BY <1>1, <2>1 DEF Lies
    <3>2. F[j] \in Nat
      BY <1>6
    <3> HIDE DEF F, C
    <3> QED
      BY <3>1, <3>2
  <2>2. CASE j \in D /\ unit[u].equip # id
    <3>1. Lies(item'[j], id) = 0
      BY <1>1, <2>2 DEF Lies
    <3>2. F[j] \in Nat
      BY <1>6
    <3> HIDE DEF F, C
    <3> QED
      BY <3>1, <3>2
  <2>3. CASE j \in D /\ unit[u].equip = id
    <3>1. id # FirstAid
      BY <1>2, <2>3, TemplateAssumption, ObjectAssumption DEF UnitRecord, Template
    <3>2. Lies(item'[j], id) \in {0, 1} /\ j \in C
      BY <2>3, <3>1 DEF Lies
    <3>3. F[j] \in Nat
      BY <1>6
    <3> HIDE DEF F, C
    <3> QED
      BY <3>2, <3>3
  <2>4. CASE j # i /\ j \notin D
    <3>1. Lies(item'[j], id) = F[j] /\ j \notin C
      BY <1>1, <2>4 DEF Lies
    <3>2. F[j] \in Nat
      BY <1>6
    <3> HIDE DEF F, C
    <3> QED
      BY <3>1, <3>2
  <2> QED
    BY <2>1, <2>2, <2>3, <2>4
<1>9. SumFunctionOnSet(G, Item) = SumFunctionOnSet(F, Item) + k
  <2>1. Summable(F, Item) /\ Summable(G, Item)
    BY <1>6, ObjectAssumption DEF Summable
  <2>2. i \in Item /\ G[i] = k /\ F[i] = 0 /\ \A j \in Item : j # i => G[j] = F[j]
    BY <1>1
  <2> HIDE DEF F, G, k
  <2>3. SumFunctionOnSet(G, Item) = SumFunctionOnSet(F, Item) - F[i] + G[i]
    BY <2>1, <2>2, SumChangeOne
  <2>4. SumFunctionOnSet(F, Item) \in Nat
    BY <2>1, SumSteps
  <2> QED
    BY <1>6, <2>2, <2>3, <2>4
<1>10. Has(unit'[u], id) + Cardinality(C) <= Has(unit[u], id) + k
  <2>1. unit[u].aid \in Nat /\ item[i].n \in Nat /\ id # None
    BY <1>2, <1>3, TemplateAssumption, ObjectAssumption DEF UnitRecord
  <2>2. k = IF item[i].id # id THEN 0 ELSE IF id = FirstAid THEN item[i].n ELSE 1
    BY <1>1 DEF Lies
  <2>3. CASE unit[u].equip # id
    <3>1. C = {}
      BY <2>3
    <3> HIDE DEF C, k
    <3>2. Cardinality(C) = 0
      BY <3>1, FS_EmptySet
    <3>3. Has(unit'[u], id) <= Has(unit[u], id) + k
      BY <1>1, <1>3, <1>4, <2>1, <2>2, <2>3 DEF Has
    <3>4. Has(unit'[u], id) \in Nat /\ Has(unit[u], id) \in Nat
      BY <1>2, TypesAfter, PieceTypes
    <3> QED
      BY <1>6, <3>2, <3>3, <3>4
  <2>4. CASE unit[u].equip = id
    <3>1. C = D
      BY <2>4
    <3>2. id # FirstAid /\ id \in Equipment
      BY <1>2, <2>1, <2>4, TemplateAssumption DEF UnitRecord
    <3>3. Has(unit[u], id) = 1
      BY <2>4, <3>2 DEF Has
    <3> HIDE DEF C, k
    <3>4. CASE item[i].id = FirstAid
      <4>1. item[i].id \notin Equipment
        BY <3>4, TemplateAssumption
      <4>2. Cardinality(C) = 0
        BY <1>1, <3>1, <4>1
      <4>3. Has(unit'[u], id) = 1
        BY <1>1, <1>4, <2>4, <3>2, <3>4 DEF Has
      <4> QED
        BY <1>6, <3>3, <4>2, <4>3
    <3>5. CASE item[i].id # FirstAid
      <4>1. Cardinality(C) = 1
        BY <1>1, <1>3, <2>1, <2>4, <3>1, <3>5 DEF Template
      <4>2. Has(unit'[u], id) = 0
        BY <1>1, <1>4, <1>5, <2>4, <3>2, <3>5 DEF Has
      <4> QED
        BY <1>6, <3>3, <4>1, <4>2
    <3> QED
      BY <3>4, <3>5
  <2> QED
    BY <2>3, <2>4
<1>11. SumFunctionOnSet([j \in Item |-> Lies(item[j], id)], Item) = SumFunctionOnSet(F, Item) + k
  BY <1>9
<1> HIDE DEF C, F, k
<1> QED
  BY <1>6, <1>7, <1>8, <1>10, <1>11, Moved

\* The timer of a pickup, whether the item is received or not.
LEMMA PickupTimerNoMore ==
  ASSUME IInv, IInv', NEW u \in Unit, UpdatePickupTimer(u)
  PROVE  NoMorePieces
<1>1. unit[u].pickingUp # None
  BY DEF UpdatePickupTimer
<1>2. CASE /\ CanStoreItem(unit[u], item[unit[u].pickingUp].id)
           /\ \E D \in Takeable, back, crossing \in BOOLEAN : ReceiveItem(u, D, back, crossing)
  BY <1>1, <1>2, ReceiveNoMore
<1>3. CASE Becomes(PickupStop(World, u))
  <2>1. World \in Worlds /\ World.unit = unit /\ World.item = item
    BY DEF IInv, Sound, World
  <2>2. /\ \A x \in Unit : SameUnit(PickupStop(World, u).unit[x], World.unit[x])
        /\ \A j \in Item : SameItem(PickupStop(World, u).item[j], World.item[j])
    BY <2>1, StopKeeps
  <2>3. /\ \A x \in Unit : SameUnit(unit'[x], unit[x])
        /\ \A j \in Item : SameItem(item'[j], item[j])
    BY <1>3, <2>1, <2>2 DEF Becomes
  <2> QED
    BY <2>3, NothingMoves
<1> QED
  BY <1>2, <1>3 DEF UpdatePickupTimer

\* Every step but those that spawn.
LEMMA NextNoMore ==
  ASSUME IInv, IInv', Next
  PROVE  NoMorePieces \/ Spawn
<1>1. CASE \/ \E p \in Player : JoinBattle(p) \/ LogoutPlayer(p)
           \/ \E r \in Robot : AddRobot(r) \/ WithdrawRobot(r) \/ RelocateRobot(r)
  BY <1>1, MembersNoMore
<1>2. CASE (\E o \in Robot \cup Item : DelObject(o)) \/ CleanupAllGrids
  BY <1>2, DeletionNoMore
<1>3. CASE \/ BeginUpdate \/ ProcessObjectToNewGridList \/ ProcessObjectRemoveList
           \/ \E i \in Item : Activate(i)
  BY <1>3, ListsNoMore
<1>4. CASE \E u \in Unit : UpdatePickupTimer(u) \/ UseItem(u) \/ \E i \in Item : Touch(u, i) \/ Leave(u, i)
  BY <1>4, PickupTimerNoMore, UseNoMore, TouchNoMore
<1>5. CASE \E u \in Unit : \E D \in Takeable : \E f \in [D -> Template] : Die(u, f)
  BY <1>5, DieNoMore
<1> QED
  BY <1>1, <1>2, <1>3, <1>4, <1>5 DEF Next

(***************************************************************************)
(* Nothing is duplicated: no step but one that spawns makes more of a       *)
(* template (Unit::storeItem(), takeItem(), CarriedItem::drop(), the loot   *)
(* of died(), takeReusableObject()).                                        *)
(***************************************************************************)
THEOREM NoDuplicationCorrect == Spec => NoDuplication
<1>1. Init => IInv
  BY InitSound
<1>2. IInv /\ [Next]_vars => IInv'
  BY StepSound
<1>3. IInv /\ IInv' /\ [Next]_vars => [(\A id \in Template : Pieces(id)' <= Pieces(id)) \/ Spawn]_vars
  BY NextNoMore DEF NoMorePieces
<1> QED
  BY <1>1, <1>2, <1>3, PTL DEF Spec, NoDuplication
=============================================================================
