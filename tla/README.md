# SnowFight server: TLA+ models, model checking and proofs

This directory is a verification development for the SnowFight Go game server
(C++, Boost.Asio). It models the parts of the server whose correctness depends on
order, concurrency, limits or long sequences of calls, checks them with TLC on
small instances and proves the most important results with TLAPS for every value
of the constants. Paths below are relative to the repository root.

## 1. The system

Three processes are built from `src/`: the **auth server** (hands a client a realm),
the **NTS server** (network time) and the **world server** (the game). The world
server is where most of the state is. All three are started, controlled by messages from
another process and shut down in the same way.

Threads of the world server:

| thread | runs |
|---|---|
| main | `World::updateLoop` -> `TheaterManager::update` once per tick: sessions, theaters, opcode handlers |
| theater workers (`TheaterUpdateThreads`) | `Theater::update` of one theater each, only while the main thread waits in `waitUpdate` |
| network threads (`Network.Threads`) | socket reads and writes, `WorldSocket::onReceivedData` |
| io_service pool (`ThreadPool`) | accepting connections, signals, asynchronous logging |

In the auth and the NTS server the main thread waits for messages of an interprocess
queue instead.

### Inventory

| component | state | operations | interacts with |
|---|---|---|---|
| `TheaterUpdater`, `BlockingQueue` | task queue, pending-task counter, worker threads | schedule, wait, finish, stop, cancel | `TheaterManager` (main thread), `Theater::update` (workers) |
| `TheaterManager` | sessions by id, waiting queue, expired list, pending (from the network), player and GM counts, theaters | admit, restore, queue, expire, kick all, purge theaters | `WorldSession`, `Theater`, `WorldSocket` |
| `WorldSession` | id, player, theater, socket, flags, timeout timer, receive queue | update, kick, log out, opcode handlers | all of the above |
| `WorldSocket` / `Socket` | session pointer, write queue, closed flag | auth proof, ping, time sync, deliver packet, close | network thread against main thread |
| `Theater` / `SpawnManager` | members, state (idle, waiting, in place, active), deletion delay, pending players, robots | add, accept, replace, remove, wait for players, spawn, fill with robots | `BattleMap` |
| `BattleMap` | battle state, alive and in-battle counters, safe zone, grids, reusable objects | start, stop, restart, update battle state, add and remove objects, relocate | `Player`, `Robot`, `Item`, `ItemBox`, `Projectile` |
| `WorldSocketMgr`, `NetworkThread`, `AsyncAcceptor` | sockets per thread, connection counts | accept, assign to the least loaded thread, update, remove | network threads |
| behaviors (`Unit`, `Player`, `Robot`, `Projectile`, `Item`, `ItemBox`) | health, stamina, items, death and withdrawal states, references to each other | update, attack, move, pick up, die, withdraw | `BattleMap`, combat, item, AI |
| combat, item, collection, AI, movement | threat and reward lists, cooldowns, wish lists, stacks of movement generators | update, insert, remove, clear on death | behaviors |
| grids, entities, protocol | position of objects, values and their change masks, messages | insert, move, notify, serialise | `BattleMap` |
| auth server | realms, banned list, sessions, message queue | log on, choose realm, reload, stop | clients, another process, the database |
| logging | asynchronous or not, the strand | write, become synchronous | all threads |
| NTS server, configuration, data stores | little or constant | answer, load | all |

What is hard in this system:

- **Two kinds of concurrency.** Network threads and the main thread share sessions
  (the queue of new sessions, the timeout timers, the closed flag of the socket);
  the main thread and the workers hand theaters back and forth without any lock in
  the theater itself, relying on `waitUpdate()` being a barrier.
- **Manual memory management.** Sessions, players and theaters are raw pointers held
  in several places at once; correctness is that all of them change together.
- **Long histories.** Counters (players, game masters, living units, players still
  in the battle, pending tasks) are incremented and decremented in far-apart places
  over the whole life of the process and are guarded by assertions that end the
  process in every build.
- **Timeouts, restoration, shutdown**, which meet any other step at any moment.

What makes each component correct:

| component | properties |
|---|---|
| update pool | barrier, exclusive update, no lost wakeup, stop returns |
| session manager | one container per session, exact counts, the limit, first come first served, the shutdown completes and leaves nothing the destructor asserts to be gone, disconnected sessions are deleted |
| theater and player | members and sessions agree, a player has one owner, no theater is deleted under its sessions |
| battle | counters are exact, ranks are distinct, nobody enters an ending battle, an ending battle ends |
| socket | packets in order, none lost while the socket is open, a bounded queue with exact accounting, everything sent arrives |
| world socket | the session pointer never dangles while the socket is open, a session is set up before others see it, no use after deletion |
| network threads | exact and balanced connection counts, every connection is started and, once closed, removed, a stop leaves nothing behind |
| items and reusable objects | an object is on the map or reusable, never both; no pickup outlives its unit or its item; nothing is duplicated; a refusal ends when there is room |
| combat and rewards | recorded damage adds up; nobody dies and no box opens twice; a projectile starts with nothing of its last flight; whoever is paid for a death is still on the map |
| process | a signal or a stop message ends it, whatever the queue holds; nobody logs through a deleted strand |
| realm list | a logon is answered from one whole list that was in use while it was handled |

The hazards, each at its line and with the properties that would catch it, are
listed in `PROJECT.json`.

## 2. Modules

| module | models | state and actions |
|---|---|---|
| `ParallelUpdate` | what `updateTheaters()` promises | a set of theaters is updated, each once, in any order |
| `TheaterUpdater` | `TheaterUpdater.cpp`, `BlockingQueue.h` | `m_pendingTasks`, the queue, the program counter of the main thread and of every worker; one action per critical section, wait, notify and join |
| `TheaterManager` | `TheaterManager.cpp`, `WorldSession.cpp`, `CharacterHandler.cpp`, the membership part of `Theater.cpp`, what `WorldSocket.cpp` does to sessions | the containers, the fields of sessions and theaters, the position of the main thread in its tick; network actions at any moment |
| `Battle` | `Theater.cpp`, `BattleMap.cpp`, `SpawnManager.cpp`, life and death of units, the GM commands that kill, add or remove | theater and battle state, units, counters; messages, then `advancedUpdate()`, then the update of units one by one, then the battle state |
| `FieldItems` | `Item.cpp`, pickup and inventory of `Unit.cpp`, `Player.cpp` and `Robot.cpp`, `CarriedItem::drop()`, the lists and the store of `BattleMap.cpp` | units with what they carry and pick up, items with their pickers and whom they touch, the grids, the lists of moved and removed objects, the store; the stages of `BattleMap::update()` and the messages between updates |
| `Combat` | `Projectile.cpp`, `ItemBox.cpp`, `RewardManager.cpp`, damage, death and attack of `Unit.cpp`, `Player.cpp` and `Robot.cpp`, the references of `combat/` and `dynamic/reference/` | units with health and their recorded attackers, projectiles with launcher and touched targets, boxes; attacks and commands between updates, then the updates of units, projectiles (strike by strike) and the tests of what touches what |
| `PacketChannel` | what a socket promises to those who send | a sequence of packets, of which a growing prefix is delivered, until it breaks |
| `Socket` | `Socket.h`, `MessageBuffer.h` | packet queue, write queue with its size and the write under way, the buffer `update()` merges into; senders, a closing thread, the network thread's `update()` and handlers, the kernel and the peer |
| `WorldSocket` | `WorldSocket.cpp`, the calls of `WorldSession.cpp` that close the socket | the session pointer and its mutex, the sessions that exist; the network thread's handlers step by step against the main thread's kicks and deletions |
| `NetworkThread` | `NetworkThread.h`, `SocketMgr.h`, `AsyncAcceptor.h` | counters, pending and active sockets of every thread; the scan of the acceptor one comparison at a time |
| `Application` | `authserver/Application.cpp`, `Log.cpp` | extends `NetworkThread` by the main thread from `startNetwork()` to the end of `run()`, the signal handler, the message queue and the log |
| `RealmManager` | `RealmManager.cpp`, `LogonHandler.cpp` | the list in use, what `load()` has read so far, the logon each network thread handles; `load()` one query at a time, a logon one critical section at a time |
| `MC...` | instances for TLC | |
| `TheaterUpdaterProofs`, `TheaterManagerProofs`, `BattleProofs`, `FieldItemsProofs`, `CombatProofs`, `SocketProofs`, `WorldSocketProofs`, `ApplicationProofs` (with those of `NetworkThread` and `RealmManager`) | theorems | |

How the modules fit together: `TheaterManager` runs `updateTheaters()` as one step;
that it may do so is what `TheaterUpdater` shows (the workers are done when
`waitUpdate()` returns, so nothing of the tick overlaps with them). `Battle` looks
inside that step for one theater and takes the logins, joins and logouts
`TheaterManager` allows as its messages; `FieldItems` looks at the objects of the same
map while the battle goes on, and `Combat` at its projectiles, boxes and rewards.
`Application` composes `NetworkThread` with the process around it: its
actions are those of `NetworkThread` with the guards of the thread they run on.
`RealmManager` looks at a reload that `Application` has as one step of its main thread
(`Loaded`), against the logons of the network threads.
`NetworkThread` takes a socket as open or
closed; `Socket` looks at what one socket does in an `update()` and in its handlers,
and `WorldSocket` at the one pointer through which its packets reach a session.
`TheaterManager` sees of all this that a connection is lost (`Disconnect`).

Correspondence worth knowing:

- `unused`, `alive`: a `WorldSession` between `new` and `delete`. A deleted session
  gets the values of a new one, so nothing can be read from it by accident: a
  container or a theater that still lists it violates `OneHome` or `MembersAgree`.
- The loops of the tick visit one session at a time. `cur` is the session whose
  `update()` runs; between `UpdateBegin` and the end of the update the network threads
  go on, and any number of messages is handled (`Handle`), in any order a client may
  send them. `m_recvQueue` is therefore not a variable.
- `pos` is the iterator over the list of waiting sessions: an erased element moves
  the next one to the iterator, as `std::list::erase` does.
- A player is named after the session that logged in; after a restoration another
  session owns it, which is what `pSession` (`Player::m_session`) and `PlayerOwned`
  are about.
- `joinedLate` and `killedTwice` in `Battle` are history variables and change nothing.
- A sleeping theater is configured for the player who wakes it, so `isTrainingGround`
  is a variable that changes from battle to battle.
- A failed assertion is the state `aborted`: `NS_ASSERT` ends the process in every
  build (`common/debugging/Errors.h:40`). In `TheaterManager` it is what the destructor
  comes to if a container it asserts to be empty is not (`TheaterManager.cpp:35-39`).
- A robot that has withdrawn leaves the map at `processObjectRemoveList()`, after
  the update of all units and before the battle state; in the model it leaves in its
  own update. It is dead, so no counter depends on the difference.
- In `FieldItems` a handler that calls others is written as the composition of their
  effects on units and items (`World`), and `Becomes` makes the result the next state.
  An update may run the timers of the units and items in any order and more than once;
  every order of the code is among them.
- `collided` are the guids in `m_collidedObjects`. A removed robot or player is
  unlinked but its guid stays there; a robot that is reused has the same guid again and
  so only stays where a newcomer would enter, which does the same. A unit may also
  touch an item that was removed in the same update (`canDetect()` does not ask whether
  the item is in the world): the reused item then starts with that guid, but nobody
  picks it up (`CanPickup`).
- `updatePickupTimer()` for an item that has no place any more is modelled but cannot
  be reached: `ForbiddenIffFull` and `Robot::canPickup()` exclude it.
- In `Combat` a reference that is cut by one end is dropped by the other in its next
  `update()`: `invalid` holds the points of such references of a victim until then.
  `deaths` and `loot` are history variables that count calls. A robot that a command
  removed is `deleted`, one that withdrew or was cleaned up is in the store.
- A projectile notes what it touches when relocations are processed (`TestCollision`)
  and strikes it in its own next update (`Strike`), one target after the other.
- In `Application` the pool takes up no handler once `m_ioService` is stopped; a handler
  that runs goes on to its end. `SendOption` is another process.
- In `RealmManager` the second query (`QueryRegions(d)`) may meet a database that was
  edited after the first. The maps of groups, platforms and versions are the set of rows
  they were built from. `seen`, the lists in use since a logon began, is a history
  variable.
- A packet in `Socket` is its identity and its size; `out` gathers what the handlers
  of writes share: the queue, its size, the flag, whether a write is pending and how
  much of the front buffer the kernel has taken.
- `late` in `WorldSocket` and `removed` in `NetworkThread` are history variables.
- The branch of `processPendingSockets()` for a socket that is closed before it was
  started is modelled but cannot be reached: nobody but its own read loop and its
  session could close a socket, and it has neither yet.

Inputs the models assume: a client sends one `AuthProof` per connection
(in `TheaterManager`; `WorldSocket` allows any number); `JOIN` only
after a login (without one, `handleJoinTheater()` asserts or dereferences a null
player, `CharacterHandler.cpp:124-130`); session ids are fresh (`generateSessionId()`
combines a random number and a counter); game master commands come from a player
who is on the map; no realm has the version 0, which `load()` takes for a minimum that is
not set yet (`VersionAssumption`).

## 3. What is checked

| run | instance | shows |
|---|---|---|
| `theater_updater` | 2 workers, 3 theaters | `ExclusiveUpdate`, `TickEnds`, `StopReturns`, `ImplementsParallelUpdate`, over any number of ticks and a stop |
| `admission` | 3 sessions, 3 ids, 1 theater, limit 1, no timeouts | `OneHome`, `CountsMatch`, `FirstComeFirstServed`, `MembersAgree`, `PlayerOwned` |
| `session_ends` | 2 sessions, 1 theater, timeouts of 2 updates, fair main thread | `ShutdownIsClean`, `DisconnectedIsDeleted`, `ShutdownCompletes`, `ExpiredIsClosed` |
| `battle` | 2 players, 2 robots, cap 3, battles and training games, all GM commands | `CountersMatch`, `RanksDistinct`, `NobodyEntersLate`, `EndingEnds` |
| `receive_damage` | the command `receivedamage` | **violated**: `NoAssertionFails` |
| `field_items` | 1 player, 1 robot, 2 item objects, 2 equipments, first aids in ones and twos, stacks of 1 | `PickingSound`, `OnePlacePerObject`, `ForbiddenIffFull`, `NoDuplication` |
| `combat` | 1 player, 1 robot, 1 box, 2 projectiles, health 2, hits of 1 or 2 | `LedgerExact`, `KilledOnce`, `OpenedOnce`, `LaunchedClean`, `AwardeesOnMap` |
| `socket` | 2 senders, 4 packets of 100, 2000, 3000 and 9000 bytes, limit 4096 | `NothingLost`, `QueueBounded`, `OpenIsServed`, `ImplementsChannel`, `SentIsDelivered` |
| `world_socket` | 3 sessions on one socket | `OpenPointerValid`, `SetUpInPrivate`, `UseIsSafe` |
| `kicked_socket` | 2 sessions | **violated**: `KickedIsForgotten` |
| `auth_server` | 2 network threads, 2 connections, a queue for 2 messages; beside them 1 thread with logons, 6 kinds of clients, 4 databases | `ConnectionsMatch`, `Balanced`, `ExitedIsEmpty`, `ConnectionsServed`, `StopsWhenAsked`, `LogonExplained` |
| `log_shutdown` | 1 network thread, `Log.Async.Enable = 1` | **violated**: `StrandAlive` |

Why the bounds are enough. Two workers and three theaters give the cases that
matter to the pool: a task that waits while both workers are busy, a worker asleep
while another takes its task, a worker that finishes before the scheduling does.
Three sessions against a limit of one give an admitted, a waiting and a newly
arriving session, and a session that restores or expires besides two others; a
session object is used once, so a behaviour has at most three connections, which is
why the results about containers are also proved for any number. One theater is
deleted and created again under sessions that come and go; that several theaters do not
disturb each other is proved, for any number. In `session_ends` a timed session is first
updated in the tick that admits it, so timeouts of two updates let it play, wait, be restored
or meet the shutdown before it times out; the delay of an expired session is two
updates, so that a ping can reset its timer half way. In `Battle`, cap 3 with 2 players and 2 robots has battles of one and of two players
against robots, with a late player and with several deaths in one update, and training
games between them; the battles follow one
another without bound. In `FieldItems` two units can pick up one item at the same
time and one unit can choose between two; an item that is received, one that is dropped
for it, and the reuse of each need two objects; an item of two pieces exceeds the stack.
In `Combat` the player and the robot attack each other; two projectiles are enough for
two strikes at one target in one update, the first of which may kill it or open it, and
for a launcher that is dead or gone when its projectile arrives; health 2 against hits
of 1 and 2 has partial hits, exact and excessive ones. `MaxPoints` bounds the damage a
victim that recovers again and again can have on record. In `Application` a queue for two
messages holds a reload before a stop and is full with them, while the signal, another process
and the shutdown compete for it. In `RealmManager` the groups of two databases fit each
other, so that a list may be made of both; a third has another group and a fourth lacks the
default country, so that lists are refused. The versions, platforms and compatibilities
give every outcome of the two lookups. One network thread is enough, as logons share
nothing but the list; the theorem is about any number. The process and the realm list share
no variable, and `RealmManager` lets reloads and logons come at any moment, so in the run
`auth_server` one of them rests while the other moves (`ServerSpec` in `MCAuthServer`).
The four packets of `Socket` share a buffer, overflow it and
exceed it, in every order, and two buffers exceed the limit. Three sessions on one
socket give one that was replaced, one the pointer is at and one created after the
close. Two connections over two threads make the threads uneven while the next
accept is armed; larger numbers are covered by the proofs. Every run is exhaustive; symmetry is used for sessions, ids,
theaters, items and equipments in the runs without liveness properties.

Deadlock is checked except for the socket modules, where a closed connection may come
to rest; elsewhere the only states without a further step are the ends `done`,
`destroyed`, `aborted` and a stopped network, which stutter.

Fairness. The pool assumes that the operating system runs every thread that is not
blocked (`WF` for the main thread and each worker); nothing is assumed of spurious
wakeups. The session manager assumes only that the main thread goes on (`WF` of its
steps), which includes that its loop over the messages of a session ends: the code
has no bound on `m_recvQueue`, so a client that sends faster than the server handles
is excluded. Clients, network and signal have no fairness. `Battle` assumes only that
ticks go on; nobody has to die, to join or to leave. `NetworkThread` assumes that the
event loops run and that a handler of the acceptor ends, and `Application` that the main
thread runs unless it waits for a message, and that a handler of the signal that was
taken up ends; nothing is assumed of clients and of the other process. `Socket` assumes, besides
its event loop, that the kernel takes bytes of a connection that stays up: that is an
assumption about the client, and one who stops reading fills the send queue instead
(`QueueBounded`).

### Findings

1. **Command `receivedamage`** (`receive_damage`). `executeReceiveDamageCommand()`
   lacks the `isAlive()` check of `executeDieCommand()`: a dead unit dies again, the
   alive counter is decremented twice, and `NS_ASSERT(m_aliveCounter > 0)` ends the
   server. In the run `battle` the command is allowed: `killedTwice` marks the battles
   concerned, in which the alive counter, the ranks and the end are not what they
   should be, and everything else still holds.
2. **A proof after the close** (`kicked_socket`). `closeSocket()` shuts down sending
   only; an `AUTH_PROOF` handled afterwards sets the session pointer of the socket once
   more, and no later close clears it. `UseIsSafe` names the sessions concerned
   (`late`): for all others the mutex and the order of the steps suffice.
3. **The shutdown of the log** (`log_shutdown`). `Log.h` wants `setSynchronous()` called
   when all threads are joined; the three applications call it before `stopNetwork()`,
   and a network thread that logs in between may use the deleted strand.

Observed while modelling, without a run of their own: a ping resets the timer of an
expired session, too, so `ExpiredSessionDelay` does not close one whose client keeps
pinging, contrary to `worldserver.conf.dist:122` (`ExpiredIsClosed` has the ping as its
exception); a robot that a game master deletes while it is on record as an attacker, or
while its projectile flies, has no map when its reward is applied (`Unit.cpp:311`; `crashed`
in `Combat`, the exception of `AwardeesOnMap`); `getRealmList()`
offers the realms of the highest version up to the client's only, although older ones
may be marked as compatible with every later client (`RealmManager.cpp:145-158`); a player who logs out before having a map
is not deleted (`WorldSession.cpp:108`); expired sessions are neither kicked nor
deleted at shutdown; a player who was accepted before the start and joins later may
share a rank with another (`RanksDistinct` excludes it by `joinedLate`) and, if it
never joins, keeps the battle from ending; `TheaterUpdateThreads` defaults to 3 in
the configuration file and to 1 in the code; what does not fit on a stack that is
picked up partly is lost; a game master who deletes a carried item stays refused an item
that would fit now; a respawning item that is moved leaves the `ITEM_PLACED` flag of its
tile behind (`Item.cpp:357`); the loot of a unit ends at the first carried item without a loot
template (`Unit.cpp:198`, a `return` in the loop).

## 4. What is proved

All theorems hold for every finite set of workers, theaters, sessions, ids, units, items
and connections, for every set of packets and senders, and for all limits, sizes and
timeouts; the assumptions are the named `ASSUME`s of the modules (finiteness, null is not
an object, different kinds of objects are disjoint, timeouts are natural numbers, the size
of a packet is at least its header and fits 16 bits).

| theorem | statement |
|---|---|
| `TheaterUpdaterProofs!TypeCorrect` | the types, in particular `m_pendingTasks` never goes below zero |
| `TheaterUpdaterProofs!BarrierCorrect` | `Spec => []Barrier` |
| `TheaterUpdaterProofs!ExclusiveUpdateCorrect` | `Spec => []ExclusiveUpdate` |
| `TheaterUpdaterProofs!Refinement` | `Spec => ImplementsParallelUpdate` |
| `TheaterManagerProofs!TypeCorrect` | `Spec => []TypeOK` |
| `TheaterManagerProofs!OneHomeCorrect` | `Spec => []OneHome` |
| `TheaterManagerProofs!CountsCorrect`, `FirstComeCorrect` | `Spec => []CountsMatch`, `FirstComeFirstServed` |
| `TheaterManagerProofs!MembersCorrect`, `OwnershipCorrect` | `Spec => []MembersAgree`, `[]PlayerOwned` |
| `TheaterManagerProofs!ShutdownCorrect` | `Spec => []ShutdownIsClean` |
| `BattleProofs!BattleTypeCorrect`, `CountersCorrect`, `RanksCorrect`, `EntryCorrect` | `Spec => []TypeOK`, `[]CountersMatch`, `[]RanksDistinct`, `NobodyEntersLate` |
| `FieldItemsProofs!TypeCorrect`, `PickingCorrect`, `PlacesCorrect`, `RefusalCorrect` | `Spec => []TypeOK`, `[]PickingSound`, `[]OnePlacePerObject`, `[]ForbiddenIffFull` |
| `FieldItemsProofs!NoDuplicationCorrect` | `Spec => NoDuplication` |
| `CombatProofs!LaunchedCleanCorrect`, `OpenedOnceCorrect`, `KilledOnceCorrect`, `AwardeesCorrect` | `Spec => []LaunchedClean`, `[]OpenedOnce`, `[]KilledOnce`, `[]AwardeesOnMap` |
| `CombatProofs!LedgerCorrect` | `Spec => []LedgerExact` |
| `SocketProofs!TypeCorrect`, `StreamCorrect`, `BoundCorrect`, `ServedCorrect` | `Spec => []TypeOK`, `[]NothingLost`, `[]QueueBounded`, `[]OpenIsServed` |
| `SocketProofs!Refinement` | `Spec => ImplementsChannel` |
| `WorldSocketProofs!OpenPointerCorrect`, `SetUpCorrect`, `UseCorrect` | `Spec => []OpenPointerValid`, `[]SetUpInPrivate`, `[]UseIsSafe` |
| `ApplicationProofs!ConnectionsCorrect`, `BalancedCorrect`, `ExitCorrect` | `Spec => []ConnectionsMatch`, `[]Balanced`, `[]ExitedIsEmpty` of `NetworkThread` |
| `ApplicationProofs!NetworkCorrect` | the three invariants of the network threads hold in the whole process |
| `ApplicationProofs!LogonCorrect` | `RealmSpec => []LogonExplained` |

*The pool.* `Barrier` says nothing while a tick runs, so it is not inductive. The
invariant `IInv` says that `m_pendingTasks` is the number of queued tasks plus the
number of busy workers (`Counted`), and that every theater of the tick is in exactly
one of four stages: to be scheduled, queued, in the hands of a worker, updated once
(`Stages`). With no pending task there is neither a queued nor a held one, which is
the barrier. (`Barrier` is not an invariant of a run of its own: `ImplementsParallelUpdate`
says the same there.) The refinement uses the same invariant: the step `TheaterUpdate` is the
abstract `Update`, all others stutter.

*Session manager.* The type invariant is inductive as it stands; it is proved with
one lemma per part of the next-state relation. `OneHome` is not: when a loop drops
the session it is at, the session has to be the one at the iterator. `HomeInv` adds
that the current session is in the container of the current loop, at the position of
the iterator (`CurAtHome`), that what is still to be visited is in the container
(`VisitAtHome`), that a session knows the id it is listed under (`SidMatches`), and
that a constructed session is not constructed again (`Fresh`). The lemmas on lists
(`AppendElements`, `TailElements`, `EraseElements`) and on the map of sessions
(`InsertEntry`, `EraseEntry`) say what each container operation does to the set of
its elements; every action then is a statement about four disjoint sets. `HomeInv`
was checked with TLC on the instance of `admission` before it was proved.

`CountInv` builds on it. The counters are compared with the accepted sessions of each kind
(`Kind`); that a waiting session is no game master and has no earlier id (`QueuedPlain`)
says which counter its admission or its loss changes. `FirstComeFirstServed` needs when a
place can be free while somebody waits: only between the loop that frees places and the
loop that hands them out along the queue (`RoomOrder`).

`WorldInv` is about sessions, theaters and players. A session with a player is
authenticated, listed under its id and a member of its theater (`Listed`), a member is such
a session (`Members`), the number of members is `online`, and a theater that is being
deleted has none (`Counted`). A player is named after the session that logged in, so
`Names` says that after a restoration that session is deleted; `OnlyOwner` and `Owned` say
that a player on a map has one owner. At shutdown the theaters are deleted after the last
update, which leaves no session in the game (`LastUpdate`). Both were checked with TLC on
the instance of `admission` and on one of two sessions and two theaters, as was `CleanPass`.

The destructor runs after a single update, whatever that update found. `CleanPass` says why
it finds nothing it asserts to be gone: `kickAll()` has kicked every session in the game
and in the waiting list, so none of the latter is admitted or kept when the loop reaches it
(`LastGone`); the list shrinks at its head, the iterator stays at the first position, and the
loop ends with an empty list. The theaters go without waiting for their deletion delay. What
the network threads queue until they are stopped is deleted by the destructor itself; what
remains is the expired sessions.

*Battle.* The counters are exact together with `Flow`, which relates the state of the
theater, the phase of the tick and who is on the map: a unit is counted when it enters and
once when it dies or leaves. `NobodyEntersLate` follows from `Flow`: a battle
begins to end only when every session online is on the map, and later sessions are turned
away. The ranks are distinct because a dead unit's rank is above the number of those
alive, which is the rank the next one gets, and a living unit has a rank only as the last
one (`Ranks`). A double kill (finding 1) breaks the alive counter and so
the ranks; the theorems name it (`killedTwice`), and `CountersMatch` says that nothing
else makes the assertion fail.

*Items.* The three invariants of `FieldItems` are proved together. A handler is a
composition of effects on units and items, and every effect (`PickupStop`, `PutOnMap` and
the others) has a lemma that it keeps `Sound`: the two sides of a pickup say the same
(`Matched`), who picks up and what is picked up are there (`Present`), a player is refused
exactly while it has no place (`Refused`). `Lists` and `Places` say where an object is on
its way through the grids, the lists and the store; `LeftBehind` that a unit off the map
carries nothing and an item on it has a state. An item from the store brings no pickup with it because nobody picks up
an item that is not in the world.

`NoDuplication` compares the pieces of a template before and after a step, as sums over
units and items. What a handler does is first brought down to records. Most steps need only
that every unit carries what it carried, one first aid less or nothing (`NoMoreCarried`), and
every item is what it was or gone (`NoMoreLying`); sums of smaller values are smaller
(`NoMore`). A pickup and a death move pieces: `Moved` says of one template that what the
unit gains and what it drops is covered by what is taken from one item. `Received`
says what `receiveItem()` leaves behind; the equipment worn is dropped as one item, and it
is not the one received, because `canStoreItem()` was asked first; a stack that is full
loses the rest. `Die` drops at most one of each equipment and no more first aids than the
stack held. That the items dropped were not on the map before comes from `Places`.

*Socket.* `NothingLost` says nothing of a closed socket, while the kernel may still take
its buffers; the channel needs that, too. `IInv` therefore says of every socket that what
the kernel took, what waits and what is merged is a prefix of what was queued (`InOrder`),
and of an open one that the rest is in the hand of `update()` or in the packet queue
(`Complete`). `WriteQueue` keeps the queue, its size and the write under way together:
`m_writeQueueSize` is the total of the buffers, so the completion handler may subtract the
front one. Sums and concatenations over the queue are recursive functions. What they
compute is proved without the induction theorems of the library, whose operator parameter
the provers cannot instantiate: finite sets have minimal subsets (a theorem of the library
without such a parameter), so a set of numbers has a least element, so a set that contains
0 and all successors is `Nat`; each induction names its set (`SumsExist`, `JoinsExist`,
`JoinsUnique`). From these come what appending and removing a buffer does to the total
(`TotalAppend`, `TotalTail`) and to the contents (`FlattenAppend`, `FlattenTail`).
`IInv` was checked with TLC on the instance of `socket`. In the refinement a `QueueAdd` is
the abstract `Send`, `KernelTakes` is `Deliver`, the first step that closes is `Break`.

*World socket.* While the network thread uses the pointer it holds the mutex, and
whoever deletes the session has either cleared the pointer under the mutex or seen
the closed flag, which somebody set who has still to clear the pointer; the invariant
`IInv` relates the flag, the mutex, the positions of the two threads and the sessions
that exist.

*Network threads.* The counters are exact because a connection is in one place only
(`InOnePlace`): one that moves from the queue to the list of a thread is new there,
and one that is removed was there. They are balanced because the connections a thread
ever got never become fewer: what the scan has read of a thread, its counter plus its
later losses, stays an upper bound of the chosen thread's counter (`ScanMinimal`).

*The process.* Every step of `Application` is a step of `NetworkThread` or leaves its
variables alone, so what is proved of the network threads carries over (`NetworkSimulation`).

*The realm list.* A logon may test its version against one list and look its realms up in
another. If it passed the test, the list in use is among those it has seen (`WholeSeen`), so
the lookup explains the answer; if it did not, the list it was tested with would have
offered nothing (`BelowMinimum`), which is what it is told. Lists are whole because
`load()` checks the parts it has read against each other, not against the database, and
replaces the list in use only if they fit.

*Combat.* The first three results are inductive together with the types: what strikes a
box or kills a unit has just found it locked or alive, and a projectile off the map has
nothing to update. `AwardeesOnMap` is not: a launcher is credited when its projectile
strikes, an update after the touch. `AwardInv` adds that the launcher of a projectile that
is about to strike is on the map and has not been dead since an earlier update
(`LaunchersHere`), because every such projectile strikes in the next update (`StrikesDue`)
and only a living launcher lets it touch something (`LivingHere`); a robot withdraws at
least one update after its death (`DelayAssumption`), when none of its projectiles is left
to strike. `AwardInv` was checked with TLC on the instance of `combat` first.

`LedgerExact` is inductive together with the shape of the records (`Balanced`): a hit adds
the same to one reference and to `m_aggDamage` (`AddDamageBalanced`), an attacker that dies
or leaves has its points moved to the invalid ones, `update()` takes the points of those that
timed out and the invalid ones from both sides, the death of the unit resets all of it. That
points are natural numbers follows from the types, with what a living unit has of health.

*Sums over sets.* Both results add up values over finite sets with `SumFunctionOnSet` of the
community modules, a recursive function over subsets that takes out one chosen element after
the other. What it computes is proved by the argument the socket uses for sequences: the
recursive function exists and is unique because a smallest set for which it is not would have
a smaller one (`MinimalSubset`), and the sum does not depend on the order of the choices
(`SumRemove`). From this follow a change of one value (`SumChangeOne`), monotonicity
(`SumMonotone`), the bound on what is put on a set of items (`SumGrows`), and sums
over two parts (`SumSplit`). The two proof modules state the facts they need each on its own.

Only model-checked: liveness (`TickEnds`, `EndingEnds` and the others, outside the reach of the
prover), and the three runs that show a finding, each a violation. Every invariant and
every safety property of the other runs is a theorem.

## 5. Not modelled

- Map geometry, visibility, path finding, splines: floating-point data the properties do
  not tell apart. What depends on it (who touches whom, when a flight ends, who is outside
  the safe zone) is a free choice in the models.
- The decisions of robots (`ai/`, threats, stamina, the stack of movement generators):
  a robot may do in the models whatever it is able to do at any moment.
- The amounts of rewards and experience, effects, application and cooldown of items:
  sequential arithmetic of one unit.
- Banned addresses and accounts, GeoIP, the NTS server: one request, one answer,
  without state that outlives it.
- Generated protocol code, configuration, map and data loading (run once, before the loop).
- `dep/`: vendored libraries (SQLite, protobuf, tinyxml2, cppformat and others), more
  than three quarters of the lines of the repository. They are used, not developed, here;
  the modules map only the repository's own code (about 47,500 lines in `src/src`), of which
  they stand for about 4,100.

## 6. Plan

Done: the update pool; sessions, theaters and battles; sockets, network threads and
the process around them; the realm list and its logons; items on the ground; projectiles, boxes and rewards; the proofs of all their safety properties. Left, in
this order:

1. `TheaterSelection`: `getOrder()` and `selectTheater()` against `acceptSession()`, as
   functions checked against a reference definition.
2. The collectors and wish lists of robots over the items of `FieldItems`; the lists of
   threats, followers and observers beside the references of `Combat`.
