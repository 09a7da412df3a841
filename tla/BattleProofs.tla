---------------------------- MODULE BattleProofs ----------------------------
(***************************************************************************)
(* The counters of a battle, its ranks and its end, for any number of       *)
(* players and robots.                                                      *)
(*                                                                          *)
(* The counters follow from the units that enter and leave: an object that  *)
(* enters was not on the map, one that leaves or withdraws was.  Nobody     *)
(* enters late because the end waits until as many players are on the map   *)
(* as are online; as nobody is on the map without a session, these are the  *)
(* same players.  The ranks are distinct because a dead unit has a rank     *)
(* above the number of those alive, and the only living unit that has a     *)
(* rank is the last one alive.                                              *)
(***************************************************************************)
EXTENDS Battle, FiniteSetTheorems, TLAPS

Alive == {u \in inWorld : unit[u].alive}
InBattle == {p \in PlayerList : unit[p].withdrawal # "WITHDREW"}

\* Sessions, the state of the theater and the map agree.
Flow ==
    /\ waiting \subseteq online /\ PlayerList \subseteq online
    /\ waiting # {} => state = "WAITING_FOR_PLAYERS"
    /\ state # "ACTIVE" => battleState = "NONE"
    /\ state \in {"IDLE", "WAITING_FOR_PLAYERS"} => inWorld = {}
    /\ state = "PLAYERS_IN_PLACE" => phase = "update" /\ \A u \in inWorld : unit[u].withdrawal = "NONE"
    /\ battleState \in {"ENDING", "ENDED"} => online \subseteq inWorld
    /\ toUpdate \subseteq inWorld
    /\ phase \in {"sessions", "update"} => toUpdate = {}
    /\ phase = "aborted" => killedTwice

Counters ==
    /\ ~killedTwice => aliveCounter = Cardinality(Alive)
    /\ playerInBattleCounter = Cardinality(InBattle)

\* The ranks given so far in a battle nobody entered late.
Ranks ==
    /\ state = "ACTIVE" => aliveCounter <= rankTotal
    /\ \A u \in Ranked :
         /\ unit[u].alive => unit[u].rankNo = 1 /\ aliveCounter = 1
         /\ ~unit[u].alive => unit[u].rankNo > aliveCounter
         /\ unit[u].rankNo \in 1..rankTotal
         /\ unit[u].outcome = "VICTORY" <=> unit[u].rankNo = 1
    /\ \A u, v \in Ranked : unit[u].rankNo = unit[v].rankNo => u = v

RanksSound == ~joinedLate /\ ~killedTwice => Ranks

IInv == TypeOK /\ Flow /\ Counters /\ RanksSound

-----------------------------------------------------------------------------
(***************************************************************************)
(* Counting.                                                                *)
(***************************************************************************)

\* Sets of units are finite and can be counted.
LEMMA FiniteUnits ==
  ASSUME NEW S \in SUBSET Unit
  PROVE  IsFiniteSet(S) /\ Cardinality(S) \in Nat
<1>1. IsFiniteSet(Unit)
  BY UnitAssumption, FS_Union DEF Unit
<1>2. IsFiniteSet(S)
  BY <1>1, FS_Subset
<1> QED
  BY <1>2, FS_CardinalityType

\* Units that enter are counted beside those that are there.
LEMMA DisjointCount ==
  ASSUME NEW S \in SUBSET Unit, NEW T \in SUBSET Unit, S \cap T = {}
  PROVE  Cardinality(S \cup T) = Cardinality(S) + Cardinality(T)
<1>1. IsFiniteSet(S) /\ IsFiniteSet(T) /\ Cardinality(S) \in Nat /\ Cardinality(T) \in Nat
  BY FiniteUnits
<1>2. Cardinality(S \cup T) = Cardinality(S) + Cardinality(T) - Cardinality(S \cap T)
  BY <1>1, FS_Union
<1>3. Cardinality(S \cap T) = 0
  BY FS_EmptySet
<1> QED
  BY <1>1, <1>2, <1>3

\* Units that leave are subtracted.
LEMMA RestCount ==
  ASSUME NEW S \in SUBSET Unit, NEW T \in SUBSET S
  PROVE  Cardinality(S \ T) = Cardinality(S) - Cardinality(T)
<1>1. IsFiniteSet(S)
  BY FiniteUnits
<1>2. S \cap T = T
  OBVIOUS
<1> QED
  BY <1>1, <1>2, FS_Difference

\* A unit counts for one, and the last one alive is alone.
LEMMA OneCounts ==
  ASSUME NEW S \in SUBSET Unit, NEW u \in S
  PROVE  Cardinality(S) >= 1 /\ (Cardinality(S) <= 1 => S = {u})
<1>1. IsFiniteSet(S) /\ Cardinality(S) \in Nat
  BY FiniteUnits
<1>2. Cardinality({u}) = 1 /\ {u} \in SUBSET S
  BY FS_Singleton
<1>3. Cardinality({u}) <= Cardinality(S) /\ (Cardinality(S) = Cardinality({u}) => S = {u})
  BY <1>1, <1>2, FS_Subset
<1> QED
  BY <1>1, <1>2, <1>3

-----------------------------------------------------------------------------
(***************************************************************************)
(* What enters, leaves and dies, and the counters.                          *)
(***************************************************************************)

\* A unit that has just been created.
LEMMA NewUnitType == NewUnit \in UnitRecord
BY DEF NewUnit, UnitRecord

\* addToWorld() adds its units to both counters.
LEMMA Entering ==
  ASSUME IInv, NEW U \in SUBSET Unit, U \cap inWorld = {}, AddToWorld(U), killedTwice' = killedTwice
  PROVE  /\ Counters'
         /\ inWorld' \in SUBSET Unit /\ unit' \in [Unit -> UnitRecord]
         /\ aliveCounter' \in Int /\ playerInBattleCounter' \in Nat
         /\ inWorld' = inWorld \cup U
         /\ \A u \in U : unit'[u] = NewUnit
<1>1. /\ inWorld' = inWorld \cup U
      /\ unit' = [u \in Unit |-> IF u \in U THEN NewUnit ELSE unit[u]]
      /\ aliveCounter' = aliveCounter + Cardinality(U)
      /\ playerInBattleCounter' = playerInBattleCounter + Cardinality(U \cap Player)
  BY DEF AddToWorld
<1>2. /\ inWorld \in SUBSET Unit /\ unit \in [Unit -> UnitRecord]
      /\ aliveCounter \in Int /\ playerInBattleCounter \in Nat
  BY DEF IInv, TypeOK
<1>3. \A u \in Unit : /\ u \in U => unit'[u] = NewUnit
                      /\ u \notin U => unit'[u] = unit[u]
  BY <1>1
<1>4. unit' \in [Unit -> UnitRecord]
  BY <1>1, <1>2, NewUnitType
<1>5. NewUnit.alive = TRUE /\ NewUnit.withdrawal = "NONE"
  BY DEF NewUnit
<1>6. Alive \in SUBSET Unit /\ InBattle \in SUBSET Unit /\ U \cap Player \in SUBSET Unit
  BY <1>2 DEF Alive, InBattle, PlayerList
<1>7. Alive' = Alive \cup U /\ Alive \cap U = {}
  BY <1>1, <1>2, <1>3, <1>5 DEF Alive
<1>8. InBattle' = InBattle \cup (U \cap Player) /\ InBattle \cap (U \cap Player) = {}
  BY <1>1, <1>2, <1>3, <1>5 DEF InBattle, PlayerList
<1>9. Cardinality(Alive') = Cardinality(Alive) + Cardinality(U)
  BY <1>6, <1>7, DisjointCount
<1>10. Cardinality(InBattle') = Cardinality(InBattle) + Cardinality(U \cap Player)
  BY <1>6, <1>8, DisjointCount
<1>11. Counters'
  BY <1>1, <1>9, <1>10 DEF IInv, Counters
<1>12. Cardinality(U) \in Nat /\ Cardinality(U \cap Player) \in Nat
  BY <1>6, FiniteUnits
<1> QED
  BY <1>1, <1>2, <1>3, <1>4, <1>11, <1>12

\* removeFromWorld() takes its units out of the counters and does not fail its assertion.
LEMMA Leaving ==
  ASSUME IInv, NEW U \in SUBSET Unit, RemoveFromWorld(U), killedTwice' = killedTwice
  PROVE  /\ Counters'
         /\ inWorld' \in SUBSET Unit /\ unit' \in [Unit -> UnitRecord]
         /\ aliveCounter' \in Int /\ playerInBattleCounter' \in Nat
         /\ inWorld' = inWorld \ U
         /\ \A u \in inWorld' : unit'[u] = unit[u]
         /\ aliveCounter' <= aliveCounter
         /\ ~killedTwice => ~RemoveFails(U)
<1> DEFINE gone == U \cap inWorld
           A == {u \in gone : unit[u].alive}
           B == {p \in gone \cap Player : unit[p].withdrawal # "WITHDREW"}
<1>1. /\ inWorld' = inWorld \ gone
      /\ unit' = [u \in Unit |-> IF u \in gone THEN NewUnit ELSE unit[u]]
      /\ aliveCounter' = aliveCounter - Cardinality(A)
      /\ playerInBattleCounter' = playerInBattleCounter - Cardinality(B)
  BY DEF RemoveFromWorld
<1>2. /\ inWorld \in SUBSET Unit /\ unit \in [Unit -> UnitRecord]
      /\ aliveCounter \in Int /\ playerInBattleCounter \in Nat
  BY DEF IInv, TypeOK
<1>3. \A u \in inWorld' : unit'[u] = unit[u]
  BY <1>1, <1>2
<1>4. unit' \in [Unit -> UnitRecord]
  BY <1>1, <1>2, NewUnitType
<1>5. Alive \in SUBSET Unit /\ InBattle \in SUBSET Unit
  BY <1>2 DEF Alive, InBattle, PlayerList
<1>6. A \in SUBSET Alive /\ Alive' = Alive \ A
  BY <1>1, <1>2, <1>3 DEF Alive
<1>7. B \in SUBSET InBattle /\ InBattle' = InBattle \ B
  BY <1>1, <1>2, <1>3 DEF InBattle, PlayerList
<1>8. inWorld' = inWorld \ U
  BY <1>1
<1>r. RemoveFails(U) <=> aliveCounter < Cardinality(A)
  BY DEF RemoveFails
<1> HIDE DEF A, B
<1>9. Cardinality(Alive') = Cardinality(Alive) - Cardinality(A)
  BY <1>5, <1>6, RestCount
<1>10. Cardinality(InBattle') = Cardinality(InBattle) - Cardinality(B)
  BY <1>5, <1>7, RestCount
<1>11. Counters'
  BY <1>1, <1>9, <1>10 DEF IInv, Counters
<1>12. /\ Cardinality(A) \in Nat /\ Cardinality(InBattle') \in Nat
       /\ Cardinality(Alive') \in Nat /\ Cardinality(Alive) \in Nat
  <2>1. Alive' \in SUBSET Unit /\ InBattle' \in SUBSET Unit /\ A \in SUBSET Unit
    BY <1>5, <1>6, <1>7
  <2> QED
    BY <1>5, <2>1, FiniteUnits
<1>13. ~killedTwice => ~(aliveCounter < Cardinality(A))
  BY <1>9, <1>12 DEF IInv, Counters
<1> QED
  BY <1>1, <1>2, <1>3, <1>4, <1>8, <1>r, <1>11, <1>12, <1>13 DEF Counters

\* withdrawDelayed()
LEMMA WithdrawDelayedType ==
  ASSUME NEW r \in UnitRecord, NEW outcome \in {"VICTORY", "DEFEAT"}, NEW rankNo \in Nat
  PROVE  LET q == WithdrawDelayed(r, outcome, rankNo) IN
         /\ q \in UnitRecord /\ q.alive = r.alive
         /\ r.withdrawal # "NONE" => q = r
         /\ r.withdrawal = "NONE" => q.withdrawal = "WITHDRAWING" /\ q.outcome = outcome /\ q.rankNo = rankNo
<1>1. CASE r.withdrawal # "NONE"
  BY <1>1 DEF WithdrawDelayed
<1>2. CASE r.withdrawal = "NONE"
  <2>1. WithdrawDelayed(r, outcome, rankNo)
          = [r EXCEPT !.withdrawal = "WITHDRAWING", !.timer = WithdrawalDelay,
                      !.outcome = outcome, !.rankNo = rankNo]
    BY <1>2 DEF WithdrawDelayed
  <2> QED
    BY <1>2, <2>1, BattleAssumption DEF UnitRecord
<1> QED
  BY <1>1, <1>2

\* playerKilled() and robotKilled()
LEMMA KilledType ==
  ASSUME NEW u \in Unit, NEW r \in UnitRecord, aliveCounter \in Int, aliveCounter > 0
  PROVE  LET q == Killed(u, r) IN
         /\ q \in UnitRecord /\ q.alive = r.alive
         /\ r.withdrawal # "NONE" => q = r
         /\ r.withdrawal = "NONE" =>
              \/ q = r
              \/ /\ q.withdrawal = "WITHDRAWING" /\ q.rankNo = aliveCounter
                 /\ q.outcome = "VICTORY" <=> aliveCounter = 1
<1>1. aliveCounter \in Nat /\ aliveCounter - 1 + 1 = aliveCounter
  OBVIOUS
<1>2. CASE Killed(u, r) = r
  BY <1>2
<1>3. CASE aliveCounter > 1 /\ Killed(u, r) = WithdrawDelayed(r, "DEFEAT", aliveCounter)
  <2>1. LET q == WithdrawDelayed(r, "DEFEAT", aliveCounter) IN
        /\ q \in UnitRecord /\ q.alive = r.alive
        /\ r.withdrawal # "NONE" => q = r
        /\ r.withdrawal = "NONE" => q.withdrawal = "WITHDRAWING" /\ q.outcome = "DEFEAT" /\ q.rankNo = aliveCounter
    BY <1>1, WithdrawDelayedType
  <2> QED
    BY <1>3, <2>1
<1>4. CASE aliveCounter = 1 /\ Killed(u, r) = WithdrawDelayed(r, "VICTORY", aliveCounter)
  <2>1. LET q == WithdrawDelayed(r, "VICTORY", aliveCounter) IN
        /\ q \in UnitRecord /\ q.alive = r.alive
        /\ r.withdrawal # "NONE" => q = r
        /\ r.withdrawal = "NONE" => q.withdrawal = "WITHDRAWING" /\ q.outcome = "VICTORY" /\ q.rankNo = aliveCounter
    BY <1>1, WithdrawDelayedType
  <2> QED
    BY <1>4, <2>1
<1>5. \/ Killed(u, r) = r
      \/ aliveCounter > 1 /\ Killed(u, r) = WithdrawDelayed(r, "DEFEAT", aliveCounter)
      \/ aliveCounter = 1 /\ Killed(u, r) = WithdrawDelayed(r, "VICTORY", aliveCounter)
  BY <1>1 DEF Killed
<1> QED
  BY <1>2, <1>3, <1>4, <1>5

\* died() decrements the alive counter once and gives the rank the counter had.
LEMMA Dying ==
  ASSUME IInv, NEW u \in inWorld, Died(u),
         killedTwice' = killedTwice \/ killedTwice' = TRUE,
         ~killedTwice' => unit[u].alive
  PROVE  /\ Counters'
         /\ unit' \in [Unit -> UnitRecord] /\ aliveCounter' \in Int
         /\ inWorld' = inWorld /\ playerInBattleCounter' = playerInBattleCounter
         /\ phase' = phase \/ phase' = "aborted"
         /\ phase' = "aborted" => killedTwice'
         /\ ~killedTwice' => /\ aliveCounter > 0 /\ aliveCounter' = aliveCounter - 1
                             /\ \A v \in inWorld \ {u} : unit'[v] = unit[v]
                             /\ ~unit'[u].alive
                             /\ unit[u].withdrawal # "NONE" =>
                                  /\ unit'[u].withdrawal = unit[u].withdrawal
                                  /\ unit'[u].rankNo = unit[u].rankNo /\ unit'[u].outcome = unit[u].outcome
                             /\ unit[u].withdrawal = "NONE" =>
                                  \/ unit'[u].withdrawal = "NONE"
                                  \/ /\ unit'[u].rankNo = aliveCounter
                                     /\ unit'[u].outcome = "VICTORY" <=> aliveCounter = 1
<1> DEFINE r == [unit[u] EXCEPT !.alive = FALSE]
<1>1. /\ inWorld \in SUBSET Unit /\ unit \in [Unit -> UnitRecord] /\ u \in Unit /\ unit[u] \in UnitRecord
      /\ aliveCounter \in Int /\ playerInBattleCounter \in Nat /\ killedTwice \in BOOLEAN
  BY DEF IInv, TypeOK
<1>2. /\ r \in UnitRecord /\ ~r.alive /\ r.withdrawal = unit[u].withdrawal
      /\ r.rankNo = unit[u].rankNo /\ r.outcome = unit[u].outcome
  BY <1>1 DEF UnitRecord
<1>3. inWorld' = inWorld /\ playerInBattleCounter' = playerInBattleCounter
  BY DEF Died
<1>4. Alive \in SUBSET Unit
  BY <1>1 DEF Alive
<1>5. ~killedTwice' => ~killedTwice /\ u \in Alive
  BY <1>1 DEF Alive
<1>6. CASE /\ aliveCounter > 0
           /\ unit' = [unit EXCEPT ![u] = Killed(u, [@ EXCEPT !.alive = FALSE])]
           /\ aliveCounter' = aliveCounter - 1
           /\ phase' = phase
  <2> DEFINE q == Killed(u, r)
  <2>1. unit' = [unit EXCEPT ![u] = q]
    BY <1>6
  <2>2. /\ q \in UnitRecord /\ q.alive = r.alive
        /\ r.withdrawal # "NONE" => q = r
        /\ r.withdrawal = "NONE" =>
              \/ q = r
              \/ /\ q.withdrawal = "WITHDRAWING" /\ q.rankNo = aliveCounter
                 /\ q.outcome = "VICTORY" <=> aliveCounter = 1
    <3> HIDE DEF r
    <3> QED
      BY <1>1, <1>2, <1>6, KilledType
  <2> HIDE DEF q, r
  <2>3. unit'[u] = q /\ (\A v \in Unit : v # u => unit'[v] = unit[v]) /\ unit' \in [Unit -> UnitRecord]
    BY <1>1, <2>1, <2>2
  <2>4. InBattle' = InBattle
    <3>1. unit'[u].withdrawal = "WITHDREW" <=> unit[u].withdrawal = "WITHDREW"
      BY <1>2, <2>2, <2>3
    <3> QED
      BY <1>1, <1>3, <2>3, <3>1 DEF InBattle, PlayerList
  <2>5. ~killedTwice' => Cardinality(Alive') = Cardinality(Alive) - 1
    <3>1. Alive' = Alive \ {u}
      BY <1>1, <1>2, <1>3, <2>2, <2>3 DEF Alive
    <3>2. IsFiniteSet(Alive)
      BY <1>4, FiniteUnits
    <3> QED
      BY <1>5, <3>1, <3>2, FS_RemoveElement
  <2>6. Counters'
    BY <1>3, <1>5, <1>6, <2>4, <2>5 DEF IInv, Counters
  <2>7. phase' = "aborted" => killedTwice'
    BY <1>5, <1>6 DEF IInv, Flow
  <2>8. unit[u].withdrawal # "NONE" =>
          /\ unit'[u].withdrawal = unit[u].withdrawal
          /\ unit'[u].rankNo = unit[u].rankNo /\ unit'[u].outcome = unit[u].outcome
    BY <1>2, <2>2, <2>3
  <2>9. unit[u].withdrawal = "NONE" =>
          \/ unit'[u].withdrawal = "NONE"
          \/ /\ unit'[u].rankNo = aliveCounter
             /\ unit'[u].outcome = "VICTORY" <=> aliveCounter = 1
    BY <1>2, <2>2, <2>3
  <2>10. (\A v \in inWorld \ {u} : unit'[v] = unit[v]) /\ ~unit'[u].alive /\ aliveCounter' \in Int
    BY <1>1, <1>2, <1>6, <2>2, <2>3
  <2> QED
    BY <1>3, <1>6, <2>3, <2>6, <2>7, <2>8, <2>9, <2>10
<1>7. CASE aliveCounter <= 0 /\ phase' = "aborted" /\ UNCHANGED <<unit, aliveCounter>>
  <2>1. killedTwice'
    <3> SUFFICES ASSUME ~killedTwice' PROVE FALSE
      OBVIOUS
    <3>1. Cardinality(Alive) >= 1 /\ aliveCounter = Cardinality(Alive)
      BY <1>4, <1>5, OneCounts DEF IInv, Counters
    <3> QED
      BY <1>1, <1>7, <3>1
  <2>2. InBattle' = InBattle
    BY <1>3, <1>7 DEF InBattle, PlayerList
  <2>3. Counters'
    BY <1>3, <2>1, <2>2 DEF IInv, Counters
  <2> QED
    BY <1>1, <1>3, <1>7, <2>1, <2>3
<1> QED
  BY <1>6, <1>7 DEF Died

-----------------------------------------------------------------------------
(***************************************************************************)
(* Ranks that stay.                                                         *)
(***************************************************************************)

\* Ranks stay distinct when nobody gets one and nobody returns to life.
LEMMA RanksKept ==
  ASSUME IInv, Counters', inWorld' \in SUBSET inWorld, aliveCounter' \in Int, aliveCounter' <= aliveCounter,
         \A u \in inWorld' : /\ unit'[u].alive = unit[u].alive
                             /\ unit'[u].rankNo = unit[u].rankNo /\ unit'[u].outcome = unit[u].outcome
                             /\ unit'[u].withdrawal # "NONE" => unit[u].withdrawal # "NONE",
         rankTotal' = rankTotal, state' = "ACTIVE" => state = "ACTIVE",
         killedTwice' = killedTwice, joinedLate' = joinedLate \/ joinedLate' = TRUE
  PROVE  RanksSound'
<1> SUFFICES ASSUME ~joinedLate', ~killedTwice' PROVE Ranks'
  BY DEF RanksSound
<1>1. /\ aliveCounter \in Int /\ rankTotal \in Int /\ unit \in [Unit -> UnitRecord] /\ inWorld \in SUBSET Unit
      /\ joinedLate \in BOOLEAN /\ killedTwice \in BOOLEAN
  BY DEF IInv, TypeOK
<1>2. Ranks
  BY <1>1 DEF IInv, RanksSound
<1>3. Ranked' \in SUBSET Ranked /\ Ranked' \in SUBSET inWorld'
  BY DEF Ranked
<1>4. ASSUME NEW u \in Ranked'
      PROVE  /\ unit'[u].alive => unit'[u].rankNo = 1 /\ aliveCounter' = 1
             /\ ~unit'[u].alive => unit'[u].rankNo > aliveCounter'
             /\ unit'[u].rankNo \in 1..rankTotal'
             /\ unit'[u].outcome = "VICTORY" <=> unit'[u].rankNo = 1
  <2>1. u \in Ranked /\ u \in inWorld' /\ unit[u].rankNo \in Nat
    BY <1>1, <1>3 DEF UnitRecord
  <2>2. unit'[u].alive => aliveCounter' >= 1
    <3>1. unit'[u].alive => u \in Alive'
      BY <2>1 DEF Alive
    <3>2. Alive' \in SUBSET Unit
      BY <1>1 DEF Alive
    <3>3. unit'[u].alive => Cardinality(Alive') >= 1
      BY <3>1, <3>2, OneCounts
    <3> QED
      BY <3>3 DEF Counters
  <2>3. /\ unit[u].alive => unit[u].rankNo = 1 /\ aliveCounter = 1
        /\ ~unit[u].alive => unit[u].rankNo > aliveCounter
        /\ unit[u].rankNo \in 1..rankTotal
        /\ unit[u].outcome = "VICTORY" <=> unit[u].rankNo = 1
    BY <1>2, <2>1 DEF Ranks
  <2>4. /\ unit'[u].alive = unit[u].alive
        /\ unit'[u].rankNo = unit[u].rankNo /\ unit'[u].outcome = unit[u].outcome
    BY <2>1
  <2> QED
    BY <1>1, <2>1, <2>2, <2>3, <2>4
<1>5. \A u, v \in Ranked' : unit'[u].rankNo = unit'[v].rankNo => u = v
  BY <1>2, <1>3 DEF Ranks
<1>6. state' = "ACTIVE" => aliveCounter' <= rankTotal'
  BY <1>1, <1>2 DEF Ranks
<1> QED
  BY <1>4, <1>5, <1>6 DEF Ranks

\* Steps that change no unit and no counter.
LEMMA UnitsUnchanged ==
  ASSUME IInv, UNCHANGED <<unitVars, rankTotal, historyVars>>, state' = "ACTIVE" => state = "ACTIVE"
  PROVE  Counters' /\ RanksSound'
<1>1. UNCHANGED <<inWorld, unit, aliveCounter, playerInBattleCounter, joinedLate, killedTwice, rankTotal>>
  BY DEF unitVars, historyVars
<1>2. Counters'
  BY <1>1 DEF IInv, Counters, Alive, InBattle, PlayerList
<1>3. aliveCounter \in Int
  BY DEF IInv, TypeOK
<1>4. RanksSound'
  BY <1>1, <1>2, <1>3, RanksKept
<1> QED
  BY <1>2, <1>4

\* A unit that dies gets the rank below all given so far.
LEMMA RanksOfDeath ==
  ASSUME IInv, NEW u \in inWorld, Died(u),
         killedTwice' = killedTwice \/ killedTwice' = TRUE, ~killedTwice' => unit[u].alive,
         state = "ACTIVE", UNCHANGED <<state, rankTotal, joinedLate>>
  PROVE  RanksSound'
<1> SUFFICES ASSUME ~joinedLate', ~killedTwice' PROVE Ranks'
  BY DEF RanksSound
<1>1. /\ aliveCounter \in Int /\ rankTotal \in Int /\ unit \in [Unit -> UnitRecord] /\ inWorld \in SUBSET Unit
      /\ joinedLate \in BOOLEAN /\ killedTwice \in BOOLEAN
  BY DEF IInv, TypeOK
<1>2. Ranks /\ ~killedTwice
  BY <1>1 DEF IInv, RanksSound
<1>3. /\ inWorld' = inWorld
      /\ aliveCounter > 0 /\ aliveCounter' = aliveCounter - 1
      /\ \A v \in inWorld \ {u} : unit'[v] = unit[v]
      /\ ~unit'[u].alive
      /\ unit[u].withdrawal # "NONE" =>
           /\ unit'[u].withdrawal = unit[u].withdrawal
           /\ unit'[u].rankNo = unit[u].rankNo /\ unit'[u].outcome = unit[u].outcome
      /\ unit[u].withdrawal = "NONE" =>
           \/ unit'[u].withdrawal = "NONE"
           \/ /\ unit'[u].rankNo = aliveCounter
              /\ unit'[u].outcome = "VICTORY" <=> aliveCounter = 1
  BY Dying
<1>4. \A v \in Ranked : unit[v].rankNo \in Nat
  BY <1>1 DEF Ranked, UnitRecord
<1>5. ASSUME NEW v \in Ranked, v # u PROVE ~unit[v].alive /\ unit[v].rankNo > aliveCounter
  <2>1. Alive \in SUBSET Unit /\ u \in Alive
    BY <1>1 DEF Alive
  <2>2. v \in inWorld
    BY DEF Ranked
  <2>3. ~unit[v].alive
    <3> SUFFICES ASSUME unit[v].alive PROVE FALSE
      OBVIOUS
    <3>1. aliveCounter = 1 /\ v \in Alive
      BY <1>2, <2>2 DEF Ranks, Alive
    <3>2. Cardinality(Alive) <= 1
      BY <1>2, <3>1 DEF IInv, Counters
    <3> QED
      BY <1>5, <2>1, <3>1, <3>2, OneCounts
  <2> QED
    BY <1>2, <2>3 DEF Ranks
<1>6. \A v \in Ranked' : v # u => v \in Ranked /\ unit'[v] = unit[v]
  BY <1>3 DEF Ranked
<1>7. u \in Ranked' =>
        \/ /\ u \in Ranked /\ unit'[u].rankNo = unit[u].rankNo /\ unit'[u].outcome = unit[u].outcome
        \/ unit'[u].rankNo = aliveCounter /\ (unit'[u].outcome = "VICTORY" <=> aliveCounter = 1)
  BY <1>3 DEF Ranked
<1>8. u \in Ranked => unit[u].rankNo = 1 /\ aliveCounter = 1
                        /\ unit[u].rankNo \in 1..rankTotal
                        /\ (unit[u].outcome = "VICTORY" <=> unit[u].rankNo = 1)
  BY <1>2 DEF Ranks
<1>9. u \in Ranked' => /\ unit'[u].rankNo = aliveCounter
                       /\ unit'[u].outcome = "VICTORY" <=> aliveCounter = 1
  BY <1>7, <1>8
<1>10. aliveCounter <= rankTotal
  BY <1>2 DEF Ranks
<1>11. ASSUME NEW v \in Ranked'
       PROVE  /\ unit'[v].alive => unit'[v].rankNo = 1 /\ aliveCounter' = 1
              /\ ~unit'[v].alive => unit'[v].rankNo > aliveCounter'
              /\ unit'[v].rankNo \in 1..rankTotal'
              /\ unit'[v].outcome = "VICTORY" <=> unit'[v].rankNo = 1
  <2>1. CASE v = u
    BY <1>1, <1>3, <1>9, <1>10, <2>1
  <2>2. CASE v # u
    <3>1. v \in Ranked /\ unit'[v] = unit[v]
      BY <1>6, <2>2
    <3>2. ~unit[v].alive /\ unit[v].rankNo > aliveCounter /\ unit[v].rankNo \in Nat
      BY <1>4, <1>5, <2>2, <3>1
    <3>3. unit[v].rankNo \in 1..rankTotal /\ (unit[v].outcome = "VICTORY" <=> unit[v].rankNo = 1)
      BY <1>2, <3>1 DEF Ranks
    <3> QED
      BY <1>1, <1>3, <3>1, <3>2, <3>3
  <2> QED
    BY <2>1, <2>2
<1>12. ASSUME NEW v \in Ranked', NEW x \in Ranked', unit'[v].rankNo = unit'[x].rankNo PROVE v = x
  <2>1. CASE v # u /\ x # u
    BY <1>2, <1>6, <1>12, <2>1 DEF Ranks
  <2>2. CASE v = u /\ x # u
    <3>1. x \in Ranked /\ unit'[x] = unit[x] /\ unit[x].rankNo > aliveCounter /\ unit[x].rankNo \in Nat
      BY <1>4, <1>5, <1>6, <2>2
    <3> QED
      BY <1>1, <1>9, <1>12, <2>2, <3>1
  <2>3. CASE v # u /\ x = u
    <3>1. v \in Ranked /\ unit'[v] = unit[v] /\ unit[v].rankNo > aliveCounter /\ unit[v].rankNo \in Nat
      BY <1>4, <1>5, <1>6, <2>3
    <3> QED
      BY <1>1, <1>9, <1>12, <2>3, <3>1
  <2> QED
    BY <2>1, <2>2, <2>3
<1>13. aliveCounter' <= rankTotal'
  BY <1>1, <1>3, <1>10
<1> QED
  BY <1>11, <1>12, <1>13 DEF Ranks

-----------------------------------------------------------------------------
(***************************************************************************)
(* The steps.                                                               *)
(***************************************************************************)

\* An empty theater satisfies the invariant.
LEMMA InitSound ==
  ASSUME Init
  PROVE  IInv
<1>1. TypeOK
  <2>1. unit \in [Unit -> UnitRecord]
    BY NewUnitType DEF Init
  <2>2. aliveCounter \in Int /\ playerInBattleCounter \in Nat /\ rankTotal \in Int
    BY DEF Init
  <2>3. /\ online \in SUBSET Player /\ waiting \in SUBSET Player /\ inWorld \in SUBSET Unit
        /\ toUpdate \in SUBSET Unit
    BY DEF Init
  <2>4. /\ prepared \in BOOLEAN /\ isTrainingGround \in BOOLEAN
        /\ joinedLate \in BOOLEAN /\ killedTwice \in BOOLEAN
    BY DEF Init
  <2> QED
    BY <2>1, <2>2, <2>3, <2>4 DEF Init, TypeOK
<1>2. Flow
  BY DEF Init, Flow, PlayerList
<1>3. Alive = {} /\ InBattle = {} /\ Ranked = {}
  BY DEF Init, Alive, InBattle, PlayerList, Ranked
<1>4. Counters
  BY <1>3, FS_EmptySet DEF Init, Counters
<1>5. RanksSound
  BY <1>3 DEF Init, RanksSound, Ranks
<1> QED
  BY <1>1, <1>2, <1>4, <1>5 DEF IInv

\* A session that is added keeps the invariant.
LEMMA AddSessionStep ==
  ASSUME IInv, NEW p \in Player, NEW trainee \in BOOLEAN, AddSession(p, trainee)
  PROVE  IInv'
<1>1. UNCHANGED <<unitVars, rankTotal, historyVars>> /\ state' = state
  BY DEF AddSession
<1>2. Counters' /\ RanksSound'
  BY <1>1, UnitsUnchanged
<1>3. TypeOK'
  <2>1. IsSleepState \in BOOLEAN
    BY DEF IsSleepState
  <2> QED
    BY <2>1 DEF IInv, TypeOK, AddSession, unitVars, loopVars, historyVars
<1>4. Flow'
  BY DEF IInv, Flow, AddSession, CanJoinBattle, PlayerList, unitVars, loopVars, historyVars
<1> QED
  BY <1>2, <1>3, <1>4 DEF IInv

\* A player who joins, in time or late, keeps the invariant.
LEMMA JoinTheaterStep ==
  ASSUME IInv, NEW p \in Player, JoinTheater(p)
  PROVE  IInv'
<1>1. UNCHANGED <<online, prepared, mapVars, loopVars, killedTwice>> /\ p \in online \ inWorld
  BY DEF JoinTheater
<1>2. CASE /\ state \in {"IDLE", "WAITING_FOR_PLAYERS"} /\ state' = "WAITING_FOR_PLAYERS"
           /\ waiting' = waiting \cup {p} /\ UNCHANGED <<unitVars, joinedLate>>
  <2>1. Counters' /\ RanksSound'
    <3>1. UNCHANGED <<unitVars, rankTotal, historyVars>> /\ state' # "ACTIVE"
      BY <1>1, <1>2 DEF mapVars, historyVars
    <3> QED
      BY <3>1, UnitsUnchanged
  <2>2. TypeOK'
    BY <1>1, <1>2 DEF IInv, TypeOK, unitVars, loopVars, mapVars
  <2>3. Flow'
    BY <1>1, <1>2 DEF IInv, Flow, PlayerList, unitVars, loopVars, mapVars
  <2> QED
    BY <2>1, <2>2, <2>3 DEF IInv
<1>3. CASE state = "ACTIVE" /\ AddToWorld({p}) /\ joinedLate' = TRUE /\ UNCHANGED <<state, waiting>>
  <2>1. {p} \in SUBSET Unit /\ {p} \cap inWorld = {} /\ killedTwice' = killedTwice
    BY <1>1 DEF Unit
  <2>2. /\ Counters'
        /\ inWorld' \in SUBSET Unit /\ unit' \in [Unit -> UnitRecord]
        /\ aliveCounter' \in Int /\ playerInBattleCounter' \in Nat
        /\ inWorld' = inWorld \cup {p}
    BY <1>3, <2>1, Entering
  <2>3. TypeOK'
    BY <1>1, <1>3, <2>2 DEF IInv, TypeOK, loopVars, mapVars
  <2>4. Flow'
    BY <1>1, <1>3, <2>2 DEF IInv, Flow, PlayerList, loopVars, mapVars
  <2>5. RanksSound'
    BY <1>3 DEF RanksSound
  <2> QED
    BY <2>2, <2>3, <2>4, <2>5 DEF IInv
<1> QED
  BY <1>2, <1>3 DEF JoinTheater

\* logoutPlayer() of a player and delRobot of a robot.
LEMMA LeaveStep ==
  ASSUME IInv, NEW u \in Unit, (LogoutPlayer(u) /\ u \in Player) \/ DelRobotCommand(u)
  PROVE  IInv'
<1>1. /\ RemoveFromWorld({u}) /\ phase' = IF RemoveFails({u}) THEN "aborted" ELSE phase
      /\ UNCHANGED <<state, prepared, mapVars, toUpdate, historyVars>>
      /\ online' = online \ ({u} \cap Player) /\ waiting' = waiting \ ({u} \cap Player)
      /\ phase = "sessions"
  <2>1. CASE LogoutPlayer(u) /\ u \in Player
    BY <2>1 DEF LogoutPlayer
  <2>2. CASE DelRobotCommand(u)
    BY <2>2, UnitAssumption DEF DelRobotCommand, Robots, theaterVars
  <2> QED
    BY <2>1, <2>2
<1>2. {u} \in SUBSET Unit /\ killedTwice' = killedTwice /\ joinedLate' = joinedLate /\ rankTotal' = rankTotal
  BY <1>1 DEF historyVars, mapVars
<1>3. /\ Counters'
      /\ inWorld' \in SUBSET Unit /\ unit' \in [Unit -> UnitRecord]
      /\ aliveCounter' \in Int /\ playerInBattleCounter' \in Nat
      /\ inWorld' = inWorld \ {u}
      /\ \A v \in inWorld' : unit'[v] = unit[v]
      /\ aliveCounter' <= aliveCounter
      /\ ~killedTwice => ~RemoveFails({u})
  BY <1>1, <1>2, Leaving
<1>4. RanksSound'
  BY <1>1, <1>2, <1>3, RanksKept
<1>5. TypeOK'
  BY <1>1, <1>2, <1>3 DEF IInv, TypeOK, mapVars
<1>6. Flow'
  <2>1. online \in SUBSET Player
    BY DEF IInv, TypeOK
  <2>2. /\ waiting' \subseteq online' /\ PlayerList' \subseteq online'
        /\ battleState' \in {"ENDING", "ENDED"} => online' \subseteq inWorld'
    BY <1>1, <1>3, <2>1 DEF IInv, Flow, PlayerList, mapVars
  <2>3. phase' \in {"sessions", "aborted"} /\ toUpdate' = {} /\ (phase' = "aborted" => killedTwice')
    BY <1>1, <1>2, <1>3 DEF IInv, Flow
  <2> QED
    BY <1>1, <1>3, <2>2, <2>3 DEF IInv, Flow, mapVars
<1> QED
  BY <1>3, <1>4, <1>5, <1>6 DEF IInv

\* The command that adds a robot keeps the invariant.
LEMMA AddRobotStep ==
  ASSUME IInv, NEW u \in Unit, AddRobotCommand(u)
  PROVE  IInv'
<1>1. /\ AddToWorld({u}) /\ joinedLate' = TRUE /\ UNCHANGED <<theaterVars, mapVars, loopVars, killedTwice>>
      /\ u \in Robot \ inWorld /\ PlayerList # {} /\ phase = "sessions"
  BY DEF AddRobotCommand
<1>2. UNCHANGED <<online, waiting, state, prepared, isTrainingGround, battleState, rankTotal, phase, toUpdate, killedTwice>>
  BY <1>1 DEF theaterVars, mapVars, loopVars
<1>3. {u} \in SUBSET Unit /\ {u} \cap inWorld = {}
  BY <1>1
<1>4. /\ Counters'
      /\ inWorld' \in SUBSET Unit /\ unit' \in [Unit -> UnitRecord]
      /\ aliveCounter' \in Int /\ playerInBattleCounter' \in Nat
      /\ inWorld' = inWorld \cup {u}
  BY <1>1, <1>2, <1>3, Entering
<1>5. TypeOK'
  BY <1>1, <1>2, <1>4 DEF IInv, TypeOK
<1>6. Flow'
  <2>1. state = "ACTIVE"
    BY <1>1 DEF IInv, Flow, TypeOK, PlayerList
  <2>2. PlayerList' = PlayerList
    BY <1>1, <1>4, UnitAssumption DEF PlayerList
  <2> QED
    BY <1>1, <1>2, <1>4, <2>1, <2>2 DEF IInv, Flow
<1>7. RanksSound'
  BY <1>1 DEF RanksSound
<1> QED
  BY <1>4, <1>5, <1>6, <1>7 DEF IInv

\* A unit dies, in the battle or by a command.
LEMMA DeathStep ==
  ASSUME IInv, NEW u \in Unit,
         ExecuteDieCommand(u) \/ ExecuteReceiveDamageCommand(u) \/ UnitDies(u)
  PROVE  IInv'
<1>1. /\ u \in inWorld /\ Died(u) /\ UNCHANGED <<theaterVars, mapVars, toUpdate, joinedLate>>
      /\ killedTwice' = killedTwice \/ killedTwice' = TRUE
      /\ ~killedTwice' => unit[u].alive
  <2>1. killedTwice \in BOOLEAN /\ inWorld \in SUBSET Unit /\ unit \in [Unit -> UnitRecord]
    BY DEF IInv, TypeOK
  <2>2. CASE ExecuteDieCommand(u) \/ UnitDies(u)
    BY <2>2 DEF ExecuteDieCommand, UnitDies, historyVars
  <2>3. CASE ExecuteReceiveDamageCommand(u)
    <3>1. unit[u].alive \in BOOLEAN
      BY <2>1 DEF UnitRecord
    <3>2. killedTwice' = (killedTwice \/ ~unit[u].alive)
      BY <2>3 DEF ExecuteReceiveDamageCommand
    <3> QED
      BY <2>1, <2>3, <3>1, <3>2 DEF ExecuteReceiveDamageCommand
  <2> QED
    BY <2>2, <2>3
<1>2. state = "ACTIVE"
  <2>1. state \in {"IDLE", "WAITING_FOR_PLAYERS", "PLAYERS_IN_PLACE", "ACTIVE"}
    BY DEF IInv, TypeOK
  <2>2. state = "PLAYERS_IN_PLACE" => phase = "update"
    BY DEF IInv, Flow
  <2>3. phase # "update"
    BY DEF ExecuteDieCommand, ExecuteReceiveDamageCommand, UnitDies
  <2>4. state \in {"IDLE", "WAITING_FOR_PLAYERS"} => inWorld = {}
    BY DEF IInv, Flow
  <2> QED
    BY <1>1, <2>1, <2>2, <2>3, <2>4
<1>3. UNCHANGED <<online, waiting, state, prepared, isTrainingGround, battleState, rankTotal, toUpdate, joinedLate>>
  BY <1>1 DEF theaterVars, mapVars
<1>4. /\ Counters'
      /\ unit' \in [Unit -> UnitRecord] /\ aliveCounter' \in Int
      /\ inWorld' = inWorld /\ playerInBattleCounter' = playerInBattleCounter
      /\ phase' = phase \/ phase' = "aborted"
      /\ phase' = "aborted" => killedTwice'
  BY <1>1, Dying
<1>5. RanksSound'
  BY <1>1, <1>2, <1>3, RanksOfDeath
<1>6. TypeOK'
  BY <1>1, <1>3, <1>4, ZenonT(40) DEF IInv, TypeOK
<1>7. Flow'
  <2>1. PlayerList' = PlayerList
    BY <1>4 DEF PlayerList
  <2> QED
    BY <1>2, <1>3, <1>4, <2>1 DEF IInv, Flow
<1> QED
  BY <1>4, <1>5, <1>6, <1>7 DEF IInv

\* The start of a battle with its robots keeps the invariant.
LEMMA PlayersInPlaceStep ==
  ASSUME IInv, NEW R \in SUBSET (Robot \ inWorld), PlayersInPlace(R)
  PROVE  IInv'
<1> DEFINE U == waiting \cup R
<1>1. /\ state = "WAITING_FOR_PLAYERS" /\ AddToWorld(U) /\ waiting' = {} /\ state' = "PLAYERS_IN_PLACE"
      /\ phase = "sessions" /\ phase' = "update"
      /\ UNCHANGED <<online, prepared, isTrainingGround, battleState, rankTotal, toUpdate, joinedLate, killedTwice>>
  BY DEF PlayersInPlace, mapVars, historyVars
<1>2. waiting \in SUBSET Player /\ waiting \subseteq online /\ inWorld = {}
  BY <1>1 DEF IInv, TypeOK, Flow
<1>3. U \in SUBSET Unit /\ U \cap inWorld = {} /\ U \cap Player \subseteq online
  BY <1>2, UnitAssumption DEF Unit
<1> HIDE DEF U
<1>4. /\ Counters'
      /\ inWorld' \in SUBSET Unit /\ unit' \in [Unit -> UnitRecord]
      /\ aliveCounter' \in Int /\ playerInBattleCounter' \in Nat
      /\ inWorld' = inWorld \cup U
      /\ \A u \in U : unit'[u] = NewUnit
  BY <1>1, <1>3, Entering
<1>5. TypeOK'
  BY <1>1, <1>4 DEF IInv, TypeOK
<1>6. inWorld' = U /\ \A u \in inWorld' : unit'[u].withdrawal = "NONE"
  BY <1>2, <1>4 DEF NewUnit
<1>7. Flow'
  <2>1. PlayerList' \subseteq online'
    BY <1>1, <1>3, <1>6 DEF PlayerList
  <2> QED
    BY <1>1, <1>6, <2>1 DEF IInv, Flow
<1>8. RanksSound'
  <2>1. Ranked' = {}
    BY <1>6 DEF Ranked
  <2> QED
    BY <1>1, <2>1 DEF RanksSound, Ranks
<1> QED
  BY <1>4, <1>5, <1>7, <1>8 DEF IInv

\* The steps of the loop that change no unit.
LEMMA LoopSteps ==
  ASSUME IInv, AdvancedUpdate \/ BeginMapUpdate \/ NoMapUpdate
  PROVE  IInv'
<1>1. UNCHANGED <<theaterVars, mapVars, unitVars, historyVars>>
  BY DEF AdvancedUpdate, BeginMapUpdate, NoMapUpdate
<1>2. UNCHANGED <<online, waiting, state, prepared, isTrainingGround, battleState, rankTotal, inWorld, unit,
                  aliveCounter, playerInBattleCounter, joinedLate, killedTwice>>
  BY <1>1 DEF theaterVars, mapVars, unitVars, historyVars
<1>3. Counters' /\ RanksSound'
  BY <1>1, <1>2, UnitsUnchanged
<1>4. phase' \in {"sessions", "update", "units"} /\ toUpdate' \in SUBSET Unit /\ toUpdate' \subseteq inWorld
      /\ (phase' \in {"sessions", "update"} => toUpdate' = {})
  BY DEF AdvancedUpdate, BeginMapUpdate, NoMapUpdate, IInv, Flow, TypeOK
<1>5. TypeOK'
  BY <1>2, <1>4 DEF IInv, TypeOK
<1>6. Flow'
  <2>1. PlayerList' = PlayerList
    BY <1>2 DEF PlayerList
  <2>2. state = "PLAYERS_IN_PLACE" => phase' = "update"
    BY DEF AdvancedUpdate, BeginMapUpdate, NoMapUpdate
  <2> QED
    BY <1>2, <1>4, <2>1, <2>2 DEF IInv, Flow
<1> QED
  BY <1>3, <1>5, <1>6 DEF IInv

\* The first update of a battle keeps the invariant.
LEMMA OnStartStep ==
  ASSUME IInv, OnStart
  PROVE  IInv'
<1>1. /\ phase = "update" /\ state = "PLAYERS_IN_PLACE" /\ rankTotal' = aliveCounter
      /\ battleState' \in {"IN_PROGRESS", "PREPARING"} /\ state' = "ACTIVE" /\ prepared' = FALSE
      /\ joinedLate' = FALSE /\ phase' = "units" /\ toUpdate' = inWorld
      /\ UNCHANGED <<online, waiting, isTrainingGround, inWorld, unit, aliveCounter, playerInBattleCounter, killedTwice>>
  BY DEF OnStart, unitVars
<1>2. Counters'
  BY <1>1 DEF IInv, Counters, Alive, InBattle, PlayerList
<1>3. RanksSound'
  <2>1. Ranked' = {}
    BY <1>1 DEF Ranked, IInv, Flow
  <2>2. aliveCounter \in Int
    BY DEF IInv, TypeOK
  <2> QED
    BY <1>1, <2>1, <2>2 DEF RanksSound, Ranks
<1>4. TypeOK'
  BY <1>1 DEF IInv, TypeOK
<1>5. Flow'
  BY <1>1 DEF IInv, Flow, PlayerList
<1> QED
  BY <1>2, <1>3, <1>4, <1>5 DEF IInv

\* The end of a battle, which empties the map, keeps the invariant.
LEMMA OnStopStep ==
  ASSUME IInv, OnStop
  PROVE  IInv'
<1>1. /\ phase = "update" /\ state \in {"WAITING_FOR_PLAYERS", "ACTIVE"} /\ online = {} /\ state' = "IDLE"
      /\ UNCHANGED <<online, waiting, prepared, isTrainingGround, rankTotal, toUpdate, joinedLate, killedTwice>>
  BY DEF OnStop, historyVars
<1>2. PlayerList = {} /\ toUpdate = {}
  BY <1>1 DEF IInv, Flow
<1>3. CASE state = "ACTIVE"
  <2>1. RemoveFromWorld(Robots) /\ battleState' = "NONE" /\ phase' = IF RemoveFails(Robots) THEN "aborted" ELSE "sessions"
    BY <1>3 DEF OnStop
  <2>2. Robots \in SUBSET Unit
    BY DEF Robots, Unit
  <2>3. /\ Counters'
        /\ inWorld' \in SUBSET Unit /\ unit' \in [Unit -> UnitRecord]
        /\ aliveCounter' \in Int /\ playerInBattleCounter' \in Nat
        /\ inWorld' = inWorld \ Robots
        /\ \A v \in inWorld' : unit'[v] = unit[v]
        /\ aliveCounter' <= aliveCounter
        /\ ~killedTwice => ~RemoveFails(Robots)
    BY <1>1, <2>1, <2>2, Leaving
  <2>4. inWorld' = {}
    BY <1>2, <2>3 DEF IInv, TypeOK, Robots, PlayerList, Unit
  <2>5. RanksSound'
    BY <1>1, <2>4 DEF RanksSound, Ranks, Ranked
  <2>6. TypeOK'
    BY <1>1, <2>1, <2>3 DEF IInv, TypeOK
  <2>7. Flow'
    BY <1>1, <1>2, <1>3, <2>1, <2>3, <2>4 DEF IInv, Flow, PlayerList
  <2> QED
    BY <2>3, <2>5, <2>6, <2>7 DEF IInv
<1>4. CASE state # "ACTIVE"
  <2>1. UNCHANGED <<unitVars, battleState>> /\ phase' = "sessions"
    BY <1>4 DEF OnStop
  <2>2. Counters' /\ RanksSound'
    BY <1>1, <2>1, UnitsUnchanged DEF historyVars
  <2>3. TypeOK'
    BY <1>1, <2>1 DEF IInv, TypeOK, unitVars
  <2>4. Flow'
    BY <1>1, <1>2, <1>4, <2>1 DEF IInv, Flow, PlayerList, unitVars
  <2> QED
    BY <2>2, <2>3, <2>4 DEF IInv
<1> QED
  BY <1>3, <1>4

\* The update of a unit, which may die, withdraw or win, keeps the invariant.
LEMMA UpdateUnitStep ==
  ASSUME IInv, NEW u \in Unit, UpdateUnit(u)
  PROVE  IInv'
<1> DEFINE timer == IF unit[u].timer <= 0 THEN unit[u].timer ELSE unit[u].timer - 1
<1>1. /\ phase = "units" /\ u \in toUpdate /\ toUpdate' = toUpdate \ {u}
      /\ UNCHANGED <<online, waiting, state, prepared, isTrainingGround, battleState, rankTotal, phase, joinedLate, killedTwice>>
      /\ \/ unit[u].withdrawal # "WITHDRAWING" /\ UNCHANGED <<inWorld, unit, aliveCounter, playerInBattleCounter>>
         \/ /\ unit[u].withdrawal = "WITHDRAWING" /\ unit' = [unit EXCEPT ![u].timer = timer]
            /\ UNCHANGED <<inWorld, aliveCounter, playerInBattleCounter>>
         \/ unit[u].withdrawal = "WITHDRAWING" /\ Withdraw(u)
  BY DEF UpdateUnit, theaterVars, mapVars, historyVars, unitVars
<1>2. /\ inWorld \in SUBSET Unit /\ unit \in [Unit -> UnitRecord] /\ unit[u] \in UnitRecord
      /\ aliveCounter \in Int /\ playerInBattleCounter \in Nat /\ timer \in Nat
  BY DEF IInv, TypeOK, UnitRecord
<1>3. u \in inWorld
  BY <1>1 DEF IInv, Flow
<1> SUFFICES /\ Counters' /\ inWorld' \in SUBSET inWorld /\ inWorld \ {u} \in SUBSET inWorld'
             /\ inWorld \cap Player \in SUBSET inWorld'
             /\ unit' \in [Unit -> UnitRecord] /\ aliveCounter' \in Int /\ aliveCounter' <= aliveCounter
             /\ playerInBattleCounter' \in Nat
             /\ \A v \in inWorld' : /\ unit'[v].alive = unit[v].alive
                                    /\ unit'[v].rankNo = unit[v].rankNo /\ unit'[v].outcome = unit[v].outcome
                                    /\ unit'[v].withdrawal # "NONE" => unit[v].withdrawal # "NONE"
  <2>1. RanksSound'
    BY <1>1, RanksKept
  <2>2. TypeOK'
    BY <1>1, <1>2 DEF IInv, TypeOK
  <2>3. Flow'
    <3>1. online \in SUBSET Player
      BY DEF IInv, TypeOK
    <3>2. state # "PLAYERS_IN_PLACE"
      BY <1>1 DEF IInv, Flow
    <3>3. PlayerList' \subseteq PlayerList
      BY DEF PlayerList
    <3>4. battleState \in {"ENDING", "ENDED"} => online \subseteq inWorld'
      BY <3>1 DEF IInv, Flow
    <3>5. toUpdate' \subseteq inWorld'
      BY <1>1 DEF IInv, Flow
    <3> QED
      BY <1>1, <3>2, <3>3, <3>4, <3>5 DEF IInv, Flow
  <2> QED
    BY <2>1, <2>2, <2>3 DEF IInv
<1>4. CASE unit[u].withdrawal # "WITHDRAWING" /\ UNCHANGED <<inWorld, unit, aliveCounter, playerInBattleCounter>>
  <2>1. Counters'
    BY <1>1, <1>4 DEF IInv, Counters, Alive, InBattle, PlayerList
  <2> QED
    BY <1>2, <1>4, <2>1
<1>5. CASE /\ unit[u].withdrawal = "WITHDRAWING" /\ unit' = [unit EXCEPT ![u].timer = timer]
           /\ UNCHANGED <<inWorld, aliveCounter, playerInBattleCounter>>
  <2> HIDE DEF timer
  <2>1. /\ unit'[u] = [unit[u] EXCEPT !.timer = timer]
        /\ \A v \in Unit : v # u => unit'[v] = unit[v]
    BY <1>2, <1>5
  <2>2. /\ unit'[u] \in UnitRecord /\ unit'[u].alive = unit[u].alive /\ unit'[u].rankNo = unit[u].rankNo
        /\ unit'[u].outcome = unit[u].outcome /\ unit'[u].withdrawal = unit[u].withdrawal
    BY <1>2, <2>1 DEF UnitRecord
  <2>3. unit' \in [Unit -> UnitRecord]
    <3>1. unit' = [v \in Unit |-> IF v = u THEN unit'[u] ELSE unit[v]]
      BY <1>2, <1>5, <2>1
    <3> QED
      BY <1>2, <2>2, <3>1
  <2>4. Alive' = Alive /\ InBattle' = InBattle
    BY <1>2, <1>5, <2>1, <2>2 DEF Alive, InBattle, PlayerList
  <2>5. Counters'
    BY <1>1, <1>5, <2>4 DEF IInv, Counters
  <2> QED
    BY <1>2, <1>5, <2>1, <2>2, <2>3, <2>5
<1>6. CASE unit[u].withdrawal = "WITHDRAWING" /\ Withdraw(u)
  <2>1. CASE u \in Player
    <3>1. /\ unit' = [unit EXCEPT ![u].withdrawal = "WITHDREW", ![u].timer = 0]
          /\ playerInBattleCounter' = playerInBattleCounter - 1 /\ UNCHANGED <<inWorld, aliveCounter>>
      BY <1>6, <2>1 DEF Withdraw
    <3>2. /\ unit'[u] = [unit[u] EXCEPT !.withdrawal = "WITHDREW", !.timer = 0]
          /\ \A v \in Unit : v # u => unit'[v] = unit[v]
      BY <1>2, <3>1
    <3>3. /\ unit'[u] \in UnitRecord /\ unit'[u].alive = unit[u].alive /\ unit'[u].rankNo = unit[u].rankNo
          /\ unit'[u].outcome = unit[u].outcome /\ unit'[u].withdrawal = "WITHDREW"
      <4>1. unit[u] \in UnitRecord /\ 0 \in Nat
        BY <1>2
      <4>2. unit'[u] = [unit[u] EXCEPT !.withdrawal = "WITHDREW", !.timer = 0]
        BY <3>2
      <4> QED
        BY <4>1, <4>2 DEF UnitRecord
    <3>4. unit' \in [Unit -> UnitRecord]
      <4>1. unit' = [v \in Unit |-> IF v = u THEN unit'[u] ELSE unit[v]]
        BY <1>2, <3>1, <3>2
      <4> QED
        BY <1>2, <3>3, <4>1
    <3>5. Alive' = Alive
      BY <1>2, <3>1, <3>2, <3>3 DEF Alive
    <3>6. InBattle' = InBattle \ {u} /\ u \in InBattle
      BY <1>2, <1>3, <1>6, <2>1, <3>1, <3>2, <3>3 DEF InBattle, PlayerList
    <3>7. IsFiniteSet(InBattle) /\ Cardinality(InBattle) \in Nat /\ Cardinality(InBattle') \in Nat
      <4>1. InBattle \in SUBSET Unit /\ InBattle' \in SUBSET Unit
        BY <1>2, <3>6 DEF InBattle, PlayerList
      <4> QED
        BY <4>1, FiniteUnits
    <3>8. Cardinality(InBattle') = Cardinality(InBattle) - 1
      BY <3>6, <3>7, FS_RemoveElement
    <3>9. Counters'
      BY <1>1, <3>1, <3>5, <3>8 DEF IInv, Counters
    <3>10. playerInBattleCounter' \in Nat
      BY <3>7, <3>9 DEF Counters
    <3> QED
      BY <1>2, <1>6, <3>1, <3>2, <3>3, <3>4, <3>9, <3>10
  <2>2. CASE u \notin Player
    <3>1. RemoveFromWorld({u}) /\ {u} \in SUBSET Unit /\ killedTwice' = killedTwice
      BY <1>1, <1>6, <2>2 DEF Withdraw
    <3>2. /\ Counters'
          /\ inWorld' \in SUBSET Unit /\ unit' \in [Unit -> UnitRecord]
          /\ aliveCounter' \in Int /\ playerInBattleCounter' \in Nat
          /\ inWorld' = inWorld \ {u}
          /\ \A v \in inWorld' : unit'[v] = unit[v]
          /\ aliveCounter' <= aliveCounter
      BY <3>1, Leaving
    <3> QED
      BY <2>2, <3>2
  <2> QED
    BY <2>1, <2>2
<1> QED
  BY <1>1, <1>4, <1>5, <1>6

\* The end of the battle, with the withdrawal of the victor.
LEMMA VictorStep ==
  ASSUME IInv, state = "ACTIVE", IsOver, VictorWithdraws,
         UNCHANGED <<state, rankTotal, inWorld, aliveCounter, playerInBattleCounter, joinedLate, killedTwice>>
  PROVE  Counters' /\ RanksSound' /\ unit' \in [Unit -> UnitRecord]
<1>1. /\ inWorld \in SUBSET Unit /\ unit \in [Unit -> UnitRecord] /\ aliveCounter \in Int /\ rankTotal \in Int
      /\ joinedLate \in BOOLEAN /\ killedTwice \in BOOLEAN
  BY DEF IInv, TypeOK
<1>2. CASE UNCHANGED unit
  <2>1. UNCHANGED <<unitVars, rankTotal, historyVars>>
    BY <1>2 DEF unitVars, historyVars
  <2> QED
    BY <1>1, <1>2, <2>1, UnitsUnchanged
<1>3. CASE \E p \in Victors : unit' = [unit EXCEPT ![p] = WithdrawDelayed(@, "VICTORY", 1)]
  <2>1. PICK p \in Victors : unit' = [unit EXCEPT ![p] = WithdrawDelayed(@, "VICTORY", 1)]
    BY <1>3
  <2>2. p \in inWorld /\ p \in Unit /\ unit[p].alive /\ unit[p] \in UnitRecord
    <3>1. Victors \in SUBSET {x \in PlayerList : unit[x].alive}
      BY DEF Victors
    <3> QED
      BY <1>1, <3>1 DEF PlayerList
  <2> DEFINE q == WithdrawDelayed(unit[p], "VICTORY", 1)
  <2>3. /\ q \in UnitRecord /\ q.alive = unit[p].alive
        /\ unit[p].withdrawal # "NONE" => q = unit[p]
        /\ unit[p].withdrawal = "NONE" => q.withdrawal = "WITHDRAWING" /\ q.outcome = "VICTORY" /\ q.rankNo = 1
    <3>1. \A r \in UnitRecord : LET z == WithdrawDelayed(r, "VICTORY", 1) IN
            /\ z \in UnitRecord /\ z.alive = r.alive
            /\ r.withdrawal # "NONE" => z = r
            /\ r.withdrawal = "NONE" => z.withdrawal = "WITHDRAWING" /\ z.outcome = "VICTORY" /\ z.rankNo = 1
      BY WithdrawDelayedType
    <3> QED
      BY <2>2, <3>1
  <2>4. unit' = [unit EXCEPT ![p] = q]
    BY <2>1
  <2> HIDE DEF q
  <2>5. unit'[p] = q /\ (\A v \in Unit : v # p => unit'[v] = unit[v]) /\ unit' \in [Unit -> UnitRecord]
    BY <1>1, <2>2, <2>3, <2>4
  <2>6. Alive' = Alive /\ InBattle' = InBattle
    BY <1>1, <2>2, <2>3, <2>5 DEF Alive, InBattle, PlayerList
  <2>7. Counters'
    BY <2>6 DEF IInv, Counters
  <2>8. CASE unit[p].withdrawal # "NONE"
    <3>1. unit' = unit
      BY <1>1, <2>2, <2>3, <2>4, <2>8
    <3>2. UNCHANGED <<unitVars, rankTotal, historyVars>>
      BY <3>1 DEF unitVars, historyVars
    <3> QED
      BY <2>5, <3>2, UnitsUnchanged
  <2>9. CASE unit[p].withdrawal = "NONE"
    <3> SUFFICES ASSUME ~joinedLate', ~killedTwice' PROVE Ranks'
      BY <2>5, <2>7 DEF RanksSound
    <3>1. Ranks /\ aliveCounter = Cardinality(Alive)
      BY DEF IInv, RanksSound, Counters
    <3>2. Alive \in SUBSET Unit /\ p \in Alive
      BY <1>1, <2>2 DEF Alive
    <3>3. aliveCounter = 1 /\ Alive = {p}
      <4>1. aliveCounter <= 1
        BY DEF IsOver
      <4>2. Cardinality(Alive) >= 1 /\ (Cardinality(Alive) <= 1 => Alive = {p})
        BY <3>2, OneCounts
      <4> QED
        BY <1>1, <3>1, <4>1, <4>2
    <3>4. \A v \in Ranked' : v # p => v \in Ranked /\ unit'[v] = unit[v]
      BY <1>1, <2>5 DEF Ranked
    <3>5. unit'[p].alive /\ unit'[p].rankNo = 1 /\ unit'[p].outcome = "VICTORY"
      BY <2>2, <2>3, <2>5, <2>9
    <3>6. ASSUME NEW v \in Ranked PROVE v # p /\ ~unit[v].alive /\ unit[v].rankNo > 1 /\ unit[v].rankNo \in Nat
      <4>1. v # p /\ v \in inWorld
        BY <2>9 DEF Ranked
      <4>2. ~unit[v].alive
        BY <3>3, <4>1 DEF Alive
      <4> QED
        BY <1>1, <3>1, <3>3, <4>1, <4>2 DEF Ranks, UnitRecord
    <3>7. 1 <= rankTotal
      BY <3>1, <3>3 DEF Ranks
    <3>8. ASSUME NEW v \in Ranked'
          PROVE  /\ unit'[v].alive => unit'[v].rankNo = 1 /\ aliveCounter' = 1
                 /\ ~unit'[v].alive => unit'[v].rankNo > aliveCounter'
                 /\ unit'[v].rankNo \in 1..rankTotal'
                 /\ unit'[v].outcome = "VICTORY" <=> unit'[v].rankNo = 1
      <4>1. CASE v = p
        BY <1>1, <3>3, <3>5, <3>7, <4>1
      <4>2. CASE v # p
        <5>1. v \in Ranked /\ unit'[v] = unit[v]
          BY <3>4, <4>2
        <5>2. unit[v].rankNo \in 1..rankTotal /\ (unit[v].outcome = "VICTORY" <=> unit[v].rankNo = 1)
          BY <3>1, <5>1 DEF Ranks
        <5>3. ~unit[v].alive /\ unit[v].rankNo > 1
          BY <3>6, <5>1
        <5> QED
          BY <1>1, <3>3, <5>1, <5>2, <5>3
      <4> QED
        BY <4>1, <4>2
    <3>9. ASSUME NEW v \in Ranked', NEW x \in Ranked', unit'[v].rankNo = unit'[x].rankNo PROVE v = x
      <4>1. CASE v # p /\ x # p
        BY <3>1, <3>4, <3>9, <4>1 DEF Ranks
      <4>2. CASE v = p /\ x # p
        BY <3>4, <3>5, <3>6, <3>9, <4>2
      <4>3. CASE v # p /\ x = p
        BY <3>4, <3>5, <3>6, <3>9, <4>3
      <4> QED
        BY <4>1, <4>2, <4>3
    <3>10. aliveCounter' <= rankTotal'
      BY <3>3, <3>7
    <3> QED
      BY <3>8, <3>9, <3>10 DEF Ranks
  <2> QED
    BY <2>8, <2>9
<1> QED
  BY <1>2, <1>3 DEF VictorWithdraws

\* When the battle is over, those online are on the map.
LEMMA AllHere ==
  ASSUME IInv, IsOver
  PROVE  online \subseteq inWorld
<1>1. online \in SUBSET Player /\ PlayerList \in SUBSET online
  BY DEF IInv, TypeOK, Flow
<1>2. IsFiniteSet(online)
  BY <1>1, FiniteUnits DEF Unit
<1>3. Cardinality(online) = Cardinality(PlayerList)
  BY DEF IsOver, IsAllPlayersHere, OnlineCount
<1>4. online = PlayerList
  BY <1>1, <1>2, <1>3, FS_Subset
<1> QED
  BY <1>4 DEF PlayerList

\* A step of the state of the battle keeps the invariant.
LEMMA BattleStateStep ==
  ASSUME IInv, NEW passed \in BOOLEAN, UpdateBattleState(passed)
  PROVE  IInv'
<1>1. /\ phase = "units" /\ toUpdate = {} /\ phase' = "sessions"
      /\ UNCHANGED <<online, waiting, state, prepared, isTrainingGround, rankTotal, inWorld, aliveCounter,
                     playerInBattleCounter, toUpdate, joinedLate, killedTwice>>
  BY DEF UpdateBattleState, theaterVars, historyVars
<1>2. /\ battleState # "NONE" /\ state = "ACTIVE"
      /\ battleState' \in {"PREPARING", "IN_PROGRESS", "ENDING", "ENDED"}
  BY DEF UpdateBattleState, IInv, Flow
<1>3. battleState' \in {"ENDING", "ENDED"} => online \subseteq inWorld
  <2>1. battleState' \in {"ENDING", "ENDED"} =>
          (battleState = "IN_PROGRESS" /\ IsOver) \/ battleState = "ENDING"
    BY DEF UpdateBattleState
  <2> QED
    BY <2>1, AllHere DEF IInv, Flow
<1>4. \/ UNCHANGED unit
      \/ IsOver /\ VictorWithdraws
  BY DEF UpdateBattleState
<1>5. Counters' /\ RanksSound' /\ unit' \in [Unit -> UnitRecord]
  <2>1. CASE UNCHANGED unit
    <3>1. UNCHANGED <<unitVars, rankTotal, historyVars>>
      BY <1>1, <2>1 DEF unitVars, historyVars
    <3> QED
      BY <1>1, <2>1, <3>1, UnitsUnchanged DEF IInv, TypeOK
  <2>2. CASE IsOver /\ VictorWithdraws
    BY <1>1, <1>2, <2>2, VictorStep
  <2> QED
    BY <1>4, <2>1, <2>2
<1>6. TypeOK'
  BY <1>1, <1>2, <1>5 DEF IInv, TypeOK
<1>7. Flow'
  <2>1. PlayerList' = PlayerList
    BY <1>1 DEF PlayerList
  <2> QED
    BY <1>1, <1>2, <1>3, <2>1 DEF IInv, Flow
<1> QED
  BY <1>5, <1>6, <1>7 DEF IInv

\* A step that changes nothing keeps the invariant.
LEMMA Stutter ==
  ASSUME IInv, UNCHANGED vars
  PROVE  IInv'
<1>1. UNCHANGED <<unitVars, rankTotal, historyVars>> /\ state' = state
  BY DEF vars, mapVars, theaterVars
<1>2. Counters' /\ RanksSound'
  BY <1>1, UnitsUnchanged
<1>3. TypeOK' /\ Flow'
  BY DEF IInv, TypeOK, Flow, PlayerList, vars, theaterVars, mapVars, unitVars, loopVars, historyVars
<1> QED
  BY <1>2, <1>3 DEF IInv

\* Every step keeps the invariant.
LEMMA StepSound ==
  ASSUME IInv, [Next]_vars
  PROVE  IInv'
<1>1. CASE UNCHANGED vars
  BY <1>1, Stutter
<1>2. CASE Messages
  <2>1. PICK u \in Unit :
          \/ u \in Player /\ ((\E b \in BOOLEAN : AddSession(u, b)) \/ JoinTheater(u) \/ LogoutPlayer(u))
          \/ ExecuteDieCommand(u)
          \/ ExecuteReceiveDamageCommand(u)
          \/ AddRobotCommand(u)
          \/ DelRobotCommand(u)
    BY <1>2 DEF Messages
  <2> QED
    BY <2>1, AddSessionStep, JoinTheaterStep, LeaveStep, DeathStep, AddRobotStep
<1>3. CASE Tick
  BY <1>3, LoopSteps, OnStartStep, OnStopStep, UpdateUnitStep, BattleStateStep DEF Tick
<1>4. CASE \E R \in SUBSET (Robot \ inWorld) : PlayersInPlace(R)
  BY <1>4, PlayersInPlaceStep
<1>5. CASE \E u \in Unit : UnitDies(u)
  BY <1>5, DeathStep
<1>6. CASE Aborted
  BY <1>6, Stutter DEF Aborted
<1> QED
  BY <1>1, <1>2, <1>3, <1>4, <1>5, <1>6 DEF Next

-----------------------------------------------------------------------------
\* The types of the theater and its battle.
THEOREM BattleTypeCorrect == Spec => []TypeOK
<1>1. Init => IInv
  BY InitSound
<1>2. IInv /\ [Next]_vars => IInv'
  BY StepSound
<1>3. IInv => TypeOK
  BY DEF IInv
<1> QED
  BY <1>1, <1>2, <1>3, PTL DEF Spec

(***************************************************************************)
(* m_aliveCounter and m_playerInBattleCounter are the numbers of living     *)
(* units and of players still in the battle (addToWorld(),                  *)
(* removeFromWorld(), died(), withdraw()), and their assertion fails only   *)
(* after a command of a game master has killed a dead unit.                 *)
(***************************************************************************)
THEOREM CountersCorrect == Spec => []CountersMatch
<1>1. Init => IInv
  BY InitSound
<1>2. IInv /\ [Next]_vars => IInv'
  BY StepSound
<1>3. IInv => CountersMatch
  BY DEF IInv, Flow, Counters, CountersMatch, Alive, InBattle
<1> QED
  BY <1>1, <1>2, <1>3, PTL DEF Spec

(***************************************************************************)
(* The ranks of a battle are distinct, within the total, and only rank 1 is *)
(* a victory (playerKilled(), robotKilled(), findVictoriousPlayer()).       *)
(***************************************************************************)
THEOREM RanksCorrect == Spec => []RanksDistinct
<1>1. Init => IInv
  BY InitSound
<1>2. IInv /\ [Next]_vars => IInv'
  BY StepSound
<1>3. IInv => RanksDistinct
  BY DEF IInv, RanksSound, Ranks, RanksDistinct
<1> QED
  BY <1>1, <1>2, <1>3, PTL DEF Spec

(***************************************************************************)
(* Nobody enters a battle that is ending or has ended (handleJoinTheater(), *)
(* onPlayersInPlace(), updateBattleState()).                                *)
(***************************************************************************)
THEOREM EntryCorrect == Spec => NobodyEntersLate
<1> DEFINE Entry == \A p \in Player : p \notin inWorld /\ p \in inWorld' => battleState \notin {"ENDING", "ENDED"}
<1>1. Init => IInv
  BY InitSound
<1>2. IInv /\ [Next]_vars => IInv'
  BY StepSound
<1>3. IInv /\ [Next]_vars => [Entry]_vars
  <2> SUFFICES ASSUME IInv, Next, NEW p \in Player, p \notin inWorld, p \in inWorld',
                      battleState \in {"ENDING", "ENDED"}
               PROVE  FALSE
    OBVIOUS
  <2>1. state = "ACTIVE" /\ online \subseteq inWorld /\ p \notin online
    BY DEF IInv, Flow
  <2>2. CASE \E u \in Player : JoinTheater(u)
    BY <2>1, <2>2 DEF JoinTheater
  <2>3. CASE \E R \in SUBSET (Robot \ inWorld) : PlayersInPlace(R)
    BY <2>1, <2>3 DEF PlayersInPlace
  <2>4. CASE \E u \in Unit : AddRobotCommand(u)
    BY <2>4, UnitAssumption DEF AddRobotCommand, AddToWorld
  <2>5. CASE inWorld' \subseteq inWorld
    BY <2>5
  <2>6. \/ \E u \in Player : JoinTheater(u)
        \/ \E R \in SUBSET (Robot \ inWorld) : PlayersInPlace(R)
        \/ \E u \in Unit : AddRobotCommand(u)
        \/ inWorld' \subseteq inWorld
    <3>1. CASE Messages
      BY <3>1 DEF Messages, AddSession, LogoutPlayer, RemoveFromWorld, ExecuteDieCommand, Died,
                  ExecuteReceiveDamageCommand, DelRobotCommand, unitVars
    <3>2. CASE AdvancedUpdate \/ OnStart \/ OnStop \/ BeginMapUpdate \/ NoMapUpdate
      BY <3>2 DEF AdvancedUpdate, OnStart, OnStop, BeginMapUpdate, NoMapUpdate, RemoveFromWorld, unitVars
    <3>3. CASE \E u \in Unit : UpdateUnit(u)
      BY <3>3 DEF UpdateUnit, Withdraw, RemoveFromWorld, unitVars
    <3>4. CASE \E passed \in BOOLEAN : UpdateBattleState(passed)
      BY <3>4 DEF UpdateBattleState
    <3>5. CASE (\E u \in Unit : UnitDies(u)) \/ Aborted
      BY <3>5 DEF UnitDies, Died, Aborted, vars, unitVars
    <3> QED
      BY <3>1, <3>2, <3>3, <3>4, <3>5 DEF Next, Tick
  <2> QED
    BY <2>2, <2>3, <2>4, <2>5, <2>6
<1>4. NobodyEntersLate <=> [][Entry]_vars
  BY DEF NobodyEntersLate
<1> QED
  BY <1>1, <1>2, <1>3, <1>4, PTL DEF Spec
=============================================================================
