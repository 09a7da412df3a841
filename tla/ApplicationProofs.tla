-------------------------- MODULE ApplicationProofs --------------------------
(***************************************************************************)
(* Proofs about NetworkThread, for any number of threads and connections,   *)
(* and about the process around it, for any number of messages.             *)
(*                                                                          *)
(* The counters are exact because a connection is in one place only: a      *)
(* connection that moves from the queue to the list of a thread is new      *)
(* there, and one that is removed was there.  They are balanced because the *)
(* connections a thread ever got, those it has and those it lost, only      *)
(* grow, so what the scan has read about a thread bounds it for good.       *)
(*                                                                          *)
(* The process only adds guards to the steps of NetworkThread, so that all  *)
(* this holds of it.                                                        *)
(*                                                                          *)
(* What its main thread and its network threads do with the realm list, the *)
(* module RealmManager, is a specification of its own, proved here for any  *)
(* number of threads and any databases.                                     *)
(***************************************************************************)
EXTENDS Application, RealmManager, FiniteSetTheorems, TLAPS

USE DEF acceptVars

\* The sockets of a thread are distinct, and so are those on their way to it.
InOnePlace ==
    /\ \A t \in Thread : todo[t] \subseteq m_sockets[t]
    /\ \A t \in Thread : pc[t] # "update" => todo[t] = {}
    /\ \A t \in Thread : m_sockets[t] \subseteq accepted
    /\ \A t \in Thread : \A i \in 1 .. Len(m_pendingSockets[t]) :
          /\ m_pendingSockets[t][i] \in accepted
          /\ m_pendingSockets[t][i] \notin m_sockets[t]
          /\ acceptor = "adding" => m_pendingSockets[t][i] # arriving
          /\ \A j \in 1 .. Len(m_pendingSockets[t]) :
                m_pendingSockets[t][i] = m_pendingSockets[t][j] => i = j
    /\ acceptor = "adding" =>
          arriving \in accepted /\ \A t \in Thread : arriving \notin m_sockets[t]

\* The scan has found the least of the totals it has looked at.
ScanMinimal ==
    acceptor \in {"selecting", "listening"} =>
        \A u \in Thread : u < scan \/ acceptor = "listening" =>
            m_connections[chosen] <= m_connections[u] + removed[u]

\* A thread is stopped only when nobody adds sockets to it any more.
StopOrder ==
    \A t \in Thread : (pc[t] = "exited" => m_isStopped[t])
                        /\ (m_isStopped[t] => acceptor = "closed")

Counters == TypeOK /\ InOnePlace /\ ConnectionsMatch
Balance == TypeOK /\ ScanMinimal /\ Balanced
Exits == TypeOK /\ StopOrder /\ ExitedIsEmpty

\* There are finitely many connections.
LEMMA FiniteSockets == ASSUME NEW S \in SUBSET Socket PROVE IsFiniteSet(S)
BY SocketAssumption, FS_Subset

\* The queue of pending sockets after one is added.
LEMMA AppendFacts ==
  ASSUME NEW q \in Seq(Socket), NEW e \in Socket
  PROVE  /\ Len(Append(q, e)) = Len(q) + 1
         /\ Append(q, e)[Len(q) + 1] = e
         /\ \A k \in 1 .. Len(q) : Append(q, e)[k] = q[k]
OBVIOUS

\* The queue of pending sockets after its first was taken.
LEMMA TailFacts ==
  ASSUME NEW q \in Seq(Socket), q # <<>>
  PROVE  /\ Head(q) = q[1] /\ Head(q) \in Socket /\ Len(q) \in Nat \ {0}
         /\ Len(Tail(q)) = Len(q) - 1
         /\ \A k \in 1 .. Len(q) - 1 : Tail(q)[k] = q[k + 1]
OBVIOUS

-----------------------------------------------------------------------------
\* The types hold at the start.
LEMMA TypeInit == Init => TypeOK
BY ThreadAssumption, SocketAssumption DEF Init, TypeOK, Thread

\* The positions of the scan over the threads.
LEMMA Threads ==
  /\ 1 \in Thread
  /\ 2 \in 1 .. ThreadCount + 1
  /\ \A k \in 1 .. ThreadCount + 1 : k <= ThreadCount => k \in Thread /\ k + 1 \in 1 .. ThreadCount + 1
  /\ Thread \subseteq Int
BY ThreadAssumption DEF Thread

\* Every step keeps the types.
LEMMA TypeNext == TypeOK /\ [Next]_vars => TypeOK'
<1> SUFFICES ASSUME TypeOK, [Next]_vars PROVE TypeOK'
  OBVIOUS
<1> USE DEF TypeOK
<1>1. CASE Acceptor
  <2>1. CASE SelectThread
    BY <2>1, Threads DEF SelectThread
  <2>2. CASE ArmAccept
    BY <2>2 DEF ArmAccept
  <2>3. CASE AcceptFailed
    BY <2>3, Threads DEF AcceptFailed
  <2>4. CASE AddPending
    BY <2>4, Threads, SMTT(30) DEF AddPending
  <2>5. ASSUME NEW s \in Socket, AcceptSocket(s) PROVE TypeOK'
    BY <2>5 DEF AcceptSocket
  <2> QED
    BY <1>1, <2>1, <2>2, <2>3, <2>4, <2>5 DEF Acceptor
<1>2. ASSUME NEW t \in Thread, Run(t) PROVE TypeOK'
  <2>1. CASE UpdateBegin(t)
    BY <2>1 DEF UpdateBegin
  <2>2. CASE PendingDone(t)
    BY <2>2 DEF PendingDone
  <2>3. CASE UpdateDone(t)
    BY <2>3 DEF UpdateDone
  <2>4. CASE Exit(t)
    BY <2>4 DEF Exit
  <2>5. CASE ProcessPending(t)
    <3> DEFINE s == Head(m_pendingSockets[t])
    <3>1. s \in Socket /\ Tail(m_pendingSockets[t]) \in Seq(Socket)
      BY <2>5 DEF ProcessPending
    <3>2. m_pendingSockets' \in [Thread -> Seq(Socket)]
      BY <2>5, <3>1 DEF ProcessPending
    <3>3. m_sockets' \in [Thread -> SUBSET Socket] /\ started' \in SUBSET Socket
      BY <2>5, <3>1 DEF ProcessPending
    <3>4. m_connections' \in [Thread -> Int] /\ removed' \in [Thread -> Nat]
      BY <2>5 DEF ProcessPending
    <3> QED
      BY <2>5, <3>2, <3>3, <3>4 DEF ProcessPending
  <2>6. ASSUME NEW s \in Socket, UpdateSocket(t, s) PROVE TypeOK'
    BY <2>6 DEF UpdateSocket
  <2> QED
    BY <1>2, <2>1, <2>2, <2>3, <2>4, <2>5, <2>6 DEF Run
<1>3. ASSUME NEW t \in Thread, StopThread(t) PROVE TypeOK'
  BY <1>3 DEF StopThread
<1>4. ASSUME NEW s \in Socket, CloseSocket(s) PROVE TypeOK'
  BY <1>4 DEF CloseSocket
<1>5. CASE CloseAcceptor
  BY <1>5 DEF CloseAcceptor
<1>6. CASE UNCHANGED vars
  BY <1>6 DEF vars
<1> QED
  BY <1>1, <1>2, <1>3, <1>4, <1>5, <1>6 DEF Next, Terminated

\* The types hold in every state of the network threads.
LEMMA TypeCorrect == Spec => []TypeOK
BY TypeInit, TypeNext, PTL DEF Spec

-----------------------------------------------------------------------------
(***************************************************************************)
(* Balance: the total of connections and losses of a thread never shrinks.  *)
(***************************************************************************)

\* Nothing is out of balance at the start.
LEMMA BalanceInit == Init => Balance
BY TypeInit, ThreadAssumption DEF Init, Balance, ScanMinimal, Balanced, Thread

\* Every step keeps the balance, one comparison of the scan at a time.
LEMMA BalanceNext == Balance /\ [Next]_vars => Balance'
<1> SUFFICES ASSUME Balance, [Next]_vars PROVE Balance'
  OBVIOUS
<1>0. TypeOK /\ TypeOK'
  BY TypeNext DEF Balance
<1> USE <1>0 DEF Balance, ScanMinimal, Balanced
<1>1. CASE SelectThread
  <2>1. /\ scan \in Thread /\ chosen \in Thread
        /\ UNCHANGED <<acceptor, m_connections, removed>>
        /\ scan' = scan + 1
        /\ chosen' = IF m_connections[scan] < m_connections[chosen] THEN scan ELSE chosen
    BY <1>1, Threads DEF SelectThread, TypeOK
  <2>2. \A u \in Thread : m_connections[u] \in Int /\ removed[u] \in Nat /\ u \in Int
    BY Threads DEF TypeOK
  <2>3. \A u \in Thread : u < scan => m_connections[chosen] <= m_connections[u] + removed[u]
    BY <1>1 DEF SelectThread
  <2>4. ASSUME NEW u \in Thread, u < scan + 1
        PROVE  m_connections[chosen'] <= m_connections[u] + removed[u]
    <3>1. u < scan \/ u = scan
      BY <2>1, <2>2, <2>4
    <3>2. m_connections[chosen'] <= m_connections[chosen]
          /\ m_connections[chosen'] <= m_connections[scan]
      BY <2>1, <2>2
    <3> QED
      BY <2>1, <2>2, <2>3, <3>1, <3>2
  <2> QED
    BY <1>1, <2>1, <2>4 DEF SelectThread
<1>2. CASE ArmAccept
  <2>1. \A u \in Thread : u < scan
    BY <1>2, ThreadAssumption DEF ArmAccept, TypeOK, Thread
  <2> QED
    BY <1>2, <2>1 DEF ArmAccept, TypeOK
<1>3. CASE AcceptFailed \/ AddPending
  <2>1. chosen' = 1 /\ scan' = 2 /\ acceptor' = "selecting"
        /\ UNCHANGED <<m_connections, removed>>
    BY <1>3 DEF AcceptFailed, AddPending
  <2>2. \A u \in Thread : u < 2 => u = 1
    BY ThreadAssumption DEF Thread
  <2>3. removed[1] \in Nat /\ m_connections[1] \in Int
    BY Threads DEF TypeOK
  <2> QED
    BY <2>1, <2>2, <2>3
<1>4. ASSUME NEW s \in Socket, AcceptSocket(s) PROVE Balance'
  <2>1. \A u \in Thread : m_connections[u] \in Int /\ removed[u] \in Nat
    BY DEF TypeOK
  <2>2. \A u \in Thread : m_connections'[u] = IF u = chosen THEN m_connections[u] + 1
                                              ELSE m_connections[u]
    BY <1>4 DEF AcceptSocket, TypeOK
  <2>3. chosen \in Thread
        /\ \A u \in Thread : m_connections[chosen] <= m_connections[u] + removed[u]
    BY <1>4 DEF AcceptSocket, TypeOK
  <2>4. removed' = removed /\ acceptor' = "adding"
    BY <1>4 DEF AcceptSocket
  <2>5. Balanced'
    BY <2>1, <2>2, <2>3, <2>4
  <2> QED
    BY <2>4, <2>5
<1>5. ASSUME NEW t \in Thread, ProcessPending(t) PROVE Balance'
  <2>1. UNCHANGED <<acceptor, scan, chosen>>
    BY <1>5 DEF ProcessPending
  <2>2. \A u \in Thread : /\ m_connections'[u] + removed'[u] = m_connections[u] + removed[u]
                          /\ m_connections'[u] <= m_connections[u]
    BY <1>5, SMTT(30) DEF ProcessPending, TypeOK
  <2>3. chosen \in Thread /\ \A u \in Thread : /\ m_connections[u] \in Int /\ removed[u] \in Nat
                                               /\ m_connections'[u] \in Int /\ removed'[u] \in Nat
    BY DEF TypeOK
  <2>4. ScanMinimal'
    BY <2>1, <2>2, <2>3
  <2>5. Balanced'
    BY <2>2, <2>3
  <2> QED
    BY <2>4, <2>5
<1>6. ASSUME NEW t \in Thread, NEW s \in Socket, UpdateSocket(t, s) PROVE Balance'
  <2>1. UNCHANGED <<acceptor, scan, chosen>>
    BY <1>6 DEF UpdateSocket
  <2>2. \A u \in Thread : /\ m_connections'[u] + removed'[u] = m_connections[u] + removed[u]
                          /\ m_connections'[u] <= m_connections[u]
    BY <1>6, SMTT(30) DEF UpdateSocket, TypeOK
  <2>3. chosen \in Thread /\ \A u \in Thread : /\ m_connections[u] \in Int /\ removed[u] \in Nat
                                               /\ m_connections'[u] \in Int /\ removed'[u] \in Nat
    BY DEF TypeOK
  <2>4. ScanMinimal'
    BY <2>1, <2>2, <2>3
  <2>5. Balanced'
    BY <2>2, <2>3
  <2> QED
    BY <2>4, <2>5
<1>7. ASSUME NEW t \in Thread,
             UpdateBegin(t) \/ PendingDone(t) \/ UpdateDone(t) \/ Exit(t) \/ StopThread(t)
      PROVE  Balance'
  BY <1>7 DEF UpdateBegin, PendingDone, UpdateDone, Exit, StopThread
<1>8. ASSUME NEW s \in Socket, CloseSocket(s) PROVE Balance'
  BY <1>8 DEF CloseSocket
<1>9. CASE CloseAcceptor
  BY <1>9 DEF CloseAcceptor
<1>10. CASE UNCHANGED vars
  BY <1>10 DEF vars
<1> QED
  BY <1>1, <1>2, <1>3, <1>4, <1>5, <1>6, <1>7, <1>8, <1>9, <1>10
  DEF Next, Acceptor, Run, Terminated

\* A thread gets ahead of another one by at most one plus what that one has lost
\* (selectThreadWithMinConnections, addSocket, update).
THEOREM BalancedCorrect == Spec => []Balanced
<1>1. Balance => Balanced
  BY DEF Balance
<1> QED
  BY <1>1, BalanceInit, BalanceNext, PTL DEF Spec

-----------------------------------------------------------------------------
(***************************************************************************)
(* Exit: nobody adds a socket to a thread that has been stopped.            *)
(***************************************************************************)

\* No thread has exited at the start.
LEMMA ExitsInit == Init => Exits
BY TypeInit DEF Init, Exits, StopOrder, ExitedIsEmpty

\* Every step keeps exited threads empty.
LEMMA ExitsNext == Exits /\ [Next]_vars => Exits'
<1> SUFFICES ASSUME Exits, [Next]_vars PROVE Exits'
  OBVIOUS
<1>0. TypeOK /\ TypeOK'
  BY TypeNext DEF Exits
<1> USE <1>0 DEF Exits, StopOrder, ExitedIsEmpty
<1>1. CASE SelectThread
  BY <1>1 DEF SelectThread, TypeOK
<1>2. CASE ArmAccept \/ AcceptFailed \/ CloseAcceptor
  BY <1>2 DEF ArmAccept, AcceptFailed, CloseAcceptor, TypeOK
<1>3. CASE AddPending
  BY <1>3 DEF AddPending, TypeOK
<1>4. ASSUME NEW s \in Socket, AcceptSocket(s) PROVE Exits'
  BY <1>4 DEF AcceptSocket, TypeOK
<1>5. ASSUME NEW t \in Thread, ProcessPending(t) PROVE Exits'
  <2>1. pc[t] = "pending" /\ UNCHANGED <<acceptor, m_isStopped, pc>>
    BY <1>5 DEF ProcessPending
  <2>2. \A u \in Thread : u # t => /\ m_sockets'[u] = m_sockets[u]
                                   /\ m_pendingSockets'[u] = m_pendingSockets[u]
    BY <1>5 DEF ProcessPending, TypeOK
  <2> QED
    BY <2>1, <2>2
<1>6. ASSUME NEW t \in Thread, NEW s \in Socket, UpdateSocket(t, s) PROVE Exits'
  BY <1>6 DEF UpdateSocket, TypeOK
<1>7. ASSUME NEW t \in Thread, UpdateBegin(t) \/ PendingDone(t) \/ UpdateDone(t) PROVE Exits'
  <2>1. UNCHANGED <<acceptor, m_isStopped, m_sockets, m_pendingSockets>>
    BY <1>7 DEF UpdateBegin, PendingDone, UpdateDone
  <2>2. \A u \in Thread : pc'[u] = "exited" => pc[u] = "exited"
    BY <1>7, ZenonT(40) DEF UpdateBegin, PendingDone, UpdateDone, TypeOK
  <2> QED
    BY <2>1, <2>2
<1>8. ASSUME NEW t \in Thread, Exit(t) PROVE Exits'
  BY <1>8 DEF Exit, TypeOK
<1>9. ASSUME NEW t \in Thread, StopThread(t) PROVE Exits'
  BY <1>9 DEF StopThread, TypeOK
<1>10. ASSUME NEW s \in Socket, CloseSocket(s) PROVE Exits'
  BY <1>10 DEF CloseSocket
<1>11. CASE UNCHANGED vars
  BY <1>11 DEF vars
<1> QED
  BY <1>1, <1>2, <1>3, <1>4, <1>5, <1>6, <1>7, <1>8, <1>9, <1>10, <1>11
  DEF Next, Acceptor, Run, Terminated

\* A network thread that has been joined holds no socket (run, stopNetwork).
THEOREM ExitCorrect == Spec => []ExitedIsEmpty
<1>1. Exits => ExitedIsEmpty
  BY DEF Exits
<1> QED
  BY <1>1, ExitsInit, ExitsNext, PTL DEF Spec

-----------------------------------------------------------------------------
(***************************************************************************)
(* Counters: every connection is in one place.                              *)
(***************************************************************************)

\* The counters are exact at the start.
LEMMA CountersInit == Init => Counters
<1> SUFFICES ASSUME Init PROVE Counters
  OBVIOUS
<1>1. Cardinality({}) = 0
  BY FS_EmptySet
<1> QED
  BY <1>1, TypeInit DEF Init, Counters, InOnePlace, ConnectionsMatch

\* Every step keeps the counters exact.
LEMMA CountersNext == Counters /\ [Next]_vars => Counters'
<1> SUFFICES ASSUME Counters, [Next]_vars PROVE Counters'
  OBVIOUS
<1>0. TypeOK /\ TypeOK'
  BY TypeNext DEF Counters
<1>c. \A t \in Thread : /\ IsFiniteSet(m_sockets[t]) /\ Cardinality(m_sockets[t]) \in Nat
                        /\ m_connections[t] \in Int /\ Len(m_pendingSockets[t]) \in Nat
  <2> TAKE t \in Thread
  <2>1. m_sockets[t] \in SUBSET Socket /\ m_pendingSockets[t] \in Seq(Socket)
    BY <1>0 DEF TypeOK
  <2>2. IsFiniteSet(m_sockets[t])
    BY <2>1, FiniteSockets
  <2>3. Cardinality(m_sockets[t]) \in Nat
    BY <2>2, FS_CardinalityType
  <2> QED
    BY <1>0, <2>1, <2>2, <2>3 DEF TypeOK
<1> USE <1>0 DEF Counters
<1>1. CASE SelectThread \/ ArmAccept \/ AcceptFailed \/ CloseAcceptor
  <2>1. UNCHANGED <<m_connections, m_sockets, m_pendingSockets, pc, todo, accepted>>
        /\ acceptor # "adding" /\ acceptor' # "adding"
    BY <1>1 DEF SelectThread, ArmAccept, AcceptFailed, CloseAcceptor
  <2>2. InOnePlace'
    BY <2>1 DEF InOnePlace
  <2>3. ConnectionsMatch'
    BY <2>1 DEF ConnectionsMatch
  <2> QED
    BY <2>2, <2>3
<1>2. ASSUME NEW s \in Socket, AcceptSocket(s) PROVE Counters'
  <2>1. InOnePlace'
    BY <1>2 DEF AcceptSocket, InOnePlace, TypeOK
  <2>2. ConnectionsMatch'
    BY <1>2, <1>c DEF AcceptSocket, ConnectionsMatch, TypeOK
  <2> QED
    BY <2>1, <2>2
<1>3. CASE AddPending
  <2>1. /\ arriving \in Socket /\ chosen \in Thread
        /\ UNCHANGED <<m_connections, m_sockets, pc, todo, accepted>>
        /\ acceptor = "adding" /\ acceptor' = "selecting"
    BY <1>3 DEF AddPending, TypeOK
  <2>2. \A t \in Thread : m_pendingSockets'[t] = IF t = chosen THEN Append(m_pendingSockets[t], arriving)
                                                 ELSE m_pendingSockets[t]
    BY <1>3 DEF AddPending, TypeOK
  <2>3. \A t \in Thread : m_pendingSockets[t] \in Seq(Socket)
    BY DEF TypeOK
  <2>4. InOnePlace'
    <3>1. ASSUME NEW t \in Thread, NEW i \in 1 .. Len(m_pendingSockets'[t])
          PROVE  /\ m_pendingSockets'[t][i] \in accepted
                 /\ m_pendingSockets'[t][i] \notin m_sockets[t]
                 /\ \A j \in 1 .. Len(m_pendingSockets'[t]) :
                       m_pendingSockets'[t][i] = m_pendingSockets'[t][j] => i = j
      <4>1. CASE t # chosen
        BY <2>1, <2>2, <3>1, <4>1 DEF InOnePlace
      <4>2. CASE t = chosen
        <5>0. m_pendingSockets'[t] = Append(m_pendingSockets[t], arriving)
              /\ m_pendingSockets[t] \in Seq(Socket)
          BY <2>2, <2>3, <4>2
        <5>1. /\ Len(m_pendingSockets'[t]) = Len(m_pendingSockets[t]) + 1
              /\ m_pendingSockets'[t][Len(m_pendingSockets[t]) + 1] = arriving
              /\ \A k \in 1 .. Len(m_pendingSockets[t]) :
                    m_pendingSockets'[t][k] = m_pendingSockets[t][k]
          <6> HIDE <1>0
          <6> QED
            BY <2>1, <5>0, AppendFacts
        <5>2. /\ arriving \in accepted /\ arriving \notin m_sockets[t]
              /\ \A k \in 1 .. Len(m_pendingSockets[t]) :
                    /\ m_pendingSockets[t][k] \in accepted
                    /\ m_pendingSockets[t][k] \notin m_sockets[t]
                    /\ m_pendingSockets[t][k] # arriving
          BY <2>1 DEF InOnePlace
        <5>3. \A k, j \in 1 .. Len(m_pendingSockets[t]) :
                 m_pendingSockets[t][k] = m_pendingSockets[t][j] => k = j
          BY DEF InOnePlace
        <5>4. Len(m_pendingSockets[t]) \in Nat
          BY <1>c
        <5>5. \A k \in 1 .. Len(m_pendingSockets'[t]) :
                 k \in 1 .. Len(m_pendingSockets[t]) \/ k = Len(m_pendingSockets[t]) + 1
          BY <5>1, <5>4
        <5> QED
          BY <3>1, <5>1, <5>2, <5>3, <5>5
      <4> QED
        BY <4>1, <4>2
    <3> QED
      BY <2>1, <3>1 DEF InOnePlace
  <2>5. ConnectionsMatch'
    <3> SUFFICES ASSUME NEW t \in Thread, pc[t] # "exited"
                 PROVE  m_connections[t] = Len(m_pendingSockets'[t]) + Cardinality(m_sockets[t]) + 0
      BY <2>1 DEF ConnectionsMatch
    <3>1. Len(m_pendingSockets'[t]) = IF t = chosen THEN Len(m_pendingSockets[t]) + 1
                                      ELSE Len(m_pendingSockets[t])
      <4>1. Len(Append(m_pendingSockets[t], arriving)) = Len(m_pendingSockets[t]) + 1
        <5> HIDE <1>0
        <5> QED
          BY <2>1, <2>3, AppendFacts
      <4> QED
        BY <2>2, <4>1
    <3> QED
      BY <1>c, <2>1, <3>1, SMTT(30) DEF ConnectionsMatch
  <2> QED
    BY <2>4, <2>5
<1>4. ASSUME NEW t \in Thread, ProcessPending(t) PROVE Counters'
  <2> DEFINE q == m_pendingSockets[t]
             s == Head(q)
  <2>0. q \in Seq(Socket) /\ q # <<>>
    BY <1>4 DEF ProcessPending, TypeOK
  <2>1. /\ s = q[1] /\ s \in Socket /\ Len(q) \in Nat \ {0}
        /\ Len(Tail(q)) = Len(q) - 1
        /\ \A k \in 1 .. Len(q) - 1 : Tail(q)[k] = q[k + 1]
    BY <2>0, TailFacts
  <2>2. s \notin m_sockets[t] /\ s \in accepted
    BY <2>1 DEF InOnePlace
  <2>3. /\ UNCHANGED <<acceptor, chosen, arriving, accepted, pc, todo>>
        /\ m_pendingSockets'[t] = Tail(q)
        /\ \A u \in Thread : u # t => /\ m_pendingSockets'[u] = m_pendingSockets[u]
                                      /\ m_sockets'[u] = m_sockets[u]
                                      /\ m_connections'[u] = m_connections[u]
        /\ m_sockets'[t] = IF s \in open THEN m_sockets[t] \cup {s} ELSE m_sockets[t]
        /\ m_connections'[t] = IF s \in open THEN m_connections[t] ELSE m_connections[t] - 1
    BY <1>4 DEF ProcessPending, TypeOK
  <2>4. Cardinality(m_sockets[t] \cup {s}) = Cardinality(m_sockets[t]) + 1
    BY <1>c, <2>2, FS_AddElement
  <2>5. InOnePlace'
    <3>1. ASSUME NEW u \in Thread, NEW i \in 1 .. Len(m_pendingSockets'[u])
          PROVE  /\ m_pendingSockets'[u][i] \in accepted
                 /\ m_pendingSockets'[u][i] \notin m_sockets'[u]
                 /\ acceptor = "adding" => m_pendingSockets'[u][i] # arriving
                 /\ \A j \in 1 .. Len(m_pendingSockets'[u]) :
                       m_pendingSockets'[u][i] = m_pendingSockets'[u][j] => i = j
      <4>1. CASE u # t
        BY <2>3, <3>1, <4>1 DEF InOnePlace
      <4>2. CASE u = t
        <5>1. i \in 1 .. Len(q) - 1 /\ m_pendingSockets'[u] = Tail(q)
          BY <2>1, <2>3, <3>1, <4>2
        <5>2. i + 1 \in 1 .. Len(q) /\ 1 \in 1 .. Len(q) /\ i + 1 # 1
          BY <2>1, <5>1
        <5>3. Tail(q)[i] = q[i + 1]
          BY <2>1, <5>1
        <5>4. q[i + 1] # s
          BY <2>1, <5>2 DEF InOnePlace
        <5>5. q[i + 1] \in accepted /\ q[i + 1] \notin m_sockets[t]
              /\ (acceptor = "adding" => q[i + 1] # arriving)
          BY <5>2 DEF InOnePlace
        <5>6. ASSUME NEW j \in 1 .. Len(q) - 1, q[i + 1] = Tail(q)[j] PROVE i = j
          <6>1. j + 1 \in 1 .. Len(q) /\ Tail(q)[j] = q[j + 1]
            BY <2>1, <5>6
          <6>2. i + 1 = j + 1
            BY <5>2, <5>6, <6>1 DEF InOnePlace
          <6> QED
            BY <5>1, <6>2
        <5> QED
          <6>1. m_pendingSockets'[u][i] = q[i + 1] /\ Len(m_pendingSockets'[u]) = Len(q) - 1
            BY <2>1, <5>1, <5>3
          <6>2. q[i + 1] \notin m_sockets'[u]
            BY <2>3, <4>2, <5>4, <5>5
          <6>3. \A j \in 1 .. Len(m_pendingSockets'[u]) :
                   m_pendingSockets'[u][i] = m_pendingSockets'[u][j] => i = j
            BY <5>1, <5>6, <6>1
          <6> QED
            BY <5>5, <6>1, <6>2, <6>3
      <4> QED
        BY <4>1, <4>2
    <3>2. /\ \A u \in Thread : todo'[u] \subseteq m_sockets'[u] /\ m_sockets'[u] \subseteq accepted
          /\ acceptor = "adding" => \A u \in Thread : arriving \notin m_sockets'[u]
      <4>1. acceptor = "adding" => s # arriving
        BY <2>1 DEF InOnePlace
      <4> QED
        BY <2>2, <2>3, <4>1 DEF InOnePlace
    <3>3. acceptor = "adding" => arriving \in accepted
      BY DEF InOnePlace
    <3> QED
      BY <2>3, <3>1, <3>2, <3>3 DEF InOnePlace
  <2>6. ConnectionsMatch'
    <3> SUFFICES ASSUME NEW u \in Thread, pc[u] # "exited"
                 PROVE  m_connections'[u] = Len(m_pendingSockets'[u]) + Cardinality(m_sockets'[u])
                          + (IF acceptor = "adding" /\ chosen = u THEN 1 ELSE 0)
      BY <2>3 DEF ConnectionsMatch
    <3>1. CASE u # t
      BY <2>3, <3>1 DEF ConnectionsMatch
    <3>2. CASE u = t
      <4>1. Len(m_pendingSockets'[t]) = Len(q) - 1
        BY <2>1, <2>3
      <4>2. m_connections[t] = Len(q) + Cardinality(m_sockets[t])
                                 + (IF acceptor = "adding" /\ chosen = t THEN 1 ELSE 0)
        BY <3>2 DEF ConnectionsMatch
      <4>3. CASE s \in open
        <5>1. m_connections'[t] = m_connections[t]
              /\ Cardinality(m_sockets'[t]) = Cardinality(m_sockets[t]) + 1
          BY <2>3, <2>4, <4>3
        <5> QED
          BY <1>c, <2>1, <3>2, <4>1, <4>2, <5>1
      <4>4. CASE s \notin open
        <5>1. m_connections'[t] = m_connections[t] - 1 /\ m_sockets'[t] = m_sockets[t]
          BY <2>3, <4>4
        <5> QED
          BY <1>c, <2>1, <3>2, <4>1, <4>2, <5>1
      <4> QED
        BY <4>3, <4>4
    <3> QED
      BY <3>1, <3>2
  <2> QED
    BY <2>5, <2>6
<1>5. ASSUME NEW t \in Thread, NEW s \in Socket, UpdateSocket(t, s) PROVE Counters'
  <2>1. s \in m_sockets[t]
    BY <1>5 DEF UpdateSocket, InOnePlace
  <2>2. Cardinality(m_sockets[t] \ {s}) = Cardinality(m_sockets[t]) - 1
    BY <1>c, <2>1, FS_RemoveElement
  <2>3. InOnePlace'
    BY <1>5, SMTT(30) DEF UpdateSocket, InOnePlace, TypeOK
  <2>4. /\ UNCHANGED <<acceptor, chosen, pc, m_pendingSockets>>
        /\ \A u \in Thread : u # t => /\ m_sockets'[u] = m_sockets[u]
                                      /\ m_connections'[u] = m_connections[u]
        /\ m_sockets'[t] = IF s \in open THEN m_sockets[t] ELSE m_sockets[t] \ {s}
        /\ m_connections'[t] = IF s \in open THEN m_connections[t] ELSE m_connections[t] - 1
    BY <1>5 DEF UpdateSocket, TypeOK
  <2>5. ConnectionsMatch'
    <3> SUFFICES ASSUME NEW u \in Thread, pc[u] # "exited"
                 PROVE  m_connections'[u] = Len(m_pendingSockets[u]) + Cardinality(m_sockets'[u])
                          + (IF acceptor = "adding" /\ chosen = u THEN 1 ELSE 0)
      BY <2>4 DEF ConnectionsMatch
    <3>1. m_connections[u] = Len(m_pendingSockets[u]) + Cardinality(m_sockets[u])
                               + (IF acceptor = "adding" /\ chosen = u THEN 1 ELSE 0)
      BY DEF ConnectionsMatch
    <3>2. CASE u # t \/ s \in open
      BY <2>4, <3>1, <3>2
    <3>3. CASE u = t /\ s \notin open
      <4>1. m_connections'[u] = m_connections[u] - 1
            /\ Cardinality(m_sockets'[u]) = Cardinality(m_sockets[u]) - 1
        BY <2>2, <2>4, <3>3
      <4>2. /\ Len(m_pendingSockets[u]) \in Int
            /\ Cardinality(m_sockets[u]) \in Int
        BY <1>c DEF TypeOK
      <4> DEFINE len == Len(m_pendingSockets[u])
                 old == Cardinality(m_sockets[u])
                 new == Cardinality(m_sockets'[u])
                 one == IF acceptor = "adding" /\ chosen = u THEN 1 ELSE 0
      <4>3. len \in Int /\ old \in Int /\ one \in Int /\ new = old - 1
        BY <4>1, <4>2
      <4>4. m_connections[u] = (len + old) + one /\ m_connections'[u] = m_connections[u] - 1
        BY <3>1, <4>1
      <4>5. m_connections'[u] = (len + new) + one =>
               m_connections'[u] = Len(m_pendingSockets[u]) + Cardinality(m_sockets'[u])
                          + (IF acceptor = "adding" /\ chosen = u THEN 1 ELSE 0)
        OBVIOUS
      <4> HIDE DEF len, old, new, one
      <4>6. m_connections'[u] = (len + new) + one
        BY <4>3, <4>4
      <4> QED
        BY <4>5, <4>6
    <3> QED
      BY <3>2, <3>3
  <2> QED
    BY <2>3, <2>5
<1>6. ASSUME NEW t \in Thread, UpdateBegin(t) \/ PendingDone(t) \/ UpdateDone(t) PROVE Counters'
  <2>1. /\ UNCHANGED <<acceptor, chosen, arriving, accepted, m_connections, m_sockets, m_pendingSockets>>
        /\ \A u \in Thread : pc'[u] # "exited" => pc[u] # "exited"
        /\ \A u \in Thread : todo'[u] = todo[u] \/ todo'[u] = m_sockets[u]
    BY <1>6, ZenonT(40) DEF UpdateBegin, PendingDone, UpdateDone, TypeOK
  <2>0. \A u \in Thread : pc'[u] # "update" => todo'[u] = {}
    <3>0. \A u \in Thread : pc[u] # "update" => todo[u] = {}
      BY DEF InOnePlace
    <3>1. CASE UpdateBegin(t)
      BY <3>0, <3>1 DEF UpdateBegin, TypeOK
    <3>2. CASE PendingDone(t)
      BY <3>0, <3>2 DEF PendingDone, TypeOK
    <3>3. CASE UpdateDone(t)
      BY <3>0, <3>3 DEF UpdateDone, TypeOK
    <3> QED
      BY <1>6, <3>1, <3>2, <3>3
  <2>2. InOnePlace'
    <3>1. \A u \in Thread : todo'[u] \subseteq m_sockets'[u]
      BY <2>1 DEF InOnePlace
    <3> QED
      BY <2>0, <2>1, <3>1 DEF InOnePlace
  <2>3. ConnectionsMatch'
    BY <2>1 DEF ConnectionsMatch
  <2> QED
    BY <2>2, <2>3
<1>7. ASSUME NEW t \in Thread, Exit(t) PROVE Counters'
  <2>1. /\ UNCHANGED <<acceptor, chosen, arriving, accepted, m_connections, todo>>
        /\ pc'[t] = "exited" /\ pc[t] = "loop" /\ m_sockets'[t] = {} /\ m_pendingSockets'[t] = <<>>
        /\ \A u \in Thread : u # t => /\ m_sockets'[u] = m_sockets[u] /\ pc'[u] = pc[u]
                                      /\ m_pendingSockets'[u] = m_pendingSockets[u]
    BY <1>7 DEF Exit, TypeOK
  <2>2. InOnePlace'
    BY <2>1 DEF InOnePlace
  <2>3. ConnectionsMatch'
    BY <2>1 DEF ConnectionsMatch
  <2> QED
    BY <2>2, <2>3
<1>8. CASE UNCHANGED vars \/ (\E t \in Thread : StopThread(t)) \/ (\E s \in Socket : CloseSocket(s))
  <2>1. UNCHANGED <<acceptor, chosen, arriving, accepted, m_connections, m_sockets,
                    m_pendingSockets, pc, todo>>
    BY <1>8 DEF vars, StopThread, CloseSocket
  <2> QED
    BY <2>1 DEF InOnePlace, ConnectionsMatch
<1> QED
  BY <1>1, <1>2, <1>3, <1>4, <1>5, <1>6, <1>7, <1>8 DEF Next, Acceptor, Run, Terminated

\* m_connections of a running thread is the number of its connections
\* (addSocket, processPendingSockets, update).
THEOREM ConnectionsCorrect == Spec => []ConnectionsMatch
<1>1. Counters => ConnectionsMatch
  BY DEF Counters
<1> QED
  BY <1>1, CountersInit, CountersNext, PTL DEF Spec

-----------------------------------------------------------------------------
(***************************************************************************)
(* A step of the process is a step of NetworkThread or leaves its variables *)
(* alone.                                                                   *)
(***************************************************************************)
LEMMA MainSimulation == MainStep => [Next]_vars
<1> SUFFICES ASSUME MainStep PROVE [Next]_vars
  OBVIOUS
<1>1. CASE Started \/ CreateQueue \/ TestStopped \/ Receive \/ Loaded
  BY <1>1 DEF Started, CreateQueue, TestStopped, Receive, Loaded
<1>2. CASE ShutdownThreadPool \/ DeleteStrand \/ ClearIoService \/ Return
  BY <1>2 DEF ShutdownThreadPool, DeleteStrand, ClearIoService, Return
<1>3. CASE CloseNetwork
  BY <1>3 DEF CloseNetwork, Next
<1> QED
  BY <1>1, <1>2, <1>3 DEF MainStep

\* Every step of the process is a step of the network threads or none of theirs.
LEMMA StepSimulation == [AppNext]_allVars => [Next]_vars
<1> SUFFICES ASSUME [AppNext]_allVars PROVE [Next]_vars
  OBVIOUS
<1>1. CASE MainStep
  BY <1>1, MainSimulation
<1>2. CASE RaiseSignal \/ SignalStop \/ SignalSend
  BY <1>2 DEF RaiseSignal, SignalStop, SignalSend
<1>3. CASE \E m \in Messages : SendOption(m)
  BY <1>3 DEF SendOption
<1>4. CASE Accepting \/ Accept
  BY <1>4 DEF Accepting, Accept, Next, Acceptor
<1>5. ASSUME NEW t \in Thread, ThreadStep(t) \/ StopNetworkThread(t) PROVE [Next]_vars
  BY <1>5 DEF ThreadStep, StopNetworkThread, Next
<1>6. ASSUME NEW t \in Thread, Write(t) PROVE [Next]_vars
  BY <1>6 DEF Write
<1>7. ASSUME NEW t \in Thread, NEW s \in Socket, CloseOwn(t, s) PROVE [Next]_vars
  BY <1>7 DEF CloseOwn, Next
<1>8. CASE Exited \/ UNCHANGED allVars
  BY <1>8 DEF Exited, allVars
<1> QED
  BY <1>1, <1>2, <1>3, <1>4, <1>5, <1>6, <1>7, <1>8 DEF AppNext

\* So the process runs its network threads as NetworkThread says.
LEMMA NetworkSimulation == AppSpec => Spec
<1>1. AppInit => Init
  BY DEF AppInit
<1> QED
  BY <1>1, StepSimulation, PTL DEF AppSpec, Spec

\* In the process, too, the counters of the network threads are exact, connections stay
\* balanced, and a thread that was stopped and joined holds no socket.
THEOREM NetworkCorrect == AppSpec => []ConnectionsMatch /\ []Balanced /\ []ExitedIsEmpty
BY NetworkSimulation, ConnectionsCorrect, BalancedCorrect, ExitCorrect, PTL

-----------------------------------------------------------------------------
(***************************************************************************)
(* The realm list: a logon that passed the test of its version has seen the *)
(* list that is in use, and every list that was in use is whole.            *)
(***************************************************************************)
WholeSeen ==
    /\ Whole(inUse)
    /\ \A h \in Handler : \A l \in seen[h] : Whole(l)
    /\ \A h \in Handler : logon[h].step = "allowed" => inUse \in seen[h]

RealmInv == RealmTypeOK /\ WholeSeen /\ LogonExplained

\* The rows of a group, and the realms offered, are rows of the table.
LEMMA RowTypes ==
  ASSUME NEW l \in List, NEW client \in Client
  PROVE  GroupOf(l, client.country) \subseteq Row /\ RealmList(l, client) \subseteq Row
<1>1. l.realms \subseteq Row
  BY DEF List
<1>2. GroupOf(l, client.country) \subseteq Row
  BY <1>1 DEF GroupOf
<1>3. RealmList(l, client) \subseteq GroupOf(l, client.country)
  BY DEF RealmList
<1> QED
  BY <1>2, <1>3

\* The parts of two databases make a list.
LEMMA ListTypes ==
  ASSUME NEW R \in SUBSET Row, NEW d \in Databases
  PROVE  /\ d \in List /\ d.realms \in SUBSET Row
         /\ [realms |-> R, regions |-> d.regions] \in List
BY DatabaseAssumption DEF List

\* A client below the minimum of its group would be offered nothing.
LEMMA BelowMinimum ==
  ASSUME NEW l \in List, NEW client \in Client, ~MeetsMinimum(l, client)
  PROVE  RealmList(l, client) = {}
<1> DEFINE group == GroupOf(l, client.country)
<1>1. group \subseteq Row /\ \A r \in group : ~(client.version >= r.version)
  BY RowTypes DEF MeetsMinimum
<1>2. ASSUME NEW r \in RealmList(l, client) PROVE FALSE
  <2>1. r \in group /\ client.version >= r.version
    BY <1>2 DEF RealmList
  <2> QED
    BY <1>1, <2>1
<1> QED
  BY <1>2

\* No logon has been handled at the start.
LEMMA RealmStart == RealmInit => RealmInv
BY DatabaseAssumption DEF RealmInit, RealmInv, RealmTypeOK, WholeSeen, LogonExplained, Logon

\* Every step keeps the lists whole and the answers explained.
LEMMA RealmStep == RealmInv /\ [RealmNext]_realmVars => RealmInv'
<1> SUFFICES ASSUME RealmInv, [RealmNext]_realmVars PROVE RealmInv'
  OBVIOUS
<1> USE DEF RealmInv
<1>1. ASSUME NEW d \in Databases, QueryRealms(d) PROVE RealmInv'
  <2>1. loading' \in [busy : BOOLEAN, realms : SUBSET Row] /\ UNCHANGED <<inUse, logon, seen>>
    BY <1>1, ListTypes DEF QueryRealms
  <2> QED
    BY <2>1 DEF RealmTypeOK, WholeSeen, LogonExplained
<1>2. ASSUME NEW d \in Databases, QueryRegions(d) PROVE RealmInv'
  <2> DEFINE l == [realms |-> loading.realms, regions |-> d.regions]
  <2>1. l \in List
    BY ListTypes DEF RealmTypeOK
  <2>2. logon' = logon /\ loading' \in [busy : BOOLEAN, realms : SUBSET Row]
    BY <1>2 DEF QueryRegions
  <2>3. CASE UNCHANGED <<inUse, seen>>
    BY <2>2, <2>3 DEF RealmTypeOK, WholeSeen, LogonExplained
  <2>4. CASE /\ Whole(l) /\ inUse' = l
             /\ seen' = [h \in Handler |-> IF logon[h].step = "allowed" THEN seen[h] \cup {l}
                                           ELSE seen[h]]
    <3> HIDE DEF l
    <3>1. RealmTypeOK'
      BY <2>1, <2>2, <2>4 DEF RealmTypeOK
    <3>2. WholeSeen'
      BY <2>2, <2>4 DEF WholeSeen
    <3>3. LogonExplained'
      BY <2>2, <2>4 DEF LogonExplained
    <3> QED
      BY <3>1, <3>2, <3>3
  <2> QED
    BY <1>2, <2>3, <2>4 DEF QueryRegions
<1>3. ASSUME NEW h \in Handler, NEW c \in Client, TestVersion(h, c) PROVE RealmInv'
  <2> DEFINE step == IF MeetsMinimum(inUse, c) THEN "allowed" ELSE "answered"
             entry == [step |-> step, client |-> c, answer |-> {}]
  <2>1. /\ logon' = [logon EXCEPT ![h] = entry] /\ seen' = [seen EXCEPT ![h] = {inUse}]
        /\ UNCHANGED <<inUse, loading>>
    BY <1>3 DEF TestVersion
  <2>2. entry \in Logon
    BY DEF Logon
  <2>3. entry.step = "answered" => entry.answer = RealmList(inUse, entry.client)
    BY BelowMinimum DEF RealmTypeOK
  <2> HIDE DEF entry
  <2>4. /\ logon'[h] = entry /\ seen'[h] = {inUse}
        /\ \A g \in Handler \ {h} : logon'[g] = logon[g] /\ seen'[g] = seen[g]
    BY <2>1 DEF RealmTypeOK
  <2>5. RealmTypeOK'
    BY <2>1, <2>2 DEF RealmTypeOK
  <2>6. WholeSeen'
    BY <2>1, <2>4 DEF WholeSeen
  <2>7. LogonExplained'
    BY <2>3, <2>4 DEF LogonExplained, WholeSeen
  <2> QED
    BY <2>5, <2>6, <2>7
<1>4. ASSUME NEW h \in Handler, Answer(h) PROVE RealmInv'
  <2> DEFINE offer == RealmList(inUse, logon[h].client)
  <2>1. logon[h].step = "allowed" /\ UNCHANGED <<inUse, loading, seen>>
    BY <1>4 DEF Answer
  <2>2. logon[h] \in Logon /\ logon[h].client \in Client /\ offer \subseteq Row
    BY RowTypes DEF RealmTypeOK, Logon
  <2>3. /\ logon'[h].step = "answered" /\ logon'[h].answer = offer
        /\ logon'[h].client = logon[h].client
        /\ \A g \in Handler \ {h} : logon'[g] = logon[g]
        /\ logon' \in [Handler -> Logon]
    BY <1>4, <2>2 DEF Answer, RealmTypeOK, Logon
  <2>4. RealmTypeOK'
    BY <2>1, <2>3 DEF RealmTypeOK
  <2>5. WholeSeen'
    BY <2>1, <2>3 DEF WholeSeen
  <2>6. LogonExplained'
    BY <2>1, <2>3 DEF LogonExplained, WholeSeen
  <2> QED
    BY <2>4, <2>5, <2>6
<1>5. CASE UNCHANGED realmVars
  BY <1>5 DEF realmVars, RealmTypeOK, WholeSeen, LogonExplained
<1> QED
  BY <1>1, <1>2, <1>3, <1>4, <1>5 DEF RealmNext

\* Every answer to a logon is the one of a whole realm list that was in use while the logon
\* was handled, for any databases and any edits between the queries of a load
\* (RealmManager::load, handleLogonChallenge).
THEOREM LogonCorrect == RealmSpec => []LogonExplained
<1>1. RealmInv => LogonExplained
  BY DEF RealmInv
<1> QED
  BY <1>1, RealmStart, RealmStep, PTL DEF RealmSpec
=============================================================================
