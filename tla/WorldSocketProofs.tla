-------------------------- MODULE WorldSocketProofs --------------------------
(***************************************************************************)
(* Proofs about WorldSocket, for any number of sessions on one socket.  The *)
(* inductive invariant says who may still hold a reference at each stage of *)
(* closing: closed by the main thread, the pointer is valid until the main  *)
(* thread clears it, because that thread is the one that deletes; closed by *)
(* the network thread, the pointer may dangle, but that thread does nothing *)
(* else until it has cleared it.                                            *)
(***************************************************************************)
EXTENDS WorldSocket, TLAPS

USE DEF socketVars, netVars, mainVars, sessionVars

\* The network thread holds m_sessMutex exactly inside a handler, and a thread that won
\* the exchange of m_isClosed is the only one.
Locking ==
    /\ mutex = "net" <=> net \in {"test", "use", "created", "queued"}
    /\ net = "closing" \/ main # "idle" => m_isClosed
    /\ net = "closing" => main = "idle"
    /\ main # "idle" => target \in Session

\* Which session the pointer may refer to.
Pointer ==
    /\ ~m_isClosed => m_session \in heap \cup {None}
    /\ main # "idle" => m_session \in heap \cup late \cup {None}
    /\ m_isClosed /\ net # "closing" /\ main = "idle" => m_session \in late \cup {None}

\* What the handlers know between two of their steps.
Handlers ==
    /\ net = "created" => m_session \in heap \ managed
    /\ net = "use" => m_session # None
    /\ managed \subseteq made
    /\ heap \subseteq made

IInv == TypeOK /\ Locking /\ Pointer /\ Handlers

\* A new socket satisfies the invariant.
LEMMA InitIInv == Init => IInv
BY NoneAssumption DEF Init, IInv, TypeOK, Locking, Pointer, Handlers

\* Every step of either thread keeps the invariant.
LEMMA NextIInv == IInv /\ [Next]_vars => IInv'
<1> SUFFICES ASSUME IInv, [Next]_vars PROVE IInv'
  OBVIOUS
<1> USE NoneAssumption DEF IInv, TypeOK, Locking, Pointer, Handlers
<1>1. CASE LockSession
  BY <1>1 DEF LockSession
<1>2. CASE TestSession
  BY <1>2 DEF TestSession
<1>3. CASE UseSession
  BY <1>3 DEF UseSession
<1>4. ASSUME NEW s \in Session, CreateSession(s) PROVE IInv'
  BY <1>4 DEF CreateSession
<1>5. CASE QueueSession
  BY <1>5 DEF QueueSession
<1>6. CASE UnlockProof
  BY <1>6 DEF UnlockProof
<1>7. ASSUME NEW b \in BOOLEAN, NetClose(b) PROVE IInv'
  BY <1>7 DEF NetClose
<1>8. CASE NetForget
  BY <1>8 DEF NetForget
<1>9. ASSUME NEW s \in Session, Kick(s) PROVE IInv'
  BY <1>9 DEF Kick
<1>10. ASSUME NEW s \in Session, DropClosed(s) PROVE IInv'
  BY <1>10 DEF DropClosed
<1>11. ASSUME NEW s \in Session, Delete(s) PROVE IInv'
  BY <1>11 DEF Delete
<1>12. CASE KickForget
  BY <1>12 DEF KickForget
<1>13. CASE DeleteForget
  BY <1>13 DEF DeleteForget
<1>14. CASE UNCHANGED vars
  BY <1>14 DEF vars
<1> QED
  BY <1>1, <1>2, <1>3, <1>4, <1>5, <1>6, <1>7, <1>8, <1>9, <1>10, <1>11, <1>12, <1>13, <1>14
  DEF Next, NetworkThread, MainThread

\* The invariant holds in every state.
LEMMA Invariance == Spec => []IInv
BY InitIInv, NextIInv, PTL DEF Spec

\* An open socket's pointer refers to an existing session (onSocketClosed, ~WorldSession).
THEOREM OpenPointerCorrect == Spec => []OpenPointerValid
<1>1. IInv => OpenPointerValid
  BY DEF IInv, Pointer, OpenPointerValid
<1> QED
  BY <1>1, Invariance, PTL

\* Nobody else can reach a session while handleAuthProof() sets it up.
THEOREM SetUpCorrect == Spec => []SetUpInPrivate
<1>1. IInv => SetUpInPrivate
  BY DEF IInv, Handlers, SetUpInPrivate
<1> QED
  BY <1>1, Invariance, PTL

\* The network thread never dereferences a deleted session that was created on an open
\* socket (onReceivedData, handlePing, handleTimeSyncResp).
THEOREM UseCorrect == Spec => []UseIsSafe
<1>1. IInv => UseIsSafe
  BY DEF IInv, Locking, Pointer, Handlers, UseIsSafe
<1> QED
  BY <1>1, Invariance, PTL
=============================================================================
