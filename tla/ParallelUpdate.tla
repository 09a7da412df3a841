--------------------------- MODULE ParallelUpdate ---------------------------
(***************************************************************************)
(* What TheaterManager::updateTheaters() promises its caller: in one tick   *)
(* every theater of the batch is updated once, in any order and possibly in *)
(* parallel, and the tick is over only when all of them have been updated.  *)
(* No threads, queue, counter or condition variable here: TheaterUpdater    *)
(* implements this specification.                                           *)
(***************************************************************************)
CONSTANT Theater

VARIABLES
    phase,      \* "idle" between ticks, "updating" during one, "halted" after stop()
    remaining   \* the theaters of the current tick that are not updated yet

vars == <<phase, remaining>>

TypeOK ==
    /\ phase \in {"idle", "updating", "halted"}
    /\ remaining \in SUBSET Theater

Init ==
    /\ phase = "idle"
    /\ remaining = {}

\* The main thread enters updateTheaters() with the theaters that exist now.
Begin(S) ==
    /\ phase = "idle"
    /\ phase' = "updating"
    /\ remaining' = S

\* Some thread completes Theater::update() for t.
Update(t) ==
    /\ phase = "updating"
    /\ t \in remaining
    /\ remaining' = remaining \ {t}
    /\ UNCHANGED phase

\* waitUpdate() returns.
End ==
    /\ phase = "updating"
    /\ remaining = {}
    /\ phase' = "idle"
    /\ UNCHANGED remaining

\* stop(): the main thread only calls it between two ticks.
Halt ==
    /\ phase = "idle"
    /\ phase' = "halted"
    /\ UNCHANGED remaining

Next ==
    \/ \E S \in SUBSET Theater : Begin(S)
    \/ \E t \in Theater : Update(t)
    \/ End
    \/ Halt

Spec == Init /\ [][Next]_vars
=============================================================================
