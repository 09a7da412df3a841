-------------------------- MODULE MCTheaterManager --------------------------
(***************************************************************************)
(* Instances of TheaterManager for TLC.                                     *)
(***************************************************************************)
EXTENDS TheaterManager, TLC

Symmetry == Permutations(Session) \cup Permutations(SessionId) \cup Permutations(Theater)

\* A player who may come back after a disconnection, and a game master who may not.
MCClientKind == {[gm |-> FALSE, keep |-> TRUE], [gm |-> TRUE, keep |-> FALSE]}
=============================================================================
