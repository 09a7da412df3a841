-------------------------- MODULE MCTheaterUpdater --------------------------
(* Three theaters and two worker threads: one task waits while both workers *)
(* are busy, and a worker may sleep while another takes its task.           *)
EXTENDS TheaterUpdater
=============================================================================
