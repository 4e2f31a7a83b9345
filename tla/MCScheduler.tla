----------------------------- MODULE MCScheduler -----------------------------
(***************************************************************************)
(* Task 0 and two slots for tasks of either kind.                          *)
(***************************************************************************)
EXTENDS Scheduler
==============================================================================
