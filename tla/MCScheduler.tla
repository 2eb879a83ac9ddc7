----------------------------- MODULE MCScheduler -----------------------------
(* The constants of Scheduler are given by the configurations.             *)
EXTENDS Scheduler
=============================================================================
