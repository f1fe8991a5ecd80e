--------------------------- MODULE MCSchedulerOrder ---------------------------
(***************************************************************************)
(* A small instance of SchedulerOrder for TLC: recurring tasks that are    *)
(* due again at every clock value compete for a batch of one.              *)
(***************************************************************************)
EXTENDS MCScheduler, SchedulerOrder

=============================================================================
