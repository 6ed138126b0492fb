----------------------------- MODULE MCScheduler -----------------------------
(* Structured concurrency with a few tasks.                                *)
EXTENDS Scheduler
=============================================================================
