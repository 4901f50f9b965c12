---------------------------- MODULE MCScheduler -----------------------------
(* Instances of Scheduler: a daily, a busier and an unreadable schedule.   *)
EXTENDS Scheduler

Schedules == {{0}, {1, 3}, {}}
=============================================================================
