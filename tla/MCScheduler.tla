----------------------------- MODULE MCScheduler -----------------------------
(* Scheduler on small instances. *)
EXTENDS Scheduler

\* One process is the documented deployment; two overlap while a new version is rolled out.
One   == {"p1"}
Two   == {"p1", "p2"}
Nobody == {}
Items == 1..2
=============================================================================
