------------------------------- MODULE MCBatch -------------------------------
(* Batch on small instances. *)
EXTENDS Batch

\* One game is on two listings.  The second page fits into a batch of two only when the first
\* game needs no other attempt.
Releases == <<"g1">>
SeeAll == <<<<"g1">>, <<"g2", "g3">>>>

\* Workers, and runs, differ in name only.
Names == Permutations(Worker) \cup Permutations(Run)
=============================================================================
