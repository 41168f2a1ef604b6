----------------------------- MODULE MCSummaries -----------------------------
(* Summaries on a small instance: two jobs, of which the second is dearer.     *)
EXTENDS Summaries

JobCost == [j \in Job |-> IF j = 1 THEN 1 ELSE 2]
\* A short window of two requests, a long one that two requests of the dear job fill.
Windows == {[span |-> 1, tokens |-> 3, requests |-> 2], [span |-> 2, tokens |-> 4, requests |-> 3]}
=============================================================================
