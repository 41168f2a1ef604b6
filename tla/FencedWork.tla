----------------------------- MODULE FencedWork -----------------------------
(***************************************************************************)
(* What the processing lease promises, without saying how: one holder at a *)
(* time, a fresh epoch for every grant, no grant while a holder is still   *)
(* live, and durable work only by the current holder, each item of a run   *)
(* decided at most once.  Scheduler implements it.                         *)
(***************************************************************************)
EXTENDS Naturals

CONSTANTS Key,      \* runs, by trigger key
          Item,     \* positions of a frozen batch
          NoKey     \* no holder

VARIABLES epoch,    \* number of grants so far
          holder,   \* the run that holds the resource, or NoKey
          live,     \* the holder's time is not over
          done      \* the durable outcomes

vars == <<epoch, holder, live, done>>

Init == /\ epoch = 0
        /\ holder = NoKey
        /\ live = FALSE
        /\ done = {}

\* The resource passes to k only when nobody holds it or the holder's time is over.
Grant(k) == /\ holder = NoKey \/ ~live
            /\ epoch' = epoch + 1
            /\ holder' = k
            /\ live' = TRUE
            /\ UNCHANGED done

Expire == /\ live
          /\ live' = FALSE
          /\ UNCHANGED <<epoch, holder, done>>

Yield == /\ holder # NoKey
         /\ holder' = NoKey
         /\ live' = FALSE
         /\ UNCHANGED <<epoch, done>>

\* Only the holder decides items, under the current epoch, and only once per run.
Perform(k, items, ok) ==
    /\ holder = k
    /\ \A d \in done : ~(d.run = k /\ d.item \in items)
    /\ done' = done \cup {[run |-> k, item |-> i, token |-> epoch, ok |-> ok] : i \in items}
    /\ UNCHANGED <<epoch, holder, live>>

Next == \/ \E k \in Key : Grant(k)
        \/ Expire
        \/ Yield
        \/ \E k \in Key, items \in SUBSET Item, ok \in BOOLEAN : Perform(k, items, ok)

Spec == Init /\ [][Next]_vars
=============================================================================
