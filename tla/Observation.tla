----------------------------- MODULE Observation -----------------------------
(***************************************************************************)
(* The heartbeat of a process role (processing/heartbeat.py) and what the  *)
(* monitoring page says of it (processing/monitoring.py).                  *)
(*                                                                         *)
(* Every process runs a thread that registers the process in the row of    *)
(* its role, as a new generation, and publishes what its main thread does. *)
(* Processes of one role follow each other, and may overlap.               *)
(***************************************************************************)
EXTENDS Integers, FiniteSets

CONSTANTS Process,     \* of one role, numbered in the order they are started
          Interval,    \* between two heartbeats
          Stale,       \* STALE_SECONDS
          MaxFaults    \* bound on database errors, delays and deaths

VARIABLES row,       \* ProcessHeartbeat; age: of last_seen_at, one more than Stale at most;
                     \* the modes idle and busy are both "working"
          process,   \* local variables of each process
          quiet,     \* ticks since the last fault, start or stop, at most Stale + 1 (history)
          overlap,   \* two processes of the role were alive at once (history)
          faults

vars == <<row, process, quiet, overlap, faults>>

NoProcess == 0
Old  == Stale + 1
New  == [pc |-> "new", generation |-> 0, stop |-> FALSE, wait |-> 0, gone |-> 0]

Init == /\ row = [instance |-> NoProcess, generation |-> 0, mode |-> "none", age |-> 0]
        /\ process = [p \in Process |-> New]
        /\ quiet = 0 /\ overlap = FALSE /\ faults = 0

At(p, pcs) == process[p].pc \in pcs
Alive == {p \in Process : ~At(p, {"new", "gone"})}
Goto(p, there) == process' = [process EXCEPT ![p].pc = there]
Fault == faults < MaxFaults /\ faults' = faults + 1 /\ quiet' = 0
Fine  == UNCHANGED <<quiet, faults>>

\* __enter__.  Processes start in order.
Start(p) == /\ At(p, {"new"})
            /\ \A q \in Process : q < p => ~At(q, {"new"})
            /\ Goto(p, "loop")
            /\ overlap' = (overlap \/ Alive # {})
            /\ quiet' = 0
            /\ UNCHANGED <<row, faults>>

-----------------------------------------------------------------------------
(* _loop *)

\* The wait for the next heartbeat, which a stop ends.
Waiting(r) == [r EXCEPT !.pc = "wait", !.wait = Interval]

Registered(p) == [instance |-> p, generation |-> row.generation + 1,
                  mode |-> "working", age |-> 0]

\* register; a lost connection may hide that it was committed.
Register(p) ==
    /\ At(p, {"loop"}) /\ ~process[p].stop /\ process[p].generation = 0
    /\ \/ /\ row' = Registered(p)
          /\ process' = [process EXCEPT ![p].generation = row.generation + 1]
          /\ Fine
       \/ /\ row' \in {row, Registered(p)}
          /\ process' = [process EXCEPT ![p] = Waiting(@)]
          /\ Fault
    /\ UNCHANGED overlap

\* Mutant of OwnRow: a heartbeat is filtered by role and slot alone.
OwnRole(p) == TRUE
\* The row that publish filters by.
OwnRow(p) == row.instance = p /\ row.generation = process[p].generation
Published(p, mode) == row' = IF OwnRow(p) THEN [row EXCEPT !.mode = mode, !.age = 0] ELSE row

\* publish.  Without its row the thread ends: a newer instance owns it.
Publish(p) ==
    /\ At(p, {"loop"}) /\ ~process[p].stop /\ process[p].generation # 0
    /\ \/ /\ Published(p, "working")
          /\ process' = [process EXCEPT ![p] = IF OwnRow(p) THEN Waiting(@) ELSE [@ EXCEPT !.pc = "last"]]
          /\ Fine
       \/ /\ UNCHANGED row
          /\ process' = [process EXCEPT ![p] = Waiting(@)]
          /\ Fault
    /\ UNCHANGED overlap

Wakes(p) == /\ At(p, {"wait"}) /\ process[p].wait = 0 /\ ~process[p].stop
            /\ Goto(p, "loop")
            /\ UNCHANGED <<row, quiet, overlap, faults>>

Stopped(p) == /\ At(p, {"loop", "wait"}) /\ process[p].stop
              /\ Goto(p, "last")
              /\ UNCHANGED <<row, quiet, overlap, faults>>

\* The last heartbeat, after a stop or the loss of the row; an error of it is passed over.
LastWord(p) ==
    /\ At(p, {"last"})
    /\ \/ /\ IF process[p].generation # 0 THEN Published(p, "stopped") ELSE UNCHANGED row
          /\ Fine
       \/ UNCHANGED row /\ Fault
    /\ Goto(p, "silent")
    /\ UNCHANGED overlap

-----------------------------------------------------------------------------
\* __exit__, and the end of the process once its thread has ended (or not within the join).
Stop(p) == /\ At(p, {"loop", "wait", "last", "silent"}) /\ ~process[p].stop
           /\ process' = [process EXCEPT ![p].stop = TRUE]
           /\ quiet' = 0
           /\ UNCHANGED <<row, overlap, faults>>

Ends(p) == /\ process[p].stop
           /\ \/ At(p, {"silent"}) /\ Fine
              \/ At(p, {"loop", "wait", "last"}) /\ Fault
           /\ Goto(p, "gone")
           /\ UNCHANGED <<row, overlap>>

Dies(p) == /\ p \in Alive
           /\ Fault
           /\ Goto(p, "gone")
           /\ UNCHANGED <<row, overlap>>

Busy(p) == \/ At(p, {"loop", "last"})
           \/ At(p, {"wait"}) /\ (process[p].wait = 0 \/ process[p].stop)
Up(n) == IF n = Old THEN Old ELSE n + 1

\* Time passes when no thread has anything to do; else it is a delay.
Tick == /\ IF \E p \in Process : Busy(p)
           THEN Fault ELSE quiet' = Up(quiet) /\ UNCHANGED faults
        /\ row' = [row EXCEPT !.age = Up(@)]
        /\ process' = [p \in Process |->
              CASE At(p, {"wait"}) -> [process[p] EXCEPT !.wait = IF @ = 0 THEN 0 ELSE @ - 1]
                [] At(p, {"gone"}) -> [process[p] EXCEPT !.gone = Up(@)]
                [] OTHER           -> process[p]]
        /\ UNCHANGED overlap

Next == \/ \E p \in Process : \/ Start(p) \/ Register(p) \/ Publish(p) \/ Wakes(p)
                              \/ Stopped(p) \/ LastWord(p) \/ Stop(p) \/ Ends(p) \/ Dies(p)
        \/ Tick

Spec == Init /\ [][Next]_vars

-----------------------------------------------------------------------------
(* Properties. *)

\* process_state
Shown == CASE row.mode = "none"    -> "unknown"
           [] row.mode = "stopped" -> "stopped"
           [] row.mode # "stopped" /\ row.age > Stale -> "stale"
           [] OTHER -> row.mode

\* A process that is gone is not shown as working for longer than STALE_SECONDS.
DeadAreMissed == \A p \in Process : process[p].gone = Old => ~(row.instance = p /\ Shown = "working")

\* "Stopped" is the word of the process that registered last, which was told to stop; no other
\* process, late as its heartbeat may be, says it for that one.
StopIsItsOwn == Shown = "stopped" => process[row.instance].stop

\* A process that has had the role to itself is shown at work, neither stopped nor stale, whenever
\* nothing failed for STALE_SECONDS.
LivingAreSeen ==
    \A p \in Alive : ~overlap /\ ~process[p].stop /\ quiet = Old
                     => row.instance = p /\ Shown = "working"

\* A generation is given once.
GenerationsDiffer ==
    \A p, q \in Process :
        /\ process[p].generation <= row.generation
        /\ p = q \/ process[p].generation = 0 \/ process[p].generation # process[q].generation

ObservationKept == DeadAreMissed /\ StopIsItsOwn /\ LivingAreSeen /\ GenerationsDiffer
=============================================================================
