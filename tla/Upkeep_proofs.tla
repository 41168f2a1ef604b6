------------------------------ MODULE Upkeep_proofs ------------------------------
(***************************************************************************)
(* Proofs about the parts of Upkeep, each for all of its behaviours: they  *)
(* share no state, and no lemma is about two of them, but for the last     *)
(* theorem.                                                                *)
(***************************************************************************)
EXTENDS Upkeep, Sums, Sequences

------------------------------------------------------------------------------
(* Observation: the heartbeats of the processes of a role.                   *)

\* What the settings may be: a heartbeat comes before the last one is stale.
ObsSettings == /\ Process \subseteq Nat \ {0}
               /\ HeartbeatInterval \in Nat /\ Stale \in Nat /\ HeartbeatInterval <= Stale

-----------------------------------------------------------------------------
(* The inductive invariant.                                                    *)

LifeAt == {"new", "loop", "wait", "last", "silent", "gone"}
Life == [pc : LifeAt, generation : Nat, stop : BOOLEAN, wait : 0..HeartbeatInterval, gone : 0..Obs!Old]
Heartbeat == [instance : Process \cup {Obs!NoProcess}, generation : Nat,
              mode : {"none", "working", "stopped"}, age : 0..Obs!Old]

ObsTyped == /\ row \in Heartbeat /\ process \in [Process -> Life]
            /\ unharmed \in 0..Obs!Old /\ overlap \in BOOLEAN

Fresh(m) == /\ m.pc = "new" => m.generation = 0 /\ ~m.stop /\ m.wait = 0
            /\ m.pc # "gone" => m.gone = 0

\* The latest generation is that of the instance in the row, unless it does not know it.
Numbered(p, m) == /\ m.generation <= row.generation
                  /\ m.generation # 0 /\ m.generation = row.generation => row.instance = p

\* Who stops without having been told to has lost the row for good.
Outdated(m) == m.pc = "last" /\ ~m.stop => m.generation < row.generation

\* The row of a process that is gone has not been touched since.
Silent(p, m) == m.pc = "gone" /\ row.instance = p => m.gone <= row.age

\* A process alone in its role has the row, and published an interval ago at most, unless
\* something went wrong since.
AtWork(p, m) ==
    /\ m.pc \in {"loop", "wait"} /\ (m.pc = "loop" => m.wait = 0)
    /\ m.generation # 0 => row.instance = p /\ row.generation = m.generation
    /\ \/ unharmed + m.wait <= HeartbeatInterval
       \/ row.instance = p /\ row.mode = "working" /\ row.age + m.wait <= HeartbeatInterval

Living(m) == m.pc # "new" /\ m.pc # "gone"

LivesFit == \A p \in Process : /\ Fresh(process[p]) /\ Numbered(p, process[p])
                               /\ Outdated(process[p]) /\ Silent(p, process[p])
Apart    == \A p, q \in Process : p = q \/ process[p].generation = 0
                                  \/ process[p].generation # process[q].generation
StopSaid == row.mode = "stopped" => row.instance \in Process /\ process[row.instance].stop
Alone    == ~overlap => \A p, q \in Process : Living(process[p]) /\ Living(process[q]) => p = q
SeenSoon == ~overlap => \A p \in Process :
                            Living(process[p]) /\ ~process[p].stop => AtWork(p, process[p])

OInv == ObsTyped /\ LivesFit /\ Apart /\ StopSaid /\ Alone /\ SeenSoon

-----------------------------------------------------------------------------
(* The steps of one process.                                                   *)

\* What a step of one process does to its life, which becomes m, and to the row.
LifeBecomes(p, m) ==
    /\ m \in Life /\ process' = [process EXCEPT ![p] = m]
    /\ Fresh(m) /\ Numbered(p, m)' /\ Outdated(m)' /\ Silent(p, m)'
    /\ process[p].stop => m.stop
    /\ m.generation = process[p].generation \/ m.generation > row.generation
RowMoves(p, m) ==
    /\ row' \in Heartbeat /\ row.generation <= row'.generation
    /\ row'.generation = row.generation => row'.instance = row.instance
    /\ row'.mode = "stopped" /\ row'.instance = p => m.stop
    /\ row'.instance # p => row' = row
Watched(p, m) ==
    /\ unharmed' \in 0..Obs!Old /\ overlap' \in BOOLEAN
    /\ ~overlap' => /\ ~overlap
                    /\ \A q \in Process : Living(process[q]) => q = p
                    /\ Living(m) /\ ~m.stop => AtWork(p, m)'
StepOf(p, m) == LifeBecomes(p, m) /\ RowMoves(p, m) /\ Watched(p, m)

LEMMA StepIsSafe ==
    ASSUME OInv, NEW p \in Process, NEW m, StepOf(p, m)
    PROVE  OInv'
<1>. USE DEF StepOf
<1>1. process' \in [Process -> Life] /\ process'[p] = m
      /\ \A q \in Process : q # p => process'[q] = process[q]
  BY DEF OInv, ObsTyped, LifeBecomes
<1>2. /\ row \in Heartbeat /\ row' \in Heartbeat /\ row.generation <= row'.generation
      /\ row.generation \in Nat /\ row'.generation \in Nat
  BY DEF OInv, ObsTyped, Heartbeat, RowMoves
<1>3. \A q \in Process : process[q] \in Life /\ process[q].generation \in Nat
  BY DEF OInv, ObsTyped, Life
<1>4. ObsTyped'
  BY <1>1, <1>2 DEF ObsTyped, Watched
<1>5. ASSUME NEW q \in Process, q # p
      PROVE  /\ Fresh(process[q]) /\ Numbered(q, process[q])'
             /\ Outdated(process[q])' /\ Silent(q, process[q])'
  <2>1. process'[q] = process[q] /\ Fresh(process[q]) /\ Numbered(q, process[q])
        /\ Outdated(process[q]) /\ Silent(q, process[q])
    BY <1>1, <1>5 DEF OInv, LivesFit
  <2>2. Numbered(q, process[q])'
    BY <1>2, <1>3, <2>1 DEF Numbered, RowMoves
  <2>3. Outdated(process[q])'
    BY <1>2, <1>3, <2>1 DEF Outdated
  <2>4. Silent(q, process[q])'
    BY <1>5, <2>1 DEF Silent, RowMoves
  <2>. QED
    BY <2>1, <2>2, <2>3, <2>4
<1>6. LivesFit'
  <2>1. ASSUME NEW q \in Process
        PROVE  (Fresh(process[q]) /\ Numbered(q, process[q]) /\ Outdated(process[q])
                /\ Silent(q, process[q]))'
    <3>1. CASE q # p
      BY <1>1, <1>5, <3>1 DEF Fresh
    <3>2. CASE q = p
      BY <1>1, <3>2 DEF LifeBecomes, Fresh, Numbered, Outdated, Silent
    <3>. QED
      BY <3>1, <3>2
  <2>. QED
    BY <2>1 DEF LivesFit
<1>7. Apart'
  <2>1. \A q \in Process : process[q].generation <= row.generation
    BY DEF OInv, LivesFit, Numbered
  <2>2. \A q \in Process : q # p => m.generation = 0 \/ process[q].generation = 0
                                    \/ m.generation # process[q].generation
    BY <1>2, <1>3, <2>1 DEF OInv, Apart, LifeBecomes, Life
  <2>. QED
    BY <1>1, <2>2 DEF OInv, Apart
<1>8. StopSaid'
  BY <1>1 DEF OInv, StopSaid, RowMoves, ObsTyped, Heartbeat
<1>9. Alone'
  BY <1>1 DEF Alone, Watched, Living
<1>10. SeenSoon'
  <2>1. SUFFICES ASSUME ~overlap', NEW q \in Process, Living(process'[q]), ~process'[q].stop
                 PROVE  AtWork(q, process[q])'
    BY DEF SeenSoon
  <2>2. q = p
    BY <1>1, <2>1 DEF Watched
  <2>. QED
    BY <1>1, <2>1, <2>2 DEF Watched, AtWork
<1>. QED
  BY <1>4, <1>6, <1>7, <1>8, <1>9, <1>10 DEF OInv

\* What is known of a process when it moves.
LEMMA Known ==
    ASSUME ObsSettings, OInv, NEW p \in Process
    PROVE  /\ process[p] \in Life /\ row \in Heartbeat /\ unharmed \in 0..Obs!Old /\ overlap \in BOOLEAN
           /\ Fresh(process[p]) /\ Numbered(p, process[p]) /\ Outdated(process[p])
           /\ Silent(p, process[p])
           /\ ~overlap /\ Living(process[p]) =>
                 /\ \A q \in Process : Living(process[q]) => q = p
                 /\ ~process[p].stop => AtWork(p, process[p])
           /\ row.mode = "stopped" /\ row.instance = p => process[p].stop
           /\ Stale \in Nat /\ Obs!Old \in Nat /\ HeartbeatInterval \in Nat /\ Obs!Old = Stale + 1 /\ p # Obs!NoProcess
BY DEF ObsSettings, OInv, ObsTyped, LivesFit, Alone, SeenSoon, StopSaid, Obs!Old, Obs!NoProcess

LEMMA StartIsAStep ==
    ASSUME ObsSettings, OInv, NEW p \in Process, Obs!Start(p)
    PROVE  \E m : StepOf(p, m)
<1>1. PICK m : m = [process[p] EXCEPT !.pc = "loop"]
  OBVIOUS
<1>2. /\ process' = [process EXCEPT ![p] = m] /\ row' = row /\ unharmed' = 0
      /\ overlap' = (overlap \/ Obs!Alive # {})
  BY <1>1 DEF Obs!Start, Obs!Goto
<1>3. /\ process[p].pc = "new" /\ m \in Life /\ m.pc = "loop" /\ m.generation = 0
      /\ ~m.stop /\ ~process[p].stop /\ m.wait = 0 /\ m.gone = 0 /\ process[p].generation = 0
  BY <1>1, Known DEF Obs!Start, Obs!At, Life, LifeAt, Fresh
<1>4. LifeBecomes(p, m)
  BY <1>2, <1>3, Known DEF LifeBecomes, Fresh, Numbered, Outdated, Silent, Heartbeat
<1>5. RowMoves(p, m)
  BY <1>2, <1>3, Known DEF RowMoves, Heartbeat
<1>6. ~overlap' => ~overlap /\ \A q \in Process : ~Living(process[q])
  BY <1>2 DEF Obs!Alive, Obs!At, Living
<1>7. Watched(p, m)
  BY <1>2, <1>3, <1>6, Known DEF Watched, AtWork
<1>. QED
  BY <1>4, <1>5, <1>7 DEF StepOf

\* Of a step that is not the first: what is left to show for the process to be watched.
LEMMA StaysWatched ==
    ASSUME ObsSettings, OInv, NEW p \in Process, Living(process[p]), NEW m,
           process[p].stop => m.stop,
           overlap' = overlap, unharmed' \in {unharmed, 0},
           ~overlap /\ ~m.stop /\ Living(m) /\ AtWork(p, process[p]) => AtWork(p, m)'
    PROVE  Watched(p, m)
<1>1. unharmed' \in 0..Obs!Old /\ overlap' \in BOOLEAN
  BY Known
<1>2. ASSUME ~overlap'
      PROVE  /\ ~overlap /\ \A q \in Process : Living(process[q]) => q = p
             /\ Living(m) /\ ~m.stop => AtWork(p, m)'
  BY <1>2, Known
<1>. QED
  BY <1>1, <1>2 DEF Watched

LEMMA RegisterIsAStep ==
    ASSUME ObsSettings, OInv, NEW p \in Process, Obs!Register(p)
    PROVE  \E m : StepOf(p, m)
<1>1. /\ process[p] \in Life /\ process[p].pc = "loop" /\ ~process[p].stop
      /\ process[p].generation = 0 /\ process[p].gone = 0 /\ Living(process[p])
      /\ overlap' = overlap
  BY Known DEF Obs!Register, Obs!At, Fresh, Living
<1>2. row.generation \in Nat /\ row.generation + 1 \in Nat /\ 0 \in 0..Obs!Old
  BY Known DEF Heartbeat
<1>3. PICK reg : reg = Obs!Registered(p) /\ reg \in Heartbeat /\ reg.instance = p
                 /\ reg.generation = row.generation + 1 /\ reg.mode = "working" /\ reg.age = 0
  <2>1. PICK reg : reg = Obs!Registered(p)
    OBVIOUS
  <2>. QED
    BY <1>2, <2>1 DEF Obs!Registered, Heartbeat
<1>4. ASSUME row' = reg, process' = [process EXCEPT ![p].generation = row.generation + 1], Obs!Fine
      PROVE  \E m : StepOf(p, m)
  <2>1. PICK m : m = [process[p] EXCEPT !.generation = row.generation + 1]
    OBVIOUS
  <2>2. /\ m \in Life /\ m.pc = "loop" /\ ~m.stop /\ m.generation = row.generation + 1
        /\ m.gone = 0 /\ m.wait = process[p].wait
    BY <1>1, <1>2, <2>1 DEF Life
  <2>3. process' = [process EXCEPT ![p] = m] /\ unharmed' = unharmed
    BY <1>4, <2>1 DEF Obs!Fine
  <2>4. LifeBecomes(p, m)
    <3>1. Fresh(m) /\ Outdated(m)' /\ Silent(p, m)'
      BY <2>2 DEF Fresh, Outdated, Silent
    <3>2. Numbered(p, m)' /\ m.generation > row.generation
      BY <1>2, <1>3, <1>4, <2>2 DEF Numbered
    <3>. QED
      BY <1>1, <2>2, <2>3, <3>1, <3>2 DEF LifeBecomes
  <2>5. RowMoves(p, m)
    BY <1>3, <1>2, <1>4 DEF RowMoves
  <2>6. AtWork(p, process[p]) => AtWork(p, m)'
    BY <1>1, <1>3, <1>4, <2>2, Known DEF AtWork
  <2>7. Watched(p, m)
    BY <1>1, <2>3, <2>6, StaysWatched
  <2>. QED
    BY <2>4, <2>5, <2>7 DEF StepOf
<1>5. ASSUME row' \in {row, reg}, process' = [process EXCEPT ![p] = Obs!Waiting(@)], Obs!Fault
      PROVE  \E m : StepOf(p, m)
  <2>1. PICK m : m = Obs!Waiting(process[p])
    OBVIOUS
  <2>2. /\ m \in Life /\ m.pc = "wait" /\ ~m.stop /\ m.generation = 0
        /\ m.gone = 0 /\ m.wait = HeartbeatInterval
    <3>1. HeartbeatInterval \in 0..HeartbeatInterval /\ "wait" \in LifeAt
      BY Known DEF LifeAt
    <3>. QED
      BY <1>1, <2>1, <3>1 DEF Obs!Waiting, Life
  <2>3. process' = [process EXCEPT ![p] = m] /\ unharmed' = 0
    BY <1>5, <2>1 DEF Obs!Fault
  <2>4. row' \in Heartbeat /\ row'.generation \in Nat
    BY <1>3, <1>5, Known DEF Heartbeat
  <2>5. LifeBecomes(p, m)
    BY <1>1, <2>2, <2>3, <2>4 DEF LifeBecomes, Fresh, Numbered, Outdated, Silent
  <2>6. RowMoves(p, m)
    BY <1>1, <1>3, <1>2, <1>5, Known DEF RowMoves
  <2>7. AtWork(p, m)'
    BY <2>2, <2>3, Known DEF AtWork
  <2>8. Watched(p, m)
    BY <1>1, <2>3, <2>7, StaysWatched
  <2>. QED
    BY <2>5, <2>6, <2>8 DEF StepOf
<1>. QED
  BY <1>3, <1>4, <1>5 DEF Obs!Register

\* A heartbeat is for the process that has the row.
LEMMA PublishedRow ==
    ASSUME ObsSettings, OInv, NEW p \in Process, NEW mode \in {"working", "stopped"}, Obs!Published(p, mode)
    PROVE  /\ row' \in Heartbeat /\ row'.instance = row.instance /\ row'.generation = row.generation
           /\ Obs!OwnRow(p) => row'.mode = mode /\ row'.age = 0 /\ row'.instance = p
           /\ ~Obs!OwnRow(p) => row' = row
<1>1. 0 \in 0..Obs!Old /\ row \in Heartbeat
  BY Known
<1>2. row' = IF Obs!OwnRow(p) THEN [row EXCEPT !.mode = mode, !.age = 0] ELSE row
  BY DEF Obs!Published
<1>3. CASE Obs!OwnRow(p)
  BY <1>1, <1>2, <1>3 DEF Heartbeat, Obs!OwnRow
<1>4. CASE ~Obs!OwnRow(p)
  BY <1>1, <1>2, <1>4
<1>. QED
  BY <1>3, <1>4

LEMMA PublishIsAStep ==
    ASSUME ObsSettings, OInv, NEW p \in Process, Obs!Publish(p)
    PROVE  \E m : StepOf(p, m)
<1>1. /\ process[p] \in Life /\ process[p].pc = "loop" /\ ~process[p].stop
      /\ process[p].generation # 0 /\ process[p].gone = 0 /\ Living(process[p])
      /\ overlap' = overlap
  BY Known DEF Obs!Publish, Obs!At, Fresh, Living
<1>2. row.generation \in Nat /\ process[p].generation \in Nat
  BY Known DEF Heartbeat, Life
<1>3. HeartbeatInterval \in 0..HeartbeatInterval /\ "wait" \in LifeAt /\ "last" \in LifeAt
  BY Known DEF LifeAt
<1>4. ASSUME \/ Obs!Published(p, "working") /\ Obs!OwnRow(p) /\ Obs!Fine
             \/ UNCHANGED row /\ Obs!Fault,
             process' = [process EXCEPT ![p] = Obs!Waiting(@)]
      PROVE  \E m : StepOf(p, m)
  <2>1. PICK m : m = Obs!Waiting(process[p])
    OBVIOUS
  <2>2. /\ m \in Life /\ m.pc = "wait" /\ ~m.stop /\ m.generation = process[p].generation
        /\ m.gone = 0 /\ m.wait = HeartbeatInterval
    BY <1>1, <1>3, <2>1 DEF Obs!Waiting, Life
  <2>3. process' = [process EXCEPT ![p] = m] /\ unharmed' \in {unharmed, 0}
    BY <1>4, <2>1 DEF Obs!Fault, Obs!Fine
  <2>4. /\ row' \in Heartbeat /\ row'.generation = row.generation /\ row'.instance = row.instance
        /\ row'.mode = "stopped" => row' = row
    BY <1>4, Known, PublishedRow
  <2>5. LifeBecomes(p, m)
    <3>1. Fresh(m) /\ Outdated(m)' /\ Silent(p, m)'
      BY <2>2 DEF Fresh, Outdated, Silent
    <3>2. Numbered(p, m)'
      BY <2>2, <2>4, Known DEF Numbered
    <3>. QED
      BY <1>1, <2>2, <2>3, <3>1, <3>2 DEF LifeBecomes
  <2>6. RowMoves(p, m)
    <3>1. row'.instance # p => row' = row
      BY <1>4, PublishedRow DEF Obs!OwnRow
    <3>2. row'.mode = "stopped" /\ row'.instance = p => process[p].stop
      BY <2>4, Known
    <3>. QED
      BY <1>1, <1>2, <2>4, <3>1, <3>2 DEF RowMoves
  <2>7. AtWork(p, process[p]) => AtWork(p, m)'
    <3>1. CASE Obs!Published(p, "working") /\ Obs!OwnRow(p) /\ Obs!Fine
      <4>1. row'.mode = "working" /\ row'.age = 0 /\ row'.instance = p
        BY <3>1, PublishedRow
      <4>. QED
        BY <2>2, <2>4, <3>1, <4>1, Known DEF AtWork, Obs!OwnRow
    <3>2. CASE UNCHANGED row /\ Obs!Fault
      BY <2>2, <3>2, Known DEF AtWork, Obs!Fault
    <3>. QED
      BY <1>4, <3>1, <3>2
  <2>8. Watched(p, m)
    BY <1>1, <2>2, <2>3, <2>7, StaysWatched
  <2>. QED
    BY <2>5, <2>6, <2>8 DEF StepOf
<1>5. ASSUME Obs!Published(p, "working"), ~Obs!OwnRow(p), Obs!Fine, process' = [process EXCEPT ![p].pc = "last"]
      PROVE  \E m : StepOf(p, m)
  <2>1. PICK m : m = [process[p] EXCEPT !.pc = "last"]
    OBVIOUS
  <2>2. /\ m \in Life /\ m.pc = "last" /\ ~m.stop /\ m.generation = process[p].generation
        /\ m.gone = 0
    BY <1>1, <1>3, <2>1 DEF Life
  <2>3. process' = [process EXCEPT ![p] = m] /\ unharmed' = unharmed
    BY <1>5, <2>1 DEF Obs!Fine
  <2>4. row' = row
    BY <1>5, PublishedRow
  <2>5. process[p].generation < row.generation
    BY <1>1, <1>2, <1>5, Known DEF Obs!OwnRow, Numbered
  <2>6. LifeBecomes(p, m)
    BY <1>1, <2>2, <2>3, <2>4, <2>5, Known DEF LifeBecomes, Fresh, Numbered, Outdated, Silent
  <2>7. RowMoves(p, m)
    BY <1>1, <1>2, <2>4, Known DEF RowMoves
  <2>8. ~AtWork(p, process[p])
    BY <1>1, <1>5 DEF AtWork, Obs!OwnRow
  <2>9. Watched(p, m)
    BY <1>1, <2>3, <2>8, StaysWatched
  <2>. QED
    BY <2>6, <2>7, <2>9 DEF StepOf
<1>6. \/ /\ \/ Obs!Published(p, "working") /\ Obs!OwnRow(p) /\ Obs!Fine
            \/ UNCHANGED row /\ Obs!Fault
         /\ process' = [process EXCEPT ![p] = Obs!Waiting(@)]
      \/ /\ Obs!Published(p, "working") /\ ~Obs!OwnRow(p) /\ Obs!Fine
         /\ process' = [process EXCEPT ![p].pc = "last"]
  BY DEF Obs!Publish
<1>. QED
  BY <1>4, <1>5, <1>6

\* The steps that only take a process to another place.
LEMMA MoveIsAStep ==
    ASSUME ObsSettings, OInv, NEW p \in Process, Living(process[p]), NEW there \in LifeAt \ {"new"},
           Obs!Goto(p, there), row' = row, overlap' = overlap, unharmed' \in {unharmed, 0},
           there = "last" => process[p].stop,
           ~process[p].stop => there = "gone" \/ ~AtWork(p, process[p])
                               \/ (there = "loop" /\ process[p].wait = 0)
    PROVE  \E m : StepOf(p, m)
<1>1. PICK m : m = [process[p] EXCEPT !.pc = there]
  OBVIOUS
<1>2. /\ m \in Life /\ m.pc = there /\ m.stop = process[p].stop /\ m.gone = 0
      /\ m.generation = process[p].generation /\ m.wait = process[p].wait
  BY <1>1, Known DEF Life, Fresh, Living
<1>3. process' = [process EXCEPT ![p] = m]
  BY <1>1 DEF Obs!Goto
<1>4. row.generation \in Nat /\ row.age \in 0..Obs!Old /\ process[p].generation \in Nat
  BY Known DEF Heartbeat, Life
<1>5. LifeBecomes(p, m)
  <2>1. Fresh(m) /\ Outdated(m)' /\ Silent(p, m)'
    BY <1>2, <1>4, Known DEF Fresh, Outdated, Silent
  <2>2. Numbered(p, m)'
    BY <1>2, Known DEF Numbered
  <2>. QED
    BY <1>2, <1>3, <2>1, <2>2 DEF LifeBecomes
<1>6. RowMoves(p, m)
  BY <1>2, <1>4, Known DEF RowMoves
<1>7. ~m.stop /\ Living(m) /\ AtWork(p, process[p]) => AtWork(p, m)'
  BY <1>2, Known DEF AtWork, Living
<1>8. Watched(p, m)
  BY <1>2, <1>7, StaysWatched
<1>. QED
  BY <1>5, <1>6, <1>8 DEF StepOf

LEMMA MovesAreSteps ==
    ASSUME ObsSettings, OInv, NEW p \in Process, Obs!Wakes(p) \/ Obs!Stopped(p) \/ Obs!Ends(p) \/ Obs!Dies(p)
    PROVE  \E m : StepOf(p, m)
<1>1. Living(process[p])
  BY DEF Obs!Wakes, Obs!Stopped, Obs!Ends, Obs!Dies, Obs!Alive, Obs!At, Living
<1>2. row' = row /\ overlap' = overlap /\ unharmed' \in {unharmed, 0}
  BY DEF Obs!Wakes, Obs!Stopped, Obs!Ends, Obs!Dies, Obs!Fine, Obs!Fault
<1>3. CASE Obs!Wakes(p)
  BY <1>1, <1>2, <1>3, MoveIsAStep DEF Obs!Wakes, LifeAt
<1>4. CASE Obs!Stopped(p)
  BY <1>1, <1>2, <1>4, MoveIsAStep DEF Obs!Stopped, LifeAt
<1>5. CASE Obs!Ends(p) \/ Obs!Dies(p)
  <2>1. "gone" \in LifeAt \ {"new"} /\ "gone" # "last" /\ Obs!Goto(p, "gone")
    BY <1>5 DEF Obs!Ends, Obs!Dies, LifeAt
  <2>. QED
    BY <1>1, <1>2, <2>1, MoveIsAStep
<1>. QED
  BY <1>3, <1>4, <1>5

LEMMA LastWordIsAStep ==
    ASSUME ObsSettings, OInv, NEW p \in Process, Obs!LastWord(p)
    PROVE  \E m : StepOf(p, m)
<1>1. /\ process[p].pc = "last" /\ Living(process[p]) /\ overlap' = overlap
      /\ unharmed' \in {unharmed, 0} /\ Obs!Goto(p, "silent") /\ process[p] \in Life
  BY Known DEF Obs!LastWord, Obs!At, Living, Obs!Fine, Obs!Fault
<1>2. ~AtWork(p, process[p])
  BY <1>1 DEF AtWork
<1>3. CASE row' = row
  <2>1. "silent" \in LifeAt \ {"new"} /\ "silent" # "last"
    BY DEF LifeAt
  <2>. QED
    BY <1>1, <1>2, <1>3, <2>1, MoveIsAStep
<1>4. CASE row' # row
  <2>1. Obs!Published(p, "stopped") /\ Obs!OwnRow(p) /\ process[p].generation # 0
    BY <1>4, PublishedRow DEF Obs!LastWord
  <2>2. /\ row' \in Heartbeat /\ row'.generation = row.generation /\ row'.instance = row.instance
        /\ row.instance = p
    BY <2>1, PublishedRow
  <2>3. row.generation \in Nat /\ process[p].generation \in Nat
    BY Known DEF Heartbeat, Life
  <2>4. process[p].stop
    BY <1>1, <2>1, <2>3, Known DEF Outdated, Obs!OwnRow
  <2>5. PICK m : m = [process[p] EXCEPT !.pc = "silent"]
    OBVIOUS
  <2>6. /\ m \in Life /\ m.pc = "silent" /\ m.stop = process[p].stop
        /\ m.generation = process[p].generation /\ m.gone = 0
    BY <1>1, <2>5, Known DEF Life, LifeAt, Fresh
  <2>7. process' = [process EXCEPT ![p] = m]
    BY <1>1, <2>5 DEF Obs!Goto
  <2>8. LifeBecomes(p, m)
    <3>1. Fresh(m) /\ Outdated(m)' /\ Silent(p, m)'
      BY <2>6 DEF Fresh, Outdated, Silent
    <3>2. Numbered(p, m)'
      BY <2>2, <2>6, Known DEF Numbered
    <3>. QED
      BY <2>4, <2>6, <2>7, <3>1, <3>2 DEF LifeBecomes
  <2>9. RowMoves(p, m)
    BY <2>2, <2>3, <2>4, <2>6 DEF RowMoves
  <2>10. Watched(p, m)
    BY <1>1, <2>4, <2>6, StaysWatched
  <2>. QED
    BY <2>8, <2>9, <2>10 DEF StepOf
<1>. QED
  BY <1>3, <1>4

LEMMA StopIsAStep ==
    ASSUME ObsSettings, OInv, NEW p \in Process, Obs!Stop(p)
    PROVE  \E m : StepOf(p, m)
<1>1. /\ process[p] \in Life /\ Living(process[p]) /\ process[p].pc # "new" /\ ~process[p].stop
      /\ row' = row /\ overlap' = overlap /\ unharmed' = 0
  BY Known DEF Obs!Stop, Obs!At, Living
<1>2. PICK m : m = [process[p] EXCEPT !.stop = TRUE]
  OBVIOUS
<1>3. /\ m \in Life /\ m.pc = process[p].pc /\ m.stop /\ m.gone = process[p].gone
      /\ m.generation = process[p].generation
  BY <1>1, <1>2 DEF Life
<1>4. process' = [process EXCEPT ![p] = m]
  BY <1>2 DEF Obs!Stop
<1>5. row.generation \in Nat
  BY Known DEF Heartbeat
<1>6. LifeBecomes(p, m)
  <2>1. Fresh(m) /\ Outdated(m)' /\ Silent(p, m)' /\ Numbered(p, m)'
    BY <1>1, <1>3, Known DEF Fresh, Outdated, Silent, Numbered
  <2>. QED
    BY <1>3, <1>4, <2>1 DEF LifeBecomes
<1>7. RowMoves(p, m)
  BY <1>1, <1>3, <1>5, Known DEF RowMoves
<1>8. Watched(p, m)
  BY <1>1, <1>3, StaysWatched
<1>. QED
  BY <1>6, <1>7, <1>8 DEF StepOf

-----------------------------------------------------------------------------
(* Time.                                                                       *)

\* A moment later: what a tick makes of a life.
Later(m) == CASE m.pc = "wait" -> [m EXCEPT !.wait = IF @ = 0 THEN 0 ELSE @ - 1]
              [] m.pc = "gone" -> [m EXCEPT !.gone = Obs!Up(@)]
              [] OTHER         -> m

LEMMA LaterIs ==
    ASSUME ObsSettings, NEW m \in Life
    PROVE  /\ Later(m) \in Life /\ Later(m).pc = m.pc /\ Later(m).stop = m.stop
           /\ Later(m).generation = m.generation
           /\ Later(m).wait = IF m.pc = "wait" /\ m.wait # 0 THEN m.wait - 1 ELSE m.wait
           /\ Later(m).gone = IF m.pc = "gone" THEN Obs!Up(m.gone) ELSE m.gone
<1>1. /\ m.wait \in 0..HeartbeatInterval /\ HeartbeatInterval \in Nat /\ m.gone \in 0..Obs!Old /\ Obs!Old \in Nat
  BY DEF Life, ObsSettings, Obs!Old
<1>2. CASE m.pc = "wait"
  <2>1. PICK n \in 0..HeartbeatInterval : n = IF m.wait = 0 THEN 0 ELSE m.wait - 1
    BY <1>1
  <2>2. Later(m) = [m EXCEPT !.wait = n]
    BY <1>2, <2>1 DEF Later
  <2>. QED
    BY <1>1, <1>2, <2>1, <2>2 DEF Life
<1>3. CASE m.pc = "gone"
  <2>1. PICK n \in 0..Obs!Old : n = Obs!Up(m.gone)
    BY <1>1 DEF Obs!Up
  <2>2. Later(m) = [m EXCEPT !.gone = n]
    BY <1>3, <2>1 DEF Later
  <2>. QED
    BY <1>1, <1>3, <2>1, <2>2 DEF Life
<1>4. CASE m.pc # "wait" /\ m.pc # "gone"
  BY <1>4 DEF Later
<1>. QED
  BY <1>2, <1>3, <1>4

LEMMA TickIsSafe ==
    ASSUME ObsSettings, OInv, Obs!Tick
    PROVE  OInv'
<1>1. /\ row \in Heartbeat /\ process \in [Process -> Life] /\ unharmed \in 0..Obs!Old /\ overlap' = overlap
      /\ overlap \in BOOLEAN /\ HeartbeatInterval \in Nat /\ Stale \in Nat /\ Obs!Old = Stale + 1
      /\ row.age \in 0..Obs!Old /\ row.generation \in Nat
  BY DEF OInv, ObsTyped, Obs!Tick, ObsSettings, Obs!Old, Heartbeat
<1>2. Obs!Up(row.age) \in 0..Obs!Old /\ Obs!Up(unharmed) \in 0..Obs!Old
  BY <1>1 DEF Obs!Up
<1>3. /\ row' \in Heartbeat /\ row'.instance = row.instance /\ row'.generation = row.generation
      /\ row'.mode = row.mode /\ row'.age = Obs!Up(row.age)
  BY <1>1, <1>2 DEF Obs!Tick, Heartbeat
<1>4. process' = [p \in Process |-> Later(process[p])]
  BY DEF Obs!Tick, Later, Obs!At
<1>5. process' \in [Process -> Life]
  BY <1>1, <1>4, LaterIs
<1>6. unharmed' \in 0..Obs!Old /\ (unharmed' = 0 \/ (unharmed' = Obs!Up(unharmed) /\ \A p \in Process : ~Obs!Busy(p)))
  <2>1. 0 \in 0..Obs!Old
    BY <1>1
  <2>2. CASE \E p \in Process : Obs!Busy(p)
    <3>1. unharmed' = 0
      BY <2>2, Zenon DEF Obs!Tick, Obs!Fault
    <3>. QED
      BY <2>1, <3>1
  <2>3. CASE ~\E p \in Process : Obs!Busy(p)
    <3>1. unharmed' = Obs!Up(unharmed)
      BY <2>3, Zenon DEF Obs!Tick
    <3>. QED
      BY <1>2, <2>3, <3>1
  <2>. QED
    BY <2>2, <2>3
<1>7. ObsTyped'
  BY <1>1, <1>3, <1>5, <1>6 DEF ObsTyped
<1>8. ASSUME NEW p \in Process
      PROVE  /\ process'[p].pc = process[p].pc /\ process'[p].stop = process[p].stop
             /\ process'[p].generation = process[p].generation
             /\ process'[p].wait = IF process[p].pc = "wait" /\ process[p].wait # 0
                                   THEN process[p].wait - 1 ELSE process[p].wait
             /\ process'[p].gone = IF process[p].pc = "gone" THEN Obs!Up(process[p].gone)
                                                             ELSE process[p].gone
  BY <1>1, <1>4, LaterIs
<1>9. LivesFit'
  <2>1. SUFFICES ASSUME NEW p \in Process
                 PROVE  (Fresh(process[p]) /\ Numbered(p, process[p]) /\ Outdated(process[p])
                         /\ Silent(p, process[p]))'
    BY DEF LivesFit
  <2>2. Fresh(process[p]) /\ Numbered(p, process[p]) /\ Outdated(process[p]) /\ Silent(p, process[p])
    BY DEF OInv, LivesFit
  <2>3. Fresh(process[p])' /\ Numbered(p, process[p])' /\ Outdated(process[p])'
    BY <1>3, <1>8, <2>2 DEF Fresh, Numbered, Outdated
  <2>4. process[p].gone \in 0..Obs!Old
    BY <1>1 DEF Life
  <2>5. Silent(p, process[p])'
    BY <1>1, <1>3, <1>8, <2>2, <2>4 DEF Silent, Obs!Up
  <2>. QED
    BY <2>3, <2>5
<1>10. Apart' /\ StopSaid' /\ Alone'
  BY <1>1, <1>3, <1>8 DEF OInv, Apart, StopSaid, Alone, Living
<1>11. SeenSoon'
  <2>1. SUFFICES ASSUME ~overlap', NEW p \in Process, Living(process'[p]), ~process'[p].stop
                 PROVE  AtWork(p, process[p])'
    BY DEF SeenSoon
  <2>2. AtWork(p, process[p])
    BY <1>1, <1>8, <2>1 DEF OInv, SeenSoon, Living
  <2>3. process[p].wait \in 0..HeartbeatInterval
    BY <1>1 DEF Life
  <2>4. CASE unharmed' = 0
    BY <1>1, <1>3, <1>8, <2>2, <2>3, <2>4 DEF AtWork
  <2>5. CASE unharmed' = Obs!Up(unharmed) /\ ~Obs!Busy(p)
    <3>1. process[p].pc = "wait" /\ process[p].wait # 0
      BY <2>2, <2>5 DEF AtWork, Obs!Busy, Obs!At
    <3>2. process'[p].wait = process[p].wait - 1 /\ Obs!Up(unharmed) <= unharmed + 1 /\ Obs!Up(row.age) <= row.age + 1
      BY <1>1, <1>8, <3>1 DEF Obs!Up
    <3>. QED
      BY <1>1, <1>2, <1>3, <1>8, <2>2, <2>3, <2>5, <3>1, <3>2 DEF AtWork
  <2>. QED
    BY <1>6, <2>4, <2>5
<1>. QED
  BY <1>7, <1>9, <1>10, <1>11 DEF OInv

-----------------------------------------------------------------------------
(* The theorem.                                                                *)

LEMMA NextIsSafe ==
    ASSUME ObsSettings, OInv, [Obs!Next]_(Obs!vars)
    PROVE  OInv'
<1>1. ASSUME NEW p \in Process,
             Obs!Start(p) \/ Obs!Register(p) \/ Obs!Publish(p) \/ Obs!Wakes(p) \/ Obs!Stopped(p) \/ Obs!LastWord(p)
             \/ Obs!Stop(p) \/ Obs!Ends(p) \/ Obs!Dies(p)
      PROVE  OInv'
  <2>1. \E m : StepOf(p, m)
    BY <1>1, StartIsAStep, RegisterIsAStep, PublishIsAStep, MovesAreSteps, LastWordIsAStep, StopIsAStep
  <2>. QED
    BY <2>1, StepIsSafe
<1>2. CASE Obs!Tick
  BY <1>2, TickIsSafe
<1>3. CASE UNCHANGED Obs!vars
  BY <1>3 DEF Obs!vars, OInv, ObsTyped, LivesFit, Fresh, Numbered, Outdated, Silent, Apart, StopSaid, Alone,
              SeenSoon, AtWork, Living
<1>. QED
  BY <1>1, <1>2, <1>3 DEF Obs!Next

LEMMA InitIsSafe ==
    ASSUME ObsSettings, Obs!Init
    PROVE  OInv
<1>1. Obs!Old \in Nat /\ 0 \in 0..Obs!Old /\ 0 \in 0..HeartbeatInterval
  BY DEF ObsSettings, Obs!Old
<1>2. Obs!New \in Life /\ Obs!New.pc = "new" /\ Obs!New.generation = 0 /\ ~Obs!New.stop /\ Obs!New.wait = 0 /\ Obs!New.gone = 0
  BY <1>1 DEF Obs!New, Life, LifeAt
<1>3. /\ row \in Heartbeat /\ row.generation = 0 /\ row.mode = "none" /\ unharmed = 0 /\ overlap = FALSE
      /\ \A p \in Process : process[p] = Obs!New
  BY <1>1 DEF Obs!Init, Heartbeat
<1>4. ObsTyped
  BY <1>1, <1>2, <1>3 DEF Obs!Init, ObsTyped
<1>5. LivesFit /\ Apart /\ StopSaid /\ Alone /\ SeenSoon
  BY <1>2, <1>3 DEF LivesFit, Fresh, Numbered, Outdated, Silent, Apart, StopSaid, Alone, SeenSoon, Living
<1>. QED
  BY <1>4, <1>5 DEF OInv

LEMMA Observed ==
    ASSUME ObsSettings, OInv
    PROVE  Obs!ObservationKept
<1>1. /\ row \in Heartbeat /\ process \in [Process -> Life] /\ unharmed \in 0..Obs!Old
      /\ HeartbeatInterval \in Nat /\ Stale \in Nat /\ HeartbeatInterval <= Stale /\ Obs!Old = Stale + 1
      /\ row.age \in 0..Obs!Old /\ row.mode \in {"none", "working", "stopped"}
  BY DEF OInv, ObsTyped, ObsSettings, Obs!Old, Heartbeat
<1>2. (Obs!Shown = "working" <=> row.mode = "working" /\ row.age <= Stale)
      /\ (Obs!Shown = "stopped" <=> row.mode = "stopped")
  BY <1>1 DEF Obs!Shown
<1>3. Obs!DeadAreMissed
  <2>1. SUFFICES ASSUME NEW p \in Process, process[p].gone = Obs!Old, row.instance = p
                 PROVE  ~(row.age <= Stale)
    BY <1>2 DEF Obs!DeadAreMissed
  <2>2. process[p].pc = "gone"
    BY <1>1, <2>1 DEF OInv, LivesFit, Fresh
  <2>3. process[p].gone <= row.age
    BY <2>1, <2>2 DEF OInv, LivesFit, Silent
  <2>. QED
    BY <1>1, <2>1, <2>3
<1>4. Obs!StopIsItsOwn
  BY <1>2 DEF Obs!StopIsItsOwn, OInv, StopSaid
<1>5. Obs!LivingAreSeen
  <2>1. SUFFICES ASSUME NEW p \in Obs!Alive, ~overlap, ~process[p].stop, unharmed = Obs!Old
                 PROVE  row.instance = p /\ row.mode = "working" /\ row.age <= Stale
    BY <1>2 DEF Obs!LivingAreSeen
  <2>2. p \in Process /\ Living(process[p])
    BY DEF Obs!Alive, Obs!At, Living
  <2>3. AtWork(p, process[p]) /\ process[p].wait \in 0..HeartbeatInterval
    BY <1>1, <2>1, <2>2 DEF OInv, SeenSoon, Life
  <2>. QED
    BY <1>1, <2>1, <2>3 DEF AtWork
<1>6. Obs!GenerationsDiffer
  BY DEF Obs!GenerationsDiffer, OInv, LivesFit, Numbered, Apart
<1>. QED
  BY <1>3, <1>4, <1>5, <1>6 DEF Obs!ObservationKept

\* A process that is gone is not shown as working for longer than STALE_SECONDS, "stopped" is the
\* word of the process the row is of, which was told to stop, a process that has the role to itself
\* is shown at work whenever nothing failed for STALE_SECONDS, and no generation is given twice
\* (register, publish, _loop, process_state).
THEOREM ObservationHolds == ASSUME ObsSettings PROVE Obs!Spec => []ObservationKept
<1>1. Obs!Init => OInv
  BY InitIsSafe
<1>2. OInv /\ [Obs!Next]_(Obs!vars) => OInv'
  BY NextIsSafe
<1>3. OInv => Obs!ObservationKept
  BY Observed
<1>. QED
  BY <1>1, <1>2, <1>3, PTL DEF Obs!Spec, ObservationKept

------------------------------------------------------------------------------
(* Catalogue: games, their names and what is known of them.                  *)

\* Games and scores are numbers, and none of them stands for what is not there; a page holds
\* something.
CatSettings == /\ CatalogueGame \subseteq Nat \ {0} /\ IsFiniteSet(CatalogueGame)
               /\ CatalogueScore \subseteq Nat \ {0} /\ IsFiniteSet(Platform) /\ PageSize \in Nat \ {0}

-----------------------------------------------------------------------------
(* The inductive invariant: what a writer has read of its game and of its      *)
(* locator before it locked them may be old, but is consistent; and a locator  *)
(* that it found bound is bound to that game for good.                         *)

Value  == CatalogueScore \cup {Cat!Null}
Origin == CatalogueScore \cup {Cat!Null, Cat!Nothing}
Saved  == [genres : Value, from : Origin]
KnownGame  == [game : {"known"}, locator : Locator, genres : Value, from : Origin]
PlatformRow    == [game : {"known"}, related : Related, metascore : Value, metaFrom : Origin,
           userscore : Value, userFrom : Origin]
CatReading == [pc : {"read"}, game : CatalogueGame, locator : Locator, bound : CatalogueGame \cup {Cat!Null},
            saved : {Cat!Absent} \cup Saved]

CatTyped == /\ games \in [CatalogueGame -> {Cat!Absent} \cup KnownGame]
            /\ alias \in [Locator -> CatalogueGame \cup {Cat!Null}]
            /\ rows \in [CatalogueGame \X Platform -> {Cat!Absent} \cup PlatformRow]
            /\ wr \in [Writer -> {Cat!Idle} \cup CatReading]

Supplied(value, from) == value = IF from = Cat!Nothing THEN Cat!Null ELSE from

ReadIsConsistent(m) ==
    m.pc = "read" => /\ m.saved # Cat!Absent => Supplied(m.saved.genres, m.saved.from)
                     /\ m.bound # Cat!Null => alias[m.locator] = m.bound

CatInv == /\ CatTyped /\ Cat!ValuesHaveSources /\ Cat!IdentitiesAreKept
          /\ \A w \in Writer : ReadIsConsistent(wr[w])

LEMMA CatInit ==
    ASSUME Cat!Init
    PROVE  CatInv
<1>1. CatTyped
  BY DEF Cat!Init, CatTyped
<1>2. \A w \in Writer : wr[w].pc # "read"
  BY DEF Cat!Init, Cat!Idle
<1>3. (\A g \in CatalogueGame : games[g] = Cat!Absent) /\ (\A x \in DOMAIN rows : rows[x] = Cat!Absent)
  BY DEF Cat!Init
<1>. QED
  BY <1>1, <1>2, <1>3 DEF CatInv, Cat!ValuesHaveSources, Cat!IdentitiesAreKept, ReadIsConsistent

LEMMA CatBegin ==
    ASSUME CatSettings, CatInv, NEW w \in Writer, Cat!Begin(w)
    PROVE  CatInv' /\ Cat!NothingIsLost
<1>1. games' = games /\ alias' = alias /\ rows' = rows
  BY Zenon DEF Cat!Begin
<1>2. PICK g \in CatalogueGame, l \in Locator :
         wr' = [wr EXCEPT ![w] = [pc |-> "read", game |-> g, locator |-> l, bound |-> alias[l],
                   saved |-> IF games[g] = Cat!Absent THEN Cat!Absent ELSE
                             [genres |-> games[g].genres, from |-> games[g].from]]]
  BY Zenon DEF Cat!Begin
<1>3. PICK s : s = IF games[g] = Cat!Absent THEN Cat!Absent ELSE
                   [genres |-> games[g].genres, from |-> games[g].from]
  OBVIOUS
<1>4. /\ s \in {Cat!Absent} \cup Saved
      /\ s # Cat!Absent => Supplied(s.genres, s.from)
  <2>1. CASE games[g] = Cat!Absent
    BY <1>3, <2>1
  <2>2. CASE games[g] # Cat!Absent
    <3>1. games[g] \in KnownGame
      BY <2>2 DEF CatInv, CatTyped
    <3>2. Supplied(games[g].genres, games[g].from)
      BY <2>2 DEF CatInv, Cat!ValuesHaveSources, Supplied
    <3>. QED
      BY <1>3, <2>2, <3>1, <3>2 DEF KnownGame, Saved
  <2>. QED
    BY <2>1, <2>2
<1>5. PICK m : m = [pc |-> "read", game |-> g, locator |-> l, bound |-> alias[l], saved |-> s]
  OBVIOUS
<1>6. m \in CatReading /\ m.pc = "read" /\ m.locator = l /\ m.bound = alias[l] /\ m.saved = s
  BY <1>4, <1>5 DEF CatReading, CatInv, CatTyped
<1>7. wr' = [wr EXCEPT ![w] = m]
  BY <1>2, <1>3, <1>5
<1>8. CatTyped'
  BY <1>1, <1>6, <1>7 DEF CatInv, CatTyped
<1>9. \A v \in Writer : wr'[v] = IF v = w THEN m ELSE wr[v]
  BY <1>7 DEF CatInv, CatTyped
<1>10. \A v \in Writer : ReadIsConsistent(wr[v])'
  BY <1>1, <1>4, <1>6, <1>9 DEF CatInv, ReadIsConsistent
<1>11. Cat!ValuesHaveSources' /\ Cat!IdentitiesAreKept'
  BY <1>1 DEF CatInv, Cat!ValuesHaveSources, Cat!IdentitiesAreKept
<1>12. Cat!NothingIsLost
  BY <1>1 DEF Cat!NothingIsLost
<1>. QED
  BY <1>8, <1>10, <1>11, <1>12 DEF CatInv

LEMMA CatRollBack ==
    ASSUME CatSettings, CatInv, NEW w \in Writer, Cat!RollBack(w)
    PROVE  CatInv' /\ Cat!NothingIsLost
<1>1. games' = games /\ alias' = alias /\ rows' = rows /\ wr' = [wr EXCEPT ![w] = Cat!Idle]
  BY Zenon DEF Cat!RollBack
<1>2. CatTyped'
  BY <1>1 DEF CatInv, CatTyped
<1>3. \A v \in Writer : wr'[v] = IF v = w THEN Cat!Idle ELSE wr[v]
  BY <1>1 DEF CatInv, CatTyped
<1>4. \A v \in Writer : ReadIsConsistent(wr[v])'
  BY <1>1, <1>3 DEF CatInv, ReadIsConsistent, Cat!Idle
<1>5. Cat!ValuesHaveSources' /\ Cat!IdentitiesAreKept'
  BY <1>1 DEF CatInv, Cat!ValuesHaveSources, Cat!IdentitiesAreKept
<1>6. Cat!NothingIsLost
  BY <1>1 DEF Cat!NothingIsLost
<1>. QED
  BY <1>2, <1>4, <1>5, <1>6 DEF CatInv

\* What is known of a writer whose game and locator are still as it may save them.
Writing(w) == /\ wr[w].pc = "read"
              /\ ~Cat!IdentityConflict(w) /\ ~Cat!InsertFails(w)

\* The game is saved, with values that the recorded source has supplied; its locator was its own
\* or nobody's.
LEMMA CatSaves ==
    ASSUME CatSettings, CatInv, NEW w \in Writer, Writing(w),
           NEW genres \in Value, NEW source, genres # Cat!Null => source = genres,
           Cat!SaveGame(w, genres, source), wr' = [wr EXCEPT ![w] = Cat!Idle]
    PROVE  /\ games' \in [CatalogueGame -> {Cat!Absent} \cup KnownGame]
           /\ alias' \in [Locator -> CatalogueGame \cup {Cat!Null}]
           /\ wr' \in [Writer -> {Cat!Idle} \cup CatReading]
           /\ \A v \in Writer : ReadIsConsistent(wr[v])'
           /\ \A g \in CatalogueGame : games'[g] # Cat!Absent =>
                 Supplied(games'[g].genres, games'[g].from) /\ alias'[games'[g].locator] = g
           /\ \A l \in Locator : alias[l] # Cat!Null => alias'[l] = alias[l]
           /\ wr[w].game \in CatalogueGame /\ games'[wr[w].game] # Cat!Absent
           /\ \A g \in CatalogueGame : games[g] # Cat!Absent => games'[g] # Cat!Absent
<1>1. PICK m : m = wr[w]
  OBVIOUS
<1>2. m \in CatReading
  BY <1>1 DEF CatInv, CatTyped, Writing, Cat!Idle
<1>3. m.game \in CatalogueGame /\ m.locator \in Locator /\ m.game # Cat!Null
  BY <1>2 DEF CatReading, CatSettings, Cat!Null
<1>4. PICK r : r = Cat!Resolved(w, genres, source)
  OBVIOUS
<1>5. r \in KnownGame /\ Supplied(r.genres, r.from) /\ r.locator = m.locator /\ r # Cat!Absent
  <2>1. PICK old : /\ old = IF m.saved = Cat!Absent THEN [genres |-> Cat!Null, from |-> Cat!Nothing] ELSE m.saved
    OBVIOUS
  <2>2. old \in Saved /\ Supplied(old.genres, old.from)
    <3>1. CASE m.saved = Cat!Absent
      BY <2>1, <3>1 DEF Saved, Supplied, Value, Origin
    <3>2. CASE m.saved # Cat!Absent
      BY <1>1, <1>2, <2>1, <3>2 DEF CatReading, CatInv, ReadIsConsistent
    <3>. QED
      BY <3>1, <3>2
  <2>3. r = [game |-> "known", locator |-> m.locator, genres |-> Cat!Merge(old.genres, genres),
             from |-> IF genres # Cat!Null THEN source ELSE old.from]
    BY <1>1, <1>4, <2>1 DEF Cat!Resolved
  <2>4. old.genres \in Value /\ old.from \in Origin
    BY <2>2 DEF Saved
  <2>5. r \in KnownGame /\ r.locator = m.locator
    BY <1>3, <2>3, <2>4 DEF KnownGame, Cat!Merge, Value, Origin
  <2>6. Supplied(r.genres, r.from)
    BY <2>2, <2>3, <2>4 DEF Supplied, Cat!Merge, CatSettings, Value, Cat!Null, Cat!Nothing
  <2>7. r # Cat!Absent
    BY <2>3 DEF Cat!Absent
  <2>. QED
    BY <2>5, <2>6, <2>7
<1>6. /\ games' = [games EXCEPT ![m.game] = r]
      /\ alias' = [alias EXCEPT ![m.locator] = m.game]
  BY <1>1, <1>4 DEF Cat!SaveGame
<1>7. \A g \in CatalogueGame : games'[g] = IF g = m.game THEN r ELSE games[g]
  BY <1>6 DEF CatInv, CatTyped
<1>8. \A l \in Locator : alias'[l] = IF l = m.locator THEN m.game ELSE alias[l]
  BY <1>6 DEF CatInv, CatTyped
<1>9. alias[m.locator] \in {Cat!Null, m.game}
  BY <1>1, <1>2 DEF CatInv, ReadIsConsistent, Writing, Cat!IdentityConflict, Cat!InsertFails
<1>10. \A l \in Locator : alias[l] # Cat!Null => alias'[l] = alias[l]
  BY <1>8, <1>9
<1>11. /\ games' \in [CatalogueGame -> {Cat!Absent} \cup KnownGame]
       /\ alias' \in [Locator -> CatalogueGame \cup {Cat!Null}]
       /\ wr' \in [Writer -> {Cat!Idle} \cup CatReading]
  BY <1>3, <1>5, <1>6 DEF CatInv, CatTyped
<1>12. \A v \in Writer : ReadIsConsistent(wr[v])'
  <2>1. \A v \in Writer : wr'[v] = IF v = w THEN Cat!Idle ELSE wr[v]
    BY DEF CatInv, CatTyped
  <2>2. ASSUME NEW v \in Writer PROVE ReadIsConsistent(wr[v])'
    <3>1. CASE v = w
      BY <2>1, <3>1 DEF ReadIsConsistent, Cat!Idle
    <3>2. CASE v # w
      <4>1. SUFFICES ASSUME wr[v].pc = "read", wr[v].bound # Cat!Null
                     PROVE  alias'[wr[v].locator] = wr[v].bound
        BY <2>1, <3>2 DEF CatInv, ReadIsConsistent
      <4>2. wr[v] \in CatReading
        BY <4>1 DEF CatInv, CatTyped, Cat!Idle
      <4>3. alias[wr[v].locator] = wr[v].bound /\ wr[v].locator \in Locator
        BY <4>1, <4>2 DEF CatInv, ReadIsConsistent, CatReading
      <4>. QED
        BY <1>10, <4>1, <4>3
    <3>. QED
      BY <3>1, <3>2
  <2>. QED
    BY <2>2
<1>13. ASSUME NEW g \in CatalogueGame, games'[g] # Cat!Absent
       PROVE  Supplied(games'[g].genres, games'[g].from) /\ alias'[games'[g].locator] = g
  <2>1. CASE g = m.game
    BY <1>3, <1>5, <1>7, <1>8, <2>1
  <2>2. CASE g # m.game
    <3>1. games'[g] = games[g] /\ games[g] \in KnownGame /\ games[g].locator \in Locator
      BY <1>7, <1>13, <2>2 DEF CatInv, CatTyped, KnownGame
    <3>2. alias[games[g].locator] = g /\ Supplied(games[g].genres, games[g].from)
      BY <1>13, <3>1 DEF CatInv, Cat!IdentitiesAreKept, Cat!ValuesHaveSources, Supplied
    <3>3. g # Cat!Null
      BY DEF CatSettings, Cat!Null
    <3>. QED
      BY <1>10, <3>1, <3>2, <3>3
  <2>. QED
    BY <2>1, <2>2
<1>14. \A g \in CatalogueGame : games[g] # Cat!Absent => games'[g] # Cat!Absent
  BY <1>5, <1>7
<1>15. games'[m.game] # Cat!Absent
  BY <1>3, <1>5, <1>7
<1>. QED
  BY <1>1, <1>3, <1>10, <1>11, <1>12, <1>13, <1>14, <1>15

LEMMA CatDiscover ==
    ASSUME CatSettings, CatInv, NEW w \in Writer, Cat!Discover(w)
    PROVE  CatInv' /\ Cat!NothingIsLost
<1>1. CASE Cat!RollBack(w)
  BY <1>1, CatRollBack
<1>2. CASE /\ Writing(w) /\ Cat!SaveGame(w, Cat!Null, Cat!Nothing)
           /\ wr' = [wr EXCEPT ![w] = Cat!Idle] /\ rows' = rows
  <2>. DEFINE N == Cat!Nothing
  <2>1. Cat!Null \in Value
    BY DEF Value
  <2>2. /\ games' \in [CatalogueGame -> {Cat!Absent} \cup KnownGame]
        /\ alias' \in [Locator -> CatalogueGame \cup {Cat!Null}]
        /\ wr' \in [Writer -> {Cat!Idle} \cup CatReading]
        /\ \A v \in Writer : ReadIsConsistent(wr[v])'
        /\ \A g \in CatalogueGame : games'[g] # Cat!Absent =>
                 Supplied(games'[g].genres, games'[g].from) /\ alias'[games'[g].locator] = g
        /\ \A l \in Locator : alias[l] # Cat!Null => alias'[l] = alias[l]
        /\ \A g \in CatalogueGame : games[g] # Cat!Absent => games'[g] # Cat!Absent
    <3>. HIDE DEF N
    <3>. QED
      BY <1>2, <2>1, CatSaves DEF N
  <2>3. CatTyped'
    BY <1>2, <2>2 DEF CatInv, CatTyped
  <2>4. Cat!ValuesHaveSources'
    BY <1>2, <2>2 DEF CatInv, Cat!ValuesHaveSources, Supplied
  <2>5. Cat!IdentitiesAreKept'
    <3>1. \A x \in DOMAIN rows : x[1] \in CatalogueGame
      BY DEF CatInv, CatTyped
    <3>. QED
      BY <1>2, <2>2, <3>1 DEF CatInv, Cat!IdentitiesAreKept
  <2>6. Cat!NothingIsLost
    BY <1>2, <2>2 DEF Cat!NothingIsLost
  <2>. QED
    BY <2>2, <2>3, <2>4, <2>5, <2>6 DEF CatInv
<1>. QED
  BY <1>1, <1>2, Zenon DEF Cat!Discover, Writing

\* A platform as it is upserted: its scores come from their sources, and none is lost.
LEMMA CatUpserted ==
    ASSUME CatSettings, CatInv, NEW x \in CatalogueGame \X Platform,
           NEW entry \in Cat!Entry, NEW user \in Cat!Userscore
    PROVE  LET r == Cat!Upserted(x[1], x[2], entry, user) IN
           /\ r \in PlatformRow /\ r # Cat!Absent /\ r.related = entry.related
           /\ Supplied(r.metascore, r.metaFrom) /\ Supplied(r.userscore, r.userFrom)
           /\ rows[x] # Cat!Absent =>
                 /\ rows[x].metascore # Cat!Null => r.metascore # Cat!Null
                 /\ rows[x].userscore # Cat!Null => r.userscore # Cat!Null
<1>1. x[1] \in CatalogueGame /\ x[2] \in Platform /\ rows[<<x[1], x[2]>>] = rows[x]
  OBVIOUS
<1>2. PICK old : old = IF rows[x] # Cat!Absent THEN rows[x]
                  ELSE [metascore |-> Cat!Null, metaFrom |-> Cat!Nothing,
                        userscore |-> Cat!Null, userFrom |-> Cat!Nothing]
  OBVIOUS
<1>3. /\ old.metascore \in Value /\ old.metaFrom \in Origin
      /\ old.userscore \in Value /\ old.userFrom \in Origin
      /\ Supplied(old.metascore, old.metaFrom) /\ Supplied(old.userscore, old.userFrom)
  <2>1. CASE rows[x] # Cat!Absent
    <3>1. rows[x] \in PlatformRow
      BY <2>1 DEF CatInv, CatTyped
    <3>2. x \in DOMAIN rows
      BY DEF CatInv, CatTyped
    <3>3. Supplied(rows[x].metascore, rows[x].metaFrom) /\ Supplied(rows[x].userscore, rows[x].userFrom)
      BY <2>1, <3>2 DEF CatInv, Cat!ValuesHaveSources, Supplied
    <3>. QED
      BY <1>2, <2>1, <3>1, <3>3 DEF PlatformRow
  <2>2. CASE rows[x] = Cat!Absent
    BY <1>2, <2>2 DEF Value, Origin, Supplied
  <2>. QED
    BY <2>1, <2>2
<1>4. /\ entry.related \in Related /\ entry.metascore \in Value /\ user.told \in BOOLEAN
      /\ user.value \in Value /\ (user.value # Cat!Null => user.told)
  BY DEF Cat!Entry, Cat!Userscore, Value
<1>5. PICK meta, value, from, source :
         /\ meta = Cat!Merge(old.metascore, entry.metascore)
         /\ value = Cat!Merge(old.userscore, user.value)
         /\ from = (IF entry.metascore # Cat!Null \/ meta = Cat!Null THEN entry.metascore ELSE old.metaFrom)
         /\ source = Cat!UserscoreFrom(old, value, user)
  OBVIOUS
<1>6. PICK r : r = Cat!Upserted(x[1], x[2], entry, user)
  OBVIOUS
<1>7. r = [game |-> "known", related |-> entry.related, metascore |-> meta, metaFrom |-> from,
           userscore |-> value, userFrom |-> source]
  BY <1>1, <1>2, <1>5, <1>6 DEF Cat!Upserted
<1>8. meta \in Value /\ from \in Origin /\ Supplied(meta, from)
      /\ (old.metascore # Cat!Null => meta # Cat!Null)
  BY <1>3, <1>4, <1>5 DEF Cat!Merge, Value, Origin, Supplied, CatSettings, Cat!Null, Cat!Nothing
<1>9. value \in Value /\ (old.userscore # Cat!Null => value # Cat!Null)
  BY <1>3, <1>4, <1>5 DEF Cat!Merge
<1>10. source \in Origin /\ Supplied(value, source)
  BY <1>3, <1>4, <1>5 DEF Cat!Merge, Cat!UserscoreFrom, Value, Origin, Supplied, CatSettings, Cat!Null, Cat!Nothing
<1>11. r \in PlatformRow /\ r.related = entry.related /\ r.metascore = meta /\ r.metaFrom = from
       /\ r.userscore = value /\ r.userFrom = source
  BY <1>4, <1>7, <1>8, <1>9, <1>10 DEF PlatformRow
<1>12. r # Cat!Absent
  BY <1>7 DEF Cat!Absent
<1>. QED
  BY <1>2, <1>6, <1>8, <1>9, <1>10, <1>11, <1>12

LEMMA CatApply ==
    ASSUME CatSettings, CatInv, NEW w \in Writer, Cat!Apply(w)
    PROVE  CatInv' /\ Cat!NothingIsLost
<1>. DEFINE g == wr[w].game
            Listed(listed, entries, users, genres, place) ==
               /\ \A p, q \in listed : p # q => entries[p].related # entries[q].related /\ place[p] # place[q]
               /\ IF \/ Cat!IdentityConflict(w) \/ Cat!InsertFails(w)
                     \/ \E p \in listed :
                           Cat!PlatformConflict(g, p, entries[p], {q \in listed : place[q] < place[p]})
                  THEN Cat!RollBack(w)
                  ELSE /\ Cat!SaveGame(w, genres, genres)
                       /\ rows' = [x \in DOMAIN rows |->
                                     IF x[1] = g /\ x[2] \in listed
                                     THEN Cat!Upserted(g, x[2], entries[x[2]], users[x[2]]) ELSE rows[x]]
                       /\ wr' = [wr EXCEPT ![w] = Cat!Idle]
<1>1. /\ wr[w].pc = "read"
      /\ \E listed \in (SUBSET Platform) \ {{}} :
            \E entries \in [listed -> Cat!Entry], users \in [listed -> Cat!Userscore],
               genres \in CatalogueScore \cup {Cat!Null},
               place \in [listed -> 1..Cat!Cardinality(listed)] : Listed(listed, entries, users, genres, place)
  BY Zenon DEF Cat!Apply
<1>2. PICK listed \in SUBSET Platform : \E entries \in [listed -> Cat!Entry],
              users \in [listed -> Cat!Userscore], genres \in CatalogueScore \cup {Cat!Null},
              place \in [listed -> 1..Cat!Cardinality(listed)] : Listed(listed, entries, users, genres, place)
  BY <1>1
<1>3. PICK entries \in [listed -> Cat!Entry], users \in [listed -> Cat!Userscore], genres \in CatalogueScore \cup {Cat!Null},
           place \in [listed -> 1..Cat!Cardinality(listed)] : Listed(listed, entries, users, genres, place)
  BY <1>2
<1>4. CASE Cat!RollBack(w)
  BY <1>4, CatRollBack
<1>5. CASE ~Cat!RollBack(w)
  <2>. DEFINE Before(p) == {q \in listed : place[q] < place[p]}
  <2>written.
        /\ ~Cat!IdentityConflict(w) /\ ~Cat!InsertFails(w)
        /\ ~ \E p \in listed : Cat!PlatformConflict(g, p, entries[p], Before(p))
        /\ Cat!SaveGame(w, genres, genres)
        /\ rows' = [x \in DOMAIN rows |-> IF x[1] = g /\ x[2] \in listed
                              THEN Cat!Upserted(g, x[2], entries[x[2]], users[x[2]]) ELSE rows[x]]
        /\ wr' = [wr EXCEPT ![w] = Cat!Idle]
    BY <1>3, <1>5, Zenon
  <2>unique. \A p \in listed : Before(p) \in SUBSET listed /\ ~Cat!PlatformConflict(g, p, entries[p], Before(p))
    BY <2>written, Zenon
  <2>distinct. \A p, q \in listed : p # q => entries[p].related # entries[q].related
    BY <1>3
  <2>1. /\ Writing(w) /\ Cat!SaveGame(w, genres, genres) /\ wr' = [wr EXCEPT ![w] = Cat!Idle]
        /\ \A p \in listed : \E earlier \in SUBSET listed : ~Cat!PlatformConflict(g, p, entries[p], earlier)
        /\ rows' = [x \in DOMAIN rows |-> IF x[1] = g /\ x[2] \in listed
                              THEN Cat!Upserted(g, x[2], entries[x[2]], users[x[2]]) ELSE rows[x]]
    <3>1. Writing(w)
      BY <1>1, <2>written DEF Writing
    <3>2. \A p \in listed : \E earlier \in SUBSET listed : ~Cat!PlatformConflict(g, p, entries[p], earlier)
      BY <2>unique, Zenon
    <3>. QED
      BY <2>written, <3>1, <3>2, Zenon
  <2>2. genres \in Value
    BY DEF Value
  <2>3. /\ games' \in [CatalogueGame -> {Cat!Absent} \cup KnownGame]
        /\ alias' \in [Locator -> CatalogueGame \cup {Cat!Null}]
        /\ wr' \in [Writer -> {Cat!Idle} \cup CatReading]
        /\ \A v \in Writer : ReadIsConsistent(wr[v])'
        /\ \A h \in CatalogueGame : games'[h] # Cat!Absent =>
                 Supplied(games'[h].genres, games'[h].from) /\ alias'[games'[h].locator] = h
        /\ \A l \in Locator : alias[l] # Cat!Null => alias'[l] = alias[l]
        /\ g \in CatalogueGame /\ games'[g] # Cat!Absent
        /\ \A h \in CatalogueGame : games[h] # Cat!Absent => games'[h] # Cat!Absent
    BY <1>1, <2>1, <2>2, CatSaves
  <2>4. DOMAIN rows = CatalogueGame \X Platform /\ DOMAIN rows' = CatalogueGame \X Platform
    BY <2>1 DEF CatInv, CatTyped
  \* A row is either upserted or as it was.
  <2>. DEFINE Touched(x) == x[1] = g /\ x[2] \in listed
  <2>5. ASSUME NEW x \in CatalogueGame \X Platform, ~Touched(x)
        PROVE  rows'[x] = rows[x]
    BY <2>1, <2>4, <2>5
  <2>6. ASSUME NEW x \in CatalogueGame \X Platform, Touched(x)
        PROVE  /\ rows'[x] \in PlatformRow /\ rows'[x] # Cat!Absent /\ rows'[x].related = entries[x[2]].related
               /\ Supplied(rows'[x].metascore, rows'[x].metaFrom) /\ Supplied(rows'[x].userscore, rows'[x].userFrom)
               /\ rows[x] # Cat!Absent =>
                     /\ rows[x].metascore # Cat!Null => rows'[x].metascore # Cat!Null
                     /\ rows[x].userscore # Cat!Null => rows'[x].userscore # Cat!Null
    <3>1. rows'[x] = Cat!Upserted(x[1], x[2], entries[x[2]], users[x[2]])
      BY <2>1, <2>4, <2>6
    <3>2. entries[x[2]] \in Cat!Entry /\ users[x[2]] \in Cat!Userscore
      BY <2>6
    <3>. QED
      BY <3>1, <3>2, CatUpserted
  <2>7. rows' \in [CatalogueGame \X Platform -> {Cat!Absent} \cup PlatformRow]
    <3>1. \A x \in CatalogueGame \X Platform : rows[x] \in {Cat!Absent} \cup PlatformRow
      BY DEF CatInv, CatTyped
    <3>2. \A x \in CatalogueGame \X Platform : rows'[x] \in {Cat!Absent} \cup PlatformRow
      BY <2>5, <2>6, <3>1
    <3>3. rows' = [x \in CatalogueGame \X Platform |-> rows'[x]]
      BY <2>1, <2>4
    <3>. QED
      BY <3>2, <3>3
  <2>8. Cat!ValuesHaveSources'
    <3>1. ASSUME NEW x \in CatalogueGame \X Platform, rows'[x] # Cat!Absent
          PROVE  Supplied(rows'[x].metascore, rows'[x].metaFrom) /\ Supplied(rows'[x].userscore, rows'[x].userFrom)
      <4>1. CASE Touched(x)
        BY <2>6, <4>1
      <4>2. CASE ~Touched(x)
        BY <2>4, <2>5, <3>1, <4>2 DEF CatInv, Cat!ValuesHaveSources, Supplied
      <4>. QED
        BY <4>1, <4>2
    <3>. QED
      BY <2>3, <2>4, <3>1 DEF Cat!ValuesHaveSources, Supplied
  <2>9. Cat!IdentitiesAreKept'
    <3>1. ASSUME NEW x \in CatalogueGame \X Platform, rows'[x] # Cat!Absent
          PROVE  games'[x[1]] # Cat!Absent
      BY <2>3, <2>4, <2>5, <3>1 DEF CatInv, Cat!IdentitiesAreKept
    <3>2. ASSUME NEW x \in CatalogueGame \X Platform, NEW y \in CatalogueGame \X Platform, Touched(x), ~Touched(y),
                 rows[y] # Cat!Absent
          PROVE  rows[y].related # entries[x[2]].related
      <4>1. <<y[1], y[2]>> # <<g, x[2]>> /\ rows[<<y[1], y[2]>>] = rows[y] /\ y[1] \in CatalogueGame /\ y[2] \in Platform
        BY <3>2
      <4>2. PICK earlier \in SUBSET listed : ~Cat!PlatformConflict(g, x[2], entries[x[2]], earlier)
        BY <2>1, <3>2
      <4>3. y \in DOMAIN rows \ ({<<g, x[2]>>} \cup ({g} \X earlier))
        BY <2>4, <3>2, <4>1
      <4>. QED
        BY <3>2, <4>2, <4>3 DEF Cat!PlatformConflict
    <3>3. ASSUME NEW x \in CatalogueGame \X Platform, NEW y \in CatalogueGame \X Platform, x # y,
                 rows'[x] # Cat!Absent, rows'[y] # Cat!Absent
          PROVE  rows'[y].related # rows'[x].related
      <4>1. CASE Touched(x) /\ Touched(y)
        <5>1. x[2] # y[2]
          BY <3>3, <4>1
        <5>. QED
          BY <2>6, <2>distinct, <4>1, <5>1
      <4>2. CASE Touched(x) /\ ~Touched(y)
        BY <2>5, <2>6, <3>2, <3>3, <4>2
      <4>3. CASE ~Touched(x) /\ Touched(y)
        BY <2>5, <2>6, <3>2, <3>3, <4>3
      <4>4. CASE ~Touched(x) /\ ~Touched(y)
        BY <2>4, <2>5, <3>3, <4>4 DEF CatInv, Cat!IdentitiesAreKept
      <4>. QED
        BY <4>1, <4>2, <4>3, <4>4
    <3>. QED
      BY <2>3, <2>4, <3>1, <3>3 DEF Cat!IdentitiesAreKept
  <2>10. Cat!NothingIsLost
    BY <2>3, <2>4, <2>5, <2>6 DEF Cat!NothingIsLost
  <2>11. CatTyped'
    BY <2>3, <2>7 DEF CatTyped
  <2>. QED
    BY <2>3, <2>8, <2>9, <2>10, <2>11 DEF CatInv
<1>. QED
  BY <1>4, <1>5

LEMMA CatNext ==
    ASSUME CatSettings, CatInv, [Cat!Next]_(Cat!vars)
    PROVE  CatInv' /\ (Cat!NothingIsLost \/ UNCHANGED Cat!vars)
<1>1. CASE Cat!Next
  BY <1>1, CatBegin, CatDiscover, CatApply DEF Cat!Next
<1>2. CASE UNCHANGED Cat!vars
  <2>1. games' = games /\ alias' = alias /\ rows' = rows /\ wr' = wr
    BY <1>2 DEF Cat!vars
  <2>. QED
    BY <1>2, <2>1 DEF CatInv, CatTyped, Cat!ValuesHaveSources, Cat!IdentitiesAreKept, ReadIsConsistent
<1>. QED
  BY <1>1, <1>2

-----------------------------------------------------------------------------
(* The pages of a list.  An instance has operators of the libraries of its own. *)

LEMMA CatOperators ==
    ASSUME NEW S
    PROVE  Cat!Cardinality(S) = Cardinality(S) /\ Cat!Max(S) = Max(S) /\ Cat!Min(S) = Min(S)
BY Zenon DEF Cat!Cardinality, Cardinality, Cat!IsFiniteSet, IsFiniteSet, Cat!Max, Max, Cat!Min, Min

LEMMA CatScores ==
    ASSUME CatSettings, CatTyped, NEW g \in CatalogueGame, NEW p
    PROVE  Cat!Metascore(g, p) \in Nat
<1>. DEFINE Q == {q \in Platform : p \in {q, Cat!Nothing} /\ rows[<<g, q>>] # Cat!Absent}
            T == {rows[<<g, q>>].metascore : q \in Q}
            f == [q \in Q |-> rows[<<g, q>>].metascore]
<1>1. Cat!Metascore(g, p) = Max({Cat!Null} \cup T)
  BY CatOperators DEF Cat!Metascore
<1>2. T \subseteq Nat
  <2>1. \A q \in Q : rows[<<g, q>>] \in PlatformRow
    BY DEF CatTyped
  <2>2. \A q \in Q : rows[<<g, q>>].metascore \in Value
    BY <2>1 DEF PlatformRow
  <2>3. Value \subseteq Nat
    BY DEF Value, CatSettings, Cat!Null
  <2>. QED
    BY <2>2, <2>3
<1>3. IsFiniteSet(T)
  <2>1. IsFiniteSet(Q)
    BY FS_Subset DEF CatSettings
  <2>2. f \in Surjection(Q, T)
    BY DEF Surjection
  <2>. HIDE DEF Q, T, f
  <2>. QED
    BY <2>1, <2>2, FS_Surjection
<1>4. IsFiniteSet({Cat!Null} \cup T) /\ {Cat!Null} \cup T \subseteq Nat /\ {Cat!Null} \cup T # {}
  <2>. HIDE DEF T
  <2>1. IsFiniteSet(T \cup {Cat!Null})
    BY <1>3, FS_AddElement
  <2>2. T \cup {Cat!Null} = {Cat!Null} \cup T
    OBVIOUS
  <2>3. Cat!Null \in Nat
    BY DEF Cat!Null
  <2>. QED
    BY <1>2, <2>1, <2>2, <2>3
<1>5. PICK S : S = {Cat!Null} \cup T
  OBVIOUS
<1>6. Max(S) \in S /\ S \subseteq Nat
  BY <1>4, <1>5, MaxOfNat
<1>. QED
  BY <1>1, <1>5, <1>6

\* The order of a list, and the places in it.
ListOrder(p) == {x \in Cat!Known(p) \X Cat!Known(p) : Cat!Above(x[1], x[2], p)}
LEMMA CatOrder ==
    ASSUME CatSettings, CatTyped, NEW p
    PROVE  /\ Orders(ListOrder(p), Cat!Known(p)) /\ Cat!Known(p) \subseteq CatalogueGame
           /\ Cat!Listed(p) = Cardinality(Cat!Known(p))
           /\ \A g \in Cat!Known(p) : Cat!Place(g, p) = PlaceIn(ListOrder(p), Cat!Known(p), g)
<1>. PICK K, R : K = Cat!Known(p) /\ R = ListOrder(p)
  OBVIOUS
<1>. USE DEF ListOrder
<1>1. K \subseteq CatalogueGame /\ IsFiniteSet(K)
  BY FS_Subset DEF Cat!Known, CatSettings
<1>2. PICK score : score = [g \in CatalogueGame |-> Cat!Metascore(g, p)]
  OBVIOUS
<1>3. /\ \A g \in K : score[g] \in Nat /\ g \in Nat
      /\ \A g, h \in K : Cat!Above(g, h, p) <=> score[g] > score[h] \/ (score[g] = score[h] /\ g < h)
  BY <1>1, <1>2, CatScores DEF CatSettings, Cat!Above
<1>4. \A g, h \in K : <<g, h>> \in R <=> score[g] > score[h] \/ (score[g] = score[h] /\ g < h)
  BY <1>3
<1>5. \A g \in K : <<g, g>> \notin R
  BY <1>3, <1>4
<1>6. \A g, h \in K : g # h => <<g, h>> \in R \/ <<h, g>> \in R
  BY <1>3, <1>4
<1>7. \A g, h, k \in K : <<g, h>> \in R /\ <<h, k>> \in R => <<g, k>> \in R
  BY <1>3, <1>4
<1>8. Orders(R, K)
  BY Zenon, <1>1, <1>5, <1>6, <1>7 DEF Orders
<1>9. Cat!Listed(p) = Cardinality(K)
  BY CatOperators DEF Cat!Listed
<1>10. ASSUME NEW g \in K PROVE Cat!Place(g, p) = PlaceIn(R, K, g)
  <2>1. {h \in Cat!Known(p) : Cat!Above(h, g, p)} = {h \in K : <<h, g>> \in R}
    OBVIOUS
  <2>. QED
    BY <2>1, CatOperators DEF Cat!Place, PlaceIn
<1>. QED
  BY <1>1, <1>8, <1>9, <1>10

LEMMA Quotient ==
    ASSUME NEW a \in Nat, NEW b \in Nat \ {0}
    PROVE  a \div b \in Nat /\ (a \div b) * b <= a /\ a < (a \div b) * b + b
OBVIOUS

\* What comes before a page, and what is on it.
Gone(n) == (n - 1) * PageSize

LEMMA CatNumPages ==
    ASSUME CatSettings, NEW p, NEW c \in Nat \ {0}, Cat!Listed(p) = c
    PROVE  LET N == Cat!NumPages(p) IN
           /\ N \in Nat \ {0}
           /\ \A n \in 1..N : Gone(n) \in Nat /\ Gone(n) < c
           /\ \A t \in 1..c : \E n \in 1..N, i \in 1..PageSize : t = Gone(n) + i
           /\ \A m, n \in 1..N : m < n => Gone(m) + PageSize <= Gone(n)
<1>1. PICK S \in Nat \ {0} : S = PageSize
  BY DEF CatSettings
<1>2. PICK N : N = (c + S - 1) \div S
  OBVIOUS
<1>3. N \in Nat /\ N * S <= c + S - 1 /\ c + S - 1 < N * S + S
  <2>1. c + S - 1 \in Nat
    OBVIOUS
  <2>. QED
    BY <1>2, <2>1, Quotient
<1>4. N # 0
  BY <1>3
<1>5. Cat!NumPages(p) = N
  <2>1. PICK A : A = {1, N}
    OBVIOUS
  <2>2. A \subseteq Nat /\ A # {}
    BY <1>3, <2>1
  <2>5. IsFiniteSet({1})
    BY FS_Singleton
  <2>6. A = {1} \cup {N}
    BY <2>1
  <2>7. IsFiniteSet(A)
    BY <2>5, <2>6, FS_AddElement
  <2>3. Max(A) \in A /\ \A x \in A : x <= Max(A)
    BY <2>2, <2>7, MaxOfNat
  <2>4. Cat!NumPages(p) = Max(A)
    BY <1>1, <1>2, <2>1, CatOperators DEF Cat!NumPages
  <2>. QED
    BY <1>3, <1>4, <2>1, <2>3, <2>4
<1>6. ASSUME NEW n \in 1..N PROVE Gone(n) \in Nat /\ Gone(n) < c
  <2>1. PICK k \in Nat : k = n - 1 /\ k + 1 <= N
    BY <1>3
  <2>2. k * S \in Nat /\ (k + 1) * S <= N * S /\ (k + 1) * S = k * S + S
    BY <1>3, <2>1
  <2>. QED
    BY <1>1, <1>3, <2>1, <2>2 DEF Gone
<1>7. ASSUME NEW t \in 1..c PROVE \E n \in 1..N, i \in 1..S : t = Gone(n) + i
  <2>1. PICK q : q = (t - 1) \div S
    OBVIOUS
  <2>2. q \in Nat /\ q * S <= t - 1 /\ t - 1 < q * S + S
    <3>1. t - 1 \in Nat
      OBVIOUS
    <3>. QED
      BY <2>1, <3>1, Quotient
  <2>3. q < N
    <3>1. q * S \in Int /\ N * S \in Int /\ q * S < N * S
      BY <1>3, <2>2
    <3>2. CASE q >= N
      <4>1. N * S <= q * S
        BY <1>3, <2>2, <3>2
      <4>. QED
        BY <3>1, <4>1
    <3>. QED
      BY <1>3, <2>2, <3>2
  <2>4. Gone(q + 1) = q * S
    BY <1>1, <2>2 DEF Gone
  <2>5. PICK i : i = t - q * S
    OBVIOUS
  <2>6. i \in 1..S /\ t = Gone(q + 1) + i /\ q + 1 \in 1..N
    <3>1. q * S \in Int
      BY <2>2
    <3>. QED
      BY <1>3, <2>2, <2>3, <2>4, <2>5, <3>1
  <2>. QED
    BY <2>6
<1>8. ASSUME NEW m \in 1..N, NEW n \in 1..N, m < n PROVE Gone(m) + S <= Gone(n)
  <2>1. PICK j \in Nat, k \in Nat : j = m - 1 /\ k = n - 1 /\ j + 1 <= k
    BY <1>3, <1>8
  <2>2. j * S \in Int /\ k * S \in Int /\ (j + 1) * S <= k * S /\ (j + 1) * S = j * S + S
    BY <2>1
  <2>. QED
    BY <1>1, <2>1, <2>2 DEF Gone
<1>. QED
  BY <1>1, <1>3, <1>4, <1>5, <1>6, <1>7, <1>8

\* A page shows the places that follow those before it.
LEMMA CatPage ==
    ASSUME CatSettings, CatTyped, NEW p, NEW K, K = Cat!Known(p), K # {}, NEW R, Orders(R, K),
           NEW c \in Nat \ {0}, c = Cardinality(K), Cat!Listed(p) = c,
           \A g \in K : Cat!Place(g, p) = PlaceIn(R, K, g),
           NEW n \in 1..Cat!NumPages(p)
    PROVE  /\ DOMAIN Cat!Page(p, n) = {i \in 1..PageSize : Gone(n) + i <= c}
           /\ 1 \in DOMAIN Cat!Page(p, n)
           /\ \A i \in DOMAIN Cat!Page(p, n) : /\ Cat!Page(p, n)[i] \in K
                                               /\ PlaceIn(R, K, Cat!Page(p, n)[i]) = Gone(n) + i
<1>1. PICK S \in Nat \ {0} : S = PageSize
  BY DEF CatSettings
<1>2. PICK z \in Nat : z = Gone(n) /\ z < c
  BY CatNumPages
<1>3. PICK A : A = {S, c - z}
  OBVIOUS
<1>4. Min(A) \in A /\ \A x \in A : Min(A) <= x
  <2>1. A \subseteq Nat /\ A # {}
    BY <1>2, <1>3
  <2>. QED
    BY <2>1, MinOfNat
<1>5. PICK D : D = 1..Min(A)
  OBVIOUS
<1>6. D = {i \in 1..S : z + i <= c} /\ 1 \in D
  BY <1>2, <1>3, <1>4, <1>5
<1>7. Cat!Page(p, n) = [i \in D |-> CHOOSE g \in K : Cat!Place(g, p) = z + i]
  BY <1>1, <1>2, <1>3, <1>5, CatOperators DEF Cat!Page, Gone
<1>8. ASSUME NEW i \in D
      PROVE  /\ Cat!Page(p, n)[i] \in K
             /\ PlaceIn(R, K, Cat!Page(p, n)[i]) = z + i
  <2>1. z + i \in 1..Cardinality(K)
    BY <1>2, <1>6
  <2>2. \E g \in K : PlaceIn(R, K, g) = z + i
    BY <2>1, PlacesAreTaken
  <2>3. \E g \in K : Cat!Place(g, p) = z + i
    BY <2>2
  <2>4. PICK h : h = CHOOSE g \in K : Cat!Place(g, p) = z + i
    OBVIOUS
  <2>5. h \in K /\ Cat!Place(h, p) = z + i
    BY <2>3, <2>4
  <2>. QED
    BY <1>7, <2>4, <2>5
<1>. QED
  BY <1>1, <1>2, <1>6, <1>7, <1>8

LEMMA CatPages ==
    ASSUME CatSettings, CatTyped
    PROVE  Cat!PagesPartition
<1>1. SUFFICES ASSUME NEW p \in Platform \cup {Cat!Nothing}, Cat!Known(p) # {}
               PROVE  LET Turned == {x \in (1..Cat!NumPages(p)) \X (1..PageSize) : x[2] \in DOMAIN Cat!Page(p, x[1])}
                          Seen(x) == Cat!Page(p, x[1])[x[2]]
                      IN /\ {Seen(x) : x \in Turned} = Cat!Known(p)
                         /\ \A x, y \in Turned : x[1] < y[1] \/ (x[1] = y[1] /\ x[2] < y[2])
                                                    => Cat!Above(Seen(x), Seen(y), p)
                         /\ \A n \in 1..(Cat!NumPages(p) + 1) : Cat!Page(p, n) # <<>>
  BY Zenon DEF Cat!PagesPartition
<1>2. PICK K : K = Cat!Known(p)
  OBVIOUS
<1>3. PICK R : R = ListOrder(p)
  OBVIOUS
<1>4. /\ Orders(R, K) /\ K \subseteq CatalogueGame /\ Cat!Listed(p) = Cardinality(K)
      /\ \A g \in K : Cat!Place(g, p) = PlaceIn(R, K, g)
  BY <1>2, <1>3, CatOrder
<1>5. PICK c : c = Cardinality(K)
  OBVIOUS
<1>6. c \in Nat \ {0} /\ Cat!Listed(p) = c
  <2>1. IsFiniteSet(K)
    BY <1>4 DEF Orders
  <2>. QED
    BY <1>1, <1>2, <1>4, <1>5, <2>1, FS_CardinalityType, FS_EmptySet
<1>7. PICK N : N = Cat!NumPages(p)
  OBVIOUS
<1>8. /\ N \in Nat \ {0}
      /\ \A n \in 1..N : Gone(n) \in Nat /\ Gone(n) < c
      /\ \A t \in 1..c : \E n \in 1..N, i \in 1..PageSize : t = Gone(n) + i
      /\ \A m, n \in 1..N : m < n => Gone(m) + PageSize <= Gone(n)
  BY <1>6, <1>7, CatNumPages
<1>9. PICK show : show = [n \in 1..(N + 1) |-> Cat!Page(p, n)]
  OBVIOUS
<1>10. ASSUME NEW n \in 1..N
       PROVE  /\ DOMAIN show[n] = {i \in 1..PageSize : Gone(n) + i <= c} /\ 1 \in DOMAIN show[n]
              /\ \A i \in DOMAIN show[n] : show[n][i] \in K /\ PlaceIn(R, K, show[n][i]) = Gone(n) + i
  <2>1. n \in 1..Cat!NumPages(p) /\ show[n] = Cat!Page(p, n)
    BY <1>7, <1>8, <1>9
  <2>2. K # {}
    BY <1>1, <1>2
  <2>3. CatSettings /\ CatTyped /\ Orders(R, K) /\ \A g \in K : Cat!Place(g, p) = PlaceIn(R, K, g)
    BY <1>4
  <2>4. /\ DOMAIN Cat!Page(p, n) = {i \in 1..PageSize : Gone(n) + i <= c}
        /\ 1 \in DOMAIN Cat!Page(p, n)
        /\ \A i \in DOMAIN Cat!Page(p, n) : /\ Cat!Page(p, n)[i] \in K
                                            /\ PlaceIn(R, K, Cat!Page(p, n)[i]) = Gone(n) + i
    BY SMT, <1>2, <1>5, <1>6, <2>1, <2>2, <2>3, CatPage
  <2>. QED
    BY <2>1, <2>4
<1>11. show[N + 1] = show[N]
  <2>1. N \in 1..N /\ N + 1 \notin 1..N /\ N + 1 \in 1..(N + 1) /\ N \in 1..(N + 1)
    BY <1>8
  <2>2. ASSUME NEW n, n \in {N, N + 1}
        PROVE  (IF n \in 1..Cat!NumPages(p) THEN n ELSE Cat!NumPages(p)) = N
    BY <1>7, <2>1, <2>2
  <2>3. ASSUME NEW n, n \in {N, N + 1}
        PROVE  Cat!Page(p, n) = [i \in 1..Cat!Min({PageSize, Cat!Listed(p) - (N - 1) * PageSize}) |->
                                    CHOOSE g \in Cat!Known(p) : Cat!Place(g, p) = (N - 1) * PageSize + i]
    <3>1. PICK m : m = IF n \in 1..Cat!NumPages(p) THEN n ELSE Cat!NumPages(p)
      OBVIOUS
    <3>2. Cat!Page(p, n) = [i \in 1..Cat!Min({PageSize, Cat!Listed(p) - (m - 1) * PageSize}) |->
                               CHOOSE g \in Cat!Known(p) : Cat!Place(g, p) = (m - 1) * PageSize + i]
      BY SMT, <3>1 DEF Cat!Page
    <3>3. m = N
      BY <2>2, <2>3, <3>1
    <3>. QED
      BY <3>2, <3>3
  <2>4. Cat!Page(p, N + 1) = Cat!Page(p, N)
    BY <2>3
  <2>. QED
    BY <1>9, <2>1, <2>4
<1>12. PICK T : T = {x \in (1..N) \X (1..PageSize) : x[2] \in DOMAIN show[x[1]]}
  OBVIOUS
<1>13. T = {x \in (1..Cat!NumPages(p)) \X (1..PageSize) : x[2] \in DOMAIN Cat!Page(p, x[1])}
  BY <1>7, <1>8, <1>9, <1>12
<1>14. /\ \A x \in K : PlaceIn(R, K, x) \in 1..c
       /\ \A x, y \in K : <<x, y>> \in R <=> PlaceIn(R, K, x) < PlaceIn(R, K, y)
  BY <1>4, <1>5, PlacesFollow
<1>15. \A x, y \in K : PlaceIn(R, K, x) = PlaceIn(R, K, y) => x = y
  <2>1. \A x, y \in K : x # y => <<x, y>> \in R \/ <<y, x>> \in R
    BY <1>4 DEF Orders
  <2>2. SUFFICES ASSUME NEW x \in K, NEW y \in K, PlaceIn(R, K, x) = PlaceIn(R, K, y), x # y PROVE FALSE
    OBVIOUS
  <2>3. PICK a \in Int : a = PlaceIn(R, K, x) /\ a = PlaceIn(R, K, y)
    BY <1>14, <2>2
  <2>4. ~(a < a)
    BY <2>3
  <2>. QED
    BY <1>14, <2>1, <2>2, <2>3, <2>4
<1>16. \A x \in T : /\ x[1] \in 1..N /\ x[2] \in 1..PageSize /\ x[2] \in DOMAIN show[x[1]]
                    /\ show[x[1]][x[2]] \in K
                    /\ PlaceIn(R, K, show[x[1]][x[2]]) = Gone(x[1]) + x[2]
  BY <1>10, <1>12
<1>17. \A g \in K : \E x \in T : show[x[1]][x[2]] = g
  <2>1. SUFFICES ASSUME NEW g \in K PROVE \E x \in T : show[x[1]][x[2]] = g
    OBVIOUS
  <2>2. PICK t \in 1..c : t = PlaceIn(R, K, g)
    BY <1>14, <2>1
  <2>3. PICK n \in 1..N, i \in 1..PageSize : t = Gone(n) + i
    BY <1>8
  <2>4. i \in DOMAIN show[n]
    BY <1>6, <1>10, <2>3
  <2>5. <<n, i>> \in T
    BY <1>12, <2>4
  <2>6. show[n][i] \in K /\ PlaceIn(R, K, show[n][i]) = t
    BY <1>10, <2>3, <2>4
  <2>7. show[n][i] = g
    BY <1>15, <2>1, <2>2, <2>6
  <2>. QED
    BY <2>5, <2>7
<1>18. ASSUME NEW x \in T, NEW y \in T, x[1] < y[1] \/ (x[1] = y[1] /\ x[2] < y[2])
       PROVE  Cat!Above(show[x[1]][x[2]], show[y[1]][y[2]], p)
  <2>1. PICK u \in K, v \in K : u = show[x[1]][x[2]] /\ v = show[y[1]][y[2]]
    BY <1>16
  <2>2. PICK S \in Nat : S = PageSize
    BY DEF CatSettings
  <2>3. /\ PlaceIn(R, K, u) = Gone(x[1]) + x[2] /\ PlaceIn(R, K, v) = Gone(y[1]) + y[2]
        /\ x[1] \in 1..N /\ y[1] \in 1..N /\ x[2] \in 1..S /\ y[2] \in 1..S
    BY <1>16, <2>1, <2>2
  <2>4. PICK a \in Nat, b \in Nat : a = Gone(x[1]) /\ b = Gone(y[1]) /\ (x[1] < y[1] => a + S <= b)
    BY <1>8, <2>2, <2>3
  <2>5. a + x[2] < b + y[2]
    BY <1>18, <2>3, <2>4
  <2>6. <<u, v>> \in R
    BY <1>14, <2>1, <2>3, <2>4, <2>5
  <2>. QED
    BY <1>3, <2>1, <2>6 DEF ListOrder
<1>19. \A n \in 1..(N + 1) : show[n] # <<>>
  <2>1. \A n \in 1..N : show[n] # <<>>
    BY <1>10
  <2>. QED
    BY <1>8, <1>11, <2>1
<1>20. \A x \in T : show[x[1]][x[2]] = Cat!Page(p, x[1])[x[2]]
  BY <1>8, <1>9, <1>16
<1>21. {Cat!Page(p, x[1])[x[2]] : x \in T} = K
  BY <1>16, <1>17, <1>20
<1>22. \A x, y \in T : x[1] < y[1] \/ (x[1] = y[1] /\ x[2] < y[2])
                          => Cat!Above(Cat!Page(p, x[1])[x[2]], Cat!Page(p, y[1])[y[2]], p)
  BY <1>18, <1>20
<1>23. \A n \in 1..(Cat!NumPages(p) + 1) : Cat!Page(p, n) # <<>>
  BY <1>7, <1>9, <1>19
<1>. QED
  BY Zenon, <1>2, <1>13, <1>21, <1>22, <1>23

\* However the transactions of several writers cross, a value in the catalogue was supplied by the
\* fetch recorded as its source, a locator and an assertion of the source belong to one game, and no
\* known score and no locator is ever lost (catalog/ingest.py); and whoever turns the pages of a
\* list sees each game of it once, in its order (paginate_games of catalog/queries.py).
THEOREM CatalogueHolds ==
    ASSUME CatSettings
    PROVE  Cat!Spec => CatalogueKept
<1>1. Cat!Init => CatInv
  BY CatInit
<1>2. CatInv /\ [Cat!Next]_(Cat!vars) => CatInv' /\ [Cat!NothingIsLost]_(Cat!vars)
  BY CatNext
<1>3. CatInv => Cat!ValuesHaveSources /\ Cat!IdentitiesAreKept /\ Cat!PagesPartition
  BY CatPages DEF CatInv
<1>. QED
  BY <1>1, <1>2, <1>3, PTL DEF Cat!Spec, CatalogueKept

------------------------------------------------------------------------------
(* SimilarIndex: the upkeep of the index.                                    *)

\* A game says something, no game has the number of NoSave, and a failure is forgotten in time.
IndSettings == /\ GameText \subseteq [{"label", "description"} -> Nat] /\ Ind!Absent \notin GameText
               /\ 0 \notin IndexedGame
               /\ CheckInterval \in Nat /\ FailurePause \in Nat /\ FullCheck \in Nat \ {0}
               /\ FailurePause < FullCheck + CheckInterval

-----------------------------------------------------------------------------
(* The inductive invariant.                                                    *)

Saying == GameText \cup {Ind!Absent}
Texts  == [IndexedGame -> Saying]

\* The rows are those of the last rebuild, of a catalogue that knew no game that is gone.
RowsOf(R) == /\ R \in Texts
             /\ neighbors = [g \in IndexedGame |-> IF R[g] = Ind!Absent THEN [inputs |-> Ind!Absent, seen |-> <<>>]
                                            ELSE [inputs |-> R[g], seen |-> R]]
KnownIn(R, S) == \A g \in IndexedGame : R[g] # Ind!Absent => S[g] # Ind!Absent

CaughtUp == \A g \in IndexedGame : Ind!Says[g] # Ind!Absent =>
                               neighbors[g] = [inputs |-> Ind!Says[g], seen |-> Ind!Says]

IsMaintainer(m) ==
    /\ m = [pc |-> m.pc, next |-> m.next, settled |-> m.settled, age |-> m.age,
            signature |-> m.signature, read |-> m.read, embedded |-> m.embedded]
    /\ m.pc \in {"idle", "signed", "read", "embedded"}
    /\ m.next \in Nat /\ m.next < Ind!Settles /\ m.age \in 0..FullCheck
IndReading(m) == m.pc \in {"read", "embedded"}

IndTyped == /\ catalogue \in [IndexedGame -> [says : Saying, at : Nat]]
            /\ open = Ind!NoSave \/ open \in [game : IndexedGame, says : GameText, at : Nat]
            /\ saves \in Nat /\ untouched \in 0..Ind!Settles /\ IsMaintainer(mt)

\* What was read is what is there, or a commit was just now.
ReadIsRecent(m) == IndReading(m) => /\ m.read \in Texts /\ KnownIn(m.read, Ind!Says)
                                    /\ m.read = Ind!Says \/ untouched = 0
\* As long as it has not caught up there is time left for a check in full.
InTime(m) == CaughtUp \/ (/\ untouched + m.next < Ind!Settles
                          /\ m.settled = <<>> \/ m.age = FullCheck \/ untouched <= m.age)

IndInv == /\ IndTyped /\ ReadIsRecent(mt) /\ InTime(mt)
          /\ \E R : RowsOf(R) /\ KnownIn(R, Ind!Says) /\ (IndReading(mt) => KnownIn(R, mt.read))

-----------------------------------------------------------------------------
(* The catalogue.                                                              *)

LEMMA IndNumbers ==
    ASSUME IndSettings
    PROVE  /\ Ind!Settles \in Nat /\ Ind!Settles = FullCheck + CheckInterval /\ FullCheck \in Nat /\ FullCheck > 0
           /\ CheckInterval \in Nat /\ CheckInterval < Ind!Settles /\ FailurePause \in Nat /\ FailurePause < Ind!Settles
           /\ 0 < Ind!Settles
BY DEF IndSettings, Ind!Settles

LEMMA SaysType ==
    ASSUME IndTyped
    PROVE  Ind!Says \in Texts /\ \A g \in IndexedGame : Ind!Says[g] = catalogue[g].says
BY DEF IndTyped, Ind!Says, Texts

\* A commit begins the wait anew.
LEMMA IndCommit ==
    ASSUME IndSettings, IndInv, NEW g \in IndexedGame, NEW says \in GameText, NEW at \in Nat,
           catalogue' = [catalogue EXCEPT ![g] = [says |-> says, at |-> at]], untouched' = 0,
           open' = Ind!NoSave \/ open' \in [game : IndexedGame, says : GameText, at : Nat],
           saves' \in Nat, neighbors' = neighbors, mt' = mt
    PROVE  IndInv'
<1>1. IndTyped'
  BY IndNumbers DEF IndInv, IndTyped, Saying
<1>2. PICK m : m = mt
  OBVIOUS
<1>3. IsMaintainer(m) /\ ReadIsRecent(m)
  BY <1>2 DEF IndInv, IndTyped
<1>4. PICK old, new : old = Ind!Says /\ new = Ind!Says'
  OBVIOUS
<1>5. old \in Texts /\ new \in Texts /\ KnownIn(old, new)
  <2>1. new = [h \in IndexedGame |-> catalogue'[h].says]
    BY <1>4 DEF Ind!Says
  <2>2. \A h \in IndexedGame : new[h] = IF h = g THEN says ELSE old[h]
    BY <1>4, <2>1, SaysType DEF IndInv, IndTyped
  <2>3. old \in Texts /\ new \in Texts
    BY <1>4, <2>1, <2>2, SaysType DEF IndInv, Texts, Saying
  <2>. QED
    BY <2>2, <2>3 DEF KnownIn, IndSettings
<1>6. ReadIsRecent(m)'
  <2>1. SUFFICES ASSUME IndReading(m)
                 PROVE  m.read \in Texts /\ KnownIn(m.read, new)
    BY <1>4 DEF ReadIsRecent
  <2>. QED
    BY <1>3, <1>4, <1>5, <2>1 DEF ReadIsRecent, KnownIn
<1>7. InTime(m)'
  <2>1. 0 + m.next < Ind!Settles /\ (m.settled = <<>> \/ m.age = FullCheck \/ 0 <= m.age)
    BY <1>3 DEF IsMaintainer
  <2>. QED
    BY <2>1 DEF InTime, Ind!Settles
<1>8. PICK R : RowsOf(R) /\ KnownIn(R, old) /\ (IndReading(m) => KnownIn(R, m.read))
  BY <1>2, <1>4 DEF IndInv
<1>9. RowsOf(R)' /\ KnownIn(R, new)
  BY <1>5, <1>8 DEF RowsOf, KnownIn
<1>. QED
  BY <1>1, <1>2, <1>4, <1>6, <1>7, <1>8, <1>9 DEF IndInv

\* A step that leaves the catalogue and the rows alone.
SameCatalogue == catalogue' = catalogue /\ open' = open /\ saves' = saves

LEMMA IndMoves ==
    ASSUME IndSettings, IndInv, SameCatalogue, neighbors' = neighbors, untouched' \in 0..Ind!Settles,
           NEW m, mt' = m, IsMaintainer(m), m.pc \in {"read", "embedded"} =>
                 mt.pc \in {"read", "embedded"} /\ m.read = mt.read /\ untouched' = untouched,
           ~CaughtUp => untouched' + m.next < Ind!Settles /\ (m.settled = <<>> \/ m.age = FullCheck \/ untouched' <= m.age)
    PROVE  IndInv'
<1>1. IndTyped'
  BY DEF IndInv, IndTyped, SameCatalogue
<1>2. Ind!Says' = Ind!Says /\ (CaughtUp <=> CaughtUp')
  BY DEF SameCatalogue, Ind!Says, CaughtUp
<1>3. ReadIsRecent(m)'
  BY <1>2 DEF IndInv, ReadIsRecent, IndReading
<1>4. InTime(m)'
  BY <1>2 DEF InTime, Ind!Settles
<1>5. PICK R : RowsOf(R) /\ KnownIn(R, Ind!Says) /\ (IndReading(mt) => KnownIn(R, mt.read))
  BY DEF IndInv
<1>6. RowsOf(R)' /\ KnownIn(R, Ind!Says') /\ (IndReading(m) => KnownIn(R, m.read))
  BY <1>2, <1>5 DEF RowsOf, IndReading
<1>. QED
  BY <1>1, <1>3, <1>4, <1>6 DEF IndInv

LEMMA IndSaves ==
    ASSUME IndSettings, IndInv, Ind!SaveGame \/ Ind!OpenSave \/ Ind!CommitSave
    PROVE  IndInv'
<1>1. CASE Ind!SaveGame
  <2>1. PICK g \in IndexedGame, says \in GameText : Ind!Committed(Ind!NewSave(g, says))
    BY <1>1 DEF Ind!SaveGame
  <2>2. /\ saves' \in Nat /\ open' = open /\ neighbors' = neighbors /\ mt' = mt /\ saves + 1 \in Nat
    BY <1>1 DEF Ind!SaveGame, IndInv, IndTyped
  <2>3. catalogue' = [catalogue EXCEPT ![g] = [says |-> says, at |-> saves + 1]] /\ untouched' = 0
    BY <2>1 DEF Ind!Committed, Ind!NewSave
  <2>. QED
    BY <2>2, <2>3, IndCommit DEF IndInv, IndTyped
<1>2. CASE Ind!OpenSave
  <2>1. PICK g \in IndexedGame, says \in GameText : open' = Ind!NewSave(g, says)
    BY <1>2 DEF Ind!OpenSave
  <2>2. /\ catalogue' = catalogue /\ neighbors' = neighbors /\ mt' = mt /\ untouched' = untouched /\ saves' = saves + 1
    BY <1>2 DEF Ind!OpenSave
  <2>3. IndTyped'
    BY <2>1, <2>2 DEF IndInv, IndTyped, Ind!NewSave
  <2>4. Ind!Says' = Ind!Says /\ (CaughtUp <=> CaughtUp')
    BY <2>2 DEF Ind!Says, CaughtUp
  <2>5. PICK m : m = mt
    OBVIOUS
  <2>6. ReadIsRecent(m)' /\ InTime(m)'
    BY <2>2, <2>4, <2>5 DEF IndInv, ReadIsRecent, InTime, Ind!Settles
  <2>7. PICK R : RowsOf(R) /\ KnownIn(R, Ind!Says) /\ (IndReading(m) => KnownIn(R, m.read))
    BY <2>5 DEF IndInv
  <2>8. RowsOf(R)' /\ KnownIn(R, Ind!Says')
    BY <2>2, <2>4, <2>7 DEF RowsOf
  <2>. QED
    BY <2>2, <2>3, <2>5, <2>6, <2>7, <2>8 DEF IndInv
<1>3. CASE Ind!CommitSave
  <2>1. PICK s : s = open
    OBVIOUS
  <2>2. s \in [game : IndexedGame, says : GameText, at : Nat]
    BY <1>3, <2>1 DEF Ind!CommitSave, IndInv, IndTyped
  <2>3. /\ saves' \in Nat /\ open' = Ind!NoSave /\ neighbors' = neighbors /\ mt' = mt
        /\ catalogue' = [catalogue EXCEPT ![s.game] = [says |-> s.says, at |-> s.at]] /\ untouched' = 0
    BY <1>3, <2>1 DEF Ind!CommitSave, Ind!Committed, IndInv, IndTyped
  <2>4. open' = Ind!NoSave \/ open' \in [game : IndexedGame, says : GameText, at : Nat]
    BY <2>3 DEF Ind!NoSave
  <2>. QED
    BY <2>2, <2>3, <2>4, IndCommit
<1>. QED
  BY <1>1, <1>2, <1>3

-----------------------------------------------------------------------------
(* The maintainer.                                                             *)

LEMMA IndNow ==
    ASSUME IndSettings, IndInv, NEW m, m = mt
    PROVE  /\ IsMaintainer(m) /\ m.next \in Nat /\ m.next < Ind!Settles /\ m.age \in 0..FullCheck
           /\ untouched \in 0..Ind!Settles
           /\ ~CaughtUp => untouched + m.next < Ind!Settles /\ (m.settled = <<>> \/ m.age = FullCheck \/ untouched <= m.age)
BY DEF IndInv, IndTyped, IsMaintainer, InTime

LEMMA IndCheck ==
    ASSUME IndSettings, IndInv, Ind!Check
    PROVE  IndInv'
<1>1. mt.pc = "idle" /\ mt.next = 0 /\ SameCatalogue /\ neighbors' = neighbors /\ untouched' = untouched
  BY DEF Ind!Check, Ind!Due, Ind!World, Ind!Calm, SameCatalogue
<1>2. PICK m : m = mt
  OBVIOUS
<1>3. /\ IsMaintainer(m) /\ m.age \in 0..FullCheck /\ untouched \in 0..Ind!Settles
      /\ ~CaughtUp => untouched + m.next < Ind!Settles /\ (m.settled = <<>> \/ m.age = FullCheck \/ untouched <= m.age)
  BY <1>2, IndNow
<1>4. CASE Ind!Spared
  <2>1. PICK n : mt' = n /\ n = [m EXCEPT !.next = CheckInterval]
    BY <1>2, <1>4 DEF Ind!Check
  <2>2. /\ n.pc = m.pc /\ n.next = CheckInterval /\ n.age = m.age /\ n.settled = m.settled
    BY <1>3, <2>1 DEF IsMaintainer
  <2>3. IsMaintainer(n)
    BY <1>3, <2>1, IndNumbers DEF IsMaintainer
  <2>4. m.settled # <<>> /\ m.age < FullCheck
    BY <1>2, <1>4 DEF Ind!Spared, Ind!Signature
  <2>5. ~CaughtUp => untouched + n.next < Ind!Settles /\ untouched <= n.age
    <3>1. SUFFICES ASSUME ~CaughtUp
                   PROVE  untouched + CheckInterval < Ind!Settles /\ untouched <= m.age
      BY <2>2
    <3>2. untouched <= m.age
      BY <1>3, <2>4, <3>1
    <3>3. untouched \in Nat /\ m.age \in Nat
      BY <1>3, IndNumbers
    <3>. QED
      BY <2>4, <3>2, <3>3, IndNumbers
  <2>. QED
    BY <1>1, <1>2, <1>3, <2>1, <2>2, <2>3, <2>5, IndMoves
<1>5. CASE ~Ind!Spared
  <2>1. PICK n, signature : mt' = n /\ n = [m EXCEPT !.pc = "signed", !.signature = signature]
    BY <1>2, <1>5 DEF Ind!Check
  <2>2. IsMaintainer(n) /\ n.pc = "signed" /\ n.next = m.next /\ n.age = m.age /\ n.settled = m.settled
    BY <1>3, <2>1 DEF IsMaintainer
  <2>. QED
    BY <1>1, <1>2, <1>3, <2>1, <2>2, IndMoves
<1>. QED
  BY <1>4, <1>5

LEMMA IndReads ==
    ASSUME IndSettings, IndInv, Ind!ReadCatalogue
    PROVE  IndInv'
<1>1. mt.pc = "signed" /\ SameCatalogue /\ neighbors' = neighbors /\ untouched' = untouched
  BY DEF Ind!ReadCatalogue, Ind!World, Ind!Calm, SameCatalogue
<1>2. PICK m, S : m = mt /\ S = Ind!Says
  OBVIOUS
<1>3. IsMaintainer(m) /\ InTime(m) /\ S \in Texts
  BY <1>2, SaysType DEF IndInv, IndTyped
<1>4. PICK n : mt' = n /\ n = [m EXCEPT !.pc = "read", !.read = S]
  BY <1>2 DEF Ind!ReadCatalogue
<1>5. IsMaintainer(n) /\ n.pc = "read" /\ n.next = m.next /\ n.age = m.age /\ n.settled = m.settled /\ n.read = S
  BY <1>3, <1>4 DEF IsMaintainer
<1>6. Ind!Says' = S /\ (CaughtUp <=> CaughtUp')
  BY <1>1, <1>2 DEF SameCatalogue, Ind!Says, CaughtUp
<1>7. IndTyped'
  BY <1>1, <1>4, <1>5 DEF IndInv, IndTyped, SameCatalogue
<1>8. ReadIsRecent(n)' /\ InTime(n)'
  BY <1>1, <1>3, <1>5, <1>6 DEF ReadIsRecent, KnownIn, InTime, Ind!Settles
<1>9. PICK R : RowsOf(R) /\ KnownIn(R, S)
  BY <1>2 DEF IndInv
<1>10. RowsOf(R)' /\ KnownIn(R, Ind!Says') /\ (IndReading(n) => KnownIn(R, n.read))
  BY <1>1, <1>5, <1>6, <1>9 DEF RowsOf
<1>. QED
  BY <1>4, <1>7, <1>8, <1>10 DEF IndInv

LEMMA IndEmbed ==
    ASSUME IndSettings, IndInv, Ind!Embed
    PROVE  IndInv'
<1>1. mt.pc = "read" /\ SameCatalogue /\ neighbors' = neighbors /\ untouched' = untouched
  BY DEF Ind!Embed, Ind!World, Ind!Calm, SameCatalogue
<1>2. PICK m : m = mt
  OBVIOUS
<1>3. /\ IsMaintainer(m) /\ untouched \in 0..Ind!Settles
      /\ ~CaughtUp => untouched + m.next < Ind!Settles /\ (m.settled = <<>> \/ m.age = FullCheck \/ untouched <= m.age)
  BY <1>2, IndNow
<1>4. PICK n, count : mt' = n /\ n = [m EXCEPT !.pc = "embedded", !.embedded = count]
  BY <1>2 DEF Ind!Embed
<1>5. IsMaintainer(n) /\ n.pc = "embedded" /\ n.next = m.next /\ n.age = m.age /\ n.settled = m.settled
      /\ n.read = m.read
  BY <1>3, <1>4 DEF IsMaintainer
<1>. QED
  BY <1>1, <1>2, <1>3, <1>4, <1>5, IndMoves

LEMMA IndFinish ==
    ASSUME IndSettings, IndInv, Ind!Finish
    PROVE  IndInv'
<1>1. mt.pc = "embedded" /\ SameCatalogue /\ untouched' = untouched
  BY DEF Ind!Finish, Ind!World, Ind!Calm, SameCatalogue
<1>2. PICK m, S : m = mt /\ S = Ind!Says
  OBVIOUS
<1>3. IsMaintainer(m) /\ untouched \in 0..Ind!Settles /\ (~CaughtUp => untouched + m.next < Ind!Settles) /\ m.next \in Nat
  BY <1>2, IndNow
<1>4. m.read \in Texts /\ KnownIn(m.read, S) /\ (m.read = S \/ untouched = 0) /\ S \in Texts
  BY <1>1, <1>2, SaysType DEF IndInv, ReadIsRecent, IndReading
<1>5. PICK R : RowsOf(R) /\ KnownIn(R, S) /\ KnownIn(R, m.read)
  BY <1>1, <1>2 DEF IndInv, IndReading
<1>6. PICK pending \in BOOLEAN, rebuilds \in BOOLEAN :
         /\ neighbors' = IF rebuilds THEN Ind!Rebuilt ELSE neighbors
         /\ \E settled : mt' = [Ind!Fresh EXCEPT !.next = IF pending THEN 0 ELSE CheckInterval, !.settled = settled]
                         /\ (pending \/ rebuilds => settled = <<>>)
         /\ ~pending /\ ~rebuilds => ~Ind!NeighborsStale
  <2>. DEFINE pending == mt.embedded > 0 /\ Len(Ind!Pending(embedding)) > 0
              rebuilds == ~pending /\ (mt.embedded > 0 \/ Ind!NeighborsStale)
              worked == mt.embedded > 0 \/ rebuilds
  <2>1. /\ neighbors' = (IF rebuilds THEN Ind!Rebuilt ELSE neighbors)
        /\ mt' = [Ind!Fresh EXCEPT !.next = IF pending THEN 0 ELSE CheckInterval,
                                   !.settled = IF worked THEN <<>> ELSE mt.signature]
    BY Zenon DEF Ind!Finish
  <2>2. PICK settled : settled = IF worked THEN <<>> ELSE mt.signature
    OBVIOUS
  <2>3. pending \/ rebuilds => settled = <<>>
    BY <2>2
  <2>4. ~pending /\ ~rebuilds => ~Ind!NeighborsStale
    OBVIOUS
  <2>. QED
    BY <2>1, <2>2, <2>3, <2>4
<1>7. PICK settled : /\ mt' = [Ind!Fresh EXCEPT !.next = IF pending THEN 0 ELSE CheckInterval, !.settled = settled]
                     /\ pending \/ rebuilds => settled = <<>>
  BY <1>6
<1>8. PICK n : /\ mt' = n
               /\ n = [pc |-> "idle", next |-> IF pending THEN 0 ELSE CheckInterval, settled |-> settled, age |-> 0,
                       signature |-> <<>>, read |-> <<>>, embedded |-> 0]
  BY <1>7 DEF Ind!Fresh
<1>9. n.pc = "idle" /\ n.next = (IF pending THEN 0 ELSE CheckInterval) /\ n.settled = settled /\ n.age = 0
  BY <1>8
<1>10. IsMaintainer(n)
  BY <1>8, IndNumbers DEF IsMaintainer
<1>11. Ind!Says' = S
  BY <1>1, <1>2 DEF SameCatalogue, Ind!Says
<1>12. IndTyped'
  BY <1>1, <1>8, <1>10 DEF IndInv, IndTyped, SameCatalogue
<1>13. PICK Q : RowsOf(Q)' /\ KnownIn(Q, S) /\ (rebuilds => Q = m.read) /\ (~rebuilds => Q = R)
  <2>1. CASE ~rebuilds
    BY <1>5, <1>6, <2>1 DEF RowsOf
  <2>2. CASE rebuilds
    <3>1. PICK Q : Q = m.read
      OBVIOUS
    <3>2. neighbors' = [g \in IndexedGame |-> IF Q[g] = Ind!Absent THEN neighbors[g] ELSE [inputs |-> Q[g], seen |-> Q]]
      BY <1>2, <1>6, <2>2, <3>1 DEF Ind!Rebuilt
    <3>3. \A g \in IndexedGame : Q[g] = Ind!Absent => neighbors[g] = [inputs |-> Ind!Absent, seen |-> <<>>]
      BY <1>5, <3>1 DEF RowsOf, KnownIn
    <3>4. neighbors' = [g \in IndexedGame |-> IF Q[g] = Ind!Absent THEN [inputs |-> Ind!Absent, seen |-> <<>>]
                                       ELSE [inputs |-> Q[g], seen |-> Q]]
      BY <3>2, <3>3
    <3>5. RowsOf(Q)'
      BY <1>4, <3>1, <3>4 DEF RowsOf
    <3>. QED
      BY <1>4, <2>2, <3>1, <3>5
  <2>. QED
    BY <2>1, <2>2
<1>14. ~pending /\ m.read = S => Q = S
  <2>1. SUFFICES ASSUME ~pending, ~rebuilds, m.read = S
                 PROVE  R = S
    BY <1>13
  <2>2. ~Ind!NeighborsStale
    BY <1>6, <2>1
  <2>3. \A g \in IndexedGame : S[g] # Ind!Absent => neighbors[g].inputs = S[g]
    BY <1>2, <2>1, <2>2 DEF Ind!NeighborsStale
  <2>4. \A g \in IndexedGame : R[g] = S[g]
    <3>1. SUFFICES ASSUME NEW g \in IndexedGame
                   PROVE  R[g] = S[g]
      OBVIOUS
    <3>2. neighbors[g].inputs = R[g]
      BY <1>5 DEF RowsOf
    <3>3. R[g] # Ind!Absent => S[g] # Ind!Absent
      BY <1>5 DEF KnownIn
    <3>. QED
      BY <2>3, <3>2, <3>3
  <2>. QED
    BY <1>4, <1>5, <2>4 DEF RowsOf, Texts
<1>15. InTime(n)'
  <2>1. CASE untouched = 0
    <3>1. 0 + n.next < Ind!Settles
      BY <1>9, IndNumbers
    <3>. QED
      BY <1>1, <1>9, <2>1, <3>1 DEF InTime, Ind!Settles
  <2>2. CASE untouched # 0 /\ ~pending
    <3>1. Q = Ind!Says'
      BY <1>4, <1>11, <1>14, <2>2
    <3>2. CaughtUp'
      BY <1>13, <3>1 DEF RowsOf, CaughtUp
    <3>. QED
      BY <3>2 DEF InTime
  <2>3. CASE pending
    <3>1. ~rebuilds \/ rebuilds
      OBVIOUS
    <3>2. n.next = 0 /\ n.settled = <<>>
      BY <1>7, <1>9, <2>3
    <3>3. untouched < Ind!Settles \/ CaughtUp
      BY <1>3, IndNumbers
    <3>4. CASE untouched < Ind!Settles
      <4>1. untouched + 0 < Ind!Settles
        BY <1>3, <3>4, IndNumbers
      <4>. QED
        BY <1>1, <3>2, <4>1 DEF InTime, Ind!Settles
    <3>5. CASE CaughtUp /\ ~rebuilds
      <4>1. neighbors' = neighbors
        BY <1>6, <3>5
      <4>2. CaughtUp'
        BY <1>2, <1>11, <3>5, <4>1 DEF CaughtUp
      <4>. QED
        BY <4>2 DEF InTime
    <3>6. CASE rebuilds /\ untouched # 0
      <4>1. Q = Ind!Says'
        BY <1>4, <1>11, <1>13, <3>6
      <4>2. CaughtUp'
        BY <1>13, <4>1 DEF RowsOf, CaughtUp
      <4>. QED
        BY <4>2 DEF InTime
    <3>. QED
      BY <2>1, <3>3, <3>4, <3>5, <3>6
  <2>. QED
    BY <2>1, <2>2, <2>3
<1>16. ReadIsRecent(n)' /\ ~IndReading(n)
  BY <1>9 DEF ReadIsRecent, IndReading
<1>. QED
  BY <1>8, <1>11, <1>12, <1>13, <1>15, <1>16 DEF IndInv

LEMMA IndFails ==
    ASSUME IndSettings, IndInv, Ind!Fails \/ Ind!Restart
    PROVE  IndInv'
<1>1. SameCatalogue /\ neighbors' = neighbors /\ untouched' = 0
  BY DEF Ind!Fails, Ind!Restart, Ind!Fault, Ind!World, SameCatalogue
<1>2. PICK m : m = mt
  OBVIOUS
<1>3. IsMaintainer(m) /\ m.age \in 0..FullCheck
  BY <1>2, IndNow
<1>4. PICK n : /\ mt' = n /\ n.pc = "idle" /\ n.next \in {0, FailurePause} /\ n.age \in 0..FullCheck
               /\ n = [pc |-> n.pc, next |-> n.next, settled |-> n.settled, age |-> n.age,
                       signature |-> n.signature, read |-> n.read, embedded |-> n.embedded]
  <2>1. CASE Ind!Fails
    <3>1. PICK n : /\ mt' = n
                   /\ n = [pc |-> "idle", next |-> FailurePause, settled |-> m.settled, age |-> m.age,
                           signature |-> <<>>, read |-> <<>>, embedded |-> 0]
      BY <1>2, <2>1 DEF Ind!Fails, Ind!Fresh
    <3>. QED
      BY <1>3, <3>1
  <2>2. CASE Ind!Restart
    <3>1. PICK n : /\ mt' = n
                   /\ n = [pc |-> "idle", next |-> 0, settled |-> <<>>, age |-> 0,
                           signature |-> <<>>, read |-> <<>>, embedded |-> 0]
      BY <2>2 DEF Ind!Restart, Ind!Fresh
    <3>2. 0 \in 0..FullCheck
      BY IndNumbers
    <3>. QED
      BY <3>1, <3>2
  <2>. QED
    BY <2>1, <2>2
<1>5. IsMaintainer(n) /\ 0 + n.next < Ind!Settles /\ 0 <= n.age
  BY <1>4, IndNumbers DEF IsMaintainer
<1>6. 0 \in 0..Ind!Settles
  BY IndNumbers
<1>. QED
  BY <1>1, <1>4, <1>5, <1>6, IndMoves

LEMMA IndTick ==
    ASSUME IndSettings, IndInv, Ind!Tick
    PROVE  IndInv'
<1>1. mt.pc = "idle" /\ SameCatalogue /\ neighbors' = neighbors
  BY DEF Ind!Tick, Ind!World, SameCatalogue
<1>2. PICK m : m = mt
  OBVIOUS
<1>3. /\ IsMaintainer(m) /\ m.next \in Nat /\ m.next < Ind!Settles /\ m.age \in 0..FullCheck
      /\ untouched \in 0..Ind!Settles
      /\ ~CaughtUp => untouched + m.next < Ind!Settles /\ (m.settled = <<>> \/ m.age = FullCheck \/ untouched <= m.age)
  BY <1>2, IndNow
<1>4. PICK next, age : /\ next = IF m.next = 0 THEN 0 ELSE m.next - 1
                       /\ age = IF m.settled = <<>> THEN 0 ELSE Ind!Up(m.age, FullCheck)
  OBVIOUS
<1>5. PICK n : mt' = n /\ n = [m EXCEPT !.next = next, !.age = age]
  BY <1>2, <1>4 DEF Ind!Tick
<1>6. next \in Nat /\ next <= m.next /\ (m.next # 0 => next + 1 = m.next)
  BY <1>3, <1>4
<1>7. age \in 0..FullCheck /\ (m.settled # <<>> => age = FullCheck \/ age = m.age + 1)
  BY <1>3, <1>4, IndNumbers DEF Ind!Up
<1>8. n.pc = "idle" /\ n.next = next /\ n.age = age /\ n.settled = m.settled
  BY <1>1, <1>2, <1>3, <1>5 DEF IsMaintainer
<1>9. IsMaintainer(n)
  <2>1. n = [pc |-> m.pc, next |-> next, settled |-> m.settled, age |-> age,
             signature |-> m.signature, read |-> m.read, embedded |-> m.embedded]
    BY <1>3, <1>5 DEF IsMaintainer
  <2>2. next < Ind!Settles
    BY <1>3, <1>6, IndNumbers
  <2>. QED
    BY <1>3, <1>6, <1>7, <2>1, <2>2 DEF IsMaintainer
<1>10. CASE m.next = 0
  <2>1. untouched' = 0
    BY <1>1, <1>2, <1>10 DEF Ind!Tick, Ind!Due, Ind!Fault
  <2>2. 0 \in 0..Ind!Settles /\ 0 + next < Ind!Settles /\ 0 <= age
    BY <1>3, <1>6, <1>7, IndNumbers
  <2>. QED
    BY <1>1, <1>5, <1>8, <1>9, <2>1, <2>2, IndMoves
<1>11. CASE m.next # 0
  <2>1. untouched' = Ind!Up(untouched, Ind!Settles)
    BY <1>2, <1>11 DEF Ind!Tick, Ind!Due
  <2>2. untouched' \in 0..Ind!Settles
    BY <1>3, <2>1, IndNumbers DEF Ind!Up
  <2>3. ~CaughtUp => untouched' + next < Ind!Settles /\ (m.settled = <<>> \/ age = FullCheck \/ untouched' <= age)
    <3>1. SUFFICES ASSUME ~CaughtUp
                   PROVE  untouched' + next < Ind!Settles /\ (m.settled = <<>> \/ age = FullCheck \/ untouched' <= age)
      OBVIOUS
    <3>2. untouched + m.next < Ind!Settles /\ next + 1 = m.next /\ untouched \in Nat
      BY <1>3, <1>6, <1>11, <3>1, IndNumbers
    <3>3. untouched' = untouched + 1
      BY <1>6, <2>1, <3>2, IndNumbers DEF Ind!Up
    <3>4. untouched' + next < Ind!Settles
      BY <1>6, <3>2, <3>3, IndNumbers
    <3>5. m.settled # <<>> => age = FullCheck \/ untouched' <= age
      <4>1. SUFFICES ASSUME m.settled # <<>>, age # FullCheck
                     PROVE  untouched + 1 <= age
        BY <3>3
      <4>2. age = m.age + 1 /\ m.age # FullCheck /\ m.age \in Nat
        BY <1>3, <1>4, <4>1, IndNumbers DEF Ind!Up
      <4>3. untouched <= m.age
        BY <1>3, <3>1, <4>1, <4>2
      <4>. QED
        BY <3>2, <4>2, <4>3
    <3>. QED
      BY <3>4, <3>5
  <2>. QED
    BY <1>1, <1>5, <1>8, <1>9, <2>2, <2>3, IndMoves
<1>. QED
  BY <1>10, <1>11

LEMMA IndInit ==
    ASSUME IndSettings, Ind!Init
    PROVE  IndInv
<1>1. PICK m : /\ mt = m
               /\ m = [pc |-> "idle", next |-> 0, settled |-> <<>>, age |-> 0,
                       signature |-> <<>>, read |-> <<>>, embedded |-> 0]
  BY DEF Ind!Init, Ind!Fresh
<1>2. IsMaintainer(m) /\ ~IndReading(m) /\ m.next = 0 /\ m.settled = <<>>
  BY <1>1, IndNumbers DEF IsMaintainer, IndReading
<1>3. /\ catalogue = [g \in IndexedGame |-> [says |-> Ind!Absent, at |-> 0]]
      /\ open = Ind!NoSave /\ saves = 0 /\ untouched = 0
      /\ neighbors = [g \in IndexedGame |-> [inputs |-> Ind!Absent, seen |-> <<>>]]
  BY DEF Ind!Init
<1>4. IndTyped
  <2>1. catalogue \in [IndexedGame -> [says : Saying, at : Nat]]
    BY <1>3 DEF Saying
  <2>2. saves \in Nat /\ untouched \in 0..Ind!Settles
    BY <1>3, IndNumbers
  <2>. QED
    BY <1>1, <1>2, <1>3, <2>1, <2>2 DEF IndTyped
<1>5. ReadIsRecent(m) /\ InTime(m)
  <2>1. 0 + 0 < Ind!Settles
    BY IndNumbers
  <2>. QED
    BY <1>2, <1>3, <2>1 DEF ReadIsRecent, InTime
<1>6. PICK R : R = [g \in IndexedGame |-> Ind!Absent]
  OBVIOUS
<1>7. RowsOf(R) /\ KnownIn(R, Ind!Says)
  BY <1>3, <1>6 DEF RowsOf, KnownIn, Texts, Saying
<1>. QED
  BY <1>1, <1>2, <1>4, <1>5, <1>7 DEF IndInv

LEMMA IndStutters ==
    ASSUME IndSettings, IndInv, UNCHANGED Ind!vars
    PROVE  IndInv'
<1>1. SameCatalogue /\ neighbors' = neighbors /\ untouched' = untouched /\ mt' = mt
  BY DEF Ind!vars, SameCatalogue
<1>2. PICK m : m = mt
  OBVIOUS
<1>3. /\ IsMaintainer(m) /\ untouched \in 0..Ind!Settles
      /\ ~CaughtUp => untouched + m.next < Ind!Settles /\ (m.settled = <<>> \/ m.age = FullCheck \/ untouched <= m.age)
  BY <1>2, IndNow
<1>. QED
  BY <1>1, <1>2, <1>3, IndMoves

\* A while after the last commit and the last failure every game has the neighbours that the
\* present texts of all games give it, whatever the steps of the maintainer and the order in
\* which the saves were committed (catalog/similarity_index.py: a signature that looks settled
\* spares the maintainer the work for no longer than a check in full is due).
THEOREM IndexHolds ==
    ASSUME IndSettings
    PROVE  Ind!Spec => []Ind!IndexCatchesUp
<1>1. Ind!Init => IndInv
  BY IndInit
<1>2. IndInv /\ [Ind!Next]_(Ind!vars) => IndInv'
  <2>1. SUFFICES ASSUME IndInv, [Ind!Next]_(Ind!vars)
                 PROVE  IndInv'
    OBVIOUS
  <2>2. CASE Ind!SaveGame \/ Ind!OpenSave \/ Ind!CommitSave
    BY <2>1, <2>2, IndSaves
  <2>3. CASE Ind!Check
    BY <2>1, <2>3, IndCheck
  <2>4. CASE Ind!ReadCatalogue
    BY <2>1, <2>4, IndReads
  <2>5. CASE Ind!Embed
    BY <2>1, <2>5, IndEmbed
  <2>6. CASE Ind!Finish
    BY <2>1, <2>6, IndFinish
  <2>7. CASE Ind!Fails \/ Ind!Restart
    BY <2>1, <2>7, IndFails
  <2>8. CASE Ind!Tick
    BY <2>1, <2>8, IndTick
  <2>9. CASE UNCHANGED Ind!vars
    BY <2>1, <2>9, IndStutters
  <2>. QED
    BY <2>1, <2>2, <2>3, <2>4, <2>5, <2>6, <2>7, <2>8, <2>9 DEF Ind!Next
<1>3. IndInv => Ind!IndexCatchesUp
  <2>1. SUFFICES ASSUME IndInv, untouched = Ind!Settles
                 PROVE  CaughtUp
    BY DEF Ind!IndexCatchesUp, CaughtUp
  <2>2. PICK m : m = mt
    OBVIOUS
  <2>3. m.next \in Nat /\ (~CaughtUp => untouched + m.next < Ind!Settles)
    BY <2>1, <2>2, IndNow
  <2>. QED
    BY <2>1, <2>3, IndNumbers
<1>. QED
  BY <1>1, <1>2, <1>3, PTL DEF Ind!Spec

------------------------------------------------------------------------------
(* Similarity: which games are similar.                                      *)

\* Games are numbered, and no score is less than any.
SimSettings == /\ RankedGame \subseteq Nat /\ IsFiniteSet(RankedGame) /\ FusedScore \subseteq Nat
               /\ GenreBonus \in Nat /\ MinScore \in Nat /\ MaxResults \in Nat

-----------------------------------------------------------------------------
(* What the best of a game is, of what refresh gave to rank.                    *)

ByText(x, g)   == g \in x.described /\ x.described # {g}
Peers(x, g)    == (IF ByText(x, g) THEN x.described ELSE RankedGame) \ {g}
Alike(x, g, h) == (IF x.genre[g] = x.genre[h] THEN GenreBonus ELSE 0)
                  + IF ByText(x, g) THEN x.byText[<<g, h>>] ELSE x.byLabel[<<g, h>>]
Inputs == UNION {[described : {D}, genre : [RankedGame -> Genre],
                  byLabel : [Sim!Labelled(D) -> FusedScore], byText : [Sim!Pairs(D) -> FusedScore]] : D \in SUBSET RankedGame}

\* One that is not in the best falls short of the least score, or of all MaxResults that are.
RowIsRight(x, g, best) ==
    /\ \A n \in DOMAIN best :
          /\ best[n].id \in Peers(x, g) /\ Alike(x, g, best[n].id) >= MinScore
          /\ best[n].basis = IF ByText(x, g) THEN "description" ELSE "title"
    /\ \A m, n \in DOMAIN best :
          m < n => \/ Alike(x, g, best[m].id) > Alike(x, g, best[n].id)
                   \/ Alike(x, g, best[m].id) = Alike(x, g, best[n].id) /\ best[m].id < best[n].id
    /\ \A h \in Peers(x, g) \ {best[n].id : n \in DOMAIN best} :
          \/ Alike(x, g, h) < MinScore
          \/ /\ Cardinality({best[n].id : n \in DOMAIN best}) = MaxResults
             /\ \A n \in DOMAIN best : Alike(x, g, best[n].id) >= Alike(x, g, h)

SimInv == /\ input \in {Sim!Nothing} \cup Inputs
          /\ ranking # Sim!Nothing => /\ input # Sim!Nothing
                                      /\ \A g \in RankedGame : RowIsRight(input, g, ranking[g])

-----------------------------------------------------------------------------
(* The best that is made.                                                       *)

LEMMA SimDescribed ==
    ASSUME SimSettings, NEW x \in Inputs, input = x, NEW g \in RankedGame
    PROVE  /\ ByText(x, g) <=> g \in Sim!Described
           /\ Sim!Compared(g) = Peers(x, g) /\ Peers(x, g) \subseteq RankedGame /\ g \notin Peers(x, g)
           /\ \A h \in Peers(x, g) : Sim!Fused(g, h) = Alike(x, g, h) /\ Alike(x, g, h) \in Nat
           /\ \A h \in RankedGame \ Peers(x, g) : Sim!Fused(g, h) = -1
<1>1. PICK D \in SUBSET RankedGame : x \in [described : {D}, genre : [RankedGame -> Genre],
                                      byLabel : [Sim!Labelled(D) -> FusedScore], byText : [Sim!Pairs(D) -> FusedScore]]
  BY DEF Inputs
<1>2. x.described = D /\ IsFiniteSet(D) /\ Cardinality(D) \in Nat
  BY <1>1, FS_Subset, FS_CardinalityType DEF SimSettings
<1>3. g \in D => (Cardinality(D) < 2 <=> D = {g})
  <2>1. SUFFICES ASSUME g \in D
                 PROVE  Cardinality(D) < 2 <=> D = {g}
    OBVIOUS
  <2>2. Cardinality(D) # 0
    BY <1>2, <2>1, FS_EmptySet
  <2>3. Cardinality(D) = 1 <=> \E y : D = {y}
    BY <1>2, FS_Singleton
  <2>. QED
    BY <1>2, <2>1, <2>2, <2>3
<1>4. ByText(x, g) <=> g \in Sim!Described
  <2>1. Sim!Cardinality(D) = Cardinality(D)
    BY Zenon DEF Sim!Cardinality, Cardinality
  <2>. QED
    BY <1>2, <1>3, <2>1 DEF ByText, Sim!Described
<1>5. ByText(x, g) => Sim!Described = D
  BY <1>2, <1>4 DEF Sim!Described
<1>6. Sim!Compared(g) = Peers(x, g) /\ Peers(x, g) \subseteq RankedGame /\ g \notin Peers(x, g)
  BY <1>1, <1>2, <1>4, <1>5 DEF Sim!Compared, Peers
<1>7. ASSUME NEW h \in Peers(x, g)
      PROVE  Sim!Fused(g, h) = Alike(x, g, h) /\ Alike(x, g, h) \in Nat
  <2>1. h \in RankedGame /\ h # g /\ (ByText(x, g) => g \in D /\ h \in D)
    BY <1>2, <1>6, <1>7 DEF Peers, ByText
  <2>2. IF ByText(x, g) THEN <<g, h>> \in Sim!Pairs(D) ELSE <<g, h>> \in Sim!Labelled(D)
    BY <1>2, <2>1 DEF Sim!Pairs, Sim!Labelled, ByText
  <2>3. IF ByText(x, g) THEN x.byText[<<g, h>>] \in Nat ELSE x.byLabel[<<g, h>>] \in Nat
    BY <1>1, <2>2 DEF SimSettings
  <2>4. Sim!Fused(g, h) = Sim!Bonus(g, h) + IF ByText(x, g) THEN x.byText[<<g, h>>] ELSE x.byLabel[<<g, h>>]
    BY <1>4, <1>6, <1>7 DEF Sim!Fused
  <2>5. Sim!Bonus(g, h) = IF x.genre[g] = x.genre[h] THEN GenreBonus ELSE 0
    BY DEF Sim!Bonus
  <2>. QED
    BY <2>3, <2>4, <2>5 DEF Alike, SimSettings
<1>8. \A h \in RankedGame \ Peers(x, g) : Sim!Fused(g, h) = -1
  BY <1>6 DEF Sim!Fused, Sim!None
<1>. QED
  BY <1>4, <1>6, <1>7, <1>8

LEMMA SimOrder ==
    ASSUME SimSettings, NEW x \in Inputs, input = x, NEW g \in RankedGame, NEW R,
           R = {p \in RankedGame \X RankedGame : Sim!Before(g, p[1], p[2])}
    PROVE  Orders(R, RankedGame) /\ \A h \in RankedGame : Sim!Place(g, h) = PlaceIn(R, RankedGame, h)
<1>1. \A h \in RankedGame : h \in Int /\ Sim!Fused(g, h) \in Int
  BY SimDescribed DEF SimSettings
<1>2. \A h, k \in RankedGame : <<h, k>> \in R <=>
         Sim!Fused(g, h) > Sim!Fused(g, k) \/ (Sim!Fused(g, h) = Sim!Fused(g, k) /\ h < k)
  BY DEF Sim!Before
<1>3. Orders(R, RankedGame)
  <2>1. \A h \in RankedGame : <<h, h>> \notin R
    BY <1>1, <1>2
  <2>2. \A h, k \in RankedGame : h # k => <<h, k>> \in R \/ <<k, h>> \in R
    BY <1>1, <1>2
  <2>3. \A h, k, l \in RankedGame : <<h, k>> \in R /\ <<k, l>> \in R => <<h, l>> \in R
    BY <1>1, <1>2
  <2>. QED
    BY <2>1, <2>2, <2>3 DEF Orders, SimSettings
<1>4. ASSUME NEW h \in RankedGame
      PROVE  Sim!Place(g, h) = PlaceIn(R, RankedGame, h)
  <2>1. {k \in RankedGame : Sim!Before(g, k, h)} = {k \in RankedGame : <<k, h>> \in R}
    BY <1>4
  <2>2. \A S : Sim!Cardinality(S) = Cardinality(S)
    BY Zenon DEF Sim!Cardinality, Cardinality
  <2>. QED
    BY <2>1, <2>2 DEF Sim!Place, PlaceIn
<1>. QED
  BY <1>3, <1>4

LEMMA SimRow ==
    ASSUME SimSettings, NEW x \in Inputs, input = x, NEW g \in RankedGame
    PROVE  RowIsRight(x, g, Sim!Neighbors(g))
<1>1. PICK R : R = {p \in RankedGame \X RankedGame : Sim!Before(g, p[1], p[2])}
  OBVIOUS
<1>2. PICK place : place = [h \in RankedGame |-> Sim!Place(g, h)]
  OBVIOUS
<1>3. PICK fused : fused = [h \in RankedGame |-> Sim!Fused(g, h)]
  OBVIOUS
<1>4. Orders(R, RankedGame) /\ \A h \in RankedGame : place[h] = PlaceIn(R, RankedGame, h)
  BY <1>1, <1>2, SimOrder
<1>5. PICK c \in Nat : c = Cardinality(RankedGame)
  BY FS_CardinalityType DEF SimSettings
<1>6. /\ \A h \in RankedGame : place[h] \in 1..c
      /\ \A h, k \in RankedGame : place[h] < place[k] <=> fused[h] > fused[k] \/ (fused[h] = fused[k] /\ h < k)
      /\ \A h, k \in RankedGame : <<h, k>> \in R <=> place[h] < place[k]
  <2>1. /\ \A h \in RankedGame : PlaceIn(R, RankedGame, h) \in 1..Cardinality(RankedGame)
        /\ \A h, k \in RankedGame : <<h, k>> \in R <=> PlaceIn(R, RankedGame, h) < PlaceIn(R, RankedGame, k)
    BY <1>4, PlacesFollow
  <2>2. \A h, k \in RankedGame : <<h, k>> \in R <=> fused[h] > fused[k] \/ (fused[h] = fused[k] /\ h < k)
    BY <1>1, <1>3 DEF Sim!Before
  <2>3. \A h \in RankedGame : place[h] \in 1..c
    BY <1>4, <1>5, <2>1
  <2>4. \A h, k \in RankedGame : <<h, k>> \in R <=> place[h] < place[k]
    BY <1>4, <2>1
  <2>. QED
    BY <2>2, <2>3, <2>4
<1>7. \A h, k \in RankedGame : place[h] = place[k] => h = k
  <2>1. SUFFICES ASSUME NEW h \in RankedGame, NEW k \in RankedGame, place[h] = place[k], h # k
                 PROVE  FALSE
    OBVIOUS
  <2>2. <<h, k>> \in R \/ <<k, h>> \in R
    BY <1>4, <2>1 DEF Orders
  <2>3. place[h] \in Nat
    BY <1>5, <1>6
  <2>. QED
    BY <1>6, <2>1, <2>2, <2>3
<1>8. /\ Peers(x, g) \subseteq RankedGame /\ (ByText(x, g) <=> g \in Sim!Described)
      /\ \A h \in Peers(x, g) : fused[h] = Alike(x, g, h) /\ fused[h] \in Nat
      /\ \A h \in RankedGame \ Peers(x, g) : fused[h] = -1
  BY <1>3, SimDescribed
<1>9. PICK kept : kept = {h \in RankedGame : place[h] <= MaxResults /\ fused[h] >= MinScore}
  OBVIOUS
<1>10. PICK best : best = Sim!Neighbors(g)
  OBVIOUS
<1>11. /\ DOMAIN best = {place[h] : h \in kept}
       /\ \A n \in DOMAIN best : /\ best[n].id \in kept /\ place[best[n].id] = n
                                 /\ best[n].basis = IF ByText(x, g) THEN "description" ELSE "title"
  <2>1. kept = {h \in RankedGame : Sim!Place(g, h) <= MaxResults /\ Sim!Fused(g, h) >= MinScore}
    BY <1>2, <1>3, <1>9
  <2>2. best = [n \in {Sim!Place(g, h) : h \in kept} |->
                LET h == CHOOSE k \in kept : Sim!Place(g, k) = n
                IN [id |-> h, score |-> Sim!Fused(g, h), basis |-> IF g \in Sim!Described THEN "description" ELSE "title"]]
    BY <1>10, <2>1 DEF Sim!Neighbors
  <2>3. \A h \in kept : Sim!Place(g, h) = place[h]
    BY <1>2, <1>9
  <2>4. DOMAIN best = {Sim!Place(g, h) : h \in kept}
    BY <2>2
  <2>5. DOMAIN best = {place[h] : h \in kept}
    BY <2>3, <2>4
  <2>6. ASSUME NEW n \in DOMAIN best
        PROVE  /\ best[n].id \in kept /\ place[best[n].id] = n
               /\ best[n].basis = IF ByText(x, g) THEN "description" ELSE "title"
    <3>1. PICK h : h = CHOOSE k \in kept : Sim!Place(g, k) = n
      OBVIOUS
    <3>2. h \in kept /\ Sim!Place(g, h) = n
      BY <2>4, <2>6, <3>1
    <3>3. best[n] = [id |-> h, score |-> Sim!Fused(g, h), basis |-> IF g \in Sim!Described THEN "description" ELSE "title"]
      BY <2>2, <2>4, <2>6, <3>1
    <3>4. best[n].id = h /\ best[n].basis = IF g \in Sim!Described THEN "description" ELSE "title"
      BY <3>3
    <3>. QED
      BY <1>8, <2>3, <3>2, <3>4
  <2>. QED
    BY <2>5, <2>6
<1>13. {best[n].id : n \in DOMAIN best} = kept
  <2>1. \A h \in kept : place[h] \in DOMAIN best
    BY <1>11
  <2>2. \A h \in kept : best[place[h]].id = h
    BY <1>7, <1>9, <1>11, <2>1
  <2>. QED
    BY <1>11, <2>1, <2>2
<1>14. \A h \in kept : h \in Peers(x, g) /\ Alike(x, g, h) >= MinScore /\ fused[h] = Alike(x, g, h)
  BY <1>8, <1>9 DEF SimSettings
<1>15. ASSUME NEW m \in DOMAIN best, NEW n \in DOMAIN best, m < n
       PROVE  \/ Alike(x, g, best[m].id) > Alike(x, g, best[n].id)
              \/ Alike(x, g, best[m].id) = Alike(x, g, best[n].id) /\ best[m].id < best[n].id
  <2>1. PICK h \in kept, k \in kept : h = best[m].id /\ k = best[n].id /\ place[h] = m /\ place[k] = n
    BY <1>11, <1>15
  <2>2. fused[h] > fused[k] \/ (fused[h] = fused[k] /\ h < k)
    BY <1>6, <1>9, <1>15, <2>1
  <2>. QED
    BY <1>14, <2>1, <2>2
<1>16. ASSUME NEW h \in Peers(x, g) \ kept, ~(Alike(x, g, h) < MinScore)
       PROVE  Cardinality(kept) = MaxResults /\ \A k \in kept : Alike(x, g, k) >= Alike(x, g, h)
  <2>1. h \in RankedGame /\ fused[h] \in Nat /\ fused[h] = Alike(x, g, h) /\ fused[h] >= MinScore
    BY <1>8, <1>16 DEF SimSettings
  <2>2. place[h] \in 1..c /\ MaxResults < place[h] /\ MaxResults \in 0..c
    BY <1>5, <1>6, <1>9, <1>16, <2>1 DEF SimSettings
  <2>3. Cardinality({k \in RankedGame : PlaceIn(R, RankedGame, k) <= MaxResults}) = MaxResults
    BY <1>4, <1>5, <2>2, PlacesAreTaken
  <2>4. \A k \in RankedGame : place[k] <= MaxResults => fused[k] \in Int /\ fused[k] >= fused[h]
    <3>1. SUFFICES ASSUME NEW k \in RankedGame, place[k] <= MaxResults
                   PROVE  fused[k] \in Int /\ fused[k] >= fused[h]
      OBVIOUS
    <3>2. place[k] < place[h] /\ fused[k] \in Int
      BY <1>5, <1>6, <1>8, <2>2, <3>1
    <3>3. fused[k] > fused[h] \/ fused[k] = fused[h]
      BY <1>6, <2>1, <3>1, <3>2
    <3>. QED
      BY <2>1, <3>2, <3>3
  <2>5. kept = {k \in RankedGame : PlaceIn(R, RankedGame, k) <= MaxResults}
    <3>1. \A k \in RankedGame : place[k] <= MaxResults => fused[k] >= MinScore
      <4>1. \A k \in RankedGame : place[k] <= MaxResults => fused[k] \in Int /\ fused[k] >= fused[h] /\ fused[h] >= MinScore
        BY <2>1, <2>4
      <4>2. MinScore \in Int /\ fused[h] \in Int
        BY <2>1 DEF SimSettings
      <4>. QED
        BY <4>1, <4>2
    <3>2. kept = {k \in RankedGame : place[k] <= MaxResults}
      BY <1>9, <3>1
    <3>. QED
      BY <1>4, <3>2
  <2>. QED
    BY <1>9, <1>14, <2>1, <2>3, <2>4, <2>5
<1>17. \A n \in DOMAIN best :
          /\ best[n].id \in Peers(x, g) /\ Alike(x, g, best[n].id) >= MinScore
          /\ best[n].basis = IF ByText(x, g) THEN "description" ELSE "title"
  BY <1>11, <1>14
<1>18. \A h \in Peers(x, g) \ {best[n].id : n \in DOMAIN best} :
          \/ Alike(x, g, h) < MinScore
          \/ /\ Cardinality({best[n].id : n \in DOMAIN best}) = MaxResults
             /\ \A n \in DOMAIN best : Alike(x, g, best[n].id) >= Alike(x, g, h)
  <2>1. \A n \in DOMAIN best : best[n].id \in kept
    BY <1>11
  <2>2. SUFFICES ASSUME NEW h \in Peers(x, g) \ kept, ~(Alike(x, g, h) < MinScore)
                 PROVE  /\ Cardinality(kept) = MaxResults
                        /\ \A n \in DOMAIN best : Alike(x, g, best[n].id) >= Alike(x, g, h)
    BY Zenon, <1>13
  <2>3. Cardinality(kept) = MaxResults /\ \A k \in kept : Alike(x, g, k) >= Alike(x, g, h)
    BY <1>16, <2>2
  <2>. QED
    BY <2>1, <2>3
<1>19. RowIsRight(x, g, best)
  BY Zenon, <1>15, <1>17, <1>18 DEF RowIsRight
<1>. QED
  BY <1>10, <1>19

-----------------------------------------------------------------------------
LEMMA SimNext ==
    ASSUME SimSettings, SimInv, [Sim!Next]_(Sim!vars)
    PROVE  SimInv'
<1>1. CASE Sim!Given
  <2>1. input = Sim!Nothing /\ ranking' = ranking
    BY <1>1 DEF Sim!Given
  <2>2. input' \in Inputs
    BY <1>1 DEF Sim!Given, Inputs
  <2>. QED
    BY <2>1, <2>2 DEF SimInv, Sim!Nothing
<1>2. CASE Sim!Rank
  <2>1. PICK x : x = input
    OBVIOUS
  <2>2. x \in Inputs /\ x # Sim!Nothing /\ input' = x
    BY <1>2, <2>1 DEF Sim!Rank, SimInv
  <2>3. PICK r : r = ranking'
    OBVIOUS
  <2>4. r = [g \in RankedGame |-> IF Sim!Cardinality(RankedGame) < 2 THEN <<>> ELSE Sim!Neighbors(g)]
    BY <1>2, <2>3 DEF Sim!Rank
  <2>5. ASSUME NEW g \in RankedGame
        PROVE  RowIsRight(x, g, r[g])
    <3>1. CASE Sim!Cardinality(RankedGame) < 2
      <4>1. Sim!Cardinality(RankedGame) = Cardinality(RankedGame)
        BY Zenon DEF Sim!Cardinality, Cardinality
      <4>2. Cardinality(RankedGame) = 1
        <5>1. Cardinality(RankedGame) \in Nat /\ Cardinality(RankedGame) # 0
          BY <2>5, FS_CardinalityType, FS_EmptySet DEF SimSettings
        <5>. QED
          BY <3>1, <4>1, <5>1
      <4>3. RankedGame = {g}
        <5>1. \E y : RankedGame = {y}
          BY <4>2, FS_Singleton DEF SimSettings
        <5>. QED
          BY <2>5, <5>1
      <4>4. Peers(x, g) = {}
        BY <2>1, <2>2, <2>5, <4>3, SimDescribed
      <4>5. r[g] = <<>> /\ DOMAIN r[g] = {}
        BY <2>4, <2>5, <3>1
      <4>. QED
        BY <4>4, <4>5 DEF RowIsRight
    <3>2. CASE ~(Sim!Cardinality(RankedGame) < 2)
      BY <2>1, <2>2, <2>4, <2>5, <3>2, SimRow
    <3>. QED
      BY <3>1, <3>2
  <2>. QED
    BY <2>2, <2>3, <2>5 DEF SimInv
<1>3. CASE Sim!Delete \/ UNCHANGED Sim!vars
  <2>1. input' = input /\ ranking' = ranking
    BY <1>3 DEF Sim!Delete, Sim!vars
  <2>2. PICK x, r : x = input /\ r = ranking
    OBVIOUS
  <2>. QED
    BY <2>1, <2>2 DEF SimInv
<1>. QED
  BY <1>1, <1>2, <1>3 DEF Sim!Next

LEMMA SimShown ==
    ASSUME SimSettings, SimInv
    PROVE  Sim!SimilarAreShown
<1>1. SUFFICES ASSUME ranking # Sim!Nothing, NEW g \in RankedGame \ deleted
               PROVE  LET byDescription == g \in input.described /\ input.described # {g}
                          peers == (IF byDescription THEN input.described ELSE RankedGame) \ {g}
                          Alik(h) == Sim!Bonus(g, h) + IF byDescription THEN input.byText[<<g, h>>]
                                                                        ELSE input.byLabel[<<g, h>>]
                          best   == ranking[g]
                          shown == {best[n].id : n \in Sim!Shown(g)}
                          found == {best[n].id : n \in DOMAIN best}
                      IN /\ shown \subseteq peers \ deleted
                         /\ \A n \in Sim!Shown(g) : /\ Alik(best[n].id) >= MinScore
                                                    /\ best[n].basis = IF byDescription THEN "description" ELSE "title"
                         /\ \A m, n \in Sim!Shown(g) :
                               m < n => \/ Alik(best[m].id) > Alik(best[n].id)
                                        \/ Alik(best[m].id) = Alik(best[n].id) /\ best[m].id < best[n].id
                         /\ \A h \in peers \ (shown \cup deleted) :
                               \/ Alik(h) < MinScore
                               \/ Sim!Cardinality(found) = MaxResults /\ \A k \in shown : Alik(k) >= Alik(h)
  BY DEF Sim!SimilarAreShown
<1>. DEFINE byDescription == g \in input.described /\ input.described # {g}
            peers == (IF byDescription THEN input.described ELSE RankedGame) \ {g}
            Alik(h) == Sim!Bonus(g, h) + IF byDescription THEN input.byText[<<g, h>>] ELSE input.byLabel[<<g, h>>]
            best   == ranking[g]
            shown == {best[n].id : n \in Sim!Shown(g)}
            found == {best[n].id : n \in DOMAIN best}
<1>2. PICK x : x = input
  OBVIOUS
<1>3. byDescription = ByText(x, g) /\ peers = Peers(x, g) /\ \A h : Alik(h) = Alike(x, g, h)
  BY <1>2 DEF Alike, Sim!Bonus, ByText, Peers
<1>4. Sim!Shown(g) = {n \in DOMAIN best : best[n].id \notin deleted \cup {g}}
  BY DEF Sim!Shown
<1>5. RowIsRight(x, g, best)
  BY <1>1, <1>2 DEF SimInv
<1>. HIDE DEF byDescription, peers, Alik, best
<1>6. shown \subseteq peers \ deleted
  BY <1>3, <1>4, <1>5 DEF RowIsRight
<1>7. \A n \in Sim!Shown(g) : /\ Alik(best[n].id) >= MinScore
                              /\ best[n].basis = IF byDescription THEN "description" ELSE "title"
  BY <1>3, <1>4, <1>5 DEF RowIsRight
<1>8. \A m, n \in Sim!Shown(g) : m < n => \/ Alik(best[m].id) > Alik(best[n].id)
                                          \/ Alik(best[m].id) = Alik(best[n].id) /\ best[m].id < best[n].id
  BY <1>3, <1>4, <1>5 DEF RowIsRight
<1>9. ASSUME NEW h \in peers \ (shown \cup deleted)
      PROVE  \/ Alik(h) < MinScore
             \/ Sim!Cardinality(found) = MaxResults /\ \A k \in shown : Alik(k) >= Alik(h)
  <2>1. h \in Peers(x, g) /\ h \notin found
    <3>1. h \in Peers(x, g) /\ h # g
      BY <1>3, <1>9 DEF Peers
    <3>. QED
      BY <1>4, <1>9, <3>1
  <2>2. Sim!Cardinality(found) = Cardinality(found)
    BY Zenon DEF Sim!Cardinality, Cardinality
  <2>3. \/ Alike(x, g, h) < MinScore
        \/ Cardinality(found) = MaxResults /\ \A n \in DOMAIN best : Alike(x, g, best[n].id) >= Alike(x, g, h)
    BY <1>5, <2>1 DEF RowIsRight
  <2>. QED
    BY <1>3, <1>4, <2>2, <2>3
<1>. QED
  BY <1>6, <1>7, <1>8, <1>9 DEF byDescription, peers, Alik, best

\* The page of a game shows the games most like it, best first, among those the policy compares it
\* with, and leaves none out but for its limits (similarity/text.py, catalog/queries.py).
THEOREM SimHolds ==
    ASSUME SimSettings
    PROVE  Sim!Spec => []Sim!SimilarAreShown
<1>1. Sim!Init => SimInv
  BY DEF Sim!Init, SimInv
<1>2. SimInv /\ [Sim!Next]_(Sim!vars) => SimInv'
  BY SimNext
<1>3. SimInv => Sim!SimilarAreShown
  BY SimShown
<1>. QED
  BY <1>1, <1>2, <1>3, PTL DEF Sim!Spec

------------------------------------------------------------------------------
(* Gateway: one fetch of a page.                                             *)

\* There is an attempt, and a chunk takes a read; the rest is as long as it may be.
GatSettings ==
    /\ FetchAttempts \in Nat \ {0} /\ Pauses \in [1..(FetchAttempts - 1) -> Nat]
    /\ RequestTimeout \in Nat /\ ResponseDeadline \in Nat /\ MaxBody \in Nat
    /\ ChunkReads \in Nat \ {0}

-----------------------------------------------------------------------------
(* The inductive invariant: the time of the attempts before this one, their    *)
(* heads apart, and that of this one by the reads of the chunk at hand.        *)

Sent == [pc : {"connect", "stream", "parse", "returned"}, kind : Gat!Fetch, attempt : Nat \ {0},
         body : Nat, reads : Nat, status : Nat, elapsed : Nat, total : Nat, head : Nat, heads : Nat,
         retried : BOOLEAN]
Asleep == [pc |-> "idle"]

\* What an attempt takes before a chunk is read, and after the head has come.
Late(h)   == IF h > ResponseDeadline THEN h ELSE ResponseDeadline
MostTime  == ResponseDeadline + ChunkReads * RequestTimeout
Paused(n) == SumFunctionOnSet(Pauses, 1..n)
Earlier(c) == (c.attempt - 1) * MostTime + Paused(c.attempt - 1)

\* Time that counts against the bounds: all but that of the heads.
Timed(c) == /\ c.attempt <= FetchAttempts /\ c.elapsed <= Late(c.head) + ChunkReads * RequestTimeout
            /\ c.head <= c.elapsed
            /\ c.total + c.head <= c.heads + Earlier(c) + c.elapsed
GatReading(c) == /\ c.pc = "connect" => c.elapsed = c.head
                 /\ c.pc = "stream" => /\ c.reads < ChunkReads
                                       /\ c.elapsed <= c.reads * RequestTimeout + Late(c.head)

\* What the evidence says of an attempt that has ended, and what is known of the page.
GatTold(c) ==
    /\ c.pc # "returned" => page = Gat!None /\ fetched = Gat!None
    /\ c.pc = "parse" => evidence = Gat!Evidence(200, TRUE, "none")
    /\ c.pc = "returned" =>
          /\ fetched # Gat!None <=> evidence.outcome = "succeeded"
          /\ fetched # Gat!None => evidence.sha /\ evidence.status = 200 /\ page.of = "asked"
          /\ evidence.outcome = "failed" => page = Gat!None
          /\ evidence.outcome = "failed" /\ c.retried => c.attempt = FetchAttempts
          /\ evidence.error = "http_status" /\ evidence.status \in Gat!Retryable => c.attempt = FetchAttempts
          /\ fetched # Gat!None /\ c.kind # "platform_userscore" => fetched.entries = page.entries

GatInv == \/ call = Asleep /\ page = Gat!None /\ fetched = Gat!None
          \/ call \in Sent /\ Timed(call) /\ GatReading(call) /\ GatTold(call)

-----------------------------------------------------------------------------
(* Bounds.                                                                     *)

LEMMA GatBounds ==
    ASSUME GatSettings
    PROVE  /\ \A h \in Nat : /\ Late(h) \in Nat /\ ResponseDeadline <= Late(h) /\ h <= Late(h)
                            /\ Late(h) <= h + ResponseDeadline
           /\ ChunkReads * RequestTimeout \in Nat /\ MostTime \in Nat
           /\ \A n \in Nat : n * RequestTimeout \in Nat /\ (n + 1) * RequestTimeout = n * RequestTimeout + RequestTimeout
           /\ \A n \in Nat : n <= ChunkReads => n * RequestTimeout <= ChunkReads * RequestTimeout
           /\ \A n \in Nat : n * MostTime \in Nat /\ (n + 1) * MostTime = n * MostTime + MostTime
<1>7. \A h \in Nat : /\ Late(h) \in Nat /\ ResponseDeadline <= Late(h) /\ h <= Late(h)
                    /\ Late(h) <= h + ResponseDeadline
  BY DEF GatSettings, Late
<1>8. ChunkReads * RequestTimeout \in Nat /\ MostTime \in Nat
  BY DEF GatSettings, MostTime
<1>9. ASSUME NEW n \in Nat
      PROVE  n * RequestTimeout \in Nat /\ (n + 1) * RequestTimeout = n * RequestTimeout + RequestTimeout
  BY DEF GatSettings
<1>10. ASSUME NEW n \in Nat, n <= ChunkReads
       PROVE  n * RequestTimeout <= ChunkReads * RequestTimeout
  <2>1. PICK d \in Nat : ChunkReads = n + d
    <3>1. ChunkReads - n \in Nat /\ ChunkReads = n + (ChunkReads - n)
      BY <1>10 DEF GatSettings
    <3>. QED
      BY <3>1
  <2>2. ChunkReads * RequestTimeout = n * RequestTimeout + d * RequestTimeout /\ d * RequestTimeout \in Nat
    BY <2>1 DEF GatSettings
  <2>. QED
    BY <1>9, <2>2
<1>11. ASSUME NEW n \in Nat
       PROVE  n * MostTime \in Nat /\ (n + 1) * MostTime = n * MostTime + MostTime
  <2>1. PICK m \in Nat : m = MostTime
    BY <1>8
  <2>2. n * m \in Nat /\ (n + 1) * m = n * m + m
    OBVIOUS
  <2>. QED
    BY <2>1, <2>2
<1>. QED
  BY <1>7, <1>8, <1>9, <1>10, <1>11

\* The pauses add up as the attempts do.
LEMMA GatPauses ==
    ASSUME GatSettings, NEW n \in Nat, n < FetchAttempts
    PROVE  /\ Paused(n) \in Nat
           /\ n > 0 => Pauses[n] \in Nat /\ Paused(n) = Paused(n - 1) + Pauses[n]
<1>1. IsFiniteSet(1..n) /\ IsFiniteSet(1..(n - 1))
  <2>1. 1 \in Int /\ n \in Int /\ n - 1 \in Int
    OBVIOUS
  <2>. QED
    BY <2>1, FS_Interval
<1>2. \A i \in 1..n : Pauses[i] \in Nat
  BY DEF GatSettings
<1>3. Paused(n) \in Nat
  BY <1>1, <1>2, SumType DEF Paused
<1>4. ASSUME n > 0
      PROVE  Pauses[n] \in Nat /\ Paused(n) = Paused(n - 1) + Pauses[n]
  <2>1. 1..n = 1..(n - 1) \cup {n} /\ n \notin 1..(n - 1) /\ n \in 1..n
    BY <1>4
  <2>2. PICK S : S = 1..(n - 1)
    OBVIOUS
  <2>3. \A i \in S : Pauses[i] \in Nat
    BY <1>2, <2>2
  <2>4. SumFunctionOnSet(Pauses, S \cup {n}) = Pauses[n] + SumFunctionOnSet(Pauses, S)
    BY <1>1, <1>2, <2>1, <2>2, <2>3, SumOfAdded
  <2>5. SumFunctionOnSet(Pauses, S) \in Nat
    BY <1>1, <2>2, <2>3, SumType
  <2>6. Paused(n) = SumFunctionOnSet(Pauses, S \cup {n}) /\ Paused(n - 1) = SumFunctionOnSet(Pauses, S)
    BY <2>1, <2>2, Zenon DEF Paused
  <2>. QED
    BY <1>2, <2>1, <2>4, <2>5, <2>6
<1>. QED
  BY <1>3, <1>4

-----------------------------------------------------------------------------
(* The end of an attempt.                                                      *)

LEMMA GatEnded ==
    ASSUME GatSettings, NEW c \in Sent, Timed(c), NEW ev, NEW retryable \in BOOLEAN,
           NEW status, NEW whole, NEW error, ev = Gat!Evidence(status, whole, error),
           error = "none" => ev = Gat!Evidence(200, TRUE, "none"),
           error = "http_status" /\ status \in Gat!Retryable => retryable,
           Gat!Ended(c, ev, retryable),
           page' = Gat!None, fetched' = Gat!None
    PROVE  GatInv'
<1>1. /\ evidence' = ev /\ ev.status = status /\ ev.sha = whole /\ ev.error = error
      /\ ev.outcome = IF error = "none" THEN "succeeded" ELSE "failed"
  BY DEF Gat!Ended, Gat!Evidence
<1>2. /\ c.attempt \in Nat \ {0} /\ c.elapsed \in Nat /\ c.total \in Nat /\ c.head \in Nat /\ c.heads \in Nat
      /\ c.attempt <= FetchAttempts /\ c.total + c.head <= c.heads + Earlier(c) + c.elapsed
      /\ c.elapsed <= c.head + MostTime
  <2>1. c.attempt \in Nat \ {0} /\ c.elapsed \in Nat /\ c.total \in Nat /\ c.head \in Nat /\ c.heads \in Nat
    BY DEF Sent
  <2>2. c.elapsed <= Late(c.head) + ChunkReads * RequestTimeout
    BY DEF Timed
  <2>3. Late(c.head) \in Nat /\ Late(c.head) <= c.head + ResponseDeadline /\ ChunkReads * RequestTimeout \in Nat
        /\ ResponseDeadline \in Nat
    BY <2>1, GatBounds DEF GatSettings
  <2>. QED
    BY <2>1, <2>2, <2>3 DEF Timed, MostTime
<1>3. CASE error # "none" /\ retryable /\ c.attempt < FetchAttempts
  <2>1. PICK m : m = [c EXCEPT !.pc = "connect", !.attempt = @ + 1, !.body = 0, !.reads = 0, !.status = 0,
                              !.elapsed = 0, !.head = 0, !.total = @ + Pauses[c.attempt]]
    OBVIOUS
  <2>2. call' = m
    BY <1>1, <1>3, <2>1 DEF Gat!Ended
  <2>3. PICK n \in Nat : n = c.attempt - 1
    BY <1>2
  <2>4. c.attempt \in Nat /\ Pauses[c.attempt] \in Nat /\ Paused(c.attempt) = Paused(n) + Pauses[c.attempt]
        /\ Paused(n) \in Nat
    <3>1. c.attempt \in Nat /\ c.attempt < FetchAttempts /\ c.attempt > 0 /\ n < FetchAttempts
      BY <1>2, <1>3, <2>3 DEF GatSettings
    <3>2. Pauses[c.attempt] \in Nat /\ Paused(c.attempt) = Paused(c.attempt - 1) + Pauses[c.attempt]
      BY <3>1, GatPauses
    <3>3. Paused(n) \in Nat
      BY <3>1, GatPauses
    <3>. QED
      BY <2>3, <3>1, <3>2, <3>3
  <2>5. /\ m \in Sent /\ m.pc = "connect" /\ m.attempt = c.attempt + 1 /\ m.elapsed = 0 /\ m.head = 0
        /\ m.total = c.total + Pauses[c.attempt] /\ m.heads = c.heads
    <3>1. PICK b \in Nat : b = Pauses[c.attempt]
      BY <2>4
    <3>2. m = [c EXCEPT !.pc = "connect", !.attempt = @ + 1, !.body = 0, !.reads = 0, !.status = 0,
                        !.elapsed = 0, !.head = 0, !.total = @ + b]
      BY <2>1, <3>1
    <3>3. c.attempt + 1 \in Nat \ {0} /\ c.total + b \in Nat
      BY <1>2, <3>1
    <3>. QED
      BY <3>1, <3>2, <3>3 DEF Sent
  <2>6. n * MostTime \in Nat /\ (n + 1) * MostTime = n * MostTime + MostTime /\ MostTime \in Nat
    BY GatBounds
  <2>7. Timed(m)
    <3>1. Earlier(m) = (n + 1) * MostTime + Paused(c.attempt)
      <4>1. m.attempt - 1 = c.attempt /\ n + 1 = c.attempt
        BY <1>2, <2>3, <2>5
      <4>. QED
        BY <4>1 DEF Earlier
    <3>2. Earlier(c) = n * MostTime + Paused(n)
      BY <2>3 DEF Earlier
    <3>3. PICK x, y, z : x = n * MostTime /\ y = Paused(n) /\ z = Paused(c.attempt)
      OBVIOUS
    <3>4. m.total <= m.heads + Earlier(m)
      BY <1>2, <2>4, <2>5, <2>6, <3>1, <3>2, <3>3
    <3>5. m.total + m.head <= m.heads + Earlier(m) + m.elapsed
      BY <1>2, <2>4, <2>5, <2>6, <3>1, <3>4
    <3>6. m.elapsed <= Late(m.head) + ChunkReads * RequestTimeout
      BY <2>5, GatBounds
    <3>. QED
      BY <1>2, <1>3, <2>5, <3>5, <3>6 DEF GatSettings, Timed
  <2>8. GatReading(m)
    BY <2>5 DEF GatReading
  <2>9. GatTold(m)'
    BY <2>5 DEF GatTold
  <2>10. Timed(m)' /\ GatReading(m)'
    BY <2>7, <2>8 DEF Timed, GatReading, Earlier, Paused, MostTime, Late
  <2>. QED
    BY <2>2, <2>5, <2>9, <2>10 DEF GatInv
<1>4. CASE ~(error # "none" /\ retryable /\ c.attempt < FetchAttempts)
  <2>1. PICK m : m = [c EXCEPT !.pc = IF error # "none" THEN "returned" ELSE "parse", !.retried = retryable]
    OBVIOUS
  <2>2. call' = m
    BY <1>1, <1>4, <2>1 DEF Gat!Ended
  <2>3. /\ m \in Sent /\ m.pc = (IF error # "none" THEN "returned" ELSE "parse") /\ m.attempt = c.attempt
        /\ m.total = c.total /\ m.elapsed = c.elapsed /\ m.retried = retryable
        /\ m.head = c.head /\ m.heads = c.heads
    BY <2>1 DEF Sent
  <2>4. Timed(m) /\ GatReading(m)
    BY <1>2, <2>3 DEF Timed, GatReading, Earlier
  <2>5. GatTold(m)'
    <3>1. CASE error = "none"
      BY <1>1, <2>3, <3>1 DEF GatTold
    <3>2. CASE error # "none"
      BY <1>1, <1>2, <1>4, <2>3, <3>2 DEF GatTold, GatSettings
    <3>. QED
      BY <3>1, <3>2
  <2>6. Timed(m)' /\ GatReading(m)'
    BY <2>4 DEF Timed, GatReading, Earlier, Paused, MostTime, Late
  <2>. QED
    BY <2>2, <2>3, <2>5, <2>6 DEF GatInv
<1>. QED
  BY <1>3, <1>4

-----------------------------------------------------------------------------
(* The steps.                                                                  *)

\* A call that is under way.
LEMMA GatOnTheWay ==
    ASSUME GatSettings, GatInv, call.pc \in {"connect", "stream", "parse"}
    PROVE  /\ call \in Sent /\ Timed(call) /\ GatReading(call) /\ GatTold(call)
           /\ page = Gat!None /\ fetched = Gat!None
<1>1. call # Asleep
  BY DEF Asleep
<1>. QED
  BY <1>1 DEF GatInv, GatTold

LEMMA GatEarlier ==
    ASSUME GatSettings, call \in Sent, Timed(call)
    PROVE  Earlier(call) \in Nat
<1>1. PICK k \in Nat : k = call.attempt - 1 /\ k < FetchAttempts
  BY DEF Sent, Timed, GatSettings
<1>2. k * MostTime \in Nat /\ Paused(k) \in Nat
  BY <1>1, GatBounds, GatPauses
<1>. QED
  BY <1>1, <1>2 DEF Earlier

\* The call some time later, with the fields that count.
LEMMA GatAfter ==
    ASSUME GatSettings, call \in Sent, NEW n \in Nat
    PROVE  LET a == Gat!After(n) IN
           /\ a \in Sent /\ a.elapsed = call.elapsed + n /\ a.total = call.total + n
           /\ a.attempt = call.attempt /\ a.reads = call.reads /\ a.pc = call.pc /\ a.status = call.status
           /\ a.body = call.body /\ a.head = call.head /\ a.heads = call.heads
<1>1. PICK a : a = [call EXCEPT !.elapsed = @ + n, !.total = @ + n]
  OBVIOUS
<1>2. call.elapsed + n \in Nat /\ call.total + n \in Nat
  BY DEF Sent
<1>3. /\ a \in Sent /\ a.elapsed = call.elapsed + n /\ a.total = call.total + n
      /\ a.attempt = call.attempt /\ a.reads = call.reads /\ a.pc = call.pc /\ a.status = call.status
      /\ a.body = call.body /\ a.head = call.head /\ a.heads = call.heads
  BY <1>1, <1>2 DEF Sent
<1>. QED
  BY <1>1, <1>3 DEF Gat!After

\* An operation before the body: its time is the head's.
LEMMA GatOpened ==
    ASSUME GatSettings, call \in Sent, Timed(call), GatReading(call), call.pc = "connect", NEW n \in Nat
    PROVE  LET a == Gat!Opened(n) IN
           /\ a \in Sent /\ a.elapsed = a.head /\ a.attempt = call.attempt /\ a.pc = "connect" /\ Timed(a)
<1>1. PICK b : b = Gat!After(n) /\ b \in Sent /\ b.elapsed = call.elapsed + n /\ b.total = call.total + n
           /\ b.attempt = call.attempt /\ b.reads = call.reads /\ b.pc = call.pc
           /\ b.head = call.head /\ b.heads = call.heads
  BY GatAfter
<1>2. PICK a : a = [b EXCEPT !.reads = @ + 1, !.head = @ + n, !.heads = @ + n]
  OBVIOUS
<1>3. b.reads + 1 \in Nat /\ b.head + n \in Nat /\ b.heads + n \in Nat
  BY <1>1 DEF Sent
<1>4. /\ a \in Sent /\ a.elapsed = call.elapsed + n /\ a.total = call.total + n
      /\ a.attempt = call.attempt /\ a.pc = "connect" /\ a.head = call.head + n /\ a.heads = call.heads + n
  BY <1>1, <1>2, <1>3 DEF Sent
<1>5. /\ call.head \in Nat /\ call.elapsed = call.head /\ call.heads \in Nat /\ call.total \in Nat
      /\ call.attempt <= FetchAttempts /\ call.total + call.head <= call.heads + Earlier(call) + call.elapsed
  BY DEF Sent, Timed, GatReading
<1>6. Earlier(a) = Earlier(call) /\ Earlier(a) \in Nat
  <2>1. Earlier(call) \in Nat
    BY GatEarlier
  <2>2. Earlier(a) = Earlier(call)
    BY <1>4 DEF Earlier
  <2>. QED
    BY <2>1, <2>2
<1>7. a.elapsed = a.head /\ a.head \in Nat /\ a.head <= a.elapsed
  BY <1>4, <1>5
<1>8. a.elapsed <= Late(a.head) + ChunkReads * RequestTimeout
  <2>1. PICK h \in Nat : h = a.head /\ h = a.elapsed
    BY <1>7
  <2>2. PICK l \in Nat, m \in Nat : l = Late(h) /\ m = ChunkReads * RequestTimeout /\ h <= l
    BY <2>1, GatBounds
  <2>3. h <= l + m
    BY <2>2
  <2>. QED
    BY <2>1, <2>2, <2>3
<1>9. a.total + a.head <= a.heads + Earlier(a) + a.elapsed
  <2>1. PICK e \in Nat : e = Earlier(a) /\ e = Earlier(call)
    BY <1>6
  <2>2. PICK t \in Nat, h \in Nat, g \in Nat, x \in Nat :
           t = call.total /\ h = call.head /\ g = call.heads /\ x = call.elapsed
    BY <1>5 DEF Sent
  <2>3. a.total = t + n /\ a.head = h + n /\ a.heads = g + n /\ a.elapsed = x + n /\ t + h <= g + e + x
    BY <1>4, <1>5, <2>1, <2>2
  <2>4. (t + n) + (h + n) <= (g + n) + e + (x + n)
    <3>1. n \in Nat /\ t \in Nat /\ h \in Nat /\ g \in Nat /\ e \in Nat /\ x \in Nat /\ t + h <= g + e + x
      BY <2>3
    <3>. QED
      BY ONLY <3>1
  <2>. QED
    BY <2>1, <2>3, <2>4
<1>10. Timed(a)
  BY <1>4, <1>5, <1>7, <1>8, <1>9 DEF Timed
<1>. QED
  BY <1>1, <1>2, <1>4, <1>7, <1>10 DEF Gat!Opened

\* It is in time as long as the attempt is.
LEMMA GatStillTimed ==
    ASSUME GatSettings, call \in Sent, Timed(call), NEW c \in Sent,
           c.attempt = call.attempt, NEW n \in Nat, c.elapsed = call.elapsed + n,
           c.total = call.total + n, c.head = call.head, c.heads = call.heads,
           c.elapsed <= Late(c.head) + ChunkReads * RequestTimeout
    PROVE  Timed(c)
<1>1. Earlier(c) = Earlier(call) /\ Earlier(c) \in Nat
  BY GatEarlier DEF Earlier
<1>. QED
  BY <1>1 DEF Timed, Sent

LEMMA GatInit ==
    ASSUME Gat!Init
    PROVE  GatInv
BY DEF Gat!Init, GatInv, Asleep

LEMMA GatAsk ==
    ASSUME GatSettings, GatInv, Gat!Ask
    PROVE  GatInv'
<1>1. PICK kind \in Gat!Fetch :
        call' = [pc |-> "connect", kind |-> kind, attempt |-> 1, body |-> 0, reads |-> 0,
                 status |-> 0, elapsed |-> 0, total |-> 0, head |-> 0, heads |-> 0, retried |-> TRUE]
  BY DEF Gat!Ask
<1>2. PICK m : m = [pc |-> "connect", kind |-> kind, attempt |-> 1, body |-> 0, reads |-> 0,
                 status |-> 0, elapsed |-> 0, total |-> 0, head |-> 0, heads |-> 0, retried |-> TRUE]
  OBVIOUS
<1>3. /\ m \in Sent /\ m.pc = "connect" /\ m.attempt = 1 /\ m.elapsed = 0 /\ m.total = 0 /\ m.head = 0 /\ m.heads = 0
  BY <1>2 DEF Sent
<1>4. page' = Gat!None /\ fetched' = Gat!None
  BY DEF Gat!Ask, GatInv, Sent
<1>5. Timed(m)
  <2>1. Paused(0) \in Nat /\ MostTime \in Nat /\ 0 * MostTime = 0
    <3>1. Paused(0) \in Nat
      BY GatPauses DEF GatSettings
    <3>2. PICK k \in Nat : k = MostTime
      BY GatBounds
    <3>. QED
      BY <3>1, <3>2
  <2>2. Earlier(m) = Paused(0)
    BY <1>3, <2>1 DEF Earlier
  <2>3. m.elapsed <= Late(m.head) + ChunkReads * RequestTimeout
    BY <1>3, GatBounds
  <2>. QED
    BY <1>3, <2>1, <2>2, <2>3 DEF Timed, GatSettings
<1>6. Timed(m)' /\ GatReading(m)' /\ GatTold(m)'
  BY <1>3, <1>4, <1>5 DEF Timed, GatReading, GatTold, Earlier, Paused, MostTime, Late
<1>. QED
  BY <1>1, <1>2, <1>3, <1>6 DEF GatInv

LEMMA GatOpens ==
    ASSUME GatSettings, GatInv, Gat!Opens
    PROVE  GatInv'
<1>1. call.pc = "connect" /\ page' = page /\ fetched' = fetched
  BY Zenon DEF Gat!Opens
<1>2. PICK n \in 0..RequestTimeout : call' = Gat!Opened(n)
  BY Zenon DEF Gat!Opens
<1>3. /\ call \in Sent /\ Timed(call) /\ GatReading(call) /\ page = Gat!None /\ fetched = Gat!None
  BY <1>1, GatOnTheWay
<1>4. n \in Nat
  BY DEF GatSettings
<1>5. PICK m : m = Gat!Opened(n) /\ m \in Sent /\ m.elapsed = m.head /\ m.pc = "connect" /\ Timed(m)
  BY <1>1, <1>3, <1>4, GatOpened
<1>6. GatReading(m)
  BY <1>5 DEF GatReading
<1>7. Timed(m)' /\ GatReading(m)' /\ GatTold(m)'
  BY <1>1, <1>3, <1>5, <1>6 DEF Timed, GatReading, GatTold, Earlier, Paused, MostTime, Late
<1>. QED
  BY <1>2, <1>5, <1>7 DEF GatInv

LEMMA GatAnswers ==
    ASSUME GatSettings, GatInv, Gat!Answers
    PROVE  GatInv'
<1>1. call.pc = "connect" /\ page' = page /\ fetched' = fetched
  BY Zenon DEF Gat!Answers
<1>2. PICK n \in 0..RequestTimeout, status \in Gat!Status :
         call' = [Gat!Opened(n) EXCEPT !.pc = "stream", !.reads = 0, !.status = status]
  BY Zenon DEF Gat!Answers
<1>3. /\ call \in Sent /\ Timed(call) /\ GatReading(call) /\ page = Gat!None /\ fetched = Gat!None
  BY <1>1, GatOnTheWay
<1>4. n \in Nat /\ status \in Nat
  BY DEF GatSettings, Gat!Status, Gat!Retryable
<1>5. PICK a : a = Gat!Opened(n) /\ a \in Sent /\ a.elapsed = a.head /\ Timed(a)
  BY <1>1, <1>3, <1>4, GatOpened
<1>6. PICK m : m = [a EXCEPT !.pc = "stream", !.reads = 0, !.status = status]
  OBVIOUS
<1>7. /\ m \in Sent /\ m.pc = "stream" /\ m.elapsed = a.elapsed /\ m.total = a.total
      /\ m.attempt = a.attempt /\ m.reads = 0 /\ m.head = a.head /\ m.heads = a.heads
  BY <1>4, <1>5, <1>6 DEF Sent
<1>8. Timed(m)
  BY <1>5, <1>7 DEF Timed, Earlier
<1>9. GatReading(m)
  <2>1. 0 * RequestTimeout = 0 /\ 0 < ChunkReads
    BY DEF GatSettings
  <2>2. m.elapsed <= Late(m.head) /\ Late(m.head) \in Nat
    <3>1. m.head \in Nat /\ m.elapsed = m.head
      BY <1>5, <1>7 DEF Sent
    <3>. QED
      BY <3>1, GatBounds
  <2>. QED
    BY <1>7, <2>1, <2>2 DEF GatReading
<1>10. Timed(m)' /\ GatReading(m)' /\ GatTold(m)'
  BY <1>1, <1>3, <1>7, <1>8, <1>9 DEF Timed, GatReading, GatTold, Earlier, Paused, MostTime, Late
<1>. QED
  BY <1>2, <1>5, <1>6, <1>7, <1>10 DEF GatInv

\* The answer has been read for some time since the chunk began.
LEMMA GatReadOn ==
    ASSUME GatSettings, call \in Sent, GatReading(call), call.pc = "stream", NEW n \in 0..RequestTimeout
    PROVE  /\ n \in Nat /\ call.reads \in Nat
           /\ call.reads + 1 <= ChunkReads
           /\ call.elapsed + n <= (call.reads + 1) * RequestTimeout + Late(call.head)
           /\ call.elapsed + n <= Late(call.head) + ChunkReads * RequestTimeout
<1>1. n \in Nat /\ n <= RequestTimeout /\ call.reads \in Nat /\ call.elapsed \in Nat /\ RequestTimeout \in Nat
      /\ ChunkReads \in Nat /\ call.head \in Nat
  BY DEF GatSettings, Sent
<1>2. PICK r, l : r = call.reads * RequestTimeout /\ l = Late(call.head)
  OBVIOUS
<1>3. call.reads < ChunkReads /\ call.elapsed <= r + l
  BY <1>2 DEF GatReading
<1>4. r \in Nat /\ (call.reads + 1) * RequestTimeout = r + RequestTimeout /\ l \in Nat
  BY <1>1, <1>2, GatBounds
<1>5. call.reads + 1 \in Nat /\ call.reads + 1 <= ChunkReads
  BY <1>1, <1>3
<1>6. (call.reads + 1) * RequestTimeout <= ChunkReads * RequestTimeout
  BY <1>5, GatBounds
<1>7. ChunkReads * RequestTimeout \in Nat
  BY GatBounds
<1>. QED
  BY <1>1, <1>2, <1>3, <1>4, <1>5, <1>6, <1>7

LEMMA GatHttpError ==
    ASSUME GatSettings, GatInv, Gat!HttpError
    PROVE  GatInv'
<1>1. page' = page /\ fetched' = fetched
  BY Zenon DEF Gat!HttpError
<1>2. PICK n \in 0..RequestTimeout, retryable \in BOOLEAN :
         \/ /\ call.pc = "connect"
            /\ Gat!Ended(Gat!Opened(n), Gat!Evidence(0, FALSE, "http_error"), retryable)
         \/ /\ call.pc = "stream"
            /\ Gat!Ended(Gat!After(n), Gat!Evidence(0, FALSE, "http_error"), retryable)
  BY Zenon DEF Gat!HttpError
<1>3. /\ call \in Sent /\ Timed(call) /\ GatReading(call) /\ page = Gat!None /\ fetched = Gat!None
  BY <1>2, GatOnTheWay
<1>4. n \in Nat
  BY DEF GatSettings
<1>5. PICK a \in Sent : Timed(a) /\ Gat!Ended(a, Gat!Evidence(0, FALSE, "http_error"), retryable)
  <2>1. CASE call.pc = "connect"
    <3>1. PICK a : a = Gat!Opened(n) /\ a \in Sent /\ Timed(a)
      BY <1>3, <1>4, <2>1, GatOpened
    <3>. QED
      BY <1>2, <2>1, <3>1
  <2>2. CASE call.pc = "stream"
    <3>1. PICK a : a = Gat!After(n) /\ a \in Sent /\ a.elapsed = call.elapsed + n /\ a.total = call.total + n
               /\ a.attempt = call.attempt /\ a.head = call.head /\ a.heads = call.heads
      BY <1>3, <1>4, GatAfter
    <3>2. a.elapsed <= Late(a.head) + ChunkReads * RequestTimeout
      BY <1>3, <2>2, <3>1, GatReadOn
    <3>3. Timed(a)
      BY <1>3, <1>4, <3>1, <3>2, GatStillTimed
    <3>. QED
      BY <1>2, <2>2, <3>1, <3>3
  <2>. QED
    BY <1>2, <2>1, <2>2
<1>7. page' = Gat!None /\ fetched' = Gat!None
  BY <1>1, <1>3
<1>8. "http_error" # "none" /\ "http_error" # "http_status"
  OBVIOUS
<1>. QED
  BY <1>5, <1>7, <1>8, GatEnded

\* A chunk that is whole.
LEMMA GatChunk ==
    ASSUME GatSettings, NEW c \in Sent
    PROVE  LET m == Gat!Chunk(c) IN
           /\ m \in Sent /\ m.elapsed = c.elapsed /\ m.total = c.total /\ m.attempt = c.attempt
           /\ m.pc = c.pc /\ m.reads = 0 /\ m.status = c.status /\ m.head = c.head /\ m.heads = c.heads
<1>1. PICK m : m = [c EXCEPT !.body = @ + 1, !.reads = 0]
  OBVIOUS
<1>2. c.body + 1 \in Nat
  BY DEF Sent
<1>3. /\ m \in Sent /\ m.elapsed = c.elapsed /\ m.total = c.total /\ m.attempt = c.attempt
      /\ m.pc = c.pc /\ m.reads = 0 /\ m.status = c.status /\ m.head = c.head /\ m.heads = c.heads
  BY <1>1, <1>2 DEF Sent
<1>. QED
  BY <1>1, <1>3 DEF Gat!Chunk

\* A chunk that breaks no limit came in time.
LEMMA GatNoErrors ==
    ASSUME GatSettings, NEW c \in Sent, Gat!Errors(c) = {}
    PROVE  c.elapsed <= ResponseDeadline
<1>1. ~Gat!Bounded(c, "response_too_large") /\ ~Gat!Bounded(c, "response_deadline_exceeded")
  BY DEF Gat!Errors
<1>. QED
  BY <1>1 DEF Gat!Bounded, GatSettings, Sent

LEMMA GatReads ==
    ASSUME GatSettings, GatInv, Gat!Reads
    PROVE  GatInv'
<1>1. call.pc = "stream" /\ page' = page /\ fetched' = fetched
  BY Zenon DEF Gat!Reads
<1>2. PICK n \in 0..RequestTimeout :
         LET c == [Gat!After(n) EXCEPT !.reads = @ + 1] IN
            \/ c.reads < ChunkReads /\ call' = c /\ UNCHANGED evidence
            \/ Gat!Errors(Gat!Chunk(c)) = {} /\ call' = Gat!Chunk(c) /\ UNCHANGED evidence
            \/ \E error \in Gat!Errors(Gat!Chunk(c)) :
                  Gat!Ended(Gat!Chunk(c), Gat!Evidence(c.status, FALSE, error), FALSE)
  BY Zenon DEF Gat!Reads
<1>3. /\ call \in Sent /\ Timed(call) /\ GatReading(call) /\ page = Gat!None /\ fetched = Gat!None
  BY <1>1, GatOnTheWay
<1>4. /\ n \in Nat /\ call.reads \in Nat /\ call.reads + 1 <= ChunkReads
      /\ call.elapsed + n <= (call.reads + 1) * RequestTimeout + Late(call.head)
      /\ call.elapsed + n <= Late(call.head) + ChunkReads * RequestTimeout
  BY <1>1, <1>3, GatReadOn
<1>5. PICK a : a = Gat!After(n) /\ a \in Sent /\ a.elapsed = call.elapsed + n /\ a.total = call.total + n
           /\ a.attempt = call.attempt /\ a.reads = call.reads /\ a.pc = call.pc
           /\ a.head = call.head /\ a.heads = call.heads
  BY <1>3, <1>4, GatAfter
<1>6. PICK c : c = [a EXCEPT !.reads = @ + 1]
  OBVIOUS
<1>7. /\ c \in Sent /\ c.elapsed = call.elapsed + n /\ c.total = call.total + n
      /\ c.attempt = call.attempt /\ c.reads = call.reads + 1 /\ c.pc = "stream"
      /\ c.head = call.head /\ c.heads = call.heads
  BY <1>1, <1>5, <1>6 DEF Sent
<1>8. Timed(c)
  BY <1>3, <1>4, <1>7, GatStillTimed
<1>9. PICK m : m = Gat!Chunk(c) /\ m \in Sent /\ m.elapsed = c.elapsed /\ m.total = c.total
           /\ m.attempt = c.attempt /\ m.pc = c.pc /\ m.reads = 0 /\ m.head = c.head /\ m.heads = c.heads
  BY <1>7, GatChunk
<1>10. Timed(m)
  BY <1>3, <1>4, <1>7, <1>9, GatStillTimed
<1>11. CASE c.reads < ChunkReads /\ call' = c
  <2>1. GatReading(c)
    BY <1>4, <1>7, <1>11 DEF GatReading
  <2>2. Timed(c)' /\ GatReading(c)' /\ GatTold(c)'
    BY <1>1, <1>3, <1>7, <1>8, <2>1 DEF Timed, GatReading, GatTold, Earlier, Paused, MostTime, Late
  <2>. QED
    BY <1>7, <1>11, <2>2 DEF GatInv
<1>12. CASE Gat!Errors(m) = {} /\ call' = m
  <2>1. m.elapsed <= ResponseDeadline
    BY <1>9, <1>12, GatNoErrors
  <2>2. m.elapsed <= Late(m.head) /\ m.elapsed \in Nat /\ Late(m.head) \in Nat
    <3>1. m.elapsed \in Nat /\ m.head \in Nat
      BY <1>9 DEF Sent
    <3>2. ResponseDeadline <= Late(m.head) /\ Late(m.head) \in Nat /\ ResponseDeadline \in Nat
      BY <3>1, GatBounds DEF GatSettings
    <3>. QED
      BY <2>1, <3>1, <3>2
  <2>3. GatReading(m)
    <3>1. 0 * RequestTimeout = 0
      BY DEF GatSettings
    <3>. QED
      BY <1>7, <1>9, <2>2, <3>1 DEF GatReading, GatSettings
  <2>4. Timed(m)' /\ GatReading(m)' /\ GatTold(m)'
    BY <1>1, <1>3, <1>7, <1>9, <1>10, <2>3 DEF Timed, GatReading, GatTold, Earlier, Paused, MostTime, Late
  <2>. QED
    BY <1>9, <1>12, <2>4 DEF GatInv
<1>13. CASE \E error \in Gat!Errors(m) : Gat!Ended(m, Gat!Evidence(c.status, FALSE, error), FALSE)
  <2>1. PICK error \in Gat!Errors(m) : Gat!Ended(m, Gat!Evidence(c.status, FALSE, error), FALSE)
    BY <1>13
  <2>2. error # "none" /\ error # "http_status"
    BY DEF Gat!Errors
  <2>3. page' = Gat!None /\ fetched' = Gat!None
    BY <1>1, <1>3
  <2>. QED
    BY <1>9, <1>10, <2>1, <2>2, <2>3, GatEnded
<1>. QED
  BY <1>2, <1>5, <1>6, <1>9, <1>11, <1>12, <1>13

LEMMA GatBodyEnds ==
    ASSUME GatSettings, GatInv, Gat!BodyEnds
    PROVE  GatInv'
<1>1. call.pc = "stream" /\ page' = page /\ fetched' = fetched
  BY Zenon DEF Gat!BodyEnds
<1>2. PICK n \in 0..RequestTimeout :
         LET c == IF call.reads = 0 THEN Gat!After(n) ELSE Gat!Chunk(Gat!After(n))
             errors == IF call.reads = 0 THEN {} ELSE Gat!Errors(c)
         IN \/ \E error \in errors : Gat!Ended(c, Gat!Evidence(c.status, FALSE, error), FALSE)
            \/ /\ errors = {} /\ c.status # 200
               /\ Gat!Ended(c, Gat!Evidence(c.status, TRUE, "http_status"), c.status \in Gat!Retryable)
            \/ errors = {} /\ c.status = 200 /\ Gat!Ended(c, Gat!Evidence(200, TRUE, "none"), FALSE)
  BY Zenon DEF Gat!BodyEnds
<1>3. /\ call \in Sent /\ Timed(call) /\ GatReading(call) /\ page = Gat!None /\ fetched = Gat!None
  BY <1>1, GatOnTheWay
<1>4. n \in Nat /\ call.elapsed + n <= Late(call.head) + ChunkReads * RequestTimeout
  BY <1>1, <1>3, GatReadOn
<1>5. PICK a : a = Gat!After(n) /\ a \in Sent /\ a.elapsed = call.elapsed + n /\ a.total = call.total + n
           /\ a.attempt = call.attempt /\ a.head = call.head /\ a.heads = call.heads
  BY <1>3, <1>4, GatAfter
<1>6. PICK c : c = IF call.reads = 0 THEN a ELSE Gat!Chunk(a)
  OBVIOUS
<1>7. /\ c \in Sent /\ c.elapsed = call.elapsed + n /\ c.total = call.total + n
      /\ c.attempt = call.attempt /\ c.head = call.head /\ c.heads = call.heads
  <2>1. Gat!Chunk(a) \in Sent /\ Gat!Chunk(a).elapsed = a.elapsed /\ Gat!Chunk(a).total = a.total
        /\ Gat!Chunk(a).attempt = a.attempt /\ Gat!Chunk(a).head = a.head /\ Gat!Chunk(a).heads = a.heads
    BY <1>5, GatChunk
  <2>. QED
    BY <1>5, <1>6, <2>1
<1>8. Timed(c)
  BY <1>3, <1>4, <1>7, GatStillTimed
<1>9. page' = Gat!None /\ fetched' = Gat!None
  BY <1>1, <1>3
<1>10. CASE \E error \in Gat!Errors(c) : Gat!Ended(c, Gat!Evidence(c.status, FALSE, error), FALSE)
  <2>1. PICK error \in Gat!Errors(c) : Gat!Ended(c, Gat!Evidence(c.status, FALSE, error), FALSE)
    BY <1>10
  <2>2. error # "none" /\ error # "http_status"
    BY DEF Gat!Errors
  <2>. QED
    BY <1>7, <1>8, <1>9, <2>1, <2>2, GatEnded
<1>11. CASE Gat!Ended(c, Gat!Evidence(c.status, TRUE, "http_status"), c.status \in Gat!Retryable)
  <2>1. (c.status \in Gat!Retryable) \in BOOLEAN /\ "http_status" # "none"
    OBVIOUS
  <2>. QED
    BY <1>7, <1>8, <1>9, <1>11, <2>1, GatEnded
<1>12. CASE Gat!Ended(c, Gat!Evidence(200, TRUE, "none"), FALSE)
  <2>1. PICK ev, error : ev = Gat!Evidence(200, TRUE, error) /\ error = "none"
    OBVIOUS
  <2>2. Gat!Ended(c, ev, FALSE) /\ error # "http_status" /\ ev = Gat!Evidence(200, TRUE, "none")
    BY <1>12, <2>1
  <2>. QED
    BY <1>7, <1>8, <1>9, <2>1, <2>2, GatEnded
<1>13. \/ \E error \in Gat!Errors(c) : Gat!Ended(c, Gat!Evidence(c.status, FALSE, error), FALSE)
       \/ Gat!Ended(c, Gat!Evidence(c.status, TRUE, "http_status"), c.status \in Gat!Retryable)
       \/ Gat!Ended(c, Gat!Evidence(200, TRUE, "none"), FALSE)
  <2>1. CASE call.reads = 0
    BY <1>2, <1>5, <1>6, <2>1
  <2>2. CASE call.reads # 0
    BY <1>2, <1>5, <1>6, <2>2
  <2>. QED
    BY <2>1, <2>2
<1>. QED
  BY <1>10, <1>11, <1>12, <1>13

\* A page that is accepted is the one that was asked for and has no broken entry; what is read
\* of it are then all its entries.
LEMMA GatAccepted ==
    ASSUME NEW kind \in Gat!Fetch, NEW p \in Gat!Page, Gat!Accepted(kind, p)
    PROVE  LET r == Gat!Read(kind, p) IN
           /\ p.of = "asked" /\ r # Gat!None
           /\ kind # "platform_userscore" => r.entries = p.entries
<1>1. p.of = "asked" /\ (kind # "platform_userscore" => Gat!Entries(p))
  BY DEF Gat!Accepted, Gat!Fetch, Gat!GameDetail, Gat!PlatformUserscore, Gat!NewReleases, Gat!BrowsePage,
         Gat!ReviewPage, Gat!WellFormed
<1>2. PICK r : r = Gat!Read(kind, p)
  OBVIOUS
<1>3. r # Gat!None
  BY <1>2 DEF Gat!Read, Gat!None
<1>4. ASSUME kind # "platform_userscore" PROVE r.entries = p.entries
  <2>1. PICK e : e = p.entries
    OBVIOUS
  <2>2. e \in UNION {[1..m -> {"whole", "partly", "broken"}] : m \in 0..MaxEntries}
    BY <2>1 DEF Gat!Page, Gat!SeqOf
  <2>3. e = [i \in DOMAIN e |-> e[i]]
    BY <2>2
  <2>4. \A i \in DOMAIN e : e[i] # "broken"
    BY <1>1, <1>4, <2>1 DEF Gat!Entries, Gat!ToSet
  <2>5. {i \in DOMAIN e : e[i] # "broken"} = DOMAIN e
    BY <2>4
  <2>6. r.entries = [i \in {i \in DOMAIN e : e[i] # "broken"} |-> e[i]]
    BY <1>2, <1>4, <2>1 DEF Gat!Read, Gat!RestrictValues, Gat!Restrict
  <2>. QED
    BY <2>1, <2>3, <2>5, <2>6
<1>. QED
  BY <1>1, <1>2, <1>3, <1>4

LEMMA GatParse ==
    ASSUME GatSettings, GatInv, Gat!Parse
    PROVE  GatInv'
<1>1. call.pc = "parse" /\ call' = [call EXCEPT !.pc = "returned"]
  BY Zenon DEF Gat!Parse
<1>2. PICK p \in Gat!Page :
         /\ page' = p
         /\ IF Gat!Accepted(call.kind, p)
            THEN fetched' = Gat!Read(call.kind, p) /\ UNCHANGED evidence
            ELSE /\ fetched' = Gat!None
                 /\ evidence' = [evidence EXCEPT !.outcome = "invalid", !.error = "parse_error"]
  BY Zenon DEF Gat!Parse
<1>3. /\ call \in Sent /\ Timed(call) /\ GatTold(call)
  BY <1>1, GatOnTheWay
<1>4. evidence = Gat!Evidence(200, TRUE, "none")
  BY <1>1, <1>3 DEF GatTold
<1>5. PICK m : m = [call EXCEPT !.pc = "returned"]
  OBVIOUS
<1>6. m \in Sent /\ m.pc = "returned" /\ m.kind = call.kind /\ m.attempt = call.attempt
      /\ m.elapsed = call.elapsed /\ m.total = call.total /\ m.head = call.head /\ m.heads = call.heads
      /\ call.kind \in Gat!Fetch
  BY <1>3, <1>5 DEF Sent
<1>7. Timed(m) /\ GatReading(m)
  BY <1>3, <1>6 DEF Timed, GatReading, Earlier
<1>8. GatTold(m)'
  <2>1. CASE Gat!Accepted(call.kind, p)
    <3>1. /\ p.of = "asked" /\ Gat!Read(call.kind, p) # Gat!None
          /\ call.kind # "platform_userscore" => Gat!Read(call.kind, p).entries = p.entries
      BY <1>6, <2>1, GatAccepted
    <3>2. fetched' = Gat!Read(call.kind, p) /\ evidence' = evidence
      BY <1>2, <2>1
    <3>3. evidence.outcome = "succeeded" /\ evidence.sha /\ evidence.status = 200 /\ evidence.error = "none"
      BY <1>4 DEF Gat!Evidence
    <3>. QED
      BY <1>2, <1>6, <3>1, <3>2, <3>3 DEF GatTold
  <2>2. CASE ~Gat!Accepted(call.kind, p)
    <3>1. fetched' = Gat!None /\ evidence' = [evidence EXCEPT !.outcome = "invalid", !.error = "parse_error"]
      BY <1>2, <2>2
    <3>2. evidence'.outcome = "invalid" /\ evidence'.error = "parse_error"
      BY <1>4, <3>1 DEF Gat!Evidence
    <3>. QED
      BY <1>6, <3>1, <3>2 DEF GatTold
  <2>. QED
    BY <2>1, <2>2
<1>9. Timed(m)' /\ GatReading(m)'
  BY <1>7 DEF Timed, GatReading, Earlier, Paused, MostTime, Late
<1>. QED
  BY <1>1, <1>5, <1>6, <1>8, <1>9 DEF GatInv

LEMMA GatNext ==
    ASSUME GatSettings, GatInv, [Gat!Next]_(Gat!vars)
    PROVE  GatInv'
<1>1. CASE Gat!Next
  BY <1>1, GatAsk, GatOpens, GatAnswers, GatHttpError, GatReads, GatBodyEnds, GatParse DEF Gat!Next
<1>2. CASE UNCHANGED Gat!vars
  <2>1. call' = call /\ evidence' = evidence /\ page' = page /\ fetched' = fetched
    BY <1>2 DEF Gat!vars
  <2>. QED
    BY <2>1 DEF GatInv, Timed, GatReading, GatTold, Earlier, Paused, MostTime, Late
<1>. QED
  BY <1>1, <1>2

\* The bound that the property names is the one of the invariant.
LEMMA GatPausesAreSum ==
    ASSUME NEW n
    PROVE  Gat!MapThenSumSet(LAMBDA i : Pauses[i], 1..n) = Paused(n)
BY Zenon DEF Paused, Gat!MapThenSumSet, Gat!MapThenFoldSet, SumFunctionOnSet, FoldFunctionOnSet, MapThenFoldSet

LEMMA GatQuiet ==
    ASSUME GatSettings, NEW c, c.head \in Nat
    PROVE  Gat!Quiet(c) = Late(c.head)
<1>1. PICK S : S = {ResponseDeadline, c.head}
  OBVIOUS
<1>2. IsFiniteSet(S)
  <2>1. IsFiniteSet({c.head} \cup {ResponseDeadline})
    BY FS_Singleton, FS_AddElement
  <2>2. S = {c.head} \cup {ResponseDeadline}
    BY <1>1
  <2>. QED
    BY <2>1, <2>2
<1>3. S \subseteq Nat /\ S # {}
  BY <1>1 DEF GatSettings
<1>4. Max(S) \in S /\ \A x \in S : x <= Max(S)
  BY <1>2, <1>3, MaxOfNat
<1>5. Gat!Quiet(c) = Max(S)
  BY <1>1, Zenon DEF Gat!Quiet, Gat!Max, Max
<1>. QED
  BY <1>1, <1>3, <1>4, <1>5 DEF Late

LEMMA GatKept ==
    ASSUME GatSettings, GatInv
    PROVE  Gat!GatewayKept
<1>1. CASE call = Asleep /\ page = Gat!None /\ fetched = Gat!None
  BY <1>1 DEF Asleep, Gat!GatewayKept, Gat!CallsEnd, Gat!EvidenceIsTrue, Gat!PagesAreWhole
<1>2. CASE call \in Sent /\ Timed(call) /\ GatReading(call) /\ GatTold(call)
  <2>1. Gat!EvidenceIsTrue /\ Gat!PagesAreWhole
    BY <1>2 DEF GatTold, Gat!EvidenceIsTrue, Gat!PagesAreWhole
  <2>2. Gat!CallsEnd
    <3>1. PICK k \in Nat : k = call.attempt - 1 /\ k < FetchAttempts
      BY <1>2 DEF Sent, Timed, GatSettings
    <3>2. k * MostTime \in Nat /\ call.attempt * MostTime = k * MostTime + MostTime /\ Paused(k) \in Nat /\ MostTime \in Nat
      <4>1. call.attempt = k + 1
        BY <1>2, <3>1 DEF Sent
      <4>. QED
        BY <3>1, <4>1, GatBounds, GatPauses
    <3>3. call.total <= call.heads + call.attempt * MostTime + Paused(k)
      <4>1. PICK x, y, l, b : x = k * MostTime /\ y = Paused(k) /\ l = Late(call.head)
                              /\ b = ChunkReads * RequestTimeout
        OBVIOUS
      <4>2. /\ call.total + call.head <= call.heads + (x + y) + call.elapsed /\ call.elapsed <= l + b
            /\ call.elapsed \in Nat /\ call.total \in Nat /\ call.head \in Nat /\ call.heads \in Nat
        BY <1>2, <3>1, <4>1 DEF Timed, Earlier, Sent
      <4>3. l \in Nat /\ l <= call.head + ResponseDeadline /\ b \in Nat /\ ResponseDeadline \in Nat
            /\ MostTime = ResponseDeadline + b
        BY <4>1, <4>2, GatBounds DEF GatSettings, MostTime
      <4>. QED
        BY <3>2, <4>1, <4>2, <4>3
    <3>4. Gat!MapThenSumSet(LAMBDA i : Pauses[i], 1..(call.attempt - 1)) = Paused(k)
      BY <3>1, GatPausesAreSum, Zenon
    <3>5. Gat!Quiet(call) = Late(call.head)
      BY <1>2, GatQuiet DEF Sent
    <3>. QED
      BY <1>2, <3>3, <3>4, <3>5 DEF Gat!CallsEnd, Gat!BodyTime, Timed, MostTime
  <2>. QED
    BY <2>1, <2>2 DEF Gat!GatewayKept
<1>. QED
  BY <1>1, <1>2 DEF GatInv

\* Whatever the source answers and however slowly it sends the body, a call ends within its bound of
\* attempts and, its heads apart, of time; its evidence tells what it returned, and a page is parsed as a whole or not at all
\* (metacritic/gateway.py and its parsers).
THEOREM GatewayHolds ==
    ASSUME GatSettings
    PROVE  Gat!Spec => []GatewayKept
<1>1. Gat!Init => GatInv
  BY GatInit
<1>2. GatInv /\ [Gat!Next]_(Gat!vars) => GatInv'
  BY GatNext
<1>3. GatInv => Gat!GatewayKept
  BY GatKept
<1>. QED
  BY <1>1, <1>2, <1>3, PTL DEF Gat!Spec, GatewayKept

-----------------------------------------------------------------------------
(* The similar games: the index and the ranking.                               *)

\* The index of similar games catches up with the catalogue (catalog/similarity_index.py), and the
\* page of a game shows the games that the policy ranks first among those it compares the game
\* with (similarity/text.py, list_similar_games of catalog/queries.py).
THEOREM SimilarHolds ==
    ASSUME IndSettings, SimSettings
    PROVE  Ind!Spec /\ Sim!Spec => []SimilarKept
<1>1. Ind!Spec => []Ind!IndexCatchesUp
  BY IndexHolds
<1>2. Sim!Spec => []Sim!SimilarAreShown
  BY SimHolds
<1>. QED
  BY <1>1, <1>2, PTL DEF SimilarKept
=============================================================================
