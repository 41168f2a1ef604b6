--------------------------- MODULE Scheduler_proofs ---------------------------
(* Proofs about Scheduler, for every number of processes, hours, requests and *)
(* positions, every TTL and clock lag, and any number of grants, crashes and  *)
(* faults.                                                                    *)
EXTENDS Scheduler, FiniteSetTheorems, TLAPS

LEMMA Keys ==
    /\ NoKey \notin Key
    /\ \A s \in 1..MaxSlot : Scheduled(s) \in Key
    /\ \A q \in Request : Manual(q) \in Key
BY DEF NoKey, Key, Scheduled, Manual

LEMMA CountersAreNat ==
    ASSUME TypeOK, NEW k \in Key
    PROVE  /\ Cardinality(Succeeded(k)) \in Nat
           /\ Cardinality(Failed(k)) \in Nat
<1>1. Succeeded(k) \subseteq Item
  BY DEF TypeOK, Succeeded, Record
<1>2. Failed(k) \subseteq Item
  BY DEF TypeOK, Failed, Classified, Interrupted, Record
<1>. QED
  BY <1>1, <1>2, SchedulerAssumption, FS_Subset, FS_CardinalityType

LEMMA MemoryUpdates ==
    /\ NoMem \in Memory
    /\ \A k \in Key : [NoMem EXCEPT !.key = k] \in Memory
    /\ \A k \in Key, s \in Status : [NoMem EXCEPT !.key = k, !.seen = s] \in Memory
    /\ \A m \in Memory, s \in Status : [m EXCEPT !.seen = s] \in Memory
    /\ \A m \in Memory, n \in Nat : [m EXCEPT !.tok = n] \in Memory
    /\ \A m \in Memory, i \in Item \cup {0} : [m EXCEPT !.item = i] \in Memory
    /\ \A m \in Memory, s \in Status :
          [m EXCEPT !.seen = s, !.processed = 0, !.failed = 0] \in Memory
    /\ \A m \in Memory : [m EXCEPT !.raise = TRUE] \in Memory
    /\ \A m \in Memory, s \in Status, p, f \in Nat :
          [m EXCEPT !.item = 0, !.seen = s, !.processed = p, !.failed = f] \in Memory
BY DEF NoMem, Memory, Status

LEMMA RunUpdates ==
    /\ \A k \in Key, s \in Status, f \in [Key -> Run] :
           [f EXCEPT ![k].status = s] \in [Key -> Run]
    /\ \A k \in Key, s \in Status, n \in Nat, f \in [Key -> Run] :
           [f EXCEPT ![k].status = s, ![k].token = n] \in [Key -> Run]
BY DEF Run

LEMMA ThreadUpdates ==
    ASSUME TypeOK, NEW t \in Thread
    PROVE  /\ \A there \in PcValues : Goto(t, there) => pc' \in [Thread -> PcValues]
           /\ \A m \in Memory : Remember(t, m) => mem' \in [Thread -> Memory]
           /\ Home(t) => pc' \in [Thread -> PcValues] /\ mem' \in [Thread -> Memory]
BY MemoryUpdates, ZenonT(30) DEF TypeOK, Goto, Remember, Home, PcValues


LEMMA LeaseUpdates ==
    /\ \A l \in Lease : [l EXCEPT !.owner = NoKey, !.left = -MaxLag] \in Lease
    /\ \A l \in Lease : l.left > -MaxLag => [l EXCEPT !.left = @ - 1] \in Lease
<1>1. -MaxLag \in -MaxLag..TTL
  BY SchedulerAssumption
<1>2. \A x \in -MaxLag..TTL : x > -MaxLag => x - 1 \in -MaxLag..TTL
  BY SchedulerAssumption
<1>. QED
  BY <1>1, <1>2 DEF Lease

LEMMA TypeStep ==
    ASSUME TypeOK, KeyKnown, FetchIsOpen, [Next]_vars
    PROVE  TypeOK'
<1>. USE DEF TypeOK, attempts
<1>1. ASSUME NEW t \in Thread, TickLookup(t) PROVE TypeOK'
  <2>1. pc' \in [Thread -> PcValues]
    BY <1>1, ThreadUpdates DEF TickLookup, PcValues
  <2>2. mem' \in [Thread -> Memory]
    BY <1>1, ThreadUpdates, MemoryUpdates, Keys, SchedulerAssumption DEF TickLookup
  <2>. QED
    BY <1>1, <2>1, <2>2 DEF TickLookup
<1>2. ASSUME NEW t \in Thread, CreateRun(t) PROVE TypeOK'
  <2>1. mem[t].key \in Key
    BY <1>2 DEF CreateRun, KeyKnown, Working
  <2>2. pc' \in [Thread -> PcValues]
    BY <1>2, ThreadUpdates DEF CreateRun, Home, PcValues
  <2>3. mem' \in [Thread -> Memory]
    BY <1>2, ThreadUpdates DEF CreateRun, Home
  <2>4. runs' \in [Key -> Run]
    BY <1>2, <2>1 DEF CreateRun, Run, Status, Resumable
  <2>. QED
    BY <1>2, <2>1, <2>2, <2>3, <2>4 DEF CreateRun
<1>3. ASSUME NEW t \in Thread, ExpireStale(t) PROVE TypeOK'
  <2>1. pc' \in [Thread -> PcValues]
    BY <1>3, ThreadUpdates DEF ExpireStale, PcValues
  <2>2. reqs' \in [Request -> ReqState]
    BY <1>3 DEF ExpireStale, ReqState
  <2>. QED
    BY <1>3, <2>1, <2>2 DEF ExpireStale
<1>4. ASSUME NEW t \in Thread, ScanQueue(t) PROVE TypeOK'
  <2>1. pc' \in [Thread -> PcValues]
    BY <1>4, ThreadUpdates DEF ScanQueue, PcValues
  <2>2. mem' \in [Thread -> Memory]
    BY <1>4, ThreadUpdates, MemoryUpdates, Keys DEF ScanQueue, Waiting
  <2>. QED
    BY <1>4, <2>1, <2>2 DEF ScanQueue
<1>5. ASSUME NEW t \in Thread, ClaimRequest(t) PROVE TypeOK'
  <2>1. mem[t].key \in Key
    BY <1>5 DEF ClaimRequest, KeyKnown, Working
  <2>2. runs[mem[t].key].status \in Status
    BY <1>5, <2>1 DEF ClaimRequest, Run
  <2>3. \E s \in Status : runs' = [runs EXCEPT ![mem[t].key].status = s] \/ runs' = runs
    BY <1>5, <2>2 DEF ClaimRequest, Status, Resumable
  <2>4. pc' \in [Thread -> PcValues]
    BY <1>5, ThreadUpdates DEF ClaimRequest, PcValues
  <2>5. mem' \in [Thread -> Memory]
    BY <1>5, ThreadUpdates, MemoryUpdates DEF ClaimRequest, Status
  <2>6. reqs' \in [Request -> ReqState]
    BY <1>5 DEF ClaimRequest, ReqState
  <2>7. runs' \in [Key -> Run]
    BY <1>5, <2>1, <2>3 DEF ClaimRequest, Run
  <2>. QED
    BY <1>5, <2>1, <2>2, <2>3, <2>4, <2>5, <2>6, <2>7 DEF ClaimRequest
<1>6. ASSUME NEW t \in Thread, Acquire(t) PROVE TypeOK'
  <2>1. lease.token + 1 \in Nat
    BY <1>6 DEF Acquire, Lease
  <2>2. pc' \in [Thread -> PcValues]
    BY <1>6, ThreadUpdates DEF Acquire, PcValues, Working
  <2>3. mem' \in [Thread -> Memory]
    BY <1>6, <2>1, ThreadUpdates, MemoryUpdates DEF Acquire, NewToken
  <2>4. lease' \in Lease
    BY <1>6, SchedulerAssumption DEF Acquire, AcquireLease, NewToken, Lease, Lag, KeyKnown
  <2>. QED
    BY <1>6, <2>1, <2>2, <2>3, <2>4 DEF Acquire
<1>7. ASSUME NEW t \in Thread, AcquireOverlap(t) PROVE TypeOK'
  <2>1. pc' \in [Thread -> PcValues]
    BY <1>7, ThreadUpdates DEF AcquireOverlap, PcValues
  <2>. QED
    BY <1>7, <2>1 DEF AcquireOverlap
<1>8. ASSUME NEW t \in Thread, OverlapOwner(t) PROVE TypeOK'
  <2>1. pc' \in [Thread -> PcValues]
    BY <1>8, ThreadUpdates DEF OverlapOwner, PcValues
  <2>2. mem' \in [Thread -> Memory]
    BY <1>8, ThreadUpdates DEF OverlapOwner
  <2>. QED
    BY <1>8, <2>1, <2>2 DEF OverlapOwner
<1>9. ASSUME NEW t \in Thread, SaveSkipped(t) PROVE TypeOK'
  <2>1. pc' \in [Thread -> PcValues]
    BY <1>9, ThreadUpdates DEF SaveSkipped, PcValues
  <2>2. mem' \in [Thread -> Memory]
    BY <1>9, ThreadUpdates, MemoryUpdates DEF SaveSkipped, Status, Closed
  <2>3. runs' \in [Key -> Run]
    BY <1>9, RunUpdates DEF SaveSkipped, KeyKnown, Status, Closed
  <2>. QED
    BY <1>9, <2>1, <2>2, <2>3 DEF SaveSkipped
<1>10. ASSUME NEW t \in Thread, MarkRunning(t) PROVE TypeOK'
  <2>1. pc' \in [Thread -> PcValues]
    BY <1>10, ThreadUpdates DEF MarkRunning, PcValues, Working
  <2>2. runs' \in [Key -> Run]
    BY <1>10, RunUpdates, ZenonT(30) DEF MarkRunning, Marked, KeyKnown, Memory, Status, Resumable, Working
  <2>. QED
    BY <1>10, <2>1, <2>2 DEF MarkRunning
<1>11. ASSUME NEW t \in Thread, Resume(t) PROVE TypeOK'
  <2>1. mem[t].key \in Key
    BY <1>11 DEF Resume, KeyKnown, Working
  <2>2. lease.token + 1 \in Nat
    BY <1>11 DEF Resume, Lease
  <2>3. pc' \in [Thread -> PcValues]
    BY <1>11, ThreadUpdates DEF Resume, PcValues, Working
  <2>4. mem' \in [Thread -> Memory]
    BY <1>11, <2>2, ThreadUpdates, MemoryUpdates DEF Resume, NewToken
  <2>5. lease' \in Lease
    BY <1>11, SchedulerAssumption DEF Resume, AcquireLease, NewToken, Lease, Lag, KeyKnown
  <2>6. runs' \in [Key -> Run]
    BY <1>11, <2>1, <2>2, RunUpdates DEF Resume, Marked, NewToken, Status, Resumable
  <2>. QED
    BY <1>11, <2>1, <2>2, <2>3, <2>4, <2>5, <2>6 DEF Resume
<1>12. ASSUME NEW t \in Thread, ResumeRefused(t) PROVE TypeOK'
  <2>1. pc' \in [Thread -> PcValues]
    BY <1>12, ThreadUpdates DEF ResumeRefused, PcValues
  <2>2. mem' \in [Thread -> Memory]
    BY <1>12, ThreadUpdates DEF ResumeRefused
  <2>. QED
    BY <1>12, <2>1, <2>2 DEF ResumeRefused
<1>13. ASSUME NEW t \in Thread, Reread(t) PROVE TypeOK'
  <2>1. pc' \in [Thread -> PcValues]
    BY <1>13, ThreadUpdates DEF Reread, PcValues
  <2>2. mem' \in [Thread -> Memory]
    BY <1>13, ThreadUpdates, MemoryUpdates DEF Reread, KeyKnown, Run
  <2>. QED
    BY <1>13, <2>1, <2>2 DEF Reread
<1>14. ASSUME NEW t \in Thread, Begin(t) PROVE TypeOK'
  <2>1. pc' \in [Thread -> PcValues]
    BY <1>14, ThreadUpdates DEF Begin, PcValues, Working
  <2>2. open' \subseteq OpenAttempt
    BY <1>14 DEF Begin
  <2>3. cut' \in [Key -> SUBSET Item]
    BY <1>14 DEF Begin, OpenAttempt
  <2>. QED
    BY <1>14, <2>1, <2>2, <2>3 DEF Begin
<1>15. ASSUME NEW t \in Thread, Claim(t) PROVE TypeOK'
  <2>1. pc' \in [Thread -> PcValues]
    BY <1>15, ThreadUpdates DEF Claim, PcValues, Working
  <2>2. PICK i \in Item : mem' = [mem EXCEPT ![t] = [mem[t] EXCEPT !.item = i]]
    BY <1>15 DEF Claim, Undecided, Remember
  <2>3. mem' \in [Thread -> Memory]
    BY <2>2, ThreadUpdates, MemoryUpdates DEF Remember
  <2>4. mem'[t].key \in Key /\ mem'[t].item \in Item /\ mem'[t].tok \in Nat
    BY <1>15, <2>2 DEF Claim, KeyKnown, Memory
  <2>5. open' \subseteq OpenAttempt
    BY <1>15, <2>4 DEF Claim, Attempt, OpenAttempt
  <2>. QED
    BY <1>15, <2>1, <2>3, <2>5 DEF Claim
<1>16. ASSUME NEW t \in Thread, Commit(t) PROVE TypeOK'
  <2>1. pc' \in [Thread -> PcValues]
    BY <1>16, ThreadUpdates DEF Commit, PcValues, Working
  <2>2. mem' \in [Thread -> Memory]
    BY <1>16, ThreadUpdates, MemoryUpdates DEF Commit
  <2>3. Attempt(t) \in OpenAttempt
    BY <1>16 DEF Commit, Verified, FetchIsOpen
  <2>4. ledger' \subseteq Record
    BY <1>16, <2>3 DEF Commit, Record, Outcome, Attempt, OpenAttempt
  <2>. QED
    BY <1>16, <2>1, <2>2, <2>4 DEF Commit
<1>17. ASSUME NEW t \in Thread, FinishBatch(t) PROVE TypeOK'
  <2>1. pc' \in [Thread -> PcValues]
    BY <1>17, ThreadUpdates DEF FinishBatch, PcValues, Working
  <2>2. mem' \in [Thread -> Memory]
    BY <1>17, ThreadUpdates, MemoryUpdates, CountersAreNat DEF FinishBatch, Closing, KeyKnown, Status, Closed
  <2>. QED
    BY <1>17, <2>1, <2>2 DEF FinishBatch
<1>18. ASSUME NEW t \in Thread, LoseLease(t) PROVE TypeOK'
  <2>1. pc' \in [Thread -> PcValues]
    BY <1>18, ThreadUpdates DEF LoseLease, PcValues, Working
  <2>2. mem[t].key \in Key
    BY <1>18 DEF LoseLease, KeyKnown, Executing
  <2>3. mem' \in [Thread -> Memory]
    BY <1>18, <2>2, ThreadUpdates, MemoryUpdates, CountersAreNat DEF LoseLease, Closing, CutShort, Status, Closed
  <2>. QED
    BY <1>18, <2>1, <2>3 DEF LoseLease
<1>19. ASSUME NEW t \in Thread, Fault(t) PROVE TypeOK'
  <2>1. pc' \in [Thread -> PcValues]
    BY <1>19, ThreadUpdates DEF Fault, PcValues, Working
  <2>2. mem' \in [Thread -> Memory]
    BY <1>19, ThreadUpdates, MemoryUpdates DEF Fault
  <2>3. mem[t].key \in Key /\ mem[t].tok \in Nat
    BY <1>19 DEF Fault, KeyKnown, Executing, Memory
  <2>4. {Outcome(t, i, FALSE) : i \in OpenItems(mem[t].key)} \subseteq Record
    <3>1. OpenItems(mem[t].key) \subseteq Item
      BY DEF OpenItems, OpenAttempt
    <3>2. \A i \in Item : Outcome(t, i, FALSE) \in Record
      BY <2>3 DEF Outcome, Record
    <3>3. ASSUME NEW r \in {Outcome(t, i, FALSE) : i \in OpenItems(mem[t].key)}
          PROVE  r \in Record
      <4>1. PICK i \in OpenItems(mem[t].key) : r = Outcome(t, i, FALSE)
        OBVIOUS
      <4>. QED
        BY <4>1, <3>1, <3>2
    <3>. QED
      BY <3>3
  <2>5. open' \subseteq OpenAttempt /\ ledger' \subseteq Record
    BY <1>19, <2>4 DEF Fault
  <2>6. budget' \in [crashes : 0..MaxCrashes, faults : 0..MaxFaults]
    BY <1>19, SchedulerAssumption DEF Fault
  <2>. QED
    BY <1>19, <2>1, <2>2, <2>5, <2>6 DEF Fault
<1>30. ASSUME NEW t \in Thread, Count(t) PROVE TypeOK'
  <2>1. pc' \in [Thread -> PcValues]
    BY <1>30, ThreadUpdates DEF Count, PcValues, Working
  <2>2. mem' \in [Thread -> Memory]
    BY <1>30, ThreadUpdates, MemoryUpdates, CountersAreNat DEF Count, Closing, CutShort, KeyKnown, Status, Closed
  <2>. QED
    BY <1>30, <2>1, <2>2 DEF Count
<1>20. ASSUME NEW t \in Thread, Close(t) PROVE TypeOK'
  <2>1. pc' \in [Thread -> PcValues]
    BY <1>20, ThreadUpdates DEF Close, PcValues, Working
  <2>2. runs' \in [Key -> Run]
    BY <1>20 DEF Close, SavedClosure, KeyKnown, Memory, Run, Working
  <2>. QED
    BY <1>20, <2>1, <2>2 DEF Close
<1>21. ASSUME NEW t \in Thread, Refresh(t) PROVE TypeOK'
  <2>1. pc' \in [Thread -> PcValues]
    BY <1>21, ThreadUpdates DEF Refresh, PcValues, Working
  <2>2. mem' \in [Thread -> Memory]
    BY <1>21, ThreadUpdates, MemoryUpdates DEF Refresh, KeyKnown, Run
  <2>. QED
    BY <1>21, <2>1, <2>2 DEF Refresh
<1>22. ASSUME NEW t \in Thread, Release(t) PROVE TypeOK'
  <2>1. mem[t].key \in Key
    BY <1>22 DEF Release, KeyKnown, Working
  <2>2. mem[t].seen \in Status
    BY <1>22 DEF Release, Memory
  <2>3. pc' \in [Thread -> PcValues]
    BY <1>22, ThreadUpdates DEF Release, PcValues, Working
  <2>4. mem' \in [Thread -> Memory]
    BY <1>22, <2>1, <2>2, ThreadUpdates, MemoryUpdates DEF Release
  <2>5. lease' \in Lease
    BY <1>22, LeaseUpdates DEF Release, Released
  <2>. QED
    BY <1>22, <2>1, <2>2, <2>3, <2>4, <2>5 DEF Release
<1>23. ASSUME NEW t \in Thread, Settle(t) PROVE TypeOK'
  <2>1. pc' \in [Thread -> PcValues]
    BY <1>23, ThreadUpdates DEF Settle
  <2>2. mem' \in [Thread -> Memory]
    BY <1>23, ThreadUpdates DEF Settle
  <2>3. reqs' \in [Request -> ReqState]
    BY <1>23 DEF Settle, ReqState
  <2>. QED
    BY <1>23, <2>1, <2>2, <2>3 DEF Settle
<1>24. ASSUME NEW t \in Thread, LostConnection(t) PROVE TypeOK'
  <2>1. pc' \in [Thread -> PcValues]
    BY <1>24, ThreadUpdates DEF LostConnection
  <2>2. mem' \in [Thread -> Memory]
    BY <1>24, ThreadUpdates DEF LostConnection
  <2>3. budget' \in [crashes : 0..MaxCrashes, faults : 0..MaxFaults]
    BY <1>24, SchedulerAssumption DEF LostConnection
  <2>. QED
    BY <1>24, <2>1, <2>2, <2>3 DEF LostConnection
<1>25. ASSUME NEW p \in Process, Crash(p) PROVE TypeOK'
  <2>1. pc' \in [Thread -> PcValues] /\ mem' \in [Thread -> Memory]
    BY <1>25, MemoryUpdates DEF Crash, Fresh, PcValues
  <2>2. budget' \in [crashes : 0..MaxCrashes, faults : 0..MaxFaults]
    BY <1>25, SchedulerAssumption DEF Crash
  <2>. QED
    BY <1>25, <2>1, <2>2 DEF Crash
<1>26. ASSUME NEW p \in Process, ProcessExit(p) PROVE TypeOK'
  BY <1>26, MemoryUpdates DEF ProcessExit, Fresh, PcValues
<1>27. ASSUME Admit PROVE TypeOK'
  BY <1>27 DEF Admit, ReqState
<1>28. ASSUME Tick PROVE TypeOK'
  <2>1. lease' \in Lease
    BY <1>28, SchedulerAssumption DEF Tick, Lease
  <2>2. clock' \in [slot : 1..MaxSlot, tick : 0..(SlotLen - 1)]
    BY <1>28, SchedulerAssumption DEF Tick, NextClock
  <2>. QED
    BY <1>28, <2>1, <2>2 DEF Tick
<1>29. ASSUME UNCHANGED vars PROVE TypeOK'
  BY <1>29 DEF vars
<1>. QED
  BY <1>1, <1>2, <1>3, <1>4, <1>5, <1>6, <1>7, <1>8, <1>9, <1>10, <1>11, <1>12, <1>13, <1>14, <1>15, <1>16, <1>17, <1>18, <1>19, <1>20, <1>21, <1>22, <1>23, <1>24, <1>25, <1>26, <1>27, <1>28, <1>29, <1>30 DEF Next, Step

LEMMA TypeInit == Init => TypeOK
<1>1. NoMem \in Memory
  BY MemoryUpdates
<1>2. -MaxLag \in -MaxLag..TTL
  BY SchedulerAssumption
<1>. QED
  BY <1>1, <1>2, SchedulerAssumption
  DEF Init, TypeOK, Lease, Run, NoRun, ReqState, PcValues, Status

LEMMA ClosingKeeps ==
    ASSUME TypeOK, NEW t \in Thread,
           (\E s \in Status : Closing(t, s)) \/ Fault(t)
    PROVE  /\ mem'[t].key = mem[t].key
           /\ mem'[t].tok = mem[t].tok
           /\ \A u \in Thread \ {t} : mem'[u] = mem[u]
<1>1. CASE Fault(t)
  BY <1>1 DEF TypeOK, Fault, Remember, Memory
<1>2. ASSUME NEW s \in Status, Closing(t, s)
      PROVE  /\ mem'[t].key = mem[t].key
             /\ mem'[t].tok = mem[t].tok
             /\ \A u \in Thread \ {t} : mem'[u] = mem[u]
  BY <1>2 DEF TypeOK, Closing, Remember, Memory
<1>. QED
  BY <1>1, <1>2

\* Leaving a batch, a thread keeps its run and its token, and touches nobody else.
LEMMA LeavingBatch ==
    ASSUME TypeOK, NEW t \in Thread,
           FinishBatch(t) \/ LoseLease(t) \/ Fault(t) \/ Count(t)
    PROVE  /\ pc[t] \in Executing \cup {"count"}
           /\ lease' = lease
           /\ \E there \in {"count", "close"} : pc' = [pc EXCEPT ![t] = there]
           /\ mem'[t].key = mem[t].key
           /\ mem'[t].tok = mem[t].tok
           /\ \A u \in Thread \ {t} : mem'[u] = mem[u]
<1>1. CASE FinishBatch(t)
  BY <1>1, ClosingKeeps DEF FinishBatch, Goto, Executing, Status, Closed
<1>2. CASE LoseLease(t)
  BY <1>2, ClosingKeeps DEF LoseLease, CutShort, Goto, Executing, Status, Closed
<1>3. CASE Fault(t)
  BY <1>3, ClosingKeeps DEF Fault, Goto, Executing
<1>4. CASE Count(t)
  BY <1>4, ClosingKeeps DEF Count, CutShort, Goto, Executing, Status, Closed
<1>. QED
  BY <1>1, <1>2, <1>3, <1>4

\* A step leaves every other thread where it was, except when a process restarts.
LEMMA KeyStep ==
    ASSUME TypeOK, KeyKnown, [Next]_vars
    PROVE  KeyKnown'
<1>. USE DEF KeyKnown, TypeOK
<1>1. ASSUME NEW t \in Thread, TickLookup(t) PROVE KeyKnown'
  BY <1>1, Keys DEF TickLookup, Goto, Remember, NoMem, Memory
<1>2. ASSUME NEW t \in Thread, ScanQueue(t) PROVE KeyKnown'
  BY <1>2, Keys DEF ScanQueue, Goto, Remember, Home, Waiting, NoMem
<1>3. ASSUME NEW t \in Thread,
             \/ CreateRun(t) \/ ExpireStale(t) \/ ClaimRequest(t)
             \/ Acquire(t) \/ AcquireOverlap(t) \/ OverlapOwner(t) \/ SaveSkipped(t)
             \/ MarkRunning(t) \/ Resume(t) \/ ResumeRefused(t) \/ Reread(t)
      PROVE  KeyKnown'
  BY <1>3, SMTT(30) DEF CreateRun, ExpireStale, ClaimRequest, Acquire, AcquireOverlap, OverlapOwner,
              SaveSkipped, MarkRunning, Resume, ResumeRefused, Reread, Goto, Remember, Home, Memory
<1>4. ASSUME NEW t \in Thread,
             Begin(t) \/ Close(t) \/ Settle(t) \/ LostConnection(t)
      PROVE  KeyKnown'
  BY <1>4 DEF Begin, Close, Settle, LostConnection, Goto, Home
<1>9. ASSUME NEW t \in Thread, Claim(t) \/ Commit(t) \/ Refresh(t) PROVE KeyKnown'
  <2>1. mem[t].key \in Key
    BY <1>9 DEF Claim, Commit, Refresh
  <2>2. /\ \E there \in PcValues : pc' = [pc EXCEPT ![t] = there]
        /\ mem'[t].key = mem[t].key
        /\ \A u \in Thread \ {t} : mem'[u] = mem[u]
    <3>1. CASE Claim(t)
      BY <3>1 DEF Claim, Goto, Remember, Memory, PcValues, Working
    <3>2. CASE Commit(t)
      BY <3>2 DEF Commit, Goto, Remember, Memory, PcValues, Working
    <3>3. CASE Refresh(t)
      BY <3>3 DEF Refresh, Goto, Remember, Memory, PcValues, Working
    <3>. QED
      BY <1>9, <3>1, <3>2, <3>3
  <2>. QED
    BY <2>1, <2>2
<1>5. ASSUME NEW t \in Thread, FinishBatch(t) \/ LoseLease(t) \/ Fault(t) \/ Count(t)
      PROVE  KeyKnown'
  <2>1. mem[t].key \in Key
    BY <1>5, LeavingBatch DEF Executing
  <2>. QED
    BY <1>5, <2>1, LeavingBatch
<1>8. ASSUME NEW t \in Thread, Release(t) PROVE KeyKnown'
  <2>1. mem[t].key \in Key
    BY <1>8 DEF Release
  <2>2. CASE Home(t)
    BY <1>8, <2>2 DEF Home, Goto
  <2>3. CASE Goto(t, "dead") /\ Remember(t, NoMem)
    BY <2>3 DEF Goto, Remember
  <2>4. CASE Goto(t, "settle") /\ Remember(t, [NoMem EXCEPT !.key = mem[t].key, !.seen = mem[t].seen])
    BY <2>1, <2>4 DEF Goto, Remember, NoMem
  <2>. QED
    BY <1>8, <2>2, <2>3, <2>4 DEF Release
<1>6. ASSUME NEW p \in Process, Crash(p) \/ ProcessExit(p) PROVE KeyKnown'
  BY <1>6 DEF Crash, ProcessExit, Fresh
<1>7. ASSUME Admit \/ Tick \/ UNCHANGED vars PROVE KeyKnown'
  BY <1>7 DEF Admit, Tick, vars
<1>. QED
  BY <1>1, <1>2, <1>3, <1>4, <1>5, <1>6, <1>7, <1>8, <1>9 DEF Next, Step

\* u is granted the lease by this step, and nobody else moves.
Granted(u) ==
    /\ pc[u] \notin Working
    /\ mem'[u].tok = lease.token + 1
    /\ lease'.token = lease.token + 1
    /\ \A v \in Thread \ {u} : pc'[v] = pc[v] /\ mem'[v] = mem[v]

\* Threads come to hold a token by a grant only, and keep the one they have.
LEMMA WorkStep ==
    ASSUME TypeOK, [Next]_vars
    PROVE  /\ lease'.token \in {lease.token, lease.token + 1}
           /\ \A u \in Thread : pc'[u] \in Working =>
                 (pc[u] \in Working /\ mem'[u].tok = mem[u].tok) \/ Granted(u)
<1>. USE DEF TypeOK
<1>. DEFINE Kept == lease'.token = lease.token
            Same(u) == pc[u] \in Working /\ mem'[u].tok = mem[u].tok
            Goal == /\ lease'.token \in {lease.token, lease.token + 1}
                    /\ \A u \in Thread : pc'[u] \in Working => Same(u) \/ Granted(u)
<1>1. ASSUME NEW t \in Thread, Acquire(t) PROVE Goal
  BY <1>1 DEF Acquire, AcquireLease, NewToken, Goto, Remember, Granted, Memory, Lease, Working
<1>2. ASSUME NEW t \in Thread, Resume(t) PROVE Goal
  BY <1>2 DEF Resume, AcquireLease, NewToken, Goto, Remember, Granted, Memory, Lease, Working
<1>3. ASSUME NEW t \in Thread,
             \/ TickLookup(t) \/ CreateRun(t) \/ ExpireStale(t) \/ ScanQueue(t)
             \/ ClaimRequest(t) \/ AcquireOverlap(t) \/ OverlapOwner(t) \/ SaveSkipped(t)
             \/ ResumeRefused(t) \/ Reread(t) \/ Settle(t) \/ LostConnection(t)
      PROVE  Goal
  <2>1. /\ lease' = lease
        /\ \E there \in PcValues \ Working : pc' = [pc EXCEPT ![t] = there]
        /\ \A u \in Thread \ {t} : mem'[u] = mem[u]
    BY <1>3 DEF TickLookup, CreateRun, ExpireStale, ScanQueue, ClaimRequest, AcquireOverlap,
                OverlapOwner, SaveSkipped, ResumeRefused, Reread, Settle, LostConnection,
                Goto, Remember, Home, PcValues, Working
  <2>. QED
    BY <2>1
<1>4. ASSUME NEW t \in Thread, MarkRunning(t) \/ Begin(t) \/ Close(t) PROVE Goal
  BY <1>4 DEF MarkRunning, Begin, Close, Goto, Working
<1>5. ASSUME NEW t \in Thread, Claim(t) \/ Commit(t) \/ Refresh(t) PROVE Goal
  <2>1. /\ lease' = lease /\ pc[t] \in Working
        /\ mem'[t].tok = mem[t].tok
        /\ \A u \in Thread \ {t} : pc'[u] = pc[u] /\ mem'[u] = mem[u]
    <3>1. CASE Claim(t)
      BY <3>1 DEF Claim, Goto, Remember, Memory, Working
    <3>2. CASE Commit(t)
      BY <3>2 DEF Commit, Goto, Remember, Memory, Working
    <3>3. CASE Refresh(t)
      BY <3>3 DEF Refresh, Goto, Remember, Memory, Working
    <3>. QED
      BY <1>5, <3>1, <3>2, <3>3
  <2>. QED
    BY <2>1
<1>6. ASSUME NEW t \in Thread, FinishBatch(t) \/ LoseLease(t) \/ Fault(t) \/ Count(t)
      PROVE  Goal
  <2>1. /\ lease' = lease /\ pc[t] \in Working
        /\ mem'[t].tok = mem[t].tok
        /\ \A u \in Thread \ {t} : pc'[u] = pc[u] /\ mem'[u] = mem[u]
    BY <1>6, LeavingBatch DEF Executing, Working
  <2>. QED
    BY <2>1
<1>7. ASSUME NEW t \in Thread, Release(t) PROVE Goal
  <2>1. /\ \E there \in PcValues \ Working : pc' = [pc EXCEPT ![t] = there]
        /\ \A u \in Thread \ {t} : mem'[u] = mem[u]
    BY <1>7 DEF Release, Goto, Remember, Home, PcValues, Working
  <2>2. Kept
    BY <1>7 DEF Release, Released, Lease
  <2>. QED
    BY <2>1, <2>2
<1>8. ASSUME NEW p \in Process, Crash(p) \/ ProcessExit(p) PROVE Goal
  BY <1>8 DEF Crash, ProcessExit, Fresh, Working
<1>9. ASSUME Admit PROVE Goal
  BY <1>9 DEF Admit
<1>10. ASSUME Tick PROVE Goal
  BY <1>10 DEF Tick, Lease
<1>11. ASSUME UNCHANGED vars PROVE Goal
  BY <1>11 DEF vars
<1>. QED
  BY <1>1, <1>2, <1>3, <1>4, <1>5, <1>6, <1>7, <1>8, <1>9, <1>10, <1>11 DEF Next, Step

LEMMA TokenStep ==
    ASSUME TypeOK, TokensAreUnique, [Next]_vars
    PROVE  TokensAreUnique'
<1>1. lease.token \in Nat
  BY DEF TypeOK, Lease
<1>2. ASSUME NEW t \in Thread, pc'[t] \in Working
      PROVE  mem'[t].tok \in 1..lease'.token
  BY <1>1, <1>2, WorkStep DEF TokensAreUnique, Granted
<1>3. ASSUME NEW t \in Thread, pc'[t] \in Working, NEW u \in Thread \ {t}, pc'[u] \in Working
      PROVE  mem'[t].tok # mem'[u].tok
  <2>1. CASE Granted(t)
    BY <2>1, <1>1, <1>3 DEF TokensAreUnique, Granted
  <2>2. CASE Granted(u)
    BY <2>2, <1>1, <1>3 DEF TokensAreUnique, Granted
  <2>. QED
    BY <2>1, <2>2, <1>3, WorkStep DEF TokensAreUnique
<1>. QED
  BY <1>2, <1>3 DEF TokensAreUnique

\* t, still the holder under the latest token, decides positions that were open.
Decides(t) ==
    /\ pc[t] \in {"begin", "batch", "fetch"}
    /\ pc'[t] # "fetch"
    /\ lease.owner = mem[t].key
    /\ lease.token = mem[t].tok
    /\ lease' = lease
    /\ \E items \in SUBSET OpenItems(mem[t].key), ok \in BOOLEAN :
          /\ ledger' = ledger \cup {Outcome(t, i, ok) : i \in items}
          /\ \A a \in open' : ~(a.run = mem[t].key /\ a.item \in items)
    /\ open' \subseteq open

\* Attempts change by recovery, by a claim, and by such decisions only.
LEMMA AttemptStep ==
    ASSUME TypeOK, FetchIsOpen, OpenIsOurs, [Next]_vars
    PROVE  UNCHANGED attempts \/ \E t \in Thread : Begin(t) \/ Claim(t) \/ Decides(t)
<1>. USE DEF TypeOK
<1>1. ASSUME NEW t \in Thread, Commit(t) PROVE Decides(t)
  <2>1. /\ pc[t] = "fetch" /\ pc' = [pc EXCEPT ![t] = "batch"]
        /\ lease.token = mem[t].tok /\ lease.owner = mem[t].key /\ lease' = lease
    BY <1>1 DEF Commit, Goto, Verified
  <2>2. mem[t].item \in OpenItems(mem[t].key)
    <3>1. Attempt(t) \in open
      BY <2>1 DEF FetchIsOpen
    <3>2. Attempt(t).run = mem[t].key /\ Attempt(t).item = mem[t].item
      BY DEF Attempt
    <3>. QED
      BY <3>1, <3>2 DEF OpenItems
  <2>3. PICK ok \in BOOLEAN : ledger' = ledger \cup {Outcome(t, mem[t].item, ok)}
    BY <1>1 DEF Commit
  <2>4. ASSUME NEW a \in open', a.run = mem[t].key, a.item = mem[t].item PROVE FALSE
    <3>1. a \in open /\ a # Attempt(t)
      BY <1>1 DEF Commit
    <3>2. a.token = mem[t].tok
      BY <2>1, <3>1 DEF OpenIsOurs
    <3>. QED
      BY <2>4, <3>1, <3>2 DEF OpenAttempt, Attempt
  <2>5. ledger' = ledger \cup {Outcome(t, i, ok) : i \in {mem[t].item}}
    BY <2>3
  <2>6. \E items \in SUBSET OpenItems(mem[t].key) :
           /\ ledger' = ledger \cup {Outcome(t, i, ok) : i \in items}
           /\ \A a \in open' : ~(a.run = mem[t].key /\ a.item \in items)
    <3>1. {mem[t].item} \in SUBSET OpenItems(mem[t].key)
      BY <2>2
    <3>. WITNESS {mem[t].item} \in SUBSET OpenItems(mem[t].key)
    <3>. QED
      BY <2>4, <2>5
  <2>7. open' \subseteq open
    BY <1>1 DEF Commit
  <2>. QED
    BY <2>1, <2>6, <2>7 DEF Decides
<1>2. ASSUME NEW t \in Thread, Fault(t) PROVE UNCHANGED attempts \/ Decides(t)
  <2>1. CASE UNCHANGED <<ledger, open>>
    BY <1>2, <2>1 DEF Fault, attempts
  <2>2. CASE /\ \E lag \in Lag : Verified(t, lag)
             /\ ledger' = ledger \cup {Outcome(t, i, FALSE) : i \in OpenItems(mem[t].key)}
             /\ open' = {a \in open : a.run # mem[t].key}
    BY <1>2, <2>2 DEF Fault, Verified, Goto, Executing, Decides
  <2>. QED
    BY <1>2, <2>1, <2>2 DEF Fault
<1>3. ASSUME NEW t \in Thread,
             \/ TickLookup(t) \/ CreateRun(t) \/ ExpireStale(t) \/ ScanQueue(t)
             \/ ClaimRequest(t) \/ Acquire(t) \/ AcquireOverlap(t) \/ OverlapOwner(t)
             \/ SaveSkipped(t) \/ MarkRunning(t) \/ Resume(t) \/ ResumeRefused(t)
             \/ Reread(t) \/ FinishBatch(t) \/ LoseLease(t) \/ Count(t)
             \/ Close(t) \/ Refresh(t) \/ Release(t) \/ Settle(t) \/ LostConnection(t)
      PROVE  UNCHANGED attempts
  BY <1>3 DEF TickLookup, CreateRun, ExpireStale, ScanQueue, ClaimRequest, Acquire,
              AcquireOverlap, OverlapOwner, SaveSkipped, MarkRunning, Resume, ResumeRefused,
              Reread, FinishBatch, LoseLease, Count, Close, Refresh, Release, Settle,
              LostConnection
<1>4. ASSUME \/ \E p \in Process : Crash(p) \/ ProcessExit(p)
             \/ Admit \/ Tick \/ UNCHANGED vars
      PROVE  UNCHANGED attempts
  BY <1>4 DEF Crash, ProcessExit, Admit, Tick, vars, attempts
<1>. QED
  BY <1>1, <1>2, <1>3, <1>4 DEF Next, Step

\* A thread enters its fetch by a claim, and stays there untouched.
LEMMA FetchStep ==
    ASSUME TypeOK, [Next]_vars, NEW u \in Thread, pc'[u] = "fetch"
    PROVE  (pc[u] = "fetch" /\ mem'[u] = mem[u]) \/ Claim(u)
<1>. USE DEF TypeOK
<1>. DEFINE Goal == (pc[u] = "fetch" /\ mem'[u] = mem[u]) \/ Claim(u)
            Leaves(t) == /\ pc'[t] # "fetch"
                         /\ \A v \in Thread \ {t} : pc'[v] = pc[v] /\ mem'[v] = mem[v]
<1>1. ASSUME NEW t \in Thread, Claim(t) PROVE Goal
  BY <1>1 DEF Claim, Goto, Remember
<1>2. ASSUME NEW t \in Thread,
             \/ TickLookup(t) \/ CreateRun(t) \/ ExpireStale(t) \/ ScanQueue(t)
             \/ ClaimRequest(t) \/ Acquire(t) \/ AcquireOverlap(t) \/ OverlapOwner(t)
             \/ SaveSkipped(t) \/ MarkRunning(t) \/ Resume(t) \/ ResumeRefused(t)
      PROVE  Leaves(t)
  BY <1>2 DEF TickLookup, CreateRun, ExpireStale, ScanQueue, ClaimRequest, Acquire,
              AcquireOverlap, OverlapOwner, SaveSkipped, MarkRunning, Resume, ResumeRefused,
              Goto, Remember, Home
<1>3. ASSUME NEW t \in Thread,
             \/ Reread(t) \/ Begin(t) \/ Commit(t) \/ Close(t) \/ Refresh(t)
             \/ Release(t) \/ Settle(t) \/ LostConnection(t)
      PROVE  Leaves(t)
  BY <1>3 DEF Reread, Begin, Commit, Close, Refresh, Release, Settle, LostConnection,
              Goto, Remember, Home
<1>4. ASSUME NEW t \in Thread, FinishBatch(t) \/ LoseLease(t) \/ Fault(t) \/ Count(t)
      PROVE  Leaves(t)
  BY <1>4, LeavingBatch
<1>5. ASSUME NEW p \in Process, Crash(p) \/ ProcessExit(p) PROVE Goal
  BY <1>5 DEF Crash, ProcessExit, Fresh
<1>6. ASSUME Admit \/ Tick \/ UNCHANGED vars PROVE Goal
  BY <1>6 DEF Admit, Tick, vars
<1>. QED
  BY <1>1, <1>2, <1>3, <1>4, <1>5, <1>6 DEF Next, Step

\* A thread enters its batch by recovery, and keeps its token there.
LEMMA BatchStep ==
    ASSUME TypeOK, [Next]_vars, NEW u \in Thread, pc'[u] \in {"batch", "fetch"}
    PROVE  (pc[u] \in {"batch", "fetch"} /\ mem'[u].tok = mem[u].tok) \/ Begin(u)
<1>. USE DEF TypeOK
<1>. DEFINE Goal == (pc[u] \in {"batch", "fetch"} /\ mem'[u].tok = mem[u].tok) \/ Begin(u)
            Leaves(t) == /\ pc'[t] \notin {"batch", "fetch"}
                         /\ \A v \in Thread \ {t} : pc'[v] = pc[v] /\ mem'[v] = mem[v]
<1>1. ASSUME NEW t \in Thread, Begin(t) PROVE Goal
  BY <1>1 DEF Begin, Goto
<1>2. ASSUME NEW t \in Thread, Claim(t) PROVE Goal
  BY <1>2 DEF Claim, Goto, Remember, Memory
<1>3. ASSUME NEW t \in Thread, Commit(t) PROVE Goal
  BY <1>3 DEF Commit, Goto, Remember, Memory
<1>4. ASSUME NEW t \in Thread,
             \/ TickLookup(t) \/ CreateRun(t) \/ ExpireStale(t) \/ ScanQueue(t)
             \/ ClaimRequest(t) \/ Acquire(t) \/ AcquireOverlap(t) \/ OverlapOwner(t)
             \/ SaveSkipped(t) \/ MarkRunning(t) \/ Resume(t) \/ ResumeRefused(t)
      PROVE  Leaves(t)
  BY <1>4 DEF TickLookup, CreateRun, ExpireStale, ScanQueue, ClaimRequest, Acquire,
              AcquireOverlap, OverlapOwner, SaveSkipped, MarkRunning, Resume, ResumeRefused,
              Goto, Remember, Home
<1>5. ASSUME NEW t \in Thread,
             \/ Reread(t) \/ Close(t) \/ Refresh(t)
             \/ Release(t) \/ Settle(t) \/ LostConnection(t)
      PROVE  Leaves(t)
  BY <1>5 DEF Reread, Close, Refresh, Release, Settle, LostConnection, Goto, Remember, Home
<1>6. ASSUME NEW t \in Thread, FinishBatch(t) \/ LoseLease(t) \/ Fault(t) \/ Count(t)
      PROVE  Leaves(t)
  BY <1>6, LeavingBatch
<1>7. ASSUME NEW p \in Process, Crash(p) \/ ProcessExit(p) PROVE Goal
  BY <1>7 DEF Crash, ProcessExit, Fresh
<1>8. ASSUME Admit \/ Tick \/ UNCHANGED vars PROVE Goal
  BY <1>8 DEF Admit, Tick, vars
<1>. QED
  BY <1>1, <1>2, <1>3, <1>4, <1>5, <1>6, <1>7, <1>8 DEF Next, Step

\* The attempt a claim adds.
LEMMA ClaimAdds ==
    ASSUME TypeOK, NEW t \in Thread, Claim(t)
    PROVE  /\ open' = open \cup {Attempt(t)'}
           /\ Attempt(t)'.token = lease.token
           /\ Attempt(t)'.item \in Undecided(Attempt(t)'.run)
           /\ ledger' = ledger
<1>1. PICK i \in Undecided(mem[t].key) : mem'[t] = [mem[t] EXCEPT !.item = i]
  BY DEF TypeOK, Claim, Remember
<1>2. mem'[t].key = mem[t].key /\ mem'[t].tok = mem[t].tok /\ mem'[t].item = i
  BY <1>1 DEF TypeOK, Memory
<1>3. Attempt(t)' = [run |-> mem[t].key, item |-> i, token |-> mem[t].tok]
  BY <1>2 DEF Attempt
<1>. QED
  BY <1>3 DEF Claim, Verified

LEMMA FetchIsOpenStep ==
    ASSUME TypeOK, TokensAreUnique, FetchIsOpen, OpenIsOurs, [Next]_vars
    PROVE  FetchIsOpen'
<1>. SUFFICES ASSUME NEW u \in Thread, pc'[u] = "fetch", mem'[u].tok = lease'.token
              PROVE  Attempt(u)' \in open'
  BY DEF FetchIsOpen
<1>1. CASE Claim(u)
  BY <1>1, ClaimAdds
<1>2. CASE pc[u] = "fetch" /\ mem'[u] = mem[u]
  <2>1. lease.token = mem[u].tok
    BY <1>2, WorkStep DEF TypeOK, Lease, TokensAreUnique, Working
  <2>2. Attempt(u) \in open /\ Attempt(u)' = Attempt(u)
    BY <1>2, <2>1 DEF FetchIsOpen, Attempt
  <2>3. \A t \in Thread : pc[t] \in Working /\ mem[t].tok = lease.token => t = u
    BY <1>2, <2>1 DEF TokensAreUnique, Working
  <2>4. ~ \E t \in Thread : Decides(t)
    BY <1>2, <2>3 DEF Decides, Working
  <2>5. ~ \E t \in Thread : Begin(t)
    BY <1>2, <2>3 DEF Begin, Verified, Working
  <2>6. open \subseteq open'
    BY <2>4, <2>5, AttemptStep DEF attempts, Claim
  <2>. QED
    BY <2>2, <2>6
<1>. QED
  BY <1>1, <1>2, FetchStep

LEMMA OpenIsOursStep ==
    ASSUME TypeOK, TokensAreUnique, FetchIsOpen, OpenIsOurs, [Next]_vars
    PROVE  OpenIsOurs'
<1>. SUFFICES ASSUME NEW u \in Thread, pc'[u] \in {"batch", "fetch"},
                     mem'[u].tok = lease'.token, NEW a \in open'
              PROVE  a.token = lease'.token
  BY DEF OpenIsOurs
<1>1. CASE Begin(u)
  BY <1>1 DEF Begin, Verified
<1>2. CASE pc[u] \in {"batch", "fetch"} /\ mem'[u].tok = mem[u].tok
  <2>1. lease.token = mem[u].tok /\ lease'.token = lease.token
    BY <1>2, WorkStep DEF TypeOK, Lease, TokensAreUnique, Working
  <2>2. CASE a \in open
    BY <1>2, <2>1, <2>2 DEF OpenIsOurs
  <2>3. CASE a \notin open
    <3>1. PICK t \in Thread : Claim(t)
      BY <2>3, AttemptStep DEF attempts, Begin, Decides
    <3>. QED
      BY <2>1, <2>3, <3>1, ClaimAdds
  <2>. QED
    BY <2>2, <2>3
<1>. QED
  BY <1>1, <1>2, BatchStep

LEMMA OpenIsUndecidedStep ==
    ASSUME TypeOK, FetchIsOpen, OpenIsOurs, OpenIsUndecided, [Next]_vars
    PROVE  OpenIsUndecided'
<1>. SUFFICES ASSUME NEW a \in open'
              PROVE  /\ a.item \in Item
                     /\ \A d \in ledger' : ~(d.run = a.run /\ d.item = a.item)
  BY DEF OpenIsUndecided, Undecided, Decided
<1>0. \A b \in open : b.item \in Item /\ \A d \in ledger : ~(d.run = b.run /\ d.item = b.item)
  BY DEF OpenIsUndecided, Undecided, Decided
<1>1. CASE UNCHANGED attempts
  BY <1>0, <1>1 DEF attempts
<1>2. ASSUME NEW t \in Thread, Begin(t)
      PROVE  a \in open /\ ledger' = ledger
  BY <1>2 DEF Begin
<1>3. ASSUME NEW t \in Thread, Claim(t), a \notin open
      PROVE  /\ a.item \in Item
             /\ \A d \in ledger' : ~(d.run = a.run /\ d.item = a.item)
  BY <1>3, ClaimAdds DEF Undecided, Decided
<1>4. ASSUME NEW t \in Thread, Claim(t) PROVE ledger' = ledger
  BY <1>4 DEF Claim
<1>5. ASSUME NEW t \in Thread, Decides(t)
      PROVE  /\ a \in open
             /\ \A d \in ledger' \ ledger : ~(d.run = a.run /\ d.item = a.item)
  BY <1>5 DEF Decides, Outcome
<1>. QED
  BY <1>0, <1>1, <1>2, <1>3, <1>4, <1>5, AttemptStep

\* What is decided was open, and what is open was not decided.
LEMMA OpenItemsAreUndecided ==
    ASSUME OpenIsUndecided, NEW k, NEW i \in OpenItems(k)
    PROVE  i \in Undecided(k)
BY DEF OpenIsUndecided, OpenItems

LEMMA LedgerStep ==
    ASSUME TypeOK, FetchIsOpen, OpenIsOurs, LedgerTokens, [Next]_vars
    PROVE  LedgerTokens'
<1>1. lease.token \in Nat /\ lease'.token \in Nat /\ lease'.token >= lease.token
  BY WorkStep DEF TypeOK, Lease
<1>2. \A d \in ledger : d.token \in Nat /\ d.token <= lease.token
  BY DEF TypeOK, Record, LedgerTokens
<1>3. \A d \in ledger' : d \in ledger \/ d.token = lease.token
  BY AttemptStep DEF attempts, Begin, Claim, Decides, Outcome
<1>. QED
  BY <1>1, <1>2, <1>3 DEF LedgerTokens

LEMMA OnceStep ==
    ASSUME TypeOK, FetchIsOpen, OpenIsOurs, OpenIsUndecided, DecidedOnce, [Next]_vars
    PROVE  DecidedOnce'
<1>1. CASE ledger' = ledger
  BY <1>1 DEF DecidedOnce
<1>2. ASSUME NEW t \in Thread, Decides(t) PROVE DecidedOnce'
  <2>1. PICK items \in SUBSET OpenItems(mem[t].key), ok \in BOOLEAN :
           ledger' = ledger \cup {Outcome(t, i, ok) : i \in items}
    BY <1>2 DEF Decides
  <2>2. \A d \in ledger : ~(d.run = mem[t].key /\ d.item \in items)
    BY OpenItemsAreUndecided DEF Undecided, Decided
  <2>3. \A i \in items : /\ Outcome(t, i, ok).run = mem[t].key
                         /\ Outcome(t, i, ok).item = i
    BY DEF Outcome
  <2>. QED
    BY <2>1, <2>2, <2>3 DEF DecidedOnce
<1>. QED
  BY <1>1, <1>2, AttemptStep DEF attempts, Begin, Claim

LEMMA InvInit == Init => IInv
<1>. SUFFICES ASSUME Init PROVE IInv
  OBVIOUS
<1>1. TypeOK
  BY TypeInit
<1>2. \A t \in Thread : pc[t] = "idle"
  BY DEF Init
<1>3. ledger = {} /\ open = {}
  BY DEF Init
<1>. QED
  BY <1>1, <1>2, <1>3
  DEF IInv, KeyKnown, TokensAreUnique, FetchIsOpen, OpenIsOurs, OpenIsUndecided,
      LedgerTokens, DecidedOnce, Working

LEMMA InvStep == IInv /\ [Next]_vars => IInv'
BY TypeStep, KeyStep, TokenStep, FetchIsOpenStep, OpenIsOursStep, OpenIsUndecidedStep, LedgerStep, OnceStep DEF IInv

LEMMA Invariance == Spec => []IInv
BY InvInit, InvStep, PTL DEF Spec

\* The variables keep their types: in particular a run only ever has a documented status.
THEOREM TypeCorrect == Spec => []TypeOK
<1>1. IInv => TypeOK
  BY DEF IInv
<1>. QED
  BY <1>1, Invariance, PTL

\* However many processes compete, a fencing token belongs to one thread.
THEOREM TokensUnique == Spec => []TokensAreUnique
<1>1. IInv => TokensAreUnique
  BY DEF IInv
<1>. QED
  BY <1>1, Invariance, PTL

\* However instances of a run overtake each other, a position is decided once (PS-INV-02, 10).
THEOREM DecisionsUnique == Spec => []DecidedOnce
<1>1. IInv => DecidedOnce
  BY DEF IInv
<1>. QED
  BY <1>1, Invariance, PTL

\* Durable outcomes follow the order of the grants.
THEOREM FencedOrderHolds == Spec => FencedOrder
<1>1. ASSUME IInv, [Next]_vars,
             NEW d \in ledger' \ ledger, NEW e \in ledger
      PROVE  e.token <= d.token
  <2>1. PICK t \in Thread : Decides(t)
    BY <1>1, AttemptStep DEF IInv, attempts, Begin, Claim
  <2>2. d.token = lease.token
    BY <1>1, <2>1 DEF Decides, Outcome
  <2>. QED
    BY <1>1, <2>2 DEF IInv, LedgerTokens
<1>2. IInv /\ [Next]_vars => [\A d \in ledger' \ ledger : \A e \in ledger : e.token <= d.token]_vars
  BY <1>1
<1>. QED
  BY <1>2, Invariance, PTL DEF Spec, FencedOrder

LEMMA WorkInit == Init => Work!Init
BY Keys, SchedulerAssumption DEF Init, Work!Init

\* Every step is a step of the abstract resource, or leaves it alone.
LEMMA WorkRefines == IInv /\ [Next]_vars => [Work!Next]_(Work!vars)
<1>. SUFFICES ASSUME IInv, [Next]_vars
              PROVE  Work!Next \/ UNCHANGED Work!vars
  OBVIOUS
<1>. USE DEF Work!Next, Work!vars
<1>0. lease.left \in Int /\ lease.token \in Nat /\ TypeOK /\ KeyKnown /\ FetchIsOpen /\ OpenIsOurs /\ OpenIsUndecided
  BY SchedulerAssumption DEF IInv, TypeOK, Lease
<1>. DEFINE Goal == Work!Next \/ UNCHANGED Work!vars
<1>1. ASSUME NEW t \in Thread, AcquireLease(mem[t].key), mem[t].key \in Key, UNCHANGED attempts
      PROVE  Goal
  <2>1. PICK lag \in Lag : /\ ~Held(lag)
                           /\ lease' = [token |-> NewToken(mem[t].key), owner |-> mem[t].key,
                                        left |-> TTL - lag]
    BY <1>1 DEF AcquireLease
  <2>2. Work!Grant(mem[t].key)
    BY <1>0, <1>1, <2>1, SchedulerAssumption DEF Work!Grant, attempts, Held, NewToken, Lag
  <2>. QED
    BY <1>1, <2>2
<1>2. ASSUME NEW t \in Thread, Acquire(t) \/ Resume(t) PROVE Goal
  BY <1>0, <1>1, <1>2 DEF Acquire, Resume, KeyKnown
<1>3. ASSUME NEW t \in Thread, Decides(t) PROVE Goal
  <2>1. PICK items \in SUBSET OpenItems(mem[t].key), ok \in BOOLEAN :
           ledger' = ledger \cup {Outcome(t, i, ok) : i \in items}
    BY <1>3 DEF Decides
  <2>2. mem[t].key \in Key /\ items \subseteq Item
    BY <1>0, <1>3, OpenItemsAreUndecided DEF Decides, KeyKnown, Executing, Undecided
  <2>3. \A d \in ledger : ~(d.run = mem[t].key /\ d.item \in items)
    BY <1>0, OpenItemsAreUndecided DEF Undecided, Decided
  <2>4. Work!Perform(mem[t].key, items, ok)
    BY <1>3, <2>1, <2>3 DEF Work!Perform, Decides, Outcome
  <2>. QED
    BY <2>2, <2>4
<1>4. ASSUME NEW t \in Thread, Release(t) PROVE Goal
  <2>1. mem[t].key \in Key
    BY <1>0, <1>4 DEF Release, KeyKnown
  <2>2. CASE lease' = lease
    BY <1>4, <2>2 DEF Release, attempts
  <2>3. CASE lease.owner = mem[t].key /\ lease' = [lease EXCEPT !.owner = NoKey, !.left = -MaxLag]
    BY <1>0, <1>4, <2>1, <2>3, Keys, SchedulerAssumption DEF Release, attempts, Work!Yield, TypeOK, Lease
  <2>. QED
    BY <1>4, <2>2, <2>3 DEF Release, Released
<1>5. ASSUME Tick PROVE Goal
  <2>1. CASE lease' = lease
    BY <1>5, <2>1 DEF Tick, attempts
  <2>2. CASE lease' = [lease EXCEPT !.left = lease.left - 1]
    BY <1>0, <1>5, <2>2 DEF Tick, attempts, Work!Expire, TypeOK, Lease
  <2>. QED
    BY <1>5, <2>1, <2>2 DEF Tick
<1>6. ASSUME NEW t \in Thread,
             \/ TickLookup(t) \/ CreateRun(t) \/ ExpireStale(t) \/ ScanQueue(t)
             \/ ClaimRequest(t) \/ AcquireOverlap(t) \/ OverlapOwner(t) \/ SaveSkipped(t)
             \/ MarkRunning(t) \/ ResumeRefused(t) \/ Reread(t) \/ Begin(t) \/ Claim(t)
             \/ Commit(t) \/ FinishBatch(t) \/ LoseLease(t) \/ Count(t) \/ Close(t) \/ Refresh(t)
             \/ Settle(t) \/ LostConnection(t) \/ Fault(t)
      PROVE  lease' = lease
  BY <1>6 DEF TickLookup, CreateRun, ExpireStale, ScanQueue, ClaimRequest, AcquireOverlap,
              OverlapOwner, SaveSkipped, MarkRunning, ResumeRefused, Reread, Begin, Claim, Commit,
              FinishBatch, LoseLease, Count, Close, Refresh, Settle, LostConnection, Fault
<1>7. ASSUME lease' = lease PROVE Goal
  BY <1>0, <1>3, <1>7, AttemptStep DEF attempts, Begin, Claim
<1>8. ASSUME \/ \E p \in Process : Crash(p) \/ ProcessExit(p)
             \/ Admit \/ UNCHANGED vars
      PROVE  lease' = lease
  BY <1>8 DEF Crash, ProcessExit, Admit, vars
<1>. QED
  BY <1>2, <1>4, <1>5, <1>6, <1>7, <1>8 DEF Next, Step

\* The scheduler implements the abstract fenced resource.
THEOREM SchedulerIsFenced == Spec => Fenced
BY WorkInit, WorkRefines, Invariance, PTL DEF Spec, Fenced, Work!Spec

-----------------------------------------------------------------------------
(* At most one thread ticks and at most one dispatches, as in the documented   *)
(* deployment of one scheduler container.  With two ticking threads a finished *)
(* run can be reopened: the run SchedulerReopen shows it, so the theorems from  *)
(* here on need their hypothesis.                                              *)

OneOfEach == /\ \A t, u \in TickThread : t = u
             /\ \A t, u \in ManualThread : t = u

-----------------------------------------------------------------------------
(* The inductive invariant.  A run is worked on by one thread only, so what   *)
(* the thread knows of its row is still so when it acts on it.                *)

Resting == {"idle", "scan", "dead"}

KeysOf(t) == IF t \in TickThread THEN {Scheduled(s) : s \in 1..MaxSlot}
                                 ELSE {Manual(q) : q \in Request}

\* Statements of run_manual only.
ManualOnly == {"scan", "claim", "reread", "settle"}

\* The tick thread works on hourly runs, the dispatcher on manual ones.
OwnKeys == \A t \in Thread : /\ pc[t] \notin Resting => mem[t].key \in KeysOf(t)
                             /\ pc[t] \in ManualOnly => t \notin TickThread

\* The row of a thread's run, at each statement of the thread.
RowOf(t) ==
    LET r == runs[mem[t].key] IN
    /\ pc[t] = "create" => t \in TickThread /\ r.status = "absent"
    /\ pc[t] \in {"acquire", "overlap", "skip", "mark"} => r.status = "queued"
    /\ pc[t] \in {"resume", "reread"} => r.status \in Resumable
    /\ pc[t] \in Executing \cup {"count", "close"} => r.status = "running" /\ r.token = mem[t].tok
    /\ pc[t] = "close" => mem[t].seen \in Closed \ {"skipped_overlap"}
    /\ pc[t] \in {"refresh", "release", "settle"} => r.status \in Closed
    /\ pc[t] \in {"release", "settle"} => mem[t].seen = r.status

RowAtStep == \A t \in Thread : RowOf(t)

\* p and f are counters of run k, as CountersMatchOutcomes wants them.
Tally(k, p, f) == /\ p = Cardinality(Succeeded(k))
                  /\ f \in Cardinality(Classified(k))..Cardinality(Failed(k))

\* The counters in memory, until they are saved.
CountersAtClose ==
    \A t \in Thread : pc[t] = "close" =>
        Tally(mem[t].key, mem[t].processed, mem[t].failed)

\* A run that was never executed has no outcomes.
Unworked ==
    \A k \in Key : runs[k].status \in {"absent", "queued", "skipped_overlap"} =>
        Decided(k) = {} /\ runs[k].processed = 0 /\ runs[k].failed = 0

\* A request has a run once it is claimed, and not before; it is settled after its run.
RequestAndRun ==
    \A q \in Request :
        LET s == runs[Manual(q)].status IN
        /\ reqs[q] \in {"absent", "queued", "expired"} => s = "absent"
        /\ reqs[q] = "completed" => s \in Closed \ {"skipped_overlap"}
        /\ reqs[q] = "conflict" => s = "skipped_overlap"

AloneInv == /\ IInv
            /\ OwnKeys
            /\ RowAtStep
            /\ CountersAtClose
            /\ CountersMatchOutcomes
            /\ Unworked
            /\ RequestAndRun

-----------------------------------------------------------------------------
(* What a step leaves alone. *)

Moves(t) == Step(t) \/ Fault(t) \/ LostConnection(t)

\* Threads never work on the same run.
LEMMA DistinctKeys ==
    ASSUME OneOfEach, OwnKeys, NEW t \in Thread, NEW u \in Thread \ {t},
           pc[t] \notin Resting, pc[u] \notin Resting
    PROVE  mem[t].key # mem[u].key
<1>1. \A s \in 1..MaxSlot, q \in Request : Scheduled(s) # Manual(q)
  BY DEF Scheduled, Manual
<1>2. \A v \in Thread : pc[v] \notin Resting =>
         IF v \in TickThread THEN mem[v].key \in {Scheduled(s) : s \in 1..MaxSlot}
                            ELSE mem[v].key \in {Manual(q) : q \in Request}
  BY DEF OwnKeys, KeysOf
<1>3. t \in TickThread <=> u \notin TickThread
  BY DEF OneOfEach, Thread
<1>. QED
  BY <1>1, <1>2, <1>3

\* A thread's step leaves the other threads where they are.
LEMMA OthersStay ==
    ASSUME TypeOK, NEW t \in Thread, Moves(t), NEW u \in Thread \ {t}
    PROVE  pc'[u] = pc[u] /\ mem'[u] = mem[u]
<1>. USE DEF TypeOK
<1>1. CASE \/ TickLookup(t) \/ CreateRun(t) \/ ExpireStale(t) \/ ScanQueue(t)
           \/ ClaimRequest(t) \/ Acquire(t) \/ AcquireOverlap(t) \/ OverlapOwner(t)
           \/ SaveSkipped(t) \/ MarkRunning(t) \/ Resume(t) \/ ResumeRefused(t)
  BY <1>1 DEF TickLookup, CreateRun, ExpireStale, ScanQueue, ClaimRequest, Acquire,
              AcquireOverlap, OverlapOwner, SaveSkipped, MarkRunning, Resume, ResumeRefused,
              Goto, Remember, Home
<1>2. CASE \/ Reread(t) \/ Begin(t) \/ Claim(t) \/ Commit(t) \/ Close(t) \/ Refresh(t)
           \/ Release(t) \/ Settle(t) \/ LostConnection(t)
  BY <1>2 DEF Reread, Begin, Claim, Commit, Close, Refresh, Release, Settle, LostConnection,
              Goto, Remember, Home
<1>3. CASE FinishBatch(t) \/ LoseLease(t) \/ Fault(t) \/ Count(t)
  BY <1>3, LeavingBatch
<1>. QED
  BY <1>1, <1>2, <1>3 DEF Moves, Step

\* ... and the rows of other runs.
LEMMA OtherRunsStay ==
    ASSUME TypeOK, KeyKnown, NEW t \in Thread, Moves(t), NEW k \in Key, k # mem[t].key
    PROVE  runs'[k] = runs[k]
<1>. USE DEF TypeOK
<1>1. CASE CreateRun(t) \/ ClaimRequest(t) \/ SaveSkipped(t) \/ MarkRunning(t) \/ Resume(t) \/ Close(t)
  BY <1>1 DEF CreateRun, ClaimRequest, SaveSkipped, MarkRunning, Resume, Close, Marked, SavedClosure
<1>2. CASE \/ TickLookup(t) \/ ExpireStale(t) \/ ScanQueue(t) \/ Acquire(t) \/ AcquireOverlap(t)
           \/ OverlapOwner(t) \/ ResumeRefused(t) \/ Reread(t) \/ Begin(t) \/ Claim(t) \/ Commit(t)
           \/ FinishBatch(t) \/ LoseLease(t) \/ Count(t) \/ Refresh(t) \/ Release(t) \/ Settle(t)
           \/ Fault(t) \/ LostConnection(t)
  BY <1>2 DEF TickLookup, ExpireStale, ScanQueue, Acquire, AcquireOverlap, OverlapOwner,
              ResumeRefused, Reread, Begin, Claim, Commit, FinishBatch, LoseLease, Count, Refresh,
              Release, Settle, Fault, LostConnection
<1>. QED
  BY <1>1, <1>2 DEF Moves, Step

\* A thread starts over when its process does, and only time and admissions move without one.
LEMMA Movers ==
    ASSUME [Next]_vars
    PROVE  \/ \E t \in Thread : Moves(t)
           \/ /\ \E p \in Process : Crash(p) \/ ProcessExit(p)
              /\ \A t \in Thread : \/ pc'[t] = pc[t] /\ mem'[t] = mem[t]
                                   \/ pc'[t] = "idle"
              /\ UNCHANGED <<runs, reqs, attempts>>
           \/ UNCHANGED <<runs, attempts, pc, mem>> /\ (reqs' = reqs \/ Admit)
<1>1. CASE \E t \in Thread : Step(t) \/ Fault(t) \/ LostConnection(t)
  BY <1>1 DEF Moves
<1>2. ASSUME NEW p \in Process, Crash(p) \/ ProcessExit(p)
      PROVE  /\ \A t \in Thread : \/ pc'[t] = pc[t] /\ mem'[t] = mem[t]
                                  \/ pc'[t] = "idle"
             /\ UNCHANGED <<runs, reqs, attempts>>
  BY <1>2 DEF Crash, ProcessExit, Fresh, attempts
<1>3. CASE Admit \/ Tick \/ UNCHANGED vars
  BY <1>3 DEF Admit, Tick, vars, attempts
<1>. QED
  BY <1>1, <1>2, <1>3 DEF Next

\* Only recovery adds interrupted positions, and nothing removes one.
LEMMA CutGrows ==
    ASSUME [Next]_vars, NEW k \in Key
    PROVE  cut[k] \subseteq cut'[k]
<1>1. ASSUME NEW t \in Thread, Begin(t) PROVE cut[k] \subseteq cut'[k]
  BY <1>1 DEF Begin
<1>2. ASSUME NEW t \in Thread, Moves(t), ~Begin(t) PROVE cut' = cut
  BY <1>2 DEF Moves, Step, TickLookup, CreateRun, ExpireStale, ScanQueue, ClaimRequest, Acquire,
              AcquireOverlap, OverlapOwner, SaveSkipped, MarkRunning, Resume, ResumeRefused,
              Reread, Claim, Commit, FinishBatch, LoseLease, Count, Close, Refresh, Release,
              Settle, LostConnection, Fault, attempts
<1>. QED
  BY <1>1, <1>2, Movers DEF attempts

\* While no thread executes a run, its outcomes stay, and only recovery adds to its failures.
LEMMA OutcomesStay ==
    ASSUME TypeOK, FetchIsOpen, OpenIsOurs, [Next]_vars, NEW k \in Key,
           \A t \in Thread : pc[t] \in Executing => mem[t].key # k
    PROVE  /\ Succeeded(k)' = Succeeded(k)
           /\ Classified(k)' = Classified(k)
           /\ Decided(k)' = Decided(k)
           /\ Failed(k) \subseteq Failed(k)'
<1>1. \A d \in ledger' \ ledger : d.run # k
  <2>1. ASSUME NEW t \in Thread, Decides(t), NEW d \in ledger' \ ledger PROVE d.run # k
    BY <2>1 DEF Decides, Outcome, Executing
  <2>. QED
    BY <2>1, AttemptStep DEF attempts, Begin, Claim
<1>2. ledger \subseteq ledger'
  BY AttemptStep DEF attempts, Begin, Claim, Decides
<1>3. \A a \in open' : a.run = k => a \in open
  <2>1. ASSUME NEW t \in Thread, Claim(t) PROVE \A a \in open' : a.run = k => a \in open
    <3>1. mem'[t].key = mem[t].key /\ pc[t] = "batch"
      BY <2>1 DEF Claim, Remember, TypeOK, Memory
    <3>2. Attempt(t)'.run = mem[t].key
      BY <3>1 DEF Attempt
    <3>3. mem[t].key # k
      BY <3>1 DEF Executing
    <3>. QED
      BY <2>1, <3>2, <3>3 DEF Claim
  <2>. QED
    BY <2>1, AttemptStep DEF attempts, Begin, Decides
<1>4. cut[k] \subseteq cut'[k]
  BY CutGrows
<1>. QED
  BY <1>1, <1>2, <1>3, <1>4 DEF Succeeded, Classified, Decided, Failed, Interrupted, OpenItems

-----------------------------------------------------------------------------
(* The inductive step, part by part. *)

LEMMA TwoKinds == \A t \in ManualThread : t \notin TickThread
BY DEF ManualThread, TickThread

LEMMA OwnKeysStep ==
    ASSUME TypeOK, OwnKeys, [Next]_vars
    PROVE  OwnKeys'
<1>. USE DEF TypeOK
<1>. DEFINE Own(u) == /\ pc'[u] \notin Resting => mem'[u].key \in KeysOf(u)
                      /\ pc'[u] \in ManualOnly => u \notin TickThread
            Keeps(u) == /\ pc[u] \notin Resting
                        /\ mem'[u].key = mem[u].key
                        /\ pc'[u] \in ManualOnly => u \notin TickThread
            Rests(u) == pc'[u] \in {"idle", "dead"}
<1>1. ASSUME NEW t \in Thread, TickLookup(t) PROVE Own(t)
  <2>1. mem'[t].key = Scheduled(clock.slot) /\ pc'[t] \notin ManualOnly
    BY <1>1 DEF TickLookup, Remember, Goto, NoMem, ManualOnly
  <2>. QED
    BY <1>1, <2>1 DEF TickLookup, KeysOf
<1>2. ASSUME NEW t \in Thread, ScanQueue(t) PROVE Own(t)
  <2>1. t \notin TickThread
    BY <1>2 DEF ScanQueue, OwnKeys, ManualOnly
  <2>2. CASE \E q \in Waiting : Goto(t, "claim") /\ Remember(t, [NoMem EXCEPT !.key = Manual(q)])
    BY <2>1, <2>2 DEF Goto, Remember, Waiting, NoMem, KeysOf
  <2>3. CASE Home(t)
    BY <2>1, <2>3 DEF Goto, Home, Resting, ManualOnly
  <2>. QED
    BY <1>2, <2>2, <2>3 DEF ScanQueue
<1>3. ASSUME NEW t \in Thread, ExpireStale(t) PROVE Own(t)
  BY <1>3, TwoKinds DEF ExpireStale, Goto, Resting, ManualOnly
<1>4. ASSUME NEW t \in Thread,
             \/ CreateRun(t) \/ ClaimRequest(t) \/ Acquire(t) \/ AcquireOverlap(t)
             \/ OverlapOwner(t) \/ SaveSkipped(t) \/ MarkRunning(t)
             \/ Resume(t) \/ ResumeRefused(t) \/ Reread(t)
      PROVE  Keeps(t) \/ Rests(t)
  BY <1>4, TwoKinds DEF OwnKeys, ManualOnly, CreateRun, ClaimRequest, Acquire, AcquireOverlap, OverlapOwner,
              SaveSkipped, MarkRunning, Resume, ResumeRefused, Reread, Goto, Remember, Home, Memory, Resting
<1>5. ASSUME NEW t \in Thread,
             Begin(t) \/ Claim(t) \/ Commit(t) \/ Close(t) \/ Refresh(t)
      PROVE  Keeps(t)
  <2>1. CASE Begin(t) \/ Close(t)
    BY <2>1 DEF Begin, Close, Goto, Resting, ManualOnly
  <2>2. CASE Claim(t)
    BY <2>2 DEF Claim, Goto, Remember, Memory, Resting, ManualOnly
  <2>3. CASE Commit(t)
    BY <2>3 DEF Commit, Goto, Remember, Memory, Resting, ManualOnly
  <2>4. CASE Refresh(t)
    BY <2>4 DEF Refresh, Goto, Remember, Memory, Resting, ManualOnly
  <2>. QED
    BY <1>5, <2>1, <2>2, <2>3, <2>4
<1>6. ASSUME NEW t \in Thread, FinishBatch(t) \/ LoseLease(t) \/ Fault(t) \/ Count(t)
      PROVE  Keeps(t)
  BY <1>6, LeavingBatch DEF Executing, Resting, ManualOnly
<1>7. ASSUME NEW t \in Thread, Release(t) PROVE Keeps(t) \/ Rests(t)
  <2>1. CASE Home(t) \/ Goto(t, "dead")
    BY <2>1 DEF Home, Goto
  <2>2. CASE /\ t \in ManualThread
             /\ Goto(t, "settle")
             /\ Remember(t, [NoMem EXCEPT !.key = mem[t].key, !.seen = mem[t].seen])
    BY <1>7, <2>2, TwoKinds DEF Release, Goto, Remember, NoMem, Resting, ManualOnly
  <2>. QED
    BY <1>7, <2>1, <2>2 DEF Release
<1>8. ASSUME NEW t \in Thread, Settle(t) \/ LostConnection(t) PROVE Rests(t)
  BY <1>8 DEF Settle, LostConnection, Home, Goto
<1>9. ASSUME NEW t \in Thread, Moves(t) PROVE Own(t)
  <2>1. Keeps(t) \/ Rests(t) => Own(t)
    BY DEF OwnKeys, Resting, ManualOnly
  <2>. QED
    BY <1>1, <1>2, <1>3, <1>4, <1>5, <1>6, <1>7, <1>8, <1>9, <2>1 DEF Moves, Step
<1>10. ASSUME NEW t \in Thread, Moves(t), NEW u \in Thread \ {t} PROVE Own(u)
  BY <1>10, OthersStay DEF OwnKeys
<1>11. \A t \in Thread : pc'[t] = "idle" => Own(t)
  BY DEF Resting, ManualOnly
<1>12. \A t \in Thread : pc'[t] = pc[t] /\ mem'[t] = mem[t] => Own(t)
  BY DEF OwnKeys
<1>. HIDE DEF Own
<1>13. \A u \in Thread : Own(u)
  BY <1>9, <1>10, <1>11, <1>12, Movers
<1>. QED
  BY <1>13 DEF OwnKeys, Own

\* The fields of a closure, as it is computed.
LEMMA ClosingFields ==
    ASSUME TypeOK, NEW t \in Thread, NEW s, Closing(t, s)
    PROVE  /\ mem'[t].key = mem[t].key
           /\ mem'[t].tok = mem[t].tok
           /\ mem'[t].seen = s
           /\ mem'[t].processed = Cardinality(Succeeded(mem[t].key))
           /\ mem'[t].failed = Cardinality(Failed(mem[t].key))
BY DEF TypeOK, Closing, Remember, Memory

\* The row of the acting thread's own run, after its step.
LEMMA OwnRowStep ==
    ASSUME TypeOK, OwnKeys, KeyKnown, NEW t \in Thread, RowOf(t), Moves(t)
    PROVE  RowOf(t)'
<1>. USE DEF TypeOK
<1>. DEFINE k == mem[t].key
            RowIs(there, s) == /\ pc'[t] = there
                               /\ mem'[t].key = k
                               /\ runs'[k].status = s
<1>1. CASE pc'[t] \in Resting \cup {"claim"}
  BY <1>1 DEF RowOf, Resting, Executing
<1>2. CASE TickLookup(t)
  <2>1. mem'[t].key = Scheduled(clock.slot) /\ runs' = runs
    BY <1>2 DEF TickLookup, Remember, NoMem
  <2>2. \/ pc'[t] = "create" /\ runs[Scheduled(clock.slot)].status = "absent"
        \/ pc'[t] = "resume" /\ runs[Scheduled(clock.slot)].status \in Resumable
    BY <1>2 DEF TickLookup, Goto
  <2>. QED
    BY <1>2, <2>1, <2>2 DEF RowOf, TickLookup, Executing
<1>3. CASE CreateRun(t)
  <2>1. k \in Key
    BY <1>3 DEF CreateRun, KeyKnown
  <2>2. pc'[t] = "idle" \/ RowIs("acquire", "queued")
    BY <1>3, <2>1 DEF CreateRun, RowOf, Goto, Home, Run, Resumable, Closed
  <2>. QED
    BY <1>1, <2>2 DEF RowOf, Executing, Resting
<1>4. CASE ExpireStale(t) \/ ScanQueue(t) \/ Settle(t) \/ LostConnection(t)
  BY <1>1, <1>4 DEF ExpireStale, ScanQueue, Settle, LostConnection, Goto, Home, Resting
<1>5. CASE ClaimRequest(t)
  <2>1. k \in Key
    BY <1>5 DEF ClaimRequest, KeyKnown
  <2>2. \/ pc'[t] = "idle"
        \/ RowIs("acquire", "queued")
        \/ RowIs("resume", "running")
        \/ /\ mem'[t].seen \in Closed
           /\ RowIs("settle", mem'[t].seen)
    BY <1>5, <2>1 DEF ClaimRequest, Goto, Home, Remember, Run, Memory, Closed
  <2>. QED
    BY <1>1, <2>2 DEF RowOf, Executing, Resting, Resumable
<1>6. CASE Acquire(t)
  <2>1. RowIs("mark", "queued")
    BY <1>6 DEF Acquire, RowOf, Goto, Remember, Memory
  <2>. QED
    BY <2>1 DEF RowOf, Executing
<1>7. CASE AcquireOverlap(t) \/ OverlapOwner(t)
  <2>1. pc'[t] = "idle" \/ RowIs("skip", "queued") \/ RowIs("overlap", "queued")
    BY <1>7 DEF AcquireOverlap, OverlapOwner, RowOf, Goto, Home
  <2>. QED
    BY <1>1, <2>1 DEF RowOf, Executing, Resting
<1>8. CASE SaveSkipped(t)
  <2>1. k \in Key
    BY <1>8 DEF SaveSkipped, KeyKnown
  <2>2. pc'[t] = "idle" \/ (RowIs("settle", "skipped_overlap") /\ mem'[t].seen = "skipped_overlap")
    BY <1>8, <2>1 DEF SaveSkipped, Goto, Home, Remember, Memory, Run
  <2>. QED
    BY <1>1, <2>2 DEF RowOf, Executing, Resting, Closed
<1>9. CASE MarkRunning(t) \/ Resume(t)
  <2>1. k \in Key
    BY <1>9 DEF MarkRunning, Resume, KeyKnown
  <2>2. RowIs("begin", "running") /\ runs'[k].token = mem'[t].tok
    <3>1. CASE MarkRunning(t)
      BY <2>1, <3>1 DEF MarkRunning, Marked, Goto, Run, Memory
    <3>2. CASE Resume(t)
      BY <2>1, <3>2 DEF Resume, Marked, Goto, Remember, Run, Memory
    <3>. QED
      BY <1>9, <3>1, <3>2
  <2>. QED
    BY <2>2 DEF RowOf, Executing
<1>10. CASE ResumeRefused(t)
  <2>1. pc'[t] = "idle" \/ (RowIs("reread", runs[k].status) /\ runs[k].status \in Resumable)
    BY <1>10 DEF ResumeRefused, RowOf, Goto, Home
  <2>. QED
    BY <1>1, <2>1 DEF RowOf, Executing, Resting
<1>11. CASE Reread(t)
  <2>1. pc'[t] = "idle"
    BY <1>11 DEF Reread, RowOf, Home, Goto
  <2>. QED
    BY <1>1, <2>1 DEF Resting
<1>12. CASE Begin(t) \/ Claim(t) \/ Commit(t)
  <2>1. /\ pc'[t] \in {"batch", "fetch"}
        /\ pc[t] \in Executing
        /\ mem'[t].key = k /\ mem'[t].tok = mem[t].tok
        /\ runs' = runs
    <3>1. CASE Begin(t)
      BY <3>1 DEF Begin, Goto, Executing
    <3>2. CASE Claim(t)
      BY <3>2 DEF Claim, Goto, Remember, Memory, Executing
    <3>3. CASE Commit(t)
      BY <3>3 DEF Commit, Goto, Remember, Memory, Executing
    <3>. QED
      BY <1>12, <3>1, <3>2, <3>3
  <2>2. runs[k].status = "running" /\ runs[k].token = mem[t].tok
    BY <2>1 DEF RowOf
  <2>. QED
    BY <2>1, <2>2 DEF RowOf, Executing
<1>13. CASE FinishBatch(t) \/ LoseLease(t) \/ Count(t)
  <2>1. PICK s \in Closed \ {"skipped_overlap"} : Closing(t, s) /\ pc' = [pc EXCEPT ![t] = "close"]
    BY <1>13 DEF FinishBatch, LoseLease, Count, CutShort, Goto, Closed
  <2>2. runs[k].status = "running" /\ runs[k].token = mem[t].tok /\ runs' = runs
    BY <1>13 DEF FinishBatch, LoseLease, Count, RowOf, Executing
  <2>3. pc'[t] = "close" /\ mem'[t].key = k /\ mem'[t].tok = mem[t].tok /\ mem'[t].seen = s
    BY <2>1, ClosingFields
  <2>. QED
    BY <2>2, <2>3 DEF RowOf, Executing
<1>14. CASE Fault(t)
  <2>1. runs[k].status = "running" /\ runs[k].token = mem[t].tok /\ runs' = runs
    BY <1>14 DEF Fault, RowOf, Executing
  <2>2. pc'[t] = "count" /\ mem'[t].key = k /\ mem'[t].tok = mem[t].tok
    BY <1>14 DEF Fault, Goto, Remember, Memory
  <2>. QED
    BY <2>1, <2>2 DEF RowOf, Executing
<1>15. CASE Close(t)
  <2>1. k \in Key /\ runs[k].token = mem[t].tok /\ mem[t].seen \in Closed
    BY <1>15 DEF Close, KeyKnown, RowOf
  <2>2. runs'[k].status = mem[t].seen /\ mem' = mem /\ pc'[t] \in {"release", "refresh"}
    BY <1>15, <2>1 DEF Close, SavedClosure, Goto
  <2>. QED
    BY <2>1, <2>2 DEF RowOf, Executing
<1>16. CASE Refresh(t)
  <2>1. runs[k].status \in Closed /\ runs' = runs
    BY <1>16 DEF Refresh, RowOf
  <2>2. RowIs("release", runs[k].status) /\ mem'[t].seen = runs[k].status
    BY <1>16, <2>1 DEF Refresh, Goto, Remember, Memory
  <2>. QED
    BY <2>1, <2>2 DEF RowOf, Executing
<1>17. CASE Release(t)
  <2>1. runs[k].status \in Closed /\ mem[t].seen = runs[k].status /\ runs' = runs
    BY <1>17 DEF Release, RowOf
  <2>2. CASE Home(t) \/ Goto(t, "dead")
    BY <1>1, <2>2 DEF Home, Goto, Resting
  <2>3. CASE Goto(t, "settle") /\ Remember(t, [NoMem EXCEPT !.key = k, !.seen = mem[t].seen])
    <3>1. pc'[t] = "settle" /\ mem'[t].key = k /\ mem'[t].seen = mem[t].seen
      BY <2>3 DEF Goto, Remember, NoMem
    <3>. QED
      BY <2>1, <3>1 DEF RowOf, Executing
  <2>. QED
    BY <1>17, <2>2, <2>3 DEF Release
<1>. QED
  BY <1>2, <1>3, <1>4, <1>5, <1>6, <1>7, <1>8, <1>9, <1>10, <1>11, <1>12, <1>13, <1>14, <1>15,
     <1>16, <1>17 DEF Moves, Step

\* A run that another thread works on is not touched.
LEMMA WorkedRunStays ==
    ASSUME OneOfEach, TypeOK, OwnKeys, KeyKnown, NEW t \in Thread, Moves(t),
           NEW u \in Thread \ {t}, pc[u] \notin Resting
    PROVE  runs'[mem[u].key] = runs[mem[u].key]
<1>1. mem[u].key \in Key
  BY DEF KeyKnown, Resting
<1>2. CASE pc[t] \notin Resting
  <2>1. mem[u].key # mem[t].key
    BY <1>2, DistinctKeys
  <2>. QED
    BY <1>1, <2>1, OtherRunsStay
<1>3. CASE pc[t] \in Resting
  <2>1. runs' = runs
    BY <1>3 DEF Moves, Step, Resting, TickLookup, CreateRun, ExpireStale, ScanQueue, ClaimRequest, Acquire,
              AcquireOverlap, OverlapOwner, SaveSkipped, MarkRunning, Resume, ResumeRefused,
              Reread, Begin, Claim, Commit, FinishBatch, LoseLease, Count, Close, Refresh, Release,
              Settle, LostConnection, Fault, Executing
  <2>. QED
    BY <2>1
<1>. QED
  BY <1>2, <1>3

LEMMA RowStep ==
    ASSUME OneOfEach, TypeOK, OwnKeys, KeyKnown, RowAtStep, [Next]_vars
    PROVE  RowAtStep'
<1>0. ASSUME NEW u \in Thread, pc'[u] = "idle" PROVE RowOf(u)'
  BY <1>0 DEF RowOf, Executing
<1>1. ASSUME NEW u \in Thread, pc'[u] = pc[u], mem'[u] = mem[u],
             pc[u] \notin Resting => runs'[mem[u].key] = runs[mem[u].key]
      PROVE  RowOf(u)'
  <2>1. RowOf(u)
    BY DEF RowAtStep
  <2>. QED
    BY <1>1, <2>1 DEF RowOf, Resting, Executing
<1>2. ASSUME NEW t \in Thread, Moves(t), NEW u \in Thread PROVE RowOf(u)'
  <2>1. CASE u = t
    BY <1>2, <2>1, OwnRowStep DEF RowAtStep
  <2>2. CASE u # t
    BY <1>1, <1>2, <2>2, OthersStay, WorkedRunStays
  <2>. QED
    BY <2>1, <2>2
<1>3. ASSUME NEW u \in Thread PROVE RowOf(u)'
  <2>1. CASE \E t \in Thread : Moves(t)
    BY <1>2, <2>1
  <2>2. CASE UNCHANGED runs /\ ((pc'[u] = pc[u] /\ mem'[u] = mem[u]) \/ pc'[u] = "idle")
    BY <1>0, <1>1, <2>2
  <2>. QED
    BY <2>1, <2>2, Movers
<1>. QED
  BY <1>3 DEF RowAtStep

\* No thread executes a run that is not running.
LEMMA ExecutedRunsRun ==
    ASSUME RowAtStep, NEW k \in Key, runs[k].status # "running"
    PROVE  \A t \in Thread : pc[t] \in Executing => mem[t].key # k
BY DEF RowAtStep, RowOf, Executing

\* The outcomes of one run, as the counters see them.
LEMMA Counted ==
    ASSUME TypeOK, NEW k \in Key
    PROVE  /\ Cardinality(Succeeded(k)) \in Nat
           /\ Cardinality(Classified(k)) \in Nat
           /\ Cardinality(Failed(k)) \in Nat
           /\ Cardinality(Classified(k)) <= Cardinality(Failed(k))
           /\ IsFiniteSet(Failed(k))
<1>1. Failed(k) \subseteq Item /\ Classified(k) \subseteq Failed(k)
  BY DEF TypeOK, Failed, Classified, Interrupted, Record
<1>2. IsFiniteSet(Failed(k))
  BY <1>1, SchedulerAssumption, FS_Subset
<1>. QED
  BY <1>1, <1>2, CountersAreNat, FS_Subset, FS_CardinalityType

\* Failures only grow, so the counters of a run that nobody executes stay within the bounds.
LEMMA TallyStays ==
    ASSUME IInv, TypeOK', [Next]_vars, NEW k \in Key,
           \A t \in Thread : pc[t] \in Executing => mem[t].key # k,
           NEW p, NEW f, Tally(k, p, f)
    PROVE  Tally(k, p, f)'
<1>. USE DEF IInv
<1>1. /\ Succeeded(k)' = Succeeded(k)
      /\ Classified(k)' = Classified(k)
      /\ Failed(k) \subseteq Failed(k)'
  BY OutcomesStay
<1>2. IsFiniteSet(Failed(k)')
  <2>1. Failed(k)' \subseteq Item
    BY DEF TypeOK, Failed, Classified, Interrupted, Record
  <2>. QED
    BY <2>1, SchedulerAssumption, FS_Subset
<1>3. Cardinality(Failed(k)) <= Cardinality(Failed(k)') /\ Cardinality(Failed(k)') \in Nat
  BY <1>1, <1>2, FS_Subset, FS_CardinalityType
<1>. QED
  BY <1>1, <1>3, Counted DEF Tally

LEMMA CountersAtCloseStep ==
    ASSUME OneOfEach, IInv, TypeOK', OwnKeys, RowAtStep, CountersAtClose, [Next]_vars
    PROVE  CountersAtClose'
<1>. USE DEF IInv
<1>1. ASSUME NEW u \in Thread, pc[u] = "close", pc'[u] = "close", mem'[u] = mem[u],
             NEW k \in Key, NEW p, NEW f,
             k = mem[u].key, p = mem[u].processed, f = mem[u].failed
      PROVE  Tally(k, p, f)'
  <2>1. \A t \in Thread : pc[t] \in Executing => mem[t].key # k
    BY <1>1, DistinctKeys DEF Executing, Resting
  <2>2. Tally(k, p, f)
    BY <1>1 DEF CountersAtClose
  <2>. QED
    BY <2>1, <2>2, TallyStays
<1>2. ASSUME NEW t \in Thread, FinishBatch(t) \/ LoseLease(t) \/ Count(t),
             NEW k \in Key, NEW p, NEW f,
             k = mem'[t].key, p = mem'[t].processed, f = mem'[t].failed
      PROVE  Tally(k, p, f)'
  <2>1. PICK s : Closing(t, s)
    BY <1>2 DEF FinishBatch, LoseLease, Count
  <2>2. UNCHANGED attempts
    BY <1>2 DEF FinishBatch, LoseLease, Count
  <2>3. k = mem[t].key /\ p = Cardinality(Succeeded(k)) /\ f = Cardinality(Failed(k))
    BY <1>2, <2>1, ClosingFields
  <2>4. Tally(k, p, f)
    BY <2>3, Counted DEF Tally
  <2>. QED
    BY <2>2, <2>4 DEF Tally, attempts, Succeeded, Classified, Failed, Interrupted, Decided, OpenItems
<1>3. ASSUME NEW t \in Thread, Moves(t), pc'[t] = "close"
      PROVE  FinishBatch(t) \/ LoseLease(t) \/ Count(t)
  BY <1>3 DEF TypeOK, Moves, Step, TickLookup, CreateRun, ExpireStale, ScanQueue, ClaimRequest, Acquire,
              AcquireOverlap, OverlapOwner, SaveSkipped, MarkRunning, Resume, ResumeRefused,
              Reread, Begin, Claim, Commit, Close, Refresh, Release,
              Settle, LostConnection, Fault, Goto, Home
<1>4. ASSUME NEW u \in Thread, pc'[u] = "close"
      PROVE  \/ pc[u] = "close" /\ mem'[u] = mem[u]
             \/ FinishBatch(u) \/ LoseLease(u) \/ Count(u)
  BY <1>3, <1>4, Movers, OthersStay
<1>5. ASSUME NEW u \in Thread, pc'[u] = "close",
             NEW k, NEW p, NEW f, k = mem'[u].key, p = mem'[u].processed, f = mem'[u].failed
      PROVE  Tally(k, p, f)'
  <2>1. k \in Key
    BY <1>5, KeyStep DEF KeyKnown
  <2>. QED
    BY <1>1, <1>2, <1>4, <1>5, <2>1
<1>. QED
  BY <1>5 DEF CountersAtClose

\* How the row of a run changes: it is created, skipped, marked, or closed with a thread's counters.
LEMMA RunStep ==
    ASSUME IInv, RowAtStep, [Next]_vars, NEW k \in Key
    PROVE  \/ runs'[k] = runs[k]
           \/ /\ runs[k].status = "absent"
              /\ runs'[k] = [runs[k] EXCEPT !.status = "queued"]
              /\ UNCHANGED attempts
              /\ \E t \in Thread : (CreateRun(t) \/ ClaimRequest(t)) /\ mem[t].key = k
           \/ /\ runs[k].status = "queued"
              /\ runs'[k] = [runs[k] EXCEPT !.status = "skipped_overlap"]
              /\ UNCHANGED attempts
           \/ runs[k].status \in Resumable /\ runs'[k].status = "running"
           \/ /\ runs[k].status = "running"
              /\ runs'[k].status \in Closed \ {"skipped_overlap"}
              /\ UNCHANGED attempts
              /\ \E t \in Thread : /\ pc[t] = "close"
                                   /\ mem[t].key = k
                                   /\ runs'[k].processed = mem[t].processed
                                   /\ runs'[k].failed = mem[t].failed
<1>. DEFINE Same == runs'[k] = runs[k]
            Created == /\ runs[k].status = "absent"
                       /\ runs'[k] = [runs[k] EXCEPT !.status = "queued"]
                       /\ UNCHANGED attempts
                       /\ \E t \in Thread : (CreateRun(t) \/ ClaimRequest(t)) /\ mem[t].key = k
            Skipped == /\ runs[k].status = "queued"
                       /\ runs'[k] = [runs[k] EXCEPT !.status = "skipped_overlap"]
                       /\ UNCHANGED attempts
            Runs == runs[k].status \in Resumable /\ runs'[k].status = "running"
            Closes == /\ runs[k].status = "running"
                      /\ runs'[k].status \in Closed \ {"skipped_overlap"}
                      /\ UNCHANGED attempts
                      /\ \E t \in Thread : /\ pc[t] = "close"
                                           /\ mem[t].key = k
                                           /\ runs'[k].processed = mem[t].processed
                                           /\ runs'[k].failed = mem[t].failed
            Goal == Same \/ Created \/ Skipped \/ Runs \/ Closes
<1>0. runs \in [Key -> Run] /\ mem \in [Thread -> Memory] /\ TypeOK /\ KeyKnown
  BY DEF IInv, TypeOK
<1>1. ASSUME NEW t \in Thread, Moves(t), k = mem[t].key PROVE Goal
  <2>0. RowOf(t)
    BY DEF RowAtStep
  <2>1. CASE CreateRun(t)
    BY <1>0, <1>1, <2>1 DEF CreateRun, Run
  <2>2. CASE ClaimRequest(t)
    <3>1. CASE runs' = runs
      BY <3>1
    <3>2. CASE runs[k].status = "absent" /\ runs' = [runs EXCEPT ![k].status = "queued"]
      BY <1>0, <1>1, <2>2, <3>2 DEF ClaimRequest, Run
    <3>3. CASE runs' = [runs EXCEPT ![k].status = runs[k].status]
      BY <1>0, <3>3 DEF Run
    <3>. QED
      BY <1>1, <2>2, <3>1, <3>2, <3>3 DEF ClaimRequest
  <2>3. CASE SaveSkipped(t)
    BY <1>0, <1>1, <2>0, <2>3 DEF SaveSkipped, RowOf, Run
  <2>4. CASE MarkRunning(t) \/ Resume(t)
    BY <1>0, <1>1, <2>0, <2>4 DEF MarkRunning, Resume, Marked, RowOf, Run, Resumable
  <2>5. CASE Close(t)
    BY <1>0, <1>1, <2>0, <2>5 DEF Close, SavedClosure, RowOf
  <2>6. CASE ~ (CreateRun(t) \/ ClaimRequest(t) \/ SaveSkipped(t) \/ MarkRunning(t) \/ Resume(t) \/ Close(t))
    <3>1. runs' = runs
      BY <1>1, <2>6 DEF Moves, Step, TickLookup, ExpireStale, ScanQueue, Acquire, AcquireOverlap,
              OverlapOwner, ResumeRefused, Reread, Begin, Claim, Commit, FinishBatch, LoseLease,
              Count, Refresh, Release, Settle, LostConnection, Fault
    <3>. QED
      BY <3>1
  <2>. QED
    BY <2>1, <2>2, <2>3, <2>4, <2>5, <2>6
<1>. HIDE DEF Goal
<1>2. ASSUME NEW t \in Thread, Moves(t) PROVE Goal
  BY <1>0, <1>1, <1>2, OtherRunsStay DEF Goal
<1>3. Goal
  BY <1>2, Movers DEF Goal
<1>. QED
  BY <1>3 DEF Goal

LEMMA CountersStep ==
    ASSUME IInv, TypeOK', RowAtStep, CountersAtClose, CountersMatchOutcomes, Unworked, [Next]_vars
    PROVE  CountersMatchOutcomes'
<1>1. ASSUME NEW k \in Key, runs'[k].status \in Closed, NEW p, NEW f,
             p = runs'[k].processed, f = runs'[k].failed
      PROVE  Tally(k, p, f)'
  <2>1. CASE runs'[k] = runs[k]
    <3>1. Tally(k, p, f)
      BY <1>1, <2>1 DEF CountersMatchOutcomes, Tally
    <3>2. \A t \in Thread : pc[t] \in Executing => mem[t].key # k
      BY <1>1, <2>1, ExecutedRunsRun DEF Closed
    <3>. QED
      BY <3>1, <3>2, TallyStays
  <2>2. CASE /\ runs[k].status = "queued"
             /\ runs'[k] = [runs[k] EXCEPT !.status = "skipped_overlap"]
    <3>0. runs[k] \in Run
      BY DEF IInv, TypeOK
    <3>5. Decided(k) = {} /\ runs[k].processed = 0 /\ runs[k].failed = 0
      BY <2>2 DEF Unworked
    <3>1. p = 0 /\ f = 0 /\ Succeeded(k) = {} /\ Classified(k) = {}
      <4>1. p = 0 /\ f = 0
        BY <1>1, <2>2, <3>0, <3>5 DEF Run
      <4>2. Succeeded(k) = {} /\ Classified(k) = {}
        BY <3>5 DEF Decided, Succeeded, Classified
      <4>. QED
        BY <4>1, <4>2
    <3>2. Cardinality(Succeeded(k)) = 0 /\ Cardinality(Classified(k)) = 0
      BY <3>1, FS_EmptySet
    <3>3. Tally(k, p, f)
      BY <3>1, <3>2, Counted DEF Tally, IInv
    <3>4. \A t \in Thread : pc[t] \in Executing => mem[t].key # k
      BY <2>2, ExecutedRunsRun
    <3>. QED
      BY <3>3, <3>4, TallyStays
  <2>3. CASE /\ UNCHANGED attempts
             /\ \E t \in Thread : /\ pc[t] = "close"
                                  /\ mem[t].key = k
                                  /\ runs'[k].processed = mem[t].processed
                                  /\ runs'[k].failed = mem[t].failed
    <3>1. Tally(k, p, f)
      BY <1>1, <2>3 DEF CountersAtClose
    <3>. QED
      BY <2>3, <3>1 DEF Tally, attempts, Succeeded, Classified, Failed, Interrupted, Decided, OpenItems
  <2>4. CASE runs'[k].status \in {"running", "queued"}
    BY <1>1, <2>4 DEF Closed
  <2>. QED
    BY <2>1, <2>2, <2>3, <2>4, RunStep DEF IInv, TypeOK, Run
<1>. QED
  BY <1>1 DEF CountersMatchOutcomes, Tally

LEMMA UnworkedStep ==
    ASSUME IInv, RowAtStep, Unworked, [Next]_vars
    PROVE  Unworked'
<1>. SUFFICES ASSUME NEW k \in Key, runs'[k].status \in {"absent", "queued", "skipped_overlap"}
              PROVE  Decided(k)' = {} /\ runs'[k].processed = 0 /\ runs'[k].failed = 0
  BY DEF Unworked
<1>0. runs[k] \in Run
  BY DEF IInv, TypeOK
<1>1. /\ runs[k].status \in {"absent", "queued", "skipped_overlap"}
      /\ runs'[k].processed = runs[k].processed
      /\ runs'[k].failed = runs[k].failed
  <2>1. \/ runs'[k] = runs[k]
        \/ /\ runs[k].status \in {"absent", "queued"}
           /\ \E s : runs'[k] = [runs[k] EXCEPT !.status = s]
    <3>1. \/ runs'[k] = runs[k]
          \/ runs[k].status = "absent" /\ runs'[k] = [runs[k] EXCEPT !.status = "queued"]
          \/ runs[k].status = "queued" /\ runs'[k] = [runs[k] EXCEPT !.status = "skipped_overlap"]
          \/ runs'[k].status = "running"
          \/ runs'[k].status \in Closed \ {"skipped_overlap"}
      BY RunStep
    <3>2. runs'[k].status \notin {"running"} \cup (Closed \ {"skipped_overlap"})
      BY DEF Closed
    <3>. QED
      BY <3>1, <3>2
  <2>. QED
    BY <1>0, <2>1 DEF Run
<1>2. Decided(k)' = Decided(k)
  BY <1>1, ExecutedRunsRun, OutcomesStay DEF IInv
<1>. QED
  BY <1>1, <1>2 DEF Unworked

LEMMA RequestAndRunStep ==
    ASSUME OneOfEach, IInv, OwnKeys, RowAtStep, RequestAndRun, [Next]_vars
    PROVE  RequestAndRun'
<1>. SUFFICES ASSUME NEW q \in Request
              PROVE  /\ reqs'[q] \in {"absent", "queued", "expired"} => runs'[Manual(q)].status = "absent"
                     /\ reqs'[q] = "completed" => runs'[Manual(q)].status \in Closed \ {"skipped_overlap"}
                     /\ reqs'[q] = "conflict" => runs'[Manual(q)].status = "skipped_overlap"
  BY DEF RequestAndRun
<1>. DEFINE k == Manual(q)
            New == {"absent", "queued", "expired"}
<1>0. k \in Key /\ runs[k] \in Run /\ reqs \in [Request -> ReqState] /\ mem \in [Thread -> Memory]
  BY Keys DEF IInv, TypeOK
<1>1. /\ reqs[q] \in New => runs[k].status = "absent"
      /\ reqs[q] = "completed" => runs[k].status \in Closed \ {"skipped_overlap"}
      /\ reqs[q] = "conflict" => runs[k].status = "skipped_overlap"
  BY DEF RequestAndRun
\* The run of a request that is still waiting is created with the claim of the request.
<1>2. ASSUME NEW t \in Thread, CreateRun(t) \/ ClaimRequest(t), mem[t].key = k, runs'[k] # runs[k]
      PROVE  reqs'[q] = "claimed"
  <2>1. CASE CreateRun(t)
    <3>1. t \in TickThread
      BY <2>1 DEF CreateRun, RowAtStep, RowOf
    <3>2. k \in {Scheduled(s) : s \in 1..MaxSlot}
      BY <1>2, <2>1, <3>1 DEF CreateRun, OwnKeys, KeysOf, Resting
    <3>. QED
      BY <3>2 DEF Scheduled, Manual
  <2>2. CASE ClaimRequest(t)
    <3>1. k[2] = q
      BY DEF Manual
    <3>. QED
      BY <1>0, <1>2, <2>2, <3>1 DEF ClaimRequest
  <2>. QED
    BY <1>2, <2>1, <2>2
<1>3. \/ runs'[k].status = runs[k].status
      \/ runs[k].status = "absent" /\ reqs'[q] = "claimed"
      \/ runs[k].status = "queued" /\ runs'[k].status = "skipped_overlap"
      \/ runs[k].status \in Resumable /\ runs'[k].status \in {"running"} \cup (Closed \ {"skipped_overlap"})
  <2>1. \/ runs'[k] = runs[k]
        \/ runs[k].status = "absent" /\ \E t \in Thread : (CreateRun(t) \/ ClaimRequest(t)) /\ mem[t].key = k
        \/ runs[k].status = "queued" /\ runs'[k] = [runs[k] EXCEPT !.status = "skipped_overlap"]
        \/ runs[k].status \in Resumable /\ runs'[k].status \in {"running"} \cup (Closed \ {"skipped_overlap"})
    BY <1>0, RunStep DEF Resumable
  <2>. QED
    BY <1>0, <1>2, <2>1 DEF Run
\* What becomes of the request.
<1>4. \/ reqs'[q] = reqs[q]
      \/ reqs[q] \in New /\ reqs'[q] \in New
      \/ reqs'[q] = "claimed"
      \/ /\ reqs[q] = "claimed"
         /\ runs' = runs
         /\ \/ reqs'[q] = "completed" /\ runs[k].status \in Closed \ {"skipped_overlap"}
            \/ reqs'[q] = "conflict" /\ runs[k].status = "skipped_overlap"
  <2>1. ASSUME NEW t \in Thread, ExpireStale(t) PROVE reqs'[q] = reqs[q] \/ (reqs[q] \in New /\ reqs'[q] \in New)
    BY <2>1 DEF ExpireStale
  <2>2. ASSUME NEW t \in Thread, ClaimRequest(t) PROVE reqs'[q] = reqs[q] \/ reqs'[q] = "claimed"
    BY <1>0, <2>2 DEF ClaimRequest
  <2>3. ASSUME NEW t \in Thread, Settle(t), reqs'[q] # reqs[q]
        PROVE  /\ reqs[q] = "claimed"
               /\ runs' = runs
               /\ \/ reqs'[q] = "completed" /\ runs[k].status \in Closed \ {"skipped_overlap"}
                  \/ reqs'[q] = "conflict" /\ runs[k].status = "skipped_overlap"
    <3>1. mem[t].key[2] = q /\ reqs[q] = "claimed" /\ pc[t] = "settle" /\ runs' = runs
          /\ reqs'[q] = IF mem[t].seen = "skipped_overlap" THEN "conflict" ELSE "completed"
      BY <1>0, <2>3 DEF Settle
    <3>2. runs[mem[t].key].status \in Closed /\ mem[t].seen = runs[mem[t].key].status
      BY <3>1 DEF RowAtStep, RowOf
    <3>3. mem[t].key \in {Manual(r) : r \in Request}
      BY <3>1 DEF OwnKeys, ManualOnly, KeysOf, Resting
    <3>4. mem[t].key = k
      BY <3>1, <3>3 DEF Manual
    <3>. QED
      BY <3>1, <3>2, <3>4
  <2>4. Admit => reqs'[q] = reqs[q] \/ (reqs[q] \in New /\ reqs'[q] \in New)
    BY <1>0 DEF Admit
  <2>5. ASSUME NEW t \in Thread, Moves(t), ~ExpireStale(t), ~ClaimRequest(t), ~Settle(t)
        PROVE  reqs' = reqs
    BY <2>5 DEF Moves, Step, TickLookup, CreateRun, ScanQueue, Acquire,
              AcquireOverlap, OverlapOwner, SaveSkipped, MarkRunning, Resume, ResumeRefused,
              Reread, Begin, Claim, Commit, FinishBatch, LoseLease, Count, Close, Refresh, Release,
              LostConnection, Fault
  <2>. QED
    BY <2>1, <2>2, <2>3, <2>4, <2>5, Movers
<1>. QED
  BY <1>0, <1>1, <1>3, <1>4, Zenon DEF Closed, Resumable

-----------------------------------------------------------------------------

LEMMA AloneInit == Init => AloneInv
<1>. SUFFICES ASSUME Init PROVE AloneInv
  OBVIOUS
<1>1. IInv
  BY InvInit
<1>2. /\ \A t \in Thread : pc[t] = "idle"
      /\ \A k \in Key : runs[k] = NoRun
      /\ \A q \in Request : reqs[q] = "absent"
      /\ ledger = {}
  BY DEF Init
<1>3. OwnKeys /\ RowAtStep /\ CountersAtClose
  BY <1>2 DEF OwnKeys, RowAtStep, RowOf, CountersAtClose, Resting, ManualOnly, Executing
<1>4. CountersMatchOutcomes /\ Unworked /\ RequestAndRun
  BY <1>2, Keys DEF CountersMatchOutcomes, Unworked, RequestAndRun, NoRun, Closed, Decided
<1>. QED
  BY <1>1, <1>3, <1>4 DEF AloneInv

LEMMA AloneStep ==
    ASSUME OneOfEach, AloneInv, [Next]_vars
    PROVE  AloneInv'
<1>1. /\ IInv /\ TypeOK /\ KeyKnown /\ OwnKeys /\ RowAtStep /\ CountersAtClose
      /\ CountersMatchOutcomes /\ Unworked /\ RequestAndRun
  BY DEF AloneInv, IInv
<1>2. IInv' /\ TypeOK'
  BY <1>1, InvStep DEF IInv
<1>3. OwnKeys' /\ RowAtStep'
  BY <1>1, OwnKeysStep, RowStep
<1>4. CountersAtClose' /\ CountersMatchOutcomes' /\ Unworked' /\ RequestAndRun'
  BY <1>1, <1>2, CountersAtCloseStep, CountersStep, UnworkedStep, RequestAndRunStep
<1>. QED
  BY <1>2, <1>3, <1>4 DEF AloneInv

LEMMA AloneInvariance == ASSUME OneOfEach PROVE Spec => []AloneInv
<1>1. AloneInv /\ [Next]_vars => AloneInv'
  BY AloneStep
<1>. QED
  BY <1>1, AloneInit, PTL DEF Spec

\* With one ticking and one dispatching thread, whatever crashes, lost connections, exceptions
\* and expired leases there are, the counters of a closed run are its outcomes (PS-INV-10).
THEOREM CountersHold == ASSUME OneOfEach PROVE Spec => []CountersMatchOutcomes
<1>1. AloneInv => CountersMatchOutcomes
  BY DEF AloneInv
<1>. QED
  BY <1>1, AloneInvariance, PTL

\* ... a settled or expired request tells what became of its run ...
THEOREM RequestsTold == ASSUME OneOfEach PROVE Spec => []RequestTellsItsRun
<1>1. ASSUME AloneInv, NEW q \in Request
      PROVE  LET k == Manual(q) IN
             /\ reqs[q] = "completed" => runs[k].status \in Closed \ {"skipped_overlap"}
             /\ reqs[q] = "conflict" => runs[k].status = "skipped_overlap" /\ Decided(k) = {}
             /\ reqs[q] = "expired" => runs[k].status = "absent"
  <2>1. Manual(q) \in Key
    BY Keys
  <2>. QED
    BY <1>1, <2>1 DEF AloneInv, RequestAndRun, Unworked
<1>2. AloneInv => RequestTellsItsRun
  BY <1>1 DEF RequestTellsItsRun
<1>. QED
  BY <1>2, AloneInvariance, PTL

\* ... and a run that reached an outcome keeps it.
THEOREM FinishedStays == ASSUME OneOfEach PROVE Spec => FinishedStaysFinished
<1>1. ASSUME AloneInv, [Next]_vars, NEW k \in Key, runs[k].status \in Closed
      PROVE  runs'[k] = runs[k]
  BY <1>1, RunStep DEF AloneInv, Closed, Resumable
<1>2. AloneInv /\ [Next]_vars => [\A k \in Key : runs[k].status \in Closed => runs'[k] = runs[k]]_vars
  BY <1>1
<1>. QED
  BY <1>2, AloneInvariance, PTL DEF Spec, FinishedStaysFinished

=============================================================================
