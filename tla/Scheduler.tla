------------------------------ MODULE Scheduler ------------------------------
(***************************************************************************)
(* The scheduler processes: the hourly tick thread (run_tick) and the      *)
(* manual-run dispatcher thread (Dispatcher._loop, run_manual) of each     *)
(* process, the singleton ProcessingLease they compete for, the            *)
(* ProcessingRun rows and the ManualRunRequest rows.                       *)
(*                                                                         *)
(* Every transaction, and every statement outside one, is a step of its    *)
(* own: pc names the statement a thread is about to run.  A batch is seen  *)
(* here only through its fenced transactions (Begin, Claim, Commit); what  *)
(* they do to the day's candidates is module Batch.                        *)
(*                                                                         *)
(* Time is counted in ticks.  lease.left is expires_at minus now; it keeps *)
(* decreasing to -MaxLag, because a transaction reads the clock before it  *)
(* waits for the lease row and so may compare with a time MaxLag ticks old.*)
(***************************************************************************)
EXTENDS Integers, FiniteSets

CONSTANTS Process,      \* scheduler processes (two during an overlapping deploy)
          Ticker,       \* the processes whose main thread is modelled
          Dispatcher,   \* the processes whose dispatcher thread is modelled
          MaxSlot,      \* hours explored
          SlotLen,      \* ticks in an hour
          TTL,          \* LEASE_TTL in ticks: less than an hour
          MaxLag,       \* how old, in ticks, the `now` of a transaction may be
          NumRequests,  \* manual requests ever admitted
          Item,         \* positions of a frozen batch
          MaxGrants,    \* bound on the grants of the lease
          MaxCrashes,   \* bound on crashes and lost database connections
          MaxFaults     \* bound on unexpected exceptions inside a batch

ASSUME SchedulerAssumption ==
    /\ Ticker \subseteq Process
    /\ Dispatcher \subseteq Process
    /\ MaxSlot \in Nat \ {0}
    /\ SlotLen \in Nat \ {0}
    /\ MaxLag \in Nat
    /\ TTL \in Nat
    /\ MaxLag < TTL
    /\ NumRequests \in Nat
    /\ MaxGrants \in Nat
    /\ MaxCrashes \in Nat
    /\ MaxFaults \in Nat
    /\ IsFiniteSet(Item)

VARIABLES lease,    \* ProcessingLease: fencing_token, owner_run, expires_at - now
          runs,     \* ProcessingRun by trigger key
          reqs,     \* ManualRunRequest.state by number, in created_at order
          open,     \* CoreAttempt rows without an outcome
          cut,      \* positions of each run with an attempt closed as "interrupted"
          ledger,   \* the classified outcomes of attempts, with the token that decided them
          pc,       \* the statement each thread is about to run
          mem,      \* the local variables of each thread
          clock,    \* the current hour and the tick within it
          budget    \* crashes and faults so far (bounds only)

vars == <<lease, runs, reqs, open, cut, ledger, pc, mem, clock, budget>>

attempts == <<open, cut, ledger>>

-----------------------------------------------------------------------------
(* Trigger keys, threads, rows. *)

Request == 1..NumRequests
Scheduled(s) == <<"scheduled", s>>                 \* trigger_key_for_slot
Manual(q)    == <<"manual", q>>                    \* f"manual:{manual.request_id}"
Key   == {Scheduled(s) : s \in 1..MaxSlot} \cup {Manual(q) : q \in Request}
NoKey == <<"none", 0>>

TickThread   == {<<p, "tick">> : p \in Ticker}
ManualThread == {<<p, "manual">> : p \in Dispatcher}
Thread == TickThread \cup ManualThread

\* Mutant of Resumable: a partial run could be taken up again.
ResumableOnceEnded == {"queued", "running", "partial"}
Resumable == {"queued", "running"}                 \* RESUMABLE_STATUSES
Closed    == {"succeeded", "partial", "failed", "skipped_overlap"}
Status    == {"absent"} \cup Resumable \cup Closed
ReqState  == {"absent", "queued", "claimed", "completed", "conflict", "expired"}

NoRun == [status |-> "absent", token |-> 0, processed |-> 0, failed |-> 0]
NoMem == [key |-> NoKey, tok |-> 0, item |-> 0, seen |-> "absent",
          processed |-> 0, failed |-> 0, raise |-> FALSE]

\* A thread between acquire_lease and release_lease: it holds a token.
Working   == {"mark", "begin", "batch", "fetch", "count", "close", "refresh", "release"}
Executing == {"begin", "batch", "fetch"}
PcValues  == Working \cup {"idle", "scan", "claim", "create", "acquire", "overlap", "skip",
                           "resume", "reread", "settle", "dead"}

Init == /\ lease = [token |-> 0, owner |-> NoKey, left |-> -MaxLag]
        /\ runs = [k \in Key |-> NoRun]
        /\ reqs = [q \in Request |-> "absent"]
        /\ open = {}
        /\ cut = [k \in Key |-> {}]
        /\ ledger = {}
        /\ pc = [t \in Thread |-> "idle"]
        /\ mem = [t \in Thread |-> NoMem]
        /\ clock = [slot |-> 1, tick |-> 0]
        /\ budget = [crashes |-> 0, faults |-> 0]

-----------------------------------------------------------------------------
(* Helpers. *)

Lag == 0..MaxLag
\* Mutant of Held: the lease is free one tick before it expires.
HeldByOne(lag) == lease.owner # NoKey /\ lease.left + lag > 1
\* LeaseOverlap, for a `now` read lag ticks ago.
Held(lag) == lease.owner # NoKey /\ lease.left + lag > 0

\* Mutant of NewToken: an owner that acquires again keeps its token.
NewTokenForOthers(k) == IF lease.owner = k THEN lease.token ELSE lease.token + 1
NewToken(k) == lease.token + 1

\* acquire_lease for run k: a new token and a new expiry, once the overlap test has passed.
AcquireLease(k) ==
    /\ lease.token < MaxGrants
    /\ \E lag \in Lag :
          /\ ~Held(lag)
          /\ lease' = [token |-> NewToken(k), owner |-> k, left |-> TTL - lag]

\* Mutant of Verified: the owner is compared, the token is not.
VerifiedOwner(t, lag) == lease.owner = mem[t].key /\ lease.left + lag > 0
\* Mutant of Verified: only the expiry is looked at.
VerifiedTime(t, lag) == lease.left + lag > 0
\* verify_fencing_token(token, owner_run_id=run.pk, now=...) does not raise StaleRun.
Verified(t, lag) ==
    /\ lease.token = mem[t].tok
    /\ lease.owner = mem[t].key
    /\ lease.left + lag > 0

Attempt(t) == [run |-> mem[t].key, item |-> mem[t].item, token |-> mem[t].tok]
Outcome(t, i, ok) == [run |-> mem[t].key, item |-> i, token |-> mem[t].tok, ok |-> ok]

OpenItems(k) == {a.item : a \in {b \in open : b.run = k}}
Decided(k)   == {d.item : d \in {e \in ledger : e.run = k}}
Undecided(k) == Item \ Decided(k)

\* progress_for_runs: the counters are derived from the latest attempt at each position.
Succeeded(k)   == {d.item : d \in {e \in ledger : e.run = k /\ e.ok}}
Classified(k)  == {d.item : d \in {e \in ledger : e.run = k /\ ~e.ok}}
Interrupted(k) == cut[k] \ (Decided(k) \cup OpenItems(k))
Failed(k)      == Classified(k) \cup Interrupted(k)

Goto(t, there) == pc' = [pc EXCEPT ![t] = there]
Home(t) == Goto(t, "idle") /\ mem' = [mem EXCEPT ![t] = NoMem]
Remember(t, m) == mem' = [mem EXCEPT ![t] = m]

-----------------------------------------------------------------------------
(* run_tick: look the current hour's run up, create it, acquire, execute. *)

TickLookup(t) ==
    LET k == Scheduled(clock.slot) IN
    /\ pc[t] = "idle"
    /\ t \in TickThread
    /\ \/ runs[k].status = "absent"   /\ Goto(t, "create")
       \/ runs[k].status \in Resumable /\ Goto(t, "resume")
    /\ Remember(t, [NoMem EXCEPT !.key = k])
    /\ UNCHANGED <<lease, runs, reqs, attempts, clock, budget>>

CreateRun(t) ==
    LET k == mem[t].key IN
    /\ pc[t] = "create"
    /\ \/ /\ runs[k].status = "absent"
          /\ Goto(t, "acquire")
          /\ runs' = [runs EXCEPT ![k].status = "queued"]
          /\ UNCHANGED mem
       \/ /\ runs[k].status \in Resumable      \* IntegrityError: the winner's row
          /\ Goto(t, "resume")
          /\ UNCHANGED <<runs, mem>>
       \/ /\ runs[k].status \in Closed
          /\ Home(t)
          /\ UNCHANGED runs
    /\ UNCHANGED <<lease, reqs, attempts, clock, budget>>

-----------------------------------------------------------------------------
(* Dispatcher._tick and the claiming transaction of run_manual. *)

\* expire_stale: QUEUE_TTL is shorter than a tick, so any queued request may be old enough.
ExpireStale(t) ==
    /\ pc[t] = "idle"
    /\ t \in ManualThread
    /\ Goto(t, "scan")
    /\ \E old \in SUBSET {q \in Request : reqs[q] = "queued"} :
          reqs' = [q \in Request |-> IF q \in old THEN "expired" ELSE reqs[q]]
    /\ UNCHANGED <<lease, runs, attempts, mem, clock, budget>>

\* Mutant of Waiting: claimed requests are not looked at again.
WaitingUnclaimed == {q \in Request : reqs[q] = "queued"}
Waiting == {q \in Request : reqs[q] \in {"queued", "claimed"}}

ScanQueue(t) ==
    /\ pc[t] = "scan"
    /\ \/ \E q \in Waiting :
             /\ \A r \in Waiting : q <= r            \* order_by("created_at")
             /\ Goto(t, "claim")
             /\ Remember(t, [NoMem EXCEPT !.key = Manual(q)])
       \/ /\ Waiting = {}
          /\ Home(t)
    /\ UNCHANGED <<lease, runs, reqs, attempts, clock, budget>>

ClaimRequest(t) ==
    LET k == mem[t].key
        q == k[2]
        s == IF runs[k].status = "absent" THEN "queued" ELSE runs[k].status
    IN
    /\ pc[t] = "claim"
    /\ \/ /\ reqs[q] \in {"queued", "claimed"}
          /\ reqs' = [reqs EXCEPT ![q] = "claimed"]
          /\ runs' = [runs EXCEPT ![k].status = s]
          /\ \/ s = "queued"  /\ Goto(t, "acquire") /\ UNCHANGED mem
             \/ s = "running" /\ Goto(t, "resume")  /\ UNCHANGED mem
             \/ s \in Closed  /\ Goto(t, "settle")
                              /\ Remember(t, [mem[t] EXCEPT !.seen = s])
       \/ /\ reqs[q] \notin {"queued", "claimed"}
          /\ Home(t)
          /\ UNCHANGED <<reqs, runs>>
    /\ UNCHANGED <<lease, attempts, clock, budget>>

-----------------------------------------------------------------------------
(* Acquiring the lease, or finding it held. *)

Acquire(t) ==
    /\ pc[t] = "acquire"
    /\ Goto(t, "mark")
    /\ AcquireLease(mem[t].key)
    /\ Remember(t, [mem[t] EXCEPT !.tok = NewToken(mem[t].key)])
    /\ UNCHANGED <<runs, reqs, attempts, clock, budget>>

AcquireOverlap(t) ==
    /\ pc[t] = "acquire"
    /\ \E lag \in Lag : Held(lag)
    /\ Goto(t, IF t \in TickThread THEN "skip" ELSE "overlap")
    /\ UNCHANGED <<lease, runs, reqs, attempts, mem, clock, budget>>

\* run_manual alone looks whether the holder is another thread of this same request.
OverlapOwner(t) ==
    /\ pc[t] = "overlap"
    /\ \/ lease.owner = mem[t].key  /\ Home(t)
       \/ lease.owner # mem[t].key /\ Goto(t, "skip") /\ UNCHANGED mem
    /\ UNCHANGED <<lease, runs, reqs, attempts, clock, budget>>

SaveSkipped(t) ==
    /\ pc[t] = "skip"
    /\ runs' = [runs EXCEPT ![mem[t].key].status = "skipped_overlap"]
    /\ \/ t \in TickThread /\ Home(t)
       \/ /\ t \in ManualThread
          /\ Goto(t, "settle")
          /\ Remember(t, [mem[t] EXCEPT !.seen = "skipped_overlap"])
    /\ UNCHANGED <<lease, reqs, attempts, clock, budget>>

\* _mark_running: saves the in-memory row without looking at the stored one.
Marked(k, tok) == [runs EXCEPT ![k].status = "running", ![k].token = tok]

MarkRunning(t) ==
    /\ pc[t] = "mark"
    /\ Goto(t, "begin")
    /\ runs' = Marked(mem[t].key, mem[t].tok)
    /\ UNCHANGED <<lease, reqs, attempts, mem, clock, budget>>

\* _try_resume: the run row is locked, so the status test, the lease and the mark are one step.
Resume(t) ==
    LET k == mem[t].key IN
    /\ pc[t] = "resume"
    /\ Goto(t, "begin")
    /\ runs[k].status \in Resumable
    /\ AcquireLease(k)
    /\ runs' = Marked(k, NewToken(k))
    /\ Remember(t, [mem[t] EXCEPT !.tok = NewToken(mem[t].key)])
    /\ UNCHANGED <<reqs, attempts, clock, budget>>

ResumeRefused(t) ==
    /\ pc[t] = "resume"
    /\ runs[mem[t].key].status \notin Resumable \/ \E lag \in Lag : Held(lag)
    /\ \/ t \in TickThread /\ Home(t)
       \/ t \in ManualThread /\ Goto(t, "reread") /\ UNCHANGED mem
    /\ UNCHANGED <<lease, runs, reqs, attempts, clock, budget>>

\* run_manual after a refused resume: a run closed meanwhile settles the request.
Reread(t) ==
    LET s == runs[mem[t].key].status IN
    /\ pc[t] = "reread"
    /\ \/ s \in Resumable  /\ Home(t)
       \/ s \notin Resumable /\ Goto(t, "settle")
                              /\ Remember(t, [mem[t] EXCEPT !.seen = s])
    /\ UNCHANGED <<lease, runs, reqs, attempts, clock, budget>>

-----------------------------------------------------------------------------
(* run_batch as its fenced transactions. *)

\* _recover_stale_candidates: every attempt another instance left open is "interrupted" (one whose
\* candidate manual ingest took meanwhile stays open instead: module Batch).
Begin(t) ==
    LET stale == {a \in open : a.token # mem[t].tok} IN
    /\ pc[t] = "begin"
    /\ Goto(t, "batch")
    /\ \E lag \in Lag : Verified(t, lag)
    /\ open' = open \ stale
    /\ cut' = [k \in Key |-> cut[k] \cup {a.item : a \in {b \in stale : b.run = k}}]
    /\ UNCHANGED <<lease, runs, reqs, ledger, mem, clock, budget>>

Claim(t) ==
    /\ pc[t] = "batch"
    /\ Goto(t, "fetch")
    /\ \E lag \in Lag : Verified(t, lag)
    /\ \E i \in Undecided(mem[t].key) : Remember(t, [mem[t] EXCEPT !.item = i])
    /\ open' = open \cup {Attempt(t)'}
    /\ UNCHANGED <<lease, runs, reqs, cut, ledger, clock, budget>>

Commit(t) ==
    /\ pc[t] = "fetch"
    /\ Goto(t, "batch")
    /\ \E lag \in Lag : Verified(t, lag)
    /\ open' = open \ {Attempt(t)}
    /\ \E ok \in BOOLEAN : ledger' = ledger \cup {Outcome(t, mem[t].item, ok)}
    /\ Remember(t, [mem[t] EXCEPT !.item = 0])
    /\ UNCHANGED <<lease, runs, reqs, cut, clock, budget>>

\* The closing fields, computed in memory from the attempts as they are now.
Closing(t, status) ==
    Remember(t, [mem[t] EXCEPT !.item = 0, !.seen = status,
                               !.processed = Cardinality(Succeeded(mem[t].key)),
                               !.failed = Cardinality(Failed(mem[t].key))])

\* The end of _process_batch.  Positions still undecided are those the batch does not have,
\* or whose candidate process_candidate no longer finds pending or retryable.
FinishBatch(t) ==
    LET k == mem[t].key IN
    /\ pc[t] = "batch"
    /\ Goto(t, "close")
    /\ \E discovery_error \in BOOLEAN :
          Closing(t, IF ~discovery_error /\ Failed(k) = {} THEN "succeeded"
                     ELSE IF Succeeded(k) = {} THEN "failed" ELSE "partial")
    /\ UNCHANGED <<lease, runs, reqs, attempts, clock, budget>>

\* Mutant of CutShort: the error code is written into the status.
CutShortReason(k) == "lease_expired"
CutShort(k) == IF Succeeded(k) # {} THEN "partial" ELSE "failed"

\* StaleRun out of any fenced transaction.  Once a token fails to verify it never verifies
\* again, so the query of the counters that follows is taken in the same step.
LoseLease(t) ==
    /\ pc[t] \in Executing
    /\ Goto(t, "close")
    /\ \E lag \in Lag : ~Verified(t, lag)
    /\ Closing(t, CutShort(mem[t].key))
    /\ UNCHANGED <<lease, runs, reqs, attempts, clock, budget>>

\* Any other exception: an owner that still verifies first fails the open attempts of its run.
Fault(t) ==
    LET k == mem[t].key IN
    /\ pc[t] \in Executing
    /\ budget.faults < MaxFaults
    /\ Goto(t, "count")
    /\ \/ /\ \E lag \in Lag : Verified(t, lag)
          /\ ledger' = ledger \cup {Outcome(t, i, FALSE) : i \in OpenItems(k)}
          /\ open' = {a \in open : a.run # k}
       \/ /\ \E lag \in Lag : ~Verified(t, lag)
          /\ UNCHANGED <<ledger, open>>
    /\ Remember(t, [mem[t] EXCEPT !.raise = TRUE])
    /\ budget' = [budget EXCEPT !.faults = @ + 1]
    /\ UNCHANGED <<lease, runs, reqs, cut, clock>>

\* The counters of a run an exception cut short: a query after that transaction.
Count(t) ==
    /\ pc[t] = "count"
    /\ Goto(t, "close")
    /\ Closing(t, CutShort(mem[t].key))
    /\ UNCHANGED <<lease, runs, reqs, attempts, clock, budget>>

-----------------------------------------------------------------------------
(* Closure, release, and the manual request's own outcome. *)

\* Mutant of SavedClosure: the counters are left out of the update.
SavedStatus(t) ==
    IF runs[mem[t].key].token = mem[t].tok
    THEN [runs EXCEPT ![mem[t].key].status = mem[t].seen]
    ELSE runs

\* _save_closure: the update is filtered on the run's fencing_token.
SavedClosure(t) ==
    IF runs[mem[t].key].token = mem[t].tok
    THEN [runs EXCEPT ![mem[t].key] = [status |-> mem[t].seen, token |-> mem[t].tok,
                                       processed |-> mem[t].processed,
                                       failed |-> mem[t].failed]]
    ELSE runs

Close(t) ==
    /\ pc[t] = "close"
    /\ Goto(t, IF t \in TickThread THEN "release" ELSE "refresh")
    /\ runs' = SavedClosure(t)
    /\ UNCHANGED <<lease, reqs, attempts, mem, clock, budget>>

\* run.refresh_from_db() at the end of _save_closure.
Refresh(t) ==
    /\ pc[t] = "refresh"
    /\ Goto(t, "release")
    /\ Remember(t, [mem[t] EXCEPT !.seen = runs[mem[t].key].status,
                                 !.processed = 0, !.failed = 0])
    /\ UNCHANGED <<lease, runs, reqs, attempts, clock, budget>>

\* release_lease: an update filtered on owner and token.
Released(t) ==
    IF lease.owner = mem[t].key /\ lease.token = mem[t].tok
    THEN [lease EXCEPT !.owner = NoKey, !.left = -MaxLag]
    ELSE lease

Release(t) ==
    /\ pc[t] = "release"
    /\ lease' = Released(t)
    /\ \/ /\ mem[t].raise                        \* the exception leaves the thread ...
          /\ Goto(t, "dead")
          /\ Remember(t, NoMem)
       \/ /\ mem[t].raise                        \* ... but _loop survives a DatabaseError
          /\ t \in ManualThread
          /\ Home(t)
       \/ /\ ~mem[t].raise
          /\ t \in TickThread \/ mem[t].seen \in Resumable
          /\ Home(t)
       \/ /\ ~mem[t].raise
          /\ t \in ManualThread
          /\ mem[t].seen \notin Resumable
          /\ Goto(t, "settle")
          /\ Remember(t, [NoMem EXCEPT !.key = mem[t].key, !.seen = mem[t].seen])
    /\ UNCHANGED <<runs, reqs, attempts, clock, budget>>

\* Mutant of Settle: a conflict is settled as completed.
SettleCompleted(t) ==
    LET q == mem[t].key[2] IN
    /\ pc[t] = "settle"
    /\ Home(t)
    /\ reqs' = IF reqs[q] = "claimed" THEN [reqs EXCEPT ![q] = "completed"] ELSE reqs
    /\ UNCHANGED <<lease, runs, attempts, clock, budget>>

Settle(t) ==
    LET q == mem[t].key[2] IN
    /\ pc[t] = "settle"
    /\ Home(t)
    /\ reqs' = IF reqs[q] = "claimed"
               THEN [reqs EXCEPT ![q] = IF mem[t].seen = "skipped_overlap"
                                        THEN "conflict" ELSE "completed"]
               ELSE reqs
    /\ UNCHANGED <<lease, runs, attempts, clock, budget>>

-----------------------------------------------------------------------------
(* Crashes, restarts, lost connections, requests and time. *)

Fresh(p) == /\ pc' = [t \in Thread |-> IF t[1] = p THEN "idle" ELSE pc[t]]
            /\ mem' = [t \in Thread |-> IF t[1] = p THEN NoMem ELSE mem[t]]

\* A process dies anywhere and its container is restarted: both threads start over.
Crash(p) ==
    /\ budget.crashes < MaxCrashes
    /\ \E t \in Thread : t[1] = p /\ pc[t] # "idle"
    /\ budget' = [budget EXCEPT !.crashes = @ + 1]
    /\ Fresh(p)
    /\ UNCHANGED <<lease, runs, reqs, attempts, clock>>

\* An exception in the main thread ends the command; the daemon dispatcher dies with it.
ProcessExit(p) ==
    /\ \E t \in TickThread : t[1] = p /\ pc[t] = "dead"
    /\ Fresh(p)
    /\ UNCHANGED <<lease, runs, reqs, attempts, clock, budget>>

\* The dispatcher survives a DatabaseError only: the loop drops the connection and polls again.
LostConnection(t) ==
    /\ t \in ManualThread
    /\ budget.crashes < MaxCrashes
    /\ pc[t] \notin {"idle", "dead"}
    /\ Home(t)
    /\ budget' = [budget EXCEPT !.crashes = @ + 1]
    /\ UNCHANGED <<lease, runs, reqs, attempts, clock>>

\* admission.admit creates the next request (module Admission says when).
Admit ==
    /\ \E q \in Request :
          /\ reqs[q] = "absent"
          /\ \A r \in Request : r < q => reqs[r] # "absent"
          /\ reqs' = [reqs EXCEPT ![q] = "queued"]
    /\ UNCHANGED <<lease, runs, attempts, pc, mem, clock, budget>>

NextClock ==
    IF clock.tick + 1 < SlotLen THEN [clock EXCEPT !.tick = @ + 1]
    ELSE IF clock.slot < MaxSlot THEN [slot |-> clock.slot + 1, tick |-> 0]
    ELSE clock

Tick ==
    /\ lease' = IF lease.left > -MaxLag THEN [lease EXCEPT !.left = @ - 1] ELSE lease
    /\ clock' = NextClock
    /\ <<lease', clock'>> # <<lease, clock>>
    /\ UNCHANGED <<runs, reqs, attempts, pc, mem, budget>>

Step(t) ==
    \/ TickLookup(t) \/ CreateRun(t)
    \/ ExpireStale(t) \/ ScanQueue(t) \/ ClaimRequest(t)
    \/ Acquire(t) \/ AcquireOverlap(t) \/ OverlapOwner(t) \/ SaveSkipped(t)
    \/ MarkRunning(t) \/ Resume(t) \/ ResumeRefused(t) \/ Reread(t)
    \/ Begin(t) \/ Claim(t) \/ Commit(t) \/ FinishBatch(t) \/ LoseLease(t)
    \/ Count(t) \/ Close(t) \/ Refresh(t) \/ Release(t) \/ Settle(t)

Next ==
    \/ \E t \in Thread : Step(t)
    \/ \E t \in Thread : Fault(t) \/ LostConnection(t)
    \/ \E p \in Process : Crash(p) \/ ProcessExit(p)
    \/ Admit
    \/ Tick

Spec == Init /\ [][Next]_vars

\* Threads are scheduled, time passes and a container that exited is restarted
\* (restart: unless-stopped); nothing obliges a crash, a fault or a request.
Fairness == /\ \A t \in Thread : WF_vars(Step(t))
            /\ \A p \in Process : WF_vars(ProcessExit(p))
            /\ WF_vars(Tick)

FairSpec == Spec /\ Fairness
-----------------------------------------------------------------------------
(* Properties. *)

Lease  == [token : Nat, owner : Key \cup {NoKey}, left : -MaxLag..TTL]
Run    == [status : Status, token : Nat, processed : Nat, failed : Nat]
Memory == [key : Key \cup {NoKey}, tok : Nat, item : Item \cup {0}, seen : Status,
           processed : Nat, failed : Nat, raise : BOOLEAN]
OpenAttempt == [run : Key, item : Item, token : Nat]
Record == [run : Key, item : Item, token : Nat, ok : BOOLEAN]

TypeOK ==
    /\ lease \in Lease
    /\ runs \in [Key -> Run]
    /\ reqs \in [Request -> ReqState]
    /\ open \subseteq OpenAttempt
    /\ cut \in [Key -> SUBSET Item]
    /\ ledger \subseteq Record
    /\ pc \in [Thread -> PcValues]
    /\ mem \in [Thread -> Memory]
    /\ clock \in [slot : 1..MaxSlot, tick : 0..(SlotLen - 1)]
    /\ budget \in [crashes : 0..MaxCrashes, faults : 0..MaxFaults]

\* The parts of the inductive invariant behind the properties below.
\* A thread past its lookup or queue scan works for a known run.
KeyKnown ==
    \A t \in Thread : pc[t] \notin {"idle", "scan", "dead"} => mem[t].key \in Key

\* While a thread that claimed a position has the latest token, its attempt is open ...
FetchIsOpen ==
    \A t \in Thread : pc[t] = "fetch" /\ mem[t].tok = lease.token => Attempt(t) \in open

\* ... only attempts under that token are, once recovery has run ...
OpenIsOurs ==
    \A t \in Thread : pc[t] \in {"batch", "fetch"} /\ mem[t].tok = lease.token =>
        \A a \in open : a.token = lease.token

\* ... and nobody has decided what is still open.
OpenIsUndecided == \A a \in open : a.item \in Undecided(a.run)

\* Outcomes carry tokens that were granted.
LedgerTokens == \A d \in ledger : d.token <= lease.token

\* Two threads never hold the same fencing token, and no thread holds one that was not granted.
TokensAreUnique ==
    \A t \in Thread : pc[t] \in Working =>
        /\ mem[t].tok \in 1..lease.token
        /\ \A u \in Thread \ {t} : pc[u] \in Working => mem[u].tok # mem[t].tok

\* However instances of one run overtake each other, a position of its batch is decided once:
\* a classified outcome is never overwritten, repeated or counted twice (PS-INV-02, PS-INV-10).
DecidedOnce ==
    \A d, e \in ledger : d.run = e.run /\ d.item = e.item => d = e

\* Inductive: what a fenced transaction relies on, whatever the other threads do.
IInv == /\ TypeOK
        /\ KeyKnown
        /\ TokensAreUnique
        /\ FetchIsOpen
        /\ OpenIsOurs
        /\ OpenIsUndecided
        /\ LedgerTokens
        /\ DecidedOnce

\* Durable work follows the order of the grants: once an instance has committed, an instance
\* granted the lease before it commits nothing any more (PS-INV-02).
FencedOrder == [][\A d \in ledger' \ ledger : \A e \in ledger : e.token <= d.token]_vars

\* The lease with its token check implements the abstract fenced resource.
Work == INSTANCE FencedWork WITH epoch <- lease.token, holder <- lease.owner,
                                 live <- lease.left > 0, done <- ledger
Fenced == Work!Spec

\* A run that reached an outcome keeps it: finished work is not reopened, overwritten or redone.
FinishedStaysFinished ==
    [][\A k \in Key : runs[k].status \in Closed => runs'[k] = runs[k]]_vars

\* The counters of a closed run are the outcomes its batch left (PS-INV-10): successes exactly,
\* failures at least the classified ones, and at most those and the positions later recoveries
\* found interrupted.
CountersMatchOutcomes ==
    \A k \in Key : runs[k].status \in Closed =>
        /\ runs[k].processed = Cardinality(Succeeded(k))
        /\ runs[k].failed \in Cardinality(Classified(k))..Cardinality(Failed(k))

\* A settled manual request tells what became of its run: "completed" only over a run that was
\* executed and closed, "conflict" only over one that never worked.
RequestTellsItsRun ==
    \A q \in Request :
        LET k == Manual(q) IN
        /\ reqs[q] = "completed" => runs[k].status \in Closed \ {"skipped_overlap"}
        /\ reqs[q] = "conflict" => runs[k].status = "skipped_overlap" /\ Decided(k) = {}
        /\ reqs[q] = "expired" => runs[k].status = "absent"

\* While a batch is being executed, no other run is left in "running" by a process that is gone.
LostRunIsClosed ==
    \A t \in Thread : pc[t] \in {"batch", "fetch"} =>
        \A k \in Key \ {mem[t].key} :
            runs[k].status = "running" => \E u \in Thread : mem[u].key = k

\* Every admitted request gets an answer: executed, in conflict, or expired.
RequestSettles ==
    \A q \in Request :
        reqs[q] = "queued" ~> reqs[q] \in {"completed", "conflict", "expired"}

\* The dispatcher keeps looking at the queue.
DispatcherPolls == \A t \in ManualThread : []<>(pc[t] = "scan")
=============================================================================
