------------------------------ MODULE Summaries ------------------------------
(***************************************************************************)
(* Summaries of review corpora (summaries/worker.py, quota.py) and the     *)
(* dispatch that gives workers a summary or a review page in turn          *)
(* (orchestration/jobs.py).                                                *)
(*                                                                         *)
(* A claim is a row lease; the attempt is stored, with the tokens it       *)
(* reserves, before the one request to the provider is sent outside of     *)
(* any transaction; its answer is committed if the claim still holds.      *)
(*                                                                         *)
(* Time is relative: an attempt has an age, a job the ticks its lease and  *)
(* its delay have left.  A tick is the shortest window, a minute.          *)
(***************************************************************************)
EXTENDS Integers, Sequences, FiniteSets, FiniteSetsExt, SequencesExt

CONSTANTS Worker,
          Job,          \* jobs in the order of their ids, one per input and contour
          Cost,         \* for each job, the tokens its request reserves
          MaxAttempts,  \* MAX_AUTOMATIC_ATTEMPTS
          Window,       \* the provider's windows: their span, tokens and requests
          Day,          \* the longest span
          Lease,        \* LEASE_TTL, and the time a request is taken to be under way
          MaxFaults     \* bound on crashes, stalls and local errors

ASSUME SummariesAssumption ==
    /\ IsFiniteSet(Worker)
    /\ Job \subseteq Nat
    /\ Cost \in [Job -> Nat]
    /\ MaxAttempts \in Nat \ {0}
    /\ Day \in Nat \ {0} /\ Lease \in 1..Day
    /\ Window \subseteq [span : 1..Day, tokens : Nat, requests : Nat]
    /\ \A w \in Window, j \in Job : Cost[j] <= w.tokens /\ w.requests > 0
    /\ MaxFaults \in Nat

VARIABLES jobs,      \* SummaryJob
          attempts,  \* SummaryAttempt, in the order they were started
          hold,      \* for how long the headers of the latest one forbid another
          published, \* ReviewSummary: its job and its attempt
          turn,      \* EnrichmentTurn.next_kind
          wk,        \* local variables of each worker
          faults     \* crashes, stalls and local errors so far (a bound only)

vars == <<jobs, attempts, hold, published, turn, wk, faults>>

\* States that nothing tells apart are one: "waiting" is pending, retryable or
\* delayed_capacity, "served" is succeeded or insufficient_data.
State    == {"waiting", "running", "served", "failed"}
Terminal == {"served", "failed"}
Open     == "open"      \* an attempt without an outcome
Minute   == 1           \* also the least wait a code gives
ByRule   == 0           \* a summary no attempt was needed for
Idle     == [pc |-> "idle", job |-> 0, token |-> 0, attempt |-> 0]

\* few: the job's corpus has fewer than three reviews.
Init == /\ \E TooFew \in SUBSET Job :
              jobs = [j \in Job |-> [state |-> "waiting", few |-> j \in TooFew, token |-> 0,
                                     lease |-> 0, wait |-> 0, tries |-> 0]]
        /\ attempts = <<>>
        /\ hold = 0
        /\ published = {}
        /\ turn = "review"
        /\ wk = [w \in Worker |-> Idle]
        /\ faults = 0

At(w, here) == wk[w].pc = here
Set(w, m) == wk' = [wk EXCEPT ![w] = m]
Fails == faults < MaxFaults /\ faults' = faults + 1

AttemptsOf(j) == {i \in DOMAIN attempts : attempts[i].job = j}
OpenOf(j) == {i \in AttemptsOf(j) : attempts[i].outcome = Open}
\* Attempts I are closed as abandoned.
Abandoned(I) == [i \in DOMAIN attempts |->
                    IF i \in I THEN [attempts[i] EXCEPT !.outcome = "abandoned"]
                    ELSE attempts[i]]

-----------------------------------------------------------------------------
(* jobs.claim_next and, for a summary, claim_next_job. *)

\* Mutant of Stale: a job that ended keeps its lease, and is taken for a stale one.
StaleByLease == {j \in Job : jobs[j].token > 0 /\ jobs[j].lease = 0}
Stale == {j \in Job : jobs[j].state = "running" /\ jobs[j].lease = 0}

\* The next fencing token.  Tokens are only compared for equality: of the numbers that grow
\* for ever, the least that neither the job nor a worker on it has stands for the next one.
NewToken(j) == Min({n \in 1..(2 + Cardinality(Worker)) :
                       /\ n # jobs[j].token
                       /\ \A w \in Worker : wk[w].job = j => wk[w].token # n})

\* Mutant of AfterRecovery: an expired claim is left alone.
NeverRecovered(j) == jobs[j]
\* _recover_stale_leases, and the rows that have used up their attempts.
AfterRecovery(j) ==
    LET job == jobs[j]
        last == job.tries >= MaxAttempts
    IN IF j \in Stale
       THEN [job EXCEPT !.token = NewToken(j), !.wait = 0,
                        !.state = IF last THEN "failed" ELSE "waiting"]
       ELSE IF job.state = "waiting" /\ last THEN [job EXCEPT !.state = "failed"]
       ELSE job

Due == {j \in Job : AfterRecovery(j).state = "waiting" /\ AfterRecovery(j).wait = 0}
Recovered == [j \in Job |-> AfterRecovery(j)]
Lost == UNION {OpenOf(j) : j \in Stale}

ClaimSummary(w) ==
    /\ Due # {}
    /\ \E j \in {Min(Due)}, token \in 1..(2 + Cardinality(Worker)) :
          /\ token = NewToken(j)
          /\ jobs' = [Recovered EXCEPT ![j].token = token, ![j].lease = Lease, ![j].state = "running"]
          /\ attempts' = Abandoned(Lost \cup OpenOf(j))
          /\ Set(w, [Idle EXCEPT !.pc = "admit", !.job = j, !.token = token])

OtherKind(kind) == IF kind = "review" THEN "summary" ELSE "review"

\* It is the turn of summaries, or no review is due.
ClaimedSummary(w) ==
    /\ At(w, "idle")
    /\ ClaimSummary(w)
    /\ turn' = OtherKind("summary")
    /\ UNCHANGED <<hold, published, faults>>

\* A review page is due, and it is its turn or no summary is due; the worker reads it
\* (ReviewCollection).  The summary queue has been recovered if it was asked first.
ClaimedReview(w) ==
    /\ At(w, "idle")
    /\ turn = "summary" => Due = {}
    /\ turn' = OtherKind("review")
    /\ IF turn = "summary" THEN jobs' = Recovered /\ attempts' = Abandoned(Lost)
                           ELSE UNCHANGED <<jobs, attempts>>
    /\ UNCHANGED <<hold, published, wk, faults>>

\* Nothing is due.
ClaimedNothing(w) ==
    /\ At(w, "idle")
    /\ Due = {}
    /\ jobs' = Recovered
    /\ attempts' = Abandoned(Lost)
    /\ jobs' # jobs
    /\ UNCHANGED <<hold, published, turn, wk, faults>>

\* Mutant of Owned: a claim is told by the state of its job.
OwnedByState(w) == jobs[wk[w].job].state = "running"
\* _still_owned, its lease apart.
Owned(w) == LET job == jobs[wk[w].job] IN job.token = wk[w].token /\ job.state = "running"
Live(w)  == jobs[wk[w].job].lease > 0

-----------------------------------------------------------------------------
(* quota._blocks: for how many ticks a request of a given cost must wait.   *)

Amount == [i \in DOMAIN attempts |-> Cost[attempts[i].job]]
One    == [i \in DOMAIN attempts |-> 1]
Recent(span) == {i \in DOMAIN attempts : attempts[i].age < span}

\* Until enough of the oldest requests have left the window.
WindowWait(span, cost, limit, incoming) ==
    LET recent == Recent(span)
        used(i) == SumFunctionOnSet(cost, {k \in recent : k <= i})
        excess == SumFunctionOnSet(cost, recent) + incoming - limit
        enough == {i \in recent : used(i) >= excess}
    IN IF excess <= 0 THEN {}
       ELSE IF enough = {} THEN {span}
       ELSE {span - attempts[Min(enough)].age}

\* The latest request: while it is under way, and as long as its answer (or, as long as there
\* is none, its start) tells.
LatestWait ==
    LET a == Last(attempts) IN
    IF attempts = <<>> \/ a.age >= Day THEN {}
    ELSE {hold} \cup (IF a.outcome = Open /\ a.age < Lease THEN {1} ELSE {})

\* Mutant of Blocks: what the request itself needs is not counted.
BlocksBefore(j) == (UNION {WindowWait(w.span, Amount, w.tokens, 0)
                           \cup WindowWait(w.span, One, w.requests, 0) : w \in Window})
                   \cup {n \in LatestWait : n > 0}
Blocks(j) == (UNION {WindowWait(w.span, Amount, w.tokens, Cost[j])
                     \cup WindowWait(w.span, One, w.requests, 1) : w \in Window})
             \cup {n \in LatestWait : n > 0}

Halted == \E i \in DOMAIN attempts : attempts[i].over

-----------------------------------------------------------------------------
(* process_job, up to the request. *)

\* The lease of a job that does not run is not read: it counts as run out.
Ended(j, state) == jobs' = [jobs EXCEPT ![j].state = state, ![j].lease = 0]

\* The claim was lost, or its lease ran out before the admission.
NotAdmitted(w) ==
    /\ At(w, "admit")
    /\ ~(Owned(w) /\ Live(w))
    /\ Set(w, Idle)
    /\ UNCHANGED <<jobs, attempts, hold, published, turn, faults>>

ByTheRule(w) ==
    LET j == wk[w].job IN
    /\ At(w, "admit") /\ Owned(w)
    /\ jobs[j].few
    /\ Ended(j, "served")
    /\ published' = published \cup {[job |-> j, attempt |-> ByRule]}
    /\ Set(w, Idle)
    /\ UNCHANGED <<attempts, hold, turn, faults>>

\* No attempts left, another contour, no configuration, a prompt that is too long.
LocalFailure(w) ==
    LET j == wk[w].job IN
    /\ At(w, "admit") /\ Owned(w)
    /\ \/ (Halted \/ jobs[j].tries >= MaxAttempts) /\ UNCHANGED faults
       \/ Fails
    /\ Ended(j, "failed")
    /\ Set(w, Idle)
    /\ UNCHANGED <<attempts, hold, published, turn>>

Delayed(w) ==
    LET j == wk[w].job IN
    /\ At(w, "admit") /\ Owned(w)
    /\ ~jobs[j].few /\ jobs[j].tries < MaxAttempts /\ ~Halted
    /\ Blocks(j) # {}
    /\ jobs' = [jobs EXCEPT ![j].state = "waiting", ![j].lease = 0,
                            ![j].wait = Max(Blocks(j))]
    /\ Set(w, Idle)
    /\ UNCHANGED <<attempts, hold, published, turn, faults>>

Admitted(w) ==
    LET j == wk[w].job IN
    /\ At(w, "admit") /\ Owned(w) /\ Live(w)
    /\ ~jobs[j].few /\ jobs[j].tries < MaxAttempts /\ ~Halted
    /\ Blocks(j) = {}
    /\ jobs' = [jobs EXCEPT ![j].tries = @ + 1]
    /\ attempts' = Append(attempts, [job |-> j, age |-> 0, outcome |-> Open, over |-> FALSE])
    /\ hold' = Minute
    /\ Set(w, [wk[w] EXCEPT !.pc = "ask", !.attempt = Len(attempts')])
    /\ UNCHANGED <<published, turn, faults>>

-----------------------------------------------------------------------------
(* process_job, from the answer on. *)

\* What the headers may say of what is left: enough, nothing known, or nothing until a reset.
Headers == {0, Minute, Day}

Closed(w, outcome, over, h) ==
    LET i == wk[w].attempt IN
    /\ attempts' = [attempts EXCEPT ![i].outcome = outcome, ![i].over = over]
    /\ hold' = IF i = Len(attempts) THEN h ELSE hold

\* _attempt_failure.  A delay is a tick at least; how long decides nothing.
FailedTo(j, terminal) ==
    LET ends == terminal \/ jobs[j].tries >= MaxAttempts IN
    [jobs[j] EXCEPT !.lease = 0, !.wait = IF ends THEN 0 ELSE Minute,
                    !.state = IF ends THEN "failed" ELSE "waiting"]

AnswerFails(w) ==
    LET j == wk[w].job IN
    /\ At(w, "ask") /\ Owned(w)
    /\ attempts[wk[w].attempt].outcome = Open
    /\ \E h \in Headers, terminal, over \in BOOLEAN :
          /\ over => terminal
          /\ jobs' = [jobs EXCEPT ![j] = FailedTo(j, terminal)]
          /\ Closed(w, "failed", over, h)
    /\ Set(w, Idle)
    /\ UNCHANGED <<published, turn, faults>>

AnswerServes(w) ==
    LET j == wk[w].job IN
    /\ At(w, "ask") /\ Owned(w)
    /\ attempts[wk[w].attempt].outcome = Open
    /\ Ended(j, "served")
    /\ \E h \in Headers : Closed(w, "served", FALSE, h)
    /\ published' = published \cup {[job |-> j, attempt |-> wk[w].attempt]}
    /\ Set(w, Idle)
    /\ UNCHANGED <<turn, faults>>

\* The claim was lost while the request was under way.  The time a lease is compared with is
\* read before the row is locked, so an answer may also count that came just too late.
AnswerDropped(w) ==
    /\ At(w, "ask")
    /\ ~(Owned(w) /\ Live(w)) \/ attempts[wk[w].attempt].outcome # Open
    /\ attempts' = IF ~(Owned(w) /\ Live(w))
                   THEN Abandoned({wk[w].attempt} \cap OpenOf(wk[w].job)) ELSE attempts
    /\ Set(w, Idle)
    /\ UNCHANGED <<hold, jobs, published, turn, faults>>

-----------------------------------------------------------------------------
(* The world. *)

Crash(w) == /\ ~At(w, "idle")
            /\ Fails
            /\ Set(w, Idle)
            /\ UNCHANGED <<jobs, attempts, hold, published, turn>>

Down(n) == IF n = 0 THEN 0 ELSE n - 1
Up(n)   == IF n >= Day THEN Day ELSE n + 1

\* A lease that runs out under a worker is a stall; one that nobody works under just runs out.
Stalls == \E w \in Worker : wk[w].pc \in {"admit", "ask"} /\ Owned(w) /\ jobs[wk[w].job].lease = 1

Tick ==
    /\ \/ Stalls /\ Fails
       \/ ~Stalls /\ UNCHANGED faults
    /\ jobs' = [j \in Job |-> [jobs[j] EXCEPT !.lease = Down(@), !.wait = Down(@)]]
    /\ attempts' = [i \in DOMAIN attempts |-> [attempts[i] EXCEPT !.age = Up(@)]]
    /\ hold' = Down(hold)
    /\ UNCHANGED <<published, turn, wk>>

Step(w) == \/ ClaimedSummary(w) \/ ClaimedReview(w) \/ ClaimedNothing(w)
           \/ NotAdmitted(w) \/ ByTheRule(w) \/ LocalFailure(w) \/ Delayed(w) \/ Admitted(w)
           \/ AnswerFails(w) \/ AnswerServes(w) \/ AnswerDropped(w)

Next == \/ \E w \in Worker : Step(w) \/ Crash(w)
        \/ Tick

Spec == Init /\ [][Next]_vars

\* A worker is restarted when it dies and polls for ever, a request has a timeout, time passes.
FairSpec == Spec /\ \A w \in Worker : WF_vars(Step(w)) /\ WF_vars(Tick)

-----------------------------------------------------------------------------
(* Properties. *)

\* In no window has the provider been sent more requests, or reserved more tokens, than it
\* allows, whoever died and however late an outcome came; and requests that may still be
\* under way never overlap.
QuotaKept ==
    /\ \A w \in Window :
          LET recent == {i \in DOMAIN attempts : attempts[i].age < w.span} IN
          /\ Cardinality(recent) <= w.requests
          /\ SumFunctionOnSet(Amount, recent) <= w.tokens
    /\ Cardinality({i \in DOMAIN attempts : attempts[i].outcome = Open /\ attempts[i].age < Lease})
          <= 1

\* An attempt that is still open is the only one of its job, its last one and that of the
\* claim the job runs under: a claim that was lost never sends a request of its own.
OpenIsCurrent ==
    \A i \in DOMAIN attempts : attempts[i].outcome = Open =>
        LET j == attempts[i].job IN
        /\ jobs[j].state = "running"
        /\ i = Max(AttemptsOf(j)) /\ OpenOf(j) = {i}
        /\ \A w \in Worker : wk[w].pc = "ask" /\ wk[w].attempt = i => Owned(w)

\* A job has a summary, and only one, exactly when it succeeded or had too little to sum up;
\* a summary of the model is that of the one attempt that ended well.  No job is attempted
\* more often than is allowed, and no attempt is forgotten.
PublishedIsEarned ==
    \A j \in Job :
       LET own  == {p.attempt : p \in {q \in published : q.job = j}}
           good == {i \in AttemptsOf(j) : attempts[i].outcome = "served"}
       IN /\ jobs[j].state = "served" => Cardinality(own) = 1 /\ (own = {ByRule} => good = {})
          /\ jobs[j].state # "served" => own = {}
          /\ own \ {ByRule} = good
          /\ Cardinality(AttemptsOf(j)) = jobs[j].tries
          /\ jobs[j].tries <= MaxAttempts

\* Every job ends, although review pages are always due, whichever worker dies or stalls; it
\* stays ended.
JobsSettle == <>[](\A j \in Job : jobs[j].state \in Terminal)
=============================================================================
