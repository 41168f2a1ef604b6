-------------------------- MODULE ReviewCollection --------------------------
(***************************************************************************)
(* Review collection for one game and one audience (reviews/collector.py): *)
(* every platform route of the game has a job for each business day;       *)
(* workers claim jobs by row leases, fetch one page at a claim, and commit *)
(* it; the page that completes the last route builds the corpus and asks   *)
(* for its summary in the same transaction (reviews/corpus.py).  The       *)
(* corpus is of the latest day whose candidate is "processed", a state     *)
(* that a candidate may also lose again (processing/runner.py).            *)
(*                                                                         *)
(* The source is not asked to stand still: a route moves through a         *)
(* sequence of snapshots while it is being paged.                          *)
(*                                                                         *)
(* The commit of a page is two steps.  Decide takes the locks and computes *)
(* what to write from committed rows; Commit makes it visible and releases *)
(* the locks.  A crash in between writes nothing.                          *)
(***************************************************************************)
EXTENDS Integers, Sequences, FiniteSets, FiniteSetsExt, SequencesExt

CONSTANTS Worker,
          Source,       \* for each route, the snapshots it goes through
          MaxDay,       \* business days
          MaxAttempts,  \* MAX_AUTOMATIC_ATTEMPTS: fetches of one page
          MaxRestarts,  \* MAX_GENERATION_RESTARTS
          MaxFaults     \* bound on crashes, leases that run out and candidates set back

Route == DOMAIN Source
Job   == (1..MaxDay) \X Route                    \* in the order of their ids

ASSUME CollectionAssumption ==
    /\ "nobody" \notin Worker
    /\ Source \in Seq(Seq([total : Nat, pages : Seq(Seq(STRING \X Nat))]))
    /\ \A r \in Route : Source[r] # <<>>
    /\ \A r \in Route : \A s \in Range(Source[r]) : s.pages # <<>>
    /\ MaxDay \in Nat \ {0}
    /\ MaxAttempts \in Nat \ {0}
    /\ MaxRestarts \in Nat
    /\ MaxFaults \in Nat

VARIABLES jobs,     \* ReviewCollectionJob
          fetches,  \* SourceFetch rows of kind review_page; a claim starts at most one
          seen,     \* ReviewObservation, with the claim whose fetch it came from
          head,     \* ReviewCorpusHead: the corpus and the day of its cohort
          corpora,  \* ReviewCorpus rows, each with its SummaryJob
          cand,     \* DailyCandidate of the game for each day
          now_at,   \* the snapshot each route shows now
          lock,     \* the worker whose transaction holds the row of the game
          wk,       \* local variables of each worker, and its uncommitted writes
          faults    \* crashes, expiries and candidates set back so far (a bound only)

vars == <<jobs, fetches, seen, head, corpora, cand, now_at, lock, wk, faults>>

Terminal == {"complete", "empty", "unstable", "failed"}
State    == Terminal \cup {"absent", "pending", "running", "retryable"}
\* "again" is "processed" in the row: it was set back before.
Standing == {"absent", "processed", "set back", "again"}
NoTotal  == -1
Nobody   == "nobody"
NoJob    == <<0, 0>>

New    == [state |-> "pending", token |-> 0, live |-> FALSE, gen |-> 0, page |-> 0,
           total |-> NoTotal, fetched |-> 0, unique |-> 0, visited |-> {}]
Absent == [New EXCEPT !.state = "absent"]
NoCorpus == [day |-> 0, reviews |-> [r \in Route |-> {}]]
NoWrite  == [job |-> Absent, outcome |-> "none", seen |-> {}, head |-> NoCorpus]
Idle     == [pc |-> "idle", job |-> NoJob, token |-> 0, gen |-> 0, page |-> 0, tries |-> 0,
             write |-> NoWrite]

Init == /\ jobs = [j \in Job |-> IF j[1] = 1 THEN New ELSE Absent]
        /\ fetches = {}
        /\ seen = {}
        /\ head = NoCorpus
        /\ corpora = {}
        /\ cand = [d \in 1..MaxDay |-> IF d = 1 THEN "processed" ELSE "absent"]
        /\ now_at = [r \in Route |-> 1]
        /\ lock = Nobody
        /\ wk = [w \in Worker |-> Idle]
        /\ faults = 0

-----------------------------------------------------------------------------
(* Helpers. *)

At(w, here) == wk[w].pc = here
Set(w, m) == wk' = [wk EXCEPT ![w] = m]

\* Rows a transaction has locked: claims and recoveries skip them.
RowLocked == {wk[w].job : w \in {v \in Worker : At(v, "commit")}}

FetchesAt(j, gen, page) == {f \in fetches : f.job = j /\ f.gen = gen /\ f.page = page}
\* Mutant of PageAttempts: only the attempts that were answered count.
AnsweredAttempts(j) ==
    Cardinality({f \in FetchesAt(j, jobs[j].gen, jobs[j].page) : f.outcome = "failed"})
\* _page_attempt_count, for the page a job stands at.
PageAttempts(j) == Cardinality(FetchesAt(j, jobs[j].gen, jobs[j].page))
SeenIn(j, gen)  == {o \in seen : o.job = j /\ o.gen = gen}
Ids(obs)        == {o.review[1] : o \in obs}
Ended(rows, outcome) == (fetches \ rows) \cup {[f EXCEPT !.outcome = outcome] : f \in rows}

\* Mutant of Owned: a claim is told by the state of its job only.
OwnedByState(w) == jobs[wk[w].job].state = "running"
\* Mutant of Owned: a claim is told by the place it reads at only.
OwnedByCursor(w) == LET j == jobs[wk[w].job] IN j.gen = wk[w].gen /\ j.page = wk[w].page
\* _still_owned, its lease apart.  The cursor a job stands at is told by its page.
Owned(w) ==
    LET j == jobs[wk[w].job] IN
    /\ j.token = wk[w].token
    /\ j.state = "running"
    /\ j.gen = wk[w].gen
    /\ j.page = wk[w].page

-----------------------------------------------------------------------------
(* claim_next_job. *)

\* Mutant of Stale: expired leases are left alone.
NoneStale == {}
Stale == {j \in Job : jobs[j].state = "running" /\ ~jobs[j].live} \ RowLocked

\* _recover_stale_leases: what becomes of a job whose lease ran out.
Recovered(j) == [jobs[j] EXCEPT !.token = @ + 1,
                                !.state = IF PageAttempts(j) >= MaxAttempts THEN "failed"
                                          ELSE "retryable"]
AfterRecovery == [j \in Job |-> IF j \in Stale THEN Recovered(j) ELSE jobs[j]]

Earlier(i, j) == i[1] < j[1] \/ (i[1] = j[1] /\ i[2] < j[2])

\* A job that was failed by its recovery in this transaction is not claimed by it.
Claimable == {j \in Job \ RowLocked : \/ jobs[j].state \in {"pending", "retryable"}
                                      \/ j \in Stale /\ Recovered(j).state = "retryable"}
\* A failed page backs off: its job may be due or not.  The others are due.
Due == {j \in Claimable : jobs[j].state # "retryable"}

Claim(w) ==
    /\ At(w, "idle")
    /\ \E j \in {c \in Claimable : \A d \in Due : ~Earlier(d, c)} :
          /\ jobs' = [AfterRecovery EXCEPT ![j].token = @ + 1, ![j].live = TRUE,
                                           ![j].state = "running"]
          /\ Set(w, [Idle EXCEPT !.pc = "start", !.job = j, !.token = jobs'[j].token,
                                 !.gen = jobs[j].gen, !.page = jobs[j].page])
    /\ fetches' = Ended({f \in fetches : f.job \in Stale /\ f.outcome = "started"}, "abandoned")
    /\ UNCHANGED <<seen, head, corpora, cand, now_at, lock, faults>>

\* The claiming transaction finds nothing due, but recovers what it finds expired.
ClaimNothing(w) ==
    /\ At(w, "idle")
    /\ Stale # {}
    /\ Due = {}
    /\ jobs' = AfterRecovery
    /\ fetches' = Ended({f \in fetches : f.job \in Stale /\ f.outcome = "started"}, "abandoned")
    /\ UNCHANGED <<seen, head, corpora, cand, now_at, lock, wk, faults>>

-----------------------------------------------------------------------------
(* collect_one_page: the attempt is recorded before the request is sent.   *)
(* A worker hands in a claim once, so the claim has no open attempt yet.   *)

StartFetch(w) ==
    LET j == wk[w].job
        tries == PageAttempts(j)
    IN
    /\ At(w, "start")
    /\ lock = Nobody
    /\ IF ~(Owned(w) /\ jobs[j].live) THEN Set(w, Idle) /\ UNCHANGED <<jobs, fetches>>
       ELSE IF tries >= MaxAttempts
       THEN /\ jobs' = [jobs EXCEPT ![j].state = "failed"]
            /\ Set(w, Idle)
            /\ UNCHANGED fetches
       ELSE /\ fetches' = fetches \cup {[job |-> j, token |-> wk[w].token, gen |-> wk[w].gen,
                                         page |-> wk[w].page, outcome |-> "started"]}
            /\ Set(w, [wk[w] EXCEPT !.pc = "fetch", !.tries = tries])
            /\ UNCHANGED jobs
    /\ UNCHANGED <<seen, head, corpora, cand, now_at, lock, faults>>

-----------------------------------------------------------------------------
(* _commit_page: what to write for a page, or for the lack of one. *)

\* What the source answers: a page, or one past the end.  An answer that is older than the
\* step which decides on it is one the source gave before it changed.
Reply(w) ==
    LET r == wk[w].job[2]
        s == Source[r][now_at[r]]
        n == wk[w].page + 1
    IN [total |-> s.total, next |-> n < Len(s.pages),
        items |-> IF n <= Len(s.pages) THEN s.pages[n] ELSE <<>>]

Keys(page) == [i \in DOMAIN page.items |-> page.items[i][1]]

\* One review in two versions, within the page or on an earlier page of the generation.
Edited(j, page) ==
    \E r \in Range(page.items), q \in Range(page.items) \cup
                                     {o.review : o \in SeenIn(j, jobs[j].gen)} :
        r[1] = q[1] /\ r # q

Unstable(j) == [jobs[j] EXCEPT !.state = "unstable"]

MayRestart(j) == jobs[j].gen < MaxRestarts

\* _restart_generation
Restarted(j) == [New EXCEPT !.gen = jobs[j].gen + 1, !.token = jobs[j].token,
                            !.live = jobs[j].live]

NewlySeen(w, page) ==
    LET old == {o.review : o \in SeenIn(wk[w].job, wk[w].gen)} IN
    {[job |-> wk[w].job, gen |-> wk[w].gen, review |-> r, token |-> wk[w].token] :
        r \in Range(page.items) \ old}

\* Mutant of Ending: the last page ends a route whatever the counts say.
EndingUnchecked(job) ==
    IF job.total = 0 /\ job.fetched = 0 THEN "empty" ELSE "complete"
\* The state a route ends in with its last page.
Ending(job) ==
    IF job.total = 0 /\ job.fetched = 0 THEN "empty"
    ELSE IF job.total = job.unique /\ job.fetched = job.unique THEN "complete"
    ELSE "unstable"

Accepted(w, page) ==
    LET j == wk[w].job
        ids == Ids(SeenIn(j, wk[w].gen) \cup NewlySeen(w, page))
        read == [jobs[j] EXCEPT !.total = page.total, !.visited = @ \cup {Keys(page)},
                                !.fetched = @ + Len(page.items), !.page = @ + 1,
                                !.unique = Cardinality(ids)]
    IN [read EXCEPT !.state = IF page.next THEN "pending" ELSE Ending(read)]

\* The job, the outcome of the fetch and the observations a fetched page leads to.
PageWrite(w, page) ==
    LET j == wk[w].job
        W(job, outcome, obs) ==
            [job |-> job, outcome |-> outcome, seen |-> obs, head |-> NoCorpus]
    IN IF Keys(page) \in jobs[j].visited THEN W(Unstable(j), "invalid", {})
       ELSE IF jobs[j].total \notin {NoTotal, page.total}
       THEN W(IF MayRestart(j) THEN Restarted(j) ELSE Unstable(j), "invalid", {})
       ELSE IF Edited(j, page) THEN W(Unstable(j), "invalid", {})
       ELSE LET job == Accepted(w, page)
            IN W(job, IF job.state = "unstable" THEN "invalid" ELSE "succeeded",
                 NewlySeen(w, page))

FailedWrite(w) ==
    [NoWrite EXCEPT !.outcome = "failed",
                    !.job = [jobs[wk[w].job] EXCEPT
                               !.state = IF wk[w].tries + 1 >= MaxAttempts THEN "failed"
                                         ELSE "retryable"]]

-----------------------------------------------------------------------------
(* corpus.build, within the transaction of the page. *)

\* Mutant of Cohort: the latest finished job of each route, of whatever day.
CohortOfAnyDay(js) ==
    [r \in Route |-> LET done == {d \in 1..MaxDay : js[<<d, r>>].state \in {"complete", "empty"}}
                     IN <<Max(done \cup {1}), r>>]
\* collection_state: the routes' jobs of the latest day whose candidate is processed, if any.
Processed == {d \in 1..MaxDay : cand[d] \in {"processed", "again"}}
Latest == Max(Processed)
Cohort(js) == [r \in Route |-> <<Latest, r>>]

\* The checks of collection_state on the job of a route.
Verified(job) == /\ job.state \in {"complete", "empty"}
                 /\ job.total = job.unique /\ job.total = job.fetched
                 /\ (job.state = "empty") = (job.total = 0)

\* The corpus the committed rows and the writes w of this transaction make, if any.
Built(j, w) ==
    LET js == [jobs EXCEPT ![j] = w.job]
        cohort == Cohort(js)
        read(r) == {o \in seen \cup w.seen : o.job = cohort[r] /\ o.gen = js[cohort[r]].gen}
        reviews == [r \in Route |-> {o.review : o \in read(r)}]
    IN IF /\ Processed # {}
          /\ \A r \in Route : /\ Verified(js[cohort[r]])
                              /\ Cardinality(reviews[r]) = js[cohort[r]].unique
                              /\ Cardinality(Ids(read(r))) = Cardinality(reviews[r])
       THEN [day |-> Latest, reviews |-> reviews]
       ELSE NoCorpus

WithCorpus(j, w) ==
    IF w.job.state \in {"complete", "empty"} THEN [w EXCEPT !.head = Built(j, w)] ELSE w

-----------------------------------------------------------------------------
(* _commit_page as a transaction. *)

\* Mutant of TakesLock: the transaction does not lock the row of the game.
TakesNoLock(w) == UNCHANGED lock
TakesLock(w) == lock = Nobody /\ lock' = w

\* The answer arrived: under the locks, what to write is decided.  The time a lease is
\* compared with was read before the locks were waited for, so a lease that ran out in the
\* meantime still passes, while nobody has recovered it.
Decide(w) ==
    LET j == wk[w].job IN
    /\ At(w, "fetch")
    /\ Owned(w)
    /\ TakesLock(w)
    /\ \E write \in {PageWrite(w, Reply(w)), FailedWrite(w)} :
          Set(w, [wk[w] EXCEPT !.pc = "commit", !.write = WithCorpus(j, write)])
    /\ UNCHANGED <<jobs, fetches, seen, head, corpora, cand, now_at, faults>>

\* The claim is no longer ours: the answer is dropped.
Superseded(w) ==
    /\ At(w, "fetch")
    /\ lock = Nobody
    /\ ~(Owned(w) /\ jobs[wk[w].job].live)
    /\ fetches' = Ended({f \in fetches : /\ f.job = wk[w].job /\ f.token = wk[w].token
                                         /\ f.outcome = "started"}, "superseded")
    /\ Set(w, Idle)
    /\ UNCHANGED <<jobs, seen, head, corpora, cand, now_at, lock, faults>>

Commit(w) ==
    LET write == wk[w].write
        mine == {f \in fetches : f.job = wk[w].job /\ f.token = wk[w].token}
    IN
    /\ At(w, "commit")
    /\ jobs' = [jobs EXCEPT ![wk[w].job] = [write.job EXCEPT !.live = jobs[wk[w].job].live]]
    /\ fetches' = Ended(mine, write.outcome)
    /\ seen' = seen \cup write.seen
    /\ \/ write.head = NoCorpus /\ UNCHANGED <<head, corpora>>
       \/ /\ write.head # NoCorpus
          /\ head' = write.head
          /\ corpora' = corpora \cup {write.head.reviews}
    /\ lock' = IF lock = w THEN Nobody ELSE lock
    /\ Set(w, Idle)
    /\ UNCHANGED <<cand, now_at, faults>>

-----------------------------------------------------------------------------
(* The rest of the system, and the world. *)

\* The game is processed on a day, by a worker or by hand: its candidate and the routes' jobs,
\* those that are not there yet, are one commit under the lock of the game.
Process(d) ==
    /\ d \notin Processed
    /\ lock = Nobody
    /\ cand' = [cand EXCEPT ![d] = IF @ = "absent" THEN "processed" ELSE "again"]
    /\ jobs' = [j \in Job |-> IF j[1] = d /\ jobs[j].state = "absent" THEN New ELSE jobs[j]]
    /\ UNCHANGED <<fetches, seen, head, corpora, now_at, lock, wk, faults>>

\* process_candidate began before the game was processed by hand, and fails: its save makes
\* the candidate retryable or failed.  It holds no lock of the game.
SetBack(d) ==
    /\ d \in Processed
    /\ faults < MaxFaults
    /\ faults' = faults + 1
    /\ cand' = [cand EXCEPT ![d] = "set back"]
    /\ UNCHANGED <<jobs, fetches, seen, head, corpora, now_at, lock, wk>>

SourceChanges(r) ==
    /\ now_at[r] < Len(Source[r])
    /\ now_at' = [now_at EXCEPT ![r] = @ + 1]
    /\ UNCHANGED <<jobs, fetches, seen, head, corpora, cand, lock, wk, faults>>

\* LEASE_TTL passes.
Expire(j) ==
    /\ jobs[j].state = "running" /\ jobs[j].live
    /\ \E w \in Worker : wk[w].job = j /\ wk[w].token = jobs[j].token
    /\ faults < MaxFaults
    /\ faults' = faults + 1
    /\ jobs' = [jobs EXCEPT ![j].live = FALSE]
    /\ UNCHANGED <<fetches, seen, head, corpora, cand, now_at, lock, wk>>

\* The time of a lease nobody works under passes for sure.
ExpireLost(j) ==
    /\ jobs[j].state = "running" /\ jobs[j].live
    /\ ~ \E w \in Worker : wk[w].job = j /\ wk[w].token = jobs[j].token
    /\ jobs' = [jobs EXCEPT ![j].live = FALSE]
    /\ UNCHANGED <<fetches, seen, head, corpora, cand, now_at, lock, wk, faults>>

Crash(w) ==
    /\ ~At(w, "idle")
    /\ faults < MaxFaults
    /\ faults' = faults + 1
    /\ lock' = IF lock = w THEN Nobody ELSE lock
    /\ Set(w, Idle)
    /\ UNCHANGED <<jobs, fetches, seen, head, corpora, cand, now_at>>

Step(w) == \/ Claim(w) \/ ClaimNothing(w) \/ StartFetch(w)
           \/ Decide(w) \/ Superseded(w) \/ Commit(w)

Next == \/ \E w \in Worker : Step(w) \/ Crash(w)
        \/ \E j \in Job : Expire(j) \/ ExpireLost(j)
        \/ \E r \in Route : SourceChanges(r)
        \/ \E d \in 1..MaxDay : Process(d) \/ SetBack(d)

Spec == Init /\ [][Next]_vars

\* The least that is needed: while some worker can go on, or the lease of a lost claim has not
\* run out, something of the kind happens.
Progress == \/ \E w \in Worker : Step(w)
            \/ \E j \in Job : ExpireLost(j)

FairSpec == Spec /\ WF_vars(Progress)

-----------------------------------------------------------------------------
(* Properties. *)

Fetch == [job : Job, token : Nat, gen : 0..MaxRestarts, page : Nat,
          outcome : {"started", "succeeded", "failed", "invalid", "abandoned", "superseded"}]

\* The rows hold what their columns may hold, and a generation is restarted at most
\* MAX_GENERATION_RESTARTS times.
TypeOK ==
    /\ \A j \in Job : /\ jobs[j].state \in State
                      /\ jobs[j].live \in BOOLEAN
                      /\ jobs[j].gen \in 0..MaxRestarts
                      /\ {jobs[j].token, jobs[j].page, jobs[j].fetched, jobs[j].unique} \subseteq Nat
                      /\ jobs[j].total \in Nat \cup {NoTotal}
    /\ fetches \subseteq Fetch
    /\ \A o \in seen : o.job \in Job /\ o.gen \in 0..MaxRestarts
    /\ head.day \in 0..MaxDay
    /\ cand \in [1..MaxDay -> Standing]
    /\ lock \in Worker \cup {Nobody}
    /\ \A w \in Worker : wk[w].pc \in {"idle", "start", "fetch", "commit"}

\* Whatever crashed, expired or was retried, the pages a generation accepted are the pages
\* up to its cursor, each accepted once: no page is skipped and none is counted twice.
\* (An unstable job stays where the page that ended it was found.)
PagesInOrder ==
    \A j \in Job :
       LET accepted == {f \in fetches : f.job = j /\ f.gen = jobs[j].gen /\ f.outcome = "succeeded"}
       IN jobs[j].state # "unstable" =>
             /\ {f.page : f \in accepted} = 0..(jobs[j].page - 1)
             /\ Cardinality(accepted) = jobs[j].page

\* A page is asked for at most MAX_AUTOMATIC_ATTEMPTS times, those whose worker died included.
PageAttemptsBounded ==
    \A f \in fetches : Cardinality(FetchesAt(f.job, f.gen, f.page)) <= MaxAttempts

\* An attempt that is still open belongs to the claim its job runs under now; the answer of
\* an older claim has been closed as abandoned or will be dropped.
StartedIsCurrent ==
    \A f \in fetches : f.outcome = "started" =>
        jobs[f.job].state = "running" /\ jobs[f.job].token = f.token

\* A route that is complete (or empty) has as many different reviews as the source reported
\* and as its pages listed, each in one version, all accepted in this generation.
CompleteIsClean ==
    \A j \in Job : jobs[j].state \in {"complete", "empty"} =>
        LET obs == SeenIn(j, jobs[j].gen) IN
        /\ jobs[j].total = Cardinality(obs)
        /\ jobs[j].fetched = Cardinality(obs)
        /\ Cardinality(Ids(obs)) = Cardinality(obs)
        /\ \A o \in obs : \E f \in fetches : /\ f.job = j /\ f.token = o.token /\ f.gen = o.gen
                                             /\ f.outcome = "succeeded"

\* The corpus in use is of one day's cohort: for every route exactly the observations of
\* that day's job, which is complete or empty.
CorpusOfOneCohort ==
    head.day # 0 => \A r \in Route :
        LET j == <<head.day, r>> IN
        /\ jobs[j].state \in {"complete", "empty"}
        /\ head.reviews[r] = {o.review : o \in SeenIn(j, jobs[j].gen)}

\* When the last route of the latest day is done, the corpus of the day is in use and its
\* summary asked for, in whatever order and however closely the routes of this day and of others
\* finish.  (A day whose candidate was ever set back, or that was before such a day, has no such
\* promise: ensure_jobs does not hand off what was finished meanwhile.)
HandedOff ==
    \A d \in 1..MaxDay :
        /\ cand[d] = "processed"
        /\ \A e \in 1..MaxDay : e > d => cand[e] = "absent"
        /\ \A r \in Route : jobs[<<d, r>>].state \in {"complete", "empty"}
        => head.day = d /\ head.reviews \in corpora

\* A job that has ended is never changed again: not by a late answer, a recovery or a claim.
TerminalStays ==
    [][\A j \in Job : jobs[j].state \in Terminal => jobs'[j] = jobs[j]]_vars

\* Under FairSpec every job ends, whatever the source does and whoever dies.
JobsEnd == \A j \in Job : jobs[j].state # "absent" ~> jobs[j].state \in Terminal
=============================================================================
