-------------------------------- MODULE Batch --------------------------------
(***************************************************************************)
(* One business day of batches: selection of the day's candidates from New *)
(* Releases and SEE ALL (selector.py), the attempt at each of them         *)
(* (runner.py), recovery of what an earlier instance left unfinished, and  *)
(* the manual ingest command that works beside all this without the lease. *)
(*                                                                         *)
(* A worker is one execution of run_tick or run_manual, from the run it    *)
(* works for to the close of that run.  What it read of the run's row it   *)
(* keeps: only the handlers that read the row again see what another       *)
(* worker has written to it since.  The lease is a token, an owner and     *)
(* whether its time is over (module Scheduler has the rest).  Every        *)
(* transaction of a worker is one step, except the one that appends        *)
(* candidates: it reads in one step and inserts in the next, because       *)
(* manual ingest may commit in between.                                    *)
(***************************************************************************)
EXTENDS Integers, Sequences, FiniteSets, FiniteSetsExt, SequencesExt

CONSTANTS Worker,       \* executions of run_batch that may be alive at once
          Run,          \* processing runs of the day, of an hour or of a request
          Game,
          NewReleases,  \* the New Releases listing
          Pages,        \* the SEE ALL listing, page by page
          Excluded,     \* games of EXCLUDED_LOCATORS
          Ingested,     \* games a person may ingest by hand
          Limit,        \* BATCH_LIMIT
          MaxAttempts,  \* MAX_AUTOMATIC_ATTEMPTS
          MaxGrants,    \* bound on the grants of the lease
          MaxFaults     \* bound on crashes, exceptions, failing listings and hand edits

ASSUME BatchAssumption ==
    /\ "no run" \notin Run /\ "no game" \notin Game
    /\ IsFiniteSet(Game)
    /\ NewReleases \in Seq(Game)
    /\ Pages \in Seq(Seq(Game)) /\ Pages # <<>>
    /\ \A p, q \in DOMAIN Pages : Range(Pages[p]) # {} /\ (p # q => Range(Pages[p]) # Range(Pages[q]))
    /\ Excluded \subseteq Game
    /\ Ingested \subseteq Game
    /\ Limit \in Nat \ {0}
    /\ MaxAttempts \in Nat \ {0}
    /\ MaxGrants \in Nat
    /\ MaxFaults \in Nat

VARIABLES lease,     \* ProcessingLease: token, owner, and whether expires_at is ahead
          cycle,     \* DailyCycle: phase and browse_next_page
          cand,      \* DailyCandidate of each game: state, source_order, attempt_count
          attempts,  \* CoreAttempt rows
          enrolled,  \* games with ReviewCollectionJobs
          runs,      \* ProcessingRun with its RunCandidates
          wk,        \* the local variables of each worker, and the statement it is at
          faults     \* crashes, exceptions, failing listings and hand edits so far (a bound only)

vars == <<lease, cycle, cand, attempts, enrolled, runs, wk, faults>>

Phase    == {"new_releases_pending", "browse", "exhausted"}
State    == {"absent", "pending", "processing", "processed", "retryable", "failed"}
Unclosed == {"queued", "running"}
Status   == Unclosed \cup {"skipped", "succeeded", "partial", "failed"}
NoRun    == "no run"
NoGame   == "no game"
Order    == 0..Cardinality(Game)
Fenced   == {"recover", "releases", "browse", "freeze", "claim", "fetch"}
Acquired == Fenced \cup {"select", "insert", "abort", "close"}
PcValues == Acquired \cup {"idle", "acquire", "mark"}

Idle == [pc |-> "idle", run |-> NoRun, tok |-> 0, batch |-> <<>>, left |-> <<>>,
         fresh |-> <<>>, order |-> 0, phase |-> "new_releases_pending", page |-> 1,
         frozen |-> FALSE, err |-> FALSE, game |-> NoGame, no |-> 0, status |-> "queued"]

Init == /\ lease = [token |-> 0, owner |-> NoRun, live |-> FALSE]
        /\ cycle = [phase |-> "new_releases_pending", page |-> 1]
        /\ cand = [g \in Game |-> [state |-> "absent", order |-> 0, count |-> 0]]
        /\ attempts = {}
        /\ enrolled = {}
        /\ runs = [r \in Run |-> [status |-> "queued", token |-> 0, frozen |-> FALSE,
                                  batch |-> <<>>, err |-> FALSE]]
        /\ wk = [w \in Worker |-> Idle]
        /\ faults = 0

-----------------------------------------------------------------------------
(* Helpers. *)

\* Mutant of Verified: only the expiry is looked at.
VerifiedTime(w) == lease.live
\* verify_fencing_token(...) does not raise StaleRun.
Verified(w) == lease.live /\ lease.token = wk[w].tok /\ lease.owner = wk[w].run

Known == {g \in Game : cand[g].state # "absent"}
Waiting == {g \in Game : cand[g].state \in {"pending", "retryable"}}
NextOrder == Max({cand[g].order : g \in Game} \cup {0}) + 1
AttemptsAt(g) == {a \in attempts : a.game = g}
LastNo(g) == Max({a.no : a \in AttemptsAt(g)} \cup {0})

\* The games of S in the order of a place that each has: one sequence, if no two share a place.
Ordered(S, place) ==
    {q \in SetToSeqs(S) : \A i, j \in DOMAIN q : i < j => place[q[i]] < place[q[j]]}
\* The identities of a listing that are new to the day, each once, in source order.
Unknown(listing) ==
    Ordered(Range(listing) \ (Known \cup Excluded),
            [g \in Range(listing) |-> Min({i \in DOMAIN listing : listing[i] = g})])
Prefix(s, n) == SubSeq(s, 1, Min({n, Len(s)}))
Room(w) == Limit - Len(wk[w].batch)

Closes(as, outcome) == (attempts \ as) \cup {[a EXCEPT !.outcome = outcome] : a \in as}
Exhausted(n) == n >= MaxAttempts
\* The state of a candidate whose attempt number no came to nothing.
AfterFailure(no) == IF Exhausted(no) THEN "failed" ELSE "retryable"

\* The games of run r whose latest attempt by it ended like this (progress_for_runs).
LatestEnded(r, outcomes) ==
    {a.game : a \in {b \in attempts : /\ b.run = r /\ b.outcome \in outcomes
                                     /\ \A c \in AttemptsAt(b.game) : c.run = r => c.no <= b.no}}
Good(r) == LatestEnded(r, {"succeeded"})
Bad(r)  == LatestEnded(r, {"failed", "interrupted"})
CutShort(r) == IF Good(r) # {} THEN "partial" ELSE "failed"

At(w, here) == wk[w].pc = here
Set(w, m) == wk' = [wk EXCEPT ![w] = m]
\* What a worker still needs when its batch is frozen, or over: its run and its token.
Only(w, there) == [Idle EXCEPT !.pc = there, !.run = wk[w].run, !.tok = wk[w].tok]
Leave(w, there) == Set(w, Only(w, there))
\* A worker that goes through its batch, and one that has only to close its run.
Held(w, batch, err) == [Only(w, "claim") EXCEPT !.batch = batch, !.left = batch, !.err = err]
Over(w, status, err) == [Only(w, "close") EXCEPT !.status = status, !.err = err]
CutOff(w) == Over(w, CutShort(wk[w].run), TRUE)

-----------------------------------------------------------------------------
(* run_tick, run_manual, _try_resume: the run and the lease. *)

\* The lease can be taken.  A transaction that has verified its token and not committed yet
\* keeps the row locked.
LeaseFree == /\ ~lease.live
             /\ \A v \in Worker : ~At(v, "insert")
             /\ lease.token < MaxGrants
Grant(r) == lease' = [token |-> lease.token + 1, owner |-> r, live |-> TRUE]

\* A tick creates the run of its hour, or the dispatcher's thread creates or finds the run of
\* a request.  It goes on with the row of this moment.
Begin(w, r) ==
    /\ At(w, "idle")
    /\ runs[r].status = "queued"
    /\ Set(w, [Idle EXCEPT !.pc = "acquire", !.run = r])
    /\ UNCHANGED <<lease, cycle, cand, attempts, enrolled, runs, faults>>

Acquire(w) ==
    /\ At(w, "acquire")
    /\ LeaseFree
    /\ Grant(wk[w].run)
    /\ Set(w, [wk[w] EXCEPT !.pc = "mark", !.tok = lease.token + 1])
    /\ UNCHANGED <<cycle, cand, attempts, enrolled, runs, faults>>

\* LeaseOverlap: the run is saved as skipped, unless it is the run of a request and its owner.
Overlap(w) ==
    /\ At(w, "acquire")
    /\ lease.live
    /\ \/ runs' = [runs EXCEPT ![wk[w].run].status = "skipped"]
       \/ lease.owner = wk[w].run /\ UNCHANGED runs
    /\ Set(w, Idle)
    /\ UNCHANGED <<lease, cycle, cand, attempts, enrolled, faults>>

\* _mark_running saves over the row whatever it has become since it was read.
MarkRunning(w) ==
    /\ At(w, "mark")
    /\ runs' = [runs EXCEPT ![wk[w].run].status = "running", ![wk[w].run].token = wk[w].tok]
    /\ Set(w, [wk[w] EXCEPT !.pc = "recover"])
    /\ UNCHANGED <<lease, cycle, cand, attempts, enrolled, faults>>

\* _try_resume reads the row again, takes the lease and marks the row in one transaction.
Resume(w, r) ==
    /\ At(w, "idle")
    /\ runs[r].status \in Unclosed
    /\ LeaseFree
    /\ Grant(r)
    /\ runs' = [runs EXCEPT ![r].status = "running", ![r].token = lease.token + 1]
    /\ Set(w, [Idle EXCEPT !.pc = "recover", !.run = r, !.tok = lease.token + 1,
                           !.frozen = runs[r].frozen, !.err = runs[r].err])
    /\ UNCHANGED <<cycle, cand, attempts, enrolled, faults>>

Expire ==
    /\ lease.live
    /\ lease' = [lease EXCEPT !.live = FALSE]
    /\ UNCHANGED <<cycle, cand, attempts, enrolled, runs, wk, faults>>

-----------------------------------------------------------------------------
(* run_batch: recovery, selection, freeze. *)

\* What _recover_stale_candidates does to a candidate, given the interrupted ones.
Recovered(g, interrupted) ==
    LET c == IF g \in interrupted THEN [cand[g] EXCEPT !.state = "retryable"] ELSE cand[g]
        spent == Max({c.count, LastNo(g)})
    IN IF c.state \in {"pending", "retryable"} /\ Exhausted(spent)
       THEN [c EXCEPT !.state = "failed", !.count = spent] ELSE c

\* Mutant of StaleGames: recovery looks at the attempts of its own run only.
StaleGamesOfRun(w) ==
    {g \in Game : cand[g].state = "processing"
                  /\ \E a \in AttemptsAt(g) : a.outcome = "open" /\ a.run = wk[w].run}
StaleGames(w) ==
    {g \in Game : cand[g].state = "processing"
                  /\ ~ \E a \in AttemptsAt(g) : a.outcome = "open" /\ a.token = wk[w].tok}

Recover(w) ==
    /\ At(w, "recover")
    /\ Verified(w)
    /\ cand' = [g \in Game |-> Recovered(g, StaleGames(w))]
    /\ attempts' = Closes({a \in attempts : a.game \in StaleGames(w) /\ a.outcome = "open"},
                          "interrupted")
    /\ Set(w, [wk[w] EXCEPT !.pc = "select", !.phase = cycle.phase, !.page = cycle.page])
    /\ UNCHANGED <<lease, cycle, enrolled, runs, faults>>

\* The next thing a batch without enough candidates does, by the phase of the day.
Discovery(phase) ==
    CASE phase = "new_releases_pending" -> "releases"
      [] phase = "browse"               -> "browse"
      [] phase = "exhausted"            -> "freeze"

\* A batch that was frozen when the row was read is taken up as it is stored.
TakeUp(w) ==
    /\ At(w, "select")
    /\ wk[w].frozen
    /\ Set(w, Held(w, runs[wk[w].run].batch, wk[w].err))
    /\ UNCHANGED <<lease, cycle, cand, attempts, enrolled, runs, faults>>

\* Otherwise a run that has attempts is closed as legacy_batch_unavailable.
Legacy(w) ==
    /\ At(w, "select")
    /\ ~wk[w].frozen
    /\ \E a \in attempts : a.run = wk[w].run
    /\ Set(w, CutOff(w))
    /\ UNCHANGED <<lease, cycle, cand, attempts, enrolled, runs, faults>>

\* Unfinished candidates come first.
Select(w) ==
    /\ At(w, "select")
    /\ ~wk[w].frozen
    /\ ~ \E a \in attempts : a.run = wk[w].run
    /\ \E waiting \in Ordered(Waiting, [g \in Game |-> cand[g].order]) :
          Set(w, [wk[w] EXCEPT !.batch = Prefix(waiting, Limit),
                               !.pc = IF Len(waiting) < Limit THEN Discovery(wk[w].phase)
                                      ELSE "freeze"])
    /\ UNCHANGED <<lease, cycle, cand, attempts, enrolled, runs, faults>>

Listing(w) == IF At(w, "releases") THEN NewReleases ELSE Pages[wk[w].page]

\* The listing is fetched, the token verified, and the known identities are read.
ReadListing(w) ==
    /\ At(w, "releases") \/ At(w, "browse")
    /\ Verified(w)
    /\ \E fresh \in Unknown(Listing(w)) :
          Set(w, [wk[w] EXCEPT !.pc = "insert", !.fresh = fresh, !.order = NextOrder])
    /\ UNCHANGED <<lease, cycle, cand, attempts, enrolled, runs, faults>>

\* The source failed, or a page or time limit of the scan was reached: nothing is saved.
ListingFails(w) ==
    /\ At(w, "releases") \/ At(w, "browse")
    /\ faults < MaxFaults
    /\ faults' = faults + 1
    /\ Set(w, [wk[w] EXCEPT !.pc = "freeze", !.err = TRUE])
    /\ UNCHANGED <<lease, cycle, cand, attempts, enrolled, runs>>

\* Mutant of Advanced: a page is left behind although it did not fit.
AdvancedAlways(w) ==
    IF wk[w].phase = "new_releases_pending"
    THEN [phase |-> "browse", page |-> wk[w].page]
    ELSE [phase |-> IF wk[w].page < Len(Pages) THEN "browse" ELSE "exhausted",
          page |-> wk[w].page + 1]

\* Where the day's discovery stands once the listing is saved.
Advanced(w) ==
    IF wk[w].phase = "new_releases_pending"
    THEN [phase |-> "browse", page |-> wk[w].page]
    ELSE IF Len(wk[w].fresh) <= Room(w)
    THEN [phase |-> IF wk[w].page < Len(Pages) THEN "browse" ELSE "exhausted",
          page |-> wk[w].page + 1]
    ELSE [phase |-> "browse", page |-> wk[w].page]

\* _append_candidates and the save of the cycle.  Either unique constraint may fail by now.
Insert(w) ==
    LET new == Prefix(wk[w].fresh, Room(w))
        batch == wk[w].batch \o new
        more == wk[w].phase = "browse" /\ Len(batch) < Limit /\ wk[w].page < Len(Pages)
    IN
    /\ At(w, "insert")
    /\ Range(new) \cap Known = {}
    /\ NextOrder <= wk[w].order \/ new = <<>>
    /\ cand' = [g \in Game |->
                   IF g \in Range(new)
                   THEN [state |-> "pending", count |-> 0,
                         order |-> wk[w].order - 1 + CHOOSE i \in DOMAIN new : new[i] = g]
                   ELSE cand[g]]
    /\ cycle' = Advanced(w)
    /\ Set(w, [wk[w] EXCEPT !.pc = IF more THEN "browse" ELSE "freeze", !.batch = batch,
                            !.fresh = <<>>, !.order = 0,
                            !.phase = cycle'.phase, !.page = cycle'.page])
    /\ UNCHANGED <<lease, attempts, enrolled, runs, faults>>

InsertClashes(w) ==
    LET new == Prefix(wk[w].fresh, Room(w)) IN
    /\ At(w, "insert")
    /\ Range(new) \cap Known # {} \/ (NextOrder > wk[w].order /\ new # <<>>)
    /\ Leave(w, "abort")
    /\ UNCHANGED <<lease, cycle, cand, attempts, enrolled, runs, faults>>

\* Mutant of Clashes: the positions of a run are not unique.
ClashesNever(w) == FALSE
\* bulk_create meets a RunCandidate of this run at a position of its own batch.
Clashes(w) == wk[w].batch # <<>> /\ runs[wk[w].run].batch # <<>>

\* The rows are inserted beside those that are there.
Freeze(w) ==
    /\ At(w, "freeze")
    /\ Verified(w)
    /\ ~Clashes(w)
    /\ runs' = [runs EXCEPT ![wk[w].run].frozen = TRUE, ![wk[w].run].batch = @ \o wk[w].batch,
                            ![wk[w].run].err = wk[w].err]
    /\ Set(w, Held(w, wk[w].batch, wk[w].err))
    /\ UNCHANGED <<lease, cycle, cand, attempts, enrolled, faults>>

FreezeClashes(w) ==
    /\ At(w, "freeze")
    /\ Verified(w)
    /\ Clashes(w)
    /\ Leave(w, "abort")
    /\ UNCHANGED <<lease, cycle, cand, attempts, enrolled, runs, faults>>

-----------------------------------------------------------------------------
(* process_candidate. *)

\* Mutant of Finished: a failure of this run is tried again by it.
FinishedWell(w, g) ==
    \E a \in AttemptsAt(g) : a.run = wk[w].run /\ a.outcome = "succeeded"
\* A classified failure of this run is not retried by it, an interrupted attempt is.
Finished(w, g) ==
    \E a \in AttemptsAt(g) : /\ a.run = wk[w].run
                             /\ a.outcome \in {"succeeded", "failed"}
                             /\ \A b \in AttemptsAt(g) : b.run = a.run => b.no <= a.no

\* The next position needs no attempt, or its candidate is no longer open to one.
Skip(w) ==
    /\ At(w, "claim")
    /\ wk[w].left # <<>>
    /\ LET g == Head(wk[w].left) IN
       Finished(w, g) \/ (Verified(w) /\ cand[g].state \notin {"pending", "retryable"})
    /\ Set(w, [wk[w] EXCEPT !.left = Tail(@)])
    /\ UNCHANGED <<lease, cycle, cand, attempts, enrolled, runs, faults>>

\* Mutant of Spent: the candidate's own counter is believed.
SpentCounter(g) == cand[g].count
\* The attempts used: the history of attempts counts, whatever the candidate's counter says.
Spent(g) == Max({cand[g].count, LastNo(g)})

Claim(w) ==
    LET g == Head(wk[w].left) IN
    /\ At(w, "claim")
    /\ wk[w].left # <<>>
    /\ ~Finished(w, g)
    /\ Verified(w)
    /\ cand[g].state \in {"pending", "retryable"}
    /\ \/ /\ Exhausted(Spent(g))
          /\ cand' = [cand EXCEPT ![g].state = "failed", ![g].count = Spent(g)]
          /\ Set(w, [wk[w] EXCEPT !.left = Tail(@)])
          /\ UNCHANGED attempts
       \/ /\ ~Exhausted(Spent(g))
          /\ cand' = [cand EXCEPT ![g].state = "processing", ![g].count = Spent(g) + 1]
          /\ attempts' = attempts \cup {[game |-> g, no |-> Spent(g) + 1, run |-> wk[w].run,
                                         token |-> wk[w].tok, outcome |-> "open"]}
          /\ Set(w, [wk[w] EXCEPT !.pc = "fetch", !.left = Tail(@), !.game = g,
                                  !.no = Spent(g) + 1])
    /\ UNCHANGED <<lease, cycle, enrolled, runs, faults>>

Mine(w) == {a \in AttemptsAt(wk[w].game) : a.no = wk[w].no /\ a.outcome = "open"}

\* The saves are of the candidate as the claim left it in memory.
CommitSuccess(w) ==
    LET g == wk[w].game IN
    /\ At(w, "fetch")
    /\ Verified(w)
    /\ attempts' = Closes(Mine(w), "succeeded")
    /\ cand' = [cand EXCEPT ![g].state = "processed", ![g].count = wk[w].no]
    /\ enrolled' = enrolled \cup {g}
    /\ Set(w, [wk[w] EXCEPT !.pc = "claim", !.game = NoGame, !.no = 0])
    /\ UNCHANGED <<lease, cycle, runs, faults>>

CommitFailure(w) ==
    LET g == wk[w].game IN
    /\ At(w, "fetch")
    /\ Verified(w)
    /\ attempts' = Closes(Mine(w), "failed")
    /\ cand' = [cand EXCEPT ![g].state = AfterFailure(wk[w].no), ![g].count = wk[w].no]
    /\ Set(w, [wk[w] EXCEPT !.pc = "claim", !.game = NoGame, !.no = 0])
    /\ UNCHANGED <<lease, cycle, enrolled, runs, faults>>

-----------------------------------------------------------------------------
(* The ends of a batch. *)

\* Mutant of Verdict: failed items do not count against a batch that made progress.
VerdictOfProgress(r, err) == IF ~err /\ (Bad(r) = {} \/ Good(r) # {}) THEN "succeeded" ELSE CutShort(r)
Verdict(r, err) == IF ~err /\ Bad(r) = {} THEN "succeeded" ELSE CutShort(r)

FinishBatch(w) ==
    LET r == wk[w].run IN
    /\ At(w, "claim")
    /\ wk[w].left = <<>>
    /\ Set(w, Over(w, Verdict(r, wk[w].err), wk[w].err))
    /\ UNCHANGED <<lease, cycle, cand, attempts, enrolled, runs, faults>>

\* StaleRun out of any fenced transaction.
LoseLease(w) ==
    /\ wk[w].pc \in Fenced
    /\ ~Verified(w)
    /\ Set(w, CutOff(w))
    /\ UNCHANGED <<lease, cycle, cand, attempts, enrolled, runs, faults>>

\* The handler of unexpected exceptions fails what its run has open, if it still may.
Abort(w) ==
    LET mine == {a \in attempts : a.run = wk[w].run /\ a.outcome = "open"}
        games == {a.game : a \in mine}
    IN
    /\ At(w, "abort")
    /\ Set(w, CutOff(w))
    /\ \/ /\ Verified(w)
          /\ attempts' = Closes(mine, "failed")
          /\ cand' = [g \in Game |->
                         IF g \in games /\ cand[g].state = "processing"
                         THEN [cand[g] EXCEPT !.state = AfterFailure(cand[g].count)]
                         ELSE cand[g]]
       \/ ~Verified(w) /\ UNCHANGED <<attempts, cand>>
    /\ UNCHANGED <<lease, cycle, enrolled, runs, faults>>

\* _save_closure and release_lease, both filtered on the token.
Close(w) ==
    LET r == wk[w].run IN
    /\ At(w, "close")
    /\ runs' = IF runs[r].token = wk[w].tok
               THEN [runs EXCEPT ![r].status = wk[w].status, ![r].err = wk[w].err] ELSE runs
    /\ lease' = IF lease.owner = r /\ lease.token = wk[w].tok
                THEN [lease EXCEPT !.owner = NoRun, !.live = FALSE] ELSE lease
    /\ Set(w, Idle)
    /\ UNCHANGED <<cycle, cand, attempts, enrolled, faults>>

\* An exception anywhere in run_batch: the transaction it happens in is rolled back.
Fault(w) ==
    /\ wk[w].pc \in Fenced \cup {"select", "insert"}
    /\ faults < MaxFaults
    /\ faults' = faults + 1
    /\ Leave(w, "abort")
    /\ UNCHANGED <<lease, cycle, cand, attempts, enrolled, runs>>

\* The process ends, or an exception ends the tick before run_batch has begun.
Crash(w) ==
    /\ ~At(w, "idle")
    /\ faults < MaxFaults
    /\ faults' = faults + 1
    /\ Set(w, Idle)
    /\ UNCHANGED <<lease, cycle, cand, attempts, enrolled, runs>>

-----------------------------------------------------------------------------
(* People: manual_ingest.ingest_game, one transaction under a lock on the cycle *)
(* row, and edits by hand.                                                     *)

ManualIngest(g) ==
    /\ cand[g].state # "processed"
    /\ cand' = [cand EXCEPT ![g] =
                   [state |-> "processed", count |-> @.count,
                    order |-> IF g \in Known THEN @.order ELSE NextOrder]]
    /\ enrolled' = enrolled \cup {g}
    /\ UNCHANGED <<lease, cycle, attempts, runs, wk, faults>>

\* A person edits a candidate's state and counter by hand; its attempts stay as history.
OperatorEdit(g) ==
    /\ cand[g].state \in {"failed", "retryable"}
    /\ faults < MaxFaults
    /\ faults' = faults + 1
    /\ cand' = [cand EXCEPT ![g].state = "retryable", ![g].count = 0]
    /\ UNCHANGED <<lease, cycle, attempts, enrolled, runs, wk>>

Step(w) ==
    \/ \E r \in Run : Begin(w, r) \/ Resume(w, r)
    \/ Acquire(w) \/ Overlap(w) \/ MarkRunning(w)
    \/ Recover(w) \/ TakeUp(w) \/ Legacy(w) \/ Select(w)
    \/ ReadListing(w) \/ ListingFails(w) \/ Insert(w) \/ InsertClashes(w)
    \/ Freeze(w) \/ FreezeClashes(w)
    \/ Skip(w) \/ Claim(w) \/ CommitSuccess(w) \/ CommitFailure(w)
    \/ FinishBatch(w) \/ LoseLease(w) \/ Abort(w) \/ Close(w)
    \/ Fault(w) \/ Crash(w)

Next == \/ \E w \in Worker : Step(w)
        \/ \E g \in Ingested : ManualIngest(g)
        \/ \E g \in Game : OperatorEdit(g)
        \/ Expire

Spec == Init /\ [][Next]_vars

-----------------------------------------------------------------------------
(* Properties. *)

AttemptRow == [game : Game, no : 1..MaxAttempts, run : Run, token : Nat,
               outcome : {"open", "succeeded", "failed", "interrupted"}]
Worked == [pc : PcValues, run : Run \cup {NoRun}, tok : Nat, batch : Seq(Game),
           left : Seq(Game), fresh : Seq(Game), order : Nat, phase : Phase,
           page : 1..(Len(Pages) + 1), frozen : BOOLEAN, err : BOOLEAN, game : Game \cup {NoGame},
           no : 0..MaxAttempts, status : Status]

TypeOK ==
    /\ lease \in [token : 0..MaxGrants, owner : Run \cup {NoRun}, live : BOOLEAN]
    /\ cycle \in [phase : Phase, page : 1..(Len(Pages) + 1)]
    /\ cand \in [Game -> [state : State, order : Order, count : 0..MaxAttempts]]
    /\ attempts \subseteq AttemptRow
    /\ enrolled \subseteq Game
    /\ runs \in [Run -> [status : Status, token : Nat, frozen : BOOLEAN,
                         batch : Seq(Game), err : BOOLEAN]]
    /\ wk \in [Worker -> Worked]
    /\ faults \in 0..MaxFaults

\* The automatic attempts at a candidate are numbered 1, 2, ... without a gap or a repetition, and
\* stop at the limit, whatever crashes and recoveries come between them.
AttemptBudget ==
    \A g \in Game :
        /\ {a.no : a \in AttemptsAt(g)} = 1..Cardinality(AttemptsAt(g))
        /\ Cardinality(AttemptsAt(g)) <= MaxAttempts

\* A run tries a candidate again only if the earlier attempt was interrupted.
OncePerRun ==
    \A a, b \in attempts :
        a.run = b.run /\ a.game = b.game /\ a.no < b.no => a.outcome = "interrupted"

\* The places of a worker before its recovery and after its batch.
Outside == {"acquire", "mark", "recover", "abort", "close"}

\* Once the holder of the lease has recovered, no candidate is left in "processing" but its own.
NothingStranded ==
    \A w \in Worker : Verified(w) /\ wk[w].pc \notin Outside =>
        \A g \in Game : cand[g].state = "processing" => At(w, "fetch") /\ wk[w].game = g

\* The cursor never passes a page whose identities are not all candidates of the day (PS-INV-07).
CursorKeepsUp ==
    /\ \A p \in 1..(cycle.page - 1) : Range(Pages[p]) \ Excluded \subseteq Known
    /\ cycle.phase = "exhausted" => cycle.page = Len(Pages) + 1

\* A success is final, and there is one of it.
SuccessIsFinal ==
    \A a \in attempts : a.outcome = "succeeded" =>
        /\ cand[a.game].state = "processed" /\ a.game \in enrolled
        /\ \A b \in AttemptsAt(a.game) : b.no <= a.no

\* A frozen batch is never changed, replaced or grown (PS-INV-04, PS-INV-05), and whatever its
\* run attempts is an item of it, although a worker that read the row before it was frozen may
\* select another one.  Only a batch frozen empty may still be filled by such a worker.
BatchStaysFrozen ==
    [][\A r \in Run : runs[r].frozen =>
           /\ runs'[r].frozen
           /\ runs[r].batch # <<>> => runs'[r].batch = runs[r].batch
           /\ Len(runs'[r].batch) <= Limit
           /\ \A a \in attempts' : a.run = r => a.game \in Range(runs'[r].batch)]_vars

\* A worker closes its run as succeeded only when each item of the batch it took up is processed
\* or has spent the attempts it was allowed, in this run or another.
SucceededIsDone ==
    [][\A w \in Worker : At(w, "claim") /\ wk'[w].status = "succeeded" =>
           \A g \in Range(wk[w].batch) :
               cand[g].state = "processed" \/ Exhausted(LastNo(g))]_vars

\* A run is closed as succeeded only when every item it selected is processed.
SucceededIsProcessed ==
    [][\A w \in Worker : At(w, "claim") /\ wk'[w].status = "succeeded" =>
           \A g \in Range(wk[w].batch) : cand[g].state = "processed"]_vars
=============================================================================
