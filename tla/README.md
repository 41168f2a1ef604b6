# Metacritic game archive: verification project

TLA+ models of the program in `src/app`: a Django service that walks Metacritic's
listings every hour, stores games, collects their reviews, has a language model
summarise them, and shows the result. Everything concurrent in it goes through
PostgreSQL rows (READ COMMITTED, `SELECT ... FOR UPDATE`), so the models are about
which transaction commits when, and what a process that died, was late or was
overtaken may still write.

## 1. Inventory

Processes: the **scheduler** (main thread: a tick every 20 s; daemon thread: the
manual-run dispatcher, a poll every second), the **worker** (every 5 s one review
page or one summary attempt, otherwise similar-games upkeep and a let's-play step),
the **web** process (catalogue, operators' pages, read-only monitoring). During a
deploy the old and the new generation of each may run side by side; each may be
killed anywhere and is restarted by its container.

| component | state it keeps | operations | hard behaviour | correct when |
|---|---|---|---|---|
| hourly scheduler (`processing/scheduler.py`, `lease.py`, `progress.py`) | `ProcessingRun` rows by trigger key, singleton `ProcessingLease` (token, owner, expiry) | `run_tick`, `_try_resume`, `_execute_owned`, `_save_closure`, `acquire_lease`, `verify_fencing_token`, `release_lease` | lost lease during a fetch, late closure, resume after a crash, two generations | one holder at a time, nothing durable from an overtaken instance, closed runs stay closed, counters are the outcomes |
| manual dispatcher (`dispatcher.py`, `run_manual`) | `ManualRunRequest.state` | expire, scan, claim, execute, settle | crash between run and request, a run held by another instance, a thread that dies | each request answered, and with its own run's outcome |
| batch (`selector.py`, `runner.py`, `manual_ingest.py`, `enrollment.py`) | `DailyCycle` (phase, cursor), `DailyCandidate`, `CoreAttempt`, `RunCandidate` | recovery, selection, browse, freeze, claim, commit, manual ingest | crash between claim and commit, source that fails halfway, a batch resumed by another instance, manual ingest without the lease | attempts bounded and numbered, nothing stranded in `processing`, the cursor passes nothing unsaved, a frozen batch is fixed |
| admission (`admission.py`) | `TriggerAdmission` lock row, requests of the last hour | `admit`, `lookup`, `expire_stale` | concurrent POSTs, replays, `now` read before the lock | limits hold, a replay creates nothing |
| review collection (`reviews/collector.py`) | `ReviewCollectionJob` (state, token, lease, generation, cursor, counters), `SourceFetch`, `ReviewObservation` | recover, claim, start a page, commit a page, restart a generation | late pages, source that grows while it is paged | no page of another generation or owner, terminal state means what it says |
| corpus (`reviews/corpus.py`, `snapshots.py`, `selection.py`) | `ReviewCorpus` rows | build, read, select | the last pages of two platforms at once | built once all platforms are terminal |
| summary worker (`summaries/worker.py`, `quota.py`) | `SummaryJob`, `SummaryAttempt`, published summaries | claim, reserve, ask, publish or retry, recover | late answers, unknown usage, limits per window | one published summary per input, limits kept |
| dispatch (`orchestration/jobs.py`) | `EnrichmentTurn.next_kind` | `claim_next` | starvation of one queue | both queues advance |
| let's-plays (`letsplays/worker.py`, `budget.py`) | `LetsPlay` row with its lease in `available_at`, ledger of calls | search, hear, listen, conclude | a step that outlives its claim, budgets of several windows | no step by a non-owner, budgets kept |
| catalogue (`catalog/ingest.py`) | `Game`, `GamePlatform`, `SourceFetch` | resolve an identity, merge fields | identities that disagree | an identity maps to one game |
| similar games (`catalog/similarity_index.py`) | embeddings, neighbour rows | refresh, upkeep | catalogue changing during a rebuild | the index converges to the catalogue |
| heartbeats (`heartbeat.py`, `monitoring.py`) | `ProcessHeartbeat` by role and slot | register, publish, activity | an old instance writing over a new one | a generation only moves forward |
| gateway and parsers (`metacritic/*`) | none | `fetch_game`, `fetch_platform_userscore`, `list_new_releases`, `iter_browse`, `fetch_review_page` | retry under a deadline, pages that are cut or another's | bounded calls, a page read whole or not at all |
| review selection, question and answer of the summaries (`reviews/selection.py`, `summaries/preflight.py`, `groq_adapter.py`, `contour.py`) | none | select, measure, ask, normalize, validate | the same review on several platforms, answers of any shape | fair selection, nothing published that was not said |
| choice and conclusion of a let's play (`letsplays/selection.py`, `conclusion.py`, `groq.py`, `youtube.py`) | none | shortlist, captions, judge the speech, segment, ask, validate | dubs, other games, long transcripts | the best video that is about the game, quotes that were spoken |
| operator login (`presentation/operators.py`) | `LoginFailure` | throttle, authenticate, record | the count is not locked | guesses bounded per window |
| public card (`presentation/summaries.py`, `letsplays.py`, `reviews/snapshots.py`) | none; reads rows one after another | `summary_card`, `get_letsplay` | writers between two reads | a warning exactly when there is something to warn of |
| evaluation (`evals/reviews/run_groq_eval.py`, `score_run.py`) | `run.json`, `scorecard.json` | run the cases, create, finalize, verify | death between two saves, edits by hand | a scorecard that verifies was earned |

They interact through rows only. The scheduler thread and the dispatcher thread compete
for the lease; both run `run_batch` under it. A successful item creates the game's
`ReviewCollectionJob`s in the same transaction. A terminal page builds the corpus and the
`SummaryJob` in the same transaction. The web process creates `ManualRunRequest`s, which
the dispatcher polls. `PROJECT.json` lists the components with their status and, under
"hazards", what is hard to test at its line.

## 2. Modules

| module | what it is |
|---|---|
| `FencedWork` | abstract specification: what the lease promises (one holder, a new epoch for every grant, work only under the current epoch, each item of a run decided once) |
| `Scheduler` | scheduler processes, lease, runs, manual requests; implements `FencedWork` |
| `Scheduler_proofs`, `Batch_proofs`, `ReviewCollection_proofs`, `Summaries_proofs`, `LetsPlays_proofs` | theorems about the module they are named after (section 4); `Summaries_proofs` and `LetsPlays_proofs` also about the parts of `Answers` |
| `Operators_proofs`, `Upkeep_proofs` | theorems about the parts composed in `Operators` and `Upkeep` |
| `Sums` | lemmas on sums of naturals, on the least and the greatest of a set, and on the places of a finite set in a strict order, for the modules of theorems |
| `Batch` | one business day of `run_batch` executions beside manual ingest |
| `ReviewCollection` | the routes of one game and one audience, paged by several workers, and the corpus their last page builds |
| `Summaries` | summary workers, their attempts, the quota of the provider, and the dispatch between summaries and review pages |
| `LetsPlays` | the steps of a let's play and the ledger of provider calls |
| `Admission`, `Login` | what an operator may do, and how often |
| `Observation` | heartbeats and what the monitoring page says of them |
| `Catalogue` | identities, merged values and the pages of the lists |
| `SimilarIndex`, `Similarity` | upkeep of the similar-games index; its ranking policy |
| `Gateway` | one call to Metacritic, its retries and the verdict of the parser |
| `ReviewSelection`, `SummaryAnswer` | what a model is given to sum up, and what is kept of its answer |
| `LetsPlayChoice`, `Conclusion` | which video is chosen; what is sent of its transcript and kept of the answer |
| `Cards` | the public page, read while others write |
| `Evaluation` | the prompt's evaluation and its scorecard |
| `MCScheduler`, `MCBatch`, `MCReviewCollection`, `MCSummaries` | constants for the runs |
| `Upkeep` | `Observation`, `Catalogue`, `SimilarIndex`, `Similarity`, `Gateway` side by side, as the instances `Obs`, `Cat`, `Ind`, `Sim`, `Gat`, and what they keep |
| `Operators` | `Admission`, `Login`, `Cards`, `Evaluation`, as `Adm`, `Log`, `Car`, `Eva`, likewise |
| `Answers` | `ReviewSelection`, `LetsPlayChoice`, `SummaryAnswer`, `Conclusion`, as `Sel`, `Cho`, `Ans`, `Con`, likewise |
| `MCParts` | fourteen parts that share no state (those three modules and `LetsPlays`), each on a small instance, in one specification: `part` names the one a behaviour is of |

An operator whose comment begins `Mutant of X` stands before `X` and is what a plausible
bug would make of it; nothing uses it in a specification. Replacing `X` by it must break
the property it is listed with in `PROJECT.json`, which is how each property is shown to
depend on the code.

The modules of the parts are written for proofs about any values of their constants;
`Upkeep`, `Operators` and `Answers` only give the constants and variables of several of them
names that differ, so that the run `Parts` and the theorems are about one and the same
property, such as `SelectionKept`.

### `Scheduler`

`pc[t]` names the statement a thread (`<<process, "tick">>` or `<<process, "manual">>`)
is about to run, `mem[t]` its local variables. A step is one transaction, or one statement
outside a transaction:

| code | actions |
|---|---|
| `run_tick` | `TickLookup`, `CreateRun`, `Acquire`/`AcquireOverlap`, `SaveSkipped`, `MarkRunning` |
| `Dispatcher._tick`, `run_manual` | `ExpireStale`, `ScanQueue`, `ClaimRequest`, `Acquire`/`AcquireOverlap`, `OverlapOwner`, `SaveSkipped`, `MarkRunning`, `Resume`/`ResumeRefused`, `Reread`, `Settle` |
| `_try_resume` | `Resume`/`ResumeRefused` (one transaction: lease and mark are one step, unlike in `run_tick`) |
| `run_batch` | `Begin` (recovery), `Claim`, `Commit`, `FinishBatch` |
| `_execute_owned` | `LoseLease` (StaleRun), `Fault` then `Count` (any other exception), `Close` |
| `_save_closure`, `_execute_and_close` | `Close`, `Refresh`, `Release` |
| process and container | `Crash`, `ProcessExit`, `LostConnection`; `Tick` is time, `Admit` the web process |

Abstractions. The hour's trigger key is the slot number. Of an attempt only its position,
token and fate are kept: `open`, `cut` (closed as "interrupted" by a recovery) and `ledger`
(classified). Time is counted in ticks; `MaxLag` is how old the `now` of a transaction may
be when its row lock is granted. A queued request may expire at any scan, because
`QUEUE_TTL` (5 minutes) is shorter than a tick. `LoseLease` reads the counters in the same
step as it finds the token stale: nothing this instance could still write changes them in
between, and what another instance writes is told apart by the run's own token at `Close`.
In the code an open attempt whose candidate was set to `processed` by manual ingest is not
closed by recovery; that corner is in `Batch`.

### `Batch`

A worker is one thread from its lookup of a run to its closing; `wk[w]` holds its local
variables and the transaction it is about to run.

| code | actions |
|---|---|
| `run_tick`, `run_manual` | `Begin` (the row as it is then, not frozen), `Acquire` or `Overlap`, `MarkRunning` |
| `_try_resume` | `Resume`: the row is read again, the lease taken and the row marked in one transaction |
| `run_batch` | `Recover`; `TakeUp`, `Legacy` or `Select`; `ReadListing`, `ListingFails`, `Insert`, `InsertClashes`; `Freeze`, `FreezeClashes` |
| `_process_batch`, `process_candidate` | `Skip`, `Claim`, `CommitSuccess`, `CommitFailure`, `FinishBatch` |
| `_execute_owned`, `_save_closure` | `LoseLease`, `Fault` then `Abort`, `Close`; `Crash` is the process |
| people | `ManualIngest`, `OperatorEdit` |

`run_tick` and `run_manual` go on with the row they read before they asked for the lease, and
`run_batch` asks that row, not the table, whether the batch is frozen (`selector.py:124`). When
two processes overlap, a worker can so be granted the lease after another one has frozen, worked
and closed the same run. It then closes a run that has attempts as `legacy_batch_unavailable`
(`Legacy`, `selector.py:132-142`), or selects a second batch, whose rows meet the positions of
the first in the table (`Clashes`): the freeze is rolled back, and the run closed anew. Only
beside a batch that is empty, or with one, does it succeed. `BatchStaysFrozen` says
what is left of PS-INV-04 then, and `SucceededIsDone` speaks of the batch the worker took up.
`_append_candidates` is two steps (read, insert)
because `manual_ingest` may commit between its query of `source_order` and its inserts;
the unique constraints then abort it (`InsertClashes`). `ListingFails` stands for a failed
fetch and for each limit of the scan (page count, time, repeated or empty page): all set
the error and save nothing. `OperatorEdit` is the hand edit of state and counter the
comment at `selector.py:61` and `tests/test_processing_ownership.py:97` are about. The catalogue writes inside a commit are `Catalogue`'s.

### `ReviewCollection`

`jobs`, `fetches`, `seen`, `head` and `corpora` are the tables; `wk[w]` is a worker's claim
and, between `Decide` and `Commit`, what its open transaction has written. Splitting
`_commit_page` in two shows what the row locks are for: `Decide` reads committed rows only,
so without the lock on the game two last pages would each miss the other's end.

| code | actions |
|---|---|
| `claim_next_job`, `_recover_stale_leases` | `Claim`, `ClaimNothing` (recovery and claim are one transaction) |
| `collect_one_page`, first transaction | `StartFetch` |
| `_commit_page`, `corpus.build`, `ensure_job` | `Decide` then `Commit`; `Superseded` when the claim is lost |
| `ensure_jobs`, by `process_candidate` or `manual_ingest` | `Process`: the candidate of a day and the jobs that are not there yet |
| `process_candidate` that saves a failure over a success (`runner.py:85-88`) | `SetBack` |
| the worker process, its lease | `Crash`, `Expire`, `ExpireLost` |
| the source | `SourceChanges`: each route goes through the snapshots of `Source[r]` |

A review is an identity with a version; its text, labels and stored `supersedes` link are
left out. The fingerprint of a page is the sequence of its identities. `live` says that
`lease_expires_at` is not past. `_commit_page` compares it with a time read before it waits
for its locks, so `Decide` does not require it. `available_at` only decides whether a
retryable job is due, which is left open. `Process` is enabled while no page of the game is
being committed, because the core upsert writes the row of the game first; `SetBack` holds no
lock of the game. The set of routes is fixed; the command that refreshes summaries is left out.

A hand-off can be lost. `collection_state` looks at the latest day whose candidate is
`processed` (`snapshots.py:40`), and a failure may be saved over a candidate that a manual ingest
made `processed`. Routes of that day that end before it is processed again build nothing, since
`collection_state` points at an older day; and `ensure_jobs` (`enrollment.py:18`), when it
is, finds their jobs and does not build either. A corpus then comes
with the next day whose collection is complete. `cand[d]` therefore remembers that a day was set back, and `HandedOff` asks
for the hand-off of the latest day unless it was; `CorpusOfOneCohort` holds through all of it.

### `Summaries`

| code | actions |
|---|---|
| `orchestration/jobs.claim_next` | `ClaimedSummary`, `ClaimedReview`, `ClaimedNothing`: the turn, the recovery of stale jobs and the claim are one transaction |
| `process_job`, first transaction | `NotAdmitted` (claim lost), `ByTheRule` (too few reviews), `LocalFailure` (no key, the request does not fit), `Delayed` (quota), `Admitted` (the attempt and its reservation are stored before the request is sent) |
| the request and the second transaction | `AnswerFails`, `AnswerServes`, `AnswerDropped` (a late answer is stored with its attempt but publishes nothing) |
| process, lease, windows | `Crash`, `Tick` |

States that nothing distinguishes are merged: "waiting" is `pending`, `retryable` and
`delayed_capacity`; "served" is `succeeded` and `insufficient_data`. `Blocks` translates
`quota._blocks` window by window, including its treatment of the latest answer's headers
(`hold`). The tokens an answer really used are below its reservation (`SummaryAnswer.SentFits`),
so the model counts what was reserved.

### `LetsPlays`

`claim`, `_search`, `_hear`, `_listen` and `_conclude` are steps of a worker between one
external call and the next: `Admit...` is a transaction of the budget, the action after it
the call's answer with the transaction that records it. `stamp` is the identity of a value of
`available_at`, which is the only proof of ownership. `since` is how long ago the clock of an
admission was read before the advisory lock was granted. `_later` at `worker.py:149` and
`worker.py:397` is called without the ownership check every other save makes; the
model does the same and `LostClaimOnlyDelays` states what survives: such a step may take the
game from its present owner, and never changes what the game went through. `LookForNew` and
`Enrol` are two steps because `_next_game` runs after the check that nothing is under way
(`worker.py:82`). Branches the state rules out (a transcript missing while concluding) are
left out, and so is the text of everything.

### `Admission`, `Login`, `Observation`

`Admission`: `Arrive` reads the clock, `Admit` is the transaction that holds the
`TriggerAdmission` row. The lease of the scheduler moves freely. Two boundaries follow from the
code and are said where they are stated: the hourly `Retry-After` is a tick short, because
`created_at >= now - hour` still counts the first instant of the window; and a POST that
waited computes with its old `now`. `Login`: `Check` counts without a lock, so the bound has a
term for the callers that are judged at the same time. `Observation`: `Start` ... `Dies` are
the life of a process, `Register`, `Publish` and `LastWord` its heartbeats; a connection lost
at commit leaves both outcomes open. The monitoring page's `process_state` is `Shown`.

### `Catalogue`, `SimilarIndex`, `Similarity`

`Catalogue`: `Begin` is what a transaction reads before its first write locks the game,
`Discover` and `Apply` are the rest of `resolve_game_identity` and of `apply_game_dto`. Genres
stand for every merged field of a game. The split shows that the merged fields of a *game* can
suffer a lost update (`_resolve_game` reads the row without a lock, `ingest.py:67`, and saves
all of it), which is why `NothingIsLost` speaks of platforms only: they are read under the
row lock the save of the game takes. `ListedGames` and `Page` are the queries of the list;
A page's platforms
are written one by one in its order, each judged by the rows as the earlier ones left them
(`PlatformConflict`), in a transaction that keeps all or nothing. `Page` sends numbers below 1 to the last page, as Django's `get_page` does (the docstring at
`queries.py:240` names the first page for invalid numbers, which is so for what is no number).
The order of a list is said by the place of each game in it.

`SimilarIndex`: the maintainer's steps between its queries, beside saves whose commits may
come in another order than their `updated_at`. The signature can then miss a save; the full
check every `FULL_CHECK_SECONDS` is what makes `IndexCatchesUp` hold. One maintainer is
modelled: two at once, in a deploy, could leave rows that look current and miss a game.
`Similarity`: the fused scores are inputs, each where the code reads it (of labels only for
pairs that descriptions do not rank); policy, order, cut-off and what the page shows of the
rows are the model.

### `Gateway`

`_attempt` is `Opens` and `Answers` (the operations of the client up to the head of the answer, each
with the client's timeout), `Reads`, `BodyEnds`, `HttpError`; `Parse` is the parser and what the
gateway makes of its verdict. How many reads a head takes is the source's choice, and nothing
looks at the deadline before the first chunk: `MaxOpening` bounds the exploration only, the theorem
has it arbitrary, and `CallsEnd` counts the heads apart (`head`, `heads`). A body is counted in chunks of 64 KiB and a chunk in reads,
because size and time are judged after a chunk is full (`gateway.py:72-76`): a body that
trickles is bounded by the reads of a chunk, not by the deadline, and `CallsEnd` states the
bound that really holds from the head on: the deadline, or the first chunk if the head alone
took longer. Left out: `_validate_review_url` raises `MetacriticFetchError`
(`gateway.py:105-110`), and `urlsplit` may raise `ValueError` in a parser; neither is
caught as a parse error, the run's handling of unexpected exceptions (`Scheduler.Fault`) is
what meets them.

### `ReviewSelection`, `SummaryAnswer`, `LetsPlayChoice`, `Conclusion`, `Similarity`

Sequential code: an action chooses the input, others compute, and the property compares with a
definition that is written independently. What the code sorts is the set of its members, each
with its place in the order: `Shortlisted` (by views), `Turns` and `First` (in turns across
platforms, by hash within one). Texts are sequences of numbers, orders by hash are arbitrary
orders (`Hashes`). `LetsPlayChoice`: the videos of the shortlist are heard one after another
(`Listen`). A game that its video's title names is looked for by any of its words, which may be
spoken as two (`Compound`, `selection.py:136-142`); `Touched` says so place by place. `speech_names_game` takes the first place of
each word (`selection.py:121-132`), so a name of three or more words may be missed although
the docstring (`selection.py:116`) describes it; the property asks for equality
with the described form for names of at most two words, and for soundness always. A name of
digits only is never recognised once the title has it (`selection.py:142`). `Conclusion`: a
round of each loop is an action (`NextSentence`, `CutPiece`, `Join`, `Segmented` of `segment`,
`Drop` and `Prepared` of `prepare`); what is sent of a transcript is a prefix in segments; dropping `excess // 30` segments at a time can
overshoot if segments take more than 30 tokens, hence the condition in `BeginningIsSent`. An
answer whose `status` or `segment` is unhashable raises `TypeError` (`conclusion.py:228`, `251`,
while `contour.py:168` guards against it); the model has no such answer.

### `Cards`

A page is read row after row in autocommit (`Ask`, `ReadJobs`, `ReadHead`, `ReadOrder`,
`ReadOlder`, `ReadPlay`, `ReadVerdict`); the writers are sketches of the modules that own the
rows, each committing together what its module commits together. A card without a warning may
pair a head that was current at one moment with a summary that was finished a moment later;
`OkWasCurrent` says what is left of "current".

### `Evaluation`

`Start`, `NextCase`, `Call`, `Interrupt`, `Kill` are the loop of `run_groq_eval` with
its saves of `run.json`; `Create`, `Finalize`, `Verified` are `score_run`; `EditRows`, `EditCard`,
`Discard`, `EditRun` are what a person may do to the two files. `Interrupt` lands anywhere, also
between `results.append` and each of the totals (`TakenIn`): such a file has the status "running",
and no card is made of it before somebody edits that. `run.json` may be edited before there is a card: then nothing in
`score_run` can tell it from a true one, nor afterwards if the card is given the hash of
the edited file. `mended` and `forged` remember either, and `VerifiedIsEarned` says what holds
whatever was edited (scores, blockers, the verdict) and what holds otherwise (the answers). `--finalize` may say PASS for scores that were set to "N/A" by hand; only
`--verify` refuses them, which is what `VerifiedIsEarned` is about.

## 3. Runs

| run | asks | bounds, and why they are enough |
|---|---|---|
| `SchedulerOverlap` | type, tokens, one decision per position, order of work, refinement of `FencedWork` | two processes with three threads, one of them a dispatcher; one hour and one request so that every pair of threads meets on one run or on the lease; two grants (an overtaken and an overtaking instance), a `now` one tick late, one unexpected exception |
| `SchedulerDeploy` | counters, request outcomes, closed runs stay closed | the documented deployment of one process, both threads, two hours, eight grants (more than a behaviour with one crash needs), a crash anywhere |
| `SchedulerAnswers` | each request is answered | as above with one hour, under `FairSpec` |
| `SchedulerReopen` | (violated) closed runs stay closed | two tick threads |
| `SchedulerLostRun` | (violated) a lost run is closed | one thread, two hours, one crash |
| `SchedulerPolls` | (violated) the dispatcher keeps polling | one dispatcher, one exception |
| `BatchDay` | attempts, one attempt per run, nothing stranded, cursor, freeze, success is final, verdict | two workers, two runs, so that both may go by a row of the same run, three games on overlapping listings, a batch of two so that a page fits only in part, two attempts so that the last one is reached, three grants, one crash, exception, failing listing or hand edit |
| `BatchVerdict` | (violated) `succeeded` means all processed | one worker, three runs, a batch of one |
| `ReviewDay` | pages in order, attempts, current claims, clean completion, terminal states | two workers; a route of two pages that meets every verdict (repeated identity, changed total within and beyond the restarts, edited review, mismatch of counts), beside one of a single page so that last pages meet; two attempts, one restart, one crash or expired lease. The same run with two faults is larger but shows the same |
| `ReviewDays` | one day's cohort, hand-off, every job ends | two days, two routes of one page (one complete, one empty), one attempt, no restart, one crash, expired lease or candidate that is set back |
| `SummaryDay` | quota, open attempts, publication, every job ends | two workers, two jobs of different cost, a short and a long window that each fill up, two attempts, one crash, stall or local error: enough for a takeover while a request is under way and for a retry that the quota delays |
| `Parts` | the fourteen parts below | see there |

The instances of `MCParts`; a property of `Parts` is the conjunction of what one or two parts keep:

| part | property | bounds |
|---|---|---|
| let's plays | `BudgetKept`, `StateIsEarned`, `LostClaimOnlyDelays` | two workers, one game (ownership and the ledger are what they share), one Whisper call in a window of two ticks, by its units, one audio a tick, clock one tick late, one crash or stall, two candidates; a search is stopped by YouTube's refusal only |
| admission, login | `OperatorsKept` | two operators, three ids, two POSTs, a window of three ticks with a limit of two; two users, one address, two callers |
| observation | `ObservationKept` | two processes of a role, two faults: a delayed old process beside its successor |
| catalogue | `CatalogueKept` | two writers, games and locators, so that every identity conflict occurs; two platforms a page may list, in either order; pages of one game |
| index, similarity | `SimilarKept` | two games that may say the same, three saves, one fault; three games, of which any may lack a description |
| gateway | `GatewayKept` | two attempts, heads of up to two reads, bodies of up to three chunks of two reads, a deadline of one tick, pages of one entry |
| selection, choice | `SelectionKept` | two identities on two platforms; two videos, speech of five words, names of up to three, one word that may be spoken as two |
| summary, conclusion | `AnswersKept` | lists one longer than allowed, three sentences of 1, 3 or 5 words |
| cards | `CardsKept` | one route, two contents, contours and days, five writes |
| evaluation | `EvaluationKept` | two cases of different kinds, two dimensions of which one is critical, one retry, two edits |

Workers, POSTs, callers and writers are the same interchangeable names (`SYMMETRY Names`;
`Parts` has no liveness property).

Deadlock is not checked: requests, hours and grants are finite, so each model may stop.
`MaxGrants`, `MaxCrashes`, `MaxFaults`, `MaxSlot`, `NumRequests`, `MaxDay` only bound the
exploration; `MaxAttempts`, `MaxRestarts`, `Limit` are constants of the code, made small.

What the passing runs show. Among overlapping instances the token check alone decides who
may write: with it no position is decided twice and work follows the order of the grants,
even when a transaction compares expiry with an old clock. With one process the rows tell
the truth: closed runs stay closed, counters are outcomes, requests carry the outcome of
their own run, and they get one even across a crash. Within a day no interleaving of crash,
takeover, failing source, manual ingest and hand edit exceeds the attempts, strands an item
or lets the cursor pass an unsaved identity. A route of reviews is called complete only with as
many different reviews as the source reported, each page accepted once, whoever died or was
late; when the routes of the latest day are done, in any order, the corpus is theirs alone and its
summary is asked for, unless a late failure had set the day back (section 2).

What the violated ones show. Four places where a document, a comment or a docstring
promises more than the code does; each is quoted under "findings". `SchedulerReopen`: the
lease is acquired in one transaction and the run marked in another by an unguarded save.
`SchedulerLostRun`: recovery repairs items, never the run row of a process that died.
`SchedulerPolls`: only `DatabaseError` is survived by the poll loop. `BatchVerdict`: the
verdict of a resumed run counts only its own attempts.

**Fairness.** `FairSpec` assumes weak fairness of each thread's next step (the operating
system schedules threads, locks are granted, requests to the source time out), of the
restart of a process whose main thread ended (`restart: unless-stopped` in
`compose.yaml`) and of time. Crashes, faults and requests are never obliged to happen, and
nothing is assumed of the answers of the source. `ReviewCollection` assumes less: that
something happens while some worker can go on or the lease of a lost claim has not run out.
`Summaries` assumes weak fairness of each worker's step (a worker polls for ever and is
restarted, a request has a timeout) and of time; with it the turn of the dispatch is enough
for every job to end although a review page is always due.

## 4. Proofs

`Scheduler_proofs` proves, for any number of processes, threads, hours, requests, items and
grants, from `SchedulerAssumption` alone (finite item set, `MaxLag < TTL`, naturals):

| theorem | states |
|---|---|
| `TypeCorrect` | `Spec => []TypeOK` |
| `TokensUnique` | `Spec => []TokensAreUnique` |
| `DecisionsUnique` | `Spec => []DecidedOnce` |
| `FencedOrderHolds` | `Spec => FencedOrder` |
| `SchedulerIsFenced` | `Spec => Fenced`, the refinement of `FencedWork` |

The inductive invariant is `IInv`. `DecidedOnce` alone is not inductive: a commit adds a
decision, so one must know that the attempt it closes is undecided. That is
`OpenIsUndecided`, provided the attempt is open: `FetchIsOpen`, which holds only for the
thread with the latest token, which is why the commit's token check matters. A claim adds an
open attempt, undecided because `Claim` chooses an undecided position; no second open
attempt for it can exist, since all open attempts carry the latest token (`OpenIsOurs`,
established by recovery) and two threads never carry the same (`TokensAreUnique`).
`LedgerTokens` (no outcome above the current grant) gives the order. `KeyKnown` says a thread
past its lookup works for a run, which the typing of outcomes needs. `SchedulerOverlap` was
also run with `IInv` as its invariant.

### One thread that ticks, one that dispatches

What the documented deployment adds is proved under `OneOfEach` (at most one thread of each
kind; `SchedulerReopen` is what two ticking threads do to it), for any number of hours,
requests, items, faults, crashes and grants:

| theorem | states |
|---|---|
| `CountersHold` | `Spec => []CountersMatchOutcomes` |
| `RequestsTold` | `Spec => []RequestTellsItsRun` |
| `FinishedStays` | `Spec => FinishedStaysFinished` |

The invariant is `AloneInv`. The keys of scheduled runs are the ticking thread's and those of
manual runs the dispatcher's (`OwnKeys`), so two threads never act on one row, although they
take the lease from each other. Hence what a thread read of its row is still so at each of its
statements (`RowAtStep`): queued until it is marked, running under the thread's token until it
is closed, closed afterwards. The counters a thread is about to write are its run's outcomes
(`CountersAtClose`): nobody else has added one since they were read. A run that never started
has none (`Unworked`), and a request ends after its run, with a state that fits it
(`RequestAndRun`).

### Batch, review collection, summaries, let's plays

Each of these modules has an inductive invariant `IInv` too, and a theorem that it holds
(`InvariantHolds`) from which the others follow. They hold for any number of workers, of
crashes and of stalls, whatever the source or the provider answers.

| module | theorem | states |
|---|---|---|
| `Batch_proofs` | `AttemptBudgetHolds`, `OncePerRunHolds`, `NothingStrandedHolds`, `CursorKeepsUpHolds`, `SuccessIsFinalHolds` | `Spec => []` of the invariant each is named after |
| | `BatchStaysFrozenHolds`, `SucceededIsDoneHolds` | `Spec =>` the action property each is named after |
| `ReviewCollection_proofs` | `TypeCorrect` | the rows hold what their columns may hold; restarts are bounded |
| | `PagesInOrderHolds`, `PageAttemptsBoundedHolds`, `StartedIsCurrentHolds` | `Spec => []` of the invariant |
| | `TerminalStaysHolds` | `Spec => TerminalStays` |
| | `CompleteIsCleanHolds`, `CorpusOfOneCohortHolds` | `Spec => []` of the invariant |
| | `HandedOffHolds` | `Spec => []HandedOff`, if there is a route |
| `Summaries_proofs` | `OpenIsCurrentHolds`, `PublishedIsEarnedHolds`, `QuotaKeptHolds` | `Spec => []` of the invariant |
| `LetsPlays_proofs` | `StateIsEarnedHolds`, `BudgetKeptHolds` | `Spec => []` of the invariant |
| | `LostClaimDelays` | `Spec => LostClaimOnlyDelays` |

**`Batch`.** What a worker does is right only while it is the one the lease was granted to
last, and a worker that is not cannot write, because each write checks its token. So the
invariant says two things of a worker: what holds at its place in the code whoever has the
lease (`InPlace`), and what holds besides while its token is the current one (`InCharge`: the
cursor it read is the cursor stored, the only open attempt with its token is its own,
nothing else is in `processing` once it has recovered). Of the row of its run it says nothing: a
worker may be in charge of a run another one has frozen or closed. A grant keeps
this because its token is new (`TokensApart`) and its first write to candidates is the recovery. `Numbered` (the attempts
at a candidate are 1, 2, ... and the counter never exceeds them) is what keeps a hand-edited
counter from repeating a number; `OpenIsBusy` is what makes a success the last attempt.
`BatchAssumption`: finitely many games, limits of at least one, pages of SEE ALL that are
not empty and differ, at least one page, and the values that stand for "none" are not runs
or games. Nothing is assumed of the number of workers or runs.

`SucceededIsDone` is about one moment, but its proof follows a batch from the freeze on
(`DInv`): while a worker goes through it, every item of the batch is still left, or being
fetched by this worker, or resolved (`Resolved`), that is, processed and fetched by nobody,
out of attempts, or tried by this very run. A worker that resumes a run takes the batch from
the row and skips what is resolved. The verdict looks at the run's own latest attempts, so
with it an item the run has tried is done too, or the run is not called succeeded; a
candidate marked `failed`, by whomever, is out of attempts (`FailedIsSpent`). `BatchStaysFrozen`
rests on `AttemptsBatched`, that a run has attempted only items of the batch in its row: a worker
goes through a batch it froze itself or read frozen, each of which is in the row and stays there,
for a row that has items takes no others.

**`ReviewCollection`.** A claim has a token no other claim of the job has had, and a token
stands for at most one call (`ClaimsApart`, `CallsOfClaims`), so that a late page cannot be
taken for the page of a later claim. Between `Decide` and `Commit` the transaction holds the
lock of the game, and what it is about to write was computed from the row as it still is
(`DecidedUnderLock`): without it a page could be written over a claim or a day that has
changed in between. A day has jobs exactly if it has a candidate (`JobsOfCandidates`). `CollectionAssumption`: every route has a
snapshot and every snapshot a page, the limits are positive, and "nobody" is not a worker.

The corpus needs a larger invariant, `CInv`. The counters of a row count the observations of
its generation (`JobsFit`), each of which came with a call that was accepted (`SeenOfCalls`),
so that an equality of counters at the last page is one of sets. A decision that is not
committed yet brings observations of its own claim only, and a corpus exactly when it makes
the cohort of its day whole (`DecisionsFit`); that this is still so at the commit is the work
of the lock on the game. So two last pages are never decided each without the other, and the
second one builds the corpus. A candidate that is set back meanwhile only makes the day one of
which `HandedOff` asks nothing, so its step needs no lock. `HandedOffHolds` assumes a route, because the day of a game
without any would be complete from the start with nothing to build its corpus; in the code
such a game has no jobs.

**`Summaries`.** `OpenIsCurrent` is about the rows, but what keeps it is what workers know:
a worker that has asked, or is about to, finds the claim its own only if no other worker has
the same token for the job (`TokensApart`, from `NewTokenIsNew`: among the numbers to choose
from there is one that neither the job nor a worker on it has), and then no attempt of the
job is open but the one it made (`Works`). In most steps a job keeps its claim and its open
attempt or loses both, and one lemma, `QuietIsSafe`, covers them; admission and
publication are the others. The numbers of workers and of tokens a claim is chosen from are
finite (`SummariesAssumption`).

The quota (`QInv`) is disturbed by an admission only, which has counted all that a window
holds: time only takes attempts out of it (`Ageing`). A request that may be under way is the
last one (`YoungIsLast`), because none is admitted while it is. Sums are handled by `Sums`: a
sum of naturals is the number of its cells, so that what is known of cardinalities is known of
sums. The lease of a job is assumed no longer than the longest window, a day; it is minutes.

**`LetsPlays`.** Ownership is proved by `available_at` alone, so the proof needs that a save
sets a value no other worker on the game has (`NewStampIsNew`, counted as above). Then what
a worker knows of its game, that the candidate it listens to is the first that was not
heard (`NextIsHeard`), is true whenever it may save; `_later`, which does not check, cannot
touch what `Earned` speaks of. The number of workers is finite (`LetsPlaysAssumption`);
leases, limits, windows and clock lag are any.

`BudgetKept` is proved of a ledger that counts calls by their age (`BInv`). A tick makes each
window one that ended a tick earlier. A call admitted by an old clock is recorded at the age of
that clock, and every window it falls into lies within what was counted, because the
count goes on to the present and not to that clock. The limits are finitely many.

### The parts

The properties of the run `Parts` are proved one by one, each of the specification of its
part, for any values of the constants that fit the part's settings. Those are hypotheses of
the theorems (`AdmSettings`, `LoginSettings`, ... before the proofs of each part). They say that
a limit is a natural number, that what is counted or sorted is finite, that the value for
"none" is none of the others, and what is named below; the instances of `Parts` fit them.

| module | theorem | states |
|---|---|---|
| `Operators_proofs` | `OperatorsHold` | `Adm!Spec /\ Log!Spec => []OperatorsKept`, from `AdmissionHolds` and `ThrottleHolds` |
| | `CardsHold` | `Car!Spec => []CardsKept` |
| | `EvaluationHolds` | `Eva!Spec => []EvaluationKept` |
| `Upkeep_proofs` | `ObservationHolds` | `Obs!Spec => []ObservationKept` |
| | `CatalogueHolds` | `Cat!Spec => CatalogueKept`, invariants and the action property `NothingIsLost` |
| | `SimilarHolds` | `Ind!Spec /\ Sim!Spec => []SimilarKept`, from `IndexHolds` and `SimHolds` |
| | `GatewayHolds` | `Gat!Spec => []GatewayKept` |
| `LetsPlays_proofs` | `SelectionHolds` | `Sel!Spec /\ Cho!Spec => []SelectionKept`, from `ReviewSelectionHolds` and `LetsPlayChoiceHolds` |
| `Summaries_proofs` | `AnswersHold` | `Ans!Spec /\ Con!Spec => []AnswersKept`, from `SummaryAnswerHolds` and `ConclusionHolds` |

**`Login`.** That no window holds more failures than the limit plus the other callers is not
inductive: those being judged would come on top. `LInv` counts them in: once a fingerprint is
throttled, its failures and the requests being judged against it stay within the bound
together (`Full`), since nobody new is let in, and a failure only moves a request from the one
to the other. Assumed: finitely many callers, at least one attempt.

**`Admission`.** A POST is refused that comes, by its own clock, within the cooldown of any
stored request, also of those stored while it waited (`NotTooSoon`: the latest of the recent
ones speaks for all, because a cooldown is assumed no longer than the hour, and is minutes).
Admitted ones therefore come after all others, and the hour that ends with a new one holds
what was counted and itself. `Retry-After` is arithmetic on that: whoever waits for it finds
the same latest request, or an hour without the earliest (`CooldownHonest`, `HourHonest`). An
id has one row (`KeysApart`). Assumed besides: a cooldown and an hourly limit of at least one.

**`Observation`.** `OInv` says of each process what its heartbeats can still do. The latest
generation belongs to the instance in the row, unless that registered without learning it
(`Numbered`), so the filter of `publish` finds the row of nobody else; who ends without having
been told to has an older generation than the row for good (`Outdated`), so its last word
changes nothing. The row of a dead process ages with it (`Silent`). For a process alone in its
role, either little has passed since the last failure, or it has the row and published since
its wait began (`AtWork`): an interval ago at most, which is assumed no longer than
`STALE_SECONDS` (one second and three).

**`Cards`.** `CarInv` is what the writers keep of the rows (a corpus is of a collection that was
complete, so its jobs have not changed since; an order succeeded exactly when its summary is
there; a finished let's play has its conclusion) and what a page knows from one read to the
next (`PageInv`). While a page is read the rows only move on (`Onward`): days and summaries are
not taken back, and a head is replaced by none that is not current. So the corpus a page
finds was current at some moment since it was asked for (`SeenCurrent`), even if its
order is read after the next day has begun. The second half (`Undisturbed`) holds while nobody
writes and gives that a warning then has a cause.

**`Evaluation`.** Between two saves the manifest is a prefix of the answers, with its totals
(`EvaTold`: sums over a sequence that grows; of an interrupted one they may lack the last result),
and counts all requests but those of the call under way. Until `run.json` is edited a scorecard is
of the answers that came, and unless it is `forged` the run whose hash it has is that one. The proof refuted a stronger conjunct that the small run had not: two open scores
that are exchanged by hand after `--finalize` keep their sum and verify. What the code compares
is the aggregate (`score_run.py`), and `VerifiedIsEarned` says no more.

**`Catalogue`.** What a writer read before it locked the game may be old; the invariant says
it is consistent (`ReadIsConsistent`): a merged value is what its recorded source supplied, and a locator
that was bound is bound to that game still, since none is ever bound anew. So whichever
row it then saves pairs value and source, and the identity it checked under the lock is the one it
saves. `PagesPartition` follows from `Orders`: in a strict order the places of *n* games are
1 ... *n*, so each is on the one page its place falls into, whatever the page size.

**`SimilarIndex`, `Similarity`.** That the index catches up within `Settles` of the last commit
is a bound on time, so the invariant says how much is left (`InTime`): until the rows fit
the texts, the moments since the last commit and those to the next check are together fewer than
`Settles`, and either the next check rebuilds without asking the signature or no more time has
passed than since the last check in full. A signature that looks settled can therefore be wrong,
but not for longer. The rows never know a game that is gone (`RowsOf`, `KnownIn`). Assumed: a
failure is slept off before a check in full would be due. The ranking is right by its order on
score and number (`RowIsRight`), which no two games share.

**`Gateway`.** The time of an attempt is bounded, once its head is there, by the reads of the chunk
at hand (`GatReading`: each took an operation at most, and before the chunk either the deadline was
not over or the head alone had taken longer), that of the call by a sum over the attempts, the
pauses before them and the heads. What the evidence tells is fixed by
the step that ends the attempt (`GatTold`). Assumed: a pause for each attempt but the last.

**`ReviewSelection`.** Of each group of equal reviews the one with the smallest key stands for
it (`SelOneOfEach`), so as many are eligible as there are different ones. `Before` is a strict
order on the turns of the representatives (`SelTurnOrder`), so that `First(T, n)` has *n*
elements or all of *T* (`SelFirst`), and counting gives `SelectionIsFair`. For `PlatformsShare`: if a
platform has a review left, all that was chosen beyond the reserved comes before the turn of that
review, hence one of each of its earlier turns. For `EditsDoNotSteer`: the edited text is in a group
of its own, so no key, group or turn changes (`SelEdits`). Assumed: different keys have different
hashes (they are SHA-256 digests), and both reserved shares fit (`MIN_PER_SENTIMENT_SIDE`
is 3, `MAX_SELECTED_REVIEWS` 10).

**`LetsPlayChoice`.** The video heard *n*-th is at place *n* of the shortlist, and all before it
were turned down. That `SpeechNamesGame` finds only what is there (`Follows` implies `InOrder`)
holds for names of any length; the converse is proved for up to two words, where the first place
of the second word in a window is as good as another. It fails for three.

**`SummaryAnswer`, `Conclusion`.** A summary is settled by the step that makes it, so its
properties are about sequences: a list cut to `MaxItems` is a prefix, and what
was valid of the cut list is valid of what is published. The transcript is cut by loops, and the
invariant of `segment` is `Cutting`: the segments follow each other from the first word
on, none longer than `SegmentMax`, and what waits (`current`, then `sentence`) continues
them. `Sendable` is that of `prepare`: each round drops segments from the end and never more than
the excess asks for, if no segment takes more tokens than the guess. Quotes are segments, so
words in one piece, and two are different because the segments do not overlap.

### Only model-checked

- Liveness: `RequestSettles`, `JobsEnd` and `JobsSettle`, which are properties under fairness.
- `Batch.TypeOK` (`BatchDay` was also run with it; what the proofs need of types is
  `Stored` and `Working`).

Every other property of a passing run is stated by a theorem. The theorems about the parts
take their settings as hypotheses, in the theorem and not as an `ASSUME` of a module, because the
modules of theorems are not part of a run.

## 5. Not modelled

- Monitoring counts, diagnostics and the storage report; views other than those above: they
  read and format, one query each, and decide nothing.
- Configuration, migrations, models without behaviour: declarations.
- Deployment, scripts, research material, the other evaluations: offline, and not
  part of the running program.
- `letsplays/youtube.py` beyond facts and captions (download and cutting of audio), the
  arithmetic of embeddings and fused scores, truncation and wording of reviews: data that no
  property tells apart.
- The command that refreshes summaries.

`PROJECT.json` gives the status of each component.

## 6. Plan

1. An abstract specification of a collected route (pages of one generation in order, one
   outcome), implemented by `ReviewCollection`.
2. `Cards` composed with `ReviewCollection` and `Summaries` in place of its sketches.
