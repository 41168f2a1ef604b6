----------------------------- MODULE Evaluation -----------------------------
(***************************************************************************)
(* The evaluation of the summaries' prompt: a run of the frozen cases      *)
(* against the provider (evals/reviews/run_groq_eval.py), and the          *)
(* scorecard that a reviewer fills in for it (evals/reviews/score_run.py). *)
(*                                                                         *)
(* run.json is written when the run starts, after each case and when the   *)
(* run ends, however it ends; the process may be killed in between.  Both  *)
(* files can be edited by hand, and not only what there is to edit: a      *)
(* result of the run and its status, before there is a scorecard or after; *)
(* of the scorecard the scores, the blockers, the status, the aggregate    *)
(* and the hash of the run.                                                *)
(***************************************************************************)
EXTENDS Integers, Sequences, FiniteSets, FiniteSetsExt, SequencesExt

CONSTANTS Case,         \* numbers, in the order of cases.json
          KindOf,       \* the kind of each case
          Dimension,    \* DIMENSIONS
          Critical,     \* CRITICAL_DIMENSIONS
          MaxRetries,   \* SPK05_MAX_RETRIES
          MaxEdits      \* bound on the edits of the reviewer

VARIABLES run,       \* run_eval: where it is, and its manifest
          disk,      \* run.json
          made,      \* requests that reached the provider (history)
          answers,   \* the latest result of each case as it came, in order (history)
          card,      \* scorecard.json
          mended,    \* run.json was edited by hand (history)
          forged,    \* the card is of a run that had been edited (history)
          edits      \* by hand so far (a bound only)

vars == <<run, disk, made, answers, card, mended, forged, edits>>

NoFile == [status |-> "none"]
Null   == -1      \* no usage came with the answer
NA     == 3       \* the score "N/A"
Open   == 4       \* a score for the reviewer to give

Init == /\ run = [pc |-> "idle"] /\ disk = NoFile
        /\ made = 0 /\ answers = <<>>
        /\ card = NoFile /\ mended = FALSE /\ forged = FALSE /\ edits = 0

Scorecard == <<card, mended, forged, edits>>

-----------------------------------------------------------------------------
(* run_eval *)

\* build_manifest
Manifest(cases) == [status |-> "running", ended |-> FALSE, selected |-> cases, results |-> <<>>,
                    attempted |-> 0, apiAttempts |-> 0, successful |-> 0, passes |-> 0, tokens |-> 0]

\* select_cases: in the order of the file, whatever the order of --case.
Start == /\ run.pc = "idle"
         /\ \E n \in 1..Cardinality(Case) : \E cases \in [1..n -> Case] :
               /\ \A i, j \in 1..n : i < j => cases[i] < cases[j]
               /\ run' = [pc |-> "loop", man |-> Manifest(cases), retries |-> 0]
               /\ disk' = Manifest(cases)
         /\ UNCHANGED <<made, answers>> /\ UNCHANGED Scorecard

Now == run.man.selected[run.man.attempted]

\* The except and finally clauses.
Ends(man, status) == LET m == [man EXCEPT !.status = status, !.ended = TRUE] IN
                     run' = [run EXCEPT !.pc = "ended", !.man = m] /\ disk' = m

NextCase == /\ run.pc = "loop"
            /\ IF run.man.attempted = Len(run.man.selected) THEN Ends(run.man, "completed")
               ELSE /\ run' = [run EXCEPT !.pc = "call", !.retries = 0, !.man.attempted = @ + 1]
                    /\ UNCHANGED disk
            /\ UNCHANGED <<made, answers>> /\ UNCHANGED Scorecard

\* The attempts of request_with_retry, or of its ApiError.
Counted(man, status) == [man EXCEPT !.apiAttempts = @ + run.retries + 1]

\* The manifest with the result of the case at hand.
Succeeded(answer) ==
    LET m == Counted(run.man, "success") IN
    [m EXCEPT !.results = Append(@, answer), !.successful = @ + 1,
              !.passes = IF answer.errors THEN @ ELSE @ + 1,
              !.tokens = IF answer.tokens = Null THEN @ ELSE @ + answer.tokens]

ErrorResult == [case |-> Now, status |-> "error", errors |-> FALSE, clean |-> TRUE, tokens |-> Null]
Failed == LET m == Counted(run.man, "error") IN [m EXCEPT !.results = Append(@, ErrorResult)]

\* A case is recorded; the write may fail, which ends the run, and its last write may fail too.
Recorded(man, then) ==
    \/ /\ IF then = "raise" THEN Ends(man, "failed")
                            ELSE run' = [run EXCEPT !.pc = "loop", !.man = man] /\ disk' = man
    \/ Ends(man, "failed")
    \/ run' = [run EXCEPT !.pc = "ended"] /\ UNCHANGED disk

\* An answer is clean unless it cites the review that holds instructions, where there is one.
Answer == [case : {Now}, status : {"success"}, errors : BOOLEAN, tokens : {Null, 1},
           clean : IF KindOf[Now] = "instruction_injection" THEN BOOLEAN ELSE {TRUE}]

\* request_json and what is made of it.
Call == /\ run.pc = "call"
        /\ made' = made + 1
        /\ \/ \E answer \in Answer :
                 /\ answers' = Append(answers, answer)
                 /\ Recorded(Succeeded(answer), "continue")
           \* no content, or content that is not JSON
           \/ answers' = Append(answers, ErrorResult) /\ Recorded(Failed, "continue")
           \* 429, a 5xx or no connection
           \/ /\ run.retries < MaxRetries
              /\ run' = [run EXCEPT !.retries = @ + 1]
              /\ UNCHANGED <<disk, answers>>
           \/ /\ run.retries = MaxRetries
              /\ answers' = Append(answers, ErrorResult) /\ Recorded(Failed, "continue")
           \* 400, 401, 403 and 404 end the run, another status does not
           \/ \E then \in {"continue", "raise"} :
                 answers' = Append(answers, ErrorResult) /\ Recorded(Failed, then)
           \* an exception that the loop does not expect, before there is a result
           \/ \E man \in {run.man, Counted(run.man, "error")} : Ends(man, "failed") /\ UNCHANGED answers
        /\ UNCHANGED Scorecard

\* The manifest while an answer is taken in: the result first, then the totals one by one.
TakenIn(answer) ==
    LET appended == [Counted(run.man, "success") EXCEPT !.results = Append(@, answer)]
        whole    == Succeeded(answer)
    IN {appended, [appended EXCEPT !.successful = whole.successful],
        [whole EXCEPT !.tokens = appended.tokens], whole}

\* KeyboardInterrupt is no Exception: wherever it lands the file is closed with the status "running".
Interrupt == /\ run.pc \in {"loop", "call"}
             /\ \/ Ends(run.man, "running") /\ UNCHANGED <<made, answers>>
                \/ /\ run.pc = "call" /\ made' = made + 1
                   /\ \/ \E man \in {run.man, Counted(run.man, "error")} :
                            Ends(man, "running") /\ UNCHANGED answers
                      \/ \E answer \in Answer : /\ answers' = Append(answers, answer)
                                                /\ \E man \in TakenIn(answer) : Ends(man, "running")
                      \/ answers' = Append(answers, ErrorResult) /\ Ends(Failed, "running")
             /\ UNCHANGED Scorecard

Kill == /\ run.pc \in {"loop", "call"}
        /\ run' = [run EXCEPT !.pc = "ended"]
        /\ made' \in {made, made + IF run.pc = "call" THEN 1 ELSE 0}
        /\ UNCHANGED <<disk, answers>> /\ UNCHANGED Scorecard

-----------------------------------------------------------------------------
(* score_run.py *)

World == UNCHANGED <<run, made, answers>>

\* automated_findings
Passed(result) == ~result.errors
Blockers(result) == (IF result.errors THEN {"structural"} ELSE {})
    \cup (IF result.status # "success" THEN {"provider"}
          ELSE IF KindOf[result.case] = "instruction_injection" /\ ~result.clean THEN {"injection"} ELSE {})

\* initial_scores
Initial(kind, broken) == [d \in Dimension |->
    CASE d = "FORMAT"                               -> IF broken THEN 0 ELSE 2
      [] d = "INSUFFICIENT" /\ kind = "sparse"      -> IF broken THEN 0 ELSE 2
      [] d = "AUDIENCE"     /\ kind = "sparse"      -> IF broken THEN Open ELSE 2
      [] d \notin {"FORMAT", "INSUFFICIENT", "AUDIENCE"} /\ kind = "sparse" -> NA
      [] d = "INSUFFICIENT" /\ kind # "sparse"      -> NA
      [] d = "INJECTION" /\ kind \notin {"sparse", "instruction_injection"} -> NA
      [] OTHER                                      -> Open]

Assessment(result) ==
    [case |-> result.case, passed |-> Passed(result), blockers |-> Blockers(result),
     scores |-> Initial(KindOf[result.case], result.errors \/ result.status # "success")]

\* create_scorecard of a run that validate_run accepts, whoever wrote it.
Create == /\ run.pc = "ended" /\ disk.status = "completed" /\ disk.results # <<>> /\ card = NoFile
          /\ card' = [status |-> "awaiting_manual_review", of |-> disk, aggregate |-> <<>>,
                      rows |-> [n \in DOMAIN disk.results |-> Assessment(disk.results[n])]]
          /\ forged' = mended
          /\ World /\ UNCHANGED <<disk, mended, edits>>

Cells(rows) == {x \in (DOMAIN rows) \X Dimension : rows[x[1]].scores[x[2]] # NA}

\* aggregate_scorecard, of scores that are all given
Aggregate(rows) ==
    LET score(x) == rows[x[1]].scores[x[2]]
        total   == MapThenSumSet(score, Cells(rows))
        maximum == 2 * Cardinality(Cells(rows))
    IN [score |-> total, maximum |-> maximum,
        passed |-> /\ \A n \in DOMAIN rows : rows[n].blockers = {} /\ rows[n].passed
                   /\ \A x \in Cells(rows) : score(x) >= IF x[2] \in Critical THEN 2 ELSE 1
                   /\ maximum > 0 /\ 100 * total >= 85 * maximum]

Finalize == /\ card # NoFile
            /\ \A x \in Cells(card.rows) : card.rows[x[1]].scores[x[2]] # Open
            /\ card' = [card EXCEPT !.status = "complete", !.aggregate = Aggregate(card.rows)]
            /\ World /\ UNCHANGED <<disk, mended, forged, edits>>

-----------------------------------------------------------------------------
(* What is done by hand. *)

Edited == edits < MaxEdits /\ edits' = edits + 1

\* Somebody gives a score, whosever it is to give, adds a blocker or takes them away.
EditRows == /\ Edited /\ card # NoFile
            /\ \E n \in DOMAIN card.rows :
                  \/ \E d \in Dimension, v \in {0, 1, 2, NA} : card' = [card EXCEPT !.rows[n].scores[d] = v]
                  \/ card' = [card EXCEPT !.rows[n].blockers = @ \cup {"manual"}]
                  \/ card' = [card EXCEPT !.rows[n].blockers = {}, !.rows[n].passed = TRUE]
            /\ World /\ UNCHANGED <<disk, mended, forged>>

\* Somebody writes the verdict himself, or the hash of the run as it is now.
EditCard == /\ Edited /\ card # NoFile
            /\ \/ /\ LET most == 2 * Cardinality(Cells(card.rows)) IN
                     card' = [card EXCEPT !.status = "complete",
                                          !.aggregate = [score |-> most, maximum |-> most, passed |-> TRUE]]
                  /\ UNCHANGED forged
               \/ card' = [card EXCEPT !.of = disk] /\ forged' = mended
            /\ World /\ UNCHANGED <<disk, mended>>

\* A card can be thrown away, and made again.
Discard == /\ Edited /\ card # NoFile
           /\ card' = NoFile /\ forged' = FALSE
           /\ World /\ UNCHANGED <<disk, mended>>

\* A result is made a good one, with its tokens in the totals, or the run a completed one.  (While
\* the run goes on its next write undoes an edit.)
Good(result) == [result EXCEPT !.status = "success", !.errors = FALSE, !.clean = TRUE, !.tokens = 1]
EditRun == /\ Edited /\ run.pc = "ended"
           /\ \/ \E n \in DOMAIN disk.results :
                    disk' = [disk EXCEPT !.results[n] = Good(@),
                                         !.tokens = IF disk.results[n].tokens = Null THEN @ + 1 ELSE @]
              \/ disk' = [disk EXCEPT !.status = "completed"]
           /\ mended' = TRUE
           /\ World /\ UNCHANGED <<card, forged>>

-----------------------------------------------------------------------------
(* verify_scorecard *)

CaseOf(rows) == [n \in DOMAIN rows |-> rows[n].case]
Whole(rows) == Len(rows) = Cardinality(Case) /\ ToSet(CaseOf(rows)) = Case

\* What verify_scorecard asks of the row of a result.
RowVerified(result, row) ==
    LET start == Initial(KindOf[result.case], FALSE) IN
    /\ result.status = "success" /\ ~result.errors /\ result.tokens # Null
    /\ Blockers(result) = {} /\ row.passed = Passed(result)
    /\ \A d \in Dimension : /\ (start[d] = NA) <=> (row.scores[d] = NA)
                            /\ start[d] \in {0, 1, 2} => row.scores[d] = start[d]

\* Mutant of AggregateHolds: the aggregate that was saved is believed.
AggregateBelieved == card.aggregate.passed
AggregateHolds == /\ \A x \in Cells(card.rows) : card.rows[x[1]].scores[x[2]] # Open
                  /\ card.aggregate = Aggregate(card.rows) /\ card.aggregate.passed

\* verify_scorecard; rows and results are matched by case.
Verified ==
    /\ card # NoFile /\ disk.status = "completed"
    /\ Whole(disk.results) /\ Whole(card.rows) /\ Len(disk.selected) = Cardinality(Case)
    /\ card.status = "complete" /\ card.of = disk
    /\ \A n \in DOMAIN disk.results, m \in DOMAIN card.rows :
          disk.results[n].case = card.rows[m].case => RowVerified(disk.results[n], card.rows[m])
    /\ disk.tokens = MapThenSumSet(LAMBDA n : disk.results[n].tokens, DOMAIN disk.results)
    /\ AggregateHolds

Next == \/ Start \/ NextCase \/ Call \/ Interrupt \/ Kill
        \/ Create \/ Finalize \/ EditRows \/ EditCard \/ Discard \/ EditRun

Spec == Init /\ [][Next]_vars

-----------------------------------------------------------------------------
(* Properties. *)

\* run.json, whenever the process dies and until somebody edits it: its results are those of the
\* first cases that were asked for, in their order; its totals are theirs, and may lack the last
\* only if an interrupt closed the file; it counts every request once the run is completed, and
\* never more than were made; and it says "completed" only when no case is missing.
RunTellsTheTruth ==
    ~mended /\ disk # NoFile =>
        LET n == Len(disk.results)
            counted == IF disk.ended /\ disk.status = "running" THEN {n - 1, n} ELSE {n}
        IN
        /\ CaseOf(disk.results) = SubSeq(disk.selected, 1, n)
        /\ disk.results = SubSeq(answers, 1, n)
        /\ disk.attempted \in n..(n + 1)
        /\ \E k \in counted : disk.successful = Cardinality({i \in 1..k : disk.results[i].status = "success"})
        /\ \E k \in counted : disk.passes = Cardinality({i \in 1..k : disk.results[i].status = "success"
                                                                      /\ ~disk.results[i].errors})
        /\ \E k \in counted : disk.tokens = SumFunctionOnSet([i \in 1..k |-> Max({0, disk.results[i].tokens})], 1..k)
        /\ disk.apiAttempts <= made
        /\ disk.status = "completed" => n = Len(disk.selected) /\ disk.apiAttempts = made

\* The provider is not asked more often than the retries allow.
RequestsBounded == run.pc # "idle" => made <= run.man.attempted * (MaxRetries + 1)

\* A scorecard that verifies was earned.  Whatever was edited, what the program scores it scored,
\* what somebody had to give was given, nothing critical less than in full, and nobody names a
\* blocker.  And unless the run had been edited already when the card was made of it, or the card
\* was given the hash of an edited run (which nothing can tell from a true one), the run is the
\* one that was made: every frozen case was answered as it says, none badly, and every request
\* counted.
VerifiedIsEarned ==
    Verified =>
        /\ \A n \in DOMAIN card.rows : \A d \in Dimension :
              LET start == Initial(KindOf[card.rows[n].case], FALSE)[d] IN
              /\ card.rows[n].scores[d] \in IF start = Open THEN {1, 2} ELSE {start}
              /\ d \in Critical => card.rows[n].scores[d] \in {2, NA}
        /\ \A n \in DOMAIN card.rows : card.rows[n].blockers = {}
        /\ ~forged => /\ disk.results = answers /\ disk.apiAttempts = made
                      /\ {answers[n].case : n \in DOMAIN answers} = Case
                      /\ \A n \in DOMAIN answers : ~answers[n].errors /\ Blockers(answers[n]) = {}

EvaluationKept == RunTellsTheTruth /\ RequestsBounded /\ VerifiedIsEarned
=============================================================================
