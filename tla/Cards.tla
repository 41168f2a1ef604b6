-------------------------------- MODULE Cards --------------------------------
(***************************************************************************)
(* What the public page of a game shows of its summary and its let's play  *)
(* (presentation/summaries.py, presentation/letsplays.py, and              *)
(* collection_state of reviews/snapshots.py).                              *)
(*                                                                         *)
(* A page reads row after row, in no transaction, while reviews are        *)
(* collected, corpora are built, summaries are written and the program is  *)
(* deployed anew.  Those writers are sketched here with what they commit   *)
(* together; ReviewCollection, Summaries and LetsPlays have their steps.   *)
(***************************************************************************)
EXTENDS Integers, Sequences, FiniteSets, SequencesExt

CONSTANTS Route,      \* numbers: the platforms of the game with reviews, in their order
          Content,    \* what a collection of a route may bring
          InputOf,    \* the model's input of a corpus (a function from Route to Content)
          Contour,    \* contour fingerprints
          Day,        \* numbers: the cohorts, in their order
          Footage,    \* videos
          MaxWrites   \* bound on the writes, over all

VARIABLES day,         \* the latest processed candidate
          jobs,        \* review jobs: Day -> Route -> job
          head,        \* ReviewCorpusHead
          contour,     \* of the program that is deployed
          orders,      \* SummaryJob: the states by input and contour
          summaries,   \* ReviewSummary, in the order of generated_at
          play,        \* LetsPlay
          conclusions, \* LetsPlayConclusion, their videos, in order
          view,        \* the page that is being read
          seen,        \* the corpora that were current since it was asked for (history)
          steady,      \* and whether nothing was written since (history)
          writes       \* so far (a bound only)

vars == <<day, jobs, head, contour, orders, summaries, play, conclusions, view, seen, steady, writes>>

None == "none"
NoHead == [corpus |-> <<>>, checkpoint |-> <<>>]
Asleep == [pc |-> "idle"]
Fresh  == [state |-> "pending", content |-> 0]

Init == /\ day = 1 /\ jobs = [d \in Day |-> [r \in Route |-> Fresh]] /\ head = NoHead
        /\ contour = 1 /\ orders = [x \in {InputOf[c] : c \in DOMAIN InputOf} \X Contour |-> "none"]
        /\ summaries = <<>>
        /\ play = [state |-> "searching", video |-> None] /\ conclusions = <<>>
        /\ view = Asleep /\ seen = {} /\ steady = TRUE /\ writes = 0

-----------------------------------------------------------------------------
(* collection_state, of a day and its jobs as they were read. *)

Checkpoint(d, js) == <<d, js>>
Terminal == {"failed", "unstable"}
\* The first route that is not done tells the reason; "odd" is complete with counts that do not agree.
Reason(js) ==
    LET open == {r \in Route : js[r].state # "complete"}
        r    == CHOOSE q \in open : \A p \in open : q <= p
    IN CASE open = {}                              -> None
         [] open # {} /\ js[r].state = "odd"       -> "unverified"
         [] open # {} /\ js[r].state \in Terminal  -> js[r].state
         [] OTHER                                  -> "in_progress"

Now       == Checkpoint(day, jobs[day])
IsCurrent == head # NoHead /\ head.checkpoint = Now /\ Reason(jobs[day]) = None

-----------------------------------------------------------------------------
(* The writers. *)

Plays   == <<play, conclusions>>

Collect == /\ \E d \in 1..day, r \in Route :
                 /\ jobs[d][r].state # "complete"
                 /\ \/ \E c \in Content : jobs' = [jobs EXCEPT ![d][r] = [state |-> "complete", content |-> c]]
                    \/ \E s \in {"odd", "failed"} : jobs' = [jobs EXCEPT ![d][r].state = s]
           /\ UNCHANGED <<day, head, contour, orders, summaries>> /\ UNCHANGED Plays

NewDay == /\ day + 1 \in Day /\ day' = day + 1
          /\ UNCHANGED <<jobs, head, contour, orders, summaries>> /\ UNCHANGED Plays

\* corpus.build, one transaction under the lock of the game; and the order for its summary.
Build == /\ Reason(jobs[day]) = None
         /\ LET corpus == [r \in Route |-> jobs[day][r].content] x == <<InputOf[corpus], contour>> IN
               /\ head' = [corpus |-> corpus, checkpoint |-> Now]
               /\ orders' = [orders EXCEPT ![x] = IF @ = "none" THEN "pending" ELSE @]
         /\ UNCHANGED <<day, jobs, contour, summaries>> /\ UNCHANGED Plays

Summarize == /\ \E x \in DOMAIN orders :
                   /\ orders[x] = "pending"
                   /\ \/ orders' = [orders EXCEPT ![x] = "succeeded"] /\ summaries' = Append(summaries, x)
                      \/ orders' = [orders EXCEPT ![x] = "failed"] /\ UNCHANGED summaries
             /\ UNCHANGED <<day, jobs, head, contour>> /\ UNCHANGED Plays

Deploy == /\ contour + 1 \in Contour /\ contour' = contour + 1
          /\ UNCHANGED <<day, jobs, head, orders, summaries>> /\ UNCHANGED Plays

\* The worker of the let's plays: a video is chosen, concluded about or not, and searched again.
Watch == /\ \/ /\ play.state = "searching"
               /\ \/ \E v \in Footage : play' = [state |-> "concluding", video |-> v]
                  \/ play' = [state |-> "not_found", video |-> None]
                  \/ play' = [play EXCEPT !.state = "failed"]
               /\ UNCHANGED conclusions
            \/ /\ play.state = "concluding"
               /\ \/ /\ play' = [play EXCEPT !.state = "done"]
                     /\ conclusions' = Append(conclusions, play.video)
                  \/ play' = [play EXCEPT !.state = "failed"] /\ UNCHANGED conclusions
            \/ /\ play.state \in {"done", "failed", "not_found"} /\ Len(conclusions) < Cardinality(Footage)
               /\ play' = [play EXCEPT !.state = "searching"] /\ UNCHANGED conclusions
         /\ UNCHANGED <<day, jobs, head, contour, orders, summaries>>

-----------------------------------------------------------------------------
(* The page. *)

\* Mutant of Verified: any corpus will do.
VerifiedByAny == head # NoHead
\* Whether the head is of the collection that was read.
Verified == head # NoHead /\ head.checkpoint = view.checkpoint

Shows(state, summary, reason) ==
    view' = [view EXCEPT !.pc = "play", !.card = [state |-> state, summary |-> summary, reason |-> reason]]

Ask == /\ view.pc = "idle"
       /\ view' = [pc |-> "jobs", day |-> day, contour |-> contour, had |-> summaries # <<>>,
                   checkpoint |-> <<>>, reason |-> None, corpus |-> <<>>, card |-> <<>>,
                   play |-> <<>>, verdict |-> None]

ReadJobs == /\ view.pc = "jobs"
            /\ view' = [view EXCEPT !.pc = "head", !.reason = Reason(jobs[view.day]),
                                    !.checkpoint = Checkpoint(view.day, jobs[view.day])]

ReadHead == /\ view.pc = "head"
            /\ IF view.reason # None THEN view' = [view EXCEPT !.pc = "older"]
               ELSE IF ~Verified THEN view' = [view EXCEPT !.pc = "older", !.reason = "unverified"]
               ELSE view' = [view EXCEPT !.pc = "order", !.corpus = head.corpus]

\* The order and, when it is served, its summary.
ReadOrder == /\ view.pc = "order"
             /\ LET x == <<InputOf[view.corpus], view.contour>> IN
                IF orders[x] = "succeeded" THEN Shows("ok", x, None)
                ELSE view' = [view EXCEPT !.pc = "older", !.reason =
                                 IF orders[x] = "none" THEN "contour_changed" ELSE orders[x]]

\* The newest summary of the game, or _without_summary.
ReadOlder == /\ view.pc = "older"
             /\ IF summaries # <<>> THEN Shows("stale", Last(summaries), view.reason)
                ELSE Shows(IF view.reason \in Terminal THEN "unavailable" ELSE "pending", None, view.reason)

\* get_letsplay: the row, and then the latest conclusion about its video.
ReadPlay == /\ view.pc = "play"
            /\ view' = [view EXCEPT !.pc = "verdict", !.play = play]

About(video) == {n \in DOMAIN conclusions : conclusions[n] = video}

ReadVerdict ==
    /\ view.pc = "verdict"
    /\ LET about == About(view.play.video) IN
       view' = [view EXCEPT !.pc = "done",
                   !.verdict = IF about # {} /\ view.play.state \in {"done", "failed"}
                               THEN conclusions[Max(about)] ELSE None]

Close == view.pc = "done" /\ view' = Asleep

Write == /\ (Collect \/ NewDay \/ Build \/ Summarize \/ Deploy \/ Watch)
         /\ writes < MaxWrites /\ writes' = writes + 1
         /\ steady' = FALSE /\ UNCHANGED view
Read  == /\ (Ask \/ ReadJobs \/ ReadHead \/ ReadOrder \/ ReadOlder \/ ReadPlay \/ ReadVerdict \/ Close)
         /\ steady' = (view.pc = "idle" \/ steady)
         /\ UNCHANGED <<day, jobs, head, contour, orders, summaries, play, conclusions, writes>>

Next == /\ Write \/ Read
        /\ seen' = (IF view.pc = "idle" THEN {} ELSE seen) \cup
                   (IF view'.pc # "idle" /\ IsCurrent' THEN {head'.corpus} ELSE {})

Spec == Init /\ [][Next]_vars

-----------------------------------------------------------------------------
(* Properties, of a page that was read to its end. *)

\* A summary without a word of warning was drawn, under the settings of the program that shows it,
\* from what a corpus gives the model that was current at some moment while the page was read.
OkWasCurrent ==
    view.card.state = "ok" =>
        \E corpus \in seen : view.card.summary = <<InputOf[corpus], view.contour>>

\* Once there is a summary every page shows one, and says why when it is not the current one.
NeverBlank == /\ view.had => view.card.state \in {"ok", "stale"}
              /\ view.card.state # "ok" => view.card.reason # None
              /\ view.card.state \in {"ok", "stale"} => view.card.summary \in ToSet(summaries)

\* When nobody wrote meanwhile, the page warns exactly if there is something to warn of.
WarnsOnlyIfStale ==
    steady => (view.card.state = "ok" <=>
                  IsCurrent /\ <<InputOf[head.corpus], contour>> \in ToSet(summaries))

\* A verdict is about the video that is linked above it, and a let's play that is done has one.
VerdictIsOfTheVideo == /\ view.verdict \in {None, view.play.video}
                       /\ view.play.state = "done" => view.verdict # None

CardsKept == view.pc = "done" => OkWasCurrent /\ NeverBlank /\ WarnsOnlyIfStale /\ VerdictIsOfTheVideo
=============================================================================
