------------------------------ MODULE LetsPlays ------------------------------
(***************************************************************************)
(* The let's play of a game (letsplays/worker.py) and the budgets of the   *)
(* providers it calls (letsplays/budget.py).                               *)
(*                                                                         *)
(* Workers claim a game by moving its available_at, ask the budget for one *)
(* external call at a time, make it with no lock held and record what it   *)
(* brought if available_at is still the one they set.                      *)
(*                                                                         *)
(* Time is relative: what a game waits for has ticks left, the ledger      *)
(* counts the calls of each kind by their age.                             *)
(***************************************************************************)
EXTENDS Integers, Sequences, FiniteSets, FiniteSetsExt

CONSTANTS Worker,
          Game,          \* games in the order _next_game gives them
          Kind,          \* kinds of provider calls
          Units,         \* for each kind, the units a call reserves
          Limits,        \* LIMITS: for each kind its windows, of a span, calls and units
          Pause,         \* for each kind, how long a refusal stops it
          Lease,         \* LEASE
          RefreshAfter,  \* REFRESH_AFTER
          MaxAttempts,   \* MAX_ATTEMPTS
          MaxListens,    \* selection.MAX_LISTENS
          MaxLag,        \* bound on the ticks between reading the clock and the admission
          MaxFaults      \* bound on crashes and stalls

ASSUME LetsPlaysAssumption ==
    /\ IsFiniteSet(Worker)
    /\ Game \subseteq Nat \ {0}
    /\ Kind = {"youtube_api", "video", "captions", "audio", "whisper", "chat"}
    /\ Units \in [Kind -> Nat \ {0}]
    /\ Limits \in [Kind -> SUBSET [span : Nat \ {0}, calls : Nat \ {0}, units : Nat \ {0}]]
    /\ \A k \in Kind : IsFiniteSet(Limits[k])
    /\ Pause \in [Kind -> Nat \ {0}]
    /\ {Lease, RefreshAfter, MaxAttempts, MaxListens} \subseteq Nat \ {0}
    /\ {MaxLag, MaxFaults} \subseteq Nat

VARIABLES plays,   \* LetsPlay; script and said: there is a transcript of its video, and a
                   \* conclusion of that transcript
          made,    \* ProviderCall: for each kind and age, how many were started
          pause,   \* for each kind, how long its latest refusal stops it
          wk,      \* local variables of each worker
          faults   \* crashes and stalls so far (a bound only)

vars == <<plays, made, pause, wk, faults>>

Working == {"searching", "listening", "concluding"}
Ended   == {"done", "not_found", "failed"}
Soon    == 1            \* the least delay the code gives
NoGame  == 0
Idle    == [pc |-> "idle", game |-> NoGame, state |-> "none", stamp |-> 0, since |-> 0,
            candidate |-> 0, heard |-> "nothing"]

\* How far back the windows of a kind reach; calls of a kind without windows need no count.
Ages    == [k \in Kind |-> IF Limits[k] = {} THEN {}
                           ELSE 0..(Max({win.span : win \in Limits[k]}) + MaxLag - 1)]
Age(k)  == Ages[k]

Init == /\ plays = [g \in Game |-> [state |-> "new", left |-> 0, stamp |-> 0, tries |-> 0,
                                    refresh |-> 0, list |-> 0, checks |-> <<>>, video |-> 0,
                                    script |-> FALSE, said |-> FALSE]]
        /\ made = [k \in Kind |-> [a \in Age(k) |-> 0]]
        /\ pause = [k \in Kind |-> 0]
        /\ wk = [w \in Worker |-> Idle]
        /\ faults = 0

At(w, here) == wk[w].pc = here
Goto(w, there) == wk' = [wk EXCEPT ![w].pc = there, ![w].since = 0]
Stop(w) == wk' = [wk EXCEPT ![w] = Idle]
Fails == faults < MaxFaults /\ faults' = faults + 1

-----------------------------------------------------------------------------
(* budget.py.  The clock may have been read some ticks (lag) before the     *)
(* advisory lock was taken.                                                 *)

Calls(k, ages) == MapThenSumSet(LAMBDA a : made[k][a], ages \cap Age(k))

\* Mutant of Counted: calls that started after the clock was read are not counted.
CountedUpTo(span, lag) == lag..(lag + span - 1)
\* The ages of the calls with started_at > now - span.
Counted(span, lag) == 0..(lag + span - 1)

\* blocked_until: how many ticks from its now; empty when a call may start.
Blocks(k, lag) ==
    LET over == {win \in Limits[k] : LET n == Calls(k, Counted(win.span, lag)) IN
                    n + 1 > win.calls \/ (n + 1) * Units[k] > win.units}
        oldest(win) == Max({a \in Counted(win.span, lag) \cap Age(k) : made[k][a] > 0} \cup {lag})
    IN {lag + win.span - oldest(win) : win \in over}
       \cup {n \in {pause[k] + lag} : pause[k] > 0}

Recorded(K, lag) == made' = [k \in Kind |-> [a \in Age(k) |->
                                IF k \in K /\ a = lag THEN made[k][a] + 1 ELSE made[k][a]]]
Lags(w) == 0..wk[w].since
\* finish with the outcome "refused".
Refused(k) == pause' = [pause EXCEPT ![k] = Pause[k]]

-----------------------------------------------------------------------------
(* Saves of a game.  A value of available_at is told from another by its    *)
(* stamp: the least one that no worker on the game has.                    *)

NewStamp(g) == Min({n \in 1..(1 + Cardinality(Worker)) :
                      \A w \in Worker : wk[w].game = g => wk[w].stamp # n})

Available(g, left) == [plays[g] EXCEPT !.left = left, !.stamp = NewStamp(g)]
Save(g, play) == plays' = [plays EXCEPT ![g] = play]

\* Mutant of Owned: a claim is told by the state of its game.
OwnedByState(w) == plays[wk[w].game].state = wk[w].state
\* _owned
Owned(w) == LET play == plays[wk[w].game] IN play.stamp = wk[w].stamp /\ play.state = wk[w].state

\* _later
Later(g, until) == Save(g, Available(g, until))
\* _not_found, _done and the end of _error
Ends(play, state) == [play EXCEPT !.state = state, !.left = 0, !.refresh = RefreshAfter]
\* _error
Error(g) == LET play == [Available(g, Soon) EXCEPT !.tries = @ + 1] IN
            Save(g, IF play.tries >= MaxAttempts THEN Ends(play, "failed") ELSE play)

-----------------------------------------------------------------------------
(* claim *)

Due == {g \in Game : \/ plays[g].state \in Working /\ plays[g].left = 0
                     \/ plays[g].state \in Ended /\ plays[g].refresh = 0}
New == {g \in Game : plays[g].state = "new"}
First == [searching |-> "search", listening |-> "page", concluding |-> "conclude"]

Claimed(w, g) ==
    LET play == Available(g, Lease)
        state == IF play.state \in Working THEN play.state ELSE "searching"
    IN /\ Save(g, [play EXCEPT !.state = state,
                               !.tries = IF state = play.state THEN @ ELSE 0])
       /\ wk' = [wk EXCEPT ![w] = [Idle EXCEPT !.pc = First[state], !.game = g, !.state = state,
                                               !.stamp = play.stamp,
                                               !.candidate = IF state = "listening"
                                                             THEN Len(play.checks) + 1 ELSE 0]]

ClaimDue(w) == /\ At(w, "idle")
               /\ \E g \in Due : Claimed(w, g)
               /\ UNCHANGED <<made, pause, faults>>

\* Nothing is due, nothing is under way, and a search could be paid for.
LookForNew(w) == /\ At(w, "idle")
                 /\ Due = {} /\ New # {}
                 /\ \A g \in Game : plays[g].state \notin Working
                 /\ Blocks("youtube_api", 0) = {}
                 /\ Goto(w, "enrol")
                 /\ UNCHANGED <<plays, made, pause, faults>>

\* _next_game and its row; another worker may have enrolled a game since.
Enrol(w) == /\ At(w, "enrol")
            /\ IF New = {} THEN Stop(w) /\ UNCHANGED plays ELSE Claimed(w, Min(New))
            /\ UNCHANGED <<made, pause, faults>>

-----------------------------------------------------------------------------
(* _search *)

\* Admission of the one call of a step; without it the game is put off at once.
AdmitOrLater(w, k, there) ==
    \E lag \in Lags(w) :
       IF Blocks(k, lag) = {}
       THEN Recorded({k}, lag) /\ Goto(w, there) /\ UNCHANGED plays
       ELSE Later(wk[w].game, Max({0} \cup {n - lag : n \in Blocks(k, lag)})) /\ Stop(w) /\ UNCHANGED made

AdmitSearch(w) == /\ At(w, "search")
                  /\ AdmitOrLater(w, "youtube_api", "searching")
                  /\ UNCHANGED <<pause, faults>>

\* The end of a step: what it saves if the claim still holds.
IfOwned(w, save) == (IF Owned(w) THEN save ELSE UNCHANGED plays) /\ Stop(w)

SearchFails(w) ==
    LET g == wk[w].game IN
    /\ At(w, "searching")
    /\ \/ Refused("youtube_api") /\ IfOwned(w, Later(g, Pause["youtube_api"]))
       \/ UNCHANGED pause /\ IfOwned(w, Error(g))
    /\ UNCHANGED <<made, faults>>

SearchAnswers(w) ==
    LET g == wk[w].game IN
    /\ At(w, "searching")
    /\ \E n \in 0..MaxListens :
          LET play == [Available(g, 0) EXCEPT !.list = n, !.checks = <<>>, !.video = 0, !.tries = 0,
                                              !.script = FALSE, !.said = FALSE]
          IN IfOwned(w, Save(g, IF n > 0 THEN [play EXCEPT !.state = "listening"]
                                ELSE Ends(play, "not_found")))
    /\ UNCHANGED <<made, pause, faults>>

-----------------------------------------------------------------------------
(* _hear: the video page, its captions, or else its audio for Whisper.  It  *)
(* ends with what was heard (silence: nothing, or no such video), with what *)
(* to wait for, or with an error.                                           *)

Heard(w, what) == wk' = [wk EXCEPT ![w].pc = "heard", ![w].since = 0, ![w].heard = what]

AdmitPage(w) ==
    /\ At(w, "page")
    /\ \E lag \in Lags(w) :
          IF Blocks("video", lag) = {} THEN Recorded({"video"}, lag) /\ Goto(w, "facts")
                                       ELSE Heard(w, "video") /\ UNCHANGED made
    /\ UNCHANGED <<plays, pause, faults>>

Facts(w) ==
    /\ At(w, "facts")
    /\ \/ Goto(w, "caption") /\ UNCHANGED pause
       \/ Refused("video") /\ Heard(w, "video")
       \/ \E what \in {"error", "silence"} : Heard(w, what) /\ UNCHANGED pause
    /\ UNCHANGED <<plays, made, faults>>

\* No captions: the audio, if the page names one.
WithoutCaptions(w) == Goto(w, "audio") \/ Heard(w, "silence")

AdmitCaptions(w) ==
    /\ At(w, "caption")
    /\ \E lag \in Lags(w) :
          IF Blocks("captions", lag) = {} THEN Recorded({"captions"}, lag) /\ Goto(w, "captions")
                                          ELSE WithoutCaptions(w) /\ UNCHANGED made
    /\ UNCHANGED <<plays, pause, faults>>

Captions(w) ==
    /\ At(w, "captions")
    /\ \/ Heard(w, "speech") /\ UNCHANGED pause
       \/ WithoutCaptions(w) /\ (UNCHANGED pause \/ Refused("captions"))
    /\ UNCHANGED <<plays, made, faults>>

\* One transaction admits both; an audio without its Whisper call stays in the ledger.
AdmitAudio(w) ==
    /\ At(w, "audio")
    /\ \E lag \in Lags(w) :
          CASE Blocks("audio", lag) # {}   -> Heard(w, "whisper") /\ UNCHANGED made
            [] Blocks("audio", lag) = {} /\ Blocks("whisper", lag) # {}
                                           -> Heard(w, "whisper") /\ Recorded({"audio"}, lag)
            [] OTHER                       -> Goto(w, "whisper") /\ Recorded({"audio", "whisper"}, lag)
    /\ UNCHANGED <<plays, pause, faults>>

Whisper(w) ==
    /\ At(w, "whisper")
    /\ \/ \E what \in {"speech", "silence", "error"} : Heard(w, what) /\ UNCHANGED pause
       \/ Refused("whisper") /\ Heard(w, "whisper")
    /\ UNCHANGED <<plays, made, faults>>

\* The transaction that ends _listen.
Listened(w) ==
    LET g == wk[w].game
        next == Append(plays[g].checks, wk[w].candidate)
        play == [Available(g, 0) EXCEPT !.checks = next]
    IN /\ At(w, "heard")
       /\ \/ wk[w].heard = "error" /\ IfOwned(w, Error(g))
          \/ /\ wk[w].heard \in {"video", "whisper"}
             /\ IfOwned(w, Later(g, Max(Blocks(wk[w].heard, 0) \cup {Soon})))
          \/ /\ wk[w].heard \in {"speech", "silence"}
             /\ IfOwned(w, Save(g, IF Len(next) >= plays[g].list THEN Ends(play, "not_found")
                                   ELSE play))
          \/ /\ wk[w].heard = "speech"
             /\ IfOwned(w, Save(g, [play EXCEPT !.state = "concluding", !.video = wk[w].candidate,
                                                !.script = TRUE, !.said = FALSE, !.tries = 0]))
       /\ UNCHANGED <<made, pause, faults>>

-----------------------------------------------------------------------------
(* _conclude.  The transcript of a game that is concluding exists, and has  *)
(* no conclusion yet: both are saved together with the state.               *)

TooLong(w) == /\ At(w, "conclude")
              /\ IfOwned(w, Error(wk[w].game))
              /\ UNCHANGED <<made, pause, faults>>

AdmitChat(w) == /\ At(w, "conclude")
                /\ AdmitOrLater(w, "chat", "chat")
                /\ UNCHANGED <<pause, faults>>

Chat(w) ==
    LET g == wk[w].game IN
    /\ At(w, "chat")
    /\ \/ Refused("chat") /\ IfOwned(w, Later(g, Pause["chat"]))
       \/ UNCHANGED pause /\ IfOwned(w, Error(g))
       \/ /\ UNCHANGED pause
          /\ IfOwned(w, Save(g, Ends([Available(g, 0) EXCEPT !.said = TRUE, !.tries = 0], "done")))
    /\ UNCHANGED <<made, faults>>

-----------------------------------------------------------------------------
(* The world. *)

\* A worker dies, or meets an error nobody expected (_advance_letsplays).
Crash(w) == /\ ~At(w, "idle")
            /\ Fails
            /\ Stop(w)
            /\ UNCHANGED <<plays, made, pause>>

Down(n) == IF n = 0 THEN 0 ELSE n - 1
\* A claim that runs out under a worker is a stall.
Stalls == \E w \in Worker : ~At(w, "idle") /\ ~At(w, "enrol") /\ Owned(w) /\ plays[wk[w].game].left = 1

Tick ==
    /\ IF Stalls THEN Fails ELSE UNCHANGED faults
    /\ plays' = [g \in Game |-> [plays[g] EXCEPT !.left = Down(@), !.refresh = Down(@)]]
    /\ made' = [k \in Kind |-> [a \in Age(k) |-> IF a = 0 THEN 0 ELSE made[k][a - 1]]]
    /\ pause' = [k \in Kind |-> Down(pause[k])]
    /\ wk' = [w \in Worker |->
                [wk[w] EXCEPT !.since = IF wk[w].pc \in {"search", "page", "caption", "audio", "conclude"}
                                        THEN Min({MaxLag, @ + 1}) ELSE 0]]

Step(w) == \/ ClaimDue(w) \/ LookForNew(w) \/ Enrol(w)
           \/ AdmitSearch(w) \/ SearchFails(w) \/ SearchAnswers(w)
           \/ AdmitPage(w) \/ Facts(w) \/ AdmitCaptions(w) \/ Captions(w)
           \/ AdmitAudio(w) \/ Whisper(w) \/ Listened(w)
           \/ TooLong(w) \/ AdmitChat(w) \/ Chat(w)

Next == \/ \E w \in Worker : Step(w) \/ Crash(w)
        \/ Tick

Spec == Init /\ [][Next]_vars

-----------------------------------------------------------------------------
(* Properties. *)

\* In no window of time, wherever it ends, was a provider called more often or for more units
\* than its budget says, however late after reading the clock a call was recorded.
BudgetKept ==
    \A k \in Kind : \A win \in Limits[k], a \in Age(k) :
        LET n == Calls(k, a..(a + win.span - 1)) IN n <= win.calls /\ n * Units[k] <= win.units

\* The state of a game is what it went through: the candidates were heard in order and none
\* twice, a game is given up as not found after the last of them, it is concluded about the
\* video heard last, and done when there is a conclusion about that very video.
StateIsEarned ==
    \A g \in Game : LET play == plays[g] IN
        /\ Len(play.checks) <= play.list
        /\ \A i \in DOMAIN play.checks : play.checks[i] = i
        /\ play.state = "listening" => Len(play.checks) < play.list /\ ~play.script
        /\ play.state = "not_found" => Len(play.checks) = play.list /\ ~play.script
        /\ play.script <=> play.video # 0
        /\ play.video # 0 => play.video = Len(play.checks)
        /\ play.state = "concluding" => play.script /\ ~play.said
        /\ play.state = "done" => play.said
        /\ play.said => play.script

\* A worker that lost its claim changes nothing of what the game went through.  It may only
\* put the game off: _search and _conclude call _later without asking whether they still own
\* it, and so take the game from the worker that does.
LostClaimOnlyDelays ==
    [][\A w \in Worker : \A g \in {wk[w].game} \ {NoGame} :
          plays[g].stamp # wk[w].stamp /\ wk'[w].pc # wk[w].pc =>
          plays'[g] = [plays[g] EXCEPT !.left = plays'[g].left, !.stamp = plays'[g].stamp]]_vars
=============================================================================
