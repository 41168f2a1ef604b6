---------------------------- MODULE LetsPlays_proofs ----------------------------
(* Proofs about LetsPlays, for every number of workers, games and candidates,   *)
(* every budget, lease and clock lag, and any number of crashes and stalls;     *)
(* and about two of the parts of Answers: the choice of the video, and that of  *)
(* the reviews.                                                                 *)
EXTENDS LetsPlays, Answers, Sums, SequenceTheorems, TLAPS

-----------------------------------------------------------------------------
(* The inductive invariant.  A value of available_at proves ownership only as  *)
(* long as no other save can set the same one, and what a worker has read of   *)
(* its game only while it owns it.                                             *)

AtGame  == {"search", "searching", "page", "facts", "caption", "captions", "audio", "whisper",
            "heard", "conclude", "chat"}
StateAt == [pc \in AtGame |->
              IF pc \in {"search", "searching"} THEN "searching"
              ELSE IF pc \in {"conclude", "chat"} THEN "concluding" ELSE "listening"]

\* left, tries and refresh only delay a game: any value will do.
Play(Left, Tries, Refresh) ==
    [state : {"new"} \cup Working \cup Ended, left : Left, stamp : Nat, tries : Tries,
     refresh : Refresh, list : Nat, checks : Seq(Nat), video : Nat, script : BOOLEAN,
     said : BOOLEAN]
IsPlay(p) == \E Left, Tries, Refresh : p \in Play(Left, Tries, Refresh)

\* What a game went through, which delays and claims leave as it is.
SameCourse(p, q) ==
    /\ q.state = p.state /\ q.list = p.list /\ q.checks = p.checks
    /\ q.video = p.video /\ q.script = p.script /\ q.said = p.said

Memory(Since, What) ==
    [pc : {"idle", "enrol"} \cup AtGame, game : Game \cup {NoGame}, state : {"none"} \cup Working,
     stamp : Nat, since : Since, candidate : Nat, heard : What]
IsWorker(m) ==
    /\ \E Since, What : m \in Memory(Since, What)
    /\ m.pc \in {"idle", "enrol"} => m.game = NoGame
    /\ m.pc \in AtGame => m.game \in Game /\ m.state = StateAt[m.pc]

Typed == /\ plays = [g \in Game |-> plays[g]] /\ \A g \in Game : IsPlay(plays[g])
         /\ wk = [w \in Worker |-> wk[w]] /\ \A w \in Worker : IsWorker(wk[w])

\* The candidate a worker listens to is the first that was not heard, while it owns the game.
NextIsHeard ==
    \A w \in Worker : wk[w].pc \in AtGame /\ wk[w].state = "listening" /\ Owned(w) =>
        wk[w].candidate = Len(plays[wk[w].game].checks) + 1

\* StateIsEarned, of one game.
Earned(play) ==
    /\ Len(play.checks) <= play.list
    /\ \A i \in DOMAIN play.checks : play.checks[i] = i
    /\ play.state = "listening" => Len(play.checks) < play.list /\ ~play.script
    /\ play.state = "not_found" => Len(play.checks) = play.list /\ ~play.script
    /\ play.script <=> play.video # 0
    /\ play.video # 0 => play.video = Len(play.checks)
    /\ play.state = "concluding" => play.script /\ ~play.said
    /\ play.state = "done" => play.said
    /\ play.said => play.script

IInv == Typed /\ NextIsHeard /\ \A g \in Game : Earned(plays[g])

LEMMA EarnedIsEarned == (\A g \in Game : Earned(plays[g])) <=> StateIsEarned
BY DEF Earned, StateIsEarned

-----------------------------------------------------------------------------
(* A new stamp differs from those of all workers on the game.                *)

LEMMA NewStampIsNew ==
    ASSUME NEW g
    PROVE  /\ NewStamp(g) \in Nat
           /\ \A w \in Worker : wk[w].game = g => wk[w].stamp # NewStamp(g)
<1>. DEFINE n == Cardinality(Worker)
            Used == {wk[w].stamp : w \in Worker}
            Free == {i \in 1..(1 + n) : \A w \in Worker : wk[w].game = g => wk[w].stamp # i}
<1>1. n \in Nat /\ IsFiniteSet(Used) /\ Cardinality(Used) <= n
  <2>1. IsFiniteSet(Worker)
    BY LetsPlaysAssumption
  <2>2. DEFINE f == [w \in Worker |-> wk[w].stamp]
  <2>3. f \in Surjection(Worker, Used)
    BY DEF Surjection
  <2>. QED
    BY <2>1, <2>3, FS_Surjection, FS_CardinalityType
<1>2. Free # {}
  <2>1. SUFFICES ASSUME Free = {} PROVE FALSE
    OBVIOUS
  <2>2. 1..(1 + n) \subseteq Used
    BY <2>1
  <2>3. Cardinality(1..(1 + n)) = 1 + n
    BY <1>1, FS_Interval
  <2>4. Cardinality(1..(1 + n)) <= Cardinality(Used)
    BY <1>1, <2>2, FS_Subset
  <2>5. Cardinality(Used) \in Nat
    BY <1>1, FS_CardinalityType
  <2>. QED
    BY <1>1, <2>3, <2>4, <2>5
<1>3. Free \subseteq Nat
  BY <1>1
<1>4. Min(Free) \in Free
  BY <1>2, <1>3, MinOfNat
<1>. QED
  BY <1>3, <1>4 DEF NewStamp

-----------------------------------------------------------------------------
(* What a step may do without breaking the invariant.                         *)

\* The step of a worker keeps what it knows of its game.
Keeps(w) ==
    /\ wk' = [wk EXCEPT ![w] = wk'[w]] /\ IsWorker(wk'[w])
    /\ wk'[w].pc \in AtGame =>
          /\ wk[w].pc \in AtGame
          /\ wk'[w].game = wk[w].game /\ wk'[w].state = wk[w].state
          /\ wk'[w].stamp = wk[w].stamp /\ wk'[w].candidate = wk[w].candidate

\* A game is saved with a new stamp, which at most the worker of the step has now.
Saves(w, g) ==
    /\ plays' = [plays EXCEPT ![g] = plays'[g]]
    /\ IsPlay(plays'[g]) /\ Earned(plays'[g]) /\ plays'[g].stamp = NewStamp(g)
    /\ wk' = [wk EXCEPT ![w] = wk'[w]] /\ IsWorker(wk'[w])
    /\ wk'[w].pc \in AtGame =>
          /\ wk'[w].game = g
          /\ wk'[w].state = "listening" => wk'[w].candidate = Len(plays'[g].checks) + 1

LEMMA KeepsIsSafe ==
    ASSUME IInv, NEW w \in Worker, Keeps(w), UNCHANGED plays
    PROVE  IInv'
<1>1. Typed'
  BY DEF IInv, Typed, Keeps
<1>2. NextIsHeard'
  <2>1. SUFFICES ASSUME NEW v \in Worker, wk'[v].pc \in AtGame, wk'[v].state = "listening", Owned(v)'
                 PROVE  wk'[v].candidate = Len(plays'[wk'[v].game].checks) + 1
    BY DEF NextIsHeard
  <2>2. CASE v = w
    <3>1. wk[w].pc \in AtGame /\ wk[w].state = "listening" /\ Owned(w)
      BY <2>1, <2>2 DEF Keeps, Owned
    <3>. QED
      BY <2>1, <2>2, <3>1 DEF Keeps, IInv, NextIsHeard
  <2>3. CASE v # w
    <3>1. wk'[v] = wk[v]
      BY <2>3 DEF Keeps, IInv, Typed
    <3>. QED
      BY <2>1, <3>1 DEF IInv, NextIsHeard, Owned
  <2>. QED
    BY <2>2, <2>3
<1>3. \A g \in Game : Earned(plays'[g])
  BY DEF IInv
<1>. QED
  BY <1>1, <1>2, <1>3 DEF IInv

LEMMA SavesIsSafe ==
    ASSUME IInv, NEW w \in Worker, NEW g \in Game, Saves(w, g)
    PROVE  IInv'
<1>1. Typed'
  BY DEF IInv, Typed, Saves
<1>2. NextIsHeard'
  <2>1. SUFFICES ASSUME NEW v \in Worker, wk'[v].pc \in AtGame, wk'[v].state = "listening", Owned(v)'
                 PROVE  wk'[v].candidate = Len(plays'[wk'[v].game].checks) + 1
    BY DEF NextIsHeard
  <2>2. CASE v = w
    BY <2>1, <2>2 DEF Saves
  <2>3. CASE v # w
    <3>1. wk'[v] = wk[v]
      BY <2>3 DEF Saves, IInv, Typed
    <3>2. wk[v].game # g
      BY <2>1, <3>1, NewStampIsNew DEF Saves, Owned
    <3>3. wk[v].game \in Game
      BY <2>1, <3>1 DEF IInv, Typed, IsWorker
    <3>4. plays'[wk[v].game] = plays[wk[v].game]
      BY <3>2, <3>3 DEF Saves, IInv, Typed
    <3>. QED
      BY <2>1, <3>1, <3>4 DEF IInv, NextIsHeard, Owned
  <2>. QED
    BY <2>2, <2>3
<1>3. \A h \in Game : Earned(plays'[h])
  BY DEF IInv, Saves, Typed
<1>. QED
  BY <1>1, <1>2, <1>3 DEF IInv

LEMMA GotoKeeps ==
    ASSUME IInv, NEW w \in Worker, NEW there \in AtGame, Goto(w, there),
           wk[w].pc \in AtGame, StateAt[there] = StateAt[wk[w].pc]
    PROVE  Keeps(w)
<1>. DEFINE m == wk[w]
<1>1. wk = [v \in Worker |-> wk[v]] /\ IsWorker(m)
  BY DEF IInv, Typed
<1>2. PICK S, H : m \in Memory(S, H)
  BY <1>1 DEF IsWorker
<1>3. wk'[w] = [m EXCEPT !.pc = there, !.since = 0] /\ wk' = [wk EXCEPT ![w] = wk'[w]]
  BY <1>1 DEF Goto
<1>4. /\ wk'[w] \in Memory({0}, H) /\ wk'[w].pc = there /\ wk'[w].game = m.game
      /\ wk'[w].state = m.state /\ wk'[w].stamp = m.stamp /\ wk'[w].candidate = m.candidate
  BY <1>2, <1>3 DEF Memory
<1>5. IsWorker(wk'[w])
  BY <1>1, <1>4 DEF IsWorker, AtGame
<1>. QED
  BY <1>3, <1>4, <1>5 DEF Keeps

LEMMA HeardKeeps ==
    ASSUME IInv, NEW w \in Worker, NEW what, Heard(w, what),
           wk[w].pc \in AtGame, StateAt[wk[w].pc] = "listening"
    PROVE  Keeps(w)
<1>. DEFINE m == wk[w]
<1>1. wk = [v \in Worker |-> wk[v]] /\ IsWorker(m)
  BY DEF IInv, Typed
<1>2. PICK S, H : m \in Memory(S, H)
  BY <1>1 DEF IsWorker
<1>3. /\ wk'[w] = [m EXCEPT !.pc = "heard", !.since = 0, !.heard = what]
      /\ wk' = [wk EXCEPT ![w] = wk'[w]]
  BY <1>1 DEF Heard
<1>4. "heard" \in AtGame /\ StateAt["heard"] = "listening"
  BY DEF AtGame, StateAt
<1>5. /\ wk'[w] \in Memory({0}, {what}) /\ wk'[w].pc = "heard" /\ wk'[w].game = m.game
      /\ wk'[w].state = m.state /\ wk'[w].stamp = m.stamp /\ wk'[w].candidate = m.candidate
  BY <1>2, <1>3, <1>4 DEF Memory
<1>6. IsWorker(wk'[w])
  BY <1>1, <1>4, <1>5 DEF IsWorker, AtGame
<1>. QED
  BY <1>3, <1>4, <1>5, <1>6 DEF Keeps

LEMMA StopKeeps ==
    ASSUME IInv, NEW w \in Worker, Stop(w)
    PROVE  Keeps(w) /\ wk'[w] = Idle
<1>1. wk = [v \in Worker |-> wk[v]]
  BY DEF IInv, Typed
<1>2. wk'[w] = Idle /\ wk' = [wk EXCEPT ![w] = wk'[w]]
  BY <1>1 DEF Stop
<1>3. Idle \in Memory({0}, {"nothing"})
  BY DEF Idle, Memory
<1>4. IsWorker(Idle) /\ Idle.pc \notin AtGame
  BY <1>3 DEF IsWorker, Idle, AtGame
<1>. QED
  BY <1>2, <1>4 DEF Keeps

-----------------------------------------------------------------------------
(* The saves.                                                                 *)

SafeSave(g) == /\ plays' = [plays EXCEPT ![g] = plays'[g]]
               /\ IsPlay(plays'[g]) /\ Earned(plays'[g]) /\ plays'[g].stamp = NewStamp(g)

LEMMA StopIsSafe ==
    ASSUME IInv, NEW w \in Worker, Stop(w),
           UNCHANGED plays \/ \E g \in Game : SafeSave(g)
    PROVE  IInv'
<1>1. Keeps(w) /\ wk'[w].pc \notin AtGame
  BY StopKeeps DEF Idle, AtGame
<1>2. CASE UNCHANGED plays
  BY <1>1, <1>2, KeepsIsSafe
<1>3. CASE \E g \in Game : SafeSave(g)
  <2>1. PICK g \in Game : SafeSave(g)
    BY <1>3
  <2>2. Saves(w, g)
    BY <1>1, <2>1 DEF Saves, SafeSave, Keeps
  <2>. QED
    BY <2>2, SavesIsSafe
<1>. QED
  BY <1>2, <1>3

LEMMA AvailableIsPlay ==
    ASSUME IInv, NEW g \in Game, NEW left
    PROVE  /\ IsPlay(Available(g, left)) /\ Earned(Available(g, left))
           /\ SameCourse(plays[g], Available(g, left))
           /\ Available(g, left).stamp = NewStamp(g)
<1>1. IsPlay(plays[g]) /\ Earned(plays[g])
  BY DEF IInv, Typed
<1>2. PICK L, T, R : plays[g] \in Play(L, T, R)
  BY <1>1 DEF IsPlay
<1>3. NewStamp(g) \in Nat
  BY NewStampIsNew
<1>4. /\ Available(g, left) \in Play({left}, T, R)
      /\ SameCourse(plays[g], Available(g, left)) /\ Available(g, left).stamp = NewStamp(g)
  BY <1>2, <1>3 DEF Available, Play, SameCourse
<1>. QED
  BY <1>1, <1>4 DEF IsPlay, Earned, SameCourse

LEMMA SaveIsSafe ==
    ASSUME IInv, NEW g \in Game, NEW p, Save(g, p), IsPlay(p), Earned(p), p.stamp = NewStamp(g)
    PROVE  SafeSave(g)
BY DEF IInv, Typed, Save, SafeSave

LEMMA LaterIsSafe ==
    ASSUME IInv, NEW g \in Game, NEW until, Later(g, until)
    PROVE  SafeSave(g)
BY AvailableIsPlay, SaveIsSafe DEF Later

\* The end of a play changes only its state and what delays it.
LEMMA EndsIsPlay ==
    ASSUME NEW p, IsPlay(p), NEW state \in Ended
    PROVE  /\ IsPlay(Ends(p, state)) /\ Ends(p, state).stamp = p.stamp /\ Ends(p, state).state = state
           /\ Ends(p, state).list = p.list /\ Ends(p, state).checks = p.checks
           /\ Ends(p, state).video = p.video /\ Ends(p, state).script = p.script
           /\ Ends(p, state).said = p.said
<1>1. PICK L, T, R : p \in Play(L, T, R)
  BY DEF IsPlay
<1>2. Ends(p, state) \in Play({0}, T, {RefreshAfter})
  BY <1>1 DEF Ends, Play
<1>. QED
  BY <1>1, <1>2, ZenonT(30) DEF Ends, Play, IsPlay

LEMMA ErrorIsSafe ==
    ASSUME IInv, NEW g \in Game, Error(g)
    PROVE  SafeSave(g)
<1>. DEFINE a == Available(g, Soon)
            p == [a EXCEPT !.tries = @ + 1]
<1>1. IsPlay(a) /\ Earned(a) /\ a.stamp = NewStamp(g)
  BY AvailableIsPlay
<1>2. PICK L, T, R : a \in Play(L, T, R)
  BY <1>1 DEF IsPlay
<1>3. p \in Play(L, {a.tries + 1}, R) /\ SameCourse(a, p) /\ p.stamp = a.stamp
  BY <1>2 DEF Play, SameCourse
<1>4. IsPlay(p) /\ Earned(p) /\ p.stamp = NewStamp(g)
  BY <1>1, <1>3 DEF IsPlay, Earned, SameCourse
<1>5. IsPlay(Ends(p, "failed")) /\ Earned(Ends(p, "failed")) /\ Ends(p, "failed").stamp = NewStamp(g)
  BY <1>4, EndsIsPlay DEF Ended, Earned
<1>6. Save(g, p) \/ Save(g, Ends(p, "failed"))
  BY DEF Error
<1>. QED
  BY <1>4, <1>5, <1>6, SaveIsSafe

-----------------------------------------------------------------------------
(* The steps of a worker.                                                     *)

LEMMA ClaimedIsSafe ==
    ASSUME IInv, NEW w \in Worker, NEW g \in Game, Claimed(w, g)
    PROVE  IInv'
<1>. DEFINE a == Available(g, Lease)
            state == IF a.state \in Working THEN a.state ELSE "searching"
            tries == IF state = a.state THEN a.tries ELSE 0
            p == [a EXCEPT !.state = state, !.tries = tries]
            next == IF state = "listening" THEN Len(a.checks) + 1 ELSE 0
            m == [Idle EXCEPT !.pc = First[state], !.game = g, !.state = state,
                              !.stamp = a.stamp, !.candidate = next]
<1>1. IsPlay(a) /\ Earned(a) /\ a.stamp = NewStamp(g)
  BY AvailableIsPlay
<1>2. PICK L, T, R : a \in Play(L, T, R)
  BY <1>1 DEF IsPlay
<1>3. /\ p \in Play(L, {tries}, R)
      /\ p.state = state /\ p.stamp = a.stamp /\ p.list = a.list /\ p.checks = a.checks
      /\ p.video = a.video /\ p.script = a.script /\ p.said = a.said
  BY <1>2 DEF Play, Working
<1>4. IsPlay(p) /\ Earned(p)
  <2>1. state \in {a.state, "searching"}
    OBVIOUS
  <2>. QED
    BY <1>1, <1>3, <2>1 DEF IsPlay, Earned
<1>5. Save(g, [a EXCEPT !.state = state, !.tries = IF state = a.state THEN @ ELSE 0])
      /\ wk' = [wk EXCEPT ![w] = m]
  BY DEF Claimed
<1>6. Save(g, p)
  BY <1>2, <1>5 DEF Play
<1>7. SafeSave(g) /\ plays'[g] = p
  BY <1>1, <1>3, <1>4, <1>6, SaveIsSafe, ZenonT(30) DEF Save, IInv, Typed
<1>8. state \in {"searching", "listening", "concluding"}
  BY DEF Working
<1>9. /\ First[state] \in AtGame /\ StateAt[First[state]] = state
      /\ First[state] \in {"search", "page", "conclude"}
  <2>1. CASE state = "searching"
    BY <2>1 DEF First, AtGame, StateAt
  <2>2. CASE state = "listening"
    BY <2>2 DEF First, AtGame, StateAt
  <2>3. CASE state = "concluding"
    BY <2>3 DEF First, AtGame, StateAt
  <2>. QED
    BY <1>8, <2>1, <2>2, <2>3
<1>10. a.stamp \in Nat /\ next \in Nat
  BY <1>2 DEF Play
<1>11. wk'[w] = m /\ wk' = [wk EXCEPT ![w] = wk'[w]]
  <2>. HIDE DEF m
  <2>. QED
    BY <1>5 DEF IInv, Typed
<1>12. /\ m \in Memory({0}, {"nothing"}) /\ m.pc = First[state] /\ m.game = g /\ m.state = state
       /\ m.candidate = next /\ m.stamp = a.stamp
  <2>. HIDE DEF a, state, next
  <2>. QED
    BY <1>8, <1>9, <1>10 DEF Idle, Memory, Working
<1>13. IsWorker(wk'[w])
  <2>. HIDE DEF m, a, state, next
  <2>. QED
    BY <1>9, <1>11, <1>12 DEF IsWorker, AtGame
<1>14. Saves(w, g)
  <2>. HIDE DEF m, a, state
  <2>. QED
    BY <1>3, <1>7, <1>9, <1>11, <1>12, <1>13 DEF Saves, SafeSave
<1>. QED
  BY <1>14, SavesIsSafe

LEMMA GameOfWorker ==
    ASSUME IInv, NEW w \in Worker, wk[w].pc \in AtGame
    PROVE  wk[w].game \in Game
BY DEF IInv, Typed, IsWorker

LEMMA AdmitOrLaterIsSafe ==
    ASSUME IInv, NEW w \in Worker, NEW k, NEW there \in AtGame, AdmitOrLater(w, k, there),
           wk[w].pc \in AtGame, StateAt[there] = StateAt[wk[w].pc]
    PROVE  IInv'
<1>1. CASE Goto(w, there) /\ UNCHANGED plays
  BY <1>1, GotoKeeps, KeepsIsSafe
<1>2. CASE \E until : Later(wk[w].game, until) /\ Stop(w)
  BY <1>2, LaterIsSafe, StopIsSafe, GameOfWorker
<1>. QED
  BY <1>1, <1>2 DEF AdmitOrLater

LEMMA HeardInOrder ==
    ASSUME NEW s \in Seq(Nat), \A i \in DOMAIN s : s[i] = i
    PROVE  LET t == Append(s, Len(s) + 1) IN
           /\ t \in Seq(Nat) /\ Len(t) = Len(s) + 1 /\ Len(t) \in Nat
           /\ \A i \in DOMAIN t : t[i] = i
<1>1. Len(s) \in Nat /\ DOMAIN s = 1..Len(s)
  OBVIOUS
<1>2. /\ Append(s, Len(s) + 1) \in Seq(Nat) /\ Len(Append(s, Len(s) + 1)) = Len(s) + 1
      /\ DOMAIN Append(s, Len(s) + 1) = 1..(Len(s) + 1)
  BY <1>1
<1>3. \A i \in 1..(Len(s) + 1) : Append(s, Len(s) + 1)[i] = i
  BY <1>1
<1>. QED
  BY <1>1, <1>2, <1>3

LEMMA ListenedIsSafe ==
    ASSUME IInv, NEW w \in Worker, Listened(w)
    PROVE  IInv'
<1>. DEFINE g == wk[w].game
            a == Available(g, 0)
            next == Append(plays[g].checks, wk[w].candidate)
            p == [a EXCEPT !.checks = next]
            q == [p EXCEPT !.state = "concluding", !.video = wk[w].candidate,
                           !.script = TRUE, !.said = FALSE, !.tries = 0]
<1>1. wk[w].pc = "heard" /\ "heard" \in AtGame /\ StateAt["heard"] = "listening"
  BY DEF Listened, At, AtGame, StateAt
<1>2. g \in Game /\ wk[w].state = "listening" /\ wk[w].candidate \in Nat
  <2>1. IsWorker(wk[w])
    BY DEF IInv, Typed
  <2>2. PICK S, H : wk[w] \in Memory(S, H)
    BY <2>1 DEF IsWorker
  <2>3. wk[w].candidate \in Nat
    BY <2>2 DEF Memory
  <2>. QED
    BY <1>1, <2>1, <2>3 DEF IsWorker
<1>3. Stop(w)
  BY DEF Listened, IfOwned
<1>4. CASE UNCHANGED plays
  BY <1>3, <1>4, StopIsSafe
<1>5. CASE Error(g) \/ \E until : Later(g, until)
  BY <1>2, <1>3, <1>5, ErrorIsSafe, LaterIsSafe, StopIsSafe
<1>6. CASE /\ Owned(w)
           /\ \/ Save(g, IF Len(next) >= plays[g].list THEN Ends(p, "not_found") ELSE p)
              \/ Save(g, q)
  <2>1. IsPlay(a) /\ Earned(a) /\ SameCourse(plays[g], a) /\ a.stamp = NewStamp(g)
    BY <1>2, AvailableIsPlay
  <2>2. PICK L, T, R : a \in Play(L, T, R)
    BY <2>1 DEF IsPlay
  <2>3. /\ wk[w].candidate = Len(a.checks) + 1 /\ a.state = "listening"
        /\ next = Append(a.checks, wk[w].candidate) /\ a.list = plays[g].list
    BY <1>1, <1>2, <1>6, <2>1 DEF IInv, NextIsHeard, Owned, SameCourse
  <2>4. /\ next \in Seq(Nat) /\ Len(next) = Len(a.checks) + 1 /\ Len(next) \in Nat
        /\ \A i \in DOMAIN next : next[i] = i
    <3>1. a.checks \in Seq(Nat) /\ \A i \in DOMAIN a.checks : a.checks[i] = i
      BY <2>1, <2>2 DEF Play, Earned
    <3>. QED
      BY <2>3, <3>1, HeardInOrder
  <2>5. /\ p \in Play(L, T, R) /\ p.stamp = NewStamp(g)
        /\ p.state = a.state /\ p.list = a.list /\ p.checks = next /\ p.video = a.video
        /\ p.script = a.script /\ p.said = a.said
    BY <2>1, <2>2, <2>4 DEF Play
  <2>6. IsPlay(p)
    BY <2>5 DEF IsPlay
  <2>7. /\ a.list \in Nat /\ Len(a.checks) \in Nat /\ Len(a.checks) < a.list
        /\ ~a.script /\ a.video = 0 /\ ~a.said
    <3>1. a.list \in Nat /\ a.checks \in Seq(Nat)
      BY <2>2 DEF Play
    <3>2. Len(a.checks) < a.list /\ ~a.script
      BY <2>1, <2>3 DEF Earned
    <3>3. a.video = 0 /\ ~a.said
      BY <2>1, <3>2 DEF Earned
    <3>. QED
      BY <3>1, <3>2, <3>3
  <2>8. CASE Save(g, p) /\ ~(Len(next) >= a.list)
    <3>1. Earned(p)
      <4>. HIDE DEF next, p, a
      <4>. QED
        BY <2>3, <2>4, <2>5, <2>7, <2>8 DEF Earned
    <3>. QED
      BY <1>2, <1>3, <2>5, <2>6, <2>8, <3>1, SaveIsSafe, StopIsSafe
  <2>9. CASE Save(g, Ends(p, "not_found")) /\ Len(next) >= a.list
    <3>1. /\ IsPlay(Ends(p, "not_found")) /\ Ends(p, "not_found").stamp = p.stamp
          /\ Ends(p, "not_found").state = "not_found" /\ Ends(p, "not_found").list = a.list
          /\ Ends(p, "not_found").checks = next /\ Ends(p, "not_found").video = 0
          /\ ~Ends(p, "not_found").script /\ ~Ends(p, "not_found").said
      BY <2>5, <2>6, <2>7, EndsIsPlay DEF Ended
    <3>2. Earned(Ends(p, "not_found"))
      <4>1. Len(next) = a.list
        BY <2>4, <2>7, <2>9
      <4>. HIDE DEF next, p, a
      <4>. QED
        BY <2>4, <2>7, <3>1, <4>1 DEF Earned
    <3>. QED
      BY <1>2, <1>3, <2>5, <2>9, <3>1, <3>2, SaveIsSafe, StopIsSafe
  <2>10. CASE Save(g, q)
    <3>1. /\ q \in Play(L, {0}, R) /\ q.stamp = p.stamp /\ q.state = "concluding"
          /\ q.list = a.list /\ q.checks = next /\ q.video = wk[w].candidate
          /\ q.script = TRUE /\ q.said = FALSE
      BY <1>2, <2>5 DEF Play, Working
    <3>2. IsPlay(q)
      BY <3>1 DEF IsPlay
    <3>3. Earned(q)
      <4>. HIDE DEF next, p, a, q
      <4>. QED
        BY <2>3, <2>4, <2>7, <3>1 DEF Earned
    <3>. QED
      BY <1>2, <1>3, <2>5, <2>10, <3>1, <3>2, <3>3, SaveIsSafe, StopIsSafe
  <2>. QED
    BY <1>6, <2>3, <2>8, <2>9, <2>10
<1>. QED
  BY <1>4, <1>5, <1>6 DEF Listened, IfOwned

LEMMA SearchAnswersIsSafe ==
    ASSUME IInv, NEW w \in Worker, SearchAnswers(w)
    PROVE  IInv'
<1>. DEFINE g == wk[w].game
            a == Available(g, 0)
            p(n) == [a EXCEPT !.list = n, !.checks = <<>>, !.video = 0, !.tries = 0,
                              !.script = FALSE, !.said = FALSE]
            q(n) == [p(n) EXCEPT !.state = "listening"]
<1>1. g \in Game
  BY GameOfWorker DEF SearchAnswers, At, AtGame
<1>2. Stop(w)
  BY DEF SearchAnswers, IfOwned
<1>3. CASE UNCHANGED plays
  BY <1>2, <1>3, StopIsSafe
<1>4. CASE \E n \in 0..MaxListens : Save(g, IF n > 0 THEN q(n) ELSE Ends(p(n), "not_found"))
  <2>1. PICK n \in 0..MaxListens : Save(g, IF n > 0 THEN q(n) ELSE Ends(p(n), "not_found"))
    BY <1>4
  <2>2. IsPlay(a) /\ a.stamp = NewStamp(g)
    BY <1>1, AvailableIsPlay
  <2>3. PICK L, T, R : a \in Play(L, T, R)
    BY <2>2 DEF IsPlay
  <2>4. n \in Nat
    BY LetsPlaysAssumption
  <2>5. /\ p(n) \in Play(L, {0}, R) /\ p(n).stamp = a.stamp /\ p(n).list = n
        /\ p(n).checks = <<>> /\ p(n).video = 0 /\ p(n).script = FALSE /\ p(n).said = FALSE
    <3>1. <<>> \in Seq(Nat)
      OBVIOUS
    <3>. HIDE DEF a
    <3>. QED
      BY <2>3, <2>4, <3>1 DEF Play
  <2>6. CASE n > 0 /\ Save(g, q(n))
    <3>1. /\ q(n) \in Play(L, {0}, R) /\ q(n).stamp = a.stamp /\ q(n).state = "listening"
          /\ q(n).list = n /\ q(n).checks = <<>> /\ q(n).video = 0 /\ q(n).script = FALSE
          /\ q(n).said = FALSE
      <4>. HIDE DEF p
      <4>. QED
        BY <2>5 DEF Play, Working
    <3>2. IsPlay(q(n))
      BY <3>1 DEF IsPlay
    <3>3. Earned(q(n))
      <4>. HIDE DEF p, q
      <4>. QED
        BY <2>4, <2>6, <3>1 DEF Earned
    <3>. QED
      BY <1>1, <1>2, <2>2, <2>6, <3>1, <3>2, <3>3, SaveIsSafe, StopIsSafe
  <2>7. CASE n = 0 /\ Save(g, Ends(p(n), "not_found"))
    <3>. DEFINE e == Ends(p(n), "not_found")
    <3>1. IsPlay(p(n))
      BY <2>5 DEF IsPlay
    <3>2. /\ IsPlay(e) /\ e.stamp = a.stamp /\ e.state = "not_found" /\ e.list = 0
          /\ e.checks = <<>> /\ e.video = 0 /\ e.script = FALSE /\ e.said = FALSE
      <4>. HIDE DEF p
      <4>. QED
        BY <2>5, <2>7, <3>1, EndsIsPlay DEF Ended
    <3>3. Earned(e)
      <4>. HIDE DEF e
      <4>. QED
        BY <3>2 DEF Earned
    <3>. QED
      BY <1>1, <1>2, <2>2, <2>7, <3>2, <3>3, SaveIsSafe, StopIsSafe
  <2>. QED
    BY <2>1, <2>4, <2>6, <2>7
<1>. QED
  BY <1>3, <1>4 DEF SearchAnswers, IfOwned

LEMMA ChatIsSafe ==
    ASSUME IInv, NEW w \in Worker, Chat(w)
    PROVE  IInv'
<1>. DEFINE g == wk[w].game
            a == Available(g, 0)
            p == [a EXCEPT !.said = TRUE, !.tries = 0]
            e == Ends(p, "done")
<1>1. wk[w].pc = "chat" /\ "chat" \in AtGame /\ StateAt["chat"] = "concluding"
  BY DEF Chat, At, AtGame, StateAt
<1>2. g \in Game /\ wk[w].state = "concluding"
  BY <1>1 DEF IInv, Typed, IsWorker
<1>3. Stop(w)
  BY DEF Chat, IfOwned
<1>4. CASE UNCHANGED plays
  BY <1>3, <1>4, StopIsSafe
<1>5. CASE Error(g) \/ \E until : Later(g, until)
  BY <1>2, <1>3, <1>5, ErrorIsSafe, LaterIsSafe, StopIsSafe
<1>6. CASE Owned(w) /\ Save(g, e)
  <2>1. IsPlay(a) /\ Earned(a) /\ SameCourse(plays[g], a) /\ a.stamp = NewStamp(g)
    BY <1>2, AvailableIsPlay
  <2>2. PICK L, T, R : a \in Play(L, T, R)
    BY <2>1 DEF IsPlay
  <2>3. a.state = "concluding" /\ a.script
    BY <1>2, <1>6, <2>1 DEF Owned, SameCourse, Earned
  <2>4. /\ p \in Play(L, {0}, R) /\ p.stamp = a.stamp /\ p.list = a.list /\ p.checks = a.checks
        /\ p.video = a.video /\ p.script = a.script /\ p.said = TRUE
    <3>. HIDE DEF a
    <3>. QED
      BY <2>2 DEF Play
  <2>5. /\ IsPlay(e) /\ e.stamp = a.stamp /\ e.state = "done" /\ e.list = a.list
        /\ e.checks = a.checks /\ e.video = a.video /\ e.script = a.script /\ e.said = TRUE
    <3>1. IsPlay(p)
      BY <2>4 DEF IsPlay
    <3>. HIDE DEF p, a
    <3>. QED
      BY <2>4, <3>1, EndsIsPlay DEF Ended
  <2>6. Earned(e)
    <3>. HIDE DEF e, a
    <3>. QED
      BY <2>1, <2>3, <2>5 DEF Earned
  <2>. QED
    BY <1>2, <1>3, <1>6, <2>1, <2>5, <2>6, SaveIsSafe, StopIsSafe
<1>. QED
  BY <1>4, <1>5, <1>6 DEF Chat, IfOwned

LEMMA EnrolIsSafe ==
    ASSUME IInv, NEW w \in Worker, Enrol(w)
    PROVE  IInv'
<1>1. CASE Stop(w) /\ UNCHANGED plays
  BY <1>1, StopIsSafe
<1>2. CASE New # {} /\ Claimed(w, Min(New))
  <2>1. New \subseteq Game /\ New \subseteq Nat
    BY LetsPlaysAssumption DEF New
  <2>2. Min(New) \in Game
    BY <1>2, <2>1, MinOfNat
  <2>. QED
    BY <1>2, <2>2, ClaimedIsSafe
<1>. QED
  BY <1>1, <1>2 DEF Enrol

LEMMA LookForNewIsSafe ==
    ASSUME IInv, NEW w \in Worker, LookForNew(w)
    PROVE  IInv'
<1>. DEFINE m == wk[w]
<1>1. wk = [v \in Worker |-> wk[v]] /\ IsWorker(m) /\ m.pc = "idle"
  BY DEF IInv, Typed, LookForNew, At
<1>2. PICK S, H : m \in Memory(S, H)
  BY <1>1 DEF IsWorker
<1>3. wk'[w] = [m EXCEPT !.pc = "enrol", !.since = 0] /\ wk' = [wk EXCEPT ![w] = wk'[w]]
  BY <1>1 DEF LookForNew, Goto
<1>4. wk'[w] \in Memory({0}, H) /\ wk'[w].pc = "enrol" /\ wk'[w].game = m.game
  BY <1>2, <1>3 DEF Memory
<1>5. IsWorker(wk'[w]) /\ wk'[w].pc \notin AtGame
  BY <1>1, <1>4 DEF IsWorker, AtGame
<1>6. Keeps(w)
  BY <1>3, <1>5 DEF Keeps
<1>. QED
  BY <1>6, KeepsIsSafe DEF LookForNew

\* The steps between two calls save nothing.
LEMMA CallKeeps ==
    ASSUME IInv, NEW w \in Worker,
           \/ AdmitPage(w) \/ Facts(w) \/ AdmitCaptions(w) \/ Captions(w)
           \/ AdmitAudio(w) \/ Whisper(w)
    PROVE  Keeps(w) /\ UNCHANGED plays
<1>. DEFINE Here == {"page", "facts", "caption", "captions", "audio", "whisper"}
<1>1. /\ Here \subseteq AtGame
      /\ \A here \in Here : StateAt[here] = "listening"
  BY DEF AtGame, StateAt
<1>2. wk[w].pc \in Here
  BY DEF AdmitPage, Facts, AdmitCaptions, Captions, AdmitAudio, Whisper, At
<1>3. (\E there \in Here : Goto(w, there)) \/ (\E what : Heard(w, what))
  <2>1. CASE AdmitPage(w)
    BY <2>1 DEF AdmitPage
  <2>2. CASE Facts(w)
    BY <2>2 DEF Facts
  <2>3. CASE AdmitCaptions(w)
    BY <2>3 DEF AdmitCaptions, WithoutCaptions
  <2>4. CASE Captions(w)
    BY <2>4 DEF Captions, WithoutCaptions
  <2>5. CASE AdmitAudio(w)
    BY <2>5 DEF AdmitAudio
  <2>6. CASE Whisper(w)
    BY <2>6 DEF Whisper
  <2>. QED
    BY <2>1, <2>2, <2>3, <2>4, <2>5, <2>6
<1>4. Keeps(w)
  <2>1. CASE \E there \in Here : Goto(w, there)
    BY <1>1, <1>2, <2>1, GotoKeeps
  <2>2. CASE \E what : Heard(w, what)
    BY <1>1, <1>2, <2>2, HeardKeeps
  <2>. QED
    BY <1>3, <2>1, <2>2
<1>5. UNCHANGED plays
  BY DEF AdmitPage, Facts, AdmitCaptions, Captions, AdmitAudio, Whisper
<1>. QED
  BY <1>4, <1>5

LEMMA WorkerStepIsSafe ==
    ASSUME IInv, NEW w \in Worker, Step(w) \/ Crash(w)
    PROVE  IInv'
<1>1. ASSUME wk[w].pc \in AtGame
      PROVE  wk[w].game \in Game
  BY <1>1, GameOfWorker
<1>2. CASE ClaimDue(w)
  BY <1>2, ClaimedIsSafe DEF ClaimDue, Due
<1>3. CASE LookForNew(w)
  BY <1>3, LookForNewIsSafe
<1>4. CASE Enrol(w)
  BY <1>4, EnrolIsSafe
<1>5. CASE AdmitSearch(w)
  BY <1>5, AdmitOrLaterIsSafe DEF AdmitSearch, At, AtGame, StateAt
<1>6. CASE SearchFails(w)
  <2>1. wk[w].game \in Game /\ Stop(w)
    BY <1>1, <1>6 DEF SearchFails, At, AtGame, IfOwned
  <2>2. UNCHANGED plays \/ SafeSave(wk[w].game)
    BY <1>6, <2>1, LaterIsSafe, ErrorIsSafe DEF SearchFails, IfOwned
  <2>. QED
    BY <2>1, <2>2, StopIsSafe
<1>7. CASE SearchAnswers(w)
  BY <1>7, SearchAnswersIsSafe
<1>8. CASE \/ AdmitPage(w) \/ Facts(w) \/ AdmitCaptions(w) \/ Captions(w)
           \/ AdmitAudio(w) \/ Whisper(w)
  BY <1>8, CallKeeps, KeepsIsSafe
<1>9. CASE Listened(w)
  BY <1>9, ListenedIsSafe
<1>10. CASE TooLong(w)
  <2>1. wk[w].game \in Game /\ Stop(w)
    BY <1>1, <1>10 DEF TooLong, At, AtGame, IfOwned
  <2>2. UNCHANGED plays \/ SafeSave(wk[w].game)
    BY <1>10, <2>1, ErrorIsSafe DEF TooLong, IfOwned
  <2>. QED
    BY <2>1, <2>2, StopIsSafe
<1>11. CASE AdmitChat(w)
  BY <1>11, AdmitOrLaterIsSafe DEF AdmitChat, At, AtGame, StateAt
<1>12. CASE Chat(w)
  BY <1>12, ChatIsSafe
<1>13. CASE Crash(w)
  BY <1>13, StopIsSafe DEF Crash
<1>. QED
  BY <1>2, <1>3, <1>4, <1>5, <1>6, <1>7, <1>8, <1>9, <1>10, <1>11, <1>12, <1>13 DEF Step

\* Time passes: only what delays a game and the age of a clock reading change.
LEMMA TickIsSafe ==
    ASSUME IInv, Tick
    PROVE  IInv'
<1>1. ASSUME NEW g \in Game
      PROVE  /\ IsPlay(plays'[g]) /\ SameCourse(plays[g], plays'[g])
             /\ plays'[g].stamp = plays[g].stamp
  <2>1. PICK L, T, R : plays[g] \in Play(L, T, R)
    BY DEF IInv, Typed, IsPlay
  <2>2. PICK l, r : plays'[g] = [plays[g] EXCEPT !.left = l, !.refresh = r]
    BY DEF Tick
  <2>3. /\ plays'[g] \in Play({l}, T, {r}) /\ SameCourse(plays[g], plays'[g])
        /\ plays'[g].stamp = plays[g].stamp
    BY <2>1, <2>2 DEF Play, SameCourse
  <2>. QED
    BY <2>3 DEF IsPlay
<1>2. ASSUME NEW w \in Worker
      PROVE  /\ IsWorker(wk'[w]) /\ wk'[w].pc = wk[w].pc /\ wk'[w].game = wk[w].game
             /\ wk'[w].state = wk[w].state /\ wk'[w].stamp = wk[w].stamp
             /\ wk'[w].candidate = wk[w].candidate
  <2>1. IsWorker(wk[w])
    BY DEF IInv, Typed
  <2>2. PICK S, H : wk[w] \in Memory(S, H)
    BY <2>1 DEF IsWorker
  <2>3. PICK n : wk'[w] = [wk[w] EXCEPT !.since = n]
    BY DEF Tick
  <2>4. /\ wk'[w] \in Memory({n}, H) /\ wk'[w].pc = wk[w].pc /\ wk'[w].game = wk[w].game
        /\ wk'[w].state = wk[w].state /\ wk'[w].stamp = wk[w].stamp
        /\ wk'[w].candidate = wk[w].candidate
    BY <2>2, <2>3 DEF Memory
  <2>. QED
    BY <2>1, <2>4 DEF IsWorker
<1>3. Typed'
  BY <1>1, <1>2 DEF Tick, Typed
<1>4. NextIsHeard'
  <2>1. SUFFICES ASSUME NEW w \in Worker, wk'[w].pc \in AtGame, wk'[w].state = "listening", Owned(w)'
                 PROVE  wk'[w].candidate = Len(plays'[wk'[w].game].checks) + 1
    BY DEF NextIsHeard
  <2>2. wk[w].game \in Game
    BY <1>2, <2>1, GameOfWorker
  <2>3. Owned(w)
    BY <1>1, <1>2, <2>1, <2>2 DEF Owned, SameCourse
  <2>4. wk[w].candidate = Len(plays[wk[w].game].checks) + 1
    BY <1>2, <2>1, <2>3 DEF IInv, NextIsHeard
  <2>5. /\ wk'[w].game = wk[w].game /\ wk'[w].candidate = wk[w].candidate
        /\ plays'[wk[w].game].checks = plays[wk[w].game].checks
    BY <1>1, <1>2, <2>2 DEF SameCourse
  <2>. QED
    BY <2>4, <2>5
<1>5. \A g \in Game : Earned(plays'[g])
  BY <1>1 DEF IInv, Earned, SameCourse
<1>. QED
  BY <1>3, <1>4, <1>5 DEF IInv

LEMMA InitIsSafe == Init => IInv
<1>. SUFFICES ASSUME Init PROVE IInv
  OBVIOUS
<1>1. ASSUME NEW g \in Game
      PROVE  IsPlay(plays[g]) /\ Earned(plays[g])
  <2>1. plays[g] = [state |-> "new", left |-> 0, stamp |-> 0, tries |-> 0, refresh |-> 0,
                    list |-> 0, checks |-> <<>>, video |-> 0, script |-> FALSE, said |-> FALSE]
    BY DEF Init
  <2>2. plays[g] \in Play({0}, {0}, {0})
    BY <2>1 DEF Play
  <2>. QED
    BY <2>1, <2>2 DEF IsPlay, Earned
<1>2. ASSUME NEW w \in Worker
      PROVE  IsWorker(wk[w]) /\ wk[w].pc \notin AtGame
  <2>1. wk[w] = Idle
    BY DEF Init
  <2>2. Idle \in Memory({0}, {"nothing"})
    BY DEF Idle, Memory
  <2>. QED
    BY <2>1, <2>2 DEF IsWorker, Idle, AtGame
<1>3. Typed
  BY <1>1, <1>2 DEF Init, Typed
<1>. QED
  BY <1>1, <1>2, <1>3 DEF IInv, NextIsHeard

LEMMA NextIsSafe == IInv /\ [Next]_vars => IInv'
<1>. SUFFICES ASSUME IInv, [Next]_vars PROVE IInv'
  OBVIOUS
<1>1. CASE \E w \in Worker : Step(w) \/ Crash(w)
  BY <1>1, WorkerStepIsSafe
<1>2. CASE Tick
  BY <1>2, TickIsSafe
<1>3. CASE UNCHANGED vars
  <2>1. plays' = plays /\ wk' = wk
    BY <1>3 DEF vars
  <2>. QED
    BY <2>1 DEF IInv, Typed, NextIsHeard, Owned
<1>. QED
  BY <1>1, <1>2, <1>3 DEF Next

\* The invariant holds in every reachable state.
THEOREM InvariantHolds == Spec => []IInv
BY InitIsSafe, NextIsSafe, PTL DEF Spec

\* The state of a game is what it went through: its candidates were heard in order and once,
\* and its conclusion is about the video heard last, whichever worker took it over and when.
THEOREM StateIsEarnedHolds == Spec => []StateIsEarned
<1>1. IInv => StateIsEarned
  BY EarnedIsEarned DEF IInv
<1>. QED
  BY <1>1, InvariantHolds, PTL

-----------------------------------------------------------------------------
(* A lost claim.                                                              *)

\* A save that leaves of a game all but its turn as it was.
OnlyDelays(g) == plays'[g] = [plays[g] EXCEPT !.left = plays'[g].left, !.stamp = plays'[g].stamp]

LEMMA UnchangedDelays ==
    ASSUME IInv, NEW g \in Game, plays'[g] = plays[g]
    PROVE  OnlyDelays(g)
<1>1. PICK L, T, R : plays[g] \in Play(L, T, R)
  BY DEF IInv, Typed, IsPlay
<1>. QED
  BY <1>1 DEF Play, OnlyDelays

LEMMA LaterDelays ==
    ASSUME IInv, NEW g \in Game, NEW until, Later(g, until)
    PROVE  OnlyDelays(g)
<1>1. PICK L, T, R : plays[g] \in Play(L, T, R)
  BY DEF IInv, Typed, IsPlay
<1>2. plays'[g] = [plays[g] EXCEPT !.left = until, !.stamp = NewStamp(g)]
  BY DEF Later, Save, Available, IInv, Typed
<1>3. plays'[g].left = until /\ plays'[g].stamp = NewStamp(g)
  BY <1>1, <1>2 DEF Play
<1>. QED
  BY <1>2, <1>3 DEF OnlyDelays

LEMMA LostStepDelays ==
    ASSUME IInv, NEW w \in Worker, Step(w) \/ Crash(w), wk[w].game # NoGame, ~Owned(w)
    PROVE  OnlyDelays(wk[w].game)
<1>. DEFINE g == wk[w].game
<1>1. IsWorker(wk[w])
  BY DEF IInv, Typed
<1>2. wk[w].pc \in AtGame /\ g \in Game
  <2>1. PICK S, H : wk[w] \in Memory(S, H)
    BY <1>1 DEF IsWorker
  <2>2. wk[w].pc \in {"idle", "enrol"} \cup AtGame /\ g \in Game \cup {NoGame}
    BY <2>1 DEF Memory
  <2>. QED
    BY <1>1, <2>2 DEF IsWorker
<1>3. wk[w].pc \notin {"idle", "enrol"}
  BY <1>2 DEF AtGame
<1>4. CASE plays' = plays
  BY <1>2, <1>4, UnchangedDelays
<1>5. CASE \E until : Later(g, until)
  BY <1>2, <1>5, LaterDelays
<1>6. CASE \/ AdmitSearch(w) \/ AdmitChat(w)
  BY <1>4, <1>5, <1>6 DEF AdmitSearch, AdmitChat, AdmitOrLater
<1>7. CASE \/ SearchFails(w) \/ SearchAnswers(w) \/ Listened(w) \/ TooLong(w) \/ Chat(w)
  BY <1>4, <1>7 DEF SearchFails, SearchAnswers, Listened, TooLong, Chat, IfOwned
<1>8. CASE \/ AdmitPage(w) \/ Facts(w) \/ AdmitCaptions(w) \/ Captions(w)
           \/ AdmitAudio(w) \/ Whisper(w)
  BY <1>4, <1>8, CallKeeps
<1>9. CASE ClaimDue(w) \/ LookForNew(w) \/ Enrol(w)
  BY <1>3, <1>9 DEF ClaimDue, LookForNew, Enrol, At
<1>10. CASE Crash(w)
  BY <1>4, <1>10 DEF Crash
<1>. QED
  BY <1>6, <1>7, <1>8, <1>9, <1>10 DEF Step

\* Only the worker of a step changes its place.
LEMMA OnlyOneMoves ==
    ASSUME IInv, [Next]_vars, NEW w \in Worker, wk'[w].pc # wk[w].pc
    PROVE  Step(w) \/ Crash(w)
<1>1. CASE \E v \in Worker : Step(v) \/ Crash(v)
  <2>1. PICK v \in Worker : Step(v) \/ Crash(v)
    BY <1>1
  <2>2. \E m : wk' = [wk EXCEPT ![v] = m]
    <3>1. \/ wk' = [wk EXCEPT ![v] = Idle]
          \/ \E there : wk' = [wk EXCEPT ![v].pc = there, ![v].since = 0]
          \/ \E what : wk' = [wk EXCEPT ![v].pc = "heard", ![v].since = 0, ![v].heard = what]
          \/ \E g : Claimed(v, g)
      <4>1. Stop(v) \/ (\E there : Goto(v, there)) \/ (\E what : Heard(v, what)) \/ (\E g : Claimed(v, g))
        <5>1. CASE ClaimDue(v) \/ LookForNew(v) \/ Enrol(v)
          BY <5>1 DEF ClaimDue, LookForNew, Enrol
        <5>2. CASE AdmitSearch(v) \/ AdmitChat(v)
          BY <5>2 DEF AdmitSearch, AdmitChat, AdmitOrLater
        <5>3. CASE \/ SearchFails(v) \/ SearchAnswers(v) \/ Listened(v) \/ TooLong(v) \/ Chat(v)
                   \/ Crash(v)
          BY <5>3 DEF SearchFails, SearchAnswers, Listened, TooLong, Chat, IfOwned, Crash
        <5>4. CASE AdmitPage(v) \/ Facts(v)
          BY <5>4 DEF AdmitPage, Facts
        <5>5. CASE AdmitCaptions(v) \/ Captions(v)
          BY <5>5 DEF AdmitCaptions, Captions, WithoutCaptions
        <5>6. CASE AdmitAudio(v) \/ Whisper(v)
          BY <5>6 DEF AdmitAudio, Whisper
        <5>. QED
          BY <2>1, <5>1, <5>2, <5>3, <5>4, <5>5, <5>6 DEF Step
      <4>. QED
        BY <4>1 DEF Stop, Goto, Heard
    <3>. QED
      BY <3>1 DEF Claimed
  <2>3. w = v
    BY <2>2 DEF IInv, Typed
  <2>. QED
    BY <2>1, <2>3
<1>2. CASE Tick
  <2>1. PICK S, H : wk[w] \in Memory(S, H)
    BY DEF IInv, Typed, IsWorker
  <2>2. PICK n : wk'[w] = [wk[w] EXCEPT !.since = n]
    BY <1>2 DEF Tick
  <2>. QED
    BY <2>1, <2>2 DEF Memory
<1>3. CASE UNCHANGED vars
  BY <1>3 DEF vars
<1>. QED
  BY <1>1, <1>2, <1>3 DEF Next

\* A worker whose claim was taken over changes nothing of the game but its turn.
THEOREM LostClaimDelays == Spec => LostClaimOnlyDelays
<1>1. ASSUME IInv, [Next]_vars
      PROVE  \A w \in Worker : \A g \in {wk[w].game} \ {NoGame} :
                plays[g].stamp # wk[w].stamp /\ wk'[w].pc # wk[w].pc =>
                plays'[g] = [plays[g] EXCEPT !.left = plays'[g].left, !.stamp = plays'[g].stamp]
  <2>1. SUFFICES ASSUME NEW w \in Worker, wk[w].game # NoGame,
                        plays[wk[w].game].stamp # wk[w].stamp, wk'[w].pc # wk[w].pc
                 PROVE  OnlyDelays(wk[w].game)
    BY DEF OnlyDelays
  <2>2. ~Owned(w)
    BY <2>1 DEF Owned
  <2>3. Step(w) \/ Crash(w)
    BY <1>1, <2>1, OnlyOneMoves
  <2>. QED
    BY <1>1, <2>1, <2>2, <2>3, LostStepDelays
<1>2. IInv /\ [Next]_vars =>
        [\A w \in Worker : \A g \in {wk[w].game} \ {NoGame} :
            plays[g].stamp # wk[w].stamp /\ wk'[w].pc # wk[w].pc =>
            plays'[g] = [plays[g] EXCEPT !.left = plays'[g].left, !.stamp = plays'[g].stamp]]_vars
  BY <1>1
<1>. QED
  BY <1>2, InvariantHolds, PTL DEF Spec, LostClaimOnlyDelays

-----------------------------------------------------------------------------
(* The budgets.  A window that ends now may be full; one that ended earlier holds what a *)
(* window held when it ended.  A call may be recorded later than its clock says, and then *)
(* the admission has counted every call of the windows it falls in, and those since.     *)

Recorder == made = [k \in Kind |-> [a \in Age(k) |-> made[k][a]]]
            /\ \A k \in Kind : \A a \in Age(k) : made[k][a] \in Nat
LagsBounded == \A w \in Worker : wk[w].since \in 0..MaxLag
BInv == Recorder /\ LagsBounded /\ BudgetKept

LEMMA Budgets ==
    /\ Units \in [Kind -> Nat \ {0}] /\ MaxLag \in Nat
    /\ \A k \in Kind : /\ IsFiniteSet(Limits[k])
                       /\ Limits[k] \subseteq [span : Nat \ {0}, calls : Nat \ {0}, units : Nat \ {0}]
<1>1. /\ Units \in [Kind -> Nat \ {0}] /\ MaxLag \in Nat
      /\ \A k \in Kind : IsFiniteSet(Limits[k])
      /\ Limits \in [Kind -> SUBSET [span : Nat \ {0}, calls : Nat \ {0}, units : Nat \ {0}]]
  BY LetsPlaysAssumption
<1>. QED
  BY <1>1

LEMMA AgeIsInterval ==
    ASSUME NEW k \in Kind, NEW win \in Limits[k]
    PROVE  \E m \in Int : Age(k) = 0..m
<1>. DEFINE Spans == {v.span : v \in Limits[k]}
            h == [v \in Limits[k] |-> v.span]
<1>1. IsFiniteSet(Limits[k]) /\ Spans \subseteq Nat /\ Spans # {}
  BY Budgets
<1>2. h \in Surjection(Limits[k], Spans)
  BY DEF Surjection
<1>3. IsFiniteSet(Spans)
  BY <1>1, <1>2, FS_Surjection
<1>4. Max(Spans) \in Nat
  BY <1>1, <1>3, MaxOfNat
<1>5. Age(k) = 0..(Max(Spans) + MaxLag - 1)
  BY DEF Age, Ages
<1>. PICK m : m = Max(Spans) + MaxLag - 1
  OBVIOUS
<1>6. m \in Int /\ Age(k) = 0..m
  BY <1>4, <1>5, Budgets
<1>. QED
  BY <1>6

LEMMA CallsAreSums ==
    ASSUME NEW k, NEW ages
    PROVE  /\ Calls(k, ages) = SumFunctionOnSet(made[k], ages \cap Age(k))
           /\ Calls(k, ages)' = SumFunctionOnSet(made'[k], ages \cap Age(k))
<1>1. Calls(k, ages) = SumFunctionOnSet(made[k], ages \cap Age(k))
  BY Zenon DEF Calls, MapThenSumSet, SumFunctionOnSet, FoldFunctionOnSet
<1>2. Calls(k, ages)' = SumFunctionOnSet(made'[k], ages \cap Age(k))
  BY Zenon DEF Calls, MapThenSumSet, SumFunctionOnSet, FoldFunctionOnSet, MapThenFoldSet
<1>. QED
  BY <1>1, <1>2

LEMMA Multiples ==
    ASSUME NEW m \in Nat, NEW n \in Nat, m <= n, NEW u \in Nat
    PROVE  m * u <= n * u
<1>1. PICK d \in Nat : n = m + d
  <2>1. n - m \in Nat /\ n = m + (n - m)
    OBVIOUS
  <2>. QED
    BY <2>1
<1>2. (m + d) * u = m * u + d * u
  OBVIOUS
<1>3. m * u \in Nat /\ d * u \in Nat
  OBVIOUS
<1>. QED
  BY <1>1, <1>2, <1>3

\* At most n calls are within a window of kind k.
Within(k, win, n) == n <= win.calls /\ n * Units[k] <= win.units

LEMMA FewerAreWithin ==
    ASSUME NEW k \in Kind, NEW win \in Limits[k], NEW m \in Nat, NEW n \in Nat, m <= n,
           Within(k, win, n)
    PROVE  Within(k, win, m)
<1>. PICK u \in Nat : u = Units[k]
  BY Budgets
<1>. PICK c, v : c = win.calls /\ v = win.units
  OBVIOUS
<1>1. c \in Nat /\ v \in Nat /\ n <= c /\ n * u <= v
  BY Budgets DEF Within
<1>2. m * u <= n * u
  BY Multiples
<1>3. m * u \in Nat /\ n * u \in Nat
  OBVIOUS
<1>4. m <= c /\ m * u <= v
  BY <1>1, <1>2, <1>3
<1>. QED
  BY <1>4 DEF Within

\* The calls of a window are a number of calls in the ledger.
LEMMA CallsAreNat ==
    ASSUME Recorder, NEW k \in Kind, NEW win \in Limits[k], NEW ages
    PROVE  /\ Calls(k, ages) \in Nat
           /\ IsFiniteSet(ages \cap Age(k)) /\ ages \cap Age(k) \subseteq Nat
           /\ \A a \in ages \cap Age(k) : made[k][a] \in Nat
<1>1. PICK m \in Int : Age(k) = 0..m
  BY AgeIsInterval
<1>2. IsFiniteSet(Age(k)) /\ Age(k) \subseteq Nat
  <2>1. IsFiniteSet(0..m)
    BY ONLY FS_Interval, m \in Int, 0 \in Int
  <2>2. 0..m \subseteq Nat
    OBVIOUS
  <2>. QED
    BY ONLY <1>1, <2>1, <2>2
<1>3. IsFiniteSet(ages \cap Age(k)) /\ ages \cap Age(k) \subseteq Nat
  BY <1>2, FS_Intersection
<1>4. \A a \in ages \cap Age(k) : made[k][a] \in Nat
  BY DEF Recorder
<1>5. SumFunctionOnSet(made[k], ages \cap Age(k)) \in Nat
  BY <1>3, <1>4, SumType
<1>. QED
  BY <1>3, <1>4, <1>5, CallsAreSums

\* An admission has counted the calls that its own can ever share a window with.
LEMMA RoomForOne ==
    ASSUME Recorder, NEW k \in Kind, NEW win \in Limits[k], NEW lag \in Nat, Blocks(k, lag) = {}
    PROVE  Within(k, win, Calls(k, Counted(win.span, lag)) + 1)
<1>. PICK n : n = Calls(k, Counted(win.span, lag))
  OBVIOUS
<1>1. n \in Nat
  BY CallsAreNat
<1>2. ~(n + 1 > win.calls \/ (n + 1) * Units[k] > win.units)
  <2>. DEFINE over == {v \in Limits[k] : LET m == Calls(k, Counted(v.span, lag)) IN
                          m + 1 > v.calls \/ (m + 1) * Units[k] > v.units}
  <2>1. over = {}
    BY DEF Blocks
  <2>. QED
    BY <2>1
<1>. PICK u \in Nat, c \in Nat, v \in Nat : u = Units[k] /\ c = win.calls /\ v = win.units
  BY Budgets
<1>3. (n + 1) * u \in Nat
  BY <1>1
<1>4. n + 1 <= c /\ (n + 1) * u <= v
  BY <1>1, <1>2, <1>3
<1>. QED
  BY <1>4 DEF Within

LEMMA RecordedKeepsBudget ==
    ASSUME Recorder, BudgetKept, NEW K, NEW lag \in Nat, Recorded(K, lag),
           \A k \in Kind \cap K : Blocks(k, lag) = {}
    PROVE  Recorder' /\ BudgetKept'
<1>1. /\ made' = [k \in Kind |-> [a \in Age(k) |-> made'[k][a]]]
      /\ \A k \in Kind : \A a \in Age(k) :
            made'[k][a] = IF k \in K /\ a = lag THEN made[k][a] + 1 ELSE made[k][a]
  BY DEF Recorded
<1>2. Recorder'
  BY <1>1 DEF Recorder
<1>3. ASSUME NEW k \in Kind, NEW win \in Limits[k], NEW a \in Age(k)
      PROVE  Within(k, win, Calls(k, a..(a + win.span - 1))')
  <2>. PICK I : I = a..(a + win.span - 1)
    OBVIOUS
  <2>. PICK S : S = I \cap Age(k)
    OBVIOUS
  <2>. PICK f, g : f = made[k] /\ g = made'[k]
    OBVIOUS
  <2>. PICK m, n : m = SumFunctionOnSet(f, S) /\ n = SumFunctionOnSet(g, S)
    OBVIOUS
  <2>1. IsFiniteSet(S) /\ S \subseteq Nat /\ (\A x \in S : f[x] \in Nat)
    BY CallsAreNat
  <2>2. Calls(k, I) = m /\ Calls(k, I)' = n /\ m \in Nat
    BY CallsAreSums, CallsAreNat
  <2>3. Within(k, win, m)
    BY <2>2 DEF BudgetKept, Within
  <2>4. CASE k \in K /\ lag \in S
    <3>1. Raised(g, f, S, lag)
      BY <1>1, <2>4 DEF Raised
    <3>2. n = m + 1
      BY <2>1, <3>1, SumOfRaised
    <3>. PICK C : C = Counted(win.span, lag)
      OBVIOUS
    <3>. PICK N : N = Calls(k, C)
      OBVIOUS
    <3>3. Within(k, win, N + 1) /\ N \in Nat
      BY <2>4, RoomForOne, CallsAreNat
    <3>4. S \subseteq C \cap Age(k)
      <4>1. win.span \in Nat
        BY Budgets
      <4>2. \A x \in S : x \in Nat /\ x >= a /\ x <= a + win.span - 1
        BY <2>1, <4>1
      <4>3. a \in Nat
        <5>1. \A x \in Age(k) : x \in Nat
          BY AgeIsInterval
        <5>. QED
          BY <5>1
      <4>4. \A x \in S : x \in Nat /\ x <= lag + win.span - 1
        BY <2>4, <4>1, <4>2, <4>3
      <4>. QED
        BY <4>1, <4>4 DEF Counted
    <3>5. m <= N
      <4>. PICK T : T = C \cap Age(k)
        OBVIOUS
      <4>1. IsFiniteSet(T) /\ (\A x \in T : f[x] \in Nat) /\ N = SumFunctionOnSet(f, T)
        BY CallsAreNat, CallsAreSums
      <4>2. S \subseteq T /\ \A x \in S : f[x] \in Nat /\ f[x] <= f[x]
        BY <2>1, <3>4
      <4>. QED
        BY <4>1, <4>2, SumIsMonotone
    <3>6. n \in Nat /\ N + 1 \in Nat /\ n <= N + 1
      BY <2>2, <3>2, <3>3, <3>5
    <3>. QED
      BY <2>2, <3>3, <3>6, FewerAreWithin
  <2>5. CASE ~(k \in K /\ lag \in S)
    <3>1. \A x \in S : g[x] \in Nat /\ g[x] <= f[x]
      BY <1>1, <2>1, <2>5
    <3>2. n <= m /\ n \in Nat
      BY <2>1, <3>1, SumIsMonotone, SumType
    <3>. QED
      BY <2>2, <2>3, <3>2, FewerAreWithin
  <2>. QED
    BY <2>4, <2>5
<1>. QED
  BY <1>2, <1>3 DEF BudgetKept, Within

\* What moves out of a window has been counted in it.
LEMMA TickKeepsBudget ==
    ASSUME Recorder, BudgetKept, Tick
    PROVE  Recorder' /\ BudgetKept'
<1>1. /\ made' = [k \in Kind |-> [a \in Age(k) |-> made'[k][a]]]
      /\ \A k \in Kind : \A a \in Age(k) : made'[k][a] = IF a = 0 THEN 0 ELSE made[k][a - 1]
  BY DEF Tick
<1>2. \A k \in Kind : \A a \in Age(k) : a \in Nat /\ (a # 0 => a - 1 \in Age(k))
  <2>1. ASSUME NEW k \in Kind, NEW a \in Age(k), Limits[k] # {}
        PROVE  a \in Nat /\ (a # 0 => a - 1 \in Age(k))
    BY <2>1, AgeIsInterval
  <2>. QED
    BY <2>1 DEF Age, Ages
<1>3. Recorder'
  <2>1. \A k \in Kind : \A a \in Age(k) : made'[k][a] \in Nat
    <3>1. ASSUME NEW k \in Kind, NEW a \in Age(k) PROVE made'[k][a] \in Nat
      <4>1. a # 0 => made[k][a - 1] \in Nat
        BY <1>2 DEF Recorder
      <4>. QED
        BY <1>1, <4>1
    <3>. QED
      BY <3>1
  <2>. QED
    BY <1>1, <2>1 DEF Recorder
<1>4. ASSUME NEW k \in Kind, NEW win \in Limits[k], NEW a \in Age(k)
      PROVE  Within(k, win, Calls(k, a..(a + win.span - 1))')
  <2>. PICK b : b = IF a = 0 THEN 0 ELSE a - 1
    OBVIOUS
  <2>. PICK I, J : I = a..(a + win.span - 1) /\ J = b..(b + win.span - 1)
    OBVIOUS
  <2>. PICK S, T : S = J \cap Age(k) /\ T = I \cap Age(k)
    OBVIOUS
  <2>. PICK f, g : f = made[k] /\ g = made'[k]
    OBVIOUS
  <2>. PICK m, n : m = SumFunctionOnSet(f, S) /\ n = SumFunctionOnSet(g, T)
    OBVIOUS
  <2>1. IsFiniteSet(S) /\ \A x \in S : f[x] \in Nat
    BY CallsAreNat
  <2>2. IsFiniteSet(T) /\ T \subseteq Int
    <3>1. IsFiniteSet(I \cap Age(k)) /\ I \cap Age(k) \subseteq Nat
      BY CallsAreNat
    <3>2. IsFiniteSet(T) /\ T \subseteq Nat
      BY <3>1, Zenon
    <3>. QED
      BY <3>2
  <2>3. Calls(k, J) = m /\ Calls(k, I)' = n /\ m \in Nat
    <3>1. Calls(k, J) \in Nat
      BY CallsAreNat
    <3>2. Calls(k, J) = SumFunctionOnSet(made[k], J \cap Age(k))
      BY CallsAreSums
    <3>3. Calls(k, I)' = SumFunctionOnSet(made'[k], I \cap Age(k))
      BY CallsAreSums
    <3>4. Calls(k, J) = m
      BY <3>2
    <3>5. Calls(k, I)' = n
      BY <3>3
    <3>. QED
      BY <3>1, <3>4, <3>5
  <2>4. b \in Age(k) /\ a \in Nat
    BY <1>2
  <2>5. Within(k, win, m)
    BY <2>3, <2>4 DEF BudgetKept, Within
  <2>6. \A x \in T : g[x] \in Nat
    BY <1>3 DEF Recorder
  <2>7. \A x \in T : g[x] = 0 \/ (x - 1 \in S /\ g[x] <= f[x - 1])
    <3>1. SUFFICES ASSUME NEW x \in T, x # 0 PROVE x - 1 \in S /\ g[x] <= f[x - 1]
      BY <1>1
    <3>2. win.span \in Nat
      BY Budgets
    <3>3. x \in Nat /\ x - 1 \in Age(k) /\ a <= x /\ x <= a + win.span - 1
      BY <1>2, <2>4, <3>1, <3>2
    <3>4. x - 1 \in J
      BY <2>4, <3>1, <3>2, <3>3
    <3>5. g[x] = f[x - 1] /\ f[x - 1] \in Nat
      BY <1>1, <2>1, <3>1, <3>3, <3>4
    <3>. QED
      BY <3>3, <3>4, <3>5
  <2>8. n <= m /\ n \in Nat
    BY <2>1, <2>2, <2>6, <2>7, SumOfShifted, SumType
  <2>. QED
    BY <2>3, <2>5, <2>8, FewerAreWithin
<1>. QED
  BY <1>3, <1>4 DEF BudgetKept, Within

\* A worker goes on at once: the clock of the next admission is still to be read.
AtOnce(w) == wk' = [wk EXCEPT ![w] = wk'[w]] /\ wk'[w].since = 0

LEMMA StepsAreAtOnce ==
    ASSUME IInv, NEW w \in Worker
    PROVE  /\ \A there : Goto(w, there) => AtOnce(w)
           /\ \A what : Heard(w, what) => AtOnce(w)
           /\ Stop(w) => AtOnce(w)
           /\ \A g : Claimed(w, g) => AtOnce(w)
<1>1. wk = [v \in Worker |-> wk[v]] /\ IsWorker(wk[w])
  BY DEF IInv, Typed
<1>2. PICK m, S, H : m = wk[w] /\ m \in Memory(S, H)
  BY <1>1 DEF IsWorker
<1>3. ASSUME NEW there, Goto(w, there) PROVE AtOnce(w)
  <2>1. wk'[w] = [m EXCEPT !.pc = there, !.since = 0] /\ wk' = [wk EXCEPT ![w] = wk'[w]]
    BY <1>1, <1>2, <1>3 DEF Goto
  <2>. QED
    BY <1>2, <2>1 DEF AtOnce, Memory
<1>4. ASSUME NEW what, Heard(w, what) PROVE AtOnce(w)
  <2>1. /\ wk'[w] = [m EXCEPT !.pc = "heard", !.since = 0, !.heard = what]
        /\ wk' = [wk EXCEPT ![w] = wk'[w]]
    BY <1>1, <1>2, <1>4 DEF Heard
  <2>. QED
    BY <1>2, <2>1 DEF AtOnce, Memory
<1>5. Stop(w) => AtOnce(w)
  BY <1>1 DEF Stop, AtOnce, Idle
<1>6. ASSUME NEW g, Claimed(w, g) PROVE AtOnce(w)
  <2>. PICK pc, state, stamp, candidate :
          wk' = [wk EXCEPT ![w] = [Idle EXCEPT !.pc = pc, !.game = g, !.state = state,
                                               !.stamp = stamp, !.candidate = candidate]]
    BY <1>6 DEF Claimed
  <2>1. /\ wk'[w] = [Idle EXCEPT !.pc = pc, !.game = g, !.state = state, !.stamp = stamp,
                                 !.candidate = candidate]
        /\ wk' = [wk EXCEPT ![w] = wk'[w]]
    BY <1>1
  <2>2. wk'[w].since = 0
    BY <2>1 DEF Idle
  <2>. QED
    BY <2>1, <2>2 DEF AtOnce
<1>. QED
  BY <1>3, <1>4, <1>5, <1>6

\* What a step adds to the ledger was admitted.
Charged(w) == \/ made' = made
              \/ \E lag \in Lags(w) : \E K : /\ Recorded(K, lag)
                                            /\ \A k \in Kind \cap K : Blocks(k, lag) = {}

LEMMA StepsAreCharged ==
    ASSUME NEW w \in Worker, Step(w) \/ Crash(w)
    PROVE  Charged(w)
<1>1. ASSUME NEW k, NEW there, AdmitOrLater(w, k, there) PROVE Charged(w)
  <2>1. PICK lag \in Lags(w) : IF Blocks(k, lag) = {} THEN Recorded({k}, lag) ELSE made' = made
    BY <1>1 DEF AdmitOrLater
  <2>. QED
    BY <2>1 DEF Charged
<1>2. CASE AdmitPage(w)
  <2>1. PICK lag \in Lags(w) : IF Blocks("video", lag) = {} THEN Recorded({"video"}, lag)
                                                            ELSE made' = made
    BY <1>2 DEF AdmitPage
  <2>. QED
    BY <2>1 DEF Charged
<1>3. CASE AdmitCaptions(w)
  <2>1. PICK lag \in Lags(w) : IF Blocks("captions", lag) = {} THEN Recorded({"captions"}, lag)
                                                               ELSE made' = made
    BY <1>3 DEF AdmitCaptions
  <2>. QED
    BY <2>1 DEF Charged
<1>4. CASE AdmitAudio(w)
  <2>1. PICK lag \in Lags(w) :
           \/ made' = made
           \/ Blocks("audio", lag) = {} /\ Recorded({"audio"}, lag)
           \/ /\ Blocks("audio", lag) = {} /\ Blocks("whisper", lag) = {}
              /\ Recorded({"audio", "whisper"}, lag)
    BY <1>4 DEF AdmitAudio
  <2>. QED
    BY <2>1 DEF Charged
<1>5. AdmitSearch(w) \/ AdmitChat(w) => Charged(w)
  BY <1>1 DEF AdmitSearch, AdmitChat
<1>6. \/ ClaimDue(w) \/ LookForNew(w) \/ Enrol(w) \/ SearchFails(w) \/ SearchAnswers(w)
      \/ Facts(w) \/ Captions(w) \/ Whisper(w) \/ Listened(w) \/ TooLong(w) \/ Chat(w) \/ Crash(w)
      => made' = made
  BY DEF ClaimDue, LookForNew, Enrol, SearchFails, SearchAnswers, Facts, Captions, Whisper,
         Listened, TooLong, Chat, Crash
<1>. QED
  BY <1>2, <1>3, <1>4, <1>5, <1>6 DEF Step, Charged

LEMMA StepsGoOnAtOnce ==
    ASSUME IInv, NEW w \in Worker, Step(w) \/ Crash(w)
    PROVE  AtOnce(w)
<1>1. /\ \A there : Goto(w, there) => AtOnce(w)
      /\ \A what : Heard(w, what) => AtOnce(w)
      /\ Stop(w) => AtOnce(w)
      /\ \A g : Claimed(w, g) => AtOnce(w)
  BY StepsAreAtOnce
<1>2. ClaimDue(w) \/ LookForNew(w) \/ Enrol(w) => AtOnce(w)
  BY <1>1 DEF ClaimDue, LookForNew, Enrol
<1>3. AdmitSearch(w) \/ AdmitChat(w) => AtOnce(w)
  BY <1>1 DEF AdmitSearch, AdmitChat, AdmitOrLater
<1>4. AdmitPage(w) \/ AdmitCaptions(w) \/ AdmitAudio(w) => AtOnce(w)
  BY <1>1 DEF AdmitPage, AdmitCaptions, AdmitAudio, WithoutCaptions
<1>5. Facts(w) \/ Captions(w) \/ Whisper(w) => AtOnce(w)
  BY <1>1 DEF Facts, Captions, Whisper, WithoutCaptions
<1>6. SearchFails(w) \/ SearchAnswers(w) \/ Listened(w) \/ TooLong(w) \/ Chat(w) \/ Crash(w) => Stop(w)
  BY DEF SearchFails, SearchAnswers, Listened, TooLong, Chat, Crash, IfOwned
<1>7. Stop(w) => AtOnce(w)
  BY <1>1
<1>8. ASSUME Step(w)
      PROVE  AtOnce(w)
  BY Zenon, <1>2, <1>3, <1>4, <1>5, <1>6, <1>7, <1>8 DEF Step
<1>9. ASSUME Crash(w)
      PROVE  AtOnce(w)
  BY Zenon, <1>6, <1>7, <1>9
<1>. QED
  BY Zenon, <1>8, <1>9

LEMMA SameLedger ==
    ASSUME Recorder, BudgetKept, made' = made
    PROVE  Recorder' /\ BudgetKept'
<1>1. Recorder'
  BY DEF Recorder
<1>2. ASSUME NEW k, NEW ages
      PROVE  Calls(k, ages)' = Calls(k, ages)
  <2>1. /\ Calls(k, ages) = SumFunctionOnSet(made[k], ages \cap Age(k))
        /\ Calls(k, ages)' = SumFunctionOnSet(made'[k], ages \cap Age(k))
    BY CallsAreSums
  <2>. QED
    BY Zenon, <2>1
<1>3. BudgetKept'
  BY <1>2 DEF BudgetKept
<1>. QED
  BY <1>1, <1>3

LEMMA WorkerKeepsBudget ==
    ASSUME IInv, BInv, NEW w \in Worker, Step(w) \/ Crash(w)
    PROVE  BInv'
<1>1. LagsBounded'
  <2>1. AtOnce(w)
    BY StepsGoOnAtOnce
  <2>2. 0 \in 0..MaxLag
    BY Budgets
  <2>. QED
    BY <2>1, <2>2 DEF IInv, Typed, BInv, LagsBounded, AtOnce
<1>2. Charged(w)
  BY StepsAreCharged
<1>3. CASE made' = made
  BY <1>1, <1>3, SameLedger DEF BInv
<1>4. ASSUME NEW lag \in Lags(w), NEW K, Recorded(K, lag),
             \A k \in Kind \cap K : Blocks(k, lag) = {}
      PROVE  BInv'
  <2>1. lag \in Nat
    BY DEF BInv, LagsBounded, Lags
  <2>. QED
    BY <1>1, <1>4, <2>1, RecordedKeepsBudget DEF BInv
<1>. QED
  BY <1>2, <1>3, <1>4 DEF Charged

LEMMA TickKeepsLags ==
    ASSUME IInv, LagsBounded, Tick
    PROVE  LagsBounded'
<1>. SUFFICES ASSUME NEW w \in Worker PROVE wk'[w].since \in 0..MaxLag
  BY DEF LagsBounded
<1>1. PICK m, S, H : m = wk[w] /\ m \in Memory(S, H)
  BY DEF IInv, Typed, IsWorker
<1>2. m.since \in 0..MaxLag /\ MaxLag \in Nat
  BY <1>1, Budgets DEF LagsBounded
<1>. PICK since : since = IF m.pc \in {"search", "page", "caption", "audio", "conclude"}
                          THEN Min({MaxLag, m.since + 1}) ELSE 0
  OBVIOUS
<1>3. wk'[w] = [m EXCEPT !.since = since]
  BY <1>1 DEF Tick
<1>4. since \in 0..MaxLag
  <2>1. PICK N : N = {MaxLag, m.since + 1} /\ N \subseteq Nat /\ N # {} /\ MaxLag \in N
    BY <1>2
  <2>2. Min(N) \in N /\ \A x \in N : Min(N) <= x
    BY <2>1, MinOfNat
  <2>3. Min({MaxLag, m.since + 1}) \in 0..MaxLag
    BY <1>2, <2>1, <2>2
  <2>. QED
    BY <1>2, <2>3
<1>. QED
  BY <1>1, <1>3, <1>4 DEF Memory

LEMMA BudgetIsSafe == IInv /\ BInv /\ [Next]_vars => BInv'
<1>. SUFFICES ASSUME IInv, BInv, [Next]_vars PROVE BInv'
  OBVIOUS
<1>1. CASE \E w \in Worker : Step(w) \/ Crash(w)
  BY <1>1, WorkerKeepsBudget
<1>2. CASE Tick
  BY <1>2, TickKeepsLags, TickKeepsBudget DEF BInv
<1>3. CASE UNCHANGED vars
  <2>1. made' = made /\ wk' = wk
    BY <1>3 DEF vars
  <2>. QED
    BY <2>1, SameLedger DEF BInv, LagsBounded
<1>. QED
  BY <1>1, <1>2, <1>3 DEF Next

LEMMA NothingIsSpent == Init => BInv
<1>. SUFFICES ASSUME Init PROVE BInv
  OBVIOUS
<1>1. made = [k \in Kind |-> [a \in Age(k) |-> 0]]
  BY DEF Init
<1>2. Recorder
  BY <1>1 DEF Recorder
<1>3. LagsBounded
  BY Budgets DEF Init, Idle, LagsBounded
<1>4. ASSUME NEW k \in Kind, NEW win \in Limits[k], NEW a \in Age(k)
      PROVE  Within(k, win, Calls(k, a..(a + win.span - 1)))
  <2>. PICK I, f : I = a..(a + win.span - 1) /\ f = made[k]
    OBVIOUS
  <2>1. IsFiniteSet(I \cap Age(k)) /\ \A b \in I \cap Age(k) : f[b] = 0
    BY <1>1, <1>2, CallsAreNat
  <2>2. SumFunctionOnSet(f, I \cap Age(k)) = 0
    BY <2>1, SumOfZeros
  <2>3. Calls(k, I) = 0
    BY <2>2, CallsAreSums
  <2>4. Within(k, win, 0)
    <3>. PICK u \in Nat : u = Units[k]
      BY Budgets
    <3>1. 0 <= win.calls /\ 0 <= win.units /\ 0 * u = 0
      BY Budgets
    <3>. QED
      BY <3>1 DEF Within
  <2>. QED
    BY <2>3, <2>4
<1>. QED
  BY <1>2, <1>3, <1>4 DEF BInv, BudgetKept, Within

\* In no window of time, wherever it ends, was a provider called more often or for more units
\* than its budget says, however late after reading the clock a call was recorded.
THEOREM BudgetKeptHolds == Spec => []BudgetKept
<1>1. BInv => BudgetKept
  BY DEF BInv
<1>. QED
  BY <1>1, NothingIsSpent, BudgetIsSafe, InvariantHolds, PTL DEF Spec

------------------------------------------------------------------------------
(* ReviewSelection: the reviews that are given to the language model.        *)

\* Platforms, identities and words are numbered; no two keys have the same hash; and both sides
\* find their reserved places.
ReviewKeys == ({Sel!Plain} \cup ReviewPlatform) \X Identity
SelSettings == /\ ReviewPlatform \subseteq Nat \ {0} /\ IsFiniteSet(ReviewPlatform)
               /\ Identity \subseteq Nat /\ IsFiniteSet(Identity)
               /\ ReviewWords \subseteq Nat \ {0} /\ IsFiniteSet(ReviewWords)
               /\ \A h \in Hashes : \A j, k \in ReviewKeys : h[j] \in Nat /\ (h[j] = h[k] => j = k)
               /\ MaxSelected \in Nat /\ MinPerSide \in Nat /\ MinPerSide + MinPerSide <= MaxSelected

ReviewPools == [Sel!Place -> {Sel!Absent} \cup [words : ReviewWords \cup {Sel!Blank}, side : Side]]

LEMMA SelCardinality == \A S : Sel!Cardinality(S) = Cardinality(S)
  BY Zenon DEF Sel!Cardinality, Cardinality

LEMMA SelPlaces ==
    ASSUME SelSettings
    PROVE  IsFiniteSet(Sel!Place) /\ \A from : Sel!Reviews(from) \subseteq Sel!Place /\ IsFiniteSet(Sel!Reviews(from))
<1>1. IsFiniteSet(Sel!Place)
  BY FS_Product DEF SelSettings, Sel!Place
<1>. QED
  BY <1>1, FS_Subset DEF Sel!Reviews

-----------------------------------------------------------------------------
(* The orders of the reviews: of their keys, and of the hashes of those.       *)

LEMMA SelKey ==
    ASSUME SelSettings, NEW from, NEW x \in Sel!Reviews(from)
    PROVE  /\ Sel!Key(from, x) \in ReviewKeys
           /\ \A y \in Sel!Reviews(from) : Sel!Key(from, x) = Sel!Key(from, y) => x = y
<1>1. \A y \in Sel!Reviews(from) : /\ y[1] \in ReviewPlatform /\ y[2] \in Identity /\ y = <<y[1], y[2]>>
                                   /\ y[1] \in Nat /\ y[1] # 0
  BY SelPlaces DEF Sel!Place, SelSettings
<1>. DEFINE Shared(y) == \E z \in Sel!Reviews(from) : z # y /\ z[2] = y[2]
<1>2. \A y \in Sel!Reviews(from) : Sel!Key(from, y) = IF Shared(y) THEN y ELSE <<0, y[2]>>
  BY DEF Sel!Key, Sel!Plain
<1>3. Sel!Key(from, x) \in ReviewKeys
  BY <1>1, <1>2 DEF ReviewKeys, Sel!Plain
<1>4. ASSUME NEW y \in Sel!Reviews(from), Sel!Key(from, x) = Sel!Key(from, y), x # y
      PROVE  FALSE
  <2>1. CASE Shared(x) /\ Shared(y)
    BY <1>2, <1>4, <2>1
  <2>2. CASE Shared(x) /\ ~Shared(y)
    <3>1. x = <<0, y[2]>>
      BY <1>2, <1>4, <2>2
    <3>. QED
      BY <1>1, <3>1
  <2>3. CASE ~Shared(x) /\ Shared(y)
    <3>1. y = <<0, x[2]>>
      BY <1>2, <1>4, <2>3
    <3>. QED
      BY <1>1, <1>4, <3>1
  <2>4. CASE ~Shared(x) /\ ~Shared(y)
    <3>1. <<0, x[2]>> = <<0, y[2]>>
      BY <1>2, <1>4, <2>4
    <3>. QED
      BY <1>4, <2>4, <3>1
  <2>. QED
    BY <2>1, <2>2, <2>3, <2>4
<1>. QED
  BY <1>3, <1>4

ByKey(from)  == {z \in Sel!Place \X Sel!Place : Sel!Smaller(Sel!Key(from, z[1]), Sel!Key(from, z[2]))}
ByHash(from) == {z \in Sel!Place \X Sel!Place : hash[Sel!Key(from, z[1])] < hash[Sel!Key(from, z[2])]}

LEMMA SelOrders ==
    ASSUME SelSettings, NEW from, NEW S \in SUBSET Sel!Reviews(from)
    PROVE  Orders(ByKey(from), S) /\ (hash \in Hashes => Orders(ByHash(from), S))
<1>1. IsFiniteSet(S) /\ S \subseteq Sel!Place
  BY SelPlaces, FS_Subset
<1>. DEFINE K(x) == Sel!Key(from, x)
<1>2. /\ \A x \in S : K(x) \in ReviewKeys
      /\ \A x, y \in S : x # y => K(x) # K(y)
  BY SelKey
<1>3. \A x, y \in S : /\ <<x, y>> \in ByKey(from) <=> Sel!Smaller(K(x), K(y))
                      /\ <<x, y>> \in ByHash(from) <=> hash[K(x)] < hash[K(y)]
  BY <1>1 DEF ByKey, ByHash
<1>. HIDE DEF K
<1>4. ASSUME NEW j \in ReviewKeys, NEW k \in ReviewKeys
      PROVE  /\ j[1] \in Nat /\ j[2] \in Nat /\ ~Sel!Smaller(j, j)
             /\ j # k => Sel!Smaller(j, k) \/ Sel!Smaller(k, j)
             /\ \A l \in ReviewKeys : Sel!Smaller(j, k) /\ Sel!Smaller(k, l) => Sel!Smaller(j, l)
  <2>1. \A l \in ReviewKeys : l[1] \in Nat /\ l[2] \in Nat /\ l = <<l[1], l[2]>>
    <3>1. PICK A : A = {Sel!Plain} \cup ReviewPlatform
      OBVIOUS
    <3>2. A \subseteq Nat /\ Identity \subseteq Nat
      BY <3>1 DEF Sel!Plain, SelSettings
    <3>3. ReviewKeys = A \X Identity
      BY <3>1 DEF ReviewKeys
    <3>4. \A l \in ReviewKeys : l[1] \in A /\ l[2] \in Identity /\ l = <<l[1], l[2]>>
      BY ONLY <3>3
    <3>. QED
      BY ONLY <3>2, <3>4
  <2>2. ~Sel!Smaller(j, j)
    BY <1>4, <2>1 DEF Sel!Smaller
  <2>3. j # k => Sel!Smaller(j, k) \/ Sel!Smaller(k, j)
    <3>1. j # k => j[1] # k[1] \/ j[2] # k[2]
      BY <1>4, <2>1
    <3>. QED
      BY <1>4, <2>1, <3>1 DEF Sel!Smaller
  <2>4. \A l \in ReviewKeys : Sel!Smaller(j, k) /\ Sel!Smaller(k, l) => Sel!Smaller(j, l)
    BY <1>4, <2>1 DEF Sel!Smaller
  <2>. QED
    BY <1>4, <2>1, <2>2, <2>3, <2>4
<1>5. Orders(ByKey(from), S)
  BY <1>1, <1>2, <1>3, <1>4 DEF Orders
<1>6. ASSUME hash \in Hashes
      PROVE  Orders(ByHash(from), S)
  <2>1. \A x \in S : hash[K(x)] \in Nat
    BY <1>2, <1>6 DEF SelSettings
  <2>2. \A x, y \in S : x # y => hash[K(x)] # hash[K(y)]
    BY <1>2, <1>6 DEF SelSettings
  <2>. QED
    BY <1>1, <1>3, <2>1, <2>2 DEF Orders
<1>. QED
  BY <1>5, <1>6

-----------------------------------------------------------------------------
(* One review of each group stands for it.                                     *)

LEMMA SelOneOfEach ==
    ASSUME SelSettings, NEW from
    PROVE  /\ Sel!Representatives(from) \subseteq Sel!Eligible(from)
           /\ \A x \in Sel!Eligible(from) : \E r \in Sel!Representatives(from) : from[r] = from[x]
           /\ \A r, s \in Sel!Representatives(from) : from[r] = from[s] => r = s
<1>. DEFINE R == ByKey(from)
<1>1. Sel!Representatives(from) \subseteq Sel!Eligible(from) /\ Sel!Eligible(from) \subseteq Sel!Reviews(from)
  BY DEF Sel!Representatives, Sel!Eligible
<1>2. Sel!Reviews(from) \subseteq Sel!Place
  BY SelPlaces
<1>3. \A x, y \in Sel!Reviews(from) :
         <<x, y>> \in R <=> Sel!Smaller(Sel!Key(from, x), Sel!Key(from, y))
  BY <1>2 DEF ByKey
<1>. HIDE DEF R
<1>4. ASSUME NEW x \in Sel!Eligible(from)
      PROVE  \E r \in Sel!Representatives(from) : from[r] = from[x]
  <2>1. PICK S : S = Sel!Same(from, x)
    OBVIOUS
  <2>2. S \in SUBSET Sel!Reviews(from) /\ x \in S /\ \A y \in S : from[y] = from[x]
    BY <1>1, <1>4, <2>1 DEF Sel!Same
  <2>3. Orders(R, S)
    BY <2>2, SelOrders DEF R
  <2>4. PICK c \in Nat : c = Cardinality(S)
    BY <2>3, FS_CardinalityType DEF Orders
  <2>5. PlaceIn(R, S, x) \in 1..c
    BY <2>2, <2>3, <2>4, PlacesFollow
  <2>6. 1 \in 1..c
    BY <2>4, <2>5
  <2>7. PICK r \in S : PlaceIn(R, S, r) = 1
    BY <2>3, <2>4, <2>6, PlacesAreTaken
  <2>8. \A y \in S : <<y, r>> \notin R
    <3>1. \A y \in S : PlaceIn(R, S, y) \in 1..c /\ (<<y, r>> \in R => PlaceIn(R, S, y) < PlaceIn(R, S, r))
      BY <2>3, <2>4, PlacesFollow
    <3>. QED
      BY <2>4, <2>7, <3>1
  <2>9. \A y \in S \ {r} : <<r, y>> \in R
    BY <2>3, <2>8 DEF Orders
  <2>10. Sel!Same(from, r) = S
    BY <2>1, <2>2 DEF Sel!Same
  <2>11. r \in Sel!Eligible(from)
    BY <1>4, <2>2 DEF Sel!Eligible
  <2>12. \A y \in Sel!Same(from, r) \ {r} : Sel!Smaller(Sel!Key(from, r), Sel!Key(from, y))
    BY <1>3, <2>2, <2>9, <2>10
  <2>. QED
    BY <2>2, <2>11, <2>12 DEF Sel!Representatives
<1>5. ASSUME NEW r \in Sel!Representatives(from), NEW s \in Sel!Representatives(from), from[r] = from[s], r # s
      PROVE  FALSE
  <2>1. {r, s} \in SUBSET Sel!Reviews(from)
    BY <1>1, <1>5
  <2>2. s \in Sel!Same(from, r) /\ r \in Sel!Same(from, s)
    BY <1>5, <2>1 DEF Sel!Same
  <2>3. <<r, s>> \in R /\ <<s, r>> \in R
    BY <1>3, <1>5, <2>1, <2>2 DEF Sel!Representatives
  <2>4. Orders(R, {r, s})
    BY <2>1, SelOrders DEF R
  <2>. QED
    BY <2>3, <2>4 DEF Orders
<1>. QED
  BY <1>1, <1>4, <1>5

\* So there are as many of them as there are different reviews, on every side.
LEMMA SelDifferent ==
    ASSUME SelSettings, NEW X \in SUBSET Sel!Eligible(pool), \A x \in X, y \in Sel!Eligible(pool) : pool[x] = pool[y] => y \in X
    PROVE  /\ IsFiniteSet(X \cap Sel!Representatives(pool)) /\ IsFiniteSet(Sel!Different(X))
           /\ Cardinality(Sel!Different(X)) = Cardinality(X \cap Sel!Representatives(pool))
<1>1. PICK Q, D : Q = X \cap Sel!Representatives(pool) /\ D = Sel!Different(X)
  OBVIOUS
<1>2. IsFiniteSet(X)
  BY SelPlaces, FS_Subset DEF Sel!Eligible
<1>3. IsFiniteSet(Q)
  BY <1>1, <1>2, FS_Subset
<1>. DEFINE f == [r \in Q |-> pool[r]]
<1>4. \A r \in Q : pool[r] \in D
  BY <1>1 DEF Sel!Different
<1>5. \A d \in D : \E r \in Q : pool[r] = d
  <2>1. SUFFICES ASSUME NEW d \in D
                 PROVE  \E r \in Q : pool[r] = d
    OBVIOUS
  <2>2. PICK x \in X : pool[x] = d
    BY <1>1, <2>1 DEF Sel!Different
  <2>3. PICK r \in Sel!Representatives(pool) : pool[r] = pool[x]
    BY <2>2, SelOneOfEach
  <2>4. r \in Sel!Eligible(pool)
    BY SelOneOfEach
  <2>5. r \in X
    BY <2>3, <2>4
  <2>. QED
    BY <1>1, <2>2, <2>3, <2>5
<1>6. \A r, s \in Q : pool[r] = pool[s] => r = s
  BY <1>1, SelOneOfEach
<1>7. f \in Bijection(Q, D)
  BY <1>4, <1>5, <1>6 DEF Bijection, Injection, Surjection, IsInjective
<1>8. IsFiniteSet(D) /\ Cardinality(D) = Cardinality(Q)
  BY <1>3, <1>7, FS_Bijection DEF ExistsBijection
<1>. QED
  BY <1>1, <1>3, <1>8

-----------------------------------------------------------------------------
(* Turns.                                                                      *)

ByTurn(T) == {z \in T \X T : Sel!Before(z[1], z[2])}

\* The reviews of a platform, and those ahead of one of them.
PlatformQueue(from, p) == {x \in Sel!Representatives(from) : x[1] = p}
Ahead(from, x) == Cardinality({y \in Sel!Representatives(from) : y[1] = x[1] /\ hash[Sel!Key(from, y)] < hash[Sel!Key(from, x)]})

LEMMA SelQueue ==
    ASSUME SelSettings, NEW from, hash \in Hashes, NEW p
    PROVE  /\ PlatformQueue(from, p) \in SUBSET Sel!Reviews(from) /\ IsFiniteSet(PlatformQueue(from, p))
           /\ Orders(ByHash(from), PlatformQueue(from, p))
           /\ \A x \in PlatformQueue(from, p) : 1 + Ahead(from, x) = PlaceIn(ByHash(from), PlatformQueue(from, p), x)
<1>1. PlatformQueue(from, p) \in SUBSET Sel!Reviews(from)
  BY SelOneOfEach DEF PlatformQueue, Sel!Eligible
<1>2. IsFiniteSet(PlatformQueue(from, p)) /\ Orders(ByHash(from), PlatformQueue(from, p))
  BY <1>1, SelPlaces, SelOrders, FS_Subset
<1>3. ASSUME NEW x \in PlatformQueue(from, p)
      PROVE  1 + Ahead(from, x) = PlaceIn(ByHash(from), PlatformQueue(from, p), x)
  <2>1. \A y \in PlatformQueue(from, p) :
           <<y, x>> \in ByHash(from) <=> hash[Sel!Key(from, y)] < hash[Sel!Key(from, x)]
    BY <1>1, <1>3, SelPlaces DEF ByHash
  <2>2. {y \in Sel!Representatives(from) : y[1] = x[1] /\ hash[Sel!Key(from, y)] < hash[Sel!Key(from, x)]}
           = {y \in PlatformQueue(from, p) : <<y, x>> \in ByHash(from)}
    BY <1>3, <2>1 DEF PlatformQueue
  <2>. QED
    BY <2>2 DEF Ahead, PlaceIn
<1>. QED
  BY <1>1, <1>2, <1>3

LEMMA SelTurns ==
    ASSUME SelSettings, NEW from, hash \in Hashes
    PROVE  /\ IsFiniteSet(Sel!Representatives(from))
           /\ \A x \in Sel!Representatives(from) : /\ x[1] \in ReviewPlatform /\ x[1] \in Nat
                                                   /\ Ahead(from, x) \in Nat
           /\ \A x, y \in Sel!Representatives(from) : x[1] = y[1] /\ Ahead(from, x) = Ahead(from, y) => x = y
           /\ Sel!Turns(from) = {<<Ahead(from, x), x>> : x \in Sel!Representatives(from)}
<1>1. PICK L : L = Sel!Representatives(from)
  OBVIOUS
<1>2. L \in SUBSET Sel!Reviews(from)
  BY <1>1, SelOneOfEach DEF Sel!Eligible
<1>3. IsFiniteSet(L)
  BY <1>2, SelPlaces, FS_Subset
<1>4. \A x \in L : x[1] \in ReviewPlatform /\ x[1] \in Nat
  <2>1. \A x \in L : x \in ReviewPlatform \X Identity
    BY <1>2, SelPlaces DEF Sel!Place
  <2>2. \A x \in L : x[1] \in ReviewPlatform
    BY ONLY <2>1
  <2>. QED
    BY <2>2 DEF SelSettings
<1>5. \A x \in L : x \in PlatformQueue(from, x[1])
  BY <1>1 DEF PlatformQueue
<1>6. \A x \in L : Ahead(from, x) \in Nat
  <2>1. SUFFICES ASSUME NEW x \in L
                 PROVE  Ahead(from, x) \in Nat
    OBVIOUS
  <2>2. PICK S : S = {y \in Sel!Representatives(from) : y[1] = x[1] /\ hash[Sel!Key(from, y)] < hash[Sel!Key(from, x)]}
    OBVIOUS
  <2>3. S \in SUBSET L
    BY <1>1, <2>2
  <2>4. Cardinality(S) \in Nat
    BY <1>3, <2>3, FS_Subset, FS_CardinalityType
  <2>. QED
    BY <2>2, <2>4 DEF Ahead
<1>7. ASSUME NEW x \in L, NEW y \in L, x[1] = y[1], Ahead(from, x) = Ahead(from, y), x # y
      PROVE  FALSE
  <2>1. PICK Q : Q = PlatformQueue(from, x[1])
    OBVIOUS
  <2>2. x \in Q /\ y \in Q
    BY <1>5, <1>7, <2>1
  <2>3. Orders(ByHash(from), Q) /\ PlaceIn(ByHash(from), Q, x) = 1 + Ahead(from, x)
                                /\ PlaceIn(ByHash(from), Q, y) = 1 + Ahead(from, y)
    BY <2>1, <2>2, SelQueue
  <2>4. <<x, y>> \in ByHash(from) \/ <<y, x>> \in ByHash(from)
    BY <1>7, <2>2, <2>3 DEF Orders
  <2>5. \/ PlaceIn(ByHash(from), Q, x) < PlaceIn(ByHash(from), Q, y)
        \/ PlaceIn(ByHash(from), Q, y) < PlaceIn(ByHash(from), Q, x)
    BY <2>2, <2>3, <2>4, PlacesFollow
  <2>6. PICK a \in Nat : a = Ahead(from, x)
    BY <1>6, <1>7
  <2>. QED
    BY <1>7, <2>3, <2>5, <2>6
<1>8. Sel!Turns(from) = {<<Ahead(from, x), x>> : x \in L}
  BY <1>1, SelCardinality DEF Sel!Turns, Ahead
<1>. QED
  BY <1>1, <1>3, <1>4, <1>6, <1>7, <1>8

LEMMA SelTurnOrder ==
    ASSUME SelSettings, NEW from, hash \in Hashes
    PROVE  /\ Orders(ByTurn(Sel!Turns(from)), Sel!Turns(from))
           /\ Cardinality(Sel!Turns(from)) = Cardinality(Sel!Representatives(from))
           /\ \A t, u \in Sel!Turns(from) : t[2] = u[2] => t = u
           /\ \A t \in Sel!Turns(from) : t[2] \in Sel!Representatives(from) /\ t = <<Ahead(from, t[2]), t[2]>>
<1>1. PICK L, T : L = Sel!Representatives(from) /\ T = Sel!Turns(from)
  OBVIOUS
<1>2. /\ IsFiniteSet(L) /\ \A x \in L : x[1] \in Nat /\ Ahead(from, x) \in Nat
      /\ \A x, y \in L : x[1] = y[1] /\ Ahead(from, x) = Ahead(from, y) => x = y
      /\ T = {<<Ahead(from, x), x>> : x \in L}
  BY <1>1, SelTurns
<1>. DEFINE f == [x \in L |-> <<Ahead(from, x), x>>]
<1>3. /\ \A t \in T : t[2] \in L /\ t = <<Ahead(from, t[2]), t[2]>> /\ t[1] = Ahead(from, t[2])
      /\ \A t, u \in T : t[2] = u[2] => t = u
  BY <1>2
<1>4. f \in Bijection(L, T)
  <2>1. \A x \in L : f[x] \in T /\ f[x][2] = x
    BY <1>2
  <2>2. f \in [L -> T]
    BY <2>1
  <2>3. \A t \in T : \E x \in L : f[x] = t
    BY <1>3
  <2>4. \A x, y \in L : f[x] = f[y] => x = y
    BY <2>1
  <2>. QED
    BY <2>2, <2>3, <2>4 DEF Bijection, Injection, Surjection, IsInjective
<1>5. IsFiniteSet(T) /\ Cardinality(T) = Cardinality(L)
  BY <1>2, <1>4, FS_Bijection DEF ExistsBijection
<1>6. \A t, u \in T : <<t, u>> \in ByTurn(T) <=> Sel!Before(t, u)
  BY DEF ByTurn
<1>7. \A t \in T : t[1] \in Nat /\ t[2][1] \in Nat
  BY <1>2, <1>3
<1>8. \A t, u \in T : t[1] = u[1] /\ t[2][1] = u[2][1] => t = u
  BY <1>2, <1>3
<1>9. Orders(ByTurn(T), T)
  <2>1. \A t \in T : <<t, t>> \notin ByTurn(T)
    BY <1>6, <1>7 DEF Sel!Before
  <2>2. \A t, u \in T : t # u => <<t, u>> \in ByTurn(T) \/ <<u, t>> \in ByTurn(T)
    BY <1>6, <1>7, <1>8 DEF Sel!Before
  <2>3. \A t, u, v \in T : <<t, u>> \in ByTurn(T) /\ <<u, v>> \in ByTurn(T) => <<t, v>> \in ByTurn(T)
    BY <1>6, <1>7 DEF Sel!Before
  <2>. QED
    BY <1>5, <2>1, <2>2, <2>3 DEF Orders
<1>. QED
  BY <1>1, <1>3, <1>5, <1>9

\* The first n of some of them.
LEMMA SelFirst ==
    ASSUME NEW T, Orders(ByTurn(T), T), NEW S \in SUBSET T, NEW n \in Nat
    PROVE  /\ IsFiniteSet(S) /\ Cardinality(S) \in Nat
           /\ Sel!First(S, n) \subseteq S /\ IsFiniteSet(Sel!First(S, n))
           /\ n <= Cardinality(S) => Cardinality(Sel!First(S, n)) = n
           /\ Cardinality(S) <= n => Sel!First(S, n) = S
           /\ \A t \in Sel!First(S, n), u \in S : Sel!Before(u, t) => u \in Sel!First(S, n)
<1>1. PICK R, F : R = ByTurn(T) /\ F = Sel!First(S, n)
  OBVIOUS
<1>2. PICK c \in Nat : IsFiniteSet(S) /\ c = Cardinality(S)
  BY FS_Subset, FS_CardinalityType DEF Orders
<1>3. Orders(R, S)
  BY <1>1, <1>2 DEF Orders
<1>4. \A t, u \in S : <<t, u>> \in R <=> Sel!Before(t, u)
  BY <1>1 DEF ByTurn
<1>5. /\ \A t \in S : PlaceIn(R, S, t) \in 1..c
      /\ \A t, u \in S : <<t, u>> \in R <=> PlaceIn(R, S, t) < PlaceIn(R, S, u)
  BY <1>2, <1>3, PlacesFollow
<1>6. F = {t \in S : PlaceIn(R, S, t) <= n}
  <2>1. ASSUME NEW t \in S
        PROVE  Sel!Cardinality({u \in S : Sel!Before(u, t)}) < n <=> PlaceIn(R, S, t) <= n
    <3>1. PICK B : B = {u \in S : <<u, t>> \in R}
      OBVIOUS
    <3>2. {u \in S : Sel!Before(u, t)} = B
      BY <1>4, <2>1, <3>1
    <3>3. PICK b \in Nat : b = Cardinality(B)
      BY <1>2, <3>1, FS_Subset, FS_CardinalityType
    <3>4. Sel!Cardinality(B) = b /\ PlaceIn(R, S, t) = 1 + b
      BY <3>1, <3>3, SelCardinality DEF PlaceIn
    <3>. QED
      BY <3>2, <3>3, <3>4
  <2>. QED
    BY <1>1, <2>1 DEF Sel!First
<1>7. F \subseteq S /\ IsFiniteSet(F)
  BY <1>2, <1>6, FS_Subset
<1>8. n <= c => Cardinality(F) = n
  <2>1. n <= c => n \in 0..c
    BY <1>2
  <2>. QED
    BY <1>2, <1>3, <1>6, <2>1, PlacesAreTaken
<1>9. c <= n => F = S
  BY <1>2, <1>5, <1>6
<1>10. ASSUME NEW t \in F, NEW u \in S, Sel!Before(u, t)
       PROVE  u \in F
  <2>1. PICK i \in Nat, j \in Nat : i = PlaceIn(R, S, u) /\ j = PlaceIn(R, S, t)
    BY <1>2, <1>5, <1>7, <1>10
  <2>2. i < j /\ j <= n
    BY <1>4, <1>5, <1>6, <1>10, <2>1
  <2>. QED
    BY <1>6, <1>10, <2>1, <2>2
<1>. QED
  BY <1>1, <1>2, <1>7, <1>8, <1>9, <1>10

-----------------------------------------------------------------------------
(* What is chosen.                                                             *)

\* As many reviews as turns.
LEMMA SelNames ==
    ASSUME SelSettings, NEW from, hash \in Hashes, NEW V \in SUBSET Sel!Turns(from)
    PROVE  /\ IsFiniteSet(V) /\ IsFiniteSet({t[2] : t \in V}) /\ Cardinality(V) \in Nat
           /\ Cardinality({t[2] : t \in V}) = Cardinality(V)
<1>1. PICK T : T = Sel!Turns(from)
  OBVIOUS
<1>2. IsFiniteSet(T) /\ \A t, u \in T : t[2] = u[2] => t = u
  BY <1>1, SelTurnOrder DEF Orders
<1>3. IsFiniteSet(V) /\ Cardinality(V) \in Nat
  BY <1>1, <1>2, FS_Subset, FS_CardinalityType
<1>4. PICK N : N = {t[2] : t \in V}
  OBVIOUS
<1>. DEFINE f == [t \in V |-> t[2]]
<1>5. f \in Bijection(V, N)
  BY <1>1, <1>2, <1>4 DEF Bijection, Injection, Surjection, IsInjective
<1>6. IsFiniteSet(N) /\ Cardinality(N) = Cardinality(V)
  BY <1>3, <1>5, FS_Bijection DEF ExistsBijection
<1>. QED
  BY <1>3, <1>4, <1>6

OfSide(T, side) == {t \in T : pool[t[2]].side = side}

LEMMA SelReserved ==
    ASSUME SelSettings, hash \in Hashes, NEW T, T = Sel!Turns(pool)
    PROVE  /\ Sel!Reserved(pool, T) = Sel!First(OfSide(T, "negative"), MinPerSide)
                                         \cup Sel!First(OfSide(T, "positive"), MinPerSide)
           /\ Sel!Reserved(pool, T) \subseteq T /\ IsFiniteSet(Sel!Reserved(pool, T))
           /\ Cardinality(Sel!Reserved(pool, T)) \in 0..MaxSelected
           /\ \A t \in Sel!Reserved(pool, T) : pool[t[2]].side \in Sel!Sided
<1>. DEFINE F(side) == Sel!First(OfSide(T, side), MinPerSide)
<1>1. Sel!Reserved(pool, T) = F("negative") \cup F("positive")
  <2>1. Sel!Reserved(pool, T) = UNION {F(side) : side \in Sel!Sided}
    BY Zenon DEF Sel!Reserved, OfSide
  <2>2. UNION {F(side) : side \in {"negative", "positive"}} = F("negative") \cup F("positive")
    OBVIOUS
  <2>. QED
    BY <2>1, <2>2 DEF Sel!Sided
<1>2. ASSUME NEW side
      PROVE  /\ F(side) \subseteq OfSide(T, side) /\ IsFiniteSet(F(side))
             /\ Cardinality(F(side)) \in Nat /\ Cardinality(F(side)) <= MinPerSide
  <2>1. OfSide(T, side) \in SUBSET T /\ Orders(ByTurn(T), T) /\ MinPerSide \in Nat
    BY SelTurnOrder DEF OfSide, SelSettings
  <2>2. /\ Cardinality(OfSide(T, side)) \in Nat
        /\ F(side) \subseteq OfSide(T, side) /\ IsFiniteSet(F(side))
        /\ MinPerSide <= Cardinality(OfSide(T, side)) => Cardinality(F(side)) = MinPerSide
        /\ Cardinality(OfSide(T, side)) <= MinPerSide => F(side) = OfSide(T, side)
    BY <2>1, SelFirst
  <2>3. Cardinality(F(side)) \in Nat
    BY <2>2, FS_CardinalityType
  <2>. QED
    BY <2>1, <2>2, <2>3
<1>. HIDE DEF F
<1>3. PICK A, B : A = F("negative") /\ B = F("positive")
  OBVIOUS
<1>4. /\ IsFiniteSet(A) /\ Cardinality(A) \in Nat /\ Cardinality(A) <= MinPerSide
      /\ IsFiniteSet(B) /\ Cardinality(B) \in Nat /\ Cardinality(B) <= MinPerSide
  BY <1>2, <1>3
<1>5. IsFiniteSet(A \cup B) /\ Cardinality(A \cup B) \in Nat /\ Cardinality(A \cup B) <= Cardinality(A) + Cardinality(B)
  <2>1. IsFiniteSet(A \cup B) /\ Cardinality(A \cup B) = Cardinality(A) + Cardinality(B) - Cardinality(A \cap B)
    BY <1>4, FS_Union
  <2>2. Cardinality(A \cap B) \in Nat /\ Cardinality(A \cup B) \in Nat
    BY <1>4, <2>1, FS_Intersection, FS_CardinalityType
  <2>. QED
    BY <1>4, <2>1, <2>2
<1>6. Cardinality(A \cup B) \in 0..MaxSelected
  BY <1>4, <1>5 DEF SelSettings
<1>7. A \subseteq OfSide(T, "negative") /\ B \subseteq OfSide(T, "positive")
  BY <1>2, <1>3
<1>8. Sel!Reserved(pool, T) = A \cup B
  BY <1>1, <1>3
<1>9. A \cup B \subseteq T /\ \A t \in A \cup B : pool[t[2]].side \in Sel!Sided
  BY <1>7 DEF OfSide, Sel!Sided
<1>10. Sel!Reserved(pool, T) = Sel!First(OfSide(T, "negative"), MinPerSide)
                                  \cup Sel!First(OfSide(T, "positive"), MinPerSide)
  BY <1>1 DEF F
<1>. QED
  BY <1>5, <1>6, <1>8, <1>9, <1>10

Others(T) == Sel!First(T \ Sel!Reserved(pool, T), MaxSelected - Cardinality(Sel!Reserved(pool, T)))

\* All that is reserved is chosen, and the first of the others as long as there are places.
LEMMA SelChosen ==
    ASSUME SelSettings, hash \in Hashes, NEW T, T = Sel!Turns(pool),
           NEW V, V = Sel!Reserved(pool, T) \cup Others(T)
    PROVE  /\ Sel!Chosen(pool) = {t[2] : t \in V} /\ V \subseteq T
           /\ Others(T) \subseteq T \ Sel!Reserved(pool, T)
           /\ \A t \in Others(T), u \in T \ Sel!Reserved(pool, T) : Sel!Before(u, t) => u \in Others(T)
           /\ Cardinality(V) \in Nat /\ Cardinality(T) \in Nat
           /\ MaxSelected <= Cardinality(T) => Cardinality(V) = MaxSelected
           /\ Cardinality(T) <= MaxSelected => Cardinality(V) = Cardinality(T)
<1>1. PICK Rv : Rv = Sel!Reserved(pool, T)
  OBVIOUS
<1>2. /\ Rv \subseteq T /\ IsFiniteSet(Rv) /\ Cardinality(Rv) \in 0..MaxSelected
      /\ Orders(ByTurn(T), T) /\ IsFiniteSet(T) /\ Cardinality(T) \in Nat
  BY <1>1, SelReserved, SelTurnOrder, FS_CardinalityType DEF Orders
<1>3. PICK r \in Nat, k \in Nat, N \in Nat :
           r = Cardinality(Rv) /\ k = MaxSelected - r /\ N = Cardinality(T) /\ r + k = MaxSelected
  <2>1. Cardinality(Rv) \in Nat /\ MaxSelected - Cardinality(Rv) \in Nat
    BY <1>2 DEF SelSettings
  <2>. QED
    BY <1>2, <2>1 DEF SelSettings
<1>4. PICK L, O : L = T \ Rv /\ O = Sel!First(L, k)
  OBVIOUS
<1>5. O = Others(T)
  BY <1>1, <1>3, <1>4 DEF Others
<1>6. L \in SUBSET T /\ IsFiniteSet(L) /\ Cardinality(L) = N - r /\ r <= N
  <2>1. IsFiniteSet(T \ Rv) /\ Cardinality(T \ Rv) = Cardinality(T) - Cardinality(T \cap Rv)
    BY <1>2, FS_Difference
  <2>2. T \cap Rv = Rv
    BY <1>2
  <2>3. Cardinality(Rv) <= Cardinality(T)
    BY <1>2, FS_Subset
  <2>. QED
    BY <1>3, <1>4, <2>1, <2>2, <2>3
<1>7. /\ O \subseteq L /\ IsFiniteSet(O)
      /\ k <= Cardinality(L) => Cardinality(O) = k
      /\ Cardinality(L) <= k => O = L
      /\ \A t \in O, u \in L : Sel!Before(u, t) => u \in O
  <2>1. L \in SUBSET T /\ k \in Nat /\ Orders(ByTurn(T), T)
    BY <1>2, <1>3, <1>6
  <2>2. /\ Sel!First(L, k) \subseteq L /\ IsFiniteSet(Sel!First(L, k))
        /\ k <= Cardinality(L) => Cardinality(Sel!First(L, k)) = k
        /\ Cardinality(L) <= k => Sel!First(L, k) = L
        /\ \A t \in Sel!First(L, k), u \in L : Sel!Before(u, t) => u \in Sel!First(L, k)
    BY ONLY <2>1, SelFirst
  <2>. QED
    BY <1>4, <2>2
<1>8. V = Rv \cup O /\ Rv \cap O = {} /\ V \in SUBSET T
  BY <1>1, <1>2, <1>4, <1>5, <1>7
<1>9. IsFiniteSet(V) /\ Cardinality(V) = r + Cardinality(O)
  <2>1. IsFiniteSet(Rv \cup O) /\ Cardinality(Rv \cup O) = Cardinality(Rv) + Cardinality(O) - Cardinality(Rv \cap O)
    BY <1>2, <1>7, FS_Union
  <2>2. Cardinality(Rv \cap O) = 0
    BY <1>8, FS_EmptySet
  <2>3. Cardinality(O) \in Nat
    BY <1>7, FS_CardinalityType
  <2>4. r + Cardinality(O) - 0 = r + Cardinality(O)
    BY <1>3, <2>3
  <2>. QED
    BY <1>3, <1>8, <2>1, <2>2, <2>4
<1>10. Cardinality(V) \in Nat /\ (MaxSelected <= N => Cardinality(V) = MaxSelected) /\ (N <= MaxSelected => Cardinality(V) = N)
  <2>1. Cardinality(O) \in Nat
    BY <1>7, FS_CardinalityType
  <2>2. CASE k <= N - r
    BY <1>3, <1>6, <1>7, <1>9, <2>1, <2>2
  <2>3. CASE N - r <= k
    BY <1>3, <1>6, <1>7, <1>9, <2>1, <2>3
  <2>. QED
    BY <1>3, <2>2, <2>3
<1>11. Cardinality(V) <= MaxSelected
  BY <1>3, <1>10 DEF SelSettings
<1>12. Sel!First(V, MaxSelected) = V
  BY <1>2, <1>8, <1>10, <1>11, SelFirst DEF SelSettings
<1>13. Sel!Max({0, MaxSelected - Sel!Cardinality(Rv)}) = k
  <2>1. Sel!Max({0, k}) = Max({0, k})
    BY Zenon DEF Sel!Max, Max
  <2>2. {0, k} \subseteq Nat /\ {0, k} # {} /\ IsFiniteSet({0, k})
    <3>1. {0, k} \in SUBSET (0..k) /\ {0, k} \subseteq Nat
      BY <1>3
    <3>2. IsFiniteSet(0..k)
      BY <1>3, FS_Interval
    <3>. QED
      BY <3>1, <3>2, FS_Subset
  <2>3. Max({0, k}) \in {0, k} /\ \A x \in {0, k} : x <= Max({0, k})
    BY <2>2, MaxOfNat
  <2>4. Max({0, k}) = k
    BY <1>3, <2>3
  <2>. QED
    BY <1>3, <2>1, <2>4, SelCardinality
<1>14. Sel!Chosen(pool) = {t[2] : t \in V}
  BY <1>1, <1>4, <1>8, <1>12, <1>13 DEF Sel!Chosen
<1>. QED
  BY <1>1, <1>3, <1>4, <1>5, <1>7, <1>8, <1>10, <1>14

-----------------------------------------------------------------------------
(* What is kept.                                                               *)

LEMMA SelMin == ASSUME NEW a \in Nat, NEW b \in Nat
                PROVE  /\ Sel!Min({a, b}) \in Nat /\ Sel!Min({a, b}) <= a /\ Sel!Min({a, b}) <= b
                       /\ Sel!Min({a, b}) = a \/ Sel!Min({a, b}) = b
<1>1. Sel!Min({a, b}) = Min({a, b})
  BY Zenon DEF Sel!Min, Min
<1>2. {a, b} \subseteq Nat /\ {a, b} # {}
  OBVIOUS
<1>3. Min({a, b}) \in {a, b} /\ \A x \in {a, b} : Min({a, b}) <= x
  BY <1>2, MinOfNat
<1>. QED
  BY <1>1, <1>3

LEMMA SelFair ==
    ASSUME SelSettings, hash \in Hashes, selected.reviews = Sel!Chosen(pool)
    PROVE  Sel!SelectionIsFair
<1>1. PICK T, L, E : T = Sel!Turns(pool) /\ L = Sel!Representatives(pool) /\ E = Sel!Eligible(pool)
  OBVIOUS
<1>2. PICK V, C : V = Sel!Reserved(pool, T) \cup Others(T) /\ C = Sel!Chosen(pool)
  OBVIOUS
<1>3. C = {t[2] : t \in V} /\ V \in SUBSET T
  BY <1>1, <1>2, SelChosen
<1>4. /\ Cardinality(V) \in Nat /\ Cardinality(T) \in Nat
      /\ MaxSelected <= Cardinality(T) => Cardinality(V) = MaxSelected
      /\ Cardinality(T) <= MaxSelected => Cardinality(V) = Cardinality(T)
  BY <1>1, <1>2, SelChosen
<1>5. L \subseteq E /\ \A x, y \in L : pool[x] = pool[y] => x = y
  BY <1>1, SelOneOfEach
<1>6. \A t \in T : t[2] \in L
  BY <1>1, SelTurnOrder
<1>7. C \subseteq L
  BY <1>3, <1>6
<1>8. Sel!Usable = E
  BY <1>1 DEF Sel!Usable, Sel!Eligible
<1>9. IsFiniteSet(C) /\ Cardinality(C) = Cardinality(V)
  BY <1>1, <1>3, SelNames
<1>10. Cardinality(Sel!Different(E)) = Cardinality(T)
  <2>1. Cardinality(Sel!Different(E)) = Cardinality(E \cap L)
    BY <1>1, SelDifferent
  <2>2. E \cap L = L /\ Cardinality(T) = Cardinality(L)
    BY <1>1, <1>5, SelTurnOrder
  <2>. QED
    BY <2>1, <2>2
<1>11. Sel!Cardinality(C) = Sel!Min({MaxSelected, Sel!Cardinality(Sel!Different(E))})
  <2>1. PICK N, m : N = Cardinality(T) /\ m = Sel!Min({MaxSelected, N})
    OBVIOUS
  <2>2. N \in Nat /\ m \in Nat /\ m <= MaxSelected /\ m <= N /\ (m = MaxSelected \/ m = N)
    BY <1>4, <2>1, SelMin DEF SelSettings
  <2>3. Cardinality(V) = m
    BY <1>4, <2>1, <2>2
  <2>. QED
    BY <1>9, <1>10, <2>1, <2>3, SelCardinality
<1>12. ASSUME NEW side \in Sel!Sided
       PROVE  Sel!Cardinality(Sel!OnSide(C, side))
                 >= Sel!Min({MinPerSide, Sel!Cardinality(Sel!Different(Sel!OnSide(E, side)))})
  <2>1. PICK S, F, X : S = OfSide(T, side) /\ F = Sel!First(S, MinPerSide) /\ X = Sel!OnSide(E, side)
    OBVIOUS
  <2>2. S \in SUBSET T /\ Orders(ByTurn(T), T)
    BY <1>1, <2>1, SelTurnOrder DEF OfSide
  <2>3. /\ F \subseteq S /\ Cardinality(S) \in Nat
        /\ MinPerSide <= Cardinality(S) => Cardinality(F) = MinPerSide
        /\ Cardinality(S) <= MinPerSide => F = S
    BY <2>1, <2>2, SelFirst DEF SelSettings
  <2>4. F \in SUBSET T /\ F \subseteq V
    <3>1. Sel!Reserved(pool, T) = Sel!First(OfSide(T, "negative"), MinPerSide)
                                     \cup Sel!First(OfSide(T, "positive"), MinPerSide)
      BY <1>1, SelReserved
    <3>2. side = "negative" \/ side = "positive"
      BY <1>12 DEF Sel!Sided
    <3>. QED
      BY <1>2, <2>1, <2>2, <2>3, <3>1, <3>2
  <2>5. Cardinality({t[2] : t \in F}) = Cardinality(F) /\ Cardinality({t[2] : t \in S}) = Cardinality(S)
    BY <1>1, <2>2, <2>4, SelNames
  <2>6. {t[2] : t \in F} \in SUBSET Sel!OnSide(C, side)
    BY <1>3, <2>1, <2>3, <2>4 DEF Sel!OnSide, OfSide
  <2>7. IsFiniteSet(Sel!OnSide(C, side)) /\ Cardinality(Sel!OnSide(C, side)) \in Nat
    <3>1. Sel!OnSide(C, side) \in SUBSET C
      BY DEF Sel!OnSide
    <3>. QED
      BY <1>9, <3>1, FS_Subset, FS_CardinalityType
  <2>8. Cardinality(F) <= Cardinality(Sel!OnSide(C, side))
    BY <2>5, <2>6, <2>7, FS_Subset
  <2>9. {t[2] : t \in S} = X \cap L
    <3>1. \A x \in L : <<Ahead(pool, x), x>> \in T
      BY <1>1, SelTurns
    <3>2. \A x \in L : \E t \in T : t[2] = x
      BY <3>1
    <3>. QED
      BY <1>5, <1>6, <2>1, <3>2 DEF Sel!OnSide, OfSide
  <2>10. Cardinality(Sel!Different(X)) = Cardinality(S)
    <3>1. X \in SUBSET E /\ \A x \in X, y \in E : pool[x] = pool[y] => y \in X
      BY <2>1 DEF Sel!OnSide
    <3>2. Cardinality(Sel!Different(X)) = Cardinality(X \cap L)
      BY <1>1, <3>1, SelDifferent
    <3>. QED
      BY <2>5, <2>9, <3>2
  <2>11. PICK n, m : n = Cardinality(S) /\ m = Sel!Min({MinPerSide, n})
    OBVIOUS
  <2>12. n \in Nat /\ m \in Nat /\ m <= MinPerSide /\ m <= n
    BY <2>3, <2>11, SelMin DEF SelSettings
  <2>13. m <= Cardinality(F)
    <3>1. CASE MinPerSide <= n
      BY <2>3, <2>11, <2>12, <3>1
    <3>2. CASE n <= MinPerSide
      BY <2>3, <2>11, <2>12, <3>2
    <3>. QED
      BY <2>12, <3>1, <3>2 DEF SelSettings
  <2>14. Cardinality(F) \in Nat
    <3>1. CASE MinPerSide <= n
      BY <2>3, <2>11, <3>1 DEF SelSettings
    <3>2. CASE n <= MinPerSide
      BY <2>3, <2>11, <3>2
    <3>. QED
      BY <2>12, <3>1, <3>2 DEF SelSettings
  <2>15. Cardinality(Sel!OnSide(C, side)) >= m
    BY <2>7, <2>8, <2>12, <2>13, <2>14
  <2>. QED
    BY <2>1, <2>10, <2>11, <2>15, SelCardinality
<1>13. \A x, y \in C : pool[x] = pool[y] => x = y
  BY <1>5, <1>7
<1>14. C \subseteq Sel!Usable
  BY <1>5, <1>7, <1>8
<1>. QED
  BY <1>2, <1>8, <1>11, <1>12, <1>13, <1>14 DEF Sel!SelectionIsFair

LEMMA SelShares ==
    ASSUME SelSettings, hash \in Hashes, selected.reviews = Sel!Chosen(pool)
    PROVE  Sel!PlatformsShare
<1>1. PICK T, L, C : T = Sel!Turns(pool) /\ L = Sel!Representatives(pool) /\ C = Sel!Chosen(pool)
  OBVIOUS
<1>2. PICK Rv, O : Rv = Sel!Reserved(pool, T) /\ O = Others(T)
  OBVIOUS
<1>3. /\ C = {t[2] : t \in Rv \cup O} /\ Rv \cup O \subseteq T
      /\ \A t \in O, u \in T \ Rv : Sel!Before(u, t) => u \in O
      /\ \A t \in Rv : pool[t[2]].side \in Sel!Sided
  <2>1. PICK V : V = Rv \cup O
    OBVIOUS
  <2>2. /\ C = {t[2] : t \in V} /\ V \subseteq T /\ O \subseteq T \ Rv
        /\ \A t \in O, u \in T \ Rv : Sel!Before(u, t) => u \in O
    BY <1>1, <1>2, <2>1, SelChosen
  <2>3. \A t \in Rv : pool[t[2]].side \in Sel!Sided
    BY <1>1, <1>2, SelReserved
  <2>. QED
    BY <2>1, <2>2, <2>3
<1>. DEFINE A(x) == Ahead(pool, x)
<1>4. /\ \A x \in L : x[1] \in ReviewPlatform /\ A(x) \in Nat /\ <<A(x), x>> \in T
      /\ \A t \in T : t[2] \in L /\ t = <<A(t[2]), t[2]>>
  BY <1>1, SelTurns, SelTurnOrder
<1>5. C \subseteq L /\ IsFiniteSet(C)
  BY <1>1, <1>3, <1>4, SelTurns, FS_Subset
<1>. HIDE DEF A
<1>6. ASSUME NEW p \in ReviewPlatform, NEW q \in ReviewPlatform, NEW z \in L \ C, z[1] = q
      PROVE  Cardinality({x \in {w \in C : w[1] = p} : pool[x].side \notin Sel!Sided})
                <= Cardinality({w \in C : w[1] = q}) + 1
  <2>1. PICK P, Q, R : P = PlatformQueue(pool, p) /\ Q = PlatformQueue(pool, q) /\ R = ByHash(pool)
    OBVIOUS
  <2>2. /\ IsFiniteSet(P) /\ Orders(R, P) /\ \A x \in P : 1 + A(x) = PlaceIn(R, P, x)
        /\ IsFiniteSet(Q) /\ Orders(R, Q) /\ \A x \in Q : 1 + A(x) = PlaceIn(R, Q, x)
    BY <2>1, SelQueue DEF A
  <2>3. P = {x \in L : x[1] = p} /\ Q = {x \in L : x[1] = q}
    BY <1>1, <2>1 DEF PlatformQueue
  <2>4. PICK y \in Q \ C : \A x \in Q \ C : A(y) <= A(x)
    <3>1. PICK S : S = {A(x) : x \in Q \ C}
      OBVIOUS
    <3>2. S \subseteq Nat /\ S # {}
      BY <1>4, <1>6, <2>3, <3>1
    <3>3. Min(S) \in S /\ \A s \in S : Min(S) <= s
      BY <3>2, MinOfNat
    <3>4. PICK x \in Q \ C : A(x) = Min(S)
      BY <3>1, <3>3
    <3>. QED
      BY <3>1, <3>3, <3>4
  <2>5. PICK b \in Nat : b = A(y)
    BY <1>4, <2>3, <2>4
  <2>6. PICK D, X : D = {w \in C : w[1] = q} /\ X = {x \in {w \in C : w[1] = p} : pool[x].side \notin Sel!Sided}
    OBVIOUS
  <2>7. IsFiniteSet(D) /\ Cardinality(D) \in Nat /\ IsFiniteSet(X) /\ Cardinality(X) \in Nat
    BY <1>5, <2>6, FS_Subset, FS_CardinalityType
  <2>8. b <= Cardinality(D)
    <3>1. PICK B : B = {x \in Q : PlaceIn(R, Q, x) <= b}
      OBVIOUS
    <3>2. PICK c \in Nat : c = Cardinality(Q)
      BY <2>2, FS_CardinalityType
    <3>3. b \in 0..c
      <4>1. PlaceIn(R, Q, y) \in 1..c /\ PlaceIn(R, Q, y) = 1 + b
        BY <2>2, <2>4, <2>5, <3>2, PlacesFollow
      <4>. QED
        BY <2>5, <3>2, <4>1
    <3>4. Cardinality(B) = b
      BY <2>2, <3>1, <3>2, <3>3, PlacesAreTaken
    <3>5. \A x \in B : x \in L /\ A(x) \in Nat /\ 1 + A(x) <= b
      BY <1>4, <2>2, <2>3, <3>1
    <3>6. \A x \in B : x \in C
      <4>1. SUFFICES ASSUME NEW x \in B, x \notin C
                     PROVE  FALSE
        OBVIOUS
      <4>2. b <= A(x)
        BY <2>4, <2>5, <3>1, <4>1
      <4>. QED
        BY <2>5, <3>5, <4>1, <4>2
    <3>7. B \in SUBSET D
      BY <2>3, <2>6, <3>1, <3>6
    <3>. QED
      BY <2>7, <3>4, <3>7, FS_Subset
  <2>9. \A x \in X : x \in P /\ A(x) <= b
    <3>1. SUFFICES ASSUME NEW x \in X
                   PROVE  x \in P /\ A(x) <= b
      OBVIOUS
    <3>2. x \in C /\ x \in L /\ x \in P /\ pool[x].side \notin Sel!Sided
      BY <1>5, <2>3, <2>6, <3>1
    <3>3. PICK t \in Rv \cup O : t[2] = x
      BY <1>3, <3>2
    <3>4. t \in O /\ t[1] = A(x) /\ t \in T
      BY <1>3, <1>4, <3>2, <3>3
    <3>5. PICK u : u = <<b, y>>
      OBVIOUS
    <3>6. u \in T /\ u[1] = b /\ u[2] = y
      BY <1>4, <2>3, <2>4, <2>5, <3>5
    <3>7. u \notin Rv \cup O
      BY <1>3, <2>4, <3>6
    <3>8. ~Sel!Before(u, t)
      BY <1>3, <3>4, <3>6, <3>7
    <3>9. ~(b < A(x))
      BY <3>4, <3>6, <3>8 DEF Sel!Before
    <3>10. A(x) \in Nat
      BY <1>4, <3>2
    <3>. QED
      BY <2>5, <3>2, <3>9, <3>10
  <2>10. Cardinality(X) <= b + 1
    <3>1. PICK c \in Nat : c = Cardinality(P)
      BY <2>2, FS_CardinalityType
    <3>2. CASE c <= b + 1
      <4>1. X \in SUBSET P
        BY <2>9
      <4>2. Cardinality(X) <= c
        BY <2>2, <3>1, <4>1, FS_Subset
      <4>. QED
        BY <2>5, <2>7, <3>1, <3>2, <4>2
    <3>3. CASE b + 1 <= c
      <4>1. PICK B : B = {x \in P : PlaceIn(R, P, x) <= b + 1}
        OBVIOUS
      <4>2. b + 1 \in 0..c
        BY <2>5, <3>1, <3>3
      <4>3. IsFiniteSet(B) /\ Cardinality(B) = b + 1
        BY <2>2, <3>1, <4>1, <4>2, PlacesAreTaken
      <4>4. \A x \in X : x \in P /\ A(x) \in Nat /\ 1 + A(x) <= b + 1
        <5>1. SUFFICES ASSUME NEW x \in X
                       PROVE  x \in P /\ A(x) \in Nat /\ 1 + A(x) <= b + 1
          OBVIOUS
        <5>2. x \in P /\ A(x) <= b /\ A(x) \in Nat
          BY <1>4, <2>3, <2>9, <5>1
        <5>. QED
          BY <2>5, <5>2
      <4>5. X \in SUBSET B
        BY <2>2, <4>1, <4>4
      <4>. QED
        BY <4>3, <4>5, FS_Subset
    <3>. QED
      BY <2>5, <3>1, <3>2, <3>3
  <2>. QED
    BY <2>5, <2>6, <2>7, <2>8, <2>10
<1>7. \A S : Sel!Cardinality(S) = Cardinality(S)
  BY SelCardinality
<1>. QED
  BY <1>1, <1>6, <1>7 DEF Sel!PlatformsShare

LEMMA SelEdits ==
    ASSUME SelSettings, hash \in Hashes, pool \in ReviewPools, selected.reviews = Sel!Chosen(pool)
    PROVE  Sel!EditsDoNotSteer
<1>1. SUFFICES ASSUME NEW x \in Sel!Usable, Sel!Same(pool, x) = {x}
               PROVE  Sel!Chosen([pool EXCEPT ![x].words = Sel!Max(ReviewWords) + 1]) = Sel!Chosen(pool)
  BY DEF Sel!EditsDoNotSteer
<1>2. PICK w, Q : w = Sel!Max(ReviewWords) + 1 /\ Q = [pool EXCEPT ![x].words = w]
  OBVIOUS
<1>3. x \in Sel!Place /\ pool[x] # Sel!Absent /\ pool[x].words # 0
  BY <1>1 DEF Sel!Usable, Sel!Reviews, Sel!Blank
<1>4. pool[x] \in [words : ReviewWords \cup {0}, side : Side] /\ pool[x].words \in ReviewWords
  BY <1>3 DEF ReviewPools, Sel!Blank
<1>5. w \in Nat /\ w # 0 /\ \A v \in ReviewWords : v < w
  <2>1. Sel!Max(ReviewWords) = Max(ReviewWords)
    BY Zenon DEF Sel!Max, Max
  <2>2. ReviewWords \subseteq Nat /\ IsFiniteSet(ReviewWords) /\ ReviewWords # {}
    BY <1>4 DEF SelSettings
  <2>3. Max(ReviewWords) \in ReviewWords /\ \A v \in ReviewWords : v <= Max(ReviewWords)
    BY <2>2, MaxOfNat
  <2>4. PICK m \in Nat : m = Max(ReviewWords) /\ w = m + 1
    BY <1>2, <2>1, <2>2, <2>3
  <2>5. \A v \in ReviewWords : v \in Nat /\ v <= m
    BY <2>2, <2>3, <2>4
  <2>. QED
    BY <2>4, <2>5
<1>6. /\ \A y \in Sel!Place : y # x => Q[y] = pool[y]
      /\ Q[x].words = w /\ Q[x].side = pool[x].side
  BY <1>2, <1>3, <1>4 DEF ReviewPools
<1>7. \A y \in Sel!Place : pool[y].words # w
  BY <1>5 DEF ReviewPools, Sel!Absent, Sel!Blank
<1>8. Q[x] # Sel!Absent
  BY <1>5, <1>6 DEF Sel!Absent
<1>9. Sel!Reviews(Q) = Sel!Reviews(pool) /\ Sel!Reviews(pool) \subseteq Sel!Place
  BY <1>3, <1>6, <1>8 DEF Sel!Reviews
<1>10. \A y : Sel!Key(Q, y) = Sel!Key(pool, y)
  BY <1>9 DEF Sel!Key
<1>11. Sel!Eligible(Q) = Sel!Eligible(pool)
  BY <1>3, <1>5, <1>6, <1>9 DEF Sel!Eligible, Sel!Blank
<1>12. ASSUME NEW y \in Sel!Reviews(pool)
       PROVE  Sel!Same(Q, y) = Sel!Same(pool, y)
  <2>1. CASE y = x
    <3>1. \A z \in Sel!Reviews(pool) : z # x => Q[z] # Q[x]
      BY <1>6, <1>7, <1>9
    <3>. QED
      BY <1>1, <1>3, <1>9, <1>12, <2>1, <3>1 DEF Sel!Same
  <2>2. CASE y # x
    <3>1. Q[y] = pool[y] /\ Q[x] # Q[y]
      BY <1>6, <1>7, <1>9, <1>12, <2>2
    <3>2. pool[x] # pool[y]
      BY <1>1, <1>12, <2>2 DEF Sel!Same
    <3>3. \A z \in Sel!Reviews(pool) : Q[z] = Q[y] <=> pool[z] = pool[y]
      BY <1>6, <1>9, <3>1, <3>2
    <3>. QED
      BY <1>9, <3>3 DEF Sel!Same
  <2>. QED
    BY <2>1, <2>2
<1>13. PICK L : L = Sel!Representatives(pool) /\ L \subseteq Sel!Reviews(pool)
  BY SelOneOfEach DEF Sel!Eligible
<1>14. Sel!Representatives(Q) = L
  <2>1. Sel!Eligible(pool) \subseteq Sel!Reviews(pool)
    BY DEF Sel!Eligible
  <2>. QED
    BY <1>10, <1>11, <1>12, <1>13, <2>1 DEF Sel!Representatives
<1>15. \A y \in L : Ahead(Q, y) = Ahead(pool, y)
  BY <1>10, <1>13, <1>14 DEF Ahead
<1>16. PICK T : T = Sel!Turns(pool)
  OBVIOUS
<1>17. Sel!Turns(Q) = T
  <2>1. /\ Sel!Turns(Q) = {<<Ahead(Q, y), y>> : y \in L}
        /\ T = {<<Ahead(pool, y), y>> : y \in L}
    BY <1>13, <1>14, <1>16, SelTurns
  <2>. QED
    BY <1>15, <2>1
<1>18. Sel!Reserved(Q, T) = Sel!Reserved(pool, T)
  <2>1. \A t \in T : t[2] \in Sel!Place
    BY <1>9, <1>13, <1>16, SelTurnOrder
  <2>2. \A t \in T : Q[t[2]].side = pool[t[2]].side
    BY <1>6, <2>1
  <2>3. \A side : {t \in T : Q[t[2]].side = side} = {t \in T : pool[t[2]].side = side}
    BY <2>2
  <2>. QED
    BY <2>3 DEF Sel!Reserved
<1>19. Sel!Chosen(Q) = Sel!Chosen(pool)
  BY Zenon, <1>16, <1>17, <1>18 DEF Sel!Chosen
<1>. QED
  BY <1>2, <1>19

-----------------------------------------------------------------------------
\* The inductive invariant: what was selected is what is chosen of the pool.
SelInv == /\ pool # Sel!Nothing => pool \in ReviewPools /\ hash \in Hashes
          /\ selected # Sel!Nothing => pool # Sel!Nothing /\ selected.reviews = Sel!Chosen(pool)

LEMMA SelNext ==
    ASSUME SelSettings, SelInv, [Sel!Next]_(Sel!vars)
    PROVE  SelInv'
<1>1. CASE Sel!Observed
  <2>1. pool = Sel!Nothing /\ pool' \in ReviewPools /\ hash' \in Hashes /\ selected' = selected
    BY <1>1 DEF Sel!Observed, ReviewPools
  <2>2. selected = Sel!Nothing
    BY <2>1 DEF SelInv
  <2>. QED
    BY <2>1, <2>2 DEF SelInv, ReviewPools, Sel!Nothing
<1>2. CASE pool' = pool /\ hash' = hash /\ (Sel!Select \/ selected' = selected)
  <2>1. Sel!Chosen(pool)' = Sel!Chosen(pool)
    <3>1. Sel!Turns(pool)' = Sel!Turns(pool)
      BY <1>2 DEF Sel!Turns
    <3>. QED
      BY <1>2, <3>1 DEF Sel!Chosen
  <2>2. selected' # Sel!Nothing => pool # Sel!Nothing /\ selected'.reviews = Sel!Chosen(pool)
    BY <1>2 DEF Sel!Select, SelInv
  <2>3. pool # Sel!Nothing => pool \in ReviewPools /\ hash \in Hashes
    BY DEF SelInv
  <2>4. ReviewPools' = ReviewPools
    BY DEF ReviewPools
  <2>. QED
    BY Zenon, <1>2, <2>1, <2>2, <2>3, <2>4 DEF SelInv, Sel!Nothing
<1>. QED
  BY <1>1, <1>2 DEF Sel!Next, Sel!Select, Sel!vars

\* The reviews that are selected are different ones, as many as there may be, and of both sides; no
\* platform is crowded out; and no edit of a text changes them.
THEOREM ReviewSelectionHolds == ASSUME SelSettings PROVE Sel!Spec => []Sel!SelectionKept
<1>1. ASSUME Sel!Init PROVE SelInv
  BY <1>1 DEF Sel!Init, SelInv, Sel!Nothing
<1>2. ASSUME SelInv PROVE Sel!SelectionKept
  BY <1>2, SelFair, SelShares, SelEdits DEF SelInv, Sel!SelectionKept
<1>. QED
  BY <1>1, <1>2, SelNext, PTL DEF Sel!Spec

------------------------------------------------------------------------------
(* LetsPlayChoice: the video that is listened to.                            *)

\* Videos and words are numbered, and views are counted; a name, a text and a list of tracks are
\* sequences, and a compound is a triple.
ChoSettings == /\ Video \subseteq Nat \ {0} /\ IsFiniteSet(Video)
               /\ \A c \in Candidate : c.views \in Nat
               /\ Name \subseteq Seq(Nat) /\ Text \subseteq Seq(Nat)
               /\ \A c \in Compound : c = <<c[1], c[2], c[3]>>
               /\ \A t \in Tracks : \E N \in Nat : DOMAIN t = 1..N
               /\ MaxHeard \in Nat /\ SpokenGap \in Nat

-----------------------------------------------------------------------------
(* The shortlist.                                                              *)

LEMMA ChoMin == ASSUME NEW S \in SUBSET Nat, NEW x \in S
                PROVE  Cho!Min(S) \in S /\ \A y \in S : Cho!Min(S) <= y
<1>1. Cho!Min(S) = Min(S)
  BY Zenon DEF Cho!Min, Min
<1>2. Min(S) \in S /\ \A y \in S : Min(S) <= y
  BY MinOfNat
<1>. QED
  BY <1>1, <1>2

LEMMA ChoPlaces ==
    ASSUME ChoSettings, found \in [Video -> Candidate]
    PROVE  /\ IsFiniteSet(Cho!WorthListening)
           /\ \A v \in Cho!WorthListening : /\ v \in Video /\ Cho!Place(v) \in Nat
                                             /\ Cho!Place(v) \in 1..Cardinality(Cho!WorthListening)
           /\ \A v, w \in Cho!WorthListening : Cho!Above(v, w) <=> Cho!Place(v) < Cho!Place(w)
           /\ \A v, w \in Cho!WorthListening : Cho!Place(v) = Cho!Place(w) => v = w
           /\ \A n \in 1..Cardinality(Cho!WorthListening) : \E v \in Cho!WorthListening : Cho!Place(v) = n
<1>1. PICK S : S = Cho!WorthListening
  OBVIOUS
<1>2. PICK R : R = {x \in S \X S : Cho!Above(x[1], x[2])}
  OBVIOUS
<1>3. S \subseteq Video /\ IsFiniteSet(S) /\ \A v \in S : v \in Nat /\ found[v].views \in Nat
  BY <1>1, FS_Subset DEF Cho!WorthListening, ChoSettings
<1>4. \A v, w \in S : <<v, w>> \in R <=> Cho!Above(v, w)
  BY <1>2
<1>5. Orders(R, S)
  BY <1>3, <1>4 DEF Orders, Cho!Above
<1>6. \A v \in S : Cho!Place(v) = PlaceIn(R, S, v)
  <2>1. SUFFICES ASSUME NEW v \in S
                 PROVE  Cho!Place(v) = PlaceIn(R, S, v)
    OBVIOUS
  <2>2. {w \in Cho!WorthListening : Cho!Above(w, v)} = {w \in S : <<w, v>> \in R}
    BY <1>1, <1>4, <2>1
  <2>3. \A T : Cho!Cardinality(T) = Cardinality(T)
    BY Zenon DEF Cho!Cardinality, Cardinality
  <2>. QED
    BY <2>2, <2>3 DEF Cho!Place, PlaceIn
<1>7. /\ \A v \in S : PlaceIn(R, S, v) \in 1..Cardinality(S)
      /\ \A v, w \in S : <<v, w>> \in R <=> PlaceIn(R, S, v) < PlaceIn(R, S, w)
  BY <1>5, PlacesFollow
<1>8. \A n \in 1..Cardinality(S) : \E v \in S : PlaceIn(R, S, v) = n
  BY <1>5, PlacesAreTaken
<1>9. Cardinality(S) \in Nat
  BY <1>3, FS_CardinalityType
<1>10. \A v \in S : v \in Video /\ Cho!Place(v) \in Nat /\ Cho!Place(v) \in 1..Cardinality(S)
  BY <1>3, <1>6, <1>7, <1>9
<1>11. \A v, w \in S : Cho!Above(v, w) <=> Cho!Place(v) < Cho!Place(w)
  BY <1>4, <1>6, <1>7
<1>12. ASSUME NEW v \in S, NEW w \in S, Cho!Place(v) = Cho!Place(w)
       PROVE  v = w
  <2>1. ~(Cho!Place(v) < Cho!Place(w)) /\ ~(Cho!Place(w) < Cho!Place(v))
    BY <1>10, <1>12
  <2>2. v = w \/ Cho!Above(v, w) \/ Cho!Above(w, v)
    BY <1>3, <1>12 DEF Cho!Above
  <2>. QED
    BY <1>11, <1>12, <2>1, <2>2
<1>13. \A n \in 1..Cardinality(S) : \E v \in S : Cho!Place(v) = n
  BY <1>6, <1>8
<1>. QED
  BY <1>1, <1>3, <1>10, <1>11, <1>12, <1>13

LEMMA ChoTurn ==
    ASSUME ChoSettings, found \in [Video -> Candidate], heard \in Seq(Nat) \/ Len(heard) \in Nat, Cho!Listening
    PROVE  LET v == Cho!Shortlisted(Len(heard) + 1)
           IN v \in Cho!WorthListening /\ v \in Video /\ Cho!Place(v) = Len(heard) + 1
<1>1. PICK L \in Nat, c \in Nat : L = Len(heard) /\ c = Cardinality(Cho!WorthListening)
  BY ChoPlaces, FS_CardinalityType, LenProperties
<1>2. Cho!Cardinality(Cho!WorthListening) = c
  <2>1. \A T : Cho!Cardinality(T) = Cardinality(T)
    BY Zenon DEF Cho!Cardinality, Cardinality
  <2>. QED
    BY <1>1, <2>1
<1>3. L < Cho!Min({MaxHeard, c})
  BY <1>1, <1>2 DEF Cho!Listening
<1>4. {MaxHeard, c} \in SUBSET Nat /\ c \in {MaxHeard, c}
  BY <1>1 DEF ChoSettings
<1>5. Cho!Min({MaxHeard, c}) \in {MaxHeard, c} /\ Cho!Min({MaxHeard, c}) <= c
  BY <1>4, ChoMin
<1>6. L + 1 \in 1..c
  BY <1>1, <1>3, <1>4, <1>5
<1>7. \E v \in Cho!WorthListening : Cho!Place(v) = L + 1
  BY <1>1, <1>6, ChoPlaces
<1>8. Cho!Shortlisted(L + 1) \in Cho!WorthListening /\ Cho!Place(Cho!Shortlisted(L + 1)) = L + 1
  BY <1>7 DEF Cho!Shortlisted
<1>. QED
  BY <1>1, <1>8, ChoPlaces

-----------------------------------------------------------------------------
(* What is heard.                                                              *)

LEMMA ChoNextIn ==
    ASSUME ChoSettings, NEW text \in Seq(Nat), NEW w, NEW at \in Nat
    PROVE  /\ Cho!NextIn(text, w, at) = {p \in DOMAIN text : p - at \in 1..(SpokenGap + 1) /\ text[p] = w}
           /\ Cho!NextIn(text, w, at) \in SUBSET Nat
<1>1. PICK L \in Nat, e \in Nat : L = Len(text) /\ e = at + 1 + SpokenGap /\ DOMAIN text = 1..L
  BY LenProperties DEF ChoSettings
<1>2. {L, e} \in SUBSET Nat /\ L \in {L, e} /\ e \in {L, e}
  BY <1>1
<1>3. PICK m \in {L, e} : m = Cho!Min({L, e}) /\ m <= L /\ m <= e
  BY <1>2, ChoMin
<1>4. Cho!NextIn(text, w, at) = {p \in (at + 1)..m : text[p] = w}
  BY <1>1, <1>3 DEF Cho!NextIn
<1>5. \A p : p \in (at + 1)..m <=> p \in 1..L /\ p - at \in 1..(SpokenGap + 1)
  <2>1. PICK g \in Nat : g = SpokenGap
    BY DEF ChoSettings
  <2>2. PICK k : k = m
    OBVIOUS
  <2>3. e = at + 1 + g /\ (k = L \/ k = e) /\ k <= L /\ k <= e /\ at \in Nat /\ L \in Nat /\ g \in Nat
    BY <1>1, <1>3, <2>1, <2>2
  <2>4. k \in Int /\ 1..L \subseteq Int /\ (at + 1)..k \subseteq Int
    BY ONLY <2>3
  <2>5. \A p \in Int : p \in (at + 1)..k <=> p \in 1..L /\ p - at \in 1..(g + 1)
    <3>1. SUFFICES ASSUME NEW p \in Int
                   PROVE  (at + 1 <= p /\ p <= k) <=> (1 <= p /\ p <= L /\ 1 <= p - at /\ p - at <= g + 1)
      BY ONLY <2>3, <2>4, <3>1
    <3>. QED
      BY ONLY <2>3, <2>4, <3>1
  <2>. QED
    BY ONLY <2>1, <2>2, <2>4, <2>5
<1>. QED
  BY <1>1, <1>4, <1>5

\* What is taken for the name is the name, and a name of two words is not missed.
LEMMA ChoSpeech ==
    ASSUME ChoSettings, name \in Seq(Nat), NEW text \in Seq(Nat)
    PROVE  /\ Cho!SpeechNamesGame(text) => Cho!InOrder(text)
           /\ Cho!InOrder(text) /\ Len(name) <= 2 => Cho!SpeechNamesGame(text)
<1>1. PICK L \in Nat : L = Len(name) /\ DOMAIN name = 1..L /\ (name # <<>> => L # 0)
  BY LenProperties, EmptySeq
<1>2. DOMAIN text \subseteq Nat
  BY LenProperties
<1>3. ASSUME Cho!SpeechNamesGame(text)
      PROVE  Cho!InOrder(text)
  <2>1. PICK place \in [DOMAIN name -> DOMAIN text] : Cho!Follows(text, place)
    BY <1>3 DEF Cho!SpeechNamesGame
  <2>2. name # <<>> /\ L # 0
    BY <1>1, <1>3 DEF Cho!SpeechNamesGame
  <2>3. ASSUME NEW n \in 2..L
        PROVE  text[place[n]] = name[n] /\ place[n] - place[n - 1] \in 1..(SpokenGap + 1)
    <3>1. n \in 1..L /\ n - 1 \in 1..L
      BY <1>1, <2>3
    <3>2. PICK a \in Nat : a = place[n - 1]
      BY <1>1, <1>2, <2>1, <3>1
    <3>3. PICK W : W = Cho!NextIn(text, name[n], a)
      OBVIOUS
    <3>4. W # {} /\ place[n] = Cho!Min(W)
      BY <1>1, <2>1, <2>3, <3>2, <3>3 DEF Cho!Follows
    <3>5. W = {p \in DOMAIN text : p - a \in 1..(SpokenGap + 1) /\ text[p] = name[n]} /\ W \in SUBSET Nat
      BY <3>3, ChoNextIn
    <3>6. place[n] \in W
      BY <3>4, <3>5, ChoMin
    <3>. QED
      BY <3>2, <3>5, <3>6
  <2>4. text[place[1]] = name[1]
    BY <2>1 DEF Cho!Follows
  <2>5. \A n \in DOMAIN name : n = 1 \/ n \in 2..L
    BY <1>1
  <2>6. \A n \in DOMAIN name : text[place[n]] = name[n]
    BY <2>3, <2>4, <2>5
  <2>. QED
    BY <1>1, <2>1, <2>2, <2>3, <2>6 DEF Cho!InOrder
<1>4. ASSUME Cho!InOrder(text), Len(name) <= 2
      PROVE  Cho!SpeechNamesGame(text)
  <2>1. PICK p \in [DOMAIN name -> DOMAIN text] :
             /\ \A n \in DOMAIN name : text[p[n]] = name[n]
             /\ \A n \in 2..Len(name) : p[n] - p[n - 1] \in 1..(SpokenGap + 1)
    BY <1>4 DEF Cho!InOrder
  <2>2. name # <<>> /\ L # 0 /\ L \in {1, 2} /\ 1 \in 1..L
    <3>1. name # <<>>
      BY <1>4 DEF Cho!InOrder
    <3>2. L # 0 /\ L <= 2
      BY <1>1, <1>4, <3>1
    <3>. QED
      BY <1>1, <3>1, <3>2
  <2>3. PICK a \in Nat : a = p[1] /\ a \in DOMAIN text /\ text[a] = name[1]
    BY <1>1, <1>2, <2>1, <2>2
  <2>4. PICK W : W = Cho!NextIn(text, name[2], a)
    OBVIOUS
  <2>5. W = {q \in DOMAIN text : q - a \in 1..(SpokenGap + 1) /\ text[q] = name[2]} /\ W \in SUBSET Nat
    BY <2>3, <2>4, ChoNextIn
  <2>6. L = 2 => W # {} /\ Cho!Min(W) \in W
    <3>1. SUFFICES ASSUME L = 2
                   PROVE  W # {} /\ Cho!Min(W) \in W
      OBVIOUS
    <3>2. 2 \in 1..L /\ 2 \in 2..L /\ 2 - 1 = 1
      BY <3>1
    <3>3. p[2] \in DOMAIN text /\ text[p[2]] = name[2] /\ p[2] - p[1] \in 1..(SpokenGap + 1)
      BY <1>1, <2>1, <3>2
    <3>4. p[2] \in W
      BY <2>3, <2>5, <3>3
    <3>. QED
      BY <2>5, <3>4, ChoMin
  <2>7. PICK place : place = [n \in DOMAIN name |-> IF n = 1 THEN a ELSE Cho!Min(W)]
    OBVIOUS
  <2>8. \A n \in DOMAIN name : n = 1 \/ (n = 2 /\ L = 2)
    BY <1>1, <2>2
  <2>9. place \in [DOMAIN name -> DOMAIN text] /\ place[1] = a
    BY <1>1, <2>2, <2>3, <2>5, <2>6, <2>7, <2>8
  <2>10. ASSUME NEW n \in 2..L
         PROVE  W = Cho!NextIn(text, name[n], place[n - 1]) /\ W # {} /\ place[n] = Cho!Min(W)
    <3>1. n = 2 /\ L = 2 /\ n - 1 = 1
      BY <2>2, <2>10
    <3>2. 2 \in DOMAIN name
      BY <1>1, <3>1
    <3>. QED
      BY <2>4, <2>6, <2>7, <2>9, <3>1, <3>2
  <2>11. Cho!Follows(text, place)
    BY <1>1, <2>3, <2>9, <2>10 DEF Cho!Follows
  <2>. QED
    BY <2>2, <2>9, <2>11 DEF Cho!SpeechNamesGame
<1>. QED
  BY <1>3, <1>4

\* The words of a speech, and those that two of its words make up, are what is heard at its places.
LEMMA ChoTouched ==
    ASSUME ChoSettings, NEW text \in Seq(Nat)
    PROVE  Cho!SpeechTouchesName(text) <=> Cho!Touched(text)
<1>1. PICK L \in Nat : L = Len(text) /\ DOMAIN text = 1..L
  BY LenProperties
<1>2. PICK P : P = {<<text[i], text[i + 1]>> : i \in 1..(L - 1)}
  OBVIOUS
<1>3. PICK W : W = Cho!ToSet(text) \cup {c[3] : c \in {c \in Compound : <<c[1], c[2]>> \in P}}
  OBVIOUS
<1>4. Cho!SpeechTouchesName(text) <=> \E n \in DOMAIN name : name[n] \notin Digits /\ name[n] \in W
  BY <1>1, <1>2, <1>3 DEF Cho!SpeechTouchesName, Cho!IsDigit
<1>5. ASSUME NEW x
      PROVE  x \in W <=> \E i \in 1..L : \/ text[i] = x
                                         \/ i < L /\ <<text[i], text[i + 1], x>> \in Compound
  <2>1. x \in Cho!ToSet(text) <=> \E i \in 1..L : text[i] = x
    BY <1>1 DEF Cho!ToSet
  <2>2. ASSUME NEW c \in Compound, <<c[1], c[2]>> \in P, x = c[3]
        PROVE  \E i \in 1..L : i < L /\ <<text[i], text[i + 1], x>> \in Compound
    <3>1. PICK i \in 1..(L - 1) : <<c[1], c[2]>> = <<text[i], text[i + 1]>>
      BY <1>2, <2>2
    <3>2. i \in 1..L /\ i < L /\ c[1] = text[i] /\ c[2] = text[i + 1]
      BY <1>1, <3>1
    <3>3. c = <<c[1], c[2], c[3]>>
      BY <2>2 DEF ChoSettings
    <3>. QED
      BY <2>2, <3>2, <3>3
  <2>3. ASSUME NEW i \in 1..L, i < L, <<text[i], text[i + 1], x>> \in Compound
        PROVE  x \in W
    <3>1. i \in 1..(L - 1)
      BY <1>1, <2>3
    <3>2. PICK c \in Compound : c = <<text[i], text[i + 1], x>>
      BY <2>3
    <3>3. c[1] = text[i] /\ c[2] = text[i + 1] /\ c[3] = x
      BY <3>2
    <3>4. <<c[1], c[2]>> \in P
      BY <1>2, <3>1, <3>3
    <3>. QED
      BY <1>3, <3>3, <3>4
  <2>. QED
    BY <1>3, <2>1, <2>2, <2>3
<1>6. Cho!Touched(text) <=> \E n \in DOMAIN name, i \in 1..L :
                               /\ name[n] \notin Digits
                               /\ \/ text[i] = name[n]
                                  \/ i < L /\ <<text[i], text[i + 1], name[n]>> \in Compound
  BY <1>1 DEF Cho!Touched
<1>. QED
  BY <1>4, <1>5, <1>6

\* What is decided of a video that is heard.
LEMMA ChoDecision ==
    ASSUME ChoSettings, name \in Seq(Nat), NEW text \in Seq(Nat), NEW v, NEW language, NEW fast \in BOOLEAN
    PROVE  LET d == Cho!Decision(v, language, fast, text) fits == fast /\ Cho!AsMeant(v, text)
           IN /\ d = "accepted" => language = "en" /\ fits
              /\ d = "other_game" /\ Len(name) <= 2 => ~fits
              /\ d \in {"unavailable", "not_english", "too_little_speech", "other_game", "accepted"}
              /\ fits \in BOOLEAN
<1>1. PICK d : d = Cho!Decision(v, language, fast, text)
  OBVIOUS
<1>2. d \in {"unavailable", "not_english", "too_little_speech", "other_game", "accepted"}
  BY <1>1 DEF Cho!Decision
<1>3. d = "accepted" => language = "en" /\ fast /\ Cho!AboutThisGame(v, text)
  BY <1>1 DEF Cho!Decision
<1>4. d = "other_game" => ~Cho!AboutThisGame(v, text)
  BY <1>1 DEF Cho!Decision
<1>5. Cho!AboutThisGame(v, text) => Cho!AsMeant(v, text)
  BY ChoSpeech, ChoTouched DEF Cho!AboutThisGame, Cho!AsMeant
<1>6. Len(name) <= 2 /\ Cho!AsMeant(v, text) => Cho!AboutThisGame(v, text)
  BY ChoSpeech, ChoTouched DEF Cho!AboutThisGame, Cho!AsMeant
<1>7. (fast /\ Cho!AsMeant(v, text)) \in BOOLEAN
  OBVIOUS
<1>. QED
  BY <1>1, <1>2, <1>3, <1>4, <1>5, <1>6, <1>7

\* A track of the language that is wanted is in that language.
LEMMA ChoSpoken ==
    ASSUME ChoSettings, NEW tracks \in Tracks, NEW spoken \in {"en", "fr"}, NEW wanted \in Cho!FactsLanguage(spoken),
           NEW language \in Cho!Languages(tracks, wanted, spoken), wanted # "unknown", language = "en"
    PROVE  spoken = "en"
<1>1. wanted = spoken
  BY DEF Cho!FactsLanguage
<1>2. PICK P : P = Cho!Picks(tracks, wanted)
  OBVIOUS
<1>3. P \in SUBSET Nat /\ \A i \in P : tracks[i].language = wanted
  <2>1. PICK N \in Nat : DOMAIN tracks = 1..N
    BY DEF ChoSettings
  <2>. QED
    BY <1>2, <2>1 DEF Cho!Picks
<1>4. CASE P # {}
  <2>1. language = tracks[Cho!Min(P)].language
    BY <1>2, <1>4 DEF Cho!Languages, Cho!Pick
  <2>2. Cho!Min(P) \in P
    BY <1>3, <1>4, ChoMin
  <2>. QED
    BY <1>1, <1>3, <2>1, <2>2
<1>5. CASE P = {}
  BY <1>2, <1>5 DEF Cho!Languages
<1>. QED
  BY <1>4, <1>5

-----------------------------------------------------------------------------
(* The inductive invariant: the videos are heard in their places.              *)

Checks == [video : Video, decision : {"unavailable", "not_english", "too_little_speech", "other_game", "accepted"},
           fits : BOOLEAN, spoken : {"en", "fr"}, wanted : {"unknown", "en", "fr"}]

CheckIsRight(c, n) ==
    /\ c \in Checks /\ c.video \in Cho!WorthListening /\ Cho!Place(c.video) = n
    /\ c.decision = "accepted" => c.fits /\ (c.wanted # "unknown" => c.spoken = "en")
    /\ c.decision = "other_game" /\ Len(name) <= 2 => ~c.fits

ChoInv ==
    /\ IF found = Cho!Nothing THEN heard = <<>> ELSE name \in Seq(Nat) /\ found \in [Video -> Candidate]
    /\ heard \in Seq(Checks)
    /\ \A n \in 1..Len(heard) : CheckIsRight(heard[n], n)
    /\ \A n \in 1..Len(heard) : heard[n].decision = "accepted" => n = Len(heard) /\ chosen = heard[n].video
    /\ chosen # Cho!None => /\ heard # <<>> /\ heard[Len(heard)].decision = "accepted"
                            /\ heard[Len(heard)].video = chosen

LEMMA ChoHeard ==
    ASSUME ChoSettings, ChoInv, found # Cho!Nothing, Cho!Listening,
           NEW text \in Seq(Nat), NEW fast \in BOOLEAN, NEW language,
           NEW spoken \in {"en", "fr"}, NEW wanted \in {"unknown", "en", "fr"},
           wanted # "unknown" /\ language = "en" => spoken = "en",
           Cho!Heard(language, fast, text, spoken, wanted)
    PROVE  ChoInv'
<1>1. name \in Seq(Nat) /\ found \in [Video -> Candidate] /\ heard \in Seq(Checks) /\ chosen = Cho!None
  BY DEF ChoInv, Cho!Listening
<1>2. PICK v, L, d : /\ v = Cho!Shortlisted(Len(heard) + 1) /\ L = Len(heard)
                     /\ d = Cho!Decision(v, language, fast, text)
  OBVIOUS
<1>. DEFINE fits == fast /\ Cho!AsMeant(v, text)
<1>3. L \in Nat /\ DOMAIN heard = 1..L
  BY <1>1, <1>2, LenProperties
<1>4. v \in Cho!WorthListening /\ v \in Video /\ Cho!Place(v) = L + 1
  BY <1>1, <1>2, <1>3, ChoTurn
<1>5. /\ d = "accepted" => language = "en" /\ fits
      /\ d = "other_game" /\ Len(name) <= 2 => ~fits
      /\ d \in {"unavailable", "not_english", "too_little_speech", "other_game", "accepted"}
      /\ fits \in BOOLEAN
  BY <1>1, <1>2, ChoDecision
<1>6. PICK c : c = [video |-> v, decision |-> d, fits |-> fits, spoken |-> spoken, wanted |-> wanted]
  OBVIOUS
<1>7. heard' = Append(heard, c) /\ chosen' = (IF d = "accepted" THEN v ELSE Cho!None) /\ name' = name /\ found' = found
  BY <1>2, <1>6 DEF Cho!Heard
<1>8. c \in Checks
  BY <1>4, <1>5, <1>6 DEF Checks
<1>9. PICK h : h = Append(heard, c)
  OBVIOUS
<1>10. h \in Seq(Checks) /\ Len(h) = L + 1 /\ h[L + 1] = c /\ (\A n \in 1..L : h[n] = heard[n]) /\ h # <<>>
  <2>1. heard \in Seq(Checks) /\ Len(heard) = L
    BY <1>1, <1>2
  <2>2. /\ h \in Seq(Checks) /\ h # <<>> /\ Len(h) = Len(heard) + 1 /\ h[Len(heard) + 1] = c
        /\ \A n \in 1..Len(heard) : h[n] = heard[n]
    BY ONLY <1>8, <1>9, <2>1, AppendProperties
  <2>. QED
    BY ONLY <2>1, <2>2
<1>11. CheckIsRight(c, L + 1)
  BY <1>4, <1>5, <1>6, <1>8 DEF CheckIsRight
<1>12. \A n \in 1..L : heard[n].decision # "accepted"
  <2>1. SUFFICES ASSUME NEW n \in 1..L, heard[n].decision = "accepted"
                 PROVE  FALSE
    OBVIOUS
  <2>2. CheckIsRight(heard[n], n) /\ chosen = heard[n].video
    BY <1>2, <2>1 DEF ChoInv
  <2>. QED
    BY <1>1, <2>2 DEF CheckIsRight, Checks, Cho!None, ChoSettings
<1>13. \A n \in 1..(L + 1) : n = L + 1 \/ n \in 1..L
  BY <1>3
<1>14. \A n \in 1..(L + 1) : CheckIsRight(h[n], n)
  BY <1>2, <1>10, <1>11, <1>13 DEF ChoInv
<1>16. \A n \in 1..(L + 1) : h[n].decision = "accepted" => n = L + 1 /\ chosen' = h[n].video
  BY <1>6, <1>7, <1>10, <1>12, <1>13
<1>17. chosen' # Cho!None => d = "accepted" /\ chosen' = v
  BY <1>7
<1>18. heard' = h
  BY <1>7, <1>9
<1>19. \A k, n : CheckIsRight(k, n) => CheckIsRight(k, n)'
  BY Zenon, <1>7 DEF CheckIsRight, Checks, Cho!WorthListening, Cho!Place, Cho!Above
<1>20. \A n \in 1..Len(h) : CheckIsRight(h[n], n)'
  BY <1>10, <1>14, <1>19
<1>21. IF found' = Cho!Nothing THEN heard' = <<>> ELSE name' \in Seq(Nat) /\ found' \in [Video -> Candidate]
  BY <1>1, <1>7
<1>22. chosen' # Cho!None => h # <<>> /\ h[Len(h)].decision = "accepted" /\ h[Len(h)].video = chosen'
  BY <1>6, <1>10, <1>17
<1>23. Checks' = Checks
  BY DEF Checks
<1>24. \A n \in 1..Len(h) : h[n].decision = "accepted" => n = Len(h) /\ chosen' = h[n].video
  BY <1>10, <1>16
<1>. QED
  BY Zenon, <1>10, <1>18, <1>20, <1>21, <1>22, <1>23, <1>24 DEF ChoInv, Cho!Nothing, Cho!None

LEMMA ChoNext ==
    ASSUME ChoSettings, ChoInv, [Cho!Next]_(Cho!vars)
    PROVE  ChoInv'
<1>1. CASE Cho!Search
  <2>1. found = Cho!Nothing /\ name' \in Name /\ found' \in [Video -> Candidate] /\ heard' = heard /\ chosen' = chosen
    BY <1>1 DEF Cho!Search
  <2>2. heard = <<>> /\ name' \in Seq(Nat) /\ chosen = Cho!None
    BY <2>1 DEF ChoInv, ChoSettings
  <2>3. Len(heard) = 0 /\ \A n \in 1..0 : FALSE
    BY <2>2
  <2>4. heard' \in Seq(Checks)' /\ heard' = <<>> /\ Len(heard') = 0 /\ chosen' = Cho!None
    BY <2>1, <2>2 DEF Checks
  <2>. QED
    BY <2>1, <2>2, <2>3, <2>4 DEF ChoInv, Cho!None
<1>2. CASE Cho!Listen
  <2>1. found # Cho!Nothing /\ Cho!Listening
    BY <1>2 DEF Cho!Listen, Cho!Listening
  <2>2. name \in Seq(Nat) /\ <<>> \in Seq(Nat)
    BY <2>1 DEF ChoInv
  <2>3. ASSUME NEW text \in Text, Cho!Heard("en", TRUE, text, "en", "en")
        PROVE  ChoInv'
    <3>1. text \in Seq(Nat)
      BY <2>3 DEF ChoSettings
    <3>. QED
      BY <2>1, <2>3, <3>1, ChoHeard
  <2>4. ASSUME NEW tracks \in Tracks, NEW spoken \in {"en", "fr"}, NEW fast \in BOOLEAN, NEW text \in {name, <<>>},
               NEW wanted \in Cho!FactsLanguage(spoken), NEW language \in Cho!Languages(tracks, wanted, spoken),
               Cho!Heard(language, fast, text, spoken, wanted)
        PROVE  ChoInv'
    <3>1. text \in Seq(Nat) /\ wanted \in {"unknown", "en", "fr"}
      BY <2>2, <2>4 DEF Cho!FactsLanguage
    <3>2. wanted # "unknown" /\ language = "en" => spoken = "en"
      BY <2>4, ChoSpoken
    <3>. QED
      BY <2>1, <2>4, <3>1, <3>2, ChoHeard
  <2>. QED
    BY <1>2, <2>3, <2>4 DEF Cho!Listen
<1>3. CASE UNCHANGED Cho!vars
  <2>1. name' = name /\ found' = found /\ heard' = heard /\ chosen' = chosen
    BY <1>3 DEF Cho!vars
  <2>2. \A k, n : CheckIsRight(k, n) => CheckIsRight(k, n)'
    BY Zenon, <2>1 DEF CheckIsRight, Checks, Cho!WorthListening, Cho!Place, Cho!Above
  <2>3. ASSUME NEW n \in 1..Len(heard)
        PROVE  CheckIsRight(heard[n], n)'
    <3>1. PICK c : c = heard[n]
      OBVIOUS
    <3>2. CheckIsRight(c, n)'
      BY <2>2, <2>3, <3>1 DEF ChoInv
    <3>3. c = heard'[n]
      BY <2>1, <3>1
    <3>. QED
      BY Zenon, <3>2, <3>3 DEF CheckIsRight
  <2>. QED
    BY <2>1, <2>3 DEF ChoInv, Checks
<1>. QED
  BY <1>1, <1>2, <1>3 DEF Cho!Next

LEMMA ChoKeeps ==
    ASSUME ChoSettings, ChoInv
    PROVE  Cho!LetsPlayChoiceKept
<1>1. PICK L \in Nat : L = Len(heard) /\ DOMAIN heard = 1..L /\ (heard # <<>> => L # 0)
  BY LenProperties, EmptySeq DEF ChoInv
<1>2. ASSUME NEW n \in 1..L
      PROVE  /\ heard[n].video \in Cho!WorthListening
             /\ \A v \in Cho!WorthListening :
                   Cho!Above(v, heard[n].video) <=> \E m \in 1..(n - 1) : heard[m].video = v
             /\ heard[n].decision = "accepted" <=> (heard[n].video = chosen /\ n = Len(heard))
             /\ heard[n].decision = "accepted" => heard[n].fits
             /\ heard[n].decision = "other_game" /\ Len(name) <= 2 => ~heard[n].fits
             /\ heard[n].wanted # "unknown" /\ heard[n].decision = "accepted" => heard[n].spoken = "en"
  <2>1. CheckIsRight(heard[n], n)
    BY <1>1, <1>2 DEF ChoInv
  <2>2. found \in [Video -> Candidate]
    BY <1>1, <1>2 DEF ChoInv
  <2>3. PICK w : w = heard[n].video /\ w \in Cho!WorthListening /\ Cho!Place(w) = n
    BY <2>1 DEF CheckIsRight
  <2>4. \A m \in 1..(n - 1) : heard[m].video \in Cho!WorthListening /\ Cho!Place(heard[m].video) = m
    BY <1>1, <1>2 DEF ChoInv, CheckIsRight
  <2>5. ASSUME NEW v \in Cho!WorthListening
        PROVE  Cho!Above(v, w) <=> \E m \in 1..(n - 1) : heard[m].video = v
    <3>1. PICK p \in Nat : p = Cho!Place(v) /\ 1 <= p
      <4>1. Cho!Place(v) \in 1..Cardinality(Cho!WorthListening)
        BY <2>2, <2>5, ChoPlaces
      <4>. QED
        BY <2>2, <4>1, ChoPlaces
    <3>2. Cho!Above(v, w) <=> p < n
      BY <2>2, <2>3, <2>5, <3>1, ChoPlaces
    <3>3. ASSUME p < n
          PROVE  \E m \in 1..(n - 1) : heard[m].video = v
      <4>1. p \in 1..(n - 1)
        BY <1>1, <1>2, <3>1, <3>3
      <4>2. heard[p].video \in Cho!WorthListening /\ Cho!Place(heard[p].video) = Cho!Place(v)
        BY <2>4, <3>1, <4>1
      <4>3. heard[p].video = v
        BY <2>2, <2>5, <4>2, ChoPlaces
      <4>. QED
        BY <4>1, <4>3
    <3>4. ASSUME NEW m \in 1..(n - 1), heard[m].video = v
          PROVE  p < n
      BY <1>1, <1>2, <2>4, <3>1, <3>4
    <3>. QED
      BY <3>2, <3>3, <3>4
  <2>6. heard[n].decision = "accepted" => n = Len(heard) /\ chosen = w
    BY <1>1, <1>2, <2>3 DEF ChoInv
  <2>7. chosen = w /\ n = Len(heard) => heard[n].decision = "accepted"
    <3>1. w # Cho!None
      BY <2>2, <2>3, ChoPlaces DEF ChoSettings, Cho!None
    <3>. QED
      BY <3>1 DEF ChoInv
  <2>8. /\ heard[n].decision = "accepted" => heard[n].fits /\ (heard[n].wanted # "unknown" => heard[n].spoken = "en")
        /\ heard[n].decision = "other_game" /\ Len(name) <= 2 => ~heard[n].fits
    BY <2>1 DEF CheckIsRight
  <2>. QED
    BY <2>3, <2>5, <2>6, <2>7, <2>8
<1>. QED
  BY <1>1, <1>2 DEF Cho!LetsPlayChoiceKept, Cho!TheMostViewedIsChosen, Cho!DubsAreNotHeard

\* The videos are listened to by their views, the first that would do is chosen, and no dub is.
THEOREM LetsPlayChoiceHolds == ASSUME ChoSettings PROVE Cho!Spec => []Cho!LetsPlayChoiceKept
<1>1. ASSUME Cho!Init PROVE ChoInv
  BY <1>1 DEF Cho!Init, ChoInv, Cho!Nothing, Cho!None
<1>. QED
  BY <1>1, ChoNext, ChoKeeps, PTL DEF Cho!Spec

-----------------------------------------------------------------------------
(* What is given to the language model, and what is listened to.               *)

\* The reviews that a summary is made of are chosen fairly (reviews/selection.py), and the video
\* that is listened to is the most viewed that would do (letsplays/selection.py).
THEOREM SelectionHolds ==
    ASSUME SelSettings, ChoSettings
    PROVE  Sel!Spec /\ Cho!Spec => []SelectionKept
<1>1. Sel!Spec => []Sel!SelectionKept
  BY ReviewSelectionHolds
<1>2. Cho!Spec => []Cho!LetsPlayChoiceKept
  BY LetsPlayChoiceHolds
<1>. QED
  BY <1>1, <1>2, PTL DEF SelectionKept
=============================================================================
