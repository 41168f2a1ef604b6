--------------------------- MODULE Summaries_proofs ---------------------------
(* Proofs about Summaries, for any finite number of workers, any jobs, windows *)
(* and costs, any limit of attempts, and any number of crashes and stalls; and *)
(* about two of the parts of Answers: what is kept of an answer.               *)
EXTENDS Summaries, Answers, Sums, SequenceTheorems, TLAPS

-----------------------------------------------------------------------------
(* The inductive invariant.                                                    *)

Outcome == {Open, "abandoned", "failed", "served"}
Attempt == [job : Job, age : Nat, outcome : Outcome, over : BOOLEAN]
Memory  == [pc : {"idle", "admit", "ask"}, job : Nat, token : Nat, attempt : Nat]
IsJob(p) == \E Few, Leases, Waits :
    p \in [state : State, few : Few, token : Nat, lease : Leases, wait : Waits, tries : Nat]

Typed == /\ jobs = [j \in Job |-> jobs[j]] /\ \A j \in Job : IsJob(jobs[j])
         /\ attempts \in Seq(Attempt)
         /\ wk \in [Worker -> Memory]
         /\ \A w \in Worker : ~At(w, "idle") => wk[w].job \in Job

Own(j)  == {p.attempt : p \in {q \in published : q.job = j}}
Good(j) == {i \in AttemptsOf(j) : attempts[i].outcome = "served"}

\* No attempt is forgotten, and there are not too many.
Counted(j) == jobs[j].tries = Cardinality(AttemptsOf(j)) /\ jobs[j].tries <= MaxAttempts

\* Only the last attempt of a job that runs may be open.
OpenIsLast(j) ==
    \A i \in OpenOf(j) : jobs[j].state = "running" /\ \A k \in AttemptsOf(j) : k <= i

\* A summary is published for a job that is served, and for one reason.
Served(j) == \/ Own(j) = {ByRule} /\ Good(j) = {}
             \/ \E i \in AttemptsOf(j) : Own(j) = {i} /\ Good(j) = {i}
Earned(j) == IF jobs[j].state = "served" THEN Served(j) ELSE Own(j) = {} /\ Good(j) = {}

Sound(j) == Counted(j) /\ OpenIsLast(j) /\ Earned(j)

\* Two claims of one job have different tokens.
TokensApart ==
    \A v, w \in Worker :
        v # w /\ ~At(v, "idle") /\ ~At(w, "idle") /\ wk[v].job = wk[w].job =>
            wk[v].token # wk[w].token

\* What the owner of a job may rely on, and what an open attempt says of who asks.
Works(w) ==
    /\ At(w, "admit") /\ Owned(w) => OpenOf(wk[w].job) = {}
    /\ At(w, "ask") =>
          /\ wk[w].attempt \in AttemptsOf(wk[w].job)
          /\ attempts[wk[w].attempt].outcome = Open => Owned(w)
          /\ Owned(w) => \A k \in AttemptsOf(wk[w].job) : k <= wk[w].attempt

IInv == Typed /\ TokensApart /\ (\A j \in Job : Sound(j)) /\ \A w \in Worker : Works(w)

-----------------------------------------------------------------------------
(* Numbers and tokens.                                                         *)

LEMMA Bounds == IsFiniteSet(Worker) /\ Job \subseteq Nat /\ MaxAttempts \in Nat /\ Day \in Nat
BY Zenon, SummariesAssumption

\* The tokens that the job or a worker on it has are fewer than those to choose from.
LEMMA NewTokenIsNew ==
    ASSUME NEW j
    PROVE  /\ NewToken(j) \in Nat /\ NewToken(j) # jobs[j].token
           /\ \A w \in Worker : wk[w].job = j => wk[w].token # NewToken(j)
<1>. DEFINE n == Cardinality(Worker)
            Held == {wk[w].token : w \in Worker}
            Used == Held \cup {jobs[j].token}
            Free == {i \in 1..(2 + n) :
                        i # jobs[j].token /\ \A w \in Worker : wk[w].job = j => wk[w].token # i}
<1>1. n \in Nat /\ IsFiniteSet(Held) /\ Cardinality(Held) <= n
  <2>1. IsFiniteSet(Worker)
    BY Bounds
  <2>2. DEFINE f == [w \in Worker |-> wk[w].token]
  <2>3. f \in Surjection(Worker, Held)
    BY DEF Surjection
  <2>. QED
    BY <2>1, <2>3, FS_Surjection, FS_CardinalityType
<1>2. IsFiniteSet(Used) /\ Cardinality(Used) \in Nat /\ Cardinality(Used) <= 1 + n
  <2>1. IsFiniteSet(Used) /\ Cardinality(Used) \in {Cardinality(Held), Cardinality(Held) + 1}
    <3>. HIDE DEF Held
    <3>. QED
      BY <1>1, FS_AddElement
  <2>2. Cardinality(Held) \in Nat
    BY <1>1, FS_CardinalityType
  <2>. QED
    BY <1>1, <2>1, <2>2
<1>3. Free # {}
  <2>1. SUFFICES ASSUME Free = {} PROVE FALSE
    OBVIOUS
  <2>2. 1..(2 + n) \subseteq Used
    BY <2>1
  <2>3. Cardinality(1..(2 + n)) = 2 + n
    BY <1>1, FS_Interval
  <2>4. Cardinality(1..(2 + n)) <= Cardinality(Used)
    BY <1>2, <2>2, FS_Subset
  <2>. QED
    BY <1>1, <1>2, <2>3, <2>4
<1>4. Free \subseteq Nat
  BY <1>1
<1>5. Min(Free) \in Free
  BY <1>3, <1>4, MinOfNat
<1>. QED
  BY <1>4, <1>5 DEF NewToken

-----------------------------------------------------------------------------
(* What a step may do without breaking the invariant.  In most steps a job    *)
(* keeps its claim and its open attempt, or loses both.                       *)

\* The step leaves what was done for a job.
Same(j) == /\ AttemptsOf(j)' = AttemptsOf(j) /\ Good(j)' = Good(j) /\ Own(j)' = Own(j)
           /\ jobs'[j].tries = jobs[j].tries
           /\ jobs'[j].state = "served" <=> jobs[j].state = "served"

Kept(j) == /\ Same(j) /\ OpenOf(j)' = OpenOf(j)
           /\ jobs'[j].state = jobs[j].state /\ jobs'[j].token = jobs[j].token

\* No attempt is open, and nobody owns the job who did not before.
Cleared(j) ==
    /\ Same(j) /\ OpenOf(j)' = {}
    /\ \A v \in Worker : wk'[v] = wk[v] /\ wk[v].job = j /\ Owned(v)' => Owned(v)

LEMMA SoundRemains ==
    ASSUME NEW j \in Job, Sound(j), Kept(j) \/ Cleared(j)
    PROVE  Sound(j)'
<1>1. Same(j)
  BY DEF Kept, Cleared
<1>2. Counted(j)'
  BY <1>1 DEF Same, Sound, Counted
<1>3. Earned(j)'
  BY <1>1 DEF Same, Sound, Earned, Served
<1>4. OpenIsLast(j)'
  <2>1. CASE OpenOf(j)' = {}
    BY <2>1 DEF OpenIsLast
  <2>2. CASE Kept(j)
    BY <1>1, <2>2 DEF Same, Kept, Sound, OpenIsLast
  <2>. QED
    BY <2>1, <2>2 DEF Cleared
<1>. QED
  BY <1>2, <1>3, <1>4 DEF Sound

LEMMA WorksRemain ==
    ASSUME NEW v \in Worker, Works(v), wk'[v] = wk[v], Kept(wk[v].job) \/ Cleared(wk[v].job)
    PROVE  Works(v)'
<1>. PICK j : j = wk[v].job
  OBVIOUS
<1>1. Same(j)
  BY DEF Kept, Cleared
<1>2. Owned(v)' => Owned(v)
  BY DEF Kept, Cleared, Owned
<1>3. OpenOf(j)' \subseteq OpenOf(j)
  BY DEF Kept, Cleared
<1>4. Kept(j) => (Owned(v)' <=> Owned(v))
  BY DEF Kept, Owned
<1>5. Cleared(j) => OpenOf(j)' = {}
  BY DEF Cleared
<1>6. AttemptsOf(j)' = AttemptsOf(j)
  BY <1>1 DEF Same
<1>7. ASSUME At(v, "admit")', Owned(v)' PROVE OpenOf(wk[v].job)' = {}
  BY <1>2, <1>3, <1>7 DEF Works, At
<1>8. ASSUME At(v, "ask")'
      PROVE  /\ wk'[v].attempt \in AttemptsOf(wk[v].job)'
             /\ attempts'[wk'[v].attempt].outcome = Open => Owned(v)'
             /\ Owned(v)' => \A k \in AttemptsOf(wk[v].job)' : k <= wk'[v].attempt
  <2>1. /\ wk[v].attempt \in AttemptsOf(j)
        /\ attempts[wk[v].attempt].outcome = Open => Owned(v)
        /\ Owned(v) => \A k \in AttemptsOf(j) : k <= wk[v].attempt
    BY <1>8 DEF Works, At
  <2>2. ASSUME attempts'[wk'[v].attempt].outcome = Open PROVE Owned(v)'
    <3>1. wk[v].attempt \in OpenOf(j)'
      BY <1>6, <2>1, <2>2 DEF OpenOf
    <3>2. attempts[wk[v].attempt].outcome = Open
      BY <1>3, <3>1 DEF OpenOf
    <3>. QED
      BY <1>4, <1>5, <2>1, <3>1, <3>2
  <2>. QED
    BY <1>2, <1>6, <2>1, <2>2
<1>. QED
  BY <1>7, <1>8 DEF Works

\* Attempts I end without a summary, the others are left as they are.
Closes(I) ==
    /\ attempts' \in Seq(Attempt) /\ DOMAIN attempts' = DOMAIN attempts
    /\ I \subseteq {i \in DOMAIN attempts : attempts[i].outcome = Open}
    /\ \A i \in DOMAIN attempts :
          /\ attempts'[i].job = attempts[i].job
          /\ IF i \in I THEN attempts'[i].outcome \in {"abandoned", "failed"}
                        ELSE attempts'[i].outcome = attempts[i].outcome

LEMMA ClosedAreNotGood ==
    ASSUME NEW I, Closes(I), NEW j
    PROVE  AttemptsOf(j)' = AttemptsOf(j) /\ Good(j)' = Good(j) /\ OpenOf(j)' = OpenOf(j) \ I
<1>1. AttemptsOf(j)' = AttemptsOf(j)
  BY DEF Closes, AttemptsOf
<1>2. \A i \in AttemptsOf(j) : i \in DOMAIN attempts
  BY DEF AttemptsOf
<1>3. Good(j)' = Good(j)
  BY <1>1, <1>2 DEF Closes, Good, Open
<1>4. OpenOf(j)' = OpenOf(j) \ I
  BY <1>1, <1>2 DEF Closes, OpenOf, Open
<1>. QED
  BY <1>1, <1>3, <1>4

LEMMA AbandonedAreClosed ==
    ASSUME Typed, NEW I, I \subseteq {i \in DOMAIN attempts : attempts[i].outcome = Open},
           attempts' = Abandoned(I)
    PROVE  Closes(I)
<1>1. attempts \in Seq(Attempt)
  BY DEF Typed
<1>2. /\ DOMAIN attempts' = DOMAIN attempts
      /\ \A i \in DOMAIN attempts :
            attempts'[i] = IF i \in I THEN [attempts[i] EXCEPT !.outcome = "abandoned"]
                           ELSE attempts[i]
  BY DEF Abandoned
<1>3. \A i \in DOMAIN attempts : attempts[i] \in Attempt
  BY <1>1
<1>4. \A i \in DOMAIN attempts : attempts'[i] \in Attempt
  BY <1>2, <1>3 DEF Attempt, Outcome
<1>5. attempts' \in Seq(Attempt)
  <2>1. DOMAIN attempts = 1..Len(attempts) /\ Len(attempts) \in Nat
    BY <1>1
  <2>2. attempts' = [i \in 1..Len(attempts) |-> attempts'[i]]
    BY <2>1 DEF Abandoned
  <2>. QED
    BY <1>2, <1>4, <2>1, <2>2
<1>6. \A i \in DOMAIN attempts :
         /\ attempts'[i].job = attempts[i].job
         /\ IF i \in I THEN attempts'[i].outcome \in {"abandoned", "failed"}
                       ELSE attempts'[i].outcome = attempts[i].outcome
  BY <1>2, <1>3 DEF Attempt
<1>. QED
  BY <1>2, <1>5, <1>6 DEF Closes

\* The steps after which every job still has its claim and its open attempt, or neither.
Quiet(w) ==
    /\ \A j \in Job : Kept(j) \/ Cleared(j)
    /\ \A v \in Worker \ {w} : wk'[v] = wk[v]
    /\ \/ wk'[w] = wk[w] \/ wk'[w].pc = "idle"
       \/ /\ wk'[w].pc = "admit" /\ OpenOf(wk[w].job)' = {}
          /\ \A v \in Worker \ {w} : wk[v].job = wk'[w].job => wk[v].token # wk'[w].token

LEMMA QuietIsSafe ==
    ASSUME IInv, Typed', NEW w \in Worker, Quiet(w)
    PROVE  IInv'
<1>1. TokensApart'
  <2>. SUFFICES ASSUME NEW u \in Worker, NEW v \in Worker, u # v, ~At(u, "idle")', ~At(v, "idle")',
                       wk'[u].job = wk'[v].job
                PROVE  wk'[u].token # wk'[v].token
    BY DEF TokensApart
  <2>1. CASE wk'[u] = wk[u] /\ wk'[v] = wk[v]
    BY <2>1 DEF IInv, TokensApart, At
  <2>2. CASE u = w /\ wk'[w].pc = "admit"
    BY <2>2 DEF Quiet, At, IInv, TokensApart
  <2>3. CASE v = w /\ wk'[w].pc = "admit"
    BY <2>3 DEF Quiet, At, IInv, TokensApart
  <2>. QED
    BY <2>1, <2>2, <2>3 DEF Quiet, At
<1>2. \A j \in Job : Sound(j)'
  BY SoundRemains DEF IInv, Quiet
<1>3. ASSUME NEW v \in Worker PROVE Works(v)'
  <2>1. CASE wk'[v].pc = "idle"
    BY <2>1 DEF Works, At
  <2>2. CASE wk'[v] = wk[v] /\ wk'[v].pc # "idle"
    <3>1. wk[v].job \in Job
      BY <2>2 DEF IInv, Typed, At
    <3>2. Works(v)
      BY DEF IInv
    <3>. QED
      BY <2>2, <3>1, <3>2, WorksRemain DEF Quiet
  <2>3. CASE v = w /\ wk'[w].pc = "admit" /\ OpenOf(wk[w].job)' = {}
    BY <2>3 DEF Works, At
  <2>. QED
    BY <2>1, <2>2, <2>3 DEF Quiet
<1>. QED
  BY <1>1, <1>2, <1>3 DEF IInv

-----------------------------------------------------------------------------
(* The claims.                                                                *)

LEMMA AttemptsAreOfOneJob ==
    ASSUME NEW j, NEW k, j # k
    PROVE  OpenOf(j) \cap OpenOf(k) = {} /\ OpenOf(j) \subseteq AttemptsOf(j)
BY DEF OpenOf, AttemptsOf

LEMMA StateAfterRecovery ==
    ASSUME IInv, NEW j \in Job
    PROVE  /\ IsJob(AfterRecovery(j)) /\ AfterRecovery(j).tries = jobs[j].tries
           /\ AfterRecovery(j).state = "served" <=> jobs[j].state = "served"
           /\ j \in Stale => jobs[j].state = "running" /\ AfterRecovery(j).state # "running"
           /\ j \notin Stale =>
                 /\ AfterRecovery(j).token = jobs[j].token
                 /\ \/ AfterRecovery(j).state = jobs[j].state
                    \/ jobs[j].state = "waiting" /\ AfterRecovery(j).state = "failed"
<1>. PICK Few, Leases, Waits :
        jobs[j] \in [state : State, few : Few, token : Nat, lease : Leases, wait : Waits,
                     tries : Nat]
  BY DEF IInv, Typed, IsJob
<1>. NewToken(j) \in Nat
  BY NewTokenIsNew
<1>1. CASE j \in Stale
  <2>1. AfterRecovery(j) = [jobs[j] EXCEPT
            !.token = NewToken(j), !.wait = 0,
            !.state = IF jobs[j].tries >= MaxAttempts THEN "failed" ELSE "waiting"]
    BY <1>1 DEF AfterRecovery
  <2>2. AfterRecovery(j) \in [state : State, few : Few, token : Nat, lease : Leases,
                              wait : Waits \cup {0}, tries : Nat]
    BY <2>1 DEF State
  <2>3. IsJob(AfterRecovery(j))
    BY <2>2 DEF IsJob
  <2>4. jobs[j].state = "running"
    BY <1>1 DEF Stale
  <2>. QED
    BY <1>1, <2>1, <2>3, <2>4
<1>2. CASE j \notin Stale
  <2>1. AfterRecovery(j) \in {jobs[j], [jobs[j] EXCEPT !.state = "failed"]}
    BY <1>2 DEF AfterRecovery
  <2>2. AfterRecovery(j) # jobs[j] => jobs[j].state = "waiting"
    BY <1>2 DEF AfterRecovery
  <2>3. AfterRecovery(j) \in [state : State, few : Few, token : Nat, lease : Leases, wait : Waits,
                              tries : Nat]
    BY <2>1 DEF State
  <2>4. IsJob(AfterRecovery(j))
    BY <2>3 DEF IsJob
  <2>. QED
    BY <1>2, <2>1, <2>2, <2>4
<1>. QED
  BY <1>1, <1>2

\* A recovered job is as it was, or nobody owns it and none of its attempts is open.
LEMMA RecoveryIsQuiet ==
    ASSUME IInv, NEW I, Closes(Lost \cup I), published' = published,
           NEW j \in Job, jobs'[j] = AfterRecovery(j), I \cap OpenOf(j) = {}
    PROVE  Kept(j) \/ Cleared(j)
<1>. PICK L : L = Lost \cup I
  OBVIOUS
<1>1. AttemptsOf(j)' = AttemptsOf(j) /\ Good(j)' = Good(j) /\ OpenOf(j)' = OpenOf(j) \ L
  BY ClosedAreNotGood
<1>2. Own(j)' = Own(j)
  BY DEF Own
<1>3. Same(j)
  BY <1>1, <1>2, StateAfterRecovery DEF Same
<1>4. CASE j \in Stale
  <2>1. OpenOf(j)' = {}
    BY <1>1, <1>4 DEF Lost
  <2>2. jobs'[j].state # "running"
    BY <1>4, StateAfterRecovery
  <2>. QED
    BY <1>3, <2>1, <2>2 DEF Cleared, Owned
<1>5. CASE j \notin Stale
  <2>1. Lost \cap OpenOf(j) = {}
    BY <1>5, AttemptsAreOfOneJob DEF Lost
  <2>2. OpenOf(j)' = OpenOf(j)
    BY <1>1, <2>1
  <2>3. CASE jobs'[j].state = jobs[j].state
    BY <1>3, <1>5, <2>2, <2>3, StateAfterRecovery DEF Kept
  <2>4. CASE jobs[j].state = "waiting" /\ jobs'[j].state = "failed"
    <3>1. OpenOf(j) = {}
      BY <2>4 DEF IInv, Sound, OpenIsLast
    <3>. QED
      BY <1>3, <2>2, <2>4, <3>1 DEF Cleared, Owned
  <2>. QED
    BY <1>5, <2>3, <2>4, StateAfterRecovery
<1>. QED
  BY <1>4, <1>5

LEMMA LostIsOpen ==
    ASSUME NEW j
    PROVE  Lost \cup OpenOf(j) \subseteq {i \in DOMAIN attempts : attempts[i].outcome = Open}
BY DEF Lost, OpenOf, AttemptsOf

LEMMA RecoveredIsTyped ==
    ASSUME IInv, NEW I, Closes(I), jobs' = Recovered, wk' = wk
    PROVE  Typed'
<1>1. jobs' = [j \in Job |-> jobs'[j]] /\ \A j \in Job : jobs'[j] = AfterRecovery(j)
  BY DEF Recovered
<1>2. \A j \in Job : IsJob(jobs'[j])
  BY <1>1, StateAfterRecovery
<1>3. attempts' \in Seq(Attempt)
  BY DEF Closes
<1>. QED
  BY <1>1, <1>2, <1>3 DEF Typed, IInv, At

\* The summary queue was looked through, and nothing was taken from it.
LEMMA RecoveryIsSafe ==
    ASSUME IInv, NEW w \in Worker, jobs' = Recovered, attempts' = Abandoned(Lost), wk' = wk,
           published' = published
    PROVE  IInv'
<1>. PICK none : none = {}
  OBVIOUS
<1>1. Lost \subseteq {i \in DOMAIN attempts : attempts[i].outcome = Open}
  BY LostIsOpen
<1>2. Typed
  BY DEF IInv
<1>3. Closes(Lost)
  BY <1>1, <1>2, AbandonedAreClosed
<1>4. Typed'
  BY <1>3, RecoveredIsTyped
<1>5. ASSUME NEW j \in Job PROVE Kept(j) \/ Cleared(j)
  <2>1. jobs'[j] = AfterRecovery(j)
    BY DEF Recovered
  <2>2. Lost \cup none = Lost /\ none \cap OpenOf(j) = {}
    OBVIOUS
  <2>3. Closes(Lost \cup none)
    BY <1>3, <2>2
  <2>. QED
    BY <2>1, <2>2, <2>3, RecoveryIsQuiet
<1>6. Quiet(w)
  BY <1>5 DEF Quiet
<1>. QED
  BY <1>4, <1>6, QuietIsSafe

LEMMA ClaimedSummaryIsSafe ==
    ASSUME IInv, NEW w \in Worker, ClaimedSummary(w)
    PROVE  IInv'
<1>0. PICK j \in {Min(Due)}, token \in 1..(2 + Cardinality(Worker)) :
        /\ token = NewToken(j)
        /\ jobs' = [Recovered EXCEPT ![j].token = token, ![j].lease = Lease,
                                     ![j].state = "running"]
        /\ attempts' = Abandoned(Lost \cup OpenOf(j))
        /\ Set(w, [Idle EXCEPT !.pc = "admit", !.job = j, !.token = token])
  BY DEF ClaimedSummary, ClaimSummary
<1>. PICK m : m = [Idle EXCEPT !.pc = "admit", !.job = j, !.token = token]
  OBVIOUS
<1>1. j \in Due /\ j \in Job
  <2>1. Due \subseteq Nat /\ Due \subseteq Job /\ Due # {}
    BY Bounds DEF Due, ClaimedSummary, ClaimSummary
  <2>. QED
    BY <2>1, MinOfNat
<1>2. /\ token \in Nat /\ token # jobs[j].token
      /\ \A v \in Worker : wk[v].job = j => wk[v].token # token
  BY <1>0, NewTokenIsNew
<1>3. wk' = [wk EXCEPT ![w] = m] /\ wk'[w] = m /\ \A v \in Worker \ {w} : wk'[v] = wk[v]
  <2>2. wk' = [wk EXCEPT ![w] = m]
    BY <1>0 DEF Set
  <2>3. DOMAIN wk = Worker
    BY DEF IInv, Typed
  <2>. QED
    BY <2>2, <2>3
<1>3a. m.pc = "admit" /\ m.job = j /\ m.token = token /\ m.attempt = 0
  BY DEF Idle
<1>4. /\ jobs' = [k \in Job |-> jobs'[k]]
      /\ \A k \in Job : k # j => jobs'[k] = AfterRecovery(k)
      /\ jobs'[j] = [AfterRecovery(j) EXCEPT !.token = token, !.lease = Lease,
                                             !.state = "running"]
  BY <1>0, <1>1 DEF Recovered
<1>5. /\ IsJob(jobs'[j]) /\ jobs'[j].state = "running" /\ jobs'[j].token = token
      /\ jobs'[j].tries = jobs[j].tries
  <2>1. PICK r : r = AfterRecovery(j)
    OBVIOUS
  <2>2. PICK Few, Leases, Waits :
            r \in [state : State, few : Few, token : Nat, lease : Leases, wait : Waits,
                   tries : Nat]
    BY <1>1, <2>1, StateAfterRecovery DEF IsJob
  <2>3. jobs'[j] = [r EXCEPT !.token = token, !.lease = Lease, !.state = "running"]
    BY <1>4, <2>1
  <2>4. r.tries = jobs[j].tries
    BY <1>1, <2>1, StateAfterRecovery
  <2>5. /\ jobs'[j] \in [state : State, few : Few, token : Nat, lease : Leases \cup {Lease},
                         wait : Waits, tries : Nat]
        /\ jobs'[j].state = "running" /\ jobs'[j].token = token /\ jobs'[j].tries = r.tries
    BY <1>2, <2>2, <2>3 DEF State
  <2>6. IsJob(jobs'[j])
    BY <2>5 DEF IsJob
  <2>. QED
    BY <2>4, <2>5, <2>6
<1>6. Closes(Lost \cup OpenOf(j))
  BY <1>0, LostIsOpen, AbandonedAreClosed DEF IInv
<1>7. Typed'
  <2>1. \A k \in Job : IsJob(jobs'[k])
    BY <1>4, <1>5, StateAfterRecovery
  <2>2. attempts' \in Seq(Attempt)
    BY <1>6 DEF Closes
  <2>3. m \in Memory
    BY <1>1, <1>2, Bounds DEF Memory, Idle
  <2>4. wk' \in [Worker -> Memory]
    BY <1>3, <2>3 DEF IInv, Typed
  <2>5. \A v \in Worker : ~At(v, "idle")' => wk'[v].job \in Job
    BY <1>1, <1>3, <1>3a DEF IInv, Typed, At
  <2>. QED
    BY <1>4, <2>1, <2>2, <2>4, <2>5 DEF Typed
<1>8. OpenOf(j)' = {} /\ AttemptsOf(j)' = AttemptsOf(j) /\ Good(j)' = Good(j)
  BY <1>6, ClosedAreNotGood
<1>9. Cleared(j)
  <2>1. jobs[j].state # "served"
    <3>1. AfterRecovery(j).state = "waiting"
      BY <1>1 DEF Due
    <3>. QED
      BY <1>1, <3>1, StateAfterRecovery
  <2>2. Own(j)' = Own(j)
    BY DEF Own, ClaimedSummary
  <2>3. Same(j)
    BY <1>5, <1>8, <2>1, <2>2 DEF Same
  <2>. QED
    BY <1>2, <1>5, <1>8, <2>3 DEF Cleared, Owned
<1>10. ASSUME NEW k \in Job, k # j PROVE Kept(k) \/ Cleared(k)
  <2>1. OpenOf(j) \cap OpenOf(k) = {}
    BY <1>10, AttemptsAreOfOneJob
  <2>2. jobs'[k] = AfterRecovery(k) /\ published' = published
    BY <1>4, <1>10 DEF ClaimedSummary
  <2>. QED
    BY <1>6, <2>1, <2>2, RecoveryIsQuiet
<1>11. Quiet(w)
  <2>1. OpenOf(wk[w].job)' = {}
    BY <1>3, <1>8, <1>3a
  <2>. QED
    BY <1>2, <1>3, <1>3a, <1>9, <1>10, <2>1 DEF Quiet
<1>. QED
  BY <1>7, <1>11, QuietIsSafe

-----------------------------------------------------------------------------
(* The steps after which a worker is idle and no summary was published.       *)

LEMMA NothingIsSafe ==
    ASSUME IInv, UNCHANGED <<jobs, attempts, published, wk>>
    PROVE  IInv'
<1>1. ASSUME NEW j PROVE Kept(j)
  BY DEF Kept, Same, AttemptsOf, Good, Own, OpenOf
<1>2. Typed' /\ TokensApart'
  BY DEF IInv, Typed, TokensApart, At
<1>3. \A j \in Job : Sound(j)'
  BY <1>1, SoundRemains DEF IInv
<1>4. \A v \in Worker : Works(v)'
  BY <1>1, WorksRemain DEF IInv
<1>. QED
  BY <1>2, <1>3, <1>4 DEF IInv

LEMMA OnlyTheLastIsOpen ==
    ASSUME IInv, NEW j \in Job, NEW i \in AttemptsOf(j), \A k \in AttemptsOf(j) : k <= i
    PROVE  OpenOf(j) \subseteq {i}
<1>. SUFFICES ASSUME NEW k \in OpenOf(j) PROVE k = i
  OBVIOUS
<1>1. k \in AttemptsOf(j) /\ \A l \in AttemptsOf(j) : l <= k
  BY DEF IInv, Sound, OpenIsLast, OpenOf
<1>2. k \in Nat /\ i \in Nat
  <2>1. DOMAIN attempts = 1..Len(attempts) /\ Len(attempts) \in Nat
    BY DEF IInv, Typed
  <2>. QED
    BY <1>1, <2>1 DEF AttemptsOf
<1>. QED
  BY <1>1, <1>2

\* The job that the worker of the step leaves: as it was, or without a claim and an open attempt.
Left(j, I) ==
    /\ I \subseteq OpenOf(j) /\ Closes(I)
    /\ jobs' = [jobs EXCEPT ![j] = jobs'[j]] /\ IsJob(jobs'[j])
    /\ jobs'[j].tries = jobs[j].tries
    /\ jobs'[j].state = "served" <=> jobs[j].state = "served"
    /\ \/ I = {} /\ jobs'[j].state = jobs[j].state /\ jobs'[j].token = jobs[j].token
       \/ /\ OpenOf(j) \subseteq I
          /\ jobs'[j].state = "running" =>
                jobs[j].state = "running" /\ jobs'[j].token = jobs[j].token

LEMMA LeavingIsSafe ==
    ASSUME IInv, NEW w \in Worker, NEW j \in Job, NEW I, Left(j, I), published' = published,
           Set(w, Idle)
    PROVE  IInv'
<1>1. wk' = [wk EXCEPT ![w] = Idle] /\ wk'[w].pc = "idle" /\ Idle \in Memory
      /\ \A v \in Worker \ {w} : wk'[v] = wk[v]
  BY DEF Set, Idle, Memory, IInv, Typed
<1>2. Typed'
  <2>1. jobs' = [k \in Job |-> jobs'[k]] /\ \A k \in Job : IsJob(jobs'[k])
    BY DEF Left, IInv, Typed
  <2>2. attempts' \in Seq(Attempt)
    BY DEF Left, Closes
  <2>3. wk' \in [Worker -> Memory]
    BY <1>1 DEF IInv, Typed
  <2>4. \A v \in Worker : ~At(v, "idle")' => wk'[v].job \in Job
    BY <1>1 DEF IInv, Typed, At
  <2>. QED
    BY <2>1, <2>2, <2>3, <2>4 DEF Typed
<1>3. ASSUME NEW k \in Job
      PROVE  /\ AttemptsOf(k)' = AttemptsOf(k) /\ Good(k)' = Good(k)
             /\ OpenOf(k)' = OpenOf(k) \ I /\ Own(k)' = Own(k)
  <2>1. Closes(I)
    BY DEF Left
  <2>2. Own(k)' = Own(k)
    BY DEF Own
  <2>. QED
    BY <2>1, <2>2, ClosedAreNotGood
<1>4. ASSUME NEW k \in Job, k # j PROVE Kept(k)
  <2>1. jobs'[k] = jobs[k]
    BY <1>4 DEF Left, IInv, Typed
  <2>2. I \cap OpenOf(k) = {}
    BY <1>4, AttemptsAreOfOneJob DEF Left
  <2>. QED
    BY <1>3, <2>1, <2>2 DEF Kept, Same
<1>5. Kept(j) \/ Cleared(j)
  <2>1. Same(j)
    BY <1>3 DEF Same, Left
  <2>2. CASE I = {} /\ jobs'[j].state = jobs[j].state /\ jobs'[j].token = jobs[j].token
    BY <1>3, <2>1, <2>2 DEF Kept
  <2>3. CASE /\ OpenOf(j) \subseteq I
             /\ jobs'[j].state = "running" =>
                   jobs[j].state = "running" /\ jobs'[j].token = jobs[j].token
    BY <1>3, <2>1, <2>3 DEF Cleared, Owned
  <2>. QED
    BY <2>2, <2>3 DEF Left
<1>6. Quiet(w)
  BY <1>1, <1>4, <1>5 DEF Quiet
<1>. QED
  BY <1>2, <1>6, QuietIsSafe

\* The worker is at work on a job.
LEMMA JobOfWorker ==
    ASSUME IInv, NEW w \in Worker, ~At(w, "idle")
    PROVE  wk[w].job \in Job /\ IsJob(jobs[wk[w].job])
BY DEF IInv, Typed

LEMMA NothingIsClosed ==
    ASSUME IInv, attempts' = attempts
    PROVE  Closes({})
BY DEF Closes, IInv, Typed

LEMMA GivingUpIsSafe ==
    ASSUME IInv, NEW w \in Worker, NotAdmitted(w) \/ Crash(w)
    PROVE  IInv'
<1>. PICK j : j = wk[w].job
  OBVIOUS
<1>1. ~At(w, "idle") /\ Set(w, Idle) /\ UNCHANGED <<jobs, attempts, published>>
  BY DEF NotAdmitted, Crash, At
<1>2. j \in Job /\ IsJob(jobs[j])
  BY <1>1, JobOfWorker
<1>3. jobs' = [jobs EXCEPT ![j] = jobs'[j]]
  BY <1>1, <1>2 DEF IInv, Typed
<1>4. Left(j, {})
  BY <1>1, <1>2, <1>3, NothingIsClosed DEF Left
<1>. QED
  BY <1>1, <1>2, <1>4, LeavingIsSafe

\* A job is put back or ended by its owner.
InState(p, state, wait) == {[p EXCEPT !.state = state, !.lease = 0],
                            [p EXCEPT !.state = state, !.lease = 0, !.wait = wait]}

LEMMA NewState ==
    ASSUME NEW p, IsJob(p), NEW state \in State, NEW wait, NEW r \in InState(p, state, wait)
    PROVE  IsJob(r) /\ r.state = state /\ r.token = p.token /\ r.tries = p.tries
<1>1. PICK Few, Leases, Waits :
         p \in [state : State, few : Few, token : Nat, lease : Leases, wait : Waits, tries : Nat]
  BY DEF IsJob
<1>2. r \in [state : State, few : Few, token : Nat, lease : Leases \cup {0},
             wait : Waits \cup {wait}, tries : Nat]
  <2>1. CASE r = [p EXCEPT !.state = state, !.lease = 0]
    BY <1>1, <2>1
  <2>2. CASE r = [p EXCEPT !.state = state, !.lease = 0, !.wait = wait]
    BY <1>1, <2>2
  <2>. QED
    BY <2>1, <2>2 DEF InState
<1>3. IsJob(r)
  <2>1. PICK Leases2, Waits2 :
          r \in [state : State, few : Few, token : Nat, lease : Leases2, wait : Waits2, tries : Nat]
    BY <1>2
  <2>. QED
    BY <2>1 DEF IsJob
<1>4. \/ r = [p EXCEPT !.state = state, !.lease = 0]
      \/ r = [p EXCEPT !.state = state, !.lease = 0, !.wait = wait]
  BY DEF InState
<1>5. r.state = state /\ r.token = p.token /\ r.tries = p.tries
  BY <1>1, <1>4
<1>. QED
  BY <1>3, <1>5

LEMMA NotAskedIsSafe ==
    ASSUME IInv, NEW w \in Worker, LocalFailure(w) \/ Delayed(w)
    PROVE  IInv'
<1>. PICK j : j = wk[w].job
  OBVIOUS
<1>1. /\ At(w, "admit") /\ Owned(w) /\ Set(w, Idle) /\ attempts' = attempts
      /\ published' = published
  BY DEF LocalFailure, Delayed
<1>2. j \in Job /\ IsJob(jobs[j])
  BY <1>1, JobOfWorker DEF At
<1>3. OpenOf(j) = {} /\ jobs[j].state = "running"
  BY <1>1 DEF IInv, Works, Owned
<1>4. \/ jobs' = [jobs EXCEPT ![j].state = "failed", ![j].lease = 0]
      \/ jobs' = [jobs EXCEPT ![j].state = "waiting", ![j].lease = 0, ![j].wait = Max(Blocks(j))]
  BY DEF LocalFailure, Delayed, Ended
<1>5. /\ jobs' = [jobs EXCEPT ![j] = jobs'[j]] /\ IsJob(jobs'[j])
      /\ jobs'[j].tries = jobs[j].tries /\ jobs'[j].state \in {"failed", "waiting"}
  <2>1. jobs = [k \in Job |-> jobs[k]]
    BY DEF IInv, Typed
  <2>2. PICK wait : wait = Max(Blocks(j))
    OBVIOUS
  <2>3. \/ jobs' = [jobs EXCEPT ![j] = [jobs[j] EXCEPT !.state = "failed", !.lease = 0]]
        \/ jobs' = [jobs EXCEPT ![j] = [jobs[j] EXCEPT !.state = "waiting", !.lease = 0,
                                                       !.wait = wait]]
    <3>1. CASE jobs' = [jobs EXCEPT ![j].state = "failed", ![j].lease = 0]
      BY <1>2, <2>1, <3>1
    <3>2. CASE jobs' = [jobs EXCEPT ![j].state = "waiting", ![j].lease = 0, ![j].wait = wait]
      BY <1>2, <2>1, <3>2
    <3>. QED
      BY <1>4, <2>2, <3>1, <3>2
  <2>4. PICK p : p = jobs[j] /\ IsJob(p)
    BY <1>2
  <2>5. PICK state \in {"failed", "waiting"} : jobs'[j] \in InState(p, state, wait)
    BY <1>2, <2>1, <2>3, <2>4 DEF InState
  <2>6. jobs' = [jobs EXCEPT ![j] = jobs'[j]]
    BY <1>2, <2>1, <2>3
  <2>7. state \in State
    BY <2>5 DEF State
  <2>8. IsJob(jobs'[j]) /\ jobs'[j].tries = p.tries /\ jobs'[j].state = state
    BY <2>4, <2>5, <2>7, NewState
  <2>. QED
    BY <2>4, <2>6, <2>8
<1>6. Left(j, {})
  BY <1>1, <1>3, <1>5, NothingIsClosed DEF Left
<1>. QED
  BY <1>1, <1>2, <1>6, LeavingIsSafe

-----------------------------------------------------------------------------
(* The answers.                                                               *)

\* Attempt i has an outcome now, and no other has changed.
Rewritten(i, outcome) ==
    /\ attempts' \in Seq(Attempt) /\ DOMAIN attempts' = DOMAIN attempts
    /\ attempts'[i].job = attempts[i].job /\ attempts'[i].outcome = outcome
    /\ \A k \in DOMAIN attempts : k # i => attempts'[k] = attempts[k]

LEMMA ClosedIsRewritten ==
    ASSUME NEW w \in Worker, NEW i \in DOMAIN attempts, attempts \in Seq(Attempt),
           i = wk[w].attempt, NEW outcome \in Outcome, NEW over \in BOOLEAN, NEW h,
           Closed(w, outcome, over, h)
    PROVE  Rewritten(i, outcome)
<1>1. attempts' = [attempts EXCEPT ![i] = [attempts[i] EXCEPT !.outcome = outcome, !.over = over]]
  BY DEF Closed
<1>2. PICK a : a = [attempts[i] EXCEPT !.outcome = outcome, !.over = over]
  OBVIOUS
<1>3. attempts[i] \in Attempt
  OBVIOUS
<1>4. a \in Attempt /\ a.job = attempts[i].job /\ a.outcome = outcome
  BY <1>2, <1>3 DEF Attempt
<1>5. attempts' = [attempts EXCEPT ![i] = a]
  BY <1>1, <1>2
<1>6. attempts' \in Seq(Attempt)
  BY <1>4, <1>5
<1>. QED
  BY <1>4, <1>5, <1>6 DEF Rewritten

LEMMA FailedIsClosed ==
    ASSUME NEW i \in DOMAIN attempts, attempts[i].outcome = Open, Rewritten(i, "failed")
    PROVE  Closes({i})
BY DEF Rewritten, Closes

LEMMA AnswerFailsIsSafe ==
    ASSUME IInv, NEW w \in Worker, AnswerFails(w)
    PROVE  IInv'
<1>. PICK j, i : j = wk[w].job /\ i = wk[w].attempt
  OBVIOUS
<1>1. /\ At(w, "ask") /\ Owned(w) /\ Set(w, Idle) /\ published' = published
      /\ attempts[i].outcome = Open
  BY DEF AnswerFails
<1>2. PICK h \in Headers, terminal \in BOOLEAN, over \in BOOLEAN :
         jobs' = [jobs EXCEPT ![j] = FailedTo(j, terminal)] /\ Closed(w, "failed", over, h)
  BY DEF AnswerFails
<1>3. j \in Job /\ IsJob(jobs[j]) /\ jobs[j].state = "running"
  BY <1>1, JobOfWorker DEF At, Owned
<1>4. i \in AttemptsOf(j) /\ \A k \in AttemptsOf(j) : k <= i
  BY <1>1 DEF IInv, Works
<1>5. OpenOf(j) = {i} /\ i \in DOMAIN attempts
  BY <1>1, <1>3, <1>4, OnlyTheLastIsOpen DEF OpenOf, AttemptsOf
<1>6. Closes({i})
  <2>1. attempts \in Seq(Attempt) /\ "failed" \in Outcome
    BY DEF IInv, Typed, Outcome
  <2>2. Rewritten(i, "failed")
    BY <1>2, <1>5, <2>1, ClosedIsRewritten
  <2>. QED
    BY <1>1, <1>5, <2>2, FailedIsClosed
<1>7. /\ jobs' = [jobs EXCEPT ![j] = jobs'[j]] /\ IsJob(jobs'[j])
      /\ jobs'[j].tries = jobs[j].tries /\ jobs'[j].state \in {"failed", "waiting"}
  <2>0. PICK ends, state, wait :
           /\ ends = (terminal \/ jobs[j].tries >= MaxAttempts)
           /\ state = (IF ends THEN "failed" ELSE "waiting") /\ wait = (IF ends THEN 0 ELSE Minute)
    OBVIOUS
  <2>1. /\ state \in {"failed", "waiting"}
        /\ FailedTo(j, terminal) = [jobs[j] EXCEPT !.lease = 0, !.wait = wait, !.state = state]
    BY <2>0 DEF FailedTo
  <2>2. PICK Few, Leases, Waits :
           jobs[j] \in [state : State, few : Few, token : Nat, lease : Leases, wait : Waits,
                        tries : Nat]
    BY <1>3 DEF IsJob
  <2>3. PICK r : r = FailedTo(j, terminal)
    OBVIOUS
  <2>4. /\ r \in [state : State, few : Few, token : Nat, lease : Leases \cup {0},
                  wait : Waits \cup {wait}, tries : Nat]
        /\ r.tries = jobs[j].tries /\ r.state = state
    BY <2>1, <2>2, <2>3 DEF State
  <2>5. IsJob(r)
    BY <2>4 DEF IsJob
  <2>6. jobs' = [jobs EXCEPT ![j] = r] /\ jobs = [k \in Job |-> jobs[k]]
    BY <1>2, <2>3 DEF IInv, Typed
  <2>7. jobs' = [jobs EXCEPT ![j] = jobs'[j]] /\ jobs'[j] = r
    BY <1>3, <2>6
  <2>. QED
    BY <2>1, <2>4, <2>5, <2>7
<1>8. Left(j, {i})
  BY <1>3, <1>5, <1>6, <1>7 DEF Left
<1>. QED
  BY <1>1, <1>3, <1>8, LeavingIsSafe

LEMMA AnswerDroppedIsSafe ==
    ASSUME IInv, NEW w \in Worker, AnswerDropped(w)
    PROVE  IInv'
<1>. PICK j, i : j = wk[w].job /\ i = wk[w].attempt
  OBVIOUS
<1>1. /\ At(w, "ask") /\ Set(w, Idle) /\ jobs' = jobs /\ published' = published
      /\ attempts' = IF ~(Owned(w) /\ Live(w)) THEN Abandoned({i} \cap OpenOf(j)) ELSE attempts
      /\ ~(Owned(w) /\ Live(w)) \/ attempts[i].outcome # Open
  BY DEF AnswerDropped
<1>2. j \in Job /\ IsJob(jobs[j])
  BY <1>1, JobOfWorker DEF At
<1>3. /\ i \in AttemptsOf(j)
      /\ attempts[i].outcome = Open => Owned(w)
      /\ Owned(w) => \A k \in AttemptsOf(j) : k <= i
  BY <1>1 DEF IInv, Works
<1>4. jobs' = [jobs EXCEPT ![j] = jobs'[j]]
  BY <1>1, <1>2 DEF IInv, Typed
<1>5. Owned(w) => jobs[j].state = "running"
  BY DEF Owned
<1>6. CASE attempts[i].outcome = Open
  <2>1. i \in OpenOf(j) /\ Owned(w)
    BY <1>3, <1>6 DEF OpenOf
  <2>2. OpenOf(j) \subseteq {i}
    BY <1>2, <1>3, <2>1, OnlyTheLastIsOpen
  <2>3. attempts' = Abandoned({i})
    <3>1. {i} \cap OpenOf(j) = {i}
      BY <2>1
    <3>2. attempts' = Abandoned({i} \cap OpenOf(j))
      BY <1>1, <1>6
    <3>. QED
      BY <3>1, <3>2
  <2>4. {i} \subseteq {k \in DOMAIN attempts : attempts[k].outcome = Open}
    BY <2>1 DEF OpenOf, AttemptsOf
  <2>5. Closes({i})
    BY <2>3, <2>4, AbandonedAreClosed DEF IInv
  <2>6. Left(j, {i})
    BY <1>1, <1>2, <1>4, <2>1, <2>2, <2>5 DEF Left
  <2>. QED
    BY <1>1, <1>2, <2>6, LeavingIsSafe
<1>7. CASE attempts[i].outcome # Open
  <2>1. {i} \cap OpenOf(j) = {}
    BY <1>7 DEF OpenOf
  <2>2. attempts' = Abandoned({}) \/ attempts' = attempts
    BY <1>1, <2>1
  <2>3. {} \subseteq {k \in DOMAIN attempts : attempts[k].outcome = Open}
    OBVIOUS
  <2>4. Closes({})
    BY <2>2, <2>3, AbandonedAreClosed, NothingIsClosed DEF IInv
  <2>5. Left(j, {})
    BY <1>1, <1>2, <1>4, <2>4 DEF Left
  <2>. QED
    BY <1>1, <1>2, <2>5, LeavingIsSafe
<1>. QED
  BY <1>6, <1>7

\* A job gets its summary: nothing of it is open, and the other jobs are as they were.
Serves(w, j) ==
    /\ attempts' \in Seq(Attempt)
    /\ jobs[j].state = "running" /\ jobs'[j].state = "served"
    /\ jobs' = [jobs EXCEPT ![j] = jobs'[j]] /\ IsJob(jobs'[j])
    /\ jobs'[j].tries = jobs[j].tries
    /\ AttemptsOf(j)' = AttemptsOf(j) /\ OpenOf(j)' = {} /\ Served(j)'
    /\ \A k \in Job \ {j} : /\ AttemptsOf(k)' = AttemptsOf(k) /\ Good(k)' = Good(k)
                            /\ OpenOf(k)' = OpenOf(k) /\ Own(k)' = Own(k)

LEMMA ServingIsSafe ==
    ASSUME IInv, NEW w \in Worker, NEW j \in Job, Serves(w, j), Set(w, Idle)
    PROVE  IInv'
<1>1. wk' = [wk EXCEPT ![w] = Idle] /\ wk'[w].pc = "idle" /\ Idle \in Memory
      /\ \A v \in Worker \ {w} : wk'[v] = wk[v]
  BY DEF Set, Idle, Memory, IInv, Typed
<1>2. Typed'
  <2>1. jobs' = [k \in Job |-> jobs'[k]] /\ \A k \in Job : IsJob(jobs'[k])
    BY DEF Serves, IInv, Typed
  <2>2. wk' \in [Worker -> Memory]
    BY <1>1 DEF IInv, Typed
  <2>3. \A v \in Worker : ~At(v, "idle")' => wk'[v].job \in Job
    BY <1>1 DEF IInv, Typed, At
  <2>. QED
    BY <2>1, <2>2, <2>3 DEF Typed, Serves
<1>3. TokensApart'
  <2>. SUFFICES ASSUME NEW u \in Worker, NEW v \in Worker, u # v, ~At(u, "idle")', ~At(v, "idle")',
                       wk'[u].job = wk'[v].job
                PROVE  wk'[u].token # wk'[v].token
    BY DEF TokensApart
  <2>. QED
    BY <1>1 DEF IInv, TokensApart, At
<1>4. ASSUME NEW k \in Job, k # j PROVE Kept(k)
  <2>1. jobs'[k] = jobs[k]
    BY <1>4 DEF Serves, IInv, Typed
  <2>. QED
    BY <1>4, <2>1 DEF Kept, Same, Serves
<1>5. ASSUME NEW k \in Job PROVE Sound(k)'
  <2>1. CASE k # j
    BY <1>4, <1>5, <2>1, SoundRemains DEF IInv
  <2>2. CASE k = j
    <3>1. Counted(j)'
      BY DEF Serves, IInv, Sound, Counted
    <3>2. OpenIsLast(j)'
      BY DEF Serves, OpenIsLast
    <3>3. Earned(j)'
      BY DEF Serves, Earned
    <3>. QED
      BY <2>2, <3>1, <3>2, <3>3 DEF Sound
  <2>. QED
    BY <2>1, <2>2
<1>6. ASSUME NEW v \in Worker PROVE Works(v)'
  <2>1. CASE wk'[v].pc = "idle"
    BY <2>1 DEF Works, At
  <2>2. CASE wk'[v] = wk[v] /\ wk'[v].pc # "idle" /\ wk[v].job # j
    <3>1. Kept(wk[v].job)
      BY <1>4, <2>2 DEF IInv, Typed, At
    <3>2. Works(v)
      BY DEF IInv
    <3>. QED
      BY <2>2, <3>1, <3>2, WorksRemain
  <2>3. CASE wk'[v] = wk[v] /\ wk[v].job = j
    <3>1. ~Owned(v)'
      BY <2>3 DEF Owned, Serves
    <3>2. ASSUME At(v, "ask")'
          PROVE  /\ wk'[v].attempt \in AttemptsOf(wk[v].job)'
                 /\ attempts'[wk'[v].attempt].outcome # Open
      <4>1. wk'[v].attempt \in AttemptsOf(j)'
        BY <2>3, <3>2 DEF IInv, Works, At, Serves
      <4>2. wk'[v].attempt \notin OpenOf(j)'
        BY DEF Serves
      <4>. QED
        BY <2>3, <4>1, <4>2 DEF OpenOf
    <3>. QED
      BY <3>1, <3>2 DEF Works
  <2>. QED
    BY <1>1, <2>1, <2>2, <2>3
<1>. QED
  BY <1>2, <1>3, <1>5, <1>6 DEF IInv

LEMMA EndedAsServed ==
    ASSUME IInv, NEW j \in Job, Ended(j, "served")
    PROVE  /\ jobs' = [jobs EXCEPT ![j] = jobs'[j]] /\ IsJob(jobs'[j])
           /\ jobs'[j].tries = jobs[j].tries /\ jobs'[j].state = "served"
<1>1. jobs = [k \in Job |-> jobs[k]] /\ IsJob(jobs[j]) /\ "served" \in State
  BY DEF IInv, Typed, State
<1>2. PICK p, none : p = jobs[j] /\ IsJob(p) /\ none = 0
  BY <1>1
<1>3. jobs' = [jobs EXCEPT ![j] = [p EXCEPT !.state = "served", !.lease = 0]]
  BY <1>2 DEF Ended
<1>4. jobs' = [jobs EXCEPT ![j] = jobs'[j]]
  BY <1>1, <1>3
<1>5. jobs'[j] \in InState(p, "served", none)
  BY <1>1, <1>3 DEF InState
<1>6. IsJob(jobs'[j]) /\ jobs'[j].tries = p.tries /\ jobs'[j].state = "served"
  BY <1>1, <1>2, <1>5, NewState
<1>. QED
  BY <1>2, <1>4, <1>6

\* The summary of one job is published.
LEMMA OwnAfter ==
    ASSUME NEW j, NEW a, published' = published \cup {[job |-> j, attempt |-> a]}
    PROVE  Own(j)' = Own(j) \cup {a} /\ \A k : k # j => Own(k)' = Own(k)
<1>1. PICK q : q = [job |-> j, attempt |-> a]
  OBVIOUS
<1>2. q.job = j /\ q.attempt = a /\ published' = published \cup {q}
  BY <1>1
<1>3. ASSUME NEW x PROVE x \in Own(j)' <=> x \in Own(j) \cup {a}
  BY <1>2 DEF Own
<1>4. ASSUME NEW k, k # j PROVE Own(k)' = Own(k)
  BY <1>2, <1>4 DEF Own
<1>5. Own(j)' = Own(j) \cup {a}
  BY <1>3
<1>. QED
  BY <1>4, <1>5

LEMMA ByTheRuleIsSafe ==
    ASSUME IInv, NEW w \in Worker, ByTheRule(w)
    PROVE  IInv'
<1>. PICK j : j = wk[w].job
  OBVIOUS
<1>1. /\ At(w, "admit") /\ Owned(w) /\ Set(w, Idle) /\ attempts' = attempts
      /\ published' = published \cup {[job |-> j, attempt |-> ByRule]} /\ Ended(j, "served")
  BY DEF ByTheRule
<1>2. j \in Job /\ jobs[j].state = "running"
  BY <1>1, JobOfWorker DEF At, Owned
<1>3. OpenOf(j) = {} /\ Own(j) = {} /\ Good(j) = {}
  BY <1>1, <1>2 DEF IInv, Works, Sound, Earned
<1>4. Own(j)' = {ByRule} /\ \A k : k # j => Own(k)' = Own(k)
  BY <1>1, <1>3, OwnAfter
<1>5. ASSUME NEW k
      PROVE  AttemptsOf(k)' = AttemptsOf(k) /\ Good(k)' = Good(k) /\ OpenOf(k)' = OpenOf(k)
  BY <1>1 DEF AttemptsOf, Good, OpenOf
<1>6. Served(j)'
  BY <1>3, <1>4, <1>5 DEF Served
<1>7. attempts' \in Seq(Attempt)
  BY <1>1 DEF IInv, Typed
<1>8. Serves(w, j)
  BY <1>1, <1>2, <1>3, <1>4, <1>5, <1>6, <1>7, EndedAsServed DEF Serves
<1>. QED
  BY <1>1, <1>2, <1>8, ServingIsSafe

LEMMA AnswerServesIsSafe ==
    ASSUME IInv, NEW w \in Worker, AnswerServes(w)
    PROVE  IInv'
<1>. PICK j, i : j = wk[w].job /\ i = wk[w].attempt
  OBVIOUS
<1>1. /\ At(w, "ask") /\ Owned(w) /\ Set(w, Idle) /\ attempts[i].outcome = Open
      /\ published' = published \cup {[job |-> j, attempt |-> i]} /\ Ended(j, "served")
      /\ \E h \in Headers : Closed(w, "served", FALSE, h)
  BY DEF AnswerServes
<1>2. j \in Job /\ jobs[j].state = "running"
  BY <1>1, JobOfWorker DEF At, Owned
<1>3. i \in AttemptsOf(j) /\ \A k \in AttemptsOf(j) : k <= i
  BY <1>1 DEF IInv, Works
<1>4. OpenOf(j) = {i} /\ i \in DOMAIN attempts /\ attempts[i].job = j
  BY <1>1, <1>2, <1>3, OnlyTheLastIsOpen DEF OpenOf, AttemptsOf
<1>5. Own(j) = {} /\ Good(j) = {}
  <2>1. Sound(j)
    BY <1>2 DEF IInv
  <2>. QED
    BY <1>2, <2>1 DEF Sound, Earned
<1>6. Own(j)' = {i} /\ \A k : k # j => Own(k)' = Own(k)
  BY <1>1, <1>5, OwnAfter, SMTT(30)
<1>7. Rewritten(i, "served")
  <2>1. attempts \in Seq(Attempt) /\ "served" \in Outcome /\ FALSE \in BOOLEAN
    BY DEF IInv, Typed, Outcome
  <2>. QED
    BY <1>1, <1>4, <2>1, ClosedIsRewritten
<1>8. ASSUME NEW k
      PROVE  /\ AttemptsOf(k)' = AttemptsOf(k)
             /\ k # j => Good(k)' = Good(k) /\ OpenOf(k)' = OpenOf(k)
             /\ k = j => Good(k)' = Good(k) \cup {i} /\ OpenOf(k)' = OpenOf(k) \ {i}
  <2>1. AttemptsOf(k)' = AttemptsOf(k)
    BY <1>7 DEF Rewritten, AttemptsOf
  <2>2. \A l \in AttemptsOf(k) : l \in DOMAIN attempts /\ attempts[l].job = k
    BY DEF AttemptsOf
  <2>3. k # j => \A l \in AttemptsOf(k) : attempts'[l] = attempts[l]
    BY <1>4, <1>7, <2>2 DEF Rewritten
  <2>4. k # j => Good(k)' = Good(k) /\ OpenOf(k)' = OpenOf(k)
    BY <2>1, <2>3 DEF Good, OpenOf
  <2>5. attempts'[i].outcome = "served" /\ \A l \in DOMAIN attempts : l # i => attempts'[l] = attempts[l]
    BY <1>7 DEF Rewritten
  <2>6. k = j => Good(k)' = Good(k) \cup {i}
    BY <1>3, <2>1, <2>2, <2>5 DEF Good
  <2>7. k = j => OpenOf(k)' = OpenOf(k) \ {i}
    BY <1>3, <2>1, <2>2, <2>5 DEF OpenOf, Open
  <2>. QED
    BY <2>1, <2>4, <2>6, <2>7
<1>9. Served(j)'
  <2>1. Good(j)' = {i} /\ i \in AttemptsOf(j)'
    BY <1>3, <1>5, <1>8
  <2>. QED
    BY <1>6, <2>1 DEF Served
<1>10. OpenOf(j)' = {}
  BY <1>4, <1>8
<1>11. attempts' \in Seq(Attempt)
  BY <1>7 DEF Rewritten
<1>12. Serves(w, j)
  BY <1>1, <1>2, <1>6, <1>8, <1>9, <1>10, <1>11, EndedAsServed DEF Serves
<1>. QED
  BY <1>1, <1>2, <1>12, ServingIsSafe

-----------------------------------------------------------------------------
(* The request.                                                               *)

LEMMA AdmittedIsSafe ==
    ASSUME IInv, NEW w \in Worker, Admitted(w)
    PROVE  IInv'
<1>. PICK j : j = wk[w].job
  OBVIOUS
<1>. PICK n : n = Len(attempts) + 1
  OBVIOUS
<1>. PICK a : a = [job |-> j, age |-> 0, outcome |-> Open, over |-> FALSE]
  OBVIOUS
<1>1. /\ At(w, "admit") /\ Owned(w) /\ jobs[j].tries < MaxAttempts
      /\ jobs' = [jobs EXCEPT ![j].tries = @ + 1] /\ attempts' = Append(attempts, a)
      /\ published' = published
      /\ Set(w, [wk[w] EXCEPT !.pc = "ask", !.attempt = Len(attempts')])
  BY DEF Admitted
<1>2. j \in Job /\ IsJob(jobs[j]) /\ jobs[j].state = "running"
  BY <1>1, JobOfWorker DEF At, Owned
<1>3. OpenOf(j) = {}
  BY <1>1 DEF IInv, Works
<1>4. /\ attempts \in Seq(Attempt) /\ Len(attempts) \in Nat /\ n \in Nat
      /\ DOMAIN attempts = 1..Len(attempts) /\ n \notin DOMAIN attempts
  BY DEF IInv, Typed
<1>5. a \in Attempt /\ a.job = j /\ a.outcome = Open
  BY <1>2 DEF Attempt, Outcome
<1>6. /\ attempts' \in Seq(Attempt) /\ Len(attempts') = n /\ attempts'[n] = a
      /\ DOMAIN attempts' = DOMAIN attempts \cup {n}
      /\ \A i \in DOMAIN attempts : attempts'[i] = attempts[i]
  BY <1>1, <1>4, <1>5
<1>7. /\ jobs' = [k \in Job |-> jobs'[k]] /\ IsJob(jobs'[j])
      /\ jobs'[j].tries = jobs[j].tries + 1 /\ jobs[j].tries \in Nat
      /\ jobs'[j].state = "running" /\ jobs'[j].token = jobs[j].token
      /\ \A k \in Job : k # j => jobs'[k] = jobs[k]
  <2>1. jobs = [k \in Job |-> jobs[k]]
    BY DEF IInv, Typed
  <2>2. jobs' = [jobs EXCEPT ![j] = [jobs[j] EXCEPT !.tries = jobs[j].tries + 1]]
    BY <1>1
  <2>3. PICK p, q : p = jobs[j] /\ q = [p EXCEPT !.tries = p.tries + 1]
    OBVIOUS
  <2>4. PICK Few, Leases, Waits :
           p \in [state : State, few : Few, token : Nat, lease : Leases, wait : Waits, tries : Nat]
    BY <1>2, <2>3 DEF IsJob
  <2>5. q \in [state : State, few : Few, token : Nat, lease : Leases, wait : Waits, tries : Nat]
    BY <2>3, <2>4
  <2>6. /\ IsJob(q) /\ q.tries = p.tries + 1 /\ p.tries \in Nat /\ q.state = p.state
        /\ q.token = p.token
    BY <2>3, <2>4, <2>5 DEF IsJob
  <2>7. jobs' = [jobs EXCEPT ![j] = q]
    BY <2>2, <2>3
  <2>8. jobs'[j] = q /\ jobs' = [k \in Job |-> jobs'[k]]
        /\ \A k \in Job : k # j => jobs'[k] = jobs[k]
    BY <1>2, <2>1, <2>7
  <2>. QED
    BY <1>2, <2>3, <2>6, <2>8
<1>8. /\ wk' \in [Worker -> Memory] /\ wk'[w].pc = "ask" /\ wk'[w].attempt = n
      /\ wk'[w].job = j /\ wk'[w].token = wk[w].token
      /\ \A v \in Worker \ {w} : wk'[v] = wk[v]
  <2>1. PICK m : m = [wk[w] EXCEPT !.pc = "ask", !.attempt = n]
    OBVIOUS
  <2>2. wk' = [wk EXCEPT ![w] = m]
    BY <1>1, <1>6, <2>1 DEF Set
  <2>3. wk \in [Worker -> Memory] /\ wk[w] \in Memory
    BY DEF IInv, Typed
  <2>4. m \in Memory /\ m.pc = "ask" /\ m.attempt = n /\ m.job = j /\ m.token = wk[w].token
    BY <1>4, <2>1, <2>3 DEF Memory
  <2>. QED
    BY <2>2, <2>3, <2>4
<1>9. Typed'
  <2>1. \A k \in Job : IsJob(jobs'[k])
    BY <1>7 DEF IInv, Typed
  <2>2. \A v \in Worker : ~At(v, "idle")' => wk'[v].job \in Job
    BY <1>2, <1>8 DEF IInv, Typed, At
  <2>. QED
    BY <1>6, <1>7, <1>8, <2>1, <2>2 DEF Typed
<1>10. TokensApart'
  <2>. SUFFICES ASSUME NEW u \in Worker, NEW v \in Worker, u # v, ~At(u, "idle")', ~At(v, "idle")',
                       wk'[u].job = wk'[v].job
                PROVE  wk'[u].token # wk'[v].token
    BY DEF TokensApart
  <2>1. \A x \in Worker : wk'[x].job = wk[x].job /\ wk'[x].token = wk[x].token
    BY <1>8
  <2>2. ~At(u, "idle") /\ ~At(v, "idle")
    BY <1>1, <1>8 DEF At
  <2>. QED
    BY <2>1, <2>2 DEF IInv, TokensApart
<1>11. ASSUME NEW k
       PROVE  /\ k # j => /\ AttemptsOf(k)' = AttemptsOf(k) /\ Good(k)' = Good(k)
                          /\ OpenOf(k)' = OpenOf(k)
              /\ k = j => /\ AttemptsOf(k)' = AttemptsOf(k) \cup {n} /\ Good(k)' = Good(k)
                          /\ OpenOf(k)' = OpenOf(k) \cup {n}
              /\ Own(k)' = Own(k)
  <2>1. k # j => AttemptsOf(k)' = AttemptsOf(k)
    BY <1>5, <1>6 DEF AttemptsOf
  <2>2. k = j => AttemptsOf(k)' = AttemptsOf(k) \cup {n}
    BY <1>5, <1>6 DEF AttemptsOf
  <2>3. AttemptsOf(k) \subseteq DOMAIN attempts /\ \A i \in AttemptsOf(k) : attempts'[i] = attempts[i]
    BY <1>6 DEF AttemptsOf
  <2>4. k # j => Good(k)' = Good(k) /\ OpenOf(k)' = OpenOf(k)
    BY <2>1, <2>3 DEF Good, OpenOf
  <2>5. attempts'[n].outcome = Open /\ Open # "served"
    BY <1>5, <1>6 DEF Open
  <2>6. k = j => Good(k)' = Good(k) /\ OpenOf(k)' = OpenOf(k) \cup {n}
    BY <2>2, <2>3, <2>5 DEF Good, OpenOf
  <2>7. Own(k)' = Own(k)
    BY <1>1 DEF Own
  <2>. QED
    BY <2>1, <2>2, <2>4, <2>6, <2>7
<1>12. ASSUME NEW k \in Job, k # j PROVE Kept(k)
  BY <1>7, <1>11, <1>12 DEF Kept, Same
<1>13. \A k \in AttemptsOf(j)' : k <= n
  <2>1. \A k \in AttemptsOf(j) : k <= n
    BY <1>4 DEF AttemptsOf
  <2>. QED
    BY <1>4, <1>11, <2>1
<1>14. Sound(j)'
  <2>1. Sound(j)
    BY <1>2 DEF IInv
  <2>2. Counted(j)'
    <3>1. IsFiniteSet(1..Len(attempts)) /\ AttemptsOf(j) \subseteq 1..Len(attempts)
      <4>1. Len(attempts) \in Int /\ 1 \in Int
        BY <1>4
      <4>2. IsFiniteSet(1..Len(attempts))
        BY ONLY <4>1, FS_Interval
      <4>. QED
        BY <4>2 DEF AttemptsOf
    <3>2. IsFiniteSet(AttemptsOf(j)) /\ n \notin AttemptsOf(j)
      BY <1>4, <3>1, FS_Subset
    <3>3. PICK S : S = AttemptsOf(j)
      OBVIOUS
    <3>4. Cardinality(S \cup {n}) = Cardinality(S) + 1
      BY <3>2, <3>3, FS_AddElement
    <3>5. Cardinality(AttemptsOf(j)') = jobs[j].tries + 1
      BY <1>11, <2>1, <3>3, <3>4 DEF Sound, Counted
    <3>6. jobs[j].tries + 1 <= MaxAttempts
      BY <1>1, <1>7, Bounds
    <3>. QED
      BY <1>7, <3>5, <3>6 DEF Counted
  <2>3. OpenIsLast(j)'
    <3>1. OpenOf(j)' = {n}
      BY <1>3, <1>11
    <3>. QED
      BY <1>7, <1>13, <3>1 DEF OpenIsLast
  <2>4. Earned(j)'
    <3>1. Own(j) = {} /\ Good(j) = {}
      BY <1>2, <2>1 DEF Sound, Earned
    <3>. QED
      BY <1>7, <1>11, <3>1 DEF Earned
  <2>. QED
    BY <2>2, <2>3, <2>4 DEF Sound
<1>15. Works(w)'
  <2>1. Owned(w)'
    BY <1>1, <1>7, <1>8 DEF Owned
  <2>2. n \in AttemptsOf(j)'
    BY <1>11
  <2>3. /\ wk'[w].attempt \in AttemptsOf(wk[w].job)'
        /\ \A k \in AttemptsOf(wk[w].job)' : k <= wk'[w].attempt
    BY <1>8, <1>13, <2>2
  <2>4. ~At(w, "admit")'
    BY <1>8 DEF At
  <2>. QED
    BY <2>1, <2>3, <2>4 DEF Works
<1>16. ASSUME NEW v \in Worker, v # w PROVE Works(v)'
  <2>1. wk'[v] = wk[v]
    BY <1>8, <1>16
  <2>2. Works(v)
    BY DEF IInv
  <2>3. CASE wk[v].pc = "idle"
    BY <2>1, <2>3 DEF Works, At
  <2>4. CASE wk[v].pc # "idle" /\ wk[v].job # j
    <3>1. Kept(wk[v].job)
      BY <1>12, <2>4 DEF IInv, Typed, At
    <3>. QED
      BY <2>1, <2>2, <3>1, WorksRemain
  <2>5. CASE wk[v].pc # "idle" /\ wk[v].job = j
    <3>1. wk[v].token # wk[w].token
      BY <1>1, <1>16, <2>5 DEF IInv, TokensApart, At
    <3>2. ~Owned(v) /\ ~Owned(v)'
      <4>1. jobs[j].token = wk[w].token /\ jobs'[j].token = jobs[j].token
        BY <1>1, <1>7 DEF Owned
      <4>2. wk[v].job = j /\ wk'[v].job = j /\ wk'[v].token = wk[v].token
        BY <2>1, <2>5
      <4>. QED
        BY <3>1, <4>1, <4>2 DEF Owned
    <3>3. ASSUME At(v, "ask")'
          PROVE  /\ wk'[v].attempt \in AttemptsOf(wk[v].job)'
                 /\ attempts'[wk'[v].attempt].outcome # Open
      <4>1. At(v, "ask")
        BY <2>1, <3>3 DEF At
      <4>2. wk[v].attempt \in AttemptsOf(j) /\ attempts[wk[v].attempt].outcome # Open
        BY <2>2, <2>5, <3>2, <4>1 DEF Works
      <4>3. attempts'[wk[v].attempt] = attempts[wk[v].attempt]
        BY <1>6, <4>2 DEF AttemptsOf
      <4>. QED
        BY <1>11, <2>1, <2>5, <4>2, <4>3
    <3>. QED
      BY <3>2, <3>3 DEF Works
  <2>. QED
    BY <2>3, <2>4, <2>5
<1>. QED
  BY <1>9, <1>10, <1>12, <1>14, <1>15, <1>16, SoundRemains DEF IInv

-----------------------------------------------------------------------------
(* Time passes.                                                               *)

LEMMA TickIsSafe ==
    ASSUME IInv, Tick
    PROVE  IInv'
<1>1. /\ wk' = wk /\ published' = published
      /\ jobs' = [j \in Job |-> [jobs[j] EXCEPT !.lease = Down(jobs[j].lease),
                                                !.wait = Down(jobs[j].wait)]]
      /\ attempts' = [i \in DOMAIN attempts |->
                         [attempts[i] EXCEPT !.age = Up(attempts[i].age)]]
  BY DEF Tick
<1>2. attempts \in Seq(Attempt)
  BY DEF IInv, Typed
<1>3. ASSUME NEW i \in DOMAIN attempts
      PROVE  /\ attempts'[i] \in Attempt /\ attempts'[i].job = attempts[i].job
             /\ attempts'[i].outcome = attempts[i].outcome
  <2>1. attempts[i] \in Attempt
    BY <1>2
  <2>2. Up(attempts[i].age) \in Nat
    BY <2>1, Bounds DEF Up, Attempt
  <2>3. attempts'[i] = [attempts[i] EXCEPT !.age = Up(attempts[i].age)]
    BY <1>1
  <2>. QED
    BY <2>1, <2>2, <2>3 DEF Attempt
<1>4. DOMAIN attempts' = DOMAIN attempts /\ attempts' \in Seq(Attempt)
  <2>1. DOMAIN attempts = 1..Len(attempts) /\ Len(attempts) \in Nat
    BY <1>2
  <2>2. attempts' = [i \in 1..Len(attempts) |-> attempts'[i]]
    BY <1>1, <2>1
  <2>. QED
    BY <1>3, <2>1, <2>2
<1>5. ASSUME NEW j \in Job
      PROVE  /\ IsJob(jobs'[j]) /\ jobs'[j].state = jobs[j].state
             /\ jobs'[j].token = jobs[j].token /\ jobs'[j].tries = jobs[j].tries
  <2>1. PICK p, q, lease, wait : /\ p = jobs[j] /\ q = jobs'[j]
                                 /\ lease = Down(jobs[j].lease) /\ wait = Down(jobs[j].wait)
    OBVIOUS
  <2>2. q = [p EXCEPT !.lease = lease, !.wait = wait]
    BY <1>1, <2>1
  <2>3. PICK Few, Leases, Waits :
           p \in [state : State, few : Few, token : Nat, lease : Leases, wait : Waits, tries : Nat]
    BY <2>1 DEF IInv, Typed, IsJob
  <2>4. q \in [state : State, few : Few, token : Nat, lease : Leases \cup {lease},
               wait : Waits \cup {wait}, tries : Nat]
    BY <2>2, <2>3
  <2>5. IsJob(q)
    BY <2>4 DEF IsJob
  <2>6. q.state = p.state /\ q.token = p.token /\ q.tries = p.tries
    BY <2>2, <2>3
  <2>. QED
    BY <2>1, <2>5, <2>6
<1>6. Typed'
  <2>1. jobs' = [j \in Job |-> jobs'[j]]
    BY <1>1
  <2>. QED
    BY <1>1, <1>4, <1>5, <2>1 DEF IInv, Typed, At
<1>7. ASSUME NEW j \in Job PROVE Kept(j)
  <2>1. AttemptsOf(j)' = AttemptsOf(j) /\ \A i \in AttemptsOf(j) : i \in DOMAIN attempts
    BY <1>3, <1>4 DEF AttemptsOf
  <2>2. Good(j)' = Good(j)
    BY <1>3, <2>1 DEF Good
  <2>3. OpenOf(j)' = OpenOf(j)
    BY <1>3, <2>1 DEF OpenOf
  <2>4. Own(j)' = Own(j)
    BY <1>1 DEF Own
  <2>. QED
    BY <1>5, <2>1, <2>2, <2>3, <2>4 DEF Kept, Same
<1>8. TokensApart'
  BY <1>1 DEF IInv, TokensApart, At
<1>9. \A j \in Job : Sound(j)'
  BY <1>7, SoundRemains DEF IInv
<1>10. ASSUME NEW v \in Worker PROVE Works(v)'
  <2>1. CASE At(v, "idle")
    BY <1>1, <2>1 DEF Works, At
  <2>2. CASE ~At(v, "idle")
    <3>1. wk[v].job \in Job /\ Works(v) /\ wk'[v] = wk[v]
      BY <1>1, <2>2 DEF IInv, Typed
    <3>. QED
      BY <1>7, <3>1, WorksRemain
  <2>. QED
    BY <2>1, <2>2
<1>. QED
  BY <1>6, <1>8, <1>9, <1>10 DEF IInv

-----------------------------------------------------------------------------
(* The theorems.                                                              *)

LEMMA InitIsSafe == Init => IInv
<1>. SUFFICES ASSUME Init PROVE IInv
  OBVIOUS
<1>1. PICK TooFew \in SUBSET Job :
         jobs = [j \in Job |-> [state |-> "waiting", few |-> j \in TooFew, token |-> 0,
                                lease |-> 0, wait |-> 0, tries |-> 0]]
  BY DEF Init
<1>2. attempts = <<>> /\ published = {} /\ wk = [w \in Worker |-> Idle]
  BY DEF Init
<1>3. ASSUME NEW j \in Job
      PROVE  IsJob(jobs[j]) /\ jobs[j].state = "waiting" /\ jobs[j].tries = 0
  <2>1. jobs[j] \in [state : State, few : BOOLEAN, token : Nat, lease : {0}, wait : {0},
                     tries : Nat]
    BY <1>1 DEF State
  <2>2. IsJob(jobs[j])
    BY <2>1 DEF IsJob
  <2>. QED
    BY <1>1, <2>2
<1>4. Idle \in Memory /\ Idle.pc = "idle"
  BY DEF Idle, Memory
<1>5. Typed
  <2>1. jobs = [j \in Job |-> jobs[j]]
    BY <1>1
  <2>2. <<>> \in Seq(Attempt)
    OBVIOUS
  <2>. QED
    BY <1>2, <1>3, <1>4, <2>1, <2>2 DEF Typed, At
<1>6. ASSUME NEW j \in Job PROVE Sound(j)
  <2>1. DOMAIN attempts = {}
    BY <1>2
  <2>2. AttemptsOf(j) = {}
    BY <2>1 DEF AttemptsOf
  <2>3. OpenOf(j) = {} /\ Good(j) = {} /\ Own(j) = {}
    BY <1>2, <2>2 DEF OpenOf, Good, Own
  <2>4. Counted(j)
    BY <1>3, <2>2, FS_EmptySet, Bounds DEF Counted
  <2>. QED
    BY <1>3, <2>3, <2>4 DEF Sound, OpenIsLast, Earned
<1>7. \A w \in Worker : At(w, "idle")
  BY <1>2, <1>4 DEF At
<1>8. TokensApart
  BY <1>7 DEF TokensApart
<1>9. \A w \in Worker : Works(w)
  BY <1>7 DEF Works, At
<1>. QED
  BY <1>5, <1>6, <1>8, <1>9 DEF IInv

LEMMA NextIsSafe == IInv /\ [Next]_vars => IInv'
<1>. SUFFICES ASSUME IInv, [Next]_vars PROVE IInv'
  OBVIOUS
<1>1. ASSUME NEW w \in Worker, Step(w) PROVE IInv'
  <2>1. CASE ClaimedSummary(w)
    BY <2>1, ClaimedSummaryIsSafe
  <2>2. CASE ClaimedReview(w)
    <3>1. CASE turn = "summary"
      BY <2>2, <3>1, RecoveryIsSafe DEF ClaimedReview
    <3>2. CASE turn # "summary"
      BY <2>2, <3>2, NothingIsSafe DEF ClaimedReview
    <3>. QED
      BY <3>1, <3>2
  <2>3. CASE ClaimedNothing(w)
    BY <2>3, RecoveryIsSafe DEF ClaimedNothing
  <2>4. CASE NotAdmitted(w)
    BY <2>4, GivingUpIsSafe
  <2>5. CASE ByTheRule(w)
    BY <2>5, ByTheRuleIsSafe
  <2>6. CASE LocalFailure(w) \/ Delayed(w)
    BY <2>6, NotAskedIsSafe
  <2>7. CASE Admitted(w)
    BY <2>7, AdmittedIsSafe
  <2>8. CASE AnswerFails(w)
    BY <2>8, AnswerFailsIsSafe
  <2>9. CASE AnswerServes(w)
    BY <2>9, AnswerServesIsSafe
  <2>10. CASE AnswerDropped(w)
    BY <2>10, AnswerDroppedIsSafe
  <2>. QED
    BY <1>1, <2>1, <2>2, <2>3, <2>4, <2>5, <2>6, <2>7, <2>8, <2>9, <2>10 DEF Step
<1>2. ASSUME NEW w \in Worker, Crash(w) PROVE IInv'
  BY <1>2, GivingUpIsSafe
<1>3. CASE Tick
  BY <1>3, TickIsSafe
<1>4. CASE UNCHANGED vars
  BY <1>4, NothingIsSafe DEF vars
<1>. QED
  BY <1>1, <1>2, <1>3, <1>4 DEF Next

\* What the proofs below use of the state: who owns a job, what is open of it, and what was
\* published of it.
THEOREM InvariantHolds == Spec => []IInv
<1>. QED
  BY InitIsSafe, NextIsSafe, PTL DEF Spec

LEMMA AttemptNumbers == IInv => \A j : AttemptsOf(j) \subseteq Nat \ {0}
BY DEF IInv, Typed, AttemptsOf

\* An attempt that is still open is the only one of its job, its last one and that of the
\* claim the job runs under.
THEOREM OpenIsCurrentHolds == Spec => []OpenIsCurrent
<1>1. ASSUME IInv PROVE OpenIsCurrent
  <2>. SUFFICES ASSUME NEW i \in DOMAIN attempts, attempts[i].outcome = Open
                PROVE  LET j == attempts[i].job IN
                       /\ jobs[j].state = "running"
                       /\ i = Max(AttemptsOf(j)) /\ OpenOf(j) = {i}
                       /\ \A w \in Worker : wk[w].pc = "ask" /\ wk[w].attempt = i => Owned(w)
    BY DEF OpenIsCurrent
  <2>. PICK j : j = attempts[i].job
    OBVIOUS
  <2>1. j \in Job
    <3>1. attempts \in Seq(Attempt)
      BY <1>1 DEF IInv, Typed
    <3>2. attempts[i] \in Attempt
      BY <3>1
    <3>. QED
      BY <3>2 DEF Attempt
  <2>2. i \in AttemptsOf(j) /\ i \in OpenOf(j)
    BY DEF AttemptsOf, OpenOf
  <2>3. jobs[j].state = "running" /\ \A k \in AttemptsOf(j) : k <= i
    BY <1>1, <2>1, <2>2 DEF IInv, Sound, OpenIsLast
  <2>4. OpenOf(j) = {i}
    BY <1>1, <2>1, <2>2, <2>3, OnlyTheLastIsOpen
  <2>5. i = Max(AttemptsOf(j))
    <3>1. PICK S : S = AttemptsOf(j)
      OBVIOUS
    <3>2. S \subseteq Nat /\ i \in S /\ \A k \in S : i >= k
      BY <1>1, <2>2, <2>3, <3>1, AttemptNumbers
    <3>3. ASSUME NEW m \in S, \A k \in S : m >= k PROVE m = i
      <4>1. m \in Nat /\ i \in Nat /\ m >= i /\ i >= m
        BY <3>2, <3>3
      <4>. QED
        BY <4>1
    <3>4. i = Max(S)
      BY <3>2, <3>3 DEF Max
    <3>. QED
      BY <3>1, <3>4
  <2>6. ASSUME NEW w \in Worker, wk[w].pc = "ask", wk[w].attempt = i PROVE Owned(w)
    BY <1>1, <2>6 DEF IInv, Works, At
  <2>. QED
    BY <2>3, <2>4, <2>5, <2>6
<1>. QED
  BY <1>1, InvariantHolds, PTL

\* A job has one summary exactly when it was served, that of the one attempt that ended well
\* or one without an attempt; its attempts are counted, and they are not more than allowed.
THEOREM PublishedIsEarnedHolds == Spec => []PublishedIsEarned
<1>1. ASSUME IInv PROVE PublishedIsEarned
  <2>. SUFFICES ASSUME NEW j \in Job
                PROVE  /\ jobs[j].state = "served" =>
                             Cardinality(Own(j)) = 1 /\ (Own(j) = {ByRule} => Good(j) = {})
                       /\ jobs[j].state # "served" => Own(j) = {}
                       /\ Own(j) \ {ByRule} = Good(j)
                       /\ Cardinality(AttemptsOf(j)) = jobs[j].tries
                       /\ jobs[j].tries <= MaxAttempts
    BY DEF PublishedIsEarned, Own, Good
  <2>1. Sound(j)
    BY <1>1 DEF IInv
  <2>2. Good(j) \subseteq Nat \ {0}
    BY <1>1, AttemptNumbers DEF Good
  <2>3. CASE jobs[j].state = "served"
    <3>1. PICK i : Own(j) = {i} /\ \/ i = ByRule /\ Good(j) = {}
                                   \/ Good(j) = {i}
      BY <2>1, <2>3 DEF Sound, Earned, Served
    <3>2. Cardinality({i}) = 1
      BY FS_Singleton
    <3>3. Good(j) = {i} => i # ByRule
      BY <2>2 DEF ByRule
    <3>. QED
      BY <2>1, <2>3, <3>1, <3>2, <3>3 DEF Sound, Counted
  <2>4. CASE jobs[j].state # "served"
    BY <2>1, <2>4 DEF Sound, Earned, Counted
  <2>. QED
    BY <2>3, <2>4
<1>. QED
  BY <1>1, InvariantHolds, PTL

-----------------------------------------------------------------------------
(* The quota.  What a window has taken only shrinks but when a request is admitted, and the *)
(* admission has counted all that the window holds then.  A request that may be under way   *)
(* is the last one, because none is admitted while it is.                                   *)

WithinLimits ==
    \A w \in Window : /\ Cardinality(Recent(w.span)) <= w.requests
                      /\ SumFunctionOnSet(Amount, Recent(w.span)) <= w.tokens
YoungIsLast ==
    \A i \in DOMAIN attempts : attempts[i].outcome = Open /\ attempts[i].age < Lease =>
        i = Len(attempts)
QInv == WithinLimits /\ YoungIsLast

\* No attempt is new, opened again, or back in a window.
Ageing ==
    /\ DOMAIN attempts' = DOMAIN attempts
    /\ \A i \in DOMAIN attempts :
          /\ attempts'[i].job = attempts[i].job
          /\ attempts'[i].outcome = Open => attempts[i].outcome = Open
          /\ \A n \in 1..Day : attempts'[i].age < n => attempts[i].age < n

LEMMA Numbers ==
    /\ Window \subseteq [span : 1..Day, tokens : Nat, requests : Nat]
    /\ Lease \in 1..Day /\ Day \in Nat /\ Cost \in [Job -> Nat]
BY Zenon, SummariesAssumption

LEMMA AmountsAreNat ==
    ASSUME Typed
    PROVE  /\ DOMAIN attempts = 1..Len(attempts) /\ Len(attempts) \in Nat
           /\ IsFiniteSet(DOMAIN attempts)
           /\ \A i \in DOMAIN attempts : attempts[i] \in Attempt /\ Amount[i] \in Nat
<1>1. attempts \in Seq(Attempt)
  BY DEF Typed
<1>2. DOMAIN attempts = 1..Len(attempts) /\ Len(attempts) \in Nat
  BY <1>1
<1>3. \A i \in DOMAIN attempts : attempts[i] \in Attempt
  BY <1>1
<1>4. IsFiniteSet(DOMAIN attempts)
  BY <1>2, FS_Interval
<1>. QED
  BY <1>2, <1>3, <1>4, Numbers DEF Amount, Attempt

LEMMA AgeingIsSafe ==
    ASSUME Typed, Typed', QInv, Ageing
    PROVE  QInv'
<1>1. /\ DOMAIN attempts = 1..Len(attempts) /\ Len(attempts) \in Nat
      /\ IsFiniteSet(DOMAIN attempts)
      /\ \A i \in DOMAIN attempts : attempts[i] \in Attempt /\ Amount[i] \in Nat
  BY AmountsAreNat
<1>2. attempts' \in Seq(Attempt)
  BY DEF Typed
<1>3. Len(attempts') = Len(attempts)
  <2>1. DOMAIN attempts' = 1..Len(attempts') /\ Len(attempts') \in Nat
    BY <1>2
  <2>. QED
    BY <1>1, <2>1 DEF Ageing
<1>4. YoungIsLast'
  BY <1>3, Numbers DEF QInv, YoungIsLast, Ageing
<1>5. ASSUME NEW w \in Window
      PROVE  /\ Cardinality(Recent(w.span))' <= w.requests
             /\ SumFunctionOnSet(Amount, Recent(w.span))' <= w.tokens
  <2>1. w.span \in 1..Day /\ w.tokens \in Nat /\ w.requests \in Nat
    BY Numbers
  <2>. PICK S, T, f, g : S = Recent(w.span) /\ T = Recent(w.span)' /\ f = Amount /\ g = Amount'
    OBVIOUS
  <2>2. T \subseteq S /\ S \subseteq DOMAIN attempts
    BY <2>1 DEF Ageing, Recent
  <2>3. \A i \in DOMAIN attempts : g[i] = f[i] /\ f[i] \in Nat
    BY <1>1 DEF Ageing, Amount
  <2>4. IsFiniteSet(S) /\ IsFiniteSet(T)
    BY <1>1, <2>2, FS_Subset
  <2>5. \A i \in T : g[i] \in Nat /\ g[i] <= f[i]
    BY <2>2, <2>3
  <2>6. \A i \in S : f[i] \in Nat
    BY <2>2, <2>3
  <2>7. SumFunctionOnSet(g, T) <= SumFunctionOnSet(f, S)
    BY <2>2, <2>4, <2>5, <2>6, SumIsMonotone
  <2>8. /\ SumFunctionOnSet(g, T) \in Nat /\ SumFunctionOnSet(f, S) \in Nat
        /\ SumFunctionOnSet(f, S) <= w.tokens
    BY <2>4, <2>5, <2>6, SumType DEF QInv, WithinLimits
  <2>9. /\ Cardinality(T) <= Cardinality(S) /\ Cardinality(T) \in Nat /\ Cardinality(S) \in Nat
        /\ Cardinality(S) <= w.requests
    BY <2>2, <2>4, FS_Subset, FS_CardinalityType DEF QInv, WithinLimits
  <2>. QED
    BY <2>1, <2>7, <2>8, <2>9
<1>. QED
  BY <1>4, <1>5 DEF QInv, WithinLimits

LEMMA AbandonedIsAgeing ==
    ASSUME Typed, NEW I, attempts' = Abandoned(I)
    PROVE  Ageing
<1>1. \A i \in DOMAIN attempts : attempts[i] \in Attempt
  BY AmountsAreNat
<1>2. ASSUME NEW i \in DOMAIN attempts
      PROVE  /\ attempts'[i].job = attempts[i].job /\ attempts'[i].age = attempts[i].age
             /\ attempts'[i].outcome = Open => attempts[i].outcome = Open
  <2>1. attempts'[i] = IF i \in I THEN [attempts[i] EXCEPT !.outcome = "abandoned"]
                       ELSE attempts[i]
    BY DEF Abandoned
  <2>. QED
    BY <1>1, <2>1 DEF Attempt, Open
<1>3. DOMAIN attempts' = DOMAIN attempts
  BY DEF Abandoned
<1>. QED
  BY <1>2, <1>3 DEF Ageing

LEMMA ClosedIsAgeing ==
    ASSUME Typed, NEW w \in Worker, NEW outcome \in Outcome \ {Open}, NEW over, NEW h,
           Closed(w, outcome, over, h)
    PROVE  Ageing
<1>. PICK n : n = wk[w].attempt
  OBVIOUS
<1>1. \A i \in DOMAIN attempts : attempts[i] \in Attempt
  BY AmountsAreNat
<1>2. attempts' = [attempts EXCEPT ![n] = [attempts[n] EXCEPT !.outcome = outcome, !.over = over]]
  BY DEF Closed
<1>3. DOMAIN attempts' = DOMAIN attempts
  BY <1>2
<1>4. ASSUME NEW i \in DOMAIN attempts
      PROVE  /\ attempts'[i].job = attempts[i].job /\ attempts'[i].age = attempts[i].age
             /\ attempts'[i].outcome = Open => attempts[i].outcome = Open
  <2>1. CASE i = n
    <3>1. attempts'[i] = [attempts[i] EXCEPT !.outcome = outcome, !.over = over]
      BY <1>2, <2>1
    <3>. QED
      BY <1>1, <3>1 DEF Attempt
  <2>2. CASE i # n
    BY <1>2, <2>2
  <2>. QED
    BY <2>1, <2>2
<1>. QED
  BY <1>3, <1>4 DEF Ageing

LEMMA SameIsAgeing ==
    ASSUME attempts' = attempts
    PROVE  Ageing
BY DEF Ageing

LEMMA TickIsAgeing ==
    ASSUME Typed, Tick
    PROVE  Ageing
<1>1. attempts' = [i \in DOMAIN attempts |-> [attempts[i] EXCEPT !.age = Up(attempts[i].age)]]
  BY DEF Tick
<1>2. \A i \in DOMAIN attempts : attempts[i] \in Attempt
  BY AmountsAreNat
<1>3. ASSUME NEW i \in DOMAIN attempts
      PROVE  /\ attempts'[i].job = attempts[i].job /\ attempts'[i].age = Up(attempts[i].age)
             /\ attempts'[i].outcome = attempts[i].outcome /\ attempts[i].age \in Nat
  BY <1>1, <1>2 DEF Attempt
<1>4. \A a \in Nat : \A n \in 1..Day : Up(a) < n => a < n
  BY Numbers DEF Up
<1>5. DOMAIN attempts' = DOMAIN attempts
  BY <1>1
<1>. QED
  BY <1>3, <1>4, <1>5 DEF Ageing

\* What an admission has made sure of.
LEMMA WindowHasRoom ==
    ASSUME Typed, NEW span, NEW cost, NEW limit \in Nat, NEW incoming \in Nat,
           \A i \in DOMAIN attempts : cost[i] \in Nat,
           WindowWait(span, cost, limit, incoming) = {}
    PROVE  SumFunctionOnSet(cost, Recent(span)) + incoming <= limit
<1>. PICK used : used = SumFunctionOnSet(cost, Recent(span))
  OBVIOUS
<1>1. used \in Nat
  <2>1. IsFiniteSet(DOMAIN attempts) /\ Recent(span) \subseteq DOMAIN attempts
    BY AmountsAreNat DEF Recent
  <2>2. IsFiniteSet(Recent(span)) /\ \A i \in Recent(span) : cost[i] \in Nat
    BY <2>1, FS_Subset
  <2>. QED
    BY <2>2, SumType
<1>2. used + incoming - limit <= 0
  BY DEF WindowWait
<1>. QED
  BY <1>1, <1>2

LEMMA LatestBlocks == \A j : \A n \in LatestWait : n > 0 => n \in Blocks(j)
BY DEF Blocks

LEMMA AdmittedKeepsQuota ==
    ASSUME Typed, Typed', QInv, NEW w \in Worker, Admitted(w), wk[w].job \in Job
    PROVE  QInv'
<1>. PICK j : j = wk[w].job
  OBVIOUS
<1>. PICK n, a : /\ n = Len(attempts) + 1
                 /\ a = [job |-> j, age |-> 0, outcome |-> Open, over |-> FALSE]
  OBVIOUS
<1>1. Blocks(j) = {} /\ attempts' = Append(attempts, a) /\ j \in Job
  BY DEF Admitted
<1>2. /\ DOMAIN attempts = 1..Len(attempts) /\ Len(attempts) \in Nat
      /\ IsFiniteSet(DOMAIN attempts)
      /\ \A i \in DOMAIN attempts : attempts[i] \in Attempt /\ Amount[i] \in Nat
  BY AmountsAreNat
<1>3. /\ Len(attempts') = n /\ attempts'[n] = a /\ n \notin DOMAIN attempts
      /\ DOMAIN attempts' = DOMAIN attempts \cup {n}
      /\ \A i \in DOMAIN attempts : attempts'[i] = attempts[i]
  <2>1. attempts \in Seq(Attempt)
    BY DEF Typed
  <2>2. DOMAIN attempts = 1..Len(attempts) /\ Len(attempts) \in Nat
    BY <1>2
  <2>. QED
    BY <1>1, <2>1, <2>2
<1>4. a.job = j /\ a.age = 0 /\ a.outcome = Open
  OBVIOUS
<1>5. YoungIsLast'
  <2>1. ASSUME NEW i \in DOMAIN attempts, attempts[i].outcome = Open, attempts[i].age < Lease
        PROVE  FALSE
    <3>1. i = Len(attempts) /\ attempts # <<>>
      BY <1>2, <2>1 DEF QInv, YoungIsLast
    <3>2. Last(attempts) = attempts[i]
      BY <3>1 DEF Last
    <3>3. attempts[i].age \in Nat /\ attempts[i].age < Day
      BY <1>2, <2>1, Numbers DEF Attempt
    <3>4. 1 \in LatestWait
      BY <2>1, <3>1, <3>2, <3>3, Numbers DEF LatestWait
    <3>5. 1 \in Blocks(j)
      BY <3>4, LatestBlocks
    <3>. QED
      BY <1>1, <3>5
  <2>. QED
    BY <1>3, <2>1 DEF YoungIsLast
<1>6. ASSUME NEW win \in Window
      PROVE  /\ Cardinality(Recent(win.span))' <= win.requests
             /\ SumFunctionOnSet(Amount, Recent(win.span))' <= win.tokens
  <2>1. win.span \in 1..Day /\ win.tokens \in Nat /\ win.requests \in Nat /\ Cost[j] \in Nat
    BY <1>1, Numbers
  <2>. PICK S, T, f, g, ones : /\ S = Recent(win.span) /\ T = Recent(win.span)'
                               /\ f = Amount /\ g = Amount' /\ ones = One
    OBVIOUS
  <2>2. T = S \cup {n} /\ S \subseteq DOMAIN attempts /\ n \notin S
    BY <1>3, <1>4, <2>1 DEF Recent
  <2>3. /\ \A i \in DOMAIN attempts : g[i] = f[i] /\ f[i] \in Nat /\ ones[i] = 1
        /\ g[n] = Cost[j]
    BY <1>2, <1>3, <1>4 DEF Amount, One
  <2>4. IsFiniteSet(S)
    BY <1>2, <2>2, FS_Subset
  <2>5. /\ WindowWait(win.span, Amount, win.tokens, Cost[j]) = {}
        /\ WindowWait(win.span, One, win.requests, 1) = {}
    <3>. DEFINE R == {WindowWait(w1.span, Amount, w1.tokens, Cost[j])
                        \cup WindowWait(w1.span, One, w1.requests, 1) : w1 \in Window}
    <3>1. UNION R = {}
      BY <1>1, Zenon DEF Blocks
    <3>2. WindowWait(win.span, Amount, win.tokens, Cost[j])
             \cup WindowWait(win.span, One, win.requests, 1) \in R
      OBVIOUS
    <3>3. \A X \in R : X = {}
      BY <3>1
    <3>. HIDE DEF R
    <3>. QED
      BY <3>2, <3>3, Zenon
  <2>6. SumFunctionOnSet(f, S) + Cost[j] <= win.tokens
    BY <1>2, <2>1, <2>5, WindowHasRoom
  <2>7. SumFunctionOnSet(ones, S) + 1 <= win.requests
    BY <2>1, <2>3, <2>5, WindowHasRoom
  <2>8. Cardinality(T) <= win.requests
    <3>1. SumFunctionOnSet(ones, S) = Cardinality(S)
      BY <2>2, <2>3, <2>4, SumOfOnes
    <3>2. Cardinality(T) = Cardinality(S) + 1
      BY <2>2, <2>4, FS_AddElement
    <3>. QED
      BY <2>7, <3>1, <3>2
  <2>9. SumFunctionOnSet(g, T) <= win.tokens
    <3>1. \A i \in S : g[i] \in Nat /\ f[i] \in Nat /\ g[i] <= f[i]
      BY <2>2, <2>3
    <3>2. SumFunctionOnSet(g, S) <= SumFunctionOnSet(f, S)
      BY <2>4, <3>1, SumIsMonotone
    <3>3. SumFunctionOnSet(g, S \cup {n}) = g[n] + SumFunctionOnSet(g, S)
      BY <2>1, <2>2, <2>3, <2>4, <3>1, SumOfAdded
    <3>4. SumFunctionOnSet(g, S) \in Nat /\ SumFunctionOnSet(f, S) \in Nat
      BY <2>4, <3>1, SumType
    <3>. PICK s, t, u : /\ s = SumFunctionOnSet(f, S) /\ t = SumFunctionOnSet(g, S)
                        /\ u = SumFunctionOnSet(g, S \cup {n})
      OBVIOUS
    <3>5. s + Cost[j] <= win.tokens /\ t <= s /\ u = Cost[j] + t /\ s \in Nat /\ t \in Nat
      BY <2>3, <2>6, <3>2, <3>3, <3>4
    <3>6. u <= win.tokens
      BY <2>1, <3>5
    <3>. QED
      BY <2>2, <3>6, Zenon
  <2>. QED
    BY <2>8, <2>9
<1>. QED
  BY <1>5, <1>6 DEF QInv, WithinLimits

LEMMA QuotaIsSafe == IInv /\ IInv' /\ QInv /\ [Next]_vars => QInv'
<1>. SUFFICES ASSUME IInv, IInv', QInv, [Next]_vars PROVE QInv'
  OBVIOUS
<1>1. Typed /\ Typed'
  BY DEF IInv
<1>2. ASSUME NEW w \in Worker, Step(w) PROVE QInv'
  <2>1. CASE \E I : attempts' = Abandoned(I)
    BY <1>1, <2>1, AbandonedIsAgeing, AgeingIsSafe
  <2>2. CASE attempts' = attempts
    BY <1>1, <2>2, SameIsAgeing, AgeingIsSafe
  <2>3. CASE \E outcome \in Outcome \ {Open} : \E over, h : Closed(w, outcome, over, h)
    BY <1>1, <2>3, ClosedIsAgeing, AgeingIsSafe
  <2>4. CASE Admitted(w)
    <3>1. wk[w].job \in Job
      BY <2>4, JobOfWorker DEF Admitted, At
    <3>. QED
      BY <1>1, <2>4, <3>1, AdmittedKeepsQuota
  <2>5. ClaimedSummary(w) => \E I : attempts' = Abandoned(I)
    BY DEF ClaimedSummary, ClaimSummary
  <2>6. ClaimedReview(w) => (\E I : attempts' = Abandoned(I)) \/ attempts' = attempts
    BY DEF ClaimedReview
  <2>7. ClaimedNothing(w) => \E I : attempts' = Abandoned(I)
    BY DEF ClaimedNothing
  <2>8. NotAdmitted(w) \/ ByTheRule(w) \/ LocalFailure(w) \/ Delayed(w) => attempts' = attempts
    BY DEF NotAdmitted, ByTheRule, LocalFailure, Delayed
  <2>9. "failed" \in Outcome \ {Open} /\ "served" \in Outcome \ {Open}
    BY DEF Outcome, Open
  <2>10. AnswerFails(w) \/ AnswerServes(w) =>
            \E outcome \in Outcome \ {Open} : \E over, h : Closed(w, outcome, over, h)
    BY <2>9 DEF AnswerFails, AnswerServes
  <2>11. AnswerDropped(w) => (\E I : attempts' = Abandoned(I)) \/ attempts' = attempts
    BY DEF AnswerDropped
  <2>. QED
    BY <1>2, <2>1, <2>2, <2>3, <2>4, <2>5, <2>6, <2>7, <2>8, <2>10, <2>11 DEF Step
<1>3. ASSUME NEW w \in Worker, Crash(w) PROVE QInv'
  BY <1>1, <1>3, SameIsAgeing, AgeingIsSafe DEF Crash
<1>4. CASE Tick
  BY <1>1, <1>4, TickIsAgeing, AgeingIsSafe
<1>5. CASE UNCHANGED vars
  BY <1>1, <1>5, SameIsAgeing, AgeingIsSafe DEF vars
<1>. QED
  BY <1>2, <1>3, <1>4, <1>5 DEF Next

LEMMA NothingIsTaken == Init => QInv
<1>. SUFFICES ASSUME Init PROVE QInv
  OBVIOUS
<1>1. DOMAIN attempts = {}
  BY DEF Init
<1>2. YoungIsLast
  BY <1>1 DEF YoungIsLast
<1>3. ASSUME NEW w \in Window
      PROVE  /\ Cardinality(Recent(w.span)) <= w.requests
             /\ SumFunctionOnSet(Amount, Recent(w.span)) <= w.tokens
  <2>1. Recent(w.span) = {} /\ w.tokens \in Nat /\ w.requests \in Nat
    BY <1>1, Numbers DEF Recent
  <2>. PICK f, S : f = Amount /\ S = Recent(w.span)
    OBVIOUS
  <2>2. SumFunctionOnSet(f, S) = Cardinality(S)
    BY <2>1, FS_EmptySet, SumOfOnes
  <2>3. Cardinality(S) = 0
    BY <2>1, FS_EmptySet
  <2>. QED
    BY <2>1, <2>2, <2>3
<1>. QED
  BY <1>2, <1>3 DEF QInv, WithinLimits

\* In no window has the provider been sent more requests, or reserved more tokens, than it
\* allows, and requests that may still be under way never overlap.
THEOREM QuotaKeptHolds == Spec => []QuotaKept
<1>1. IInv /\ QInv => QuotaKept
  <2>. SUFFICES ASSUME IInv, QInv PROVE QuotaKept
    OBVIOUS
  <2>1. \A w \in Window : LET recent == {i \in DOMAIN attempts : attempts[i].age < w.span} IN
           /\ Cardinality(recent) <= w.requests
           /\ SumFunctionOnSet(Amount, recent) <= w.tokens
    BY DEF QInv, WithinLimits, Recent
  <2>. DEFINE Young == {i \in DOMAIN attempts : attempts[i].outcome = Open /\ attempts[i].age < Lease}
  <2>2. Young \subseteq {Len(attempts)}
    BY DEF QInv, YoungIsLast
  <2>3. Cardinality(Young) <= 1
    <3>1. IsFiniteSet({Len(attempts)}) /\ Cardinality({Len(attempts)}) = 1
      BY FS_Singleton
    <3>. QED
      BY <2>2, <3>1, FS_Subset
  <2>. QED
    BY <2>1, <2>3 DEF QuotaKept
<1>. QED
  BY <1>1, NothingIsTaken, QuotaIsSafe, InvariantHolds, PTL DEF Spec

------------------------------------------------------------------------------
(* SummaryAnswer: what is kept of an answer.                                 *)

\* A list may have an item, reviews are numbered from 1, and sizes are numbers.
AnsSettings == /\ Items \subseteq [claim : STRING, cites : Nat \ {0}] /\ MaxItems \in Nat \ {0}
               /\ MaxReviews \in Nat /\ Raw \subseteq Nat /\ Guard \in Nat /\ PromptLimit \in Nat
               /\ Completion \in Nat /\ MaxWait \in Nat

-----------------------------------------------------------------------------
(* The invariant: what is taken is settled by the step that makes the summary.   *)

Prepared == [reviews : 1..MaxReviews, guarded : Nat, reserved : Nat]
Asked == /\ request \in Prepared /\ request.reserved <= PromptLimit + Completion
         /\ said = Ans!Nothing /\ summary = Ans!Nothing
AnsInv == /\ Ans!SummaryAnswerKept
          /\ \/ request = Ans!Nothing /\ said = Ans!Nothing /\ summary = Ans!Nothing
             \/ Asked
             \/ request # Ans!Nothing /\ summary # Ans!Nothing

\* A list is a sequence of items, of which the first ones are taken.
Item     == Items \cup {[claim |-> "not a list", cites |-> 0]}
ItemList == Seq(Item)
LEMMA AnsLists ==
    ASSUME AnsSettings, NEW list \in Ans!Lists, NEW taken, taken = Ans!Shortened(list)
    PROVE  /\ list \in ItemList /\ taken \in ItemList
           /\ Len(taken) = IF Len(list) > MaxItems THEN MaxItems ELSE Len(list)
           /\ \A i \in 1..Len(taken) : taken[i] = list[i]
           /\ \A i \in 1..Len(list) : list[i].claim = "fits" => list[i].cites \in Nat \ {0}
<1>1. /\ list \in ItemList
      /\ \A i \in 1..Len(list) : list[i].claim = "fits" => list[i].cites \in Nat \ {0}
  <2>1. CASE list = Ans!NotAList
    <3>1. PICK item : item = [claim |-> "not a list", cites |-> 0] /\ list = <<item>>
      BY <2>1 DEF Ans!NotAList
    <3>2. item \in Item /\ item.claim # "fits"
      <4>1. item.claim = "not a list" /\ item.cites = 0
        BY <3>1
      <4>2. item \in Item
        BY <3>1 DEF Item
      <4>. QED
        BY <4>1, <4>2
    <3>3. <<item>> \in Seq(Item) /\ Len(<<item>>) = 1 /\ <<item>>[1] = item
      BY <3>2
    <3>4. list \in ItemList /\ Len(list) = 1 /\ list[1] = item
      BY <3>1, <3>3 DEF ItemList
    <3>5. \A i \in 1..Len(list) : i = 1
      BY <3>4
    <3>. QED
      BY <3>2, <3>4, <3>5
  <2>2. CASE \E n \in 0..(MaxItems + 1) : list \in [1..n -> Items]
    <3>1. PICK n \in 0..(MaxItems + 1) : list \in [1..n -> Items]
      BY <2>2
    <3>2. n \in Nat
      BY DEF AnsSettings
    <3>3. list \in Seq(Items)
      BY <3>1, <3>2
    <3>4. \A i \in 1..Len(list) : list[i] \in Items
      BY <3>3
    <3>5. Items \subseteq Item
      BY DEF Item
    <3>6. DOMAIN list = 1..n /\ \A i \in 1..n : list[i] \in Item
      BY <3>1, <3>5
    <3>7. list \in [1..n -> Item]
      BY <3>1, <3>6
    <3>8. list \in ItemList
      BY <3>2, <3>7 DEF ItemList
    <3>. QED
      BY <3>4, <3>8 DEF AnsSettings
  <2>. QED
    BY <2>1, <2>2 DEF Ans!Lists
<1>2. taken = IF Len(list) > MaxItems THEN SubSeq(list, 1, MaxItems) ELSE list
  BY DEF Ans!Shortened, Ans!Long
<1>3. Len(list) \in Nat /\ MaxItems \in Nat
  BY <1>1 DEF ItemList, AnsSettings
<1>4. CASE Len(list) > MaxItems
  <2>1. taken = SubSeq(list, 1, MaxItems)
    BY <1>2, <1>4
  <2>2. \A i \in 1..Len(list) : list[i] \in Item
    BY <1>1 DEF ItemList
  <2>3. taken = [i \in 1..MaxItems |-> list[i]]
    BY <1>1, <1>3, <1>4, <2>1 DEF ItemList
  <2>4. \A i \in 1..MaxItems : list[i] \in Item
    BY <1>3, <1>4, <2>2
  <2>5. taken \in [1..MaxItems -> Item]
    BY <2>3, <2>4
  <2>6. taken \in ItemList /\ Len(taken) = MaxItems
    BY <1>3, <2>5 DEF ItemList
  <2>. QED
    BY <1>1, <1>3, <1>4, <2>3, <2>6
<1>5. CASE ~(Len(list) > MaxItems)
  BY <1>1, <1>2, <1>3, <1>5
<1>. QED
  BY <1>1, <1>4, <1>5

\* A list that agrees with the beginning of another is a prefix of it.
LEMMA PrefixOfFirst ==
    ASSUME NEW S, NEW s \in Seq(S), NEW t \in Seq(S), Len(s) <= Len(t), \A i \in 1..Len(s) : s[i] = t[i]
    PROVE  Ans!IsPrefix(s, t)
<1>1. Len(s) \in Nat /\ Len(t) \in Nat
  OBVIOUS
<1>2. SubSeq(s, 1, Len(s)) = [i \in 1..Len(s) |-> s[i]] /\ SubSeq(t, 1, Len(s)) = [i \in 1..Len(s) |-> t[i]]
  BY <1>1
<1>. QED
  BY <1>1, <1>2 DEF Ans!IsPrefix

\* What there is is not nothing.
LEMMA AnsNothing ==
    /\ \A what : Ans!Error(what) # Ans!Nothing
    /\ \A o, e, c, u : Ans!Result(o, e, c, u) # Ans!Nothing
    /\ \A p \in Prepared : p # Ans!Nothing
BY DEF Ans!Nothing, Ans!Error, Ans!Result, Prepared

LEMMA AnsPrepare ==
    ASSUME AnsSettings, AnsInv, Ans!Prepare
    PROVE  AnsInv'
<1>1. PICK n \in 1..MaxReviews, raw \in Raw :
         /\ request' = Ans!Measured(n, raw)
         /\ IF raw + Guard > PromptLimit THEN summary' = Ans!Error("prompt_budget_exceeded") ELSE UNCHANGED summary
  BY DEF Ans!Prepare
<1>2. said = Ans!Nothing /\ said' = Ans!Nothing /\ summary = Ans!Nothing
  BY AnsNothing DEF Ans!Prepare, AnsInv, Asked
<1>3. PICK p : p = request' /\ p = [reviews |-> n, guarded |-> raw + Guard, reserved |-> raw + Guard + Completion]
  BY <1>1 DEF Ans!Measured
<1>4. raw \in Nat /\ Guard \in Nat /\ Completion \in Nat /\ PromptLimit \in Nat
  BY DEF AnsSettings
<1>5. p \in Prepared /\ p # Ans!Nothing
  BY <1>3, <1>4, AnsNothing DEF Prepared
<1>6. CASE raw + Guard > PromptLimit
  <2>1. PICK r : r = summary' /\ r = [kind |-> "error", name |-> "prompt_budget_exceeded", wait |-> -1]
    BY <1>1, <1>6 DEF Ans!Error, Ans!NoValue
  <2>2. r # Ans!Nothing /\ r.kind = "error" /\ r.wait = Ans!NoValue
    BY <2>1 DEF Ans!Nothing, Ans!NoValue
  <2>3. Ans!SummaryAnswerKept'
    BY <1>2, <2>1, <2>2 DEF Ans!SummaryAnswerKept, Ans!PublishedWasSaid, Ans!LengthIsForgiven,
          Ans!SilenceIsSilent, Ans!WaitsAreBounded, Ans!SentFits, Ans!Told
  <2>. QED
    BY <1>3, <1>5, <2>1, <2>2, <2>3 DEF AnsInv
<1>7. CASE ~(raw + Guard > PromptLimit)
  <2>1. summary' = Ans!Nothing
    BY <1>1, <1>2, <1>7
  <2>2. Asked'
    BY <1>2, <1>3, <1>4, <1>5, <1>7, <2>1 DEF Asked
  <2>3. Ans!SummaryAnswerKept'
    BY <1>2, <2>1 DEF Ans!SummaryAnswerKept, Ans!PublishedWasSaid, Ans!LengthIsForgiven,
          Ans!SilenceIsSilent, Ans!WaitsAreBounded, Ans!SentFits, Ans!Told
  <2>. QED
    BY <2>2, <2>3 DEF AnsInv
<1>. QED
  BY <1>6, <1>7

\* The steps that are taken once the request is sent.
LEMMA AnsSent ==
    ASSUME AnsInv, Ans!Sent
    PROVE  Asked /\ request # Ans!Nothing
BY DEF AnsInv, Ans!Sent

\* An answer that is none brings no summary, and its wait is bounded.
LEMMA AnsNoAnswer ==
    ASSUME AnsSettings, AnsInv, Ans!PostFails \/ Ans!Unparseable
    PROVE  AnsInv'
<1>1. Asked /\ request # Ans!Nothing /\ request' = request
  BY AnsSent DEF Ans!PostFails, Ans!Unparseable
<1>2. PICK s, r : s = said' /\ r = summary'
  OBVIOUS
<1>3. /\ "likes" \notin DOMAIN s /\ r # Ans!Nothing
      /\ r.kind = "result" => r.output = Ans!Nothing
      /\ r.kind = "error" => r.wait \in {Ans!NoValue} \cup 0..MaxWait
  <2>1. CASE \E what \in {"connection failed", "unexpected body"} : s = [broken |-> what] /\ r = Ans!Error(what)
    <3>1. PICK what : s = [broken |-> what] /\ r = [kind |-> "error", name |-> what, wait |-> Ans!NoValue]
      BY <2>1 DEF Ans!Error
    <3>. QED
      BY <3>1 DEF Ans!Nothing
  <2>2. CASE \E header \in Ans!Headers :
                s = [retryAfter |-> header] /\ r = [Ans!Error("http") EXCEPT !.wait = Ans!WaitOf(header)]
    <3>1. PICK header \in Ans!Headers :
                s = [retryAfter |-> header] /\ r = [Ans!Error("http") EXCEPT !.wait = Ans!WaitOf(header)]
      BY <2>2
    <3>2. PICK wait : wait = Ans!WaitOf(header)
      OBVIOUS
    <3>3. r = [kind |-> "error", name |-> "http", wait |-> wait]
      BY <3>1, <3>2 DEF Ans!Error
    <3>4. header.n \in Int /\ MaxWait \in Nat
      <4>1. MaxWait \in Nat
        BY DEF AnsSettings
      <4>2. CASE header \in [is : {"absent", "not a number", "not finite"}, n : {0}]
        <5>1. header.n \in {0}
          BY <4>2
        <5>. QED
          BY <4>1, <5>1
      <4>3. CASE header \in [is : {"number"}, n : {-2, 0, 1, MaxWait, MaxWait + 1}]
        <5>1. header.n \in {-2, 0, 1, MaxWait, MaxWait + 1}
          BY <4>3
        <5>. QED
          BY <4>1, <5>1
      <4>. QED
        BY <4>1, <4>2, <4>3 DEF Ans!Headers
    <3>5. wait \in {Ans!NoValue} \cup 0..MaxWait
      BY <3>2, <3>4 DEF Ans!WaitOf
    <3>. QED
      BY <3>1, <3>3, <3>5 DEF Ans!Nothing
  <2>3. CASE Ans!Unparseable
    <3>1. PICK usage, known : /\ s = [usage |-> usage]
                              /\ r = [kind |-> "result", output |-> Ans!Nothing, errors |-> TRUE, cut |-> FALSE,
                                      usage |-> known]
      BY <1>2, <2>3 DEF Ans!Unparseable, Ans!Result
    <3>. QED
      BY <3>1 DEF Ans!Nothing
  <2>. QED
    BY <1>2, <2>1, <2>2, <2>3 DEF Ans!PostFails
<1>4. ~Ans!Told'
  BY <1>2, <1>3 DEF Ans!Told
<1>5. Ans!SummaryAnswerKept'
  <2>1. Ans!LengthIsForgiven'
    BY <1>2, <1>3 DEF Ans!LengthIsForgiven
  <2>2. Ans!WaitsAreBounded'
    BY <1>2, <1>3 DEF Ans!WaitsAreBounded
  <2>3. Ans!SentFits'
    BY <1>1 DEF Ans!SentFits, Asked
  <2>. QED
    BY <1>4, <2>1, <2>2, <2>3 DEF Ans!SummaryAnswerKept, Ans!PublishedWasSaid, Ans!SilenceIsSilent
<1>. QED
  BY <1>1, <1>2, <1>3, <1>5 DEF AnsInv

LEMMA AnsAnswered ==
    ASSUME AnsSettings, AnsInv, Ans!Answered
    PROVE  AnsInv'
<1>1. Asked /\ request # Ans!Nothing /\ request' = request
  BY AnsSent DEF Ans!Answered
<1>2. PICK s, r, n : s = said' /\ r = summary' /\ n = request.reviews
  OBVIOUS
<1>3. s \in Ans!Answers /\ n \in Nat
  BY <1>1, <1>2 DEF Ans!Answered, Asked, Prepared, AnsSettings
<1>4. PICK likes, dislikes : likes = Ans!Shortened(s.likes) /\ dislikes = Ans!Shortened(s.dislikes)
  OBVIOUS
<1>5. PICK a : a = Ans!Normalized(s)
  OBVIOUS
<1>6. /\ a = [s EXCEPT !.likes = likes, !.dislikes = dislikes]
      /\ a.likes = likes /\ a.dislikes = dislikes /\ a.addressed = s.addressed /\ a.status = s.status
      /\ a.reason = s.reason /\ a["likes"] = likes /\ a["dislikes"] = dislikes
  BY <1>3, <1>4, <1>5 DEF Ans!Normalized, Ans!Answers
<1>7. PICK right : right = Ans!Valid(a, n)
  OBVIOUS
<1>8. PICK usage : r = [kind |-> "result", output |-> IF right THEN a ELSE Ans!Nothing, errors |-> ~right,
                        cut |-> Ans!Long(s.likes) \/ Ans!Long(s.dislikes), usage |-> usage]
  BY <1>2, <1>5, <1>7, Zenon DEF Ans!Answered, Ans!Result
<1>9. /\ r.kind = "result" /\ r.output = (IF right THEN a ELSE Ans!Nothing)
      /\ r.cut = (Ans!Long(s.likes) \/ Ans!Long(s.dislikes)) /\ r # Ans!Nothing
  BY <1>8 DEF Ans!Nothing
<1>10. s # Ans!Nothing /\ a # Ans!Nothing
  <2>1. \A x \in Ans!Answers : x # Ans!Nothing
    BY DEF Ans!Answers, Ans!Nothing
  <2>2. a \in [addressed : BOOLEAN, status : {"ok", "insufficient_data", "other"},
               likes : {likes}, dislikes : {dislikes}, reason : Ans!Reasons]
    BY <1>3, <1>6 DEF Ans!Answers
  <2>. QED
    BY <1>3, <2>1, <2>2 DEF Ans!Nothing
<1>11. (Ans!Told' <=> right) /\ (right => summary'.output = a)
  BY <1>2, <1>9, <1>10 DEF Ans!Told
<1>12. s.likes \in Ans!Lists /\ s.dislikes \in Ans!Lists
  BY <1>3 DEF Ans!Answers
<1>13. \A list, own :
          (list = likes /\ own = s.likes) \/ (list = dislikes /\ own = s.dislikes) =>
              /\ list \in ItemList /\ own \in ItemList
              /\ Len(list) = IF Len(own) > MaxItems THEN MaxItems ELSE Len(own)
              /\ \A i \in 1..Len(list) : list[i] = own[i]
              /\ \A i \in 1..Len(own) : own[i].claim = "fits" => own[i].cites \in Nat \ {0}
  <2>1. /\ s.likes \in ItemList /\ likes \in ItemList
        /\ Len(likes) = IF Len(s.likes) > MaxItems THEN MaxItems ELSE Len(s.likes)
        /\ \A i \in 1..Len(likes) : likes[i] = s.likes[i]
        /\ \A i \in 1..Len(s.likes) : s.likes[i].claim = "fits" => s.likes[i].cites \in Nat \ {0}
    BY <1>4, <1>12, AnsLists
  <2>2. /\ s.dislikes \in ItemList /\ dislikes \in ItemList
        /\ Len(dislikes) = IF Len(s.dislikes) > MaxItems THEN MaxItems ELSE Len(s.dislikes)
        /\ \A i \in 1..Len(dislikes) : dislikes[i] = s.dislikes[i]
        /\ \A i \in 1..Len(s.dislikes) : s.dislikes[i].claim = "fits" => s.dislikes[i].cites \in Nat \ {0}
    BY <1>4, <1>12, AnsLists
  <2>. QED
    BY <2>1, <2>2, Zenon
<1>14. MaxItems \in Nat \ {0}
  BY DEF AnsSettings
<1>15. Ans!PublishedWasSaid'
  <2>1. SUFFICES ASSUME right,
                        NEW field \in {"likes", "dislikes"}, NEW shown, shown = a[field], NEW own, own = s[field]
                 PROVE  /\ Ans!IsPrefix(shown, own)
                        /\ Len(shown) < Len(own) => Len(shown) = MaxItems /\ summary'.cut
                        /\ \A i \in DOMAIN shown : shown[i].cites <= n
    BY <1>1, <1>2, <1>11, Zenon DEF Ans!PublishedWasSaid
  <2>2. (shown = likes /\ own = s.likes) \/ (shown = dislikes /\ own = s.dislikes)
    BY <1>3, <1>6, <2>1 DEF Ans!Answers
  <2>3. /\ shown \in ItemList /\ own \in ItemList
        /\ Len(shown) = IF Len(own) > MaxItems THEN MaxItems ELSE Len(own)
        /\ \A i \in 1..Len(shown) : shown[i] = own[i]
    BY <1>13, <2>2
  <2>4. /\ Len(shown) \in Nat /\ Len(own) \in Nat /\ DOMAIN shown = 1..Len(shown)
        /\ Len(shown) <= Len(own)
    BY <1>14, <2>3 DEF ItemList
  <2>5. Ans!IsPrefix(shown, own)
    BY <2>3, <2>4, PrefixOfFirst DEF ItemList
  <2>6. Len(shown) < Len(own) => Len(shown) = MaxItems /\ summary'.cut
    <3>1. Len(own) > MaxItems => summary'.cut
      BY <1>2, <1>9, <2>2 DEF Ans!Long
    <3>. QED
      BY <1>14, <2>3, <2>4, <3>1
  <2>7. Ans!ListIsRight(shown, n)
    BY <1>6, <1>7, <2>1, <2>2 DEF Ans!Valid
  <2>8. \A i \in DOMAIN shown : shown[i].cites <= n
    BY <1>3, <2>7 DEF Ans!ListIsRight
  <2>. QED
    BY <2>5, <2>6, <2>8
<1>16. Ans!LengthIsForgiven'
  <2>1. PICK First : First = {s.likes[i] : i \in DOMAIN s.likes \cap 1..MaxItems}
                             \cup {s.dislikes[i] : i \in DOMAIN s.dislikes \cap 1..MaxItems}
    OBVIOUS
  <2>2. SUFFICES ASSUME s.addressed, s.status = "ok", s.reason = "null",
                        \A item \in First : item.claim = "fits" /\ item.cites <= n
                 PROVE  right
    BY <1>1, <1>2, <1>11, <2>1, Zenon DEF Ans!LengthIsForgiven
  <2>3. ASSUME NEW list \in {likes, dislikes}, NEW own,
               (list = likes /\ own = s.likes) \/ (list = dislikes /\ own = s.dislikes)
        PROVE  Ans!ListIsRight(list, n)
    <3>1. /\ list \in ItemList /\ own \in ItemList
          /\ Len(list) = IF Len(own) > MaxItems THEN MaxItems ELSE Len(own)
          /\ \A i \in 1..Len(list) : list[i] = own[i]
          /\ \A i \in 1..Len(own) : own[i].claim = "fits" => own[i].cites \in Nat \ {0}
      BY <1>13, <2>3
    <3>2. /\ Len(list) \in Nat /\ Len(own) \in Nat /\ DOMAIN list = 1..Len(list) /\ DOMAIN own = 1..Len(own)
          /\ Len(list) <= MaxItems /\ Len(list) <= Len(own)
      BY <1>14, <3>1 DEF ItemList
    <3>3. ASSUME NEW i \in DOMAIN list
          PROVE  list[i].claim = "fits" /\ list[i].cites \in 1..n
      <4>1. i \in DOMAIN own \cap 1..MaxItems /\ i \in 1..Len(own) /\ list[i] = own[i]
        BY <1>14, <3>1, <3>2
      <4>2. own[i] \in First
        BY <2>1, <2>3, <4>1
      <4>3. own[i].claim = "fits" /\ own[i].cites <= n
        BY <2>2, <4>2
      <4>4. own[i].cites \in Nat \ {0}
        BY <3>1, <4>1, <4>3
      <4>. QED
        BY <1>3, <4>1, <4>3, <4>4
    <3>. QED
      BY <3>2, <3>3 DEF Ans!ListIsRight
  <2>4. Ans!ListIsRight(a.likes, n) /\ Ans!ListIsRight(a.dislikes, n)
    BY <1>6, <2>3
  <2>. QED
    BY <1>6, <1>7, <2>2, <2>4 DEF Ans!Valid
<1>17. Ans!SilenceIsSilent'
  <2>1. SUFFICES ASSUME right, a.status = "insufficient_data"
                 PROVE  s.likes = <<>> /\ s.dislikes = <<>>
    BY <1>2, <1>11, Zenon DEF Ans!SilenceIsSilent
  <2>2. likes = <<>> /\ dislikes = <<>>
    BY <1>6, <1>7, <2>1 DEF Ans!Valid
  <2>3. Len(likes) = 0 /\ Len(dislikes) = 0
    BY <2>2
  <2>4. Len(s.likes) = 0 /\ Len(s.dislikes) = 0 /\ s.likes \in ItemList /\ s.dislikes \in ItemList
    BY <1>13, <1>14, <2>3 DEF ItemList
  <2>. QED
    BY <2>4 DEF ItemList
<1>18. Ans!WaitsAreBounded'
  BY <1>2, <1>9 DEF Ans!WaitsAreBounded
<1>19. Ans!SentFits'
  BY <1>1 DEF Ans!SentFits, Asked
<1>. QED
  BY <1>1, <1>2, <1>9, <1>15, <1>16, <1>17, <1>18, <1>19 DEF AnsInv, Ans!SummaryAnswerKept

LEMMA AnsInit == AnsSettings /\ Ans!Init => AnsInv
BY DEF Ans!Init, AnsInv, Ans!SummaryAnswerKept, Ans!PublishedWasSaid, Ans!LengthIsForgiven,
       Ans!SilenceIsSilent, Ans!WaitsAreBounded, Ans!SentFits, Ans!Told

LEMMA AnsStutters ==
    ASSUME AnsInv, UNCHANGED Ans!vars
    PROVE  AnsInv'
BY DEF Ans!vars, AnsInv, Asked, Ans!SummaryAnswerKept, Ans!PublishedWasSaid, Ans!LengthIsForgiven,
       Ans!SilenceIsSilent, Ans!WaitsAreBounded, Ans!SentFits, Ans!Told

\* Whatever the provider answers, what is published is the beginning of what it said, cites reviews
\* that were sent, and is not refused for its length; an answer without data has no opinions; waits
\* are within a day and a request within its budget (summaries/contour.py, groq_adapter.py, preflight.py).
THEOREM SummaryAnswerHolds ==
    ASSUME AnsSettings
    PROVE  Ans!Spec => []Ans!SummaryAnswerKept
<1>1. Ans!Init => AnsInv
  BY AnsInit
<1>2. AnsInv /\ [Ans!Next]_(Ans!vars) => AnsInv'
  <2>1. SUFFICES ASSUME AnsInv, [Ans!Next]_(Ans!vars)
                 PROVE  AnsInv'
    OBVIOUS
  <2>2. CASE Ans!Prepare
    BY <2>1, <2>2, AnsPrepare
  <2>3. CASE Ans!PostFails \/ Ans!Unparseable
    BY <2>1, <2>3, AnsNoAnswer
  <2>4. CASE Ans!Answered
    BY <2>1, <2>4, AnsAnswered
  <2>5. CASE UNCHANGED Ans!vars
    BY <2>1, <2>5, AnsStutters
  <2>. QED
    BY <2>1, <2>2, <2>3, <2>4, <2>5 DEF Ans!Next
<1>3. AnsInv => Ans!SummaryAnswerKept
  BY DEF AnsInv
<1>. QED
  BY <1>1, <1>2, <1>3, PTL DEF Ans!Spec

------------------------------------------------------------------------------
(* Conclusion: what is sent of a transcript, and kept of the answer.         *)

\* What is counted is a number, and a segment may have a word.
ConSettings == /\ \A t \in Transcripts : t.length \in Nat /\ t.ends \subseteq Nat
               /\ MaxWords \in Nat /\ SegmentMin \in Nat /\ SegmentMax \in Nat \ {0}
               /\ Overhead \in Nat /\ PerSegment \in Nat \ {0} /\ MaxRequest \in Nat /\ MaxOpinions \in Nat

-----------------------------------------------------------------------------
(* Segments that follow each other from the first word on.                     *)

EndOf(segs, n) == IF n = 0 THEN 0 ELSE segs[n][Len(segs[n])]
Chain(segs) ==
    /\ segs \in Seq(Seq(Nat))
    /\ \A n \in 1..Len(segs) : /\ Len(segs[n]) \in 1..SegmentMax
                               /\ segs[n] = Con!Words(EndOf(segs, n - 1), Len(segs[n]))

LEMMA WordsAre ==
    ASSUME NEW place \in Nat, NEW n \in Nat
    PROVE  /\ Con!Words(place, n) \in Seq(Nat) /\ Len(Con!Words(place, n)) = n
           /\ DOMAIN Con!Words(place, n) = 1..n
           /\ \A i \in 1..n : Con!Words(place, n)[i] = place + i
BY DEF Con!Words

\* A sequence is known by its elements.
LEMMA WordsOnly ==
    ASSUME NEW place \in Nat, NEW n \in Nat, NEW s \in Seq(Nat), Len(s) = n,
           \A i \in 1..n : s[i] = place + i
    PROVE  s = Con!Words(place, n)
<1>1. DOMAIN s = 1..n /\ s = [i \in 1..n |-> s[i]]
  OBVIOUS
<1>2. DOMAIN Con!Words(place, n) = 1..n /\ \A i \in 1..n : Con!Words(place, n)[i] = s[i]
  BY WordsAre
<1>3. Con!Words(place, n) = [i \in 1..n |-> Con!Words(place, n)[i]]
  BY DEF Con!Words
<1>. QED
  BY <1>1, <1>2, <1>3

\* Each segment goes on for its own length.
LEMMA EndsFollow ==
    ASSUME SegmentMax \in Nat, NEW segs, Chain(segs)
    PROVE  /\ Len(segs) \in Nat
           /\ \A n \in 0..Len(segs) : EndOf(segs, n) \in Nat
           /\ \A n \in 1..Len(segs) : EndOf(segs, n) = EndOf(segs, n - 1) + Len(segs[n])
<1>1. Len(segs) \in Nat /\ \A n \in 1..Len(segs) : segs[n] \in Seq(Nat) /\ Len(segs[n]) \in 1..SegmentMax
  BY DEF Chain
<1>2. \A n \in 0..Len(segs) : EndOf(segs, n) \in Nat
  <2>1. SUFFICES ASSUME NEW n \in 0..Len(segs), n # 0
                 PROVE  segs[n][Len(segs[n])] \in Nat
    BY <1>1 DEF EndOf
  <2>2. n \in 1..Len(segs)
    BY <1>1, <2>1
  <2>3. segs[n] \in Seq(Nat) /\ Len(segs[n]) \in 1..Len(segs[n])
    BY <1>1, <2>2
  <2>. QED
    BY <2>3
<1>3. ASSUME NEW n \in 1..Len(segs)
      PROVE  EndOf(segs, n) = EndOf(segs, n - 1) + Len(segs[n])
  <2>1. n - 1 \in 0..Len(segs) /\ n # 0
    BY <1>1
  <2>2. PICK from \in Nat : from = EndOf(segs, n - 1)
    BY <1>2, <2>1
  <2>3. PICK k \in Nat : k = Len(segs[n]) /\ k \in 1..k
    BY <1>1
  <2>4. segs[n] = Con!Words(from, k)
    BY <2>2, <2>3 DEF Chain
  <2>5. Con!Words(from, k)[k] = from + k
    BY <2>3, WordsAre
  <2>. QED
    BY <2>1, <2>2, <2>3, <2>4, <2>5 DEF EndOf
<1>. QED
  BY <1>1, <1>2, <1>3

\* The ends of segments grow, but no faster than segments may be long.
LEMMA EndsGrow ==
    ASSUME SegmentMax \in Nat \ {0}, NEW segs, Chain(segs), NEW a \in 0..Len(segs), NEW b \in a..Len(segs)
    PROVE  /\ EndOf(segs, a) + (b - a) <= EndOf(segs, b)
           /\ EndOf(segs, b) <= EndOf(segs, a) + (b - a) * SegmentMax
<1>. DEFINE Ok(n) == /\ EndOf(segs, a) + (n - a) <= EndOf(segs, n)
                     /\ EndOf(segs, n) <= EndOf(segs, a) + (n - a) * SegmentMax
            Bad == {n \in Nat : n \in a..Len(segs) /\ ~Ok(n)}
<1>1. Len(segs) \in Nat /\ a \in Nat /\ b \in Nat /\ \A n \in 0..Len(segs) : EndOf(segs, n) \in Nat
  BY EndsFollow
<1>2. ASSUME Bad # {}
      PROVE  FALSE
  <2>1. PICK n \in Bad : \A m \in Bad : <<m, n>> \notin OpToRel(<, Nat)
    BY <1>2, NatLessThanWellFounded, WFMin
  <2>2. n \in Nat /\ n \in a..Len(segs) /\ ~Ok(n)
    BY <2>1
  <2>. HIDE DEF Bad
  <2>3. n # a
    <3>1. Ok(a)
      BY <1>1
    <3>. QED
      BY <2>2, <3>1
  <2>4. PICK m \in Nat : m = n - 1 /\ m \in a..Len(segs) /\ n \in 1..Len(segs)
    BY <1>1, <2>2, <2>3
  <2>5. Ok(m)
    <3>1. <<m, n>> \in OpToRel(<, Nat)
      BY <2>2, <2>4 DEF OpToRel
    <3>. QED
      BY <2>1, <2>4, <3>1 DEF Bad
  <2>6. EndOf(segs, n) = EndOf(segs, m) + Len(segs[n]) /\ Len(segs[n]) \in 1..SegmentMax
    BY <2>4, EndsFollow DEF Chain
  <2>7. EndOf(segs, a) \in Nat /\ EndOf(segs, m) \in Nat /\ EndOf(segs, n) \in Nat
    BY <1>1, <2>2, <2>4
  <2>8. (n - a) * SegmentMax = (m - a) * SegmentMax + SegmentMax
    BY <1>1, <2>2, <2>4
  <2>9. PICK x \in Int, y \in Int : x = (m - a) * SegmentMax /\ y = (n - a) * SegmentMax
    BY <1>1, <2>2, <2>4
  <2>10. PICK f \in Nat, g \in Nat, h \in Nat, k \in Nat :
            f = EndOf(segs, a) /\ g = EndOf(segs, m) /\ h = EndOf(segs, n) /\ k = Len(segs[n])
    BY <1>1, <2>6, <2>7
  <2>11. f + (m - a) <= g /\ g <= f + x
    BY <2>5, <2>9, <2>10
  <2>12. h = g + k /\ k >= 1 /\ k <= SegmentMax /\ y = x + SegmentMax
    BY <2>6, <2>8, <2>9, <2>10
  <2>13. h <= f + y
    <3>1. PICK M \in Nat : M = SegmentMax
      OBVIOUS
    <3>2. k <= M /\ y = x + M
      BY <2>12, <3>1
    <3>. QED
      BY ONLY f \in Nat, g \in Nat, h \in Nat, k \in Nat, x \in Int, y \in Int, M \in Nat, <2>11, <2>12, <3>2
  <2>14. f + (n - a) <= h
    <3>1. m - a \in Int /\ n - a = (m - a) + 1
      BY <1>1, <2>4
    <3>2. PICK d \in Int : d = m - a
      BY <3>1
    <3>. QED
      BY ONLY f \in Nat, g \in Nat, h \in Nat, k \in Nat, d \in Int, <2>11, <2>12, <3>1, <3>2
  <2>. QED
    BY <2>2, <2>9, <2>10, <2>13, <2>14
<1>3. Ok(b)
  BY <1>1, <1>2
<1>. QED
  BY <1>3

\* One more segment that follows.
LEMMA Appended ==
    ASSUME SegmentMax \in Nat, NEW segs, Chain(segs), NEW more \in Seq(Nat), Len(more) \in 1..SegmentMax,
           more = Con!Words(EndOf(segs, Len(segs)), Len(more)), NEW new, new = Append(segs, more)
    PROVE  /\ Chain(new) /\ Len(new) = Len(segs) + 1
           /\ EndOf(new, Len(new)) = EndOf(segs, Len(segs)) + Len(more)
<1>1. Len(segs) \in Nat /\ segs \in Seq(Seq(Nat))
  BY EndsFollow DEF Chain
<1>2. /\ new \in Seq(Seq(Nat)) /\ Len(new) = Len(segs) + 1
      /\ \A n \in 1..Len(segs) : new[n] = segs[n]
      /\ new[Len(segs) + 1] = more
  BY <1>1
<1>3. \A n \in 0..Len(segs) : EndOf(new, n) = EndOf(segs, n)
  BY <1>1, <1>2 DEF EndOf
<1>4. ASSUME NEW n \in 1..Len(new)
      PROVE  Len(new[n]) \in 1..SegmentMax /\ new[n] = Con!Words(EndOf(new, n - 1), Len(new[n]))
  <2>1. CASE n \in 1..Len(segs)
    <3>1. new[n] = segs[n] /\ n - 1 \in 0..Len(segs)
      BY <1>1, <1>2, <2>1
    <3>2. Len(segs[n]) \in 1..SegmentMax /\ segs[n] = Con!Words(EndOf(segs, n - 1), Len(segs[n]))
      BY <2>1 DEF Chain
    <3>. QED
      BY <1>3, <3>1, <3>2
  <2>2. CASE n = Len(segs) + 1
    <3>1. new[n] = more /\ n - 1 = Len(segs) /\ n - 1 \in 0..Len(segs)
      BY <1>1, <1>2, <2>2
    <3>. QED
      BY <1>3, <3>1
  <2>. QED
    BY <1>1, <1>2, <2>1, <2>2
<1>5. Chain(new)
  BY <1>2, <1>4 DEF Chain
<1>6. EndOf(new, Len(new)) = EndOf(new, Len(new) - 1) + Len(new[Len(new)]) /\ Len(new) - 1 = Len(segs)
  <2>1. Len(new) \in 1..Len(new) /\ Len(new) - 1 = Len(segs)
    BY <1>1, <1>2
  <2>. QED
    BY <1>5, <2>1, EndsFollow
<1>7. EndOf(new, Len(segs)) = EndOf(segs, Len(segs)) /\ new[Len(new)] = more
  BY <1>1, <1>2, <1>3
<1>. QED
  BY <1>2, <1>5, <1>6, <1>7


-----------------------------------------------------------------------------
(* What is counted, and cut off.                                               *)

LEMMA ConOperators ==
    ASSUME NEW S
    PROVE  Con!Cardinality(S) = Cardinality(S) /\ Con!Max(S) = Max(S) /\ Con!Min(S) = Min(S)
BY Zenon DEF Con!Cardinality, Cardinality, Con!IsFiniteSet, IsFiniteSet, Con!Max, Max, Con!Min, Min

Smaller(a, b) == IF a <= b THEN a ELSE b
Greater(a, b) == IF a <= b THEN b ELSE a

LEMMA OfTwo ==
    ASSUME NEW a \in Nat, NEW b \in Nat
    PROVE  Con!Min({a, b}) = Smaller(a, b) /\ Con!Max({a, b}) = Greater(a, b)
<1>1. PICK S : S = {a, b}
  OBVIOUS
<1>2. IsFiniteSet(S)
  <2>1. IsFiniteSet({a})
    BY FS_Singleton
  <2>2. S = {a} \cup {b}
    BY <1>1
  <2>. QED
    BY <2>1, <2>2, FS_AddElement
<1>3. S \subseteq Nat /\ S # {}
  BY <1>1
<1>4. Min(S) \in S /\ \A x \in S : Min(S) <= x
  BY <1>3, MinOfNat
<1>5. Max(S) \in S /\ \A x \in S : x <= Max(S)
  BY <1>2, <1>3, MaxOfNat
<1>6. Min(S) = Smaller(a, b)
  BY <1>1, <1>4 DEF Smaller
<1>7. Max(S) = Greater(a, b)
  BY <1>1, <1>5 DEF Greater
<1>. QED
  BY <1>1, <1>6, <1>7, ConOperators

\* The words that are cut into segments.
Lim(t) == Smaller(t.length, MaxWords)

LEMMA LimitIs ==
    ASSUME ConSettings, transcript \in Transcripts
    PROVE  /\ Con!Limit = Lim(transcript) /\ Lim(transcript) \in Nat
           /\ transcript.length \in Nat /\ Lim(transcript) <= transcript.length
<1>1. PICK a \in Nat, b \in Nat : a = transcript.length /\ b = MaxWords
  BY DEF ConSettings
<1>2. Con!Min({a, b}) = Smaller(a, b)
  BY OfTwo
<1>3. Con!Limit = Con!Min({a, b}) /\ Lim(transcript) = Smaller(a, b)
  BY <1>1 DEF Con!Limit, Lim
<1>4. Smaller(a, b) \in Nat /\ Smaller(a, b) <= a
  BY DEF Smaller
<1>. QED
  BY <1>1, <1>2, <1>3, <1>4

\* A sentence ends after the words that are read, and within the limit.
LEMMA SentenceGoesOn ==
    ASSUME ConSettings, transcript \in Transcripts, read \in Nat, read < Lim(transcript)
    PROVE  Con!SentenceEnd \in Nat /\ read < Con!SentenceEnd /\ Con!SentenceEnd <= Lim(transcript)
<1>1. PICK l \in Nat : l = Lim(transcript) /\ l = Con!Limit
  BY LimitIs
<1>2. PICK S : S = {l} \cup {n \in transcript.ends : n > read}
  OBVIOUS
<1>3. transcript.ends \subseteq Nat
  BY DEF ConSettings
<1>4. S \subseteq Nat /\ S # {} /\ l \in S /\ \A n \in S : read < n
  BY <1>1, <1>2, <1>3
<1>5. Min(S) \in S /\ Min(S) <= l
  BY <1>4, MinOfNat
<1>6. Con!SentenceEnd = Min(S)
  BY <1>1, <1>2, ConOperators DEF Con!SentenceEnd
<1>. QED
  BY <1>1, <1>4, <1>5, <1>6

\* Each word of the segments is counted once.
Placed(segs, n) == UNION {{m} \X DOMAIN segs[m] : m \in 1..n}

LEMMA WordsCounted ==
    ASSUME SegmentMax \in Nat, NEW segs, Chain(segs), NEW n \in 0..Len(segs)
    PROVE  IsFiniteSet(Placed(segs, n)) /\ Cardinality(Placed(segs, n)) = EndOf(segs, n)
<1>. DEFINE Ok(k) == IsFiniteSet(Placed(segs, k)) /\ Cardinality(Placed(segs, k)) = EndOf(segs, k)
            Bad == {k \in Nat : k \in 0..Len(segs) /\ ~Ok(k)}
<1>1. Len(segs) \in Nat /\ n \in Nat /\ \A k \in 0..Len(segs) : EndOf(segs, k) \in Nat
  BY EndsFollow
<1>2. ASSUME Bad # {}
      PROVE  FALSE
  <2>1. PICK k \in Bad : \A j \in Bad : <<j, k>> \notin OpToRel(<, Nat)
    BY <1>2, NatLessThanWellFounded, WFMin
  <2>2. k \in Nat /\ k \in 0..Len(segs) /\ ~Ok(k)
    BY <2>1
  <2>3. k # 0
    <3>1. Placed(segs, 0) = {} /\ EndOf(segs, 0) = 0
      BY DEF Placed, EndOf
    <3>2. Ok(0)
      BY <3>1, FS_EmptySet
    <3>. QED
      BY <2>2, <3>2
  <2>4. PICK j \in Nat : j = k - 1 /\ j \in 0..Len(segs) /\ k \in 1..Len(segs)
    BY <1>1, <2>2, <2>3
  <2>5. Ok(j)
    <3>1. <<j, k>> \in OpToRel(<, Nat)
      BY <2>2, <2>4 DEF OpToRel
    <3>2. j \notin Bad
      BY <2>1, <3>1
    <3>. QED
      BY <2>4, <3>2
  <2>. HIDE DEF Bad
  <2>6. PICK len \in Nat : len = Len(segs[k]) /\ DOMAIN segs[k] = 1..len
                           /\ EndOf(segs, k) = EndOf(segs, j) + len
    <3>1. segs[k] \in Seq(Nat) /\ Len(segs[k]) \in Nat
      BY <2>4 DEF Chain
    <3>. QED
      BY <2>4, <3>1, EndsFollow
  <2>7. PICK P : P = {k} \X (1..len)
    OBVIOUS
  <2>8. IsFiniteSet(P) /\ Cardinality(P) = len
    <3>1. IsFiniteSet(1..len) /\ Cardinality(1..len) = len
      <4>1. 1 \in Int /\ len \in Int
        OBVIOUS
      <4>2. IsFiniteSet(1..len) /\ Cardinality(1..len) = IF 1 > len THEN 0 ELSE len - 1 + 1
        BY <4>1, FS_Interval
      <4>. QED
        BY <4>2
    <3>2. IsFiniteSet({k}) /\ Cardinality({k}) = 1
      BY FS_Singleton
    <3>3. IsFiniteSet(P) /\ Cardinality(P) = Cardinality({k}) * Cardinality(1..len)
      BY <2>7, <3>1, <3>2, FS_Product
    <3>. QED
      BY <3>1, <3>2, <3>3
  <2>9. PICK U : U = Placed(segs, j)
    OBVIOUS
  <2>10. Placed(segs, k) = U \cup P
    <3>1. 1..k = (1..j) \cup {k}
      BY <2>2, <2>4
    <3>. QED
      BY <2>6, <2>7, <2>9, <3>1 DEF Placed
  <2>11. U \cap P = {}
    <3>1. \A m \in 1..j : m # k
      BY <2>2, <2>4
    <3>. QED
      BY <2>7, <2>9, <3>1 DEF Placed
  <2>12. IsFiniteSet(U) /\ Cardinality(U) = EndOf(segs, j) /\ EndOf(segs, j) \in Nat
    BY <1>1, <2>4, <2>5, <2>9
  <2>13. IsFiniteSet(U \cup P) /\ Cardinality(U \cup P) = Cardinality(U) + Cardinality(P) - Cardinality(U \cap P)
    BY <2>8, <2>12, FS_Union
  <2>14. Cardinality(U \cap P) = 0
    BY <2>11, FS_EmptySet
  <2>15. Ok(k)
    BY <2>6, <2>8, <2>10, <2>12, <2>13, <2>14
  <2>. QED
    BY <2>2, <2>15
<1>3. Ok(n)
  BY <1>1, <1>2
<1>. QED
  BY <1>3

\* What the first segments take of a request.
Load(segs, n) == Overhead + n + EndOf(segs, n)

LEMMA TokensAre ==
    ASSUME ConSettings, Chain(segments), NEW n \in 0..Len(segments)
    PROVE  Con!Tokens(n) = Load(segments, n) /\ Load(segments, n) \in Nat
<1>1. Cardinality(Placed(segments, n)) = EndOf(segments, n)
  BY WordsCounted DEF ConSettings
<1>2. Con!Tokens(n) = Overhead + n + Cardinality(Placed(segments, n))
  BY ConOperators DEF Con!Tokens, Placed
<1>3. EndOf(segments, n) \in Nat /\ n \in Nat /\ Overhead \in Nat
  BY EndsFollow DEF ConSettings
<1>. QED
  BY <1>1, <1>2, <1>3 DEF Load

-----------------------------------------------------------------------------
(* What is read is, in this order, in segments, in the one that waits, and in  *)
(* the rest of the sentence.                                                   *)

Cutting(segs, cur, sen, rd) ==
    /\ Chain(segs)
    /\ cur \in Seq(Nat) /\ Len(cur) <= SegmentMax
    /\ cur = Con!Words(EndOf(segs, Len(segs)), Len(cur))
    /\ sen \in Seq(Nat)
    /\ sen = Con!Words(EndOf(segs, Len(segs)) + Len(cur), Len(sen))
    /\ rd = EndOf(segs, Len(segs)) + Len(cur) + Len(sen)

LEMMA CuttingIsTyped ==
    ASSUME SegmentMax \in Nat, NEW segs, NEW cur, NEW sen, NEW rd, Cutting(segs, cur, sen, rd)
    PROVE  /\ Len(segs) \in Nat /\ EndOf(segs, Len(segs)) \in Nat
           /\ Len(cur) \in Nat /\ Len(sen) \in Nat /\ rd \in Nat
<1>1. Chain(segs) /\ cur \in Seq(Nat) /\ sen \in Seq(Nat)
  BY DEF Cutting
<1>2. Len(segs) \in Nat /\ EndOf(segs, Len(segs)) \in Nat
  <2>1. Len(segs) \in Nat /\ \A n \in 0..Len(segs) : EndOf(segs, n) \in Nat
    BY <1>1, EndsFollow
  <2>2. Len(segs) \in 0..Len(segs)
    BY <2>1
  <2>. QED
    BY <2>1, <2>2
<1>3. Len(cur) \in Nat /\ Len(sen) \in Nat
  BY <1>1
<1>. QED
  BY <1>2, <1>3 DEF Cutting

\* The segment that waits is done.
LEMMA Flushed ==
    ASSUME SegmentMax \in Nat, NEW segs, NEW cur, NEW sen, NEW rd, Cutting(segs, cur, sen, rd),
           NEW new, new = IF cur = <<>> THEN segs ELSE Append(segs, cur)
    PROVE  Cutting(new, <<>>, sen, rd)
<1>1. CASE cur = <<>>
  <2>1. new = segs
    BY <1>1
  <2>. QED
    BY <1>1, <2>1
<1>2. CASE cur # <<>>
  <2>1. Chain(segs) /\ cur \in Seq(Nat) /\ Len(cur) <= SegmentMax
        /\ cur = Con!Words(EndOf(segs, Len(segs)), Len(cur)) /\ new = Append(segs, cur)
    BY <1>2 DEF Cutting
  <2>2. Len(cur) \in 1..SegmentMax
    BY <1>2, <2>1
  <2>3. Chain(new) /\ EndOf(new, Len(new)) = EndOf(segs, Len(segs)) + Len(cur)
    BY <2>1, <2>2, Appended
  <2>4. <<>> \in Seq(Nat) /\ Len(<<>>) = 0 /\ <<>> = Con!Words(EndOf(new, Len(new)), Len(<<>>))
    BY DEF Con!Words
  <2>5. EndOf(segs, Len(segs)) + Len(cur) = EndOf(new, Len(new)) + Len(<<>>)
    BY <2>3, <2>4, CuttingIsTyped
  <2>. QED
    BY <2>3, <2>4, <2>5 DEF Cutting
<1>. QED
  BY <1>1, <1>2

\* The beginning of a sentence is a segment of its own.
LEMMA Taken ==
    ASSUME SegmentMax \in Nat, NEW segs, NEW sen, NEW rd, Cutting(segs, <<>>, sen, rd),
           NEW k \in 1..SegmentMax, k <= Len(sen)
    PROVE  Cutting(Append(segs, SubSeq(sen, 1, k)), <<>>, SubSeq(sen, k + 1, Len(sen)), rd)
<1>1. PICK e \in Nat, l \in Nat : e = EndOf(segs, Len(segs)) /\ l = Len(sen)
  BY CuttingIsTyped
<1>2. Len(<<>>) = 0 /\ <<>> \in Seq(Nat)
  OBVIOUS
<1>3. Chain(segs) /\ sen \in Seq(Nat) /\ sen = Con!Words(e, l) /\ rd = e + l
  BY <1>1, <1>2 DEF Cutting
<1>4. \A i \in 1..l : sen[i] = e + i
  BY <1>3, WordsAre
<1>5. PICK p, r : p = SubSeq(sen, 1, k) /\ r = SubSeq(sen, k + 1, l)
  OBVIOUS
<1>13. k \in Nat /\ k >= 1 /\ k <= l
  BY <1>1
<1>14. p \in Seq(Nat) /\ Len(p) = k /\ \A i \in 1..k : p[i] = sen[i]
  BY <1>1, <1>3, <1>5, <1>13
<1>15. r \in Seq(Nat) /\ Len(r) = l - k /\ \A i \in 1..(l - k) : r[i] = sen[i + k]
  <2>1. \A i \in (k + 1)..l : i \in 1..Len(sen) /\ sen[i] \in Nat
    BY <1>1, <1>3, <1>13
  <2>2. k + 1 \in Int /\ l \in Int
    BY <1>13
  <2>3. /\ r \in Seq(Nat) /\ Len(r) = IF k + 1 <= l THEN l - (k + 1) + 1 ELSE 0
        /\ \A i \in 1..(l - (k + 1) + 1) : r[i] = sen[(k + 1) + i - 1]
    BY <1>5, <2>1, <2>2, SubSeqProperties
  <2>4. Len(r) = l - k /\ l - (k + 1) + 1 = l - k
    BY <1>13, <2>3
  <2>5. ASSUME NEW i \in 1..(l - k) PROVE r[i] = sen[i + k]
    <3>1. r[i] = sen[(k + 1) + i - 1]
      BY <2>3, <2>4
    <3>2. (k + 1) + i - 1 = i + k
      BY <1>13
    <3>. QED
      BY <3>1, <3>2
  <2>. QED
    BY <2>3, <2>4, <2>5
<1>6. /\ p \in Seq(Nat) /\ Len(p) = k /\ \A i \in 1..k : p[i] = sen[i]
      /\ r \in Seq(Nat) /\ Len(r) = l - k /\ \A i \in 1..(l - k) : r[i] = sen[i + k]
  BY <1>14, <1>15
<1>7. p = Con!Words(e, k)
  <2>1. \A i \in 1..k : p[i] = e + i
    <3>1. SUFFICES ASSUME NEW i \in 1..k PROVE p[i] = e + i
      OBVIOUS
    <3>2. i \in 1..l
      BY <1>13, <3>1
    <3>. QED
      BY <1>4, <1>14, <3>1, <3>2
  <2>. QED
    BY <1>6, <1>13, <2>1, WordsOnly
<1>8. r = Con!Words(e + k, l - k)
  <2>1. e + k \in Nat /\ l - k \in Nat
    BY <1>1
  <2>2. \A i \in 1..(l - k) : r[i] = (e + k) + i
    BY <1>1, <1>4, <1>6
  <2>. QED
    BY <1>6, <2>1, <2>2, WordsOnly
<1>9. PICK new : new = Append(segs, p)
  OBVIOUS
<1>10. Chain(new) /\ EndOf(new, Len(new)) = e + k
  <2>1. p = Con!Words(EndOf(segs, Len(segs)), Len(p)) /\ Len(p) \in 1..SegmentMax
    BY <1>1, <1>6, <1>7
  <2>2. Chain(new) /\ EndOf(new, Len(new)) = EndOf(segs, Len(segs)) + Len(p)
    BY <1>3, <1>6, <1>9, <2>1, Appended
  <2>. QED
    BY <1>1, <1>6, <2>2
<1>11. <<>> = Con!Words(e + k, 0)
  BY DEF Con!Words
<1>12. Cutting(new, <<>>, r, rd)
  <2>1. PICK f \in Nat, m \in Nat : f = EndOf(new, Len(new)) /\ m = Len(r) /\ f = e + k /\ m = l - k
    BY <1>6, <1>10, <1>13
  <2>2. rd = f + 0 + m /\ f + 0 = e + k
    BY <1>3, <1>13, <2>1
  <2>3. <<>> = Con!Words(f, 0) /\ r = Con!Words(f + 0, m)
    BY <1>8, <1>11, <2>1, <2>2
  <2>. QED
    BY <1>2, <1>6, <1>10, <2>1, <2>2, <2>3 DEF Cutting
<1>. QED
  BY <1>1, <1>5, <1>9, <1>12

\* The sentence joins the segment that waits.
LEMMA Joined ==
    ASSUME SegmentMax \in Nat, NEW segs, NEW cur, NEW sen, NEW rd, Cutting(segs, cur, sen, rd),
           Len(cur) + Len(sen) <= SegmentMax
    PROVE  Cutting(segs, cur \o sen, <<>>, rd)
<1>1. PICK e \in Nat, c \in Nat, l \in Nat : e = EndOf(segs, Len(segs)) /\ c = Len(cur) /\ l = Len(sen)
  BY CuttingIsTyped
<1>2. Chain(segs) /\ cur \in Seq(Nat) /\ sen \in Seq(Nat) /\ cur = Con!Words(e, c)
      /\ sen = Con!Words(e + c, l) /\ rd = e + c + l
  BY <1>1 DEF Cutting
<1>3. (\A i \in 1..c : cur[i] = e + i) /\ (\A i \in 1..l : sen[i] = (e + c) + i)
  <2>1. \A i \in 1..c : cur[i] = e + i
    BY <1>2, WordsAre
  <2>2. e + c \in Nat
    OBVIOUS
  <2>3. \A i \in 1..l : sen[i] = (e + c) + i
    BY <1>2, <2>2, WordsAre
  <2>. QED
    BY <2>1, <2>3
<1>4. PICK j : j = cur \o sen
  OBVIOUS
<1>5. /\ j \in Seq(Nat) /\ Len(j) = c + l
      /\ \A i \in 1..(c + l) : j[i] = IF i <= c THEN cur[i] ELSE sen[i - c]
  BY <1>1, <1>2, <1>4
<1>6. \A i \in 1..(c + l) : j[i] = e + i
  <2>1. SUFFICES ASSUME NEW i \in 1..(c + l) PROVE j[i] = e + i
    OBVIOUS
  <2>2. CASE i <= c
    BY <1>3, <1>5, <2>2
  <2>3. CASE i > c
    <3>1. PICK k \in 1..l : k = i - c
      BY <2>3
    <3>2. j[i] = sen[k] /\ sen[k] = (e + c) + k
      BY <1>3, <1>5, <2>3, <3>1
    <3>. QED
      BY <3>1, <3>2
  <2>. QED
    BY <2>2, <2>3
<1>7. j = Con!Words(e, c + l)
  <2>1. c + l \in Nat
    OBVIOUS
  <2>. QED
    BY <1>5, <1>6, <2>1, WordsOnly
<1>8. <<>> \in Seq(Nat) /\ Len(<<>>) = 0 /\ <<>> = Con!Words(e + (c + l), 0)
  BY DEF Con!Words
<1>9. rd = e + (c + l) + 0
  BY <1>2
<1>10. Len(j) <= SegmentMax
  BY <1>1, <1>5
<1>11. Cutting(segs, j, <<>>, rd)
  BY <1>1, <1>2, <1>5, <1>7, <1>8, <1>9, <1>10 DEF Cutting
<1>. QED
  BY <1>4, <1>11

\* The next sentence is read.
LEMMA ReadOn ==
    ASSUME SegmentMax \in Nat, NEW segs, NEW cur, NEW rd, Cutting(segs, cur, <<>>, rd),
           NEW e \in Nat, rd <= e
    PROVE  Cutting(segs, cur, Con!Words(rd, e - rd), e)
<1>1. PICK n \in Nat : n = e - rd /\ rd \in Nat
  <2>1. rd \in Nat
    BY CuttingIsTyped
  <2>. QED
    BY <2>1
<1>2. PICK w : w = Con!Words(rd, n)
  OBVIOUS
<1>3. w \in Seq(Nat) /\ Len(w) = n
  BY <1>1, <1>2, WordsAre
<1>4. rd = EndOf(segs, Len(segs)) + Len(cur)
  <2>1. Len(<<>>) = 0 /\ rd = EndOf(segs, Len(segs)) + Len(cur) + Len(<<>>)
    BY DEF Cutting
  <2>. QED
    BY <2>1, CuttingIsTyped
<1>5. e = EndOf(segs, Len(segs)) + Len(cur) + n
  BY <1>1, <1>4
<1>. QED
  BY <1>1, <1>2, <1>3, <1>4, <1>5 DEF Cutting

-----------------------------------------------------------------------------
(* The inductive invariant: while a transcript is cut, nothing that is read is *)
(* lost; and what is dropped of the segments would not have fitted.            *)

\* What is left of the segments is as much as fits, give or take the last of those dropped.
Filled(segs, n, l) ==
    SegmentMax < PerSegment /\ EndOf(segs, n) < l =>
       Load(segs, n) + Smaller(SegmentMax, l - EndOf(segs, n)) + 1 > MaxRequest

Sendable(segs, n, l) == /\ Chain(segs) /\ n \in 0..Len(segs) /\ EndOf(segs, Len(segs)) = l
                        /\ Filled(segs, n, l)

ConInv ==
    /\ stage \in {"start", "segment", "prepare", "chat", "done"}
    /\ stage # "start" => transcript \in Transcripts
    /\ stage = "start" => read = 0
    /\ stage = "segment" => read <= Lim(transcript)
    /\ stage \in {"start", "segment"} => Cutting(segments, current, sentence, read)
    /\ stage \in {"prepare", "chat", "done"} => Sendable(segments, kept, Lim(transcript))
    /\ stage \in {"chat", "done"} /\ kept > 0 => Load(segments, kept) <= MaxRequest
    /\ Con!QuotesWereHeard

LEMMA ConInit ==
    ASSUME ConSettings, Con!Init
    PROVE  ConInv
<1>1. stage = "start" /\ read = 0 /\ sentence = <<>> /\ current = <<>> /\ segments = <<>>
  BY DEF Con!Init
<1>2. Chain(<<>>)
  BY DEF Chain
<1>3. EndOf(<<>>, Len(<<>>)) = 0 /\ Len(<<>>) = 0
  BY DEF EndOf
<1>4. <<>> = Con!Words(0, 0) /\ <<>> \in Seq(Nat)
  BY DEF Con!Words
<1>5. Cutting(<<>>, <<>>, <<>>, 0)
  BY <1>2, <1>3, <1>4 DEF Cutting, ConSettings
<1>6. Con!QuotesWereHeard
  BY <1>1 DEF Con!QuotesWereHeard
<1>. QED
  BY <1>1, <1>5, <1>6 DEF ConInv

LEMMA ConBegin ==
    ASSUME ConSettings, ConInv, Con!Begin
    PROVE  ConInv'
<1>1. /\ stage = "start" /\ stage' = "segment" /\ transcript' \in Transcripts
      /\ read' = read /\ sentence' = sentence /\ current' = current /\ segments' = segments
  BY DEF Con!Begin
<1>2. read' = 0 /\ Cutting(segments, current, sentence, read)
  BY <1>1 DEF ConInv
<1>3. read' <= Lim(transcript')
  <2>1. PICK t \in Transcripts : t = transcript'
    BY <1>1
  <2>2. t.length \in Nat /\ MaxWords \in Nat
    BY DEF ConSettings
  <2>. QED
    BY <1>2, <2>1, <2>2 DEF Lim, Smaller
<1>4. Cutting(segments', current', sentence', read')
  BY <1>1, <1>2
<1>5. Con!QuotesWereHeard'
  BY <1>1 DEF Con!QuotesWereHeard
<1>. QED
  BY <1>1, <1>2, <1>3, <1>4, <1>5 DEF ConInv

\* What a step of segment leaves to show.
LEMMA ConSegments ==
    ASSUME ConSettings, ConInv, stage = "segment", stage' = "segment", transcript' = transcript,
           read' <= Lim(transcript), Cutting(segments', current', sentence', read')
    PROVE  ConInv'
<1>1. Con!QuotesWereHeard'
  BY DEF Con!QuotesWereHeard
<1>2. transcript' \in Transcripts /\ read' <= Lim(transcript')
  BY DEF ConInv
<1>. QED
  BY <1>1, <1>2 DEF ConInv

LEMMA ConNextSentence ==
    ASSUME ConSettings, ConInv, Con!NextSentence
    PROVE  ConInv'
<1>1. /\ stage = "segment" /\ stage' = "segment" /\ transcript' = transcript /\ sentence = <<>>
      /\ current' = current /\ segments' = segments /\ read < Con!Limit
      /\ sentence' = Con!Words(read, Con!SentenceEnd - read) /\ read' = Con!SentenceEnd
  BY DEF Con!NextSentence
<1>2. transcript \in Transcripts /\ Cutting(segments, current, <<>>, read) /\ SegmentMax \in Nat
  BY <1>1 DEF ConInv, ConSettings
<1>3. read \in Nat
  BY <1>2, CuttingIsTyped
<1>4. read < Lim(transcript)
  BY <1>1, <1>2, LimitIs
<1>5. PICK e : e = Con!SentenceEnd
  OBVIOUS
<1>6. e \in Nat /\ read <= e /\ e <= Lim(transcript)
  BY <1>2, <1>3, <1>4, <1>5, SentenceGoesOn
<1>7. Cutting(segments, current, Con!Words(read, e - read), e)
  BY <1>2, <1>6, ReadOn
<1>8. Cutting(segments', current', sentence', read') /\ read' <= Lim(transcript)
  BY <1>1, <1>5, <1>6, <1>7
<1>. QED
  BY <1>1, <1>8, ConSegments

LEMMA ConCutPiece ==
    ASSUME ConSettings, ConInv, Con!CutPiece
    PROVE  ConInv'
<1>1. /\ stage = "segment" /\ stage' = "segment" /\ transcript' = transcript /\ read' = read
      /\ Len(sentence) > SegmentMax /\ current' = <<>>
      /\ segments' = segments \o Con!NonEmpty(current) \o <<SubSeq(sentence, 1, SegmentMax)>>
      /\ sentence' = SubSeq(sentence, SegmentMax + 1, Len(sentence))
  BY DEF Con!CutPiece
<1>2. /\ read <= Lim(transcript) /\ Cutting(segments, current, sentence, read)
      /\ SegmentMax \in Nat /\ SegmentMax \in 1..SegmentMax
  BY <1>1 DEF ConInv, ConSettings
<1>3. PICK done : done = IF current = <<>> THEN segments ELSE Append(segments, current)
  OBVIOUS
<1>4. Cutting(done, <<>>, sentence, read)
  BY <1>2, <1>3, Flushed
<1>5. PICK p : p = SubSeq(sentence, 1, SegmentMax)
  OBVIOUS
<1>6. SegmentMax <= Len(sentence)
  BY <1>1, <1>2, CuttingIsTyped
<1>7. Cutting(Append(done, p), <<>>, sentence', read)
  BY <1>1, <1>2, <1>4, <1>5, <1>6, Taken
<1>8. segments' = Append(done, p)
  <2>1. segments \in Seq(Seq(Nat)) /\ current \in Seq(Nat) /\ done \in Seq(Seq(Nat))
    BY <1>2, <1>4 DEF Cutting, Chain
  <2>2. segments \o Con!NonEmpty(current) = done
    BY <1>3, <2>1 DEF Con!NonEmpty
  <2>3. p \in Seq(Nat)
    <3>1. \A i \in 1..SegmentMax : sentence[i] \in Nat
      BY <1>2, <1>6 DEF Cutting
    <3>2. 1 \in Int /\ SegmentMax \in Int
      BY <1>2
    <3>. QED
      BY <1>5, <3>1, <3>2, SubSeqProperties
  <2>4. done \o <<p>> = Append(done, p)
    BY <2>1, <2>3
  <2>. QED
    BY <1>1, <1>5, <2>2, <2>4
<1>. QED
  BY <1>1, <1>2, <1>7, <1>8, ConSegments

LEMMA ConJoin ==
    ASSUME ConSettings, ConInv, Con!Join
    PROVE  ConInv'
<1>1. /\ stage = "segment" /\ stage' = "segment" /\ transcript' = transcript /\ read' = read
      /\ sentence # <<>> /\ Len(sentence) <= SegmentMax /\ sentence' = <<>>
  BY DEF Con!Join
<1>2. PICK flush \in BOOLEAN : flush = (current # <<>> /\ Len(current) + Len(sentence) > SegmentMax)
  OBVIOUS
<1>3. PICK done, joined : /\ done = IF flush THEN Append(segments, current) ELSE segments
                          /\ joined = IF flush THEN sentence ELSE current \o sentence
  OBVIOUS
<1>4. IF Len(joined) >= SegmentMin THEN segments' = Append(done, joined) /\ current' = <<>>
                                   ELSE segments' = done /\ current' = joined
  BY <1>2, <1>3 DEF Con!Join
<1>5. read <= Lim(transcript) /\ Cutting(segments, current, sentence, read) /\ SegmentMax \in Nat
  BY <1>1 DEF ConInv, ConSettings
<1>6. /\ sentence \in Seq(Nat) /\ current \in Seq(Nat) /\ Len(sentence) \in Nat /\ Len(current) \in Nat
      /\ Len(current) <= SegmentMax
  BY <1>5 DEF Cutting
<1>7. Cutting(done, joined, <<>>, read) /\ joined # <<>>
  <2>1. CASE flush
    <3>1. done = IF current = <<>> THEN segments ELSE Append(segments, current)
      BY <1>2, <1>3, <2>1
    <3>2. Cutting(done, <<>>, sentence, read)
      BY <1>5, <3>1, Flushed
    <3>3. Len(<<>>) + Len(sentence) <= SegmentMax
      BY <1>1, <1>6
    <3>4. Cutting(done, <<>> \o sentence, <<>>, read)
      BY <1>5, <3>2, <3>3, Joined
    <3>5. <<>> \o sentence = sentence
      BY <1>6, ConcatEmptySeq
    <3>. QED
      BY <1>1, <1>3, <2>1, <3>4, <3>5
  <2>2. CASE ~flush
    <3>1. Len(current) + Len(sentence) <= SegmentMax
      <4>1. CASE current = <<>>
        BY <1>1, <1>6, <4>1
      <4>2. CASE current # <<>>
        <5>1. ~(Len(current) + Len(sentence) > SegmentMax)
          BY <1>2, <2>2, <4>2
        <5>. QED
          BY <1>5, <1>6, <5>1
      <4>. QED
        BY <4>1, <4>2
    <3>2. Cutting(segments, current \o sentence, <<>>, read)
      BY <1>5, <3>1, Joined
    <3>3. current \o sentence # <<>>
      BY <1>1, <1>6, ConcatEqualIffEmpty
    <3>. QED
      BY <1>3, <2>2, <3>2, <3>3
  <2>. QED
    BY <2>1, <2>2
<1>8. Cutting(segments', current', sentence', read')
  <2>1. CASE Len(joined) >= SegmentMin
    <3>1. PICK new : new = IF joined = <<>> THEN done ELSE Append(done, joined)
      OBVIOUS
    <3>2. Cutting(new, <<>>, <<>>, read)
      BY <1>5, <1>7, <3>1, Flushed
    <3>. QED
      BY <1>1, <1>4, <1>7, <2>1, <3>1, <3>2
  <2>2. CASE ~(Len(joined) >= SegmentMin)
    BY <1>1, <1>4, <1>7, <2>2
  <2>. QED
    BY <2>1, <2>2
<1>. QED
  BY <1>1, <1>5, <1>8, ConSegments

\* What a step after the last segment leaves to show.
LEMMA ConPrepares ==
    ASSUME ConSettings, ConInv, stage' \in {"prepare", "chat", "done"},
           transcript \in Transcripts, transcript' = transcript,
           Sendable(segments', kept', Lim(transcript)),
           stage' \in {"chat", "done"} /\ kept' > 0 => Load(segments', kept') <= MaxRequest,
           Con!QuotesWereHeard'
    PROVE  ConInv'
BY DEF ConInv

LEMMA ConSegmented ==
    ASSUME ConSettings, ConInv, Con!Segmented
    PROVE  ConInv'
<1>1. /\ stage = "segment" /\ stage' = "prepare" /\ transcript' = transcript /\ sentence = <<>>
      /\ read = Con!Limit /\ segments' = segments \o Con!NonEmpty(current) /\ kept' = Len(segments')
  BY DEF Con!Segmented
<1>2. transcript \in Transcripts /\ Cutting(segments, current, <<>>, read) /\ SegmentMax \in Nat
  BY <1>1 DEF ConInv, ConSettings
<1>3. PICK l \in Nat : l = Lim(transcript) /\ l = read
  BY <1>1, <1>2, LimitIs
<1>4. PICK done : done = IF current = <<>> THEN segments ELSE Append(segments, current)
  OBVIOUS
<1>5. segments' = done
  <2>1. segments \in Seq(Seq(Nat)) /\ current \in Seq(Nat)
    BY <1>2 DEF Cutting, Chain
  <2>. QED
    BY <1>1, <1>4, <2>1 DEF Con!NonEmpty
<1>6. Cutting(done, <<>>, <<>>, read)
  BY <1>2, <1>4, Flushed
<1>7. Chain(done) /\ EndOf(done, Len(done)) = l /\ Len(done) \in Nat
  <2>1. Len(<<>>) = 0 /\ Chain(done) /\ read = EndOf(done, Len(done)) + Len(<<>>) + Len(<<>>)
    BY <1>6 DEF Cutting
  <2>2. EndOf(done, Len(done)) \in Nat /\ Len(done) \in Nat
    BY <1>2, <1>6, CuttingIsTyped
  <2>. QED
    BY <1>3, <2>1, <2>2
<1>8. Sendable(done, Len(done), l)
  BY <1>7 DEF Sendable, Filled
<1>9. Con!QuotesWereHeard'
  BY <1>1 DEF Con!QuotesWereHeard
<1>. QED
  BY <1>1, <1>2, <1>3, <1>5, <1>8, <1>9, ConPrepares

-----------------------------------------------------------------------------
(* What is dropped of the segments: as many as would take the excess if all    *)
(* took PerSegment tokens, and one at least.                                   *)

LEMMA Quotients ==
    ASSUME NEW a \in Nat, NEW b \in Nat \ {0}
    PROVE  a \div b \in Nat /\ (a \div b) * b <= a
OBVIOUS

LEMMA Times ==
    ASSUME NEW a \in Nat, NEW b \in Nat, a <= b, NEW c \in Nat
    PROVE  a * c \in Nat /\ b * c \in Nat /\ a * c <= b * c /\ c * a <= c * b /\ a * (c + 1) = a * c + a
OBVIOUS

LEMMA DropIsTight ==
    ASSUME ConSettings, NEW segs, Chain(segs), NEW l \in Nat, EndOf(segs, Len(segs)) = l,
           NEW n \in 0..Len(segs), n > 0, NEW x \in Nat \ {0}, x = Load(segs, n) - MaxRequest,
           NEW d \in Nat, d = Greater(1, x \div PerSegment),
           NEW m \in Nat, m = IF n - d >= 0 THEN n - d ELSE 0
    PROVE  m \in 0..Len(segs) /\ Filled(segs, m, l)
<1>1. /\ SegmentMax \in Nat \ {0} /\ PerSegment \in Nat \ {0} /\ Overhead \in Nat /\ MaxRequest \in Nat
      /\ Len(segs) \in Nat /\ \A i \in 0..Len(segs) : EndOf(segs, i) \in Nat
  BY EndsFollow DEF ConSettings
<1>2. PICK S \in Nat \ {0}, P \in Nat \ {0}, O \in Nat, R \in Nat :
         S = SegmentMax /\ P = PerSegment /\ O = Overhead /\ R = MaxRequest
  BY <1>1
<1>3. PICK q \in Nat : q = x \div P /\ q * P <= x
  BY Quotients
<1>4. n \in Nat /\ m \in 0..n /\ n - m <= d /\ m < n /\ m \in 0..Len(segs) /\ n \in m..Len(segs)
  <2>1. d >= 1
    BY <1>2, <1>3 DEF Greater
  <2>2. PICK g \in Nat : g = Len(segs) /\ n \in Nat /\ n <= g
    BY <1>1
  <2>3. m <= n - 1 /\ n - m <= d
    BY ONLY n \in Nat, n > 0, d \in Nat, m \in Nat, <2>1, m = IF n - d >= 0 THEN n - d ELSE 0
  <2>. QED
    BY <2>2, <2>3
<1>5. PICK e \in Nat, f \in Nat : e = EndOf(segs, m) /\ f = EndOf(segs, n)
  BY <1>1, <1>4
<1>6. f <= e + (n - m) * S
  BY <1>1, <1>2, <1>4, <1>5, EndsGrow
<1>7. f <= l
  <2>1. Len(segs) \in n..Len(segs)
    BY <1>1, <1>4
  <2>2. EndOf(segs, n) + (Len(segs) - n) <= EndOf(segs, Len(segs))
    BY <1>1, <2>1, EndsGrow
  <2>. QED
    BY <1>1, <1>4, <1>5, <2>2
<1>8. x = O + n + f - R
  BY <1>2, <1>5 DEF Load
<1>9. SUFFICES ASSUME S < P, e < l
               PROVE  O + m + e + Smaller(S, l - e) + 1 > R
  BY <1>2, <1>4, <1>5 DEF Filled, Load
<1>10. PICK s \in Nat : s = Smaller(S, l - e) /\ s <= S /\ s <= l - e /\ (s = S \/ s = l - e)
  <2>1. PICK r \in Nat : r = l - e
    BY <1>9
  <2>2. PICK s \in Nat : s = Smaller(S, r) /\ s <= S /\ s <= r /\ (s = S \/ s = r)
    <3>1. CASE S <= r
      BY <3>1 DEF Smaller
    <3>2. CASE ~(S <= r)
      BY <3>2 DEF Smaller
    <3>. QED
      BY <3>1, <3>2
  <2>. QED
    BY <2>1, <2>2
<1>13. m \in Nat /\ n \in Nat /\ e \in Nat /\ f \in Nat /\ s \in Nat /\ l \in Nat /\ x \in Nat \ {0}
       /\ S \in Nat \ {0} /\ O \in Nat /\ R \in Nat
  BY <1>4
<1>14. SUFFICES O + m + e + s + 1 > R
  BY <1>10
<1>11. CASE d = 1
  <2>1. n - m = 1 /\ (n - m) * S = S
    BY <1>2, <1>4, <1>11
  <2>2. f <= e + S
    BY <1>6, <2>1
  <2>3. f <= e + s
    BY ONLY <1>7, <1>10, <1>13, <2>2
  <2>4. O + n + f > R
    BY ONLY <1>8, <1>13
  <2>5. n = m + 1
    BY ONLY <1>13, <2>1
  <2>6. O + m + e + s + 1 > R
    BY ONLY <1>13, <2>3, <2>4, <2>5
  <2>. QED
    BY <1>14, <2>6
<1>12. CASE d # 1
  <2>1. d = q
    BY <1>2, <1>3, <1>12 DEF Greater
  <2>2. PICK k \in Nat : k = n - m /\ k <= q /\ n = m + k
    BY <1>4, <2>1
  <2>3. k * S + k = k * (S + 1) /\ k * (S + 1) <= q * (S + 1)
    <3>1. k * (S + 1) = k * S + k
      BY <2>2, Times
    <3>2. S + 1 \in Nat
      OBVIOUS
    <3>3. k * (S + 1) <= q * (S + 1)
      BY <2>2, <3>2, Times
    <3>. QED
      BY <3>1, <3>3
  <2>4. q * (S + 1) <= q * P
    BY <1>9, Times
  <2>5. PICK y \in Nat, z \in Nat : y = k * S /\ z = q * P /\ y + k <= z /\ z <= x
    <3>1. PICK y \in Nat, z \in Nat, u \in Nat, v \in Nat :
             y = k * S /\ z = q * P /\ u = q * (S + 1) /\ v = k * (S + 1)
      BY Times
    <3>2. y + k = v /\ v <= u /\ u <= z /\ z <= x
      BY <1>3, <2>3, <2>4, <3>1
    <3>3. y + k <= z
      BY ONLY y \in Nat, z \in Nat, u \in Nat, v \in Nat, k \in Nat, <3>2
    <3>. QED
      BY <3>1, <3>2, <3>3
  <2>6. f <= e + y
    BY <1>6, <2>2, <2>5
  <2>7. f <= e + y /\ y + k <= z /\ z <= x /\ n = m + k /\ x = O + n + f - R
    BY <1>8, <2>2, <2>5, <2>6
  <2>8. O + m + e + s + 1 > R
    BY ONLY <1>13, k \in Nat, y \in Nat, z \in Nat, <2>7
  <2>. QED
    BY <1>14, <2>8
<1>. QED
  BY <1>11, <1>12

LEMMA ConDrop ==
    ASSUME ConSettings, ConInv, Con!Drop
    PROVE  ConInv'
<1>1. /\ stage = "prepare" /\ stage' = "prepare" /\ kept > 0 /\ Con!Tokens(kept) > MaxRequest
      /\ kept' = Con!Max({0, kept - Con!Dropped(Con!Tokens(kept) - MaxRequest)})
      /\ segments' = segments /\ transcript' = transcript
  BY DEF Con!Drop
<1>2. transcript \in Transcripts /\ Sendable(segments, kept, Lim(transcript))
  BY <1>1 DEF ConInv
<1>3. PICK l \in Nat : l = Lim(transcript)
  BY <1>2, LimitIs
<1>4. /\ Chain(segments) /\ EndOf(segments, Len(segments)) = l
      /\ kept \in 0..Len(segments) /\ kept \in Nat
  BY <1>2, <1>3, EndsFollow DEF Sendable, ConSettings
<1>5. PICK x \in Nat \ {0} : x = Load(segments, kept) - MaxRequest /\ x = Con!Tokens(kept) - MaxRequest
  <2>1. Con!Tokens(kept) = Load(segments, kept) /\ Load(segments, kept) \in Nat /\ MaxRequest \in Nat
    BY <1>4, TokensAre DEF ConSettings
  <2>. QED
    BY <1>1, <2>1
<1>6. PICK q \in Nat : q = x \div PerSegment
  BY Quotients DEF ConSettings
<1>7. PICK d \in Nat : d = Greater(1, q) /\ d = Con!Dropped(x)
  <2>1. Con!Max({1, q}) = Greater(1, q)
    BY OfTwo
  <2>2. Con!Dropped(x) = Con!Max({1, q})
    BY <1>6 DEF Con!Dropped
  <2>3. Greater(1, q) \in Nat
    BY DEF Greater
  <2>. QED
    BY <2>1, <2>2, <2>3
<1>8. PICK m \in Nat : m = (IF kept - d >= 0 THEN kept - d ELSE 0)
  <2>1. PICK k \in Int : k = kept - d
    BY <1>4
  <2>2. (IF k >= 0 THEN k ELSE 0) \in Nat
    OBVIOUS
  <2>. QED
    BY <2>1, <2>2
<1>9. kept' = m
  <2>1. PICK S : S = {0, kept - d}
    OBVIOUS
  <2>2. kept' = Max(S)
    BY <1>1, <1>5, <1>7, <2>1, ConOperators
  <2>3. m \in S /\ \A y \in S : y <= m
    BY <1>4, <1>8, <2>1
  <2>4. S \subseteq Int
    BY <1>4, <2>1
  <2>5. Max(S) = CHOOSE y \in S : \A z \in S : y >= z
    BY DEF Max
  <2>6. Max(S) \in S /\ \A z \in S : Max(S) >= z
    <3>1. \E y \in S : \A z \in S : y >= z
      BY <2>3, <2>4
    <3>. QED
      BY <2>5, <3>1
  <2>7. Max(S) = m
    <3>1. PICK M \in Int : M = Max(S)
      BY <2>4, <2>6
    <3>2. M >= m /\ M <= m
      BY <2>3, <2>6, <3>1
    <3>. QED
      BY ONLY M \in Int, m \in Nat, <3>1, <3>2
  <2>. QED
    BY <2>2, <2>7
<1>10. m \in 0..Len(segments) /\ Filled(segments, m, l)
  BY <1>1, <1>4, <1>5, <1>6, <1>7, <1>8, DropIsTight
<1>11. Sendable(segments', kept', Lim(transcript))
  BY <1>1, <1>3, <1>4, <1>9, <1>10 DEF Sendable
<1>12. Con!QuotesWereHeard'
  BY <1>1 DEF Con!QuotesWereHeard
<1>. QED
  BY <1>1, <1>2, <1>11, <1>12, ConPrepares

LEMMA ConPrepared ==
    ASSUME ConSettings, ConInv, Con!Prepared
    PROVE  ConInv'
<1>1. /\ stage = "prepare" /\ stage' = "chat" /\ kept > 0 /\ Con!Tokens(kept) <= MaxRequest /\ kept' = kept
      /\ segments' = segments /\ transcript' = transcript
  BY DEF Con!Prepared
<1>2. transcript \in Transcripts /\ Sendable(segments, kept, Lim(transcript))
  BY <1>1 DEF ConInv
<1>3. Load(segments, kept) <= MaxRequest
  BY <1>1, <1>2, TokensAre DEF Sendable
<1>4. Con!QuotesWereHeard'
  BY <1>1 DEF Con!QuotesWereHeard
<1>. QED
  BY <1>1, <1>2, <1>3, <1>4, ConPrepares

\* What an end leaves to show.
LEMMA ConEnds ==
    ASSUME ConSettings, ConInv, stage \in {"prepare", "chat"}, stage = "prepare" => kept = 0,
           NEW outcome, Con!Ends(outcome), Con!QuotesWereHeard'
    PROVE  ConInv'
<1>1. /\ stage' = "done" /\ kept' = kept /\ segments' = segments /\ transcript' = transcript
  BY DEF Con!Ends
<1>2. /\ transcript \in Transcripts /\ Sendable(segments', kept', Lim(transcript))
      /\ kept' > 0 => Load(segments', kept') <= MaxRequest
  BY <1>1 DEF ConInv
<1>. QED
  BY <1>1, <1>2, ConPrepares

LEMMA ConFails ==
    ASSUME ConSettings, ConInv, stage \in {"prepare", "chat"}, stage = "prepare" => kept = 0,
           NEW error, NEW wait, Con!Ends([error |-> error, wait |-> wait])
    PROVE  ConInv'
<1>1. "quotes" \notin DOMAIN conclusion'
  BY DEF Con!Ends
<1>2. Con!QuotesWereHeard'
  BY <1>1 DEF Con!QuotesWereHeard
<1>. QED
  BY <1>2, ConEnds

LEMMA ConChatFails ==
    ASSUME ConSettings, ConInv, Con!ChatFails
    PROVE  ConInv'
<1>1. PICK wait : Con!Ends([error |-> "api", wait |-> wait])
  BY Zenon DEF Con!ChatFails
<1>2. stage \in {"prepare", "chat"} /\ stage # "prepare"
  BY DEF Con!ChatFails
<1>. QED
  BY <1>1, <1>2, ConFails

LEMMA ConDoesNotFit ==
    ASSUME ConSettings, ConInv, Con!DoesNotFit
    PROVE  ConInv'
<1>1. Con!Ends([error |-> "transcript_does_not_fit", wait |-> Con!None])
  BY DEF Con!DoesNotFit
<1>2. stage \in {"prepare", "chat"} /\ kept = 0
  BY DEF Con!DoesNotFit
<1>. QED
  BY <1>1, <1>2, ConFails

\* A segment has been heard, and no two of them end at the same word.
LEMMA SegmentsDiffer ==
    ASSUME ConSettings, NEW segs, Chain(segs), NEW m \in 1..Len(segs), NEW n \in 1..Len(segs)
    PROVE  /\ \E place \in 0..EndOf(segs, Len(segs)) :
                 segs[m] = Con!Words(place, Len(segs[m])) /\ place + Len(segs[m]) <= EndOf(segs, Len(segs))
           /\ segs[m] = segs[n] => m = n
<1>1. /\ SegmentMax \in Nat \ {0} /\ Len(segs) \in Nat
      /\ \A i \in 0..Len(segs) : EndOf(segs, i) \in Nat
      /\ \A i \in 1..Len(segs) : EndOf(segs, i) = EndOf(segs, i - 1) + Len(segs[i])
  BY EndsFollow DEF ConSettings
<1>2. PICK p \in Nat, e \in Nat, l \in Nat, k \in Nat :
         /\ p = EndOf(segs, m - 1) /\ e = EndOf(segs, m) /\ l = EndOf(segs, Len(segs))
         /\ k = Len(segs[m]) /\ e = p + k
  <2>1. m - 1 \in 0..Len(segs) /\ m \in 0..Len(segs) /\ Len(segs) \in 0..Len(segs)
    BY <1>1
  <2>2. Len(segs[m]) \in Nat
    BY DEF Chain
  <2>. QED
    BY <1>1, <2>1, <2>2
<1>3. e <= l
  <2>1. m \in 0..Len(segs) /\ Len(segs) \in m..Len(segs)
    BY <1>1
  <2>2. EndOf(segs, m) + (Len(segs) - m) <= EndOf(segs, Len(segs))
    BY <1>1, <2>1, EndsGrow
  <2>. QED
    BY <1>1, <1>2, <2>2
<1>4. p \in 0..l /\ segs[m] = Con!Words(p, k) /\ p + k <= l
  BY <1>2, <1>3 DEF Chain
<1>5. ASSUME NEW a \in 1..Len(segs), NEW b \in 1..Len(segs), segs[a] = segs[b], a < b
      PROVE  FALSE
  <2>1. a \in 0..Len(segs) /\ b \in a..Len(segs) /\ a # 0 /\ b # 0
    BY <1>1, <1>5
  <2>2. EndOf(segs, a) + (b - a) <= EndOf(segs, b)
    BY <1>1, <2>1, EndsGrow
  <2>3. EndOf(segs, a) = EndOf(segs, b)
    BY <1>5, <2>1 DEF EndOf
  <2>4. EndOf(segs, a) \in Nat
    BY <1>1, <2>1
  <2>. QED
    BY <1>1, <1>5, <2>2, <2>3, <2>4
<1>6. segs[m] = segs[n] => m = n
  <2>1. m \in Nat /\ n \in Nat
    BY <1>1
  <2>2. m < n \/ n < m \/ m = n
    BY <2>1
  <2>. QED
    BY <1>5, <2>2
<1>. QED
  BY <1>2, <1>4, <1>6

LEMMA ConConclude ==
    ASSUME ConSettings, ConInv, Con!Conclude
    PROVE  ConInv'
<1>1. stage = "chat"
  BY DEF Con!Conclude
<1>2. PICK answer \in Con!Answer :
         Con!Ends(IF Con!Valid(answer) THEN [status |-> answer.status, quotes |-> Con!Opinions(answer)]
                                       ELSE [error |-> "malformed_conclusion", wait |-> Con!None])
  BY Zenon DEF Con!Conclude
<1>3. CASE ~Con!Valid(answer)
  BY <1>1, <1>2, <1>3, ConFails
<1>4. CASE Con!Valid(answer)
  <2>1. PICK status, quotes : status = answer.status /\ quotes = Con!Opinions(answer)
    OBVIOUS
  <2>2. Con!Ends([status |-> status, quotes |-> quotes])
    BY <1>2, <1>4, <2>1
  <2>3. /\ stage' = "done" /\ transcript' = transcript
        /\ conclusion' = [status |-> status, quotes |-> quotes]
    BY <2>2 DEF Con!Ends
  <2>4. transcript \in Transcripts /\ Sendable(segments, kept, Lim(transcript))
    BY <1>1 DEF ConInv
  <2>5. PICK l \in Nat : l = Lim(transcript) /\ l <= transcript.length /\ transcript.length \in Nat
    BY <2>4, LimitIs
  <2>6. Chain(segments) /\ EndOf(segments, Len(segments)) = l /\ kept \in 0..Len(segments) /\ Len(segments) \in Nat
    BY <2>4, <2>5, EndsFollow DEF Sendable, ConSettings
  <2>7. PICK items : items = answer.likes \o answer.dislikes
    OBVIOUS
  <2>8. /\ \A i \in DOMAIN items : items[i] \in 1..kept
        /\ \A i, j \in DOMAIN items : items[i] = items[j] => i = j
        /\ status = "sufficient" <=> items # <<>>
    <3>1. status \in {"sufficient", "insufficient", "other"}
      BY <1>2, <2>1 DEF Con!Answer
    <3>2. /\ status # "other"
          /\ status = "insufficient" => items = <<>>
          /\ status = "sufficient" => items # <<>>
      BY <1>4, <2>1, <2>7 DEF Con!Valid
    <3>3. /\ \A i \in DOMAIN items : items[i] \in 1..kept
          /\ \A i, j \in DOMAIN items : items[i] = items[j] => i = j
      BY Zenon, <1>4, <2>7 DEF Con!Valid
    <3>. QED
      BY <3>1, <3>2, <3>3
  <2>9. quotes = [i \in DOMAIN items |-> segments[items[i]]]
    BY <2>1, <2>7 DEF Con!Opinions
  <2>10. \A i \in DOMAIN items : items[i] \in 1..Len(segments)
    BY <2>6, <2>8
  <2>11. DOMAIN quotes = DOMAIN items /\ \A i \in DOMAIN items : quotes[i] = segments[items[i]]
    BY <2>9
  <2>12. ASSUME NEW i \in DOMAIN quotes
         PROVE  \E place \in 0..transcript.length :
                   LET quote == quotes[i] IN
                   quote = Con!Words(place, Len(quote)) /\ place + Len(quote) <= transcript.length
    <3>1. PICK m \in 1..Len(segments) : m = items[i] /\ quotes[i] = segments[m]
      BY <2>10, <2>11
    <3>2. PICK place \in 0..l : /\ segments[m] = Con!Words(place, Len(segments[m]))
                                /\ place + Len(segments[m]) <= l
      BY <2>6, SegmentsDiffer
    <3>3. Len(segments[m]) \in Nat
      BY <2>6 DEF Chain
    <3>4. place \in 0..transcript.length /\ place + Len(segments[m]) <= transcript.length
      BY <2>5, <3>2, <3>3
    <3>. QED
      BY <3>1, <3>2, <3>4
  <2>13. ASSUME NEW i \in DOMAIN quotes, NEW j \in DOMAIN quotes, quotes[i] = quotes[j]
         PROVE  i = j
    <3>1. PICK m \in 1..Len(segments), n \in 1..Len(segments) :
             m = items[i] /\ n = items[j] /\ segments[m] = segments[n]
      BY <2>10, <2>11, <2>13
    <3>2. m = n
      BY <2>6, <3>1, SegmentsDiffer
    <3>. QED
      BY <2>8, <2>11, <3>1, <3>2
  <2>14. quotes = <<>> <=> items = <<>>
    <3>1. DOMAIN quotes = DOMAIN items
      BY <2>11
    <3>2. items \in Seq(Int)
      <4>1. \A s \in Con!Lists : s \in Seq(Int)
        BY <2>6 DEF Con!Lists
      <4>2. answer.likes \in Con!Lists /\ answer.dislikes \in Con!Lists
        BY <1>2 DEF Con!Answer
      <4>. QED
        BY <2>7, <4>1, <4>2
    <3>. QED
      BY <2>9, <3>1, <3>2
  <2>15. Con!QuotesWereHeard'
    <3>1. conclusion'.quotes = quotes /\ conclusion'.status = status
      BY <2>3
    <3>. QED
      BY <2>3, <2>8, <2>12, <2>13, <2>14, <3>1 DEF Con!QuotesWereHeard
  <2>. QED
    BY <1>1, <2>2, <2>15, ConEnds
<1>. QED
  BY <1>3, <1>4

LEMMA ConNext ==
    ASSUME ConSettings, ConInv, [Con!Next]_(Con!vars)
    PROVE  ConInv'
<1>1. CASE Con!Next
  BY <1>1, ConBegin, ConNextSentence, ConCutPiece, ConJoin, ConSegmented, ConDrop, ConPrepared,
     ConDoesNotFit, ConChatFails, ConConclude DEF Con!Next
<1>2. CASE UNCHANGED Con!vars
  BY <1>2 DEF Con!vars, ConInv, Con!QuotesWereHeard
<1>. QED
  BY <1>1, <1>2

\* What the invariant says of what is sent.
LEMMA ConSends ==
    ASSUME ConSettings, ConInv
    PROVE  Con!BeginningIsSent
<1>1. SUFFICES ASSUME stage \in {"chat", "done"} PROVE Con!BeginningIsSent
  BY DEF Con!BeginningIsSent
<1>2. transcript \in Transcripts /\ Sendable(segments, kept, Lim(transcript))
      /\ (kept > 0 => Load(segments, kept) <= MaxRequest)
  BY <1>1 DEF ConInv
<1>3. PICK l \in Nat : l = Lim(transcript) /\ l = Con!Limit
  BY <1>2, LimitIs
<1>4. /\ Chain(segments) /\ kept \in 0..Len(segments) /\ EndOf(segments, Len(segments)) = l
      /\ Filled(segments, kept, l) /\ Len(segments) \in Nat /\ SegmentMax \in Nat \ {0}
      /\ \A n \in 0..Len(segments) : EndOf(segments, n) \in Nat
  BY <1>2, <1>3, EndsFollow DEF Sendable, ConSettings
<1>5. \A n : Con!End(n) = EndOf(segments, n)
  BY DEF Con!End, Con!Last, EndOf
<1>6. \A n \in 1..kept : /\ Len(segments[n]) \in 1..SegmentMax
                         /\ segments[n] = Con!Words(Con!End(n - 1), Len(segments[n]))
  <2>1. \A n \in 1..kept : n \in 1..Len(segments)
    BY <1>4
  <2>. QED
    BY <1>4, <1>5, <2>1 DEF Chain
<1>7. PICK e \in Nat : e = EndOf(segments, kept) /\ e = Con!End(kept) /\ e <= l
  <2>1. Len(segments) \in kept..Len(segments) /\ EndOf(segments, kept) \in Nat
    BY <1>4
  <2>2. EndOf(segments, kept) + (Len(segments) - kept) <= EndOf(segments, Len(segments))
    BY <1>4, <2>1, EndsGrow
  <2>. QED
    BY <1>4, <1>5, <2>1, <2>2
<1>8. Con!Tokens(kept) = Load(segments, kept) /\ Load(segments, kept) \in Nat
  BY <1>4, TokensAre
<1>9. SegmentMax < PerSegment /\ Con!End(kept) < Con!Limit =>
         Con!Tokens(kept) + Con!Min({SegmentMax, Con!Limit - Con!End(kept)}) + 1 > MaxRequest
  <2>1. SUFFICES ASSUME SegmentMax < PerSegment, e < l
                 PROVE  Con!Tokens(kept) + Con!Min({SegmentMax, l - e}) + 1 > MaxRequest
    BY <1>3, <1>7
  <2>2. PICK r \in Nat : r = l - e
    BY <1>7, <2>1
  <2>3. Con!Min({SegmentMax, r}) = Smaller(SegmentMax, r)
    BY <1>4, OfTwo
  <2>4. Load(segments, kept) + Smaller(SegmentMax, l - e) + 1 > MaxRequest
    BY <1>4, <1>7, <2>1 DEF Filled
  <2>. QED
    BY <1>8, <2>2, <2>3, <2>4
<1>. QED
  BY <1>2, <1>3, <1>6, <1>7, <1>8, <1>9 DEF Con!BeginningIsSent

\* The language model is sent the beginning of the transcript, word by word, and as much of it as
\* the budget has room for; and what is kept of its answer quotes what was said, no piece twice,
\* whatever it answers (segment, prepare, validate_output and opinions of letsplays/conclusion.py).
THEOREM ConclusionHolds ==
    ASSUME ConSettings
    PROVE  Con!Spec => []Con!ConclusionKept
<1>1. Con!Init => ConInv
  BY ConInit
<1>2. ConInv /\ [Con!Next]_(Con!vars) => ConInv'
  BY ConNext
<1>3. ConInv => Con!ConclusionKept
  BY ConSends DEF ConInv, Con!ConclusionKept
<1>. QED
  BY <1>1, <1>2, <1>3, PTL DEF Con!Spec

------------------------------------------------------------------------------
(* The answers of the language models.                                       *)

\* What is published of a summary was said and cites reviews that were sent (summaries/contour.py,
\* groq_adapter.py), and a conclusion quotes what was said in the video, no piece of it twice
\* (letsplays/conclusion.py).
THEOREM AnswersHold ==
    ASSUME AnsSettings, ConSettings
    PROVE  Ans!Spec /\ Con!Spec => []AnswersKept
<1>1. Ans!Spec => []Ans!SummaryAnswerKept
  BY SummaryAnswerHolds
<1>2. Con!Spec => []Con!ConclusionKept
  BY ConclusionHolds
<1>. QED
  BY <1>1, <1>2, PTL DEF AnswersKept
=============================================================================
