------------------------ MODULE ReviewCollection_proofs ------------------------
(* Proofs about ReviewCollection, for every number of workers, routes, days and *)
(* snapshots, whatever the source shows, and any number of crashes and expiries.*)
EXTENDS ReviewCollection, FiniteSetTheorems, WellFoundedInduction, TLAPS

-----------------------------------------------------------------------------
(* The inductive invariant.                                                    *)

Outcome == {"started", "succeeded", "failed", "invalid", "abandoned", "superseded"}
Call    == [job : Job, token : Nat, gen : 0..MaxRestarts, page : Nat, outcome : Outcome]

\* What the source showed decides nothing here: visited may be anything.
JobRow(Visited) ==
    [state : State, token : Nat, live : BOOLEAN, gen : 0..MaxRestarts, page : Nat,
     total : Nat \cup {NoTotal}, fetched : Nat, unique : Nat, visited : Visited]
IsJob(row) == \E Visited : row \in JobRow(Visited)

Working == {"start", "fetch", "commit"}
Memory(Tries, Write) ==
    [pc : {"idle"} \cup Working, job : Job \cup {NoJob}, token : Nat, gen : 0..MaxRestarts,
     page : Nat, tries : Tries, write : Write]
IsWorker(m) == /\ \E Tries, Write : m \in Memory(Tries, Write)
               /\ m.pc \in Working => m.job \in Job

Observed(obs) == IsFiniteSet(obs) /\ \A o \in obs : o.job \in Job /\ o.gen \in 0..MaxRestarts

Typed == /\ jobs = [j \in Job |-> jobs[j]] /\ \A j \in Job : IsJob(jobs[j])
         /\ fetches \subseteq Call /\ IsFiniteSet(fetches)
         /\ Observed(seen)
         /\ head.day \in 0..MaxDay
         /\ cand \in [1..MaxDay -> Standing]
         /\ \A r \in Route : now_at[r] \in DOMAIN Source[r]
         /\ now_at = [r \in Route |-> now_at[r]]
         /\ lock \in Worker \cup {Nobody}
         /\ wk = [w \in Worker |-> wk[w]] /\ \A w \in Worker : IsWorker(wk[w])

SameCall(f, g) == g.job = f.job /\ g.token = f.token /\ g.gen = f.gen /\ g.page = f.page

\* A token stands for one claim, and a claim makes at most one call.
CallsOfClaims ==
    /\ \A f \in fetches : /\ f.token <= jobs[f.job].token /\ f.gen <= jobs[f.job].gen
                          /\ cand[f.job[1]] # "absent"
    /\ \A f, g \in fetches : f.job = g.job /\ f.token = g.token => f = g

ClaimsApart ==
    /\ \A w \in Worker : wk[w].pc \in Working =>
          wk[w].token <= jobs[wk[w].job].token /\ cand[wk[w].job[1]] # "absent"
    /\ \A v, w \in Worker : /\ v # w /\ wk[v].pc \in Working /\ wk[w].pc \in Working
                            /\ wk[v].job = wk[w].job
                            => wk[v].token # wk[w].token
    /\ \A w \in Worker, f \in fetches :
          wk[w].pc = "start" => ~(f.job = wk[w].job /\ f.token = wk[w].token)
    /\ \A w \in Worker : wk[w].pc \in {"fetch", "commit"} =>
          \E f \in fetches : SameCall(wk[w], f)

\* What may become of a job that is owned, by the outcome of its call.
RowAfter(row, new, outcome) ==
    /\ IsJob(new) /\ new.token = row.token /\ new.state \notin {"running", "absent"}
    /\ \/ outcome = "succeeded" /\ new.state # "unstable" /\ new.gen = row.gen /\ new.page = row.page + 1
       \/ outcome = "invalid" /\ new.state = "unstable" /\ new.gen = row.gen
       \/ outcome = "invalid" /\ new.gen = row.gen + 1 /\ new.page = 0
       \/ outcome = "failed" /\ new.gen = row.gen /\ new.page = row.page

Writes(row, write) == /\ RowAfter(row, write.job, write.outcome)
                      /\ Observed(write.seen) /\ write.head.day \in 0..MaxDay

\* A transaction that has decided holds the lock of the game, still owns its job, and has
\* read the row it is about to write.
DecidedUnderLock ==
    \A w \in Worker : wk[w].pc = "commit" =>
        lock = w /\ Owned(w) /\ Writes(jobs[wk[w].job], wk[w].write)

\* A route has a job for the days the game has a candidate for.
JobsOfCandidates == \A j \in Job : (jobs[j].state = "absent") <=> (cand[j[1]] = "absent")

\* PagesInOrder, of one job and what it has accepted.
Read(j, gen) == {f \in fetches : f.job = j /\ f.gen = gen /\ f.outcome = "succeeded"}
InOrder(row, read) == row.state # "unstable" =>
    {f.page : f \in read} = 0..(row.page - 1) /\ Cardinality(read) = row.page

IInv == /\ Typed /\ CallsOfClaims /\ ClaimsApart /\ DecidedUnderLock /\ JobsOfCandidates
        /\ StartedIsCurrent /\ PageAttemptsBounded
        /\ \A j \in Job : InOrder(jobs[j], Read(j, jobs[j].gen))

LEMMA InOrderIsInOrder == (\A j \in Job : InOrder(jobs[j], Read(j, jobs[j].gen))) <=> PagesInOrder
BY DEF InOrder, Read, PagesInOrder

LEMMA IInvGivesTypeOK == IInv => TypeOK
<1>. SUFFICES ASSUME IInv PROVE TypeOK
  OBVIOUS
<1>1. ASSUME NEW j \in Job
      PROVE  /\ jobs[j].state \in State /\ jobs[j].live \in BOOLEAN /\ jobs[j].gen \in 0..MaxRestarts
             /\ {jobs[j].token, jobs[j].page, jobs[j].fetched, jobs[j].unique} \subseteq Nat
             /\ jobs[j].total \in Nat \cup {NoTotal}
  BY DEF IInv, Typed, IsJob, JobRow
<1>2. fetches \subseteq Fetch
  BY DEF IInv, Typed, Call, Fetch, Outcome
<1>3. ASSUME NEW w \in Worker
      PROVE  wk[w].pc \in {"idle", "start", "fetch", "commit"}
  BY DEF IInv, Typed, IsWorker, Memory, Working
<1>4. \A o \in seen : o.job \in Job /\ o.gen \in 0..MaxRestarts
  BY DEF IInv, Typed, Observed
<1>. QED
  BY <1>1, <1>2, <1>3, <1>4 DEF TypeOK, IInv, Typed

-----------------------------------------------------------------------------
(* Closing calls.                                                              *)

LEMMA EndedCalls ==
    ASSUME Typed, NEW rows, rows \subseteq fetches, NEW outcome \in Outcome,
           fetches' = Ended(rows, outcome)
    PROVE  /\ fetches' \subseteq Call /\ IsFiniteSet(fetches')
           /\ \A f \in fetches' : \E g \in fetches :
                 /\ SameCall(g, f)
                 /\ g \in rows => f.outcome = outcome
                 /\ g \notin rows => f = g
           /\ \A g \in fetches : \E f \in fetches' :
                 /\ SameCall(g, f)
                 /\ g \in rows => f.outcome = outcome
                 /\ g \notin rows => f = g
<1>. DEFINE End(f) == [f EXCEPT !.outcome = outcome]
            image == [f \in fetches |-> IF f \in rows THEN End(f) ELSE f]
<1>1. ASSUME NEW f \in fetches
      PROVE  End(f) \in Call /\ SameCall(f, End(f)) /\ End(f).outcome = outcome
  BY DEF Typed, Call, SameCall
<1>2. fetches' = (fetches \ rows) \cup {End(f) : f \in rows}
  BY DEF Ended
<1>3. image \in Surjection(fetches, fetches')
  <2>. HIDE DEF End
  <2>. QED
    BY <1>2 DEF Surjection
<1>4. IsFiniteSet(fetches')
  BY <1>3, FS_Surjection DEF Typed
<1>5. ASSUME NEW f \in fetches'
      PROVE  \E g \in fetches : /\ SameCall(g, f)
                                /\ g \in rows => f.outcome = outcome
                                /\ g \notin rows => f = g
  <2>1. CASE f \in fetches \ rows
    BY <2>1 DEF SameCall
  <2>2. CASE \E g \in rows : f = End(g)
    <3>. HIDE DEF End
    <3>. QED
      BY <1>1, <2>2
  <2>. HIDE DEF End
  <2>. QED
    BY <1>2, <2>1, <2>2
<1>6. ASSUME NEW g \in fetches
      PROVE  \E f \in fetches' : /\ SameCall(g, f)
                                 /\ g \in rows => f.outcome = outcome
                                 /\ g \notin rows => f = g
  <2>1. CASE g \in rows
    <3>. HIDE DEF End
    <3>. QED
      BY <1>1, <1>2, <2>1
  <2>2. CASE g \notin rows
    BY <1>2, <2>2 DEF SameCall
  <2>. QED
    BY <2>1, <2>2
<1>7. fetches' \subseteq Call
  <2>. HIDE DEF End
  <2>. QED
    BY <1>1, <1>2 DEF Typed
<1>. QED
  BY <1>4, <1>5, <1>6, <1>7

\* The same calls, some with another outcome.
Closed(rows, outcome) ==
    /\ \A f \in fetches' : \E g \in fetches :
          SameCall(g, f) /\ (g \in rows => f.outcome = outcome) /\ (g \notin rows => f = g)
    /\ \A g \in fetches : \E f \in fetches' : SameCall(g, f)

LEMMA EndedIsClosed ==
    ASSUME Typed, NEW rows, rows \subseteq fetches, NEW outcome \in Outcome,
           fetches' = Ended(rows, outcome)
    PROVE  Closed(rows, outcome)
<1>1. \A f \in fetches' : \E g \in fetches :
         SameCall(g, f) /\ (g \in rows => f.outcome = outcome) /\ (g \notin rows => f = g)
  BY EndedCalls
<1>2. \A g \in fetches : \E f \in fetches' :
         SameCall(g, f) /\ (g \in rows => f.outcome = outcome) /\ (g \notin rows => f = g)
  BY EndedCalls
<1>. QED
  BY <1>1, <1>2 DEF Closed

\* The number of calls for a page does not change when some are closed.
LEMMA EndedKeepsAttempts ==
    ASSUME Typed, PageAttemptsBounded, NEW rows, rows \subseteq fetches, NEW outcome \in Outcome,
           fetches' = Ended(rows, outcome)
    PROVE  PageAttemptsBounded'
<1>. DEFINE End(f) == [f EXCEPT !.outcome = outcome]
            image(At_) == [f \in At_ |-> IF f \in rows THEN End(f) ELSE f]
<1>1. ASSUME NEW f \in fetches
      PROVE  SameCall(f, End(f))
  BY DEF Typed, Call, SameCall
<1>2. fetches' = (fetches \ rows) \cup {End(f) : f \in rows}
  BY DEF Ended
<1>3. ASSUME NEW f \in fetches'
      PROVE  Cardinality(FetchesAt(f.job, f.gen, f.page)') <= MaxAttempts
  <2>1. PICK g \in fetches : SameCall(g, f)
    BY EndedCalls
  <2>. DEFINE old == FetchesAt(g.job, g.gen, g.page)
              new == FetchesAt(f.job, f.gen, f.page)'
  <2>2. image(old) \in Surjection(old, new)
    <3>1. \A h \in old : image(old)[h] \in new
      <4>. HIDE DEF End
      <4>. QED
        BY <1>1, <1>2, <2>1 DEF FetchesAt, SameCall
    <3>2. \A h \in new : \E k \in old : image(old)[k] = h
      <4>1. SUFFICES ASSUME NEW h \in new PROVE \E k \in old : image(old)[k] = h
        OBVIOUS
      <4>2. h \in fetches' /\ h.job = f.job /\ h.gen = f.gen /\ h.page = f.page
        BY DEF FetchesAt
      <4>3. CASE h \in fetches \ rows
        BY <2>1, <4>2, <4>3 DEF FetchesAt, SameCall
      <4>4. CASE \E k \in rows : h = End(k)
        <5>1. PICK k \in rows : h = End(k)
          BY <4>4
        <5>2. SameCall(k, h)
          BY <1>1, <5>1
        <5>3. k \in old
          BY <2>1, <4>2, <5>2 DEF FetchesAt, SameCall
        <5>. QED
          BY <5>1, <5>3
      <4>. HIDE DEF End, image, old, new
      <4>. QED
        BY <1>2, <4>2, <4>3, <4>4
    <3>. HIDE DEF old, new, End
    <3>. QED
      BY <3>1, <3>2 DEF Surjection
  <2>3. IsFiniteSet(old)
    BY FS_Subset DEF FetchesAt, Typed
  <2>4. Cardinality(new) <= Cardinality(old) /\ IsFiniteSet(new)
    <3>. HIDE DEF old, new, image
    <3>. QED
      BY <2>2, <2>3, FS_Surjection
  <2>5. Cardinality(old) \in Nat /\ Cardinality(new) \in Nat
    <3>. HIDE DEF old, new
    <3>. QED
      BY <2>3, <2>4, FS_CardinalityType
  <2>6. Cardinality(old) <= MaxAttempts
    BY DEF PageAttemptsBounded
  <2>. HIDE DEF old
  <2>. QED
    BY <2>4, <2>5, <2>6, CollectionAssumption
<1>. QED
  BY <1>3 DEF PageAttemptsBounded

\* A claim still makes at most one call, and the calls a claim makes do not grow.
LEMMA EndedKeepsCalls ==
    ASSUME IInv, NEW rows, rows \subseteq fetches, NEW outcome \in Outcome,
           fetches' = Ended(rows, outcome)
    PROVE  \A f, g \in fetches' : f.job = g.job /\ f.token = g.token => f = g
<1>. DEFINE End(f) == [f EXCEPT !.outcome = outcome]
<1>1. ASSUME NEW f \in fetches
      PROVE  SameCall(f, End(f))
  BY DEF IInv, Typed, Call, SameCall
<1>2. fetches' = (fetches \ rows) \cup {End(f) : f \in rows}
  BY DEF Ended
<1>3. ASSUME NEW f \in fetches'
      PROVE  \E g \in fetches : SameCall(g, f) /\ f = IF g \in rows THEN End(g) ELSE g
  <2>1. CASE f \in fetches \ rows
    BY <2>1 DEF SameCall
  <2>2. CASE \E g \in rows : f = End(g)
    <3>. HIDE DEF End
    <3>. QED
      BY <1>1, <2>2
  <2>. HIDE DEF End
  <2>. QED
    BY <1>2, <2>1, <2>2
<1>4. SUFFICES ASSUME NEW f \in fetches', NEW g \in fetches', f.job = g.job, f.token = g.token
               PROVE  f = g
  OBVIOUS
<1>5. PICK h \in fetches : SameCall(h, f) /\ f = IF h \in rows THEN End(h) ELSE h
  BY <1>3
<1>6. PICK k \in fetches : SameCall(k, g) /\ g = IF k \in rows THEN End(k) ELSE k
  BY <1>3
<1>7. h = k
  BY <1>4, <1>5, <1>6 DEF SameCall, IInv, CallsOfClaims
<1>. HIDE DEF End
<1>. QED
  BY <1>5, <1>6, <1>7

\* What was accepted stays, if calls are closed in another way.
LEMMA EndedReads ==
    ASSUME Typed, NEW rows, rows \subseteq fetches, NEW outcome \in Outcome,
           fetches' = Ended(rows, outcome), NEW j, NEW gen,
           outcome # "succeeded" \/ \A f \in rows : f.job # j,
           \A f \in Read(j, gen) : f \notin rows
    PROVE  Read(j, gen)' = Read(j, gen)
<1>1. ASSUME NEW f \in Read(j, gen)'
      PROVE  f \in Read(j, gen)
  <2>1. f \in fetches' /\ f.job = j /\ f.gen = gen /\ f.outcome = "succeeded"
    BY DEF Read
  <2>2. PICK g \in fetches : /\ SameCall(g, f)
                             /\ g \in rows => f.outcome = outcome
                             /\ g \notin rows => f = g
    BY <2>1, EndedCalls, SMTT(30)
  <2>. QED
    BY <2>1, <2>2 DEF Read, SameCall
<1>2. ASSUME NEW g \in Read(j, gen)
      PROVE  g \in Read(j, gen)'
  <2>1. g \in fetches /\ g \notin rows
    BY DEF Read
  <2>2. PICK f \in fetches' : g \notin rows => f = g
    BY <2>1, EndedCalls
  <2>. QED
    BY <2>1, <2>2 DEF Read
<1>. QED
  BY <1>1, <1>2

-----------------------------------------------------------------------------
(* Steps that leave the calls and the rows of the jobs as they are, but for    *)
(* whether a lease has run out, and the release or crash of a worker.          *)

LEMMA IdleIsWorker == IsWorker(Idle) /\ Idle.pc = "idle"
<1>1. /\ Idle.pc = "idle" /\ Idle.job = NoJob /\ Idle.token = 0 /\ Idle.gen = 0 /\ Idle.page = 0
      /\ Idle \in [pc : {"idle"}, job : {NoJob}, token : {0}, gen : {0}, page : {0}, tries : {0},
                   write : {NoWrite}]
  BY DEF Idle
<1>2. 0 \in 0..MaxRestarts
  BY CollectionAssumption
<1>3. Idle \in Memory({0}, {NoWrite})
  BY <1>1, <1>2 DEF Memory
<1>. QED
  BY <1>1, <1>3 DEF IsWorker, Working

\* Worker w lets go, or none does.
LetsGo(w) == \/ wk' = wk /\ lock' = lock
             \/ wk' = [wk EXCEPT ![w] = Idle] /\ lock' = IF lock = w THEN Nobody ELSE lock

SameButLive(j) ==
    /\ IsJob(jobs'[j]) /\ jobs'[j].state = jobs[j].state /\ jobs'[j].token = jobs[j].token
    /\ jobs'[j].gen = jobs[j].gen /\ jobs'[j].page = jobs[j].page

LEMMA QuietIsSafe ==
    ASSUME IInv, NEW w, LetsGo(w), UNCHANGED <<fetches, seen, head, cand>>,
           jobs' = [j \in Job |-> jobs'[j]], \A j \in Job : SameButLive(j),
           \A r \in Route : now_at'[r] \in DOMAIN Source[r], now_at' = [r \in Route |-> now_at'[r]]
    PROVE  IInv'
<1>1. wk' = [v \in Worker |-> wk'[v]] /\ \A v \in Worker : wk'[v] = wk[v] \/ wk'[v] = Idle
  BY DEF LetsGo, IInv, Typed
<1>2. \A v \in Worker : wk'[v].pc \in Working => wk'[v] = wk[v]
  BY <1>1, IdleIsWorker DEF Working
<1>3. Typed'
  <2>1. \A v \in Worker : IsWorker(wk'[v])
    BY <1>1, IdleIsWorker DEF IInv, Typed
  <2>2. lock' \in Worker \cup {Nobody}
    BY DEF LetsGo, IInv, Typed
  <2>. QED
    BY <1>1, <2>1, <2>2 DEF IInv, Typed, SameButLive, Observed
<1>4. CallsOfClaims'
  BY DEF IInv, Typed, Call, CallsOfClaims, SameButLive
<1>5. ClaimsApart'
  <2>1. \A v \in Worker : wk[v].pc \in Working => wk[v].job \in Job
    BY DEF IInv, Typed, IsWorker
  <2>2. \A v \in Worker : wk'[v].pc \in Working =>
           wk'[v].token <= jobs'[wk'[v].job].token /\ cand'[wk'[v].job[1]] # "absent"
    BY <1>2, <2>1 DEF IInv, ClaimsApart, SameButLive
  <2>3. \A u, v \in Worker : /\ u # v /\ wk'[u].pc \in Working /\ wk'[v].pc \in Working
                            /\ wk'[u].job = wk'[v].job
                            => wk'[u].token # wk'[v].token
    BY <1>2 DEF IInv, ClaimsApart
  <2>4. \A v \in Worker, f \in fetches' :
          wk'[v].pc = "start" => ~(f.job = wk'[v].job /\ f.token = wk'[v].token)
    BY <1>2 DEF IInv, ClaimsApart, Working
  <2>5. \A v \in Worker : wk'[v].pc \in {"fetch", "commit"} =>
          \E f \in fetches' : SameCall(wk'[v], f)
    BY <1>2 DEF IInv, ClaimsApart, Working
  <2>. QED
    BY <2>2, <2>3, <2>4, <2>5 DEF ClaimsApart
<1>6. DecidedUnderLock'
  <2>1. SUFFICES ASSUME NEW v \in Worker, wk'[v].pc = "commit"
                 PROVE  lock' = v /\ Owned(v)' /\ Writes(jobs'[wk'[v].job], wk'[v].write)
    BY DEF DecidedUnderLock
  <2>2. wk'[v] = wk[v] /\ wk[v].job \in Job
    BY <1>2, <2>1 DEF Working, IInv, Typed, IsWorker
  <2>3. lock = v /\ Owned(v) /\ Writes(jobs[wk[v].job], wk[v].write)
    BY <2>1, <2>2 DEF IInv, DecidedUnderLock
  <2>4. lock' = v
    BY <2>1, <2>2, <2>3, IdleIsWorker DEF LetsGo, IInv, Typed
  <2>5. Owned(v)'
    BY <2>2, <2>3 DEF Owned, SameButLive
  <2>6. Writes(jobs'[wk'[v].job], wk'[v].write)
    BY <2>2, <2>3 DEF Writes, RowAfter, SameButLive
  <2>. QED
    BY <2>4, <2>5, <2>6
<1>7. JobsOfCandidates' /\ StartedIsCurrent' /\ PageAttemptsBounded'
  <2>1. JobsOfCandidates'
    BY DEF IInv, JobsOfCandidates, SameButLive
  <2>2. StartedIsCurrent'
    BY DEF IInv, Typed, Call, StartedIsCurrent, SameButLive
  <2>3. PageAttemptsBounded'
    BY DEF IInv, PageAttemptsBounded, FetchesAt
  <2>. QED
    BY <2>1, <2>2, <2>3
<1>8. \A j \in Job : InOrder(jobs[j], Read(j, jobs[j].gen))'
  <2>1. SUFFICES ASSUME NEW j \in Job PROVE InOrder(jobs[j], Read(j, jobs[j].gen))'
    OBVIOUS
  <2>2. Read(j, jobs[j].gen)' = Read(j, jobs[j].gen)
    BY DEF Read, SameButLive
  <2>. QED
    BY <2>2 DEF IInv, InOrder, SameButLive
<1>. QED
  BY <1>3, <1>4, <1>5, <1>6, <1>7, <1>8 DEF IInv

-----------------------------------------------------------------------------
(* Claims and recoveries.                                                      *)

\* What the claiming transaction may do to a job.
Reclaimed(j) ==
    /\ IsJob(jobs'[j]) /\ jobs'[j].gen = jobs[j].gen /\ jobs'[j].page = jobs[j].page
    /\ \/ jobs'[j] = jobs[j]
       \/ /\ j \notin RowLocked /\ jobs'[j].token > jobs[j].token
          /\ jobs[j].state \in {"pending", "retryable"} \/ j \in Stale
          /\ jobs'[j].state \in {"running", "failed", "retryable"}

Claims(w) ==
    \/ wk' = wk
    \/ /\ wk[w].pc = "idle" /\ wk' = [wk EXCEPT ![w] = wk'[w]]
       /\ IsWorker(wk'[w]) /\ wk'[w].pc = "start"
       /\ jobs'[wk'[w].job] # jobs[wk'[w].job] /\ wk'[w].token = jobs'[wk'[w].job].token

StaleCalls == {f \in fetches : f.job \in Stale /\ f.outcome = "started"}

LEMMA ReclaimsIsSafe ==
    ASSUME IInv, NEW w \in Worker, Claims(w), UNCHANGED <<seen, head, cand, now_at, lock>>,
           jobs' = [j \in Job |-> jobs'[j]], \A j \in Job : Reclaimed(j),
           fetches' = Ended(StaleCalls, "abandoned")
    PROVE  IInv'
<1>1. /\ StaleCalls \subseteq fetches /\ "abandoned" \in Outcome /\ "abandoned" # "succeeded"
      /\ Typed /\ PageAttemptsBounded
  BY DEF StaleCalls, Outcome, IInv
<1>2. /\ fetches' \subseteq Call /\ IsFiniteSet(fetches')
      /\ \A f \in fetches' : \E g \in fetches :
            /\ SameCall(g, f)
            /\ g \in StaleCalls => f.outcome = "abandoned"
            /\ g \notin StaleCalls => f = g
      /\ \A g \in fetches : \E f \in fetches' : SameCall(g, f)
  <2>1. \A g \in fetches : \E f \in fetches' : /\ SameCall(g, f)
                                               /\ g \in StaleCalls => f.outcome = "abandoned"
                                               /\ g \notin StaleCalls => f = g
    BY <1>1, EndedCalls
  <2>2. \A f \in fetches' : \E g \in fetches : /\ SameCall(g, f)
                                               /\ g \in StaleCalls => f.outcome = "abandoned"
                                               /\ g \notin StaleCalls => f = g
    BY <1>1, EndedCalls
  <2>3. fetches' \subseteq Call /\ IsFiniteSet(fetches')
    BY <1>1, EndedCalls
  <2>. QED
    BY <2>1, <2>2, <2>3
<1>3. ASSUME NEW j \in Job
      PROVE  /\ jobs[j].token \in Nat /\ jobs'[j].token \in Nat /\ jobs[j].token <= jobs'[j].token
             /\ jobs[j].state = "absent" => jobs'[j] = jobs[j]
             /\ j[1] \in Nat
  <2>1. IsJob(jobs[j]) /\ Reclaimed(j)
    BY DEF IInv, Typed
  <2>. QED
    BY <2>1, CollectionAssumption, SMTT(30) DEF Reclaimed, IsJob, JobRow, Stale, Job
<1>4. \A f \in fetches : f.job \in Job /\ f.token \in Nat
  BY DEF IInv, Typed, Call
<1>5. \A v \in Worker : wk[v].pc \in Working => wk[v].job \in Job /\ wk[v].token \in Nat
  <2>1. SUFFICES ASSUME NEW v \in Worker, wk[v].pc \in Working
                 PROVE  wk[v].job \in Job /\ wk[v].token \in Nat
    OBVIOUS
  <2>2. IsWorker(wk[v])
    BY DEF IInv, Typed
  <2>3. PICK T, W : wk[v] \in Memory(T, W)
    BY <2>2 DEF IsWorker
  <2>. QED
    BY <2>1, <2>2, <2>3 DEF IsWorker, Memory
<1>6. Typed'
  <2>1. wk' = [v \in Worker |-> wk'[v]] /\ \A v \in Worker : IsWorker(wk'[v])
    BY DEF Claims, IInv, Typed
  <2>. QED
    BY <1>2, <2>1 DEF IInv, Typed, Reclaimed, Observed
<1>7. CallsOfClaims'
  <2>1. \A f \in fetches' : f.token <= jobs'[f.job].token /\ f.gen <= jobs'[f.job].gen /\ cand'[f.job[1]] # "absent"
    <3>1. SUFFICES ASSUME NEW f \in fetches'
                   PROVE  f.token <= jobs'[f.job].token /\ f.gen <= jobs'[f.job].gen /\ cand'[f.job[1]] # "absent"
      OBVIOUS
    <3>2. PICK g \in fetches : SameCall(g, f)
      BY <1>2
    <3>3. g.token <= jobs[g.job].token /\ g.gen <= jobs[g.job].gen /\ cand[g.job[1]] # "absent"
      BY DEF IInv, CallsOfClaims
    <3>. QED
      BY <1>3, <1>4, <3>2, <3>3 DEF SameCall, Reclaimed
  <2>2. \A f, g \in fetches' : f.job = g.job /\ f.token = g.token => f = g
    BY <1>1, EndedKeepsCalls
  <2>. QED
    BY <2>1, <2>2 DEF CallsOfClaims
<1>8. ASSUME wk' = wk
      PROVE  ClaimsApart'
  <2>1. \A v \in Worker : wk'[v].pc \in Working =>
            wk'[v].token <= jobs'[wk'[v].job].token /\ cand'[wk'[v].job[1]] # "absent"
    BY <1>3, <1>5, <1>8 DEF IInv, ClaimsApart
  <2>2. \A v \in Worker, f \in fetches' :
          wk'[v].pc = "start" => ~(f.job = wk'[v].job /\ f.token = wk'[v].token)
    BY <1>2, <1>8 DEF IInv, ClaimsApart, SameCall
  <2>3. \A v \in Worker : wk'[v].pc \in {"fetch", "commit"} =>
          \E f \in fetches' : SameCall(wk'[v], f)
    BY <1>2, <1>8 DEF IInv, ClaimsApart, SameCall
  <2>. QED
    BY <1>8, <2>1, <2>2, <2>3 DEF IInv, ClaimsApart
<1>9. ASSUME /\ wk[w].pc = "idle" /\ wk' = [wk EXCEPT ![w] = wk'[w]]
             /\ IsWorker(wk'[w]) /\ wk'[w].pc = "start"
             /\ jobs'[wk'[w].job] # jobs[wk'[w].job] /\ wk'[w].token = jobs'[wk'[w].job].token
      PROVE  ClaimsApart'
  <2>. DEFINE j == wk'[w].job
  <2>1. \A v \in Worker : v # w => wk'[v] = wk[v]
    BY <1>9 DEF IInv, Typed
  <2>2. j \in Job /\ jobs'[j].token > jobs[j].token /\ cand[j[1]] # "absent"
    <3>1. j \in Job
      BY <1>9 DEF IsWorker, Working
    <3>2. jobs'[j].token > jobs[j].token
      BY <1>9, <3>1 DEF Reclaimed
    <3>3. cand[j[1]] # "absent"
      BY <1>3, <1>9, <3>1 DEF IInv, JobsOfCandidates, Stale
    <3>. QED
      BY <1>3, <3>1, <3>2, <3>3
  <2>3. \A v \in Worker : wk'[v].pc \in Working =>
           wk'[v].token <= jobs'[wk'[v].job].token /\ cand'[wk'[v].job[1]] # "absent"
    BY <1>3, <1>5, <1>9, <2>1, <2>2 DEF IInv, ClaimsApart
  <2>4. \A u, v \in Worker : /\ u # v /\ wk'[u].pc \in Working /\ wk'[v].pc \in Working
                            /\ wk'[u].job = wk'[v].job
                            => wk'[u].token # wk'[v].token
    <3>1. \A v \in Worker : v # w /\ wk[v].pc \in Working /\ wk[v].job = j => wk[v].token < wk'[w].token
      BY <1>3, <1>5, <1>9, <2>2 DEF IInv, ClaimsApart
    <3>2. wk'[w].token \in Nat
      BY <1>3, <1>9, <2>2
    <3>. QED
      BY <1>5, <2>1, <3>1, <3>2 DEF IInv, ClaimsApart
  <2>5. \A v \in Worker, f \in fetches' :
          wk'[v].pc = "start" => ~(f.job = wk'[v].job /\ f.token = wk'[v].token)
    <3>1. \A f \in fetches : f.job = j => f.token < wk'[w].token
      BY <1>3, <1>4, <1>9, <2>2 DEF IInv, CallsOfClaims
    <3>2. \A f \in fetches' : f.job = j => f.token # wk'[w].token
      BY <1>2, <1>3, <1>4, <1>9, <2>2, <3>1 DEF SameCall
    <3>. QED
      BY <1>2, <2>1, <3>2 DEF IInv, ClaimsApart, SameCall
  <2>6. \A v \in Worker : wk'[v].pc \in {"fetch", "commit"} =>
          \E f \in fetches' : SameCall(wk'[v], f)
    BY <1>2, <1>9, <2>1 DEF IInv, ClaimsApart, SameCall
  <2>. QED
    BY <2>3, <2>4, <2>5, <2>6 DEF ClaimsApart
<1>10. ClaimsApart'
  BY <1>8, <1>9 DEF Claims
<1>11. DecidedUnderLock'
  <2>1. SUFFICES ASSUME NEW v \in Worker, wk'[v].pc = "commit"
                 PROVE  lock' = v /\ Owned(v)' /\ Writes(jobs'[wk'[v].job], wk'[v].write)
    BY DEF DecidedUnderLock
  <2>2. wk'[v] = wk[v] /\ wk[v].pc = "commit"
    BY <2>1 DEF Claims, IInv, Typed
  <2>3. jobs'[wk[v].job] = jobs[wk[v].job]
    <3>1. wk[v].job \in RowLocked
      BY <2>2 DEF RowLocked, At
    <3>2. wk[v].job \in Job
      BY <1>5, <2>2 DEF Working
    <3>. QED
      BY <3>1, <3>2 DEF Reclaimed
  <2>. QED
    BY <2>2, <2>3 DEF IInv, DecidedUnderLock, Owned
<1>12. JobsOfCandidates'
  <2>1. \A i \in Job : (jobs'[i].state = "absent") <=> (jobs[i].state = "absent")
    BY DEF Reclaimed, Stale
  <2>. QED
    BY <2>1 DEF IInv, JobsOfCandidates
<1>13. StartedIsCurrent'
  <2>1. SUFFICES ASSUME NEW f \in fetches', f.outcome = "started"
                 PROVE  jobs'[f.job].state = "running" /\ jobs'[f.job].token = f.token
    BY DEF StartedIsCurrent
  <2>2. f \in fetches /\ f \notin StaleCalls
    BY <1>2, <2>1
  <2>3. f.job \in Job /\ f.job \notin Stale /\ jobs[f.job].state = "running" /\ jobs[f.job].token = f.token
    BY <1>4, <2>1, <2>2 DEF IInv, StartedIsCurrent, StaleCalls
  <2>4. jobs'[f.job] = jobs[f.job]
    BY <2>3 DEF Reclaimed
  <2>. QED
    BY <2>3, <2>4
<1>14. PageAttemptsBounded'
  BY <1>1, EndedKeepsAttempts
<1>15. \A j \in Job : InOrder(jobs[j], Read(j, jobs[j].gen))'
  <2>1. SUFFICES ASSUME NEW j \in Job PROVE InOrder(jobs[j], Read(j, jobs[j].gen))'
    OBVIOUS
  <2>2. jobs'[j].gen = jobs[j].gen
    BY DEF Reclaimed
  <2>3. \A gen : Read(j, gen)' = Read(j, gen)
    BY <1>1, EndedReads DEF Read, StaleCalls
  <2>4. Read(j, jobs[j].gen)' = Read(j, jobs[j].gen)
    BY <2>2, <2>3 DEF Read
  <2>5. jobs'[j].state # "unstable" => jobs[j].state # "unstable"
    BY DEF Reclaimed, Stale
  <2>6. jobs'[j].page = jobs[j].page
    BY DEF Reclaimed
  <2>7. InOrder(jobs[j], Read(j, jobs[j].gen))
    BY DEF IInv
  <2>. QED
    BY <2>4, <2>5, <2>6, <2>7 DEF InOrder
<1>. QED
  BY <1>6, <1>7, <1>10, <1>11, <1>12, <1>13, <1>14, <1>15 DEF IInv

LEMMA RecoveredRow ==
    ASSUME IInv, NEW j \in Stale
    PROVE  /\ IsJob(Recovered(j)) /\ Recovered(j).gen = jobs[j].gen /\ Recovered(j).page = jobs[j].page
           /\ Recovered(j).token = jobs[j].token + 1
           /\ Recovered(j).state \in {"failed", "retryable"}
<1>1. j \in Job /\ IsJob(jobs[j])
  BY DEF IInv, Typed, Stale
<1>2. PICK V : jobs[j] \in JobRow(V)
  BY <1>1 DEF IsJob
<1>3. PICK s \in {"failed", "retryable"} : Recovered(j) = [jobs[j] EXCEPT !.token = @ + 1, !.state = s]
  BY DEF Recovered
<1>4. s \in State /\ jobs[j].token + 1 \in Nat
  BY <1>2 DEF State, Terminal, JobRow
<1>5. /\ Recovered(j) \in JobRow(V) /\ Recovered(j).gen = jobs[j].gen
      /\ Recovered(j).page = jobs[j].page /\ Recovered(j).token = jobs[j].token + 1
      /\ Recovered(j).state = s
  BY <1>2, <1>3, <1>4 DEF JobRow
<1>. QED
  BY <1>5 DEF IsJob

LEMMA AfterRecoveryRow ==
    ASSUME IInv, NEW j \in Job
    PROVE  /\ IsJob(AfterRecovery[j])
           /\ AfterRecovery[j].gen = jobs[j].gen /\ AfterRecovery[j].page = jobs[j].page
           /\ \/ j \notin Stale /\ AfterRecovery[j] = jobs[j]
              \/ /\ j \in Stale /\ AfterRecovery[j].token = jobs[j].token + 1
                 /\ AfterRecovery[j].state \in {"failed", "retryable"}
<1>1. CASE j \in Stale
  <2>1. AfterRecovery[j] = Recovered(j)
    BY <1>1 DEF AfterRecovery
  <2>. QED
    BY <1>1, <2>1, RecoveredRow
<1>2. CASE j \notin Stale
  BY <1>2 DEF AfterRecovery, IInv, Typed
<1>. QED
  BY <1>1, <1>2

LEMMA ClaimIsSafe ==
    ASSUME IInv, NEW w \in Worker, Claim(w)
    PROVE  IInv'
<1>1. PICK j \in Claimable :
         /\ jobs' = [AfterRecovery EXCEPT ![j].token = @ + 1, ![j].live = TRUE, ![j].state = "running"]
         /\ Set(w, [Idle EXCEPT !.pc = "start", !.job = j, !.token = jobs'[j].token,
                                !.gen = jobs[j].gen, !.page = jobs[j].page])
  BY DEF Claim
<1>. DEFINE m == [Idle EXCEPT !.pc = "start", !.job = j, !.token = jobs'[j].token,
                              !.gen = jobs[j].gen, !.page = jobs[j].page]
            row == AfterRecovery[j]
<1>2. /\ j \in Job /\ j \notin RowLocked
      /\ jobs[j].state \in {"pending", "retryable"} \/ j \in Stale
  BY DEF Claimable
<1>3. /\ AfterRecovery = [i \in Job |-> AfterRecovery[i]]
      /\ jobs' = [i \in Job |-> jobs'[i]]
      /\ \A i \in Job : i # j => jobs'[i] = AfterRecovery[i]
      /\ jobs'[j] = [row EXCEPT !.token = @ + 1, !.live = TRUE, !.state = "running"]
  BY <1>1, <1>2 DEF AfterRecovery
<1>4. /\ IsJob(jobs'[j]) /\ jobs'[j].state = "running" /\ jobs'[j].token = row.token + 1
      /\ jobs'[j].gen = jobs[j].gen /\ jobs'[j].page = jobs[j].page
      /\ row.token \in Nat /\ jobs[j].token \in Nat /\ row.token >= jobs[j].token
      /\ jobs[j].gen \in 0..MaxRestarts /\ jobs[j].page \in Nat
  <2>1. IsJob(row) /\ row.gen = jobs[j].gen /\ row.page = jobs[j].page /\ IsJob(jobs[j])
    BY <1>2, AfterRecoveryRow DEF IInv, Typed
  <2>2. PICK V : row \in JobRow(V)
    BY <2>1 DEF IsJob
  <2>3. /\ jobs'[j] \in JobRow(V) /\ jobs'[j].state = "running" /\ jobs'[j].token = row.token + 1
        /\ jobs'[j].gen = row.gen /\ jobs'[j].page = row.page
    <3>1. "running" \in State
      BY DEF State
    <3>2. row.token + 1 \in Nat
      BY <2>2 DEF JobRow
    <3>. HIDE DEF row
    <3>. QED
      BY <1>3, <2>2, <3>1, <3>2 DEF JobRow
  <2>4. row.token \in Nat /\ jobs[j].token \in Nat /\ jobs[j].gen \in 0..MaxRestarts /\ jobs[j].page \in Nat
    BY <2>1 DEF IsJob, JobRow
  <2>5. row.token >= jobs[j].token
    BY <1>2, <2>4, AfterRecoveryRow
  <2>. QED
    BY <2>1, <2>3, <2>4, <2>5 DEF IsJob
<1>5. \A i \in Job : Reclaimed(i)
  <2>1. SUFFICES ASSUME NEW i \in Job PROVE Reclaimed(i)
    OBVIOUS
  <2>2. CASE i = j
    BY <1>2, <1>4, <2>2 DEF Reclaimed
  <2>3. CASE i # j
    <3>1. jobs'[i] = AfterRecovery[i]
      BY <1>3, <2>3
    <3>2. i \in Stale => i \notin RowLocked /\ jobs[i].token \in Nat
      BY DEF Stale, IInv, Typed, IsJob, JobRow
    <3>. QED
      BY <3>1, <3>2, AfterRecoveryRow DEF Reclaimed
  <2>. QED
    BY <2>2, <2>3
<1>6. Claims(w)
  <2>1. wk'[w] = m /\ wk' = [wk EXCEPT ![w] = wk'[w]]
    <3>1. Set(w, m)
      BY <1>1
    <3>. HIDE DEF m
    <3>. QED
      BY <3>1 DEF Set, IInv, Typed
  <2>2. /\ m \in Memory({0}, {NoWrite}) /\ m.pc = "start" /\ m.job = j
        /\ m.token = jobs'[j].token
    <3>1. Idle \in [pc : {"idle"}, job : {NoJob}, token : {0}, gen : {0}, page : {0}, tries : {0},
                    write : {NoWrite}]
      BY DEF Idle
    <3>2. /\ m \in [pc : {"start"}, job : {j}, token : {jobs'[j].token}, gen : {jobs[j].gen},
                    page : {jobs[j].page}, tries : {0}, write : {NoWrite}]
          /\ m.pc = "start" /\ m.job = j /\ m.token = jobs'[j].token
      BY <3>1
    <3>3. jobs'[j].token \in Nat
      BY <1>4
    <3>. HIDE DEF m
    <3>. QED
      BY <1>2, <1>4, <3>2, <3>3 DEF Memory, Working
  <2>3. IsWorker(wk'[w]) /\ wk'[w].pc = "start" /\ wk'[w].job = j /\ wk'[w].token = jobs'[j].token
    BY <1>2, <2>1, <2>2 DEF IsWorker
  <2>4. jobs'[j] # jobs[j]
    BY <1>4
  <2>. QED
    BY <2>1, <2>3, <2>4 DEF Claims, Claim, At
<1>7. fetches' = Ended(StaleCalls, "abandoned") /\ UNCHANGED <<seen, head, cand, now_at, lock>>
  BY DEF Claim, StaleCalls
<1>. QED
  BY <1>3, <1>5, <1>6, <1>7, ReclaimsIsSafe

LEMMA ClaimNothingIsSafe ==
    ASSUME IInv, NEW w \in Worker, ClaimNothing(w)
    PROVE  IInv'
<1>1. jobs' = AfterRecovery /\ AfterRecovery = [i \in Job |-> AfterRecovery[i]]
  BY DEF ClaimNothing, AfterRecovery
<1>2. \A i \in Job : Reclaimed(i)
  <2>1. \A i \in Stale : i \notin RowLocked /\ jobs[i].token \in Nat
    BY DEF Stale, IInv, Typed, IsJob, JobRow
  <2>. QED
    BY <1>1, <2>1, AfterRecoveryRow DEF Reclaimed
<1>3. fetches' = Ended(StaleCalls, "abandoned") /\ UNCHANGED <<seen, head, cand, now_at, lock, wk>>
  BY DEF ClaimNothing, StaleCalls
<1>. QED
  BY <1>1, <1>2, <1>3, ReclaimsIsSafe DEF Claims

-----------------------------------------------------------------------------
(* Writes of the job a worker owns.                                            *)

MyCalls(w) == {f \in fetches : f.job = wk[w].job /\ f.token = wk[w].token}

LEMMA WorkerRow ==
    ASSUME IInv, NEW w \in Worker
    PROVE  /\ wk[w].token \in Nat /\ wk[w].gen \in 0..MaxRestarts /\ wk[w].page \in Nat
           /\ wk[w].pc \in Working => wk[w].job \in Job
<1>1. IsWorker(wk[w])
  BY DEF IInv, Typed
<1>2. PICK T, W : wk[w] \in Memory(T, W)
  BY <1>1 DEF IsWorker
<1>. QED
  BY <1>1, <1>2 DEF IsWorker, Memory

\* The one call of a claim is for the page its job stands at, and was not accepted before.
LEMMA MyCallIsNext ==
    ASSUME IInv, NEW w \in Worker, wk[w].pc \in Working, Owned(w)
    PROVE  /\ wk[w].pc = "start" => MyCalls(w) = {}
           /\ wk[w].pc # "start" => \E f \in fetches : /\ MyCalls(w) = {f} /\ f.job = wk[w].job
                                                     /\ f.gen = jobs[wk[w].job].gen
                                                     /\ f.page = jobs[wk[w].job].page
           /\ \A f \in Read(wk[w].job, jobs[wk[w].job].gen) : f \notin MyCalls(w)
<1>. DEFINE j == wk[w].job
<1>1. wk[w].pc = "start" => MyCalls(w) = {}
  BY DEF IInv, ClaimsApart, MyCalls
<1>2. ASSUME wk[w].pc # "start"
      PROVE  \E f \in fetches : /\ MyCalls(w) = {f} /\ f.job = j
                                /\ f.gen = jobs[j].gen /\ f.page = jobs[j].page
  <2>1. PICK f \in fetches : SameCall(wk[w], f)
    BY <1>2 DEF IInv, ClaimsApart, Working
  <2>2. MyCalls(w) = {f}
    BY <2>1 DEF MyCalls, SameCall, IInv, CallsOfClaims
  <2>. QED
    BY <2>1, <2>2 DEF SameCall, Owned
<1>3. ASSUME NEW f \in Read(j, jobs[j].gen)
      PROVE  f \notin MyCalls(w)
  <2>1. j \in Job /\ jobs[j].state = "running"
    BY WorkerRow DEF Owned
  <2>2. jobs[j].page \in Nat
    BY <2>1 DEF IInv, Typed, IsJob, JobRow
  <2>3. f.page \in 0..(jobs[j].page - 1)
    BY <2>1 DEF IInv, InOrder
  <2>. QED
    BY <1>1, <1>2, <2>2, <2>3
<1>. QED
  BY <1>1, <1>2, <1>3

LEMMA WrittenIsInOrder ==
    ASSUME IInv, NEW w \in Worker, wk[w].pc \in Working, Owned(w), NEW j \in Job, wk[w].job = j,
           NEW outcome \in Outcome, RowAfter(jobs[j], jobs'[j], outcome),
           outcome = "succeeded" => wk[w].pc # "start",
           fetches' = Ended(MyCalls(w), outcome)
    PROVE  InOrder(jobs[j], Read(j, jobs[j].gen))'
<1>. DEFINE row == jobs[j]
            new == jobs'[j]
            accepted(gen) == {f \in fetches' : f.job = j /\ f.gen = gen /\ f.outcome = "succeeded"}
<1>1. IsJob(row) /\ row.state = "running" /\ InOrder(row, Read(j, row.gen))
  BY DEF IInv, Typed, Owned
<1>2. row.page \in Nat /\ row.gen \in 0..MaxRestarts
  BY <1>1 DEF IsJob, JobRow
<1>3. PICK gen \in 0..MaxRestarts : gen = row.gen
  BY <1>2
<1>. DEFINE before == Read(j, gen)
<1>4. {f.page : f \in before} = 0..(row.page - 1) /\ Cardinality(before) = row.page
  BY <1>1, <1>3 DEF InOrder
<1>5. MyCalls(w) \subseteq fetches /\ Typed /\ \A f \in before : f \notin MyCalls(w)
  BY <1>3, MyCallIsNext DEF MyCalls, IInv
<1>6. SUFFICES new.state # "unstable" =>
                  /\ {f.page : f \in accepted(new.gen)} = 0..(new.page - 1)
                  /\ Cardinality(accepted(new.gen)) = new.page
  BY DEF InOrder, Read
<1>7. CASE outcome = "failed" /\ new.gen = row.gen /\ new.page = row.page
  <2>1. accepted(gen) = before
    <3>1. accepted(gen) = Read(j, gen)'
      BY DEF Read
    <3>2. Read(j, gen)' = Read(j, gen)
      BY <1>5, <1>7, EndedReads
    <3>. QED
      BY <3>1, <3>2
  <2>. QED
    BY <1>3, <1>4, <1>7, <2>1, ZenonT(30)
<1>8. CASE outcome = "invalid" /\ new.gen = row.gen + 1 /\ new.page = 0
  <2>1. \A f \in fetches' : f.job = j => f.gen <= row.gen /\ f.gen \in Nat
    <3>1. \A f \in fetches : f.job = j => f.gen <= row.gen /\ f.gen \in Nat
      BY DEF IInv, CallsOfClaims, Typed, Call
    <3>2. \A f \in fetches' : \E g \in fetches : SameCall(g, f)
      BY <1>5, EndedCalls
    <3>. QED
      BY <3>1, <3>2 DEF SameCall
  <2>2. accepted(new.gen) = {}
    BY <1>2, <1>8, <2>1
  <2>3. {f.page : f \in accepted(new.gen)} = {} /\ 0..(new.page - 1) = {}
    BY <1>8, <2>2
  <2>. QED
    BY <1>8, <2>2, <2>3, FS_EmptySet
<1>9. CASE outcome = "succeeded" /\ new.gen = row.gen /\ new.page = row.page + 1
  <2>1. PICK f \in fetches : /\ MyCalls(w) = {f} /\ f.job = j /\ f.gen = gen
                             /\ f.page = row.page
    BY <1>3, <1>9, MyCallIsNext
  <2>. DEFINE end == [f EXCEPT !.outcome = "succeeded"]
  <2>2. end.job = j /\ end.gen = gen /\ end.page = row.page /\ end.outcome = "succeeded"
    BY <1>3, <2>1 DEF IInv, Typed, Call
  <2>3. fetches' = (fetches \ {f}) \cup {end}
    BY <1>9, <2>1 DEF Ended
  <2>4. accepted(gen) = before \cup {end}
    <3>1. f \notin before
      BY <1>5, <2>1
    <3>. HIDE DEF end
    <3>. QED
      BY <2>2, <2>3, <3>1 DEF Read
  <2>5. end \notin before
    <3>1. \A g \in before : g.page \in 0..(row.page - 1)
      BY <1>4
    <3>. HIDE DEF end, before
    <3>. QED
      BY <1>2, <2>2, <3>1
  <2>6. IsFiniteSet(before)
    BY <1>5, FS_Subset DEF Typed, Read
  <2>7. Cardinality(accepted(gen)) = row.page + 1
    <3>. HIDE DEF end, before, accepted
    <3>. QED
      BY <1>4, <2>4, <2>5, <2>6, FS_AddElement, ZenonT(30)
  <2>8. {g.page : g \in accepted(gen)} = 0..row.page
    <3>1. {g.page : g \in accepted(gen)} = {g.page : g \in before} \cup {row.page}
      <4>. HIDE DEF end, before, accepted
      <4>. QED
        BY <2>2, <2>4
    <3>2. 0..row.page = (0..(row.page - 1)) \cup {row.page}
      BY <1>2
    <3>. QED
      BY <1>4, <3>1, <3>2
  <2>. QED
    BY <1>2, <1>3, <1>9, <2>7, <2>8
<1>. QED
  BY <1>7, <1>8, <1>9 DEF RowAfter

LEMMA WrittenIsSafe ==
    ASSUME IInv, NEW w \in Worker, wk[w].pc \in Working, Owned(w), NEW j \in Job, wk[w].job = j,
           NEW outcome \in Outcome, outcome # "started", RowAfter(jobs[j], jobs'[j], outcome),
           outcome = "succeeded" => wk[w].pc # "start",
           fetches' = Ended(MyCalls(w), outcome),
           jobs' = [jobs EXCEPT ![j] = jobs'[j]],
           \A v \in Worker : wk[v].pc = "commit" => v = w,
           wk' = [wk EXCEPT ![w] = Idle], lock' \in Worker \cup {Nobody},
           Observed(seen'), head'.day \in 0..MaxDay, UNCHANGED <<cand, now_at>>
    PROVE  IInv'
<1>1. MyCalls(w) \subseteq fetches /\ Typed /\ outcome \in Outcome /\ PageAttemptsBounded
  BY DEF MyCalls, IInv
<1>2. fetches' \subseteq Call /\ IsFiniteSet(fetches')
  BY <1>1, EndedCalls
<1>3. /\ \A f \in fetches' : \E g \in fetches : /\ SameCall(g, f)
                                                /\ g \in MyCalls(w) => f.outcome = outcome
                                                /\ g \notin MyCalls(w) => f = g
      /\ \A g \in fetches : \E f \in fetches' : SameCall(g, f)
  <2>1. Closed(MyCalls(w), outcome)
    BY <1>1, EndedIsClosed
  <2>. QED
    BY <2>1 DEF Closed
<1>4. \A g \in fetches : \E f \in fetches' : SameCall(g, f)
  BY <1>3
<1>5. \A i \in Job : i # j => jobs'[i] = jobs[i]
  BY DEF IInv, Typed
<1>6. \A v \in Worker : wk'[v].pc \in Working => v # w /\ wk'[v] = wk[v] /\ wk[v].pc # "commit"
  BY IdleIsWorker DEF IInv, Typed, Working
<1>7. IsJob(jobs[j]) /\ jobs[j].token \in Nat /\ jobs[j].gen \in 0..MaxRestarts
  BY DEF IInv, Typed, IsJob, JobRow
<1>8. /\ jobs'[j].token = jobs[j].token /\ jobs'[j].gen \in {jobs[j].gen, jobs[j].gen + 1}
      /\ jobs'[j].state \notin {"running", "absent"}
  BY DEF RowAfter
<1>9. Typed'
  <2>1. jobs' = [i \in Job |-> jobs'[i]] /\ \A i \in Job : IsJob(jobs'[i])
    BY <1>5 DEF IInv, Typed, RowAfter
  <2>2. wk' = [v \in Worker |-> wk'[v]] /\ \A v \in Worker : IsWorker(wk'[v])
    BY IdleIsWorker DEF IInv, Typed
  <2>. QED
    BY <1>2, <2>1, <2>2 DEF IInv, Typed
<1>10. CallsOfClaims'
  <2>1. ASSUME NEW f \in fetches'
        PROVE  f.token <= jobs'[f.job].token /\ f.gen <= jobs'[f.job].gen /\ cand'[f.job[1]] # "absent"
    <3>1. PICK g \in fetches : SameCall(g, f)
      BY <1>3
    <3>2. /\ g.token <= jobs[g.job].token /\ g.gen <= jobs[g.job].gen /\ cand[g.job[1]] # "absent"
          /\ g.job \in Job /\ g.gen \in 0..MaxRestarts
      BY DEF IInv, CallsOfClaims, Typed, Call
    <3>3. jobs'[g.job].token = jobs[g.job].token
      BY <1>5, <1>8, <3>2
    <3>4. g.gen <= jobs'[g.job].gen
      BY <1>5, <1>7, <1>8, <3>2
    <3>. QED
      BY <3>1, <3>2, <3>3, <3>4 DEF SameCall
  <2>2. \A f, g \in fetches' : f.job = g.job /\ f.token = g.token => f = g
    BY <1>1, EndedKeepsCalls
  <2>. QED
    BY <2>1, <2>2 DEF CallsOfClaims
<1>11. ClaimsApart'
  <2>1. \A v \in Worker : wk'[v].pc \in Working =>
           wk'[v].token <= jobs'[wk'[v].job].token /\ cand'[wk'[v].job[1]] # "absent"
    BY <1>5, <1>6, <1>8, WorkerRow DEF IInv, ClaimsApart
  <2>2. \A u, v \in Worker : /\ u # v /\ wk'[u].pc \in Working /\ wk'[v].pc \in Working
                            /\ wk'[u].job = wk'[v].job
                            => wk'[u].token # wk'[v].token
    BY <1>6 DEF IInv, ClaimsApart
  <2>3. \A v \in Worker, f \in fetches' :
          wk'[v].pc = "start" => ~(f.job = wk'[v].job /\ f.token = wk'[v].token)
    BY <1>3, <1>6 DEF IInv, ClaimsApart, SameCall, Working
  <2>4. \A v \in Worker : wk'[v].pc \in {"fetch", "commit"} =>
          \E f \in fetches' : SameCall(wk'[v], f)
    BY <1>4, <1>6 DEF IInv, ClaimsApart, SameCall, Working
  <2>. QED
    BY <2>1, <2>2, <2>3, <2>4 DEF ClaimsApart
<1>12. DecidedUnderLock'
  BY <1>6 DEF DecidedUnderLock, Working
<1>13. JobsOfCandidates'
  <2>1. jobs[j].state = "running" /\ jobs'[j].state # "absent"
    BY DEF Owned, RowAfter
  <2>. QED
    BY <1>5, <2>1 DEF IInv, JobsOfCandidates
<1>14. StartedIsCurrent'
  <2>1. SUFFICES ASSUME NEW f \in fetches', f.outcome = "started"
                 PROVE  jobs'[f.job].state = "running" /\ jobs'[f.job].token = f.token
    BY DEF StartedIsCurrent
  <2>2. f \in fetches /\ f \notin MyCalls(w) /\ f.job \in Job
    BY <1>3, <2>1 DEF IInv, Typed, Call
  <2>3. jobs[f.job].state = "running" /\ jobs[f.job].token = f.token
    BY <2>1, <2>2 DEF IInv, StartedIsCurrent
  <2>4. f.job # j
    BY <2>2, <2>3 DEF MyCalls, Owned
  <2>. QED
    BY <1>5, <2>2, <2>3, <2>4
<1>15. PageAttemptsBounded'
  BY <1>1, EndedKeepsAttempts
<1>16. \A i \in Job : InOrder(jobs[i], Read(i, jobs[i].gen))'
  <2>1. SUFFICES ASSUME NEW i \in Job PROVE InOrder(jobs[i], Read(i, jobs[i].gen))'
    OBVIOUS
  <2>2. CASE i = j
    <3>1. InOrder(jobs[j], Read(j, jobs[j].gen))'
      BY <1>1, WrittenIsInOrder
    <3>. QED
      BY <2>2, <3>1
  <2>3. CASE i # j
    <3>1. \A gen : Read(i, gen)' = Read(i, gen)
      BY <1>1, <2>3, EndedReads, SMTT(30) DEF Read, MyCalls
    <3>2. Read(i, jobs[i].gen)' = Read(i, jobs[i].gen) /\ jobs'[i] = jobs[i]
      BY <1>5, <2>3, <3>1, SMTT(30) DEF Read
    <3>. QED
      BY <3>2 DEF IInv, InOrder
  <2>. QED
    BY <2>2, <2>3
<1>. QED
  BY <1>9, <1>10, <1>11, <1>12, <1>13, <1>14, <1>15, <1>16 DEF IInv

\* A call is started.
LEMMA StartedIsSafe ==
    ASSUME IInv, NEW w \in Worker, wk[w].pc = "start", Owned(w), NEW j \in Job, wk[w].job = j,
           ~(PageAttempts(j) >= MaxAttempts), NEW tries,
           fetches' = fetches \cup {[job |-> j, token |-> wk[w].token, gen |-> wk[w].gen,
                                     page |-> wk[w].page, outcome |-> "started"]},
           wk' = [wk EXCEPT ![w] = [wk[w] EXCEPT !.pc = "fetch", !.tries = tries]],
           UNCHANGED <<jobs, seen, head, cand, now_at, lock>>
    PROVE  IInv'
<1>. DEFINE m == wk[w]
            c == [job |-> j, token |-> m.token, gen |-> m.gen, page |-> m.page, outcome |-> "started"]
<1>1. IsWorker(m) /\ m.token \in Nat /\ m.gen \in 0..MaxRestarts /\ m.page \in Nat
  BY WorkerRow DEF IInv, Typed
<1>2. PICK T, W : m \in Memory(T, W)
  BY <1>1 DEF IsWorker
<1>3. wk'[w] = [m EXCEPT !.pc = "fetch", !.tries = tries] /\ wk' = [v \in Worker |-> wk'[v]]
      /\ \A v \in Worker : v # w => wk'[v] = wk[v]
  BY DEF IInv, Typed
<1>4. /\ wk'[w] \in Memory({tries}, W) /\ wk'[w].pc = "fetch" /\ wk'[w].job = j
      /\ wk'[w].token = m.token /\ wk'[w].gen = m.gen /\ wk'[w].page = m.page
  BY <1>2, <1>3 DEF Memory, Working
<1>5. IsWorker(wk'[w])
  BY <1>4 DEF IsWorker
<1>6. /\ c \in Call /\ c.job = j /\ c.token = m.token /\ c.gen = m.gen /\ c.page = m.page
      /\ c.outcome = "started"
  BY <1>1 DEF Call, Outcome
<1>7. fetches' = fetches \cup {c}
  OBVIOUS
<1>8. /\ jobs[j].state = "running" /\ jobs[j].token = m.token /\ jobs[j].gen = m.gen
      /\ jobs[j].page = m.page
  BY DEF Owned
<1>. HIDE DEF c
<1>9. Typed'
  <2>1. IsFiniteSet(fetches')
    BY <1>7, FS_AddElement DEF IInv, Typed
  <2>2. \A v \in Worker : IsWorker(wk'[v])
    BY <1>3, <1>5 DEF IInv, Typed
  <2>. QED
    BY <1>3, <1>6, <1>7, <2>1, <2>2 DEF IInv, Typed
<1>10. CallsOfClaims'
  <2>1. \A f \in fetches : ~(f.job = j /\ f.token = m.token)
    BY DEF IInv, ClaimsApart
  <2>2. m.token <= jobs[j].token /\ cand[j[1]] # "absent" /\ m.gen <= jobs[j].gen
    BY <1>1, <1>8 DEF IInv, ClaimsApart, Working
  <2>. QED
    BY <1>6, <1>7, <2>1, <2>2 DEF IInv, CallsOfClaims
<1>11. ClaimsApart'
  <2>1. \A v \in Worker : wk'[v].pc \in Working =>
           wk'[v].token <= jobs'[wk'[v].job].token /\ cand'[wk'[v].job[1]] # "absent"
    BY <1>3, <1>4 DEF IInv, ClaimsApart, Working
  <2>2. \A u, v \in Worker : /\ u # v /\ wk'[u].pc \in Working /\ wk'[v].pc \in Working
                            /\ wk'[u].job = wk'[v].job
                            => wk'[u].token # wk'[v].token
    BY <1>3, <1>4 DEF IInv, ClaimsApart, Working
  <2>3. \A v \in Worker, f \in fetches' :
          wk'[v].pc = "start" => ~(f.job = wk'[v].job /\ f.token = wk'[v].token)
    BY <1>3, <1>4, <1>6, <1>7 DEF IInv, ClaimsApart, Working
  <2>4. \A v \in Worker : wk'[v].pc \in {"fetch", "commit"} =>
          \E f \in fetches' : SameCall(wk'[v], f)
    BY <1>3, <1>4, <1>6, <1>7 DEF IInv, ClaimsApart, SameCall
  <2>. QED
    BY <2>1, <2>2, <2>3, <2>4 DEF ClaimsApart
<1>12. DecidedUnderLock'
  BY <1>3, <1>4 DEF IInv, DecidedUnderLock, Owned
<1>13. JobsOfCandidates' /\ StartedIsCurrent'
  <2>1. JobsOfCandidates'
    BY DEF IInv, JobsOfCandidates
  <2>2. StartedIsCurrent'
    BY <1>6, <1>7, <1>8 DEF IInv, StartedIsCurrent
  <2>. QED
    BY <2>1, <2>2
<1>14. PageAttemptsBounded'
  <2>1. SUFFICES ASSUME NEW f \in fetches'
                 PROVE  Cardinality(FetchesAt(f.job, f.gen, f.page)') <= MaxAttempts
    BY DEF PageAttemptsBounded
  <2>2. CASE f.job = j /\ f.gen = m.gen /\ f.page = m.page
    <3>. DEFINE old == FetchesAt(f.job, f.gen, f.page)
    <3>1. FetchesAt(f.job, f.gen, f.page)' = old \cup {c}
      BY <1>6, <1>7, <2>2 DEF FetchesAt
    <3>2. IsFiniteSet(old)
      BY FS_Subset DEF FetchesAt, IInv, Typed
    <3>3. PageAttempts(j) = Cardinality(old)
      BY <1>8, <2>2 DEF PageAttempts
    <3>. HIDE DEF old
    <3>4. Cardinality(old) \in Nat /\ Cardinality(old) < MaxAttempts
      BY <3>2, <3>3, FS_CardinalityType, CollectionAssumption
    <3>5. Cardinality(old \cup {c}) <= Cardinality(old) + 1
      <4>1. Cardinality(old \cup {c}) = IF c \in old THEN Cardinality(old) ELSE Cardinality(old) + 1
        BY <3>2, FS_AddElement
      <4>. QED
        BY <3>4, <4>1
    <3>6. Cardinality(old \cup {c}) \in Nat
      BY <3>2, FS_AddElement, FS_CardinalityType
    <3>. QED
      BY <3>1, <3>4, <3>5, <3>6, CollectionAssumption
  <2>3. CASE ~(f.job = j /\ f.gen = m.gen /\ f.page = m.page)
    <3>1. f \in fetches /\ FetchesAt(f.job, f.gen, f.page)' = FetchesAt(f.job, f.gen, f.page)
      BY <1>6, <1>7, <2>3 DEF FetchesAt
    <3>. QED
      BY <3>1 DEF IInv, PageAttemptsBounded
  <2>. QED
    BY <2>2, <2>3
<1>15. \A i \in Job : InOrder(jobs[i], Read(i, jobs[i].gen))'
  <2>1. SUFFICES ASSUME NEW i \in Job PROVE InOrder(jobs[i], Read(i, jobs[i].gen))'
    OBVIOUS
  <2>2. Read(i, jobs[i].gen)' = Read(i, jobs[i].gen)
    BY <1>6, <1>7 DEF Read
  <2>. QED
    BY <2>2 DEF IInv, InOrder
<1>. QED
  BY <1>9, <1>10, <1>11, <1>12, <1>13, <1>14, <1>15 DEF IInv

LEMMA StartFetchIsSafe ==
    ASSUME IInv, NEW w \in Worker, StartFetch(w)
    PROVE  IInv'
<1>. DEFINE j == wk[w].job
            tries == PageAttempts(j)
<1>1. /\ wk[w].pc = "start" /\ wk[w].pc \in Working /\ lock = Nobody
      /\ UNCHANGED <<seen, head, corpora, cand, now_at, lock, faults>>
  BY DEF StartFetch, At, Working
<1>2. PICK i \in Job : wk[w].job = i
  BY <1>1, WorkerRow
<1>3. CASE Set(w, Idle) /\ UNCHANGED <<jobs, fetches>>
  <2>1. LetsGo(w)
    BY <1>1, <1>3 DEF LetsGo, Set
  <2>2. \A k \in Job : SameButLive(k)
    BY <1>3 DEF SameButLive, IInv, Typed
  <2>. QED
    BY <1>1, <1>3, <2>1, <2>2, QuietIsSafe DEF IInv, Typed
<1>4. CASE Owned(w) /\ jobs' = [jobs EXCEPT ![j].state = "failed"] /\ Set(w, Idle) /\ UNCHANGED fetches
  <2>1. jobs'[i] = [jobs[i] EXCEPT !.state = "failed"] /\ jobs' = [jobs EXCEPT ![i] = jobs'[i]]
    BY <1>2, <1>4 DEF IInv, Typed
  <2>2. PICK V : jobs[i] \in JobRow(V)
    BY DEF IInv, Typed, IsJob
  <2>3. "failed" \in State
    BY DEF State, Terminal
  <2>4. /\ jobs'[i] \in JobRow(V) /\ jobs'[i].state = "failed" /\ jobs'[i].token = jobs[i].token
        /\ jobs'[i].gen = jobs[i].gen /\ jobs'[i].page = jobs[i].page
    BY <2>1, <2>2, <2>3 DEF JobRow
  <2>5. RowAfter(jobs[i], jobs'[i], "failed")
    BY <2>4 DEF RowAfter, IsJob
  <2>6. fetches' = Ended(MyCalls(w), "failed")
    <3>1. MyCalls(w) = {}
      BY <1>1, <1>4, MyCallIsNext
    <3>. QED
      BY <1>4, <3>1 DEF Ended
  <2>7. \A v \in Worker : wk[v].pc = "commit" => v = w
    BY <1>1, CollectionAssumption DEF IInv, DecidedUnderLock, Nobody
  <2>8. lock' \in Worker \cup {Nobody} /\ Observed(seen') /\ head'.day \in 0..MaxDay
    BY <1>1 DEF IInv, Typed
  <2>9. wk' = [wk EXCEPT ![w] = Idle]
    BY <1>4 DEF Set
  <2>10. PICK outcome \in Outcome : outcome = "failed"
    BY DEF Outcome
  <2>11. UNCHANGED <<cand, now_at>> /\ Owned(w) /\ wk[w].job = i /\ wk[w].pc \in Working
    BY <1>1, <1>2, <1>4
  <2>12. outcome # "started" /\ outcome # "succeeded"
    BY <2>10
  <2>13. RowAfter(jobs[i], jobs'[i], outcome) /\ fetches' = Ended(MyCalls(w), outcome)
    BY <2>5, <2>6, <2>10
  <2>14. jobs' = [jobs EXCEPT ![i] = jobs'[i]]
    BY <2>1
  <2>. QED
    BY <2>7, <2>8, <2>9, <2>11, <2>12, <2>13, <2>14, WrittenIsSafe
<1>5. CASE /\ Owned(w) /\ ~(tries >= MaxAttempts)
           /\ fetches' = fetches \cup {[job |-> j, token |-> wk[w].token, gen |-> wk[w].gen,
                                        page |-> wk[w].page, outcome |-> "started"]}
           /\ Set(w, [wk[w] EXCEPT !.pc = "fetch", !.tries = tries])
           /\ UNCHANGED jobs
  <2>1. PICK n : n = tries
    OBVIOUS
  <2>2. wk' = [wk EXCEPT ![w] = [wk[w] EXCEPT !.pc = "fetch", !.tries = n]]
    BY <1>5, <2>1 DEF Set
  <2>3. fetches' = fetches \cup {[job |-> i, token |-> wk[w].token, gen |-> wk[w].gen,
                                  page |-> wk[w].page, outcome |-> "started"]}
    BY <1>2, <1>5
  <2>4. ~(PageAttempts(i) >= MaxAttempts)
    BY <1>2, <1>5
  <2>. QED
    BY <1>1, <1>2, <1>5, <2>2, <2>3, <2>4, StartedIsSafe
<1>. QED
  BY <1>3, <1>4, <1>5 DEF StartFetch

-----------------------------------------------------------------------------
(* An answer that comes too late, and the candidates of the days.              *)

LEMMA SupersededIsSafe ==
    ASSUME IInv, NEW w \in Worker, Superseded(w)
    PROVE  IInv'
<1>1. PICK rows : rows = {f \in fetches : /\ f.job = wk[w].job /\ f.token = wk[w].token
                                          /\ f.outcome = "started"}
  OBVIOUS
<1>2. PICK outcome \in Outcome : outcome = "superseded"
  BY DEF Outcome
<1>3. /\ rows \subseteq fetches /\ fetches' = Ended(rows, outcome) /\ Typed /\ PageAttemptsBounded
      /\ outcome # "started" /\ outcome # "succeeded"
  BY <1>1, <1>2 DEF Superseded, IInv
<1>4. fetches' \subseteq Call /\ IsFiniteSet(fetches')
  BY <1>3, EndedCalls
<1>5. Closed(rows, outcome)
  BY <1>3, EndedIsClosed
<1>6. /\ wk' = [wk EXCEPT ![w] = Idle]
      /\ UNCHANGED <<jobs, seen, head, cand, now_at, lock>> /\ lock = Nobody
  BY DEF Superseded, Set
<1>7. \A v \in Worker : wk'[v].pc \in Working => wk'[v] = wk[v]
  BY <1>6, IdleIsWorker DEF IInv, Typed, Working
<1>8. Typed'
  <2>1. wk' = [v \in Worker |-> wk'[v]] /\ \A v \in Worker : IsWorker(wk'[v])
    BY <1>6, IdleIsWorker DEF IInv, Typed
  <2>. QED
    BY <1>4, <1>6, <2>1 DEF IInv, Typed, Observed
<1>9. CallsOfClaims'
  <2>1. \A f, g \in fetches' : f.job = g.job /\ f.token = g.token => f = g
    BY <1>3, EndedKeepsCalls
  <2>2. ASSUME NEW f \in fetches'
        PROVE  f.token <= jobs[f.job].token /\ f.gen <= jobs[f.job].gen /\ cand[f.job[1]] # "absent"
    BY <1>5 DEF Closed, SameCall, IInv, CallsOfClaims
  <2>. QED
    BY <1>6, <2>1, <2>2 DEF CallsOfClaims
<1>10. ClaimsApart'
  <2>1. \A v \in Worker, f \in fetches' :
          wk'[v].pc = "start" => ~(f.job = wk'[v].job /\ f.token = wk'[v].token)
    BY <1>5, <1>7 DEF IInv, ClaimsApart, SameCall, Closed, Working
  <2>2. \A v \in Worker : wk'[v].pc \in {"fetch", "commit"} =>
          \E f \in fetches' : SameCall(wk'[v], f)
    BY <1>5, <1>7 DEF IInv, ClaimsApart, SameCall, Closed, Working
  <2>3. \A u, v \in Worker : /\ u # v /\ wk'[u].pc \in Working /\ wk'[v].pc \in Working
                            /\ wk'[u].job = wk'[v].job
                            => wk'[u].token # wk'[v].token
    BY <1>7 DEF IInv, ClaimsApart
  <2>4. \A v \in Worker : wk'[v].pc \in Working =>
           wk'[v].token <= jobs'[wk'[v].job].token /\ cand'[wk'[v].job[1]] # "absent"
    BY <1>6, <1>7 DEF IInv, ClaimsApart
  <2>. QED
    BY <2>1, <2>2, <2>3, <2>4 DEF ClaimsApart
<1>11. DecidedUnderLock'
  BY <1>6, <1>7, CollectionAssumption DEF IInv, DecidedUnderLock, Nobody, Working
<1>12. JobsOfCandidates' /\ StartedIsCurrent'
  <2>1. JobsOfCandidates'
    BY <1>6 DEF IInv, JobsOfCandidates
  <2>2. StartedIsCurrent'
    BY <1>3, <1>5, <1>6 DEF IInv, StartedIsCurrent, Closed
  <2>. QED
    BY <2>1, <2>2
<1>13. PageAttemptsBounded'
  BY <1>3, EndedKeepsAttempts
<1>14. \A i \in Job : InOrder(jobs[i], Read(i, jobs[i].gen))'
  <2>1. SUFFICES ASSUME NEW i \in Job PROVE InOrder(jobs[i], Read(i, jobs[i].gen))'
    OBVIOUS
  <2>2. \A gen : Read(i, gen)' = Read(i, gen)
    BY <1>1, <1>3, EndedReads DEF Read
  <2>3. Read(i, jobs[i].gen)' = Read(i, jobs[i].gen)
    BY <1>6, <2>2 DEF Read
  <2>. QED
    BY <1>6, <2>3 DEF IInv, InOrder
<1>. QED
  BY <1>8, <1>9, <1>10, <1>11, <1>12, <1>13, <1>14 DEF IInv

LEMMA NewRow == /\ IsJob(New) /\ New.state = "pending" /\ New.gen = 0 /\ New.page = 0
<1>1. "pending" \in State /\ 0 \in 0..MaxRestarts
  BY CollectionAssumption DEF State
<1>2. New \in JobRow({{}})
  BY <1>1 DEF New, JobRow
<1>. QED
  BY <1>2 DEF IsJob, New

LEMMA ProcessIsSafe ==
    ASSUME IInv, NEW d \in 1..MaxDay, Process(d)
    PROVE  IInv'
<1>1. /\ UNCHANGED <<fetches, seen, head, now_at, lock, wk>>
      /\ \A v \in Worker : wk[v].pc # "commit"
  <2>1. lock = Nobody
    BY DEF Process
  <2>2. \A v \in Worker : wk[v].pc # "commit"
    BY <2>1, CollectionAssumption DEF IInv, DecidedUnderLock, Nobody
  <2>. QED
    BY <2>2 DEF Process
<1>2. \A j \in Job : jobs'[j] = IF j[1] = d /\ jobs[j].state = "absent" THEN New ELSE jobs[j]
  BY DEF Process
<1>3. /\ cand' \in [1..MaxDay -> Standing] /\ cand'[d] # "absent"
      /\ \A e \in 1..MaxDay : e # d => cand'[e] = cand[e]
  BY DEF Process, IInv, Typed, Standing
<1>4. \A j \in Job : j[1] \in 1..MaxDay
  BY DEF Job
<1>5. \A f \in fetches : f.job \in Job /\ cand[f.job[1]] # "absent"
  BY DEF IInv, Typed, Call, CallsOfClaims
<1>6. \A v \in Worker : wk[v].pc \in Working => wk[v].job \in Job /\ cand[wk[v].job[1]] # "absent"
  BY WorkerRow DEF IInv, ClaimsApart
<1>7. \A j \in Job : cand[j[1]] # "absent" => jobs'[j] = jobs[j] /\ cand'[j[1]] # "absent"
  BY <1>2, <1>3, <1>4 DEF IInv, JobsOfCandidates
<1>8. Typed'
  <2>1. jobs' = [j \in Job |-> jobs'[j]] /\ \A j \in Job : IsJob(jobs'[j])
    BY <1>2, NewRow DEF Process, IInv, Typed
  <2>. QED
    BY <1>1, <1>3, <2>1 DEF IInv, Typed, Observed
<1>9. CallsOfClaims'
  BY <1>1, <1>5, <1>7 DEF IInv, CallsOfClaims
<1>10. ClaimsApart'
  BY <1>1, <1>6, <1>7 DEF IInv, ClaimsApart
<1>11. DecidedUnderLock'
  BY <1>1 DEF DecidedUnderLock
<1>12. JobsOfCandidates' /\ StartedIsCurrent' /\ PageAttemptsBounded'
  <2>1. JobsOfCandidates'
    <3>1. SUFFICES ASSUME NEW j \in Job
                   PROVE  (jobs'[j].state = "absent") <=> (cand'[j[1]] = "absent")
      BY DEF JobsOfCandidates
    <3>2. (jobs[j].state = "absent") <=> (cand[j[1]] = "absent")
      BY DEF IInv, JobsOfCandidates
    <3>3. CASE j[1] = d
      BY <1>2, <1>3, <3>2, <3>3, NewRow
    <3>4. CASE j[1] # d
      BY <1>2, <1>3, <1>4, <3>2, <3>4
    <3>. QED
      BY <3>3, <3>4
  <2>2. StartedIsCurrent'
    BY <1>1, <1>5, <1>7 DEF IInv, StartedIsCurrent
  <2>3. PageAttemptsBounded'
    BY <1>1 DEF IInv, PageAttemptsBounded, FetchesAt
  <2>. QED
    BY <2>1, <2>2, <2>3
<1>13. \A i \in Job : InOrder(jobs[i], Read(i, jobs[i].gen))'
  <2>1. SUFFICES ASSUME NEW i \in Job PROVE InOrder(jobs[i], Read(i, jobs[i].gen))'
    OBVIOUS
  <2>2. CASE jobs'[i] = New /\ cand[i[1]] = "absent"
    <3>1. Read(i, jobs[i].gen)' = {}
      BY <1>1, <1>5, <2>2 DEF Read
    <3>2. jobs'[i].page = 0
      BY <2>2, NewRow
    <3>3. {f.page : f \in {}} = 0..(jobs'[i].page - 1)
      BY <3>2
    <3>. QED
      BY <3>1, <3>2, <3>3, FS_EmptySet DEF InOrder
  <2>3. CASE jobs'[i] = jobs[i]
    <3>1. Read(i, jobs[i].gen)' = Read(i, jobs[i].gen)
      BY <1>1, <2>3 DEF Read
    <3>. QED
      BY <2>3, <3>1 DEF IInv, InOrder
  <2>. QED
    BY <1>2, <2>2, <2>3 DEF IInv, JobsOfCandidates
<1>. QED
  BY <1>8, <1>9, <1>10, <1>11, <1>12, <1>13 DEF IInv

LEMMA SetBackIsSafe ==
    ASSUME IInv, NEW d \in 1..MaxDay, SetBack(d)
    PROVE  IInv'
<1>1. UNCHANGED <<jobs, fetches, seen, head, now_at, lock, wk>>
  BY DEF SetBack
<1>2. /\ cand' \in [1..MaxDay -> Standing]
      /\ \A e \in 1..MaxDay : (cand'[e] = "absent") <=> (cand[e] = "absent")
  BY DEF SetBack, Processed, IInv, Typed, Standing
<1>3. \A j \in Job : j[1] \in 1..MaxDay
  BY DEF Job
<1>4. /\ \A f \in fetches : f.job \in Job
      /\ \A v \in Worker : wk[v].pc \in Working => wk[v].job \in Job
  BY WorkerRow DEF IInv, Typed, Call
<1>5. Typed'
  BY <1>1, <1>2 DEF IInv, Typed, Observed
<1>6. CallsOfClaims'
  BY <1>1, <1>2, <1>3, <1>4 DEF IInv, CallsOfClaims
<1>7. ClaimsApart'
  BY <1>1, <1>2, <1>3, <1>4 DEF IInv, ClaimsApart
<1>8. DecidedUnderLock'
  BY <1>1 DEF IInv, DecidedUnderLock, Owned
<1>9. JobsOfCandidates'
  BY <1>1, <1>2, <1>3 DEF IInv, JobsOfCandidates
<1>10. StartedIsCurrent' /\ PageAttemptsBounded'
  BY <1>1 DEF IInv, StartedIsCurrent, PageAttemptsBounded, FetchesAt
<1>11. \A i \in Job : InOrder(jobs[i], Read(i, jobs[i].gen))'
  BY <1>1 DEF IInv, Read
<1>. QED
  BY <1>5, <1>6, <1>7, <1>8, <1>9, <1>10, <1>11 DEF IInv

-----------------------------------------------------------------------------
(* The decision on a page.                                                     *)

LEMMA ElementOfSeq ==
    ASSUME NEW S, NEW q \in Seq(S), NEW i \in DOMAIN q
    PROVE  q[i] \in S
OBVIOUS

\* The latest processed day is a day.
LEMMA LatestIsDay ==
    ASSUME Processed # {}
    PROVE  Latest \in Processed /\ Latest \in 1..MaxDay /\ Latest \in 0..MaxDay
<1>1. MaxDay \in Nat /\ Processed \subseteq 1..MaxDay
  BY CollectionAssumption DEF Processed
<1>. DEFINE Before == {MaxDay - d : d \in Processed}
<1>2. Before \subseteq Nat /\ Before # {}
  BY <1>1
<1>3. PICK n \in Before : \A m \in Before : <<m, n>> \notin OpToRel(<, Nat)
  BY <1>2, NatLessThanWellFounded, WFMin
<1>4. PICK d \in Processed : n = MaxDay - d
  BY <1>3
<1>5. ASSUME NEW e \in Processed PROVE d >= e
  <2>1. MaxDay - e \in Before /\ MaxDay - e \in Nat /\ n \in Nat
    BY <1>2
  <2>2. ~(MaxDay - e < n)
    BY <1>3, <2>1 DEF OpToRel
  <2>. QED
    BY <1>1, <1>4, <2>2
<1>6. Latest \in Processed
  BY <1>4, <1>5 DEF Latest, Max
<1>. QED
  BY <1>1, <1>6

\* A day that is processed and has none after it is the latest.
IsLast(d) == cand[d] = "processed" /\ \A e \in 1..MaxDay : e > d => cand[e] = "absent"

LEMMA LastIsLatest ==
    ASSUME NEW d \in 1..MaxDay, IsLast(d)
    PROVE  Processed # {} /\ Latest = d
<1>1. d \in Processed /\ \A e \in Processed : ~(e > d)
  BY DEF IsLast, Processed
<1>2. \A e \in Processed : e \in 1..MaxDay
  BY DEF Processed
<1>3. \A e \in Processed : d >= e
  BY <1>1, <1>2
<1>4. PICK m : m = Max(Processed)
  OBVIOUS
<1>5. m \in Processed /\ \A e \in Processed : m >= e
  BY <1>1, <1>3, <1>4 DEF Max
<1>. QED
  BY <1>1, <1>2, <1>3, <1>4, <1>5 DEF Latest

LEMMA ReplyIsPage ==
    ASSUME IInv, NEW w \in Worker, wk[w].job \in Job
    PROVE  Reply(w).total \in Nat /\ Reply(w).items \in Seq(STRING \X Nat)
<1>. DEFINE r == wk[w].job[2]
            s == Source[r][now_at[r]]
            n == wk[w].page + 1
<1>1. r \in Route /\ now_at[r] \in DOMAIN Source[r]
  BY DEF IInv, Typed, Job
<1>2. s \in [total : Nat, pages : Seq(Seq(STRING \X Nat))]
  <2>1. PICK Snapshot : Snapshot = [total : Nat, pages : Seq(Seq(STRING \X Nat))]
    OBVIOUS
  <2>2. PICK q : q = Source[r]
    OBVIOUS
  <2>3. PICK i : i = now_at[r]
    OBVIOUS
  <2>4. Source \in Seq(Seq(Snapshot))
    BY <2>1, CollectionAssumption
  <2>5. q \in Seq(Snapshot)
    BY <1>1, <2>2, <2>4, ElementOfSeq DEF Route
  <2>6. q[i] \in Snapshot
    BY <1>1, <2>2, <2>3, <2>5, ElementOfSeq
  <2>. QED
    BY <2>1, <2>2, <2>3, <2>6
<1>3. n \in Nat /\ n >= 1
  BY WorkerRow
<1>4. Reply(w).total = s.total /\ Reply(w).items = IF n <= Len(s.pages) THEN s.pages[n] ELSE <<>>
  BY DEF Reply
<1>5. n <= Len(s.pages) => s.pages[n] \in Seq(STRING \X Nat)
  <2>1. s.pages \in Seq(Seq(STRING \X Nat))
    BY <1>2
  <2>. HIDE DEF s, n
  <2>. QED
    BY <1>3, <2>1
<1>6. <<>> \in Seq(STRING \X Nat)
  OBVIOUS
<1>. HIDE DEF s, n
<1>. QED
  BY <1>2, <1>4, <1>5, <1>6

LEMMA ImageIsFinite ==
    ASSUME NEW S, IsFiniteSet(S), NEW f, DOMAIN f = S
    PROVE  IsFiniteSet({f[x] : x \in S})
<1>. DEFINE T == {f[x] : x \in S}
            g == [x \in S |-> f[x]]
<1>1. g \in Surjection(S, T)
  BY DEF Surjection
<1>. QED
  BY <1>1, FS_Surjection

LEMMA NewlySeenIsObserved ==
    ASSUME IInv, NEW w \in Worker, wk[w].job \in Job, NEW page, page.items \in Seq(STRING \X Nat)
    PROVE  Observed(NewlySeen(w, page))
<1>. DEFINE O(r) == [job |-> wk[w].job, gen |-> wk[w].gen, review |-> r, token |-> wk[w].token]
            old == {o.review : o \in SeenIn(wk[w].job, wk[w].gen)}
            fresh == Range(page.items) \ old
<1>1. IsFiniteSet(Range(page.items))
  <2>1. DOMAIN page.items = 1..Len(page.items) /\ Len(page.items) \in Nat
    OBVIOUS
  <2>2. IsFiniteSet(DOMAIN page.items)
    <3>1. 1 \in Int /\ Len(page.items) \in Int
      BY <2>1
    <3>2. IsFiniteSet(1..Len(page.items))
      BY <3>1, FS_Interval
    <3>. QED
      BY <2>1, <3>2
  <2>3. IsFiniteSet({page.items[x] : x \in DOMAIN page.items})
    BY <2>2, ImageIsFinite
  <2>. QED
    BY <2>3 DEF Range
<1>2. IsFiniteSet(fresh)
  BY <1>1, FS_Subset
<1>3. NewlySeen(w, page) = {O(r) : r \in fresh}
  BY DEF NewlySeen
<1>4. IsFiniteSet({O(r) : r \in fresh})
  <2>. DEFINE f == [r \in fresh |-> O(r)]
  <2>. HIDE DEF fresh, O
  <2>1. DOMAIN f = fresh /\ {f[r] : r \in fresh} = {O(r) : r \in fresh}
    OBVIOUS
  <2>. HIDE DEF f
  <2>2. IsFiniteSet({f[r] : r \in fresh})
    BY <1>2, <2>1, ImageIsFinite
  <2>. QED
    BY <2>1, <2>2
<1>5. \A o \in NewlySeen(w, page) : o.job \in Job /\ o.gen \in 0..MaxRestarts
  BY WorkerRow DEF NewlySeen
<1>. QED
  BY <1>3, <1>4, <1>5 DEF Observed

LEMMA AcceptedRow ==
    ASSUME IInv, NEW w \in Worker, NEW j \in Job, wk[w].job = j, NEW page,
           page.total \in Nat, page.items \in Seq(STRING \X Nat)
    PROVE  LET new == Accepted(w, page) IN
           /\ IsJob(new) /\ new.token = jobs[j].token /\ new.gen = jobs[j].gen
           /\ new.page = jobs[j].page + 1
           /\ new.state \in {"pending", "empty", "complete", "unstable"}
<1>. DEFINE obs == SeenIn(j, wk[w].gen) \cup NewlySeen(w, page)
            ids == Ids(obs)
            row == jobs[j]
            read == [row EXCEPT !.total = page.total, !.visited = @ \cup {Keys(page)},
                                !.fetched = @ + Len(page.items), !.page = @ + 1,
                                !.unique = Cardinality(ids)]
            state == IF page.next THEN "pending" ELSE Ending(read)
<1>1. IsFiniteSet(ids)
  <2>1. IsFiniteSet(obs)
    <3>1. IsFiniteSet(SeenIn(j, wk[w].gen))
      BY FS_Subset DEF IInv, Typed, Observed, SeenIn
    <3>2. IsFiniteSet(NewlySeen(w, page))
      BY NewlySeenIsObserved DEF Observed
    <3>. QED
      BY <3>1, <3>2, FS_Union
  <2>. DEFINE f == [o \in obs |-> o.review[1]]
  <2>. HIDE DEF obs
  <2>2. DOMAIN f = obs /\ {f[o] : o \in obs} = ids
    BY DEF Ids
  <2>. HIDE DEF f
  <2>. QED
    BY <2>1, <2>2, ImageIsFinite
<1>2. Cardinality(ids) \in Nat
  BY <1>1, FS_CardinalityType
<1>3. PICK V : row \in JobRow(V)
  BY DEF IInv, Typed, IsJob
<1>4. PICK visited : visited = row.visited \cup {Keys(page)}
  OBVIOUS
<1>5. read = [row EXCEPT !.total = page.total, !.visited = visited,
                         !.fetched = row.fetched + Len(page.items), !.page = row.page + 1,
                         !.unique = Cardinality(ids)]
  <2>. HIDE DEF ids
  <2>. QED
    BY <1>3, <1>4 DEF JobRow
<1>6. Len(page.items) \in Nat
  OBVIOUS
<1>7. /\ read \in JobRow({visited}) /\ read.token = row.token /\ read.gen = row.gen
      /\ read.page = row.page + 1
  <2>1. row.fetched + Len(page.items) \in Nat /\ row.page + 1 \in Nat
    BY <1>3, <1>6 DEF JobRow
  <2>. HIDE DEF ids, read, row
  <2>. QED
    BY <1>2, <1>3, <1>5, <2>1 DEF JobRow
<1>8. PICK s \in {"pending", "empty", "complete", "unstable"} : s = state
  BY DEF Ending
<1>9. Accepted(w, page) = [read EXCEPT !.state = s]
  BY <1>8 DEF Accepted
<1>10. s \in State
  BY DEF State, Terminal
<1>11. /\ [read EXCEPT !.state = s] \in JobRow({visited})
       /\ [read EXCEPT !.state = s].token = row.token /\ [read EXCEPT !.state = s].gen = row.gen
       /\ [read EXCEPT !.state = s].page = row.page + 1 /\ [read EXCEPT !.state = s].state = s
  <2>. HIDE DEF read, row
  <2>. QED
    BY <1>7, <1>10 DEF JobRow
<1>. HIDE DEF read, state
<1>. QED
  BY <1>9, <1>11 DEF IsJob

\* Whatever is decided about a page or the lack of one, it is one of the four changes of a row.
LEMMA PageWritesRow ==
    ASSUME IInv, NEW w \in Worker, NEW j \in Job, wk[w].job = j, Owned(w), NEW page,
           page.total \in Nat, page.items \in Seq(STRING \X Nat)
    PROVE  /\ PageWrite(w, page) \in [job : {PageWrite(w, page).job}, outcome : {"invalid", "succeeded"},
                                      seen : {{}, NewlySeen(w, page)}, head : {NoCorpus}]
           /\ RowAfter(jobs[j], PageWrite(w, page).job, PageWrite(w, page).outcome)
<1>. DEFINE row == jobs[j]
            W(job, outcome, obs) == [job |-> job, outcome |-> outcome, seen |-> obs, head |-> NoCorpus]
<1>1. PICK V : row \in JobRow(V)
  BY DEF IInv, Typed, IsJob
<1>2. RowAfter(row, Unstable(j), "invalid")
  <2>1. "unstable" \in State
    BY DEF State, Terminal
  <2>2. /\ Unstable(j) \in JobRow(V) /\ Unstable(j).token = row.token /\ Unstable(j).gen = row.gen
        /\ Unstable(j).state = "unstable"
    BY <1>1, <2>1 DEF Unstable, JobRow
  <2>. QED
    BY <2>2 DEF RowAfter, IsJob
<1>3. ASSUME MayRestart(j)
      PROVE  RowAfter(row, Restarted(j), "invalid")
  <2>1. row.gen + 1 \in 0..MaxRestarts /\ row.token \in Nat /\ row.live \in BOOLEAN
    BY <1>1, <1>3, CollectionAssumption DEF MayRestart, JobRow
  <2>2. PICK U : New \in JobRow(U)
    BY NewRow DEF IsJob
  <2>3. /\ Restarted(j) \in JobRow(U) /\ Restarted(j).token = row.token
        /\ Restarted(j).gen = row.gen + 1 /\ Restarted(j).page = New.page
        /\ Restarted(j).state = New.state
    BY <2>1, <2>2 DEF Restarted, JobRow
  <2>. QED
    BY <2>3, NewRow DEF RowAfter, IsJob
<1>4. CASE PageWrite(w, page) = W(Unstable(j), "invalid", {})
  BY <1>2, <1>4
<1>5. CASE MayRestart(j) /\ PageWrite(w, page) = W(Restarted(j), "invalid", {})
  BY <1>3, <1>5
<1>6. CASE LET job == Accepted(w, page)
           IN PageWrite(w, page) = W(job, IF job.state = "unstable" THEN "invalid" ELSE "succeeded",
                                     NewlySeen(w, page))
  <2>1. PICK job : job = Accepted(w, page)
    OBVIOUS
  <2>2. /\ IsJob(job) /\ job.token = row.token /\ job.gen = row.gen /\ job.page = row.page + 1
        /\ job.state \in {"pending", "empty", "complete", "unstable"}
    BY <2>1, AcceptedRow
  <2>3. RowAfter(row, job, IF job.state = "unstable" THEN "invalid" ELSE "succeeded")
    BY <2>2 DEF RowAfter
  <2>. QED
    BY <1>6, <2>1, <2>3
<1>. QED
  BY <1>4, <1>5, <1>6 DEF PageWrite

LEMMA DecisionIsWrite ==
    ASSUME IInv, NEW w \in Worker, NEW j \in Job, wk[w].job = j, Owned(w),
           NEW write \in {PageWrite(w, Reply(w)), FailedWrite(w)}
    PROVE  Writes(jobs[j], WithCorpus(j, write))
<1>. DEFINE row == jobs[j]
<1>1. \E Job_, Seen : /\ write \in [job : Job_, outcome : Outcome, seen : Seen, head : {NoCorpus}]
                      /\ RowAfter(row, write.job, write.outcome) /\ Observed(write.seen)
  <2>1. Observed({})
    BY FS_EmptySet DEF Observed
  <2>2. CASE write = PageWrite(w, Reply(w))
    <3>1. PICK page : page = Reply(w)
      OBVIOUS
    <3>2. page.total \in Nat /\ page.items \in Seq(STRING \X Nat)
      BY <3>1, ReplyIsPage
    <3>3. Observed(NewlySeen(w, page))
      BY <3>2, NewlySeenIsObserved
    <3>4. /\ write \in [job : {write.job}, outcome : {"invalid", "succeeded"},
                         seen : {{}, NewlySeen(w, page)}, head : {NoCorpus}]
          /\ RowAfter(row, write.job, write.outcome)
      BY <2>2, <3>1, <3>2, PageWritesRow
    <3>5. write.seen \in {{}, NewlySeen(w, page)}
      BY <3>4
    <3>6. {"invalid", "succeeded"} \subseteq Outcome
      BY DEF Outcome
    <3>7. write \in [job : {write.job}, outcome : Outcome, seen : {{}, NewlySeen(w, page)}, head : {NoCorpus}]
      BY <3>4, <3>6
    <3>. QED
      BY <2>1, <3>3, <3>4, <3>5, <3>7
  <2>3. CASE write = FailedWrite(w)
    <3>1. PICK s \in {"failed", "retryable"} : write = [NoWrite EXCEPT !.outcome = "failed", !.job = [row EXCEPT !.state = s]]
      BY <2>3 DEF FailedWrite
    <3>2. NoWrite \in [job : {Absent}, outcome : {"none"}, seen : {{}}, head : {NoCorpus}]
      BY DEF NoWrite
    <3>3. PICK V : row \in JobRow(V)
      BY DEF IInv, Typed, IsJob
    <3>4. s \in State
      BY DEF State, Terminal
    <3>5. /\ [row EXCEPT !.state = s] \in JobRow(V) /\ [row EXCEPT !.state = s].token = row.token
          /\ [row EXCEPT !.state = s].gen = row.gen /\ [row EXCEPT !.state = s].page = row.page
          /\ [row EXCEPT !.state = s].state = s
      BY <3>3, <3>4 DEF JobRow
    <3>6. RowAfter(row, [row EXCEPT !.state = s], "failed")
      BY <3>5 DEF RowAfter, IsJob
    <3>7. /\ write \in [job : {[row EXCEPT !.state = s]}, outcome : {"failed"}, seen : {{}}, head : {NoCorpus}]
          /\ write.job = [row EXCEPT !.state = s] /\ write.outcome = "failed" /\ write.seen = {}
      BY <3>1, <3>2
    <3>8. "failed" \in Outcome
      BY DEF Outcome
    <3>9. write \in [job : {[row EXCEPT !.state = s]}, outcome : Outcome, seen : {{}}, head : {NoCorpus}]
      BY <3>7, <3>8
    <3>. QED
      BY <2>1, <3>6, <3>7, <3>9
  <2>. QED
    BY <2>2, <2>3
<1>2. PICK Job_, Seen : /\ write \in [job : Job_, outcome : Outcome, seen : Seen, head : {NoCorpus}]
                        /\ RowAfter(row, write.job, write.outcome) /\ Observed(write.seen)
  BY <1>1
<1>3. Built(j, write).day \in 0..MaxDay /\ NoCorpus.day \in 0..MaxDay
  <2>1. Processed # {} => Latest \in 0..MaxDay
    BY LatestIsDay
  <2>2. MaxDay \in Nat
    BY CollectionAssumption
  <2>. QED
    BY <2>1, <2>2 DEF Built, NoCorpus
<1>4. WithCorpus(j, write) \in {write, [write EXCEPT !.head = Built(j, write)]}
  BY DEF WithCorpus
<1>5. write.head = NoCorpus
  BY <1>2
<1>6. PICK built : built = Built(j, write)
  OBVIOUS
<1>7. PICK all : all = WithCorpus(j, write)
  OBVIOUS
<1>8. /\ all.job = write.job /\ all.outcome = write.outcome /\ all.seen = write.seen
      /\ all.head \in {NoCorpus, built}
  BY <1>2, <1>4, <1>5, <1>6, <1>7
<1>. QED
  BY <1>2, <1>3, <1>6, <1>7, <1>8 DEF Writes

\* Deciding takes the lock of the game, so that no other worker has decided.
LEMMA NobodyDecided ==
    ASSUME IInv, lock = Nobody
    PROVE  \A v \in Worker : wk[v].pc # "commit"
BY CollectionAssumption DEF IInv, DecidedUnderLock, Nobody

LEMMA DecideIsSafe ==
    ASSUME IInv, NEW w \in Worker, Decide(w)
    PROVE  IInv'
<1>1. /\ wk[w].pc = "fetch" /\ Owned(w) /\ lock = Nobody /\ lock' = w
      /\ UNCHANGED <<jobs, fetches, seen, head, cand, now_at>>
  BY DEF Decide, At, TakesLock
<1>2. wk[w].pc \in Working
  BY <1>1 DEF Working
<1>3. PICK j \in Job : wk[w].job = j
  BY <1>2, WorkerRow
<1>4. PICK write \in {PageWrite(w, Reply(w)), FailedWrite(w)} :
         Set(w, [wk[w] EXCEPT !.pc = "commit", !.write = WithCorpus(wk[w].job, write)])
  BY DEF Decide
<1>5. PICK all : all = WithCorpus(j, write)
  OBVIOUS
<1>6. Writes(jobs[j], all)
  BY <1>1, <1>3, <1>5, DecisionIsWrite
<1>7. wk' = [wk EXCEPT ![w] = [wk[w] EXCEPT !.pc = "commit", !.write = all]]
  BY <1>3, <1>4, <1>5 DEF Set
<1>8. PICK T, W : wk[w] \in Memory(T, W)
  BY DEF IInv, Typed, IsWorker
<1>9. /\ wk'[w] \in Memory(T, {all}) /\ wk'[w].pc = "commit" /\ wk'[w].job = j /\ wk'[w].write = all
      /\ wk'[w].token = wk[w].token /\ wk'[w].gen = wk[w].gen /\ wk'[w].page = wk[w].page
  <2>1. wk'[w] = [wk[w] EXCEPT !.pc = "commit", !.write = all]
    BY <1>7 DEF IInv, Typed
  <2>. QED
    BY <1>3, <1>8, <2>1 DEF Memory, Working
<1>10. /\ wk' = [v \in Worker |-> wk'[v]] /\ \A v \in Worker : v # w => wk'[v] = wk[v]
       /\ \A v \in Worker : v # w => wk'[v].pc # "commit"
  BY <1>1, <1>7, NobodyDecided DEF IInv, Typed
<1>11. Typed'
  <2>1. IsWorker(wk'[w])
    BY <1>9 DEF IsWorker
  <2>2. \A v \in Worker : IsWorker(wk'[v])
    BY <1>10, <2>1 DEF IInv, Typed
  <2>. QED
    BY <1>1, <1>10, <2>2 DEF IInv, Typed
<1>12. CallsOfClaims'
  BY <1>1 DEF IInv, CallsOfClaims
<1>13. ClaimsApart'
  <2>1. \A v \in Worker : wk'[v].pc \in Working =>
           wk'[v].token <= jobs'[wk'[v].job].token /\ cand'[wk'[v].job[1]] # "absent"
    BY <1>1, <1>2, <1>3, <1>9, <1>10 DEF IInv, ClaimsApart
  <2>2. \A u, v \in Worker : /\ u # v /\ wk'[u].pc \in Working /\ wk'[v].pc \in Working
                            /\ wk'[u].job = wk'[v].job
                            => wk'[u].token # wk'[v].token
    BY <1>2, <1>3, <1>9, <1>10 DEF IInv, ClaimsApart
  <2>3. \A v \in Worker, f \in fetches' :
          wk'[v].pc = "start" => ~(f.job = wk'[v].job /\ f.token = wk'[v].token)
    BY <1>1, <1>9, <1>10 DEF IInv, ClaimsApart
  <2>4. \A v \in Worker : wk'[v].pc \in {"fetch", "commit"} =>
          \E f \in fetches' : SameCall(wk'[v], f)
    BY <1>1, <1>3, <1>9, <1>10 DEF IInv, ClaimsApart, SameCall
  <2>. QED
    BY <2>1, <2>2, <2>3, <2>4 DEF ClaimsApart
<1>14. DecidedUnderLock'
  <2>1. Owned(w)'
    BY <1>1, <1>3, <1>9 DEF Owned
  <2>2. Writes(jobs'[wk'[w].job], wk'[w].write)
    BY <1>1, <1>6, <1>9
  <2>. QED
    BY <1>1, <1>10, <2>1, <2>2 DEF DecidedUnderLock
<1>15. JobsOfCandidates' /\ StartedIsCurrent' /\ PageAttemptsBounded'
  <2>1. JobsOfCandidates'
    BY <1>1 DEF IInv, JobsOfCandidates
  <2>2. StartedIsCurrent'
    BY <1>1 DEF IInv, StartedIsCurrent
  <2>3. PageAttemptsBounded'
    BY <1>1 DEF IInv, PageAttemptsBounded, FetchesAt
  <2>. QED
    BY <2>1, <2>2, <2>3
<1>16. \A i \in Job : InOrder(jobs[i], Read(i, jobs[i].gen))'
  BY <1>1 DEF IInv, InOrder, Read
<1>. QED
  BY <1>11, <1>12, <1>13, <1>14, <1>15, <1>16 DEF IInv

\* The row Commit writes is the one that was decided, with the lease the job has now.
LEMMA LeaseOfRow ==
    ASSUME NEW row, IsJob(row), NEW new, NEW outcome, RowAfter(row, new, outcome)
    PROVE  RowAfter(row, [new EXCEPT !.live = row.live], outcome)
<1>1. PICK V : new \in JobRow(V)
  BY DEF RowAfter, IsJob
<1>2. row.live \in BOOLEAN
  BY DEF IsJob, JobRow
<1>3. PICK live \in BOOLEAN : live = row.live
  BY <1>2
<1>4. LET kept == [new EXCEPT !.live = live] IN
      /\ kept \in JobRow(V) /\ kept.token = new.token /\ kept.state = new.state
      /\ kept.gen = new.gen /\ kept.page = new.page
  BY <1>1 DEF JobRow
<1>. QED
  BY <1>3, <1>4 DEF RowAfter, IsJob

LEMMA CommitIsSafe ==
    ASSUME IInv, NEW w \in Worker, Commit(w)
    PROVE  IInv'
<1>1. /\ wk[w].pc = "commit" /\ wk[w].pc \in Working /\ UNCHANGED <<cand, now_at>>
      /\ wk' = [wk EXCEPT ![w] = Idle]
      /\ lock' = IF lock = w THEN Nobody ELSE lock
      /\ seen' = seen \cup wk[w].write.seen
      /\ head' \in {head, wk[w].write.head}
  BY DEF Commit, At, Set, Working
<1>2. PICK j \in Job : wk[w].job = j
  BY <1>1, WorkerRow
<1>3. PICK outcome : outcome = wk[w].write.outcome
  OBVIOUS
<1>4. PICK job : job = wk[w].write.job
  OBVIOUS
<1>5. /\ lock = w /\ Owned(w) /\ RowAfter(jobs[j], job, outcome)
      /\ Observed(wk[w].write.seen) /\ wk[w].write.head.day \in 0..MaxDay
  BY <1>1, <1>2, <1>3, <1>4 DEF IInv, DecidedUnderLock, Writes
<1>6. outcome \in Outcome /\ outcome # "started"
  BY <1>5 DEF RowAfter, Outcome
<1>7. jobs' = [jobs EXCEPT ![j] = jobs'[j]] /\ jobs'[j] = [job EXCEPT !.live = jobs[j].live]
  BY <1>2, <1>4 DEF Commit, IInv, Typed
<1>8. RowAfter(jobs[j], jobs'[j], outcome)
  <2>1. PICK row : row = jobs[j]
    OBVIOUS
  <2>2. IsJob(row)
    BY <2>1 DEF IInv, Typed
  <2>3. RowAfter(row, [job EXCEPT !.live = row.live], outcome)
    BY <1>5, <2>1, <2>2, LeaseOfRow
  <2>. QED
    BY <1>7, <2>1, <2>3
<1>9. fetches' = Ended(MyCalls(w), outcome)
  BY <1>3 DEF Commit, MyCalls
<1>10. \A v \in Worker : wk[v].pc = "commit" => v = w
  BY <1>5 DEF IInv, DecidedUnderLock
<1>11. lock' \in Worker \cup {Nobody} /\ head'.day \in 0..MaxDay
  BY <1>1, <1>5 DEF IInv, Typed
<1>12. Observed(seen')
  <2>1. IsFiniteSet(seen')
    BY <1>1, <1>5, FS_Union DEF IInv, Typed, Observed
  <2>. QED
    BY <1>1, <1>5, <2>1 DEF IInv, Typed, Observed
<1>13. outcome = "succeeded" => wk[w].pc # "start"
  BY <1>1
<1>. QED
  BY <1>1, <1>2, <1>5, <1>6, <1>7, <1>8, <1>9, <1>10, <1>11, <1>12, <1>13, WrittenIsSafe

-----------------------------------------------------------------------------
(* The steps of the world, and the theorems.                                   *)

LEMMA ExpiryIsSafe ==
    ASSUME IInv, NEW i \in Job, jobs' = [jobs EXCEPT ![i].live = FALSE],
           UNCHANGED <<fetches, seen, head, cand, now_at, lock, wk>>
    PROVE  IInv'
<1>1. PICK V : jobs[i] \in JobRow(V)
  BY DEF IInv, Typed, IsJob
<1>2. /\ jobs' = [j \in Job |-> jobs'[j]] /\ \A j \in Job : j # i => jobs'[j] = jobs[j]
      /\ jobs'[i] = [jobs[i] EXCEPT !.live = FALSE]
  BY DEF IInv, Typed
<1>3. SameButLive(i)
  <2>1. /\ jobs'[i] \in JobRow(V) /\ jobs'[i].state = jobs[i].state /\ jobs'[i].token = jobs[i].token
        /\ jobs'[i].gen = jobs[i].gen /\ jobs'[i].page = jobs[i].page
    BY <1>1, <1>2 DEF JobRow
  <2>. QED
    BY <2>1 DEF SameButLive, IsJob
<1>4. \A j \in Job : SameButLive(j)
  BY <1>2, <1>3 DEF SameButLive, IInv, Typed
<1>5. LetsGo(i)
  BY DEF LetsGo
<1>6. \A r \in Route : now_at'[r] \in DOMAIN Source[r]
  BY DEF IInv, Typed
<1>7. now_at' = [r \in Route |-> now_at'[r]]
  BY DEF IInv, Typed
<1>. QED
  BY <1>2, <1>4, <1>5, <1>6, <1>7, QuietIsSafe

LEMMA CrashIsSafe ==
    ASSUME IInv, NEW w \in Worker, Crash(w)
    PROVE  IInv'
<1>1. LetsGo(w) /\ UNCHANGED <<jobs, fetches, seen, head, cand, now_at>>
  BY DEF Crash, LetsGo, Set
<1>2. jobs' = [j \in Job |-> jobs'[j]] /\ \A j \in Job : SameButLive(j)
  BY <1>1 DEF SameButLive, IInv, Typed
<1>3. /\ \A r \in Route : now_at'[r] \in DOMAIN Source[r]
      /\ now_at' = [r \in Route |-> now_at'[r]]
  BY <1>1 DEF IInv, Typed
<1>. QED
  BY <1>1, <1>2, <1>3, QuietIsSafe

LEMMA SourceChangesIsSafe ==
    ASSUME IInv, NEW r \in Route, SourceChanges(r)
    PROVE  IInv'
<1>1. LetsGo(r) /\ UNCHANGED <<jobs, fetches, seen, head, cand>>
  BY DEF SourceChanges, LetsGo
<1>2. jobs' = [j \in Job |-> jobs'[j]] /\ \A j \in Job : SameButLive(j)
  BY <1>1 DEF SameButLive, IInv, Typed
<1>3. /\ now_at' = [q \in Route |-> now_at'[q]] /\ now_at'[r] = now_at[r] + 1
      /\ \A q \in Route : q # r => now_at'[q] = now_at[q]
  BY DEF SourceChanges, IInv, Typed
<1>4. now_at'[r] \in DOMAIN Source[r]
  <2>1. PICK Snapshot : Source[r] \in Seq(Snapshot)
    BY CollectionAssumption DEF Route
  <2>2. DOMAIN Source[r] = 1..Len(Source[r]) /\ Len(Source[r]) \in Nat
    BY <2>1
  <2>3. now_at[r] \in 1..Len(Source[r]) /\ now_at[r] < Len(Source[r])
    BY <2>2 DEF SourceChanges, IInv, Typed
  <2>. QED
    BY <1>3, <2>2, <2>3
<1>5. \A q \in Route : now_at'[q] \in DOMAIN Source[q]
  BY <1>3, <1>4 DEF IInv, Typed
<1>. QED
  BY <1>1, <1>2, <1>3, <1>5, QuietIsSafe

LEMMA InitIsSafe == Init => IInv
<1>1. SUFFICES ASSUME Init PROVE IInv
  OBVIOUS
<1>2. /\ fetches = {} /\ seen = {} /\ lock = Nobody /\ head = NoCorpus
      /\ wk = [w \in Worker |-> Idle] /\ \A w \in Worker : wk[w] = Idle
      /\ jobs = [j \in Job |-> jobs[j]] /\ \A j \in Job : jobs[j] = IF j[1] = 1 THEN New ELSE Absent
      /\ now_at = [r \in Route |-> 1]
      /\ cand = [d \in 1..MaxDay |-> IF d = 1 THEN "processed" ELSE "absent"]
  BY <1>1 DEF Init
<1>3. /\ IsJob(Absent) /\ Absent.state = "absent" /\ Absent.page = 0
  <2>1. PICK V : New \in JobRow(V)
    BY NewRow DEF IsJob
  <2>2. "absent" \in State
    BY DEF State
  <2>3. Absent \in JobRow(V) /\ Absent.state = "absent" /\ Absent.page = New.page
    BY <2>1, <2>2 DEF Absent, JobRow
  <2>. QED
    BY <2>3, NewRow DEF IsJob
<1>4. \A w \in Worker : wk[w].pc \notin Working
  BY <1>2, IdleIsWorker DEF Working
<1>5. \A r \in Route : 1 \in DOMAIN Source[r]
  <2>1. SUFFICES ASSUME NEW r \in Route PROVE 1 \in DOMAIN Source[r]
    OBVIOUS
  <2>2. PICK Snapshot : Source[r] \in Seq(Snapshot)
    BY CollectionAssumption DEF Route
  <2>3. Source[r] # <<>>
    BY CollectionAssumption
  <2>. QED
    BY <2>2, <2>3
<1>6. Typed
  <2>1. head.day \in 0..MaxDay /\ cand \in [1..MaxDay -> Standing]
    BY <1>2, CollectionAssumption DEF NoCorpus, Standing
  <2>2. \A r \in Route : now_at[r] \in DOMAIN Source[r]
    BY <1>2, <1>5
  <2>3. \A j \in Job : IsJob(jobs[j])
    BY <1>2, <1>3, NewRow
  <2>4. fetches \subseteq Call /\ IsFiniteSet(fetches) /\ Observed(seen)
    BY <1>2, FS_EmptySet DEF Observed
  <2>5. wk = [w \in Worker |-> wk[w]] /\ \A w \in Worker : IsWorker(wk[w])
    BY <1>2, IdleIsWorker
  <2>6. now_at = [r \in Route |-> now_at[r]]
    BY <1>2
  <2>. QED
    BY <1>2, <2>1, <2>2, <2>3, <2>4, <2>5, <2>6 DEF Typed
<1>7. CallsOfClaims /\ StartedIsCurrent /\ PageAttemptsBounded
  BY <1>2 DEF CallsOfClaims, StartedIsCurrent, PageAttemptsBounded
<1>8. ClaimsApart /\ DecidedUnderLock
  BY <1>4 DEF ClaimsApart, DecidedUnderLock, Working
<1>9. JobsOfCandidates
  BY <1>2, <1>3, NewRow DEF JobsOfCandidates, Job
<1>10. \A j \in Job : InOrder(jobs[j], Read(j, jobs[j].gen))
  <2>1. SUFFICES ASSUME NEW j \in Job PROVE InOrder(jobs[j], Read(j, jobs[j].gen))
    OBVIOUS
  <2>2. Read(j, jobs[j].gen) = {} /\ jobs[j].page = 0
    BY <1>2, <1>3, NewRow DEF Read
  <2>3. {f.page : f \in {}} = 0..(jobs[j].page - 1)
    BY <2>2
  <2>. QED
    BY <2>2, <2>3, FS_EmptySet DEF InOrder
<1>. QED
  BY <1>6, <1>7, <1>8, <1>9, <1>10 DEF IInv

LEMMA NextIsSafe == IInv /\ [Next]_vars => IInv'
<1>1. SUFFICES ASSUME IInv, [Next]_vars PROVE IInv'
  OBVIOUS
<1>2. ASSUME NEW w \in Worker, Step(w) PROVE IInv'
  BY <1>1, <1>2, ClaimIsSafe, ClaimNothingIsSafe, StartFetchIsSafe, DecideIsSafe,
     SupersededIsSafe, CommitIsSafe DEF Step
<1>3. ASSUME NEW w \in Worker, Crash(w) PROVE IInv'
  BY <1>1, <1>3, CrashIsSafe
<1>4. ASSUME NEW j \in Job, Expire(j) \/ ExpireLost(j) PROVE IInv'
  BY <1>1, <1>4, ExpiryIsSafe DEF Expire, ExpireLost
<1>5. ASSUME NEW r \in Route, SourceChanges(r) PROVE IInv'
  BY <1>1, <1>5, SourceChangesIsSafe
<1>6. ASSUME NEW d \in 1..MaxDay, Process(d) \/ SetBack(d) PROVE IInv'
  BY <1>1, <1>6, ProcessIsSafe, SetBackIsSafe
<1>7. CASE UNCHANGED vars
  <2>1. LetsGo(0) /\ UNCHANGED <<jobs, fetches, seen, head, cand, now_at>>
    BY <1>7 DEF vars, LetsGo
  <2>2. jobs' = [j \in Job |-> jobs'[j]] /\ \A j \in Job : SameButLive(j)
    BY <1>1, <2>1 DEF SameButLive, IInv, Typed
  <2>3. /\ \A r \in Route : now_at'[r] \in DOMAIN Source[r]
        /\ now_at' = [r \in Route |-> now_at'[r]]
    BY <1>1, <2>1 DEF IInv, Typed
  <2>. QED
    BY <1>1, <2>1, <2>2, <2>3, QuietIsSafe
<1>. QED
  BY <1>1, <1>2, <1>3, <1>4, <1>5, <1>6, <1>7 DEF Next

\* The strengthened invariant holds in every reachable state: tokens stand for one claim, a
\* claim makes one call, what is committed was decided under the lock of the game.
THEOREM InvariantHolds == Spec => []IInv
BY InitIsSafe, NextIsSafe, PTL DEF Spec

\* The rows of jobs, calls and observations hold what their columns may hold.
THEOREM TypeCorrect == Spec => []TypeOK
BY InvariantHolds, IInvGivesTypeOK, PTL

\* No page of a generation is skipped or counted twice (_commit_page).
THEOREM PagesInOrderHolds == Spec => []PagesInOrder
<1>1. IInv => PagesInOrder
  BY InOrderIsInOrder DEF IInv
<1>. QED
  BY <1>1, InvariantHolds, PTL

\* A page is asked for at most MAX_AUTOMATIC_ATTEMPTS times (_page_attempt_count).
THEOREM PageAttemptsBoundedHolds == Spec => []PageAttemptsBounded
<1>1. IInv => PageAttemptsBounded
  BY DEF IInv
<1>. QED
  BY <1>1, InvariantHolds, PTL

\* An open call belongs to the claim its job runs under (_still_owned and the recovery).
THEOREM StartedIsCurrentHolds == Spec => []StartedIsCurrent
<1>1. IInv => StartedIsCurrent
  BY DEF IInv
<1>. QED
  BY <1>1, InvariantHolds, PTL

\* Only a job that waits, runs or does not exist yet is written.
LEMMA WrittenWasOpen ==
    ASSUME IInv, Next, NEW j \in Job, jobs[j].state \in Terminal
    PROVE  jobs'[j] = jobs[j]
<1>1. jobs[j].state \notin {"absent", "pending", "running", "retryable"} /\ j \notin Stale
  BY DEF Terminal, Stale
<1>2. AfterRecovery[j] = jobs[j] /\ jobs = [i \in Job |-> jobs[i]]
  BY <1>1 DEF AfterRecovery, IInv, Typed
<1>3. ASSUME NEW w \in Worker, Claim(w) PROVE jobs'[j] = jobs[j]
  <2>1. PICK i \in Claimable :
           jobs' = [AfterRecovery EXCEPT ![i].token = @ + 1, ![i].live = TRUE, ![i].state = "running"]
    BY <1>3 DEF Claim
  <2>2. i # j
    BY <1>1 DEF Claimable
  <2>. QED
    BY <1>2, <2>1, <2>2 DEF AfterRecovery
<1>4. ASSUME NEW w \in Worker, ClaimNothing(w) PROVE jobs'[j] = jobs[j]
  BY <1>2, <1>4 DEF ClaimNothing
<1>5. ASSUME NEW w \in Worker, StartFetch(w) PROVE jobs'[j] = jobs[j]
  <2>1. \/ jobs' = jobs
        \/ Owned(w) /\ \E row : jobs' = [jobs EXCEPT ![wk[w].job] = row]
    <3>1. CASE ~(Owned(w) /\ jobs[wk[w].job].live)
      BY <1>5, <3>1 DEF StartFetch
    <3>2. CASE Owned(w) /\ PageAttempts(wk[w].job) >= MaxAttempts /\ jobs[wk[w].job].live
      BY <1>5, <3>2 DEF StartFetch
    <3>3. CASE Owned(w) /\ ~(PageAttempts(wk[w].job) >= MaxAttempts) /\ jobs[wk[w].job].live
      BY <1>5, <3>3 DEF StartFetch
    <3>. QED
      BY <3>1, <3>2, <3>3
  <2>. QED
    BY <1>1, <1>2, <2>1 DEF Owned
<1>6. ASSUME NEW w \in Worker, Commit(w) PROVE jobs'[j] = jobs[j]
  <2>1. Owned(w)
    BY <1>6 DEF Commit, At, IInv, DecidedUnderLock
  <2>2. wk[w].job # j
    BY <1>1, <2>1 DEF Owned
  <2>. QED
    BY <1>2, <1>6, <2>2 DEF Commit
<1>7. ASSUME NEW w \in Worker, Decide(w) \/ Superseded(w) \/ Crash(w) PROVE jobs'[j] = jobs[j]
  BY <1>7 DEF Decide, Superseded, Crash
<1>8. ASSUME NEW i \in Job, Expire(i) \/ ExpireLost(i) PROVE jobs'[j] = jobs[j]
  <2>1. i # j
    BY <1>1, <1>8 DEF Expire, ExpireLost
  <2>. QED
    BY <1>2, <1>8, <2>1 DEF Expire, ExpireLost
<1>9. ASSUME NEW r \in Route, SourceChanges(r) PROVE jobs'[j] = jobs[j]
  BY <1>9 DEF SourceChanges
<1>10. ASSUME NEW d \in 1..MaxDay, Process(d) \/ SetBack(d) PROVE jobs'[j] = jobs[j]
  BY <1>1, <1>10 DEF Process, SetBack
<1>. QED
  BY <1>3, <1>4, <1>5, <1>6, <1>7, <1>8, <1>9, <1>10 DEF Next, Step

\* A job that has ended is never changed again: the writes of a late answer, a recovery or a
\* claim all need a job that is still open (_still_owned, claim_next_job).
THEOREM TerminalStaysHolds == Spec => TerminalStays
<1>1. IInv /\ [Next]_vars => [\A j \in Job : jobs[j].state \in Terminal => jobs'[j] = jobs[j]]_vars
  BY WrittenWasOpen
<1>. QED
  BY <1>1, InvariantHolds, PTL DEF Spec, TerminalStays

-----------------------------------------------------------------------------
(* What is made of the pages: the observations of a route, the corpus of a day *)
(* and the moment it is handed on.                                             *)

-----------------------------------------------------------------------------
(* The inductive invariant, beside IInv.                                       *)

\* Every review is there in one version.
OneVersion(obs) == \A o, p \in obs : o.review[1] = p.review[1] => o = p

Good(row) == row.state \in {"complete", "empty"}

\* The counts of a row are those of the observations of its generation.
Fits(row, obs) ==
    /\ row.unique = Cardinality(Ids(obs))
    /\ row.fetched = 0 => obs = {}
    /\ OneVersion(obs)
    /\ row.state = "complete" => row.total = row.unique /\ row.fetched = row.unique /\ row.total # 0
    /\ row.state = "empty" => row.total = 0 /\ row.fetched = 0

JobsFit == \A j \in Job : Fits(jobs[j], SeenIn(j, jobs[j].gen))

\* An observation is of a call, which was accepted unless it made its job unstable.
CallOf(o, f) ==
    /\ f.job = o.job /\ f.token = o.token /\ f.gen = o.gen
    /\ o.gen = jobs[o.job].gen /\ jobs[o.job].state # "unstable" => f.outcome = "succeeded"
SeenOfCalls == \A o \in seen : \E f \in fetches : CallOf(o, f)

\* A row and the observations as they will be when a decision is committed.
RowWith(j, write, i) == IF i = j THEN write.job ELSE jobs[i]
ObsWith(write, i, gen) == {o \in seen \cup write.seen : o.job = i /\ o.gen = gen}

\* A decision brings the observations of its own claim only, ...
BringsOwn(j, token, write) ==
    \A o \in write.seen : /\ o.job = j /\ o.token = token /\ o.gen = jobs[j].gen
                          /\ write.job.gen = jobs[j].gen
                          /\ write.outcome = "succeeded" \/ write.job.state = "unstable"

\* ... and a corpus of one cohort, which is the last day's when it makes that day whole.
OfCohort(j, write, r) ==
    LET row == RowWith(j, write, <<write.head.day, r>>) IN
    /\ Good(row)
    /\ write.head.reviews[r] = {o.review : o \in ObsWith(write, <<write.head.day, r>>, row.gen)}
AllGood(j, write, d) == Good(write.job) /\ \A r \in Route : Good(RowWith(j, write, <<d, r>>))
BringsCorpus(j, write) ==
    /\ write.head = NoCorpus \/ (write.head.day \in 1..MaxDay /\ \A r \in Route : OfCohort(j, write, r))
    /\ \A d \in 1..MaxDay : IsLast(d) /\ (write.head # NoCorpus \/ AllGood(j, write, d)) => write.head.day = d

DecisionFits(j, token, write) ==
    /\ BringsOwn(j, token, write)
    /\ Fits(write.job, ObsWith(write, j, write.job.gen))
    /\ BringsCorpus(j, write)

DecisionsFit == \A w \in Worker : wk[w].pc = "commit" =>
                    DecisionFits(wk[w].job, wk[w].token, wk[w].write)

HeadInUse == head.day # 0 => head.reviews \in corpora

CInv == IInv /\ JobsFit /\ SeenOfCalls /\ DecisionsFit /\ HeadInUse /\ CorpusOfOneCohort

-----------------------------------------------------------------------------
(* Counting observations.                                                      *)

LEMMA BijectionCounts ==
    ASSUME NEW S, IsFiniteSet(S), NEW f, DOMAIN f = S,
           \A x, y \in S : f[x] = f[y] => x = y
    PROVE  Cardinality({f[x] : x \in S}) = Cardinality(S)
<1>. DEFINE T == {f[x] : x \in S}
            g == [x \in S |-> f[x]]
<1>1. g \in Bijection(S, T)
  BY DEF Bijection, Injection, Surjection, IsInjective
<1>2. ExistsBijection(S, T)
  BY <1>1 DEF ExistsBijection
<1>. QED
  BY <1>2, FS_Bijection

LEMMA OneVersionCounts ==
    ASSUME NEW obs, IsFiniteSet(obs), OneVersion(obs)
    PROVE  /\ Cardinality(Ids(obs)) = Cardinality(obs)
           /\ Cardinality({o.review : o \in obs}) = Cardinality(obs)
<1>1. Cardinality(Ids(obs)) = Cardinality(obs)
  <2>. DEFINE f == [o \in obs |-> o.review[1]]
  <2>1. DOMAIN f = obs /\ {f[o] : o \in obs} = Ids(obs)
    BY DEF Ids
  <2>2. \A o, p \in obs : f[o] = f[p] => o = p
    BY DEF OneVersion
  <2>. HIDE DEF f
  <2>3. Cardinality({f[o] : o \in obs}) = Cardinality(obs)
    BY <2>1, <2>2, BijectionCounts
  <2>. QED
    BY <2>1, <2>3
<1>2. Cardinality({o.review : o \in obs}) = Cardinality(obs)
  <2>. DEFINE f == [o \in obs |-> o.review]
  <2>1. DOMAIN f = obs /\ {f[o] : o \in obs} = {o.review : o \in obs}
    OBVIOUS
  <2>2. \A o, p \in obs : f[o] = f[p] => o = p
    BY DEF OneVersion
  <2>. HIDE DEF f
  <2>3. Cardinality({f[o] : o \in obs}) = Cardinality(obs)
    BY <2>1, <2>2, BijectionCounts
  <2>. QED
    BY <2>1, <2>3
<1>. QED
  BY <1>1, <1>2

\* A row that fits and is complete or empty passes the checks of collection_state, and its
\* counts are the number of its observations.
LEMMA GoodIsVerified ==
    ASSUME NEW row, NEW obs, IsFiniteSet(obs), Fits(row, obs), Good(row)
    PROVE  /\ Verified(row) /\ row.total = Cardinality(obs) /\ row.fetched = Cardinality(obs)
           /\ Cardinality({o.review : o \in obs}) = row.unique
           /\ Cardinality(Ids(obs)) = Cardinality({o.review : o \in obs})
           /\ Cardinality(Ids(obs)) = Cardinality(obs)
<1>1. Cardinality(Ids(obs)) = Cardinality(obs) /\ Cardinality({o.review : o \in obs}) = Cardinality(obs)
  BY OneVersionCounts DEF Fits
<1>2. row.unique = Cardinality(obs)
  BY <1>1 DEF Fits
<1>3. CASE row.state = "complete"
  BY <1>1, <1>2, <1>3 DEF Fits, Verified
<1>4. CASE row.state = "empty"
  <2>1. row.total = 0 /\ row.fetched = 0 /\ obs = {}
    BY <1>4 DEF Fits
  <2>2. Cardinality(obs) = 0
    BY <2>1, FS_EmptySet
  <2>. QED
    BY <1>1, <1>2, <1>4, <2>1, <2>2 DEF Verified
<1>. QED
  BY <1>3, <1>4 DEF Good

LEMMA SeenInIsFinite ==
    ASSUME IInv, NEW j, NEW gen
    PROVE  IsFiniteSet(SeenIn(j, gen))
BY FS_Subset DEF IInv, Typed, Observed, SeenIn

-----------------------------------------------------------------------------
(* Steps that neither add an observation nor end a job well.                   *)

Counts(row, new) == /\ new.gen = row.gen /\ new.unique = row.unique
                    /\ new.fetched = row.fetched /\ new.total = row.total

Quiet(row, new) ==
    /\ Counts(row, new)
    /\ \/ new.state = row.state
       \/ row.state \notin Terminal /\ new.state \notin {"complete", "empty", "unstable"}

CallsKept ==
    \A g \in fetches : \E f \in fetches' :
        SameCall(g, f) /\ (g.outcome = "succeeded" => f.outcome = "succeeded")

LEMMA QuietIsGood ==
    ASSUME NEW row, NEW new, Quiet(row, new)
    PROVE  Good(new) = Good(row) /\ new.gen = row.gen
BY DEF Quiet, Counts, Good, Terminal

LEMMA QuietFits ==
    ASSUME NEW row, NEW new, Quiet(row, new), NEW obs, Fits(row, obs)
    PROVE  Fits(new, obs)
BY DEF Quiet, Counts, Fits, Terminal

LEMMA CohortIsJobs ==
    ASSUME IInv, NEW r \in Route
    PROVE  /\ \A d \in 1..MaxDay : <<d, r>> \in Job
           /\ Processed # {} => <<Latest, r>> \in Job
           /\ head.day # 0 => <<head.day, r>> \in Job
<1>1. \A d \in 1..MaxDay : <<d, r>> \in Job
  BY DEF Job
<1>2. head.day # 0 => head.day \in 1..MaxDay
  BY CollectionAssumption DEF IInv, Typed
<1>. QED
  BY <1>1, <1>2, LatestIsDay

QuietStep == /\ UNCHANGED <<seen, head, corpora>> /\ CallsKept
             /\ \A j \in Job : Quiet(jobs[j], jobs'[j])
             /\ \A d \in 1..MaxDay : IsLast(d)' => IsLast(d)

LEMMA QuietKeeps ==
    ASSUME CInv, QuietStep
    PROVE  JobsFit' /\ SeenOfCalls' /\ HeadInUse' /\ CorpusOfOneCohort'
<1>1. UNCHANGED <<seen, head, corpora>> /\ CallsKept /\ \A j \in Job : Quiet(jobs[j], jobs'[j])
  BY DEF QuietStep
<1>2. \A j \in Job : Good(jobs'[j]) = Good(jobs[j]) /\ jobs'[j].gen = jobs[j].gen
  BY <1>1, QuietIsGood
<1>3. \A j \in Job : SeenIn(j, jobs[j].gen)' = SeenIn(j, jobs[j].gen)
  BY <1>1, <1>2 DEF SeenIn
<1>4. JobsFit'
  BY <1>1, <1>3, QuietFits DEF CInv, JobsFit
<1>5. SeenOfCalls'
  <2>1. SUFFICES ASSUME NEW o \in seen PROVE \E f \in fetches' : CallOf(o, f)'
    BY <1>1 DEF SeenOfCalls
  <2>2. PICK g \in fetches : CallOf(o, g)
    BY DEF CInv, SeenOfCalls
  <2>3. PICK f \in fetches' : SameCall(g, f) /\ (g.outcome = "succeeded" => f.outcome = "succeeded")
    BY <1>1 DEF CallsKept
  <2>4. o.job \in Job
    BY DEF CInv, IInv, Typed, Observed
  <2>. QED
    BY <1>1, <2>2, <2>3, <2>4 DEF CallOf, SameCall, Quiet, Counts, Terminal
<1>6. HeadInUse'
  BY <1>1 DEF CInv, HeadInUse
<1>7. CorpusOfOneCohort'
  <2>1. SUFFICES ASSUME head.day # 0, NEW r \in Route
                 PROVE  /\ jobs'[<<head.day, r>>].state \in {"complete", "empty"}
                        /\ head.reviews[r] = {o.review : o \in SeenIn(<<head.day, r>>, jobs[<<head.day, r>>].gen)'}
    BY <1>1 DEF CorpusOfOneCohort
  <2>2. <<head.day, r>> \in Job
    BY <2>1, CohortIsJobs DEF CInv
  <2>3. /\ Good(jobs[<<head.day, r>>])
        /\ head.reviews[r] = {o.review : o \in SeenIn(<<head.day, r>>, jobs[<<head.day, r>>].gen)}
    BY <2>1 DEF CInv, CorpusOfOneCohort, Good
  <2>4. PICK i \in Job : i = <<head.day, r>>
    BY <2>2
  <2>5. Good(jobs'[i]) /\ SeenIn(i, jobs[i].gen)' = SeenIn(i, jobs[i].gen)
    BY <1>2, <1>3, <2>3, <2>4
  <2>6. jobs[<<head.day, r>>]' = jobs'[i] /\ SeenIn(<<head.day, r>>, jobs[<<head.day, r>>].gen)' = SeenIn(i, jobs[i].gen)'
    BY <1>1, <2>4
  <2>. QED
    BY <2>3, <2>4, <2>5, <2>6 DEF Good
<1>. QED
  BY <1>4, <1>5, <1>6, <1>7

LEMMA QuietKeepsDecision ==
    ASSUME CInv, QuietStep, NEW j \in Job, NEW token, NEW write, DecisionFits(j, token, write)
    PROVE  DecisionFits(j, token, write)'
<1>1. UNCHANGED seen /\ \A d \in 1..MaxDay : IsLast(d)' => IsLast(d)
  BY DEF QuietStep
<1>2. \A i \in Job : Good(jobs'[i]) = Good(jobs[i]) /\ jobs'[i].gen = jobs[i].gen
  BY QuietIsGood DEF QuietStep
<1>3. \A r \in Route, d \in 1..MaxDay : <<d, r>> \in Job
  BY CohortIsJobs DEF CInv
<1>4. \A i \in Job : /\ Good(RowWith(j, write, i)') = Good(RowWith(j, write, i))
                     /\ RowWith(j, write, i)'.gen = RowWith(j, write, i).gen
  BY <1>2 DEF RowWith
<1>5. \A i, gen : ObsWith(write, i, gen)' = ObsWith(write, i, gen)
  BY <1>1 DEF ObsWith
<1>6. BringsOwn(j, token, write)'
  BY <1>2 DEF DecisionFits, BringsOwn
<1>7. BringsCorpus(j, write)'
  <2>1. write.head.day \in 1..MaxDay =>
           \A r \in Route : OfCohort(j, write, r)' = OfCohort(j, write, r)
    BY <1>1, <1>3, <1>4, <1>5 DEF OfCohort
  <2>2. \A d \in 1..MaxDay : AllGood(j, write, d)' = AllGood(j, write, d)
    BY <1>1, <1>3, <1>4 DEF AllGood
  <2>3. BringsCorpus(j, write)
    BY DEF DecisionFits
  <2>4. write.head = NoCorpus \/ (write.head.day \in 1..MaxDay /\ \A r \in Route : OfCohort(j, write, r)')
    BY <2>1, <2>3 DEF BringsCorpus
  <2>5. \A d \in 1..MaxDay : IsLast(d)' /\ (write.head # NoCorpus \/ AllGood(j, write, d)') => write.head.day = d
    BY <1>1, <2>2, <2>3 DEF BringsCorpus
  <2>. QED
    BY <2>4, <2>5 DEF BringsCorpus
<1>. QED
  BY <1>5, <1>6, <1>7 DEF DecisionFits

\* Workers that have decided are those that had.
LEMMA QuietKeepsAll ==
    ASSUME CInv, IInv', QuietStep, \A v \in Worker : wk'[v].pc = "commit" => wk'[v] = wk[v]
    PROVE  CInv'
<1>1. DecisionsFit'
  <2>1. SUFFICES ASSUME NEW v \in Worker, wk'[v].pc = "commit"
                 PROVE  DecisionFits(wk[v].job, wk[v].token, wk[v].write)'
    BY DEF DecisionsFit
  <2>2. wk[v].pc = "commit" /\ wk'[v] = wk[v] /\ DecisionFits(wk[v].job, wk[v].token, wk[v].write)
    BY <2>1 DEF CInv, DecisionsFit
  <2>3. PICK j, token, write : j = wk[v].job /\ token = wk[v].token /\ write = wk[v].write
    OBVIOUS
  <2>4. j \in Job
    BY <2>2, <2>3, WorkerRow DEF CInv, Working
  <2>5. DecisionFits(j, token, write)'
    BY <2>2, <2>3, <2>4, QuietKeepsDecision
  <2>. QED
    BY <2>2, <2>3, <2>5
<1>. QED
  BY <1>1, QuietKeeps DEF CInv

-----------------------------------------------------------------------------
(* The quiet steps.                                                            *)

LEMMA SameIsQuiet == ASSUME NEW row PROVE Quiet(row, row)
BY DEF Quiet, Counts

\* Calls that are still open are closed.
LEMMA ClosedIsKept ==
    ASSUME IInv, NEW rows, rows \subseteq fetches, \A f \in rows : f.outcome = "started",
           NEW outcome \in Outcome, fetches' = Ended(rows, outcome)
    PROVE  CallsKept
<1>1. \A g \in fetches : \E f \in fetches' : /\ SameCall(g, f)
                                             /\ g \in rows => f.outcome = outcome
                                             /\ g \notin rows => f = g
  BY EndedCalls DEF IInv
<1>2. SUFFICES ASSUME NEW g \in fetches
               PROVE  \E f \in fetches' : SameCall(g, f) /\ (g.outcome = "succeeded" => f.outcome = "succeeded")
  BY DEF CallsKept
<1>3. PICK f \in fetches' : SameCall(g, f) /\ (g \notin rows => f = g)
  BY <1>1
<1>. QED
  BY <1>3

LEMMA AfterRecoveryQuiet ==
    ASSUME IInv, NEW j \in Job
    PROVE  /\ Quiet(jobs[j], AfterRecovery[j])
           /\ j \notin Stale => AfterRecovery[j] = jobs[j]
<1>1. CASE j \in Stale
  <2>1. PICK s \in {"failed", "retryable"} : Recovered(j) = [jobs[j] EXCEPT !.token = @ + 1, !.state = s]
    BY DEF Recovered
  <2>2. PICK V : jobs[j] \in JobRow(V)
    BY DEF IInv, Typed, IsJob
  <2>3. Counts(jobs[j], Recovered(j)) /\ Recovered(j).state = s
    BY <2>1, <2>2 DEF JobRow, Counts
  <2>4. jobs[j].state \notin Terminal
    BY <1>1 DEF Stale, Terminal
  <2>5. AfterRecovery[j] = Recovered(j)
    BY <1>1 DEF AfterRecovery
  <2>. QED
    BY <1>1, <2>3, <2>4, <2>5 DEF Quiet
<1>2. CASE j \notin Stale
  BY <1>2, SameIsQuiet DEF AfterRecovery
<1>. QED
  BY <1>1, <1>2

LEMMA ClaimIsQuiet ==
    ASSUME CInv, NEW w \in Worker, Claim(w)
    PROVE  QuietStep /\ \A v \in Worker : wk'[v].pc = "commit" => wk'[v] = wk[v]
<1>1. PICK j, m :
         /\ j \in Claimable
         /\ jobs' = [AfterRecovery EXCEPT ![j].token = @ + 1, ![j].live = TRUE, ![j].state = "running"]
         /\ Set(w, m) /\ m.pc = "start"
  <2>1. Idle.pc = "idle" /\ Idle \in [pc : {"idle"}, job : {NoJob}, token : {0}, gen : {0}, page : {0},
                                      tries : {0}, write : {NoWrite}]
    BY DEF Idle
  <2>2. \A j, t, g, p : [Idle EXCEPT !.pc = "start", !.job = j, !.token = t, !.gen = g, !.page = p].pc = "start"
    BY <2>1
  <2>3. PICK j \in Claimable :
           /\ jobs' = [AfterRecovery EXCEPT ![j].token = @ + 1, ![j].live = TRUE, ![j].state = "running"]
           /\ Set(w, [Idle EXCEPT !.pc = "start", !.job = j, !.token = jobs'[j].token,
                                  !.gen = jobs[j].gen, !.page = jobs[j].page])
    BY DEF Claim
  <2>4. PICK m : m = [Idle EXCEPT !.pc = "start", !.job = j, !.token = jobs'[j].token,
                                  !.gen = jobs[j].gen, !.page = jobs[j].page]
    OBVIOUS
  <2>5. Set(w, m)
    BY <2>3, <2>4
  <2>6. m.pc = "start"
    BY <2>2, <2>4
  <2>. QED
    BY <2>3, <2>5, <2>6
<1>2. /\ j \in Job /\ jobs[j].state \notin Terminal
  BY <1>1 DEF Claimable, Stale, Terminal
<1>3. /\ \A i \in Job : i # j => jobs'[i] = AfterRecovery[i]
      /\ jobs'[j] = [AfterRecovery[j] EXCEPT !.token = @ + 1, !.live = TRUE, !.state = "running"]
  BY <1>1, <1>2 DEF AfterRecovery
<1>4. Quiet(jobs[j], jobs'[j])
  <2>1. Quiet(jobs[j], AfterRecovery[j]) /\ IsJob(AfterRecovery[j])
    BY <1>2, AfterRecoveryQuiet, AfterRecoveryRow DEF CInv
  <2>2. PICK row : row = AfterRecovery[j]
    OBVIOUS
  <2>3. PICK V : row \in JobRow(V)
    BY <2>1, <2>2 DEF IsJob
  <2>4. Counts(row, jobs'[j]) /\ jobs'[j].state = "running"
    BY <1>3, <2>2, <2>3 DEF JobRow, Counts
  <2>. QED
    BY <1>2, <2>1, <2>2, <2>4 DEF Quiet, Counts
<1>5. \A i \in Job : Quiet(jobs[i], jobs'[i])
  BY <1>3, <1>4, AfterRecoveryQuiet DEF CInv
<1>6. CallsKept
  <2>1. fetches' = Ended(StaleCalls, "abandoned") /\ IInv
    BY DEF Claim, StaleCalls, CInv
  <2>2. StaleCalls \subseteq fetches /\ (\A f \in StaleCalls : f.outcome = "started") /\ "abandoned" \in Outcome
    BY DEF StaleCalls, Outcome
  <2>. QED
    BY <2>1, <2>2, ClosedIsKept
<1>7. \A v \in Worker : wk'[v].pc = "commit" => wk'[v] = wk[v]
  BY <1>1 DEF Set, CInv, IInv, Typed
<1>. QED
  BY <1>5, <1>6, <1>7 DEF QuietStep, Claim, IsLast

LEMMA ClaimNothingIsQuiet ==
    ASSUME CInv, NEW w \in Worker, ClaimNothing(w)
    PROVE  QuietStep /\ wk' = wk
<1>1. \A i \in Job : Quiet(jobs[i], jobs'[i])
  BY AfterRecoveryQuiet DEF ClaimNothing, CInv
<1>2. CallsKept
  <2>1. fetches' = Ended(StaleCalls, "abandoned") /\ IInv
    BY DEF ClaimNothing, StaleCalls, CInv
  <2>2. StaleCalls \subseteq fetches /\ (\A f \in StaleCalls : f.outcome = "started") /\ "abandoned" \in Outcome
    BY DEF StaleCalls, Outcome
  <2>. QED
    BY <2>1, <2>2, ClosedIsKept
<1>. QED
  BY <1>1, <1>2 DEF QuietStep, ClaimNothing, IsLast

\* Another state or another lease is not another count.
LEMMA StateIsQuiet ==
    ASSUME IInv, NEW j \in Job, jobs[j].state \notin Terminal,
           NEW s, s \notin {"complete", "empty", "unstable"}
    PROVE  Quiet(jobs[j], [jobs[j] EXCEPT !.state = s])
<1>1. PICK V : jobs[j] \in JobRow(V)
  BY DEF IInv, Typed, IsJob
<1>2. Counts(jobs[j], [jobs[j] EXCEPT !.state = s]) /\ [jobs[j] EXCEPT !.state = s].state = s
  BY <1>1 DEF JobRow, Counts
<1>. QED
  BY <1>2 DEF Quiet

LEMMA LeaseIsQuiet ==
    ASSUME IInv, NEW j \in Job
    PROVE  Quiet(jobs[j], [jobs[j] EXCEPT !.live = FALSE])
<1>1. PICK V : jobs[j] \in JobRow(V)
  BY DEF IInv, Typed, IsJob
<1>2. /\ Counts(jobs[j], [jobs[j] EXCEPT !.live = FALSE])
      /\ [jobs[j] EXCEPT !.live = FALSE].state = jobs[j].state
  BY <1>1 DEF JobRow, Counts
<1>. QED
  BY <1>2 DEF Quiet

LEMMA StartFetchIsQuiet ==
    ASSUME CInv, NEW w \in Worker, StartFetch(w)
    PROVE  QuietStep /\ \A v \in Worker : wk'[v].pc = "commit" => wk'[v] = wk[v]
<1>1. wk[w].pc = "start" /\ IInv /\ jobs = [i \in Job |-> jobs[i]]
  BY DEF StartFetch, At, CInv, IInv, Typed
<1>2. PICK j \in Job : wk[w].job = j
  BY <1>1, WorkerRow DEF Working
<1>3. \A g : SameCall(g, g)
  BY DEF SameCall
<1>4. \/ jobs' = jobs /\ fetches' = fetches /\ Set(w, Idle)
      \/ /\ jobs[j].state = "running" /\ jobs' = [jobs EXCEPT ![j] = [jobs[j] EXCEPT !.state = "failed"]]
         /\ fetches' = fetches /\ Set(w, Idle)
      \/ /\ jobs' = jobs /\ fetches \subseteq fetches'
         /\ \E n : Set(w, [wk[w] EXCEPT !.pc = "fetch", !.tries = n])
  <2>1. CASE ~(Owned(w) /\ jobs[j].live)
    BY <1>2, <2>1 DEF StartFetch
  <2>2. CASE Owned(w) /\ jobs[j].live /\ PageAttempts(j) >= MaxAttempts
    BY <1>1, <1>2, <2>2 DEF StartFetch, Owned
  <2>3. CASE Owned(w) /\ jobs[j].live /\ ~(PageAttempts(j) >= MaxAttempts)
    BY <1>2, <2>3 DEF StartFetch
  <2>. QED
    BY <2>1, <2>2, <2>3
<1>5. \A v \in Worker : wk'[v].pc = "commit" => wk'[v] = wk[v]
  <2>1. \A n : [wk[w] EXCEPT !.pc = "fetch", !.tries = n].pc = "fetch"
    <3>1. PICK T, W : wk[w] \in Memory(T, W)
      BY <1>1 DEF IInv, Typed, IsWorker
    <3>. QED
      BY <3>1 DEF Memory
  <2>2. \E m : Set(w, m) /\ m.pc # "commit"
    BY <1>4, <2>1, IdleIsWorker
  <2>. QED
    BY <1>1, <2>2 DEF Set, IInv, Typed
<1>6. CallsKept
  BY <1>3, <1>4 DEF CallsKept
<1>7. \A i \in Job : Quiet(jobs[i], jobs'[i])
  <2>1. jobs[j].state = "running" => Quiet(jobs[j], [jobs[j] EXCEPT !.state = "failed"])
    BY <1>1, StateIsQuiet DEF Terminal
  <2>. QED
    BY <1>1, <1>4, <2>1, SameIsQuiet
<1>. QED
  BY <1>5, <1>6, <1>7 DEF QuietStep, StartFetch, IsLast

LEMMA SupersededIsQuiet ==
    ASSUME CInv, NEW w \in Worker, Superseded(w)
    PROVE  QuietStep /\ \A v \in Worker : wk'[v].pc = "commit" => wk'[v] = wk[v]
<1>1. PICK rows : rows = {f \in fetches : /\ f.job = wk[w].job /\ f.token = wk[w].token
                                          /\ f.outcome = "started"}
  OBVIOUS
<1>2. rows \subseteq fetches /\ (\A f \in rows : f.outcome = "started") /\ "superseded" \in Outcome
  BY <1>1 DEF Outcome
<1>3. fetches' = Ended(rows, "superseded") /\ IInv
  BY <1>1 DEF Superseded, CInv
<1>4. CallsKept
  BY <1>2, <1>3, ClosedIsKept
<1>5. \A v \in Worker : wk'[v].pc = "commit" => wk'[v] = wk[v]
  BY <1>3, IdleIsWorker DEF Superseded, Set, IInv, Typed
<1>. QED
  BY <1>4, <1>5, SameIsQuiet DEF QuietStep, Superseded, IsLast

\* The steps of the world, and a crash.
LEMMA WorldIsQuiet ==
    ASSUME CInv, UNCHANGED <<fetches, seen, head, corpora>>,
           \A d \in 1..MaxDay : IsLast(d)' => IsLast(d),
           jobs' = jobs \/ \E j \in Job : jobs' = [jobs EXCEPT ![j].live = FALSE]
    PROVE  QuietStep
<1>1. CallsKept
  BY DEF CallsKept, SameCall
<1>2. \A i \in Job : Quiet(jobs[i], jobs'[i])
  <2>1. jobs = [i \in Job |-> jobs[i]] /\ IInv
    BY DEF CInv, IInv, Typed
  <2>2. CASE jobs' = jobs
    BY <2>2, SameIsQuiet
  <2>3. ASSUME NEW j \in Job, jobs' = [jobs EXCEPT ![j].live = FALSE]
        PROVE  \A i \in Job : Quiet(jobs[i], jobs'[i])
    <3>1. \A i \in Job : jobs'[i] = IF i = j THEN [jobs[j] EXCEPT !.live = FALSE] ELSE jobs[i]
      BY <2>1, <2>3
    <3>. QED
      BY <2>1, <3>1, LeaseIsQuiet, SameIsQuiet
  <2>. QED
    BY <2>2, <2>3
<1>. QED
  BY <1>1, <1>2 DEF QuietStep

-----------------------------------------------------------------------------
(* The decision on a page.                                                     *)

\* No observation is of a generation its job has not reached.
LEMMA SeenIsReached ==
    ASSUME CInv, NEW o \in seen
    PROVE  o.job \in Job /\ o.gen <= jobs[o.job].gen /\ cand[o.job[1]] # "absent"
BY DEF CInv, IInv, SeenOfCalls, CallOf, CallsOfClaims, Typed, Observed

LEMMA NothingSeenFits ==
    ASSUME NEW row, row.unique = 0, ~Good(row)
    PROVE  Fits(row, {})
<1>1. Ids({}) = {} /\ OneVersion({})
  BY DEF Ids, OneVersion
<1>. QED
  BY <1>1, FS_EmptySet DEF Fits, Good

\* Decisions that bring nothing: the page is refused, or there is none.
LEMMA EmptyHandedFits ==
    ASSUME CInv, NEW j \in Job, NEW token, NEW write, write.seen = {},
           \/ Counts(jobs[j], write.job) /\ ~Good(write.job)
           \/ write.job.gen = jobs[j].gen + 1 /\ write.job.unique = 0 /\ ~Good(write.job)
    PROVE  BringsOwn(j, token, write) /\ Fits(write.job, ObsWith(write, j, write.job.gen))
<1>1. BringsOwn(j, token, write)
  BY DEF BringsOwn
<1>2. \A gen : ObsWith(write, j, gen) = SeenIn(j, gen)
  BY DEF ObsWith, SeenIn
<1>3. CASE Counts(jobs[j], write.job) /\ ~Good(write.job)
  <2>1. Fits(jobs[j], SeenIn(j, jobs[j].gen))
    BY DEF CInv, JobsFit
  <2>. QED
    BY <1>1, <1>2, <1>3, <2>1 DEF Fits, Counts, Good
<1>4. CASE write.job.gen = jobs[j].gen + 1 /\ write.job.unique = 0 /\ ~Good(write.job)
  <2>1. jobs[j].gen \in 0..MaxRestarts
    BY DEF CInv, IInv, Typed, IsJob, JobRow
  <2>2. \A o \in seen : o.gen \in 0..MaxRestarts
    BY DEF CInv, IInv, Typed, Observed
  <2>3. SeenIn(j, write.job.gen) = {}
    BY <1>4, <2>1, <2>2, SeenIsReached, CollectionAssumption DEF SeenIn
  <2>. QED
    BY <1>1, <1>2, <1>4, <2>3, NothingSeenFits
<1>. QED
  BY <1>3, <1>4

\* A route ends well only with the right counts (the verdict of the last page).
EndsRight(row) ==
    /\ row.state = "complete" => row.total = row.unique /\ row.fetched = row.unique /\ row.total # 0
    /\ row.state = "empty" => row.total = 0 /\ row.fetched = 0

\* The row an accepted page leads to.
Counted(row, page, obs, new) == /\ new.unique = Cardinality(Ids(obs))
                                /\ new.fetched = row.fetched + Len(page.items)
                                /\ EndsRight(new)

LEMMA AcceptedCounts ==
    ASSUME CInv, NEW w \in Worker, NEW j \in Job, wk[w].job = j, NEW page,
           NEW obs, obs = SeenIn(j, wk[w].gen) \cup NewlySeen(w, page),
           NEW new, new = Accepted(w, page)
    PROVE  Counted(jobs[j], page, obs, new)
<1>. DEFINE unique == Cardinality(Ids(obs))
            read == [jobs[j] EXCEPT !.total = page.total, !.visited = @ \cup {Keys(page)},
                                    !.fetched = @ + Len(page.items), !.page = @ + 1,
                                    !.unique = unique]
            state == IF page.next THEN "pending" ELSE Ending(read)
<1>1. PICK V : jobs[j] \in JobRow(V)
  BY DEF CInv, IInv, Typed, IsJob
<1>2. PICK u : u = unique
  OBVIOUS
<1>3. PICK visited : visited = jobs[j].visited \cup {Keys(page)}
  OBVIOUS
<1>4. read = [jobs[j] EXCEPT !.total = page.total, !.visited = visited,
                             !.fetched = jobs[j].fetched + Len(page.items),
                             !.page = jobs[j].page + 1, !.unique = u]
  <2>. HIDE DEF unique
  <2>. QED
    BY <1>1, <1>2, <1>3 DEF JobRow
<1>. HIDE DEF unique, read
<1>5. /\ read \in [state : State, token : Nat, live : BOOLEAN, gen : {jobs[j].gen},
                   page : {jobs[j].page + 1}, total : {page.total},
                   fetched : {jobs[j].fetched + Len(page.items)}, unique : {u}, visited : {visited}]
  BY <1>1, <1>4 DEF JobRow
<1>6. \/ state \notin {"complete", "empty"}
      \/ state = "empty" /\ read.total = 0 /\ read.fetched = 0
      \/ state = "complete" /\ read.total = read.unique /\ read.fetched = read.unique /\ read.total # 0
  BY DEF Ending
<1>7. PICK s : s = state
  OBVIOUS
<1>8. Accepted(w, page) = [read EXCEPT !.state = s]
  BY <1>7 DEF Accepted, read, unique
<1>9. /\ [read EXCEPT !.state = s].state = s /\ [read EXCEPT !.state = s].gen = jobs[j].gen
      /\ [read EXCEPT !.state = s].unique = u /\ [read EXCEPT !.state = s].total = page.total
      /\ [read EXCEPT !.state = s].fetched = jobs[j].fetched + Len(page.items)
      /\ read.unique = u /\ read.total = page.total
      /\ read.fetched = jobs[j].fetched + Len(page.items)
  BY <1>5
<1>. HIDE DEF state
<1>. QED
  BY <1>2, <1>6, <1>7, <1>8, <1>9 DEF unique, EndsRight, Counted

\* A page that shows no review in another version leaves every review in one version.
LEMMA NewVersionsAreOne ==
    ASSUME CInv, NEW w \in Worker, NEW j \in Job, wk[w].job = j, wk[w].gen = jobs[j].gen,
           NEW page, ~Edited(j, page)
    PROVE  OneVersion(SeenIn(j, wk[w].gen) \cup NewlySeen(w, page))
<1>. DEFINE old == SeenIn(j, wk[w].gen)
            new == NewlySeen(w, page)
<1>1. OneVersion(old)
  BY DEF CInv, JobsFit, Fits
<1>2. \A r \in Range(page.items), q \in Range(page.items) \cup {o.review : o \in old} :
         r[1] = q[1] => r = q
  BY DEF Edited
<1>3. \A o \in new : /\ o.review \in Range(page.items) /\ o.review \notin {p.review : p \in old}
                     /\ o = [job |-> j, gen |-> wk[w].gen, review |-> o.review, token |-> wk[w].token]
  BY DEF NewlySeen
<1>. HIDE DEF old, new
<1>4. \A o, p \in new : o.review[1] = p.review[1] => o = p
  BY <1>2, <1>3
<1>5. \A o \in new, p \in old : o.review[1] # p.review[1]
  BY <1>2, <1>3
<1>6. OneVersion(old \cup new)
  BY <1>1, <1>4, <1>5 DEF OneVersion
<1>. QED
  BY <1>6 DEF old, new

LEMMA AcceptedFits ==
    ASSUME CInv, NEW w \in Worker, NEW j \in Job, wk[w].job = j, wk[w].gen = jobs[j].gen,
           NEW page, page.total \in Nat, page.items \in Seq(STRING \X Nat),
           ~Edited(j, page),
           NEW write, write.job = Accepted(w, page), write.seen = NewlySeen(w, page),
           write.outcome = "succeeded" \/ write.job.state = "unstable"
    PROVE  BringsOwn(j, wk[w].token, write) /\ Fits(write.job, ObsWith(write, j, write.job.gen))
<1>01. PICK obs : obs = SeenIn(j, wk[w].gen) \cup NewlySeen(w, page)
  OBVIOUS
<1>02. PICK new : new = Accepted(w, page)
  OBVIOUS
<1>03. new.gen = jobs[j].gen
  <2>1. IInv
    BY DEF CInv
  <2>. QED
    BY <1>02, <2>1, AcceptedRow
<1>04. Counted(jobs[j], page, obs, new)
  BY <1>01, <1>02, AcceptedCounts
<1>0. /\ new.unique = Cardinality(Ids(obs))
      /\ new.fetched = jobs[j].fetched + Len(page.items)
      /\ EndsRight(new)
  BY <1>04 DEF Counted
<1>1. write.job.gen = jobs[j].gen
  BY <1>03, <1>02
<1>2. \A o \in NewlySeen(w, page) : o.job = j /\ o.token = wk[w].token /\ o.gen = jobs[j].gen
  BY DEF NewlySeen
<1>3. ObsWith(write, j, write.job.gen) = obs
  BY <1>01, <1>1, <1>2 DEF ObsWith, SeenIn
<1>4. BringsOwn(j, wk[w].token, write)
  BY <1>1, <1>2 DEF BringsOwn
<1>5. write.job.fetched = 0 => obs = {}
  <2>1. SUFFICES ASSUME write.job.fetched = 0 PROVE obs = {}
    OBVIOUS
  <2>2. jobs[j].fetched \in Nat /\ Len(page.items) \in Nat
    BY DEF CInv, IInv, Typed, IsJob, JobRow
  <2>3. jobs[j].fetched = 0 /\ Len(page.items) = 0
    BY <1>0, <1>02, <2>1, <2>2
  <2>4. SeenIn(j, wk[w].gen) = {}
    BY <2>3 DEF CInv, JobsFit, Fits
  <2>5. Range(page.items) = {}
    BY <2>3 DEF Range
  <2>6. NewlySeen(w, page) = {}
    BY <2>5 DEF NewlySeen
  <2>. QED
    BY <1>01, <2>4, <2>6
<1>6. OneVersion(obs)
  BY <1>01, NewVersionsAreOne
<1>7. new.unique = Cardinality(Ids(obs))
  BY <1>0
<1>8. new.fetched = 0 => obs = {}
  BY <1>02, <1>5
<1>9. Fits(new, obs)
  BY <1>0, <1>6, <1>7, <1>8 DEF Fits, EndsRight
<1>. QED
  BY <1>02, <1>3, <1>4, <1>9

\* Whatever is decided about a page or the lack of one.
LEMMA WriteFits ==
    ASSUME CInv, NEW w \in Worker, NEW j \in Job, wk[w].job = j, Owned(w),
           NEW write \in {PageWrite(w, Reply(w)), FailedWrite(w)}
    PROVE  /\ BringsOwn(j, wk[w].token, write) /\ Fits(write.job, ObsWith(write, j, write.job.gen))
           /\ \E Job_, Outcome_, Seen : write \in [job : Job_, outcome : Outcome_, seen : Seen, head : {NoCorpus}]
<1>. DEFINE W(job, outcome, obs) == [job |-> job, outcome |-> outcome, seen |-> obs, head |-> NoCorpus]
<1>1. wk[w].gen = jobs[j].gen /\ IInv /\ jobs[j].state = "running"
  BY DEF Owned, CInv
<1>2. PICK V : jobs[j] \in JobRow(V)
  BY DEF CInv, IInv, Typed, IsJob
<1>3. ASSUME NEW s, s \notin {"complete", "empty"},
             write.job = [jobs[j] EXCEPT !.state = s], write.seen = {}
      PROVE  BringsOwn(j, wk[w].token, write) /\ Fits(write.job, ObsWith(write, j, write.job.gen))
  <2>1. Counts(jobs[j], write.job) /\ ~Good(write.job)
    BY <1>2, <1>3 DEF JobRow, Counts, Good
  <2>. QED
    BY <1>3, <2>1, EmptyHandedFits
<1>4. CASE write = PageWrite(w, Reply(w))
  <2>1. PICK page : page = Reply(w)
    OBVIOUS
  <2>2. page.total \in Nat /\ page.items \in Seq(STRING \X Nat)
    BY <1>1, <2>1, ReplyIsPage
  <2>3. CASE write = W(Unstable(j), "invalid", {})
    <3>1. write.job = [jobs[j] EXCEPT !.state = "unstable"] /\ write.seen = {}
      BY <2>3 DEF Unstable
    <3>2. BringsOwn(j, wk[w].token, write) /\ Fits(write.job, ObsWith(write, j, write.job.gen))
      BY <1>3, <3>1
    <3>. QED
      BY <2>3, <3>2
  <2>4. CASE write = W(Restarted(j), "invalid", {})
    <3>1. New \in [state : {"pending"}, token : {0}, live : {FALSE}, gen : {0}, page : {0},
                   total : {NoTotal}, fetched : {0}, unique : {0}, visited : {{}}]
      BY DEF New
    <3>2. /\ Restarted(j).gen = jobs[j].gen + 1 /\ Restarted(j).unique = 0
          /\ Restarted(j).state = "pending"
      BY <3>1 DEF Restarted
    <3>3. write.job.gen = jobs[j].gen + 1 /\ write.job.unique = 0 /\ ~Good(write.job) /\ write.seen = {}
      BY <2>4, <3>2 DEF Good
    <3>4. BringsOwn(j, wk[w].token, write) /\ Fits(write.job, ObsWith(write, j, write.job.gen))
      BY <3>3, EmptyHandedFits
    <3>. QED
      BY <2>4, <3>4
  <2>5. CASE /\ ~Edited(j, page)
             /\ write = W(Accepted(w, page),
                          IF Accepted(w, page).state = "unstable" THEN "invalid" ELSE "succeeded",
                          NewlySeen(w, page))
    <3>1. /\ write.job = Accepted(w, page) /\ write.seen = NewlySeen(w, page)
          /\ write.outcome = "succeeded" \/ write.job.state = "unstable"
      BY <2>5
    <3>2. BringsOwn(j, wk[w].token, write) /\ Fits(write.job, ObsWith(write, j, write.job.gen))
      BY <1>1, <2>2, <2>5, <3>1, AcceptedFits
    <3>. QED
      BY <2>5, <3>2
  <2>. QED
    BY <1>4, <2>1, <2>3, <2>4, <2>5 DEF PageWrite
<1>5. CASE write = FailedWrite(w)
  <2>1. PICK s \in {"failed", "retryable"} :
           write = [NoWrite EXCEPT !.outcome = "failed", !.job = [jobs[j] EXCEPT !.state = s]]
    BY <1>5 DEF FailedWrite
  <2>2. NoWrite \in [job : {Absent}, outcome : {"none"}, seen : {{}}, head : {NoCorpus}]
    BY DEF NoWrite
  <2>3. /\ write.job = [jobs[j] EXCEPT !.state = s] /\ write.seen = {}
        /\ write \in [job : {write.job}, outcome : {"failed"}, seen : {{}}, head : {NoCorpus}]
    BY <2>1, <2>2
  <2>4. s \notin {"complete", "empty"}
    OBVIOUS
  <2>. QED
    BY <1>3, <2>3, <2>4
<1>. QED
  BY <1>4, <1>5

-----------------------------------------------------------------------------
(* The corpus of a decision.                                                   *)

\* What Built reads is the rows and the observations with those of the decision.
BuiltRow(j, write, r) == RowWith(j, write, <<Latest, r>>)
BuiltObs(j, write, r) == ObsWith(write, <<Latest, r>>, BuiltRow(j, write, r).gen)
Whole(j, write) == \A r \in Route :
    LET obs == BuiltObs(j, write, r)  reviews == {o.review : o \in obs} IN
    /\ Verified(BuiltRow(j, write, r))
    /\ Cardinality(reviews) = BuiltRow(j, write, r).unique
    /\ Cardinality(Ids(obs)) = Cardinality(reviews)

LEMMA BuiltIs ==
    ASSUME IInv, NEW j \in Job, NEW write, Processed # {}
    PROVE  Built(j, write) = IF Whole(j, write)
                             THEN [day |-> Latest,
                                   reviews |-> [r \in Route |-> {o.review : o \in BuiltObs(j, write, r)}]]
                             ELSE NoCorpus
<1>. DEFINE js == [jobs EXCEPT ![j] = write.job]
            read(r) == {o \in seen \cup write.seen : o.job = Cohort(js)[r] /\ o.gen = js[Cohort(js)[r]].gen}
            reviews == [r \in Route |-> {o.review : o \in read(r)}]
            whole == \A r \in Route : /\ Verified(js[Cohort(js)[r]])
                                      /\ Cardinality(reviews[r]) = js[Cohort(js)[r]].unique
                                      /\ Cardinality(Ids(read(r))) = Cardinality(reviews[r])
<1>1. Built(j, write) = IF whole THEN [day |-> Latest, reviews |-> reviews] ELSE NoCorpus
  BY DEF Built
<1>2. ASSUME NEW r \in Route
      PROVE  Cohort(js)[r] = <<Latest, r>> /\ js[Cohort(js)[r]] = BuiltRow(j, write, r)
  <2>1. <<Latest, r>> \in Job
    BY CohortIsJobs
  <2>. QED
    BY <2>1 DEF Cohort, BuiltRow, RowWith, IInv, Typed
<1>. HIDE DEF js
<1>3. ASSUME NEW r \in Route
      PROVE  read(r) = BuiltObs(j, write, r)
  BY <1>2 DEF BuiltObs, ObsWith
<1>4. reviews = [r \in Route |-> {o.review : o \in BuiltObs(j, write, r)}]
  BY <1>3
<1>5. \A r \in Route : reviews[r] = {o.review : o \in BuiltObs(j, write, r)}
  BY <1>4
<1>6. whole <=> Whole(j, write)
  <2>. HIDE DEF reviews, read
  <2>. QED
    BY <1>2, <1>3, <1>5 DEF Whole
<1>. HIDE DEF whole, reviews
<1>. QED
  BY <1>1, <1>4, <1>6

\* When every route of the day is complete or empty, the checks of collection_state pass.
LEMMA GoodIsWhole ==
    ASSUME CInv, NEW j \in Job, NEW token, NEW write, BringsOwn(j, token, write),
           IsFiniteSet(write.seen), Fits(write.job, ObsWith(write, j, write.job.gen)),
           Processed # {}, \A r \in Route : Good(BuiltRow(j, write, r))
    PROVE  Whole(j, write)
<1>1. SUFFICES ASSUME NEW r \in Route
               PROVE  LET obs == BuiltObs(j, write, r)  reviews == {o.review : o \in obs} IN
                      /\ Verified(BuiltRow(j, write, r))
                      /\ Cardinality(reviews) = BuiltRow(j, write, r).unique
                      /\ Cardinality(Ids(obs)) = Cardinality(reviews)
  BY DEF Whole
<1>2. PICK i \in Job : i = <<Latest, r>>
  BY CohortIsJobs DEF CInv
<1>3. PICK row : row = BuiltRow(j, write, r)
  OBVIOUS
<1>4. PICK obs : obs = BuiltObs(j, write, r)
  OBVIOUS
<1>5. row = RowWith(j, write, i) /\ obs = ObsWith(write, i, row.gen)
  BY <1>2, <1>3, <1>4 DEF BuiltRow, BuiltObs
<1>6. IsFiniteSet(obs)
  <2>1. IsFiniteSet(seen \cup write.seen)
    BY FS_Union DEF CInv, IInv, Typed, Observed
  <2>. QED
    BY <1>5, <2>1, FS_Subset DEF ObsWith
<1>7. Fits(row, obs)
  <2>1. CASE i = j
    BY <1>5, <2>1 DEF RowWith
  <2>2. CASE i # j
    <3>1. row = jobs[i]
      BY <1>5, <2>2 DEF RowWith
    <3>2. obs = SeenIn(i, jobs[i].gen)
      BY <1>5, <2>2, <3>1 DEF ObsWith, SeenIn, BringsOwn
    <3>. QED
      BY <3>1, <3>2 DEF CInv, JobsFit
  <2>. QED
    BY <2>1, <2>2
<1>8. Good(row)
  BY <1>3
<1>9. /\ Verified(row) /\ Cardinality({o.review : o \in obs}) = row.unique
      /\ Cardinality(Ids(obs)) = Cardinality({o.review : o \in obs})
  BY <1>6, <1>7, <1>8, GoodIsVerified
<1>. QED
  BY <1>3, <1>4, <1>9

LEMMA WholeIsGood ==
    ASSUME NEW j, NEW write, Whole(j, write), NEW r \in Route
    PROVE  Good(BuiltRow(j, write, r))
BY DEF Whole, Verified, Good

LEMMA DecisionIsRight ==
    ASSUME CInv, NEW w \in Worker, NEW j \in Job, wk[w].job = j, Owned(w),
           NEW write \in {PageWrite(w, Reply(w)), FailedWrite(w)}
    PROVE  DecisionFits(j, wk[w].token, WithCorpus(j, write))
<1>1. /\ BringsOwn(j, wk[w].token, write) /\ Fits(write.job, ObsWith(write, j, write.job.gen))
      /\ \E Job_, Outcome_, Seen : write \in [job : Job_, outcome : Outcome_, seen : Seen, head : {NoCorpus}]
  BY WriteFits
<1>2. PICK J, T, S : write \in [job : J, outcome : T, seen : S, head : {NoCorpus}]
  BY <1>1
<1>3. PICK all : all = WithCorpus(j, write)
  OBVIOUS
<1>4. PICK built : built = Built(j, write)
  OBVIOUS
<1>5. /\ all.job = write.job /\ all.outcome = write.outcome /\ all.seen = write.seen
      /\ all.head = IF Good(write.job) THEN built ELSE NoCorpus
  BY <1>2, <1>3, <1>4 DEF WithCorpus, Good
<1>6. IsFiniteSet(write.seen)
  <2>1. Writes(jobs[j], all)
    BY <1>3, DecisionIsWrite DEF CInv
  <2>. QED
    BY <1>5, <2>1 DEF Writes, Observed
<1>7. built = IF Processed # {} /\ Whole(j, write)
              THEN [day |-> Latest,
                    reviews |-> [r \in Route |-> {o.review : o \in BuiltObs(j, write, r)}]]
              ELSE NoCorpus
  <2>1. CASE Processed # {}
    BY <1>4, <2>1, BuiltIs DEF CInv
  <2>2. CASE Processed = {}
    BY <1>4, <2>2 DEF Built
  <2>. QED
    BY <2>1, <2>2
<1>8. /\ \A i : RowWith(j, all, i) = RowWith(j, write, i)
      /\ \A i, gen : ObsWith(all, i, gen) = ObsWith(write, i, gen)
  BY <1>5 DEF RowWith, ObsWith
<1>9. /\ BringsOwn(j, wk[w].token, all)
      /\ Fits(all.job, ObsWith(all, j, all.job.gen))
  BY <1>1, <1>5, <1>8 DEF BringsOwn
<1>10. BringsCorpus(j, all)
  <2>1. CASE ~Good(write.job)
    BY <1>5, <2>1 DEF BringsCorpus, AllGood
  <2>2. CASE Good(write.job) /\ ~(Processed # {} /\ Whole(j, write))
    <3>1. SUFFICES ASSUME NEW d \in 1..MaxDay, IsLast(d), AllGood(j, all, d)
                   PROVE  FALSE
      BY <1>5, <1>7, <2>2 DEF BringsCorpus
    <3>2. Processed # {} /\ Latest = d
      BY <3>1, LastIsLatest
    <3>3. \A r \in Route : Good(BuiltRow(j, write, r))
      BY <1>8, <3>1, <3>2 DEF AllGood, BuiltRow
    <3>. QED
      BY <1>1, <1>6, <2>2, <3>2, <3>3, GoodIsWhole
  <2>3. CASE Good(write.job) /\ Processed # {} /\ Whole(j, write)
    <3>1. /\ all.head.day = Latest /\ Latest \in 1..MaxDay
          /\ \A r \in Route : all.head.reviews[r] = {o.review : o \in BuiltObs(j, write, r)}
      BY <1>5, <1>7, <2>3, LatestIsDay
    <3>2. ASSUME NEW r \in Route PROVE OfCohort(j, all, r)
      <4>1. PICK row : row = BuiltRow(j, write, r)
        OBVIOUS
      <4>2. RowWith(j, all, <<Latest, r>>) = row /\ Good(row)
        BY <1>8, <2>3, <4>1, WholeIsGood DEF BuiltRow
      <4>3. BuiltObs(j, write, r) = ObsWith(all, <<Latest, r>>, row.gen)
        BY <1>8, <4>1 DEF BuiltObs
      <4>4. all.head.reviews[r] = {o.review : o \in ObsWith(all, <<Latest, r>>, row.gen)}
        BY <3>1, <4>3
      <4>. QED
        BY <3>1, <4>2, <4>4 DEF OfCohort
    <3>3. \A d \in 1..MaxDay : IsLast(d) => all.head.day = d
      BY <3>1, LastIsLatest
    <3>. QED
      BY <3>1, <3>2, <3>3 DEF BringsCorpus
  <2>. QED
    BY <2>1, <2>2, <2>3
<1>. QED
  BY <1>3, <1>9, <1>10 DEF DecisionFits

LEMMA DecideKeeps ==
    ASSUME CInv, IInv', NEW w \in Worker, Decide(w)
    PROVE  CInv' /\ QuietStep
<1>1. /\ wk[w].pc = "fetch" /\ Owned(w) /\ lock = Nobody /\ IInv
      /\ UNCHANGED <<jobs, fetches, seen, head, corpora, cand>>
  BY DEF Decide, At, TakesLock, CInv
<1>2. PICK j \in Job : wk[w].job = j
  BY <1>1, WorkerRow DEF Working
<1>3. PICK write \in {PageWrite(w, Reply(w)), FailedWrite(w)} :
         Set(w, [wk[w] EXCEPT !.pc = "commit", !.write = WithCorpus(wk[w].job, write)])
  BY DEF Decide
<1>4. PICK all : all = WithCorpus(j, write)
  OBVIOUS
<1>5. PICK token : token = wk[w].token
  OBVIOUS
<1>6. DecisionFits(j, token, all)
  BY <1>1, <1>2, <1>4, <1>5, DecisionIsRight
<1>7. QuietStep
  BY <1>1, SameIsQuiet DEF QuietStep, CallsKept, SameCall, IsLast
<1>8. DecisionFits(j, token, all)'
  BY <1>6, <1>7, QuietKeepsDecision
<1>9. wk'[w].job = j /\ wk'[w].token = token /\ wk'[w].write = all
  <2>1. wk'[w] = [wk[w] EXCEPT !.pc = "commit", !.write = all]
    BY <1>1, <1>2, <1>3, <1>4 DEF Set, IInv, Typed
  <2>2. PICK T, W : wk[w] \in Memory(T, W)
    BY <1>1 DEF IInv, Typed, IsWorker
  <2>. QED
    BY <1>2, <1>5, <2>1, <2>2 DEF Memory
<1>10. \A v \in Worker : v # w => wk'[v].pc # "commit"
  BY <1>1, <1>3, NobodyDecided DEF Set, IInv, Typed
<1>11. DecisionsFit'
  <2>1. SUFFICES ASSUME NEW v \in Worker, wk'[v].pc = "commit"
                 PROVE  DecisionFits(wk[v].job, wk[v].token, wk[v].write)'
    BY DEF DecisionsFit
  <2>2. v = w
    BY <1>10, <2>1
  <2>. QED
    BY <1>8, <1>9, <2>2
<1>. QED
  BY <1>7, <1>11, QuietKeeps DEF CInv

-----------------------------------------------------------------------------
(* The commit of a page.                                                       *)

\* What the commit of worker w does to the rows and the observations.
Committed(w, j, write) ==
    /\ seen' = seen \cup write.seen /\ cand' = cand
    /\ \A i \in Job : /\ jobs'[i].gen = RowWith(j, write, i).gen
                      /\ jobs'[i].state = RowWith(j, write, i).state
                      /\ Counts(RowWith(j, write, i), jobs'[i])
                      /\ i # j => jobs'[i] = jobs[i]
    /\ \/ write.head = NoCorpus /\ UNCHANGED <<head, corpora>>
       \/ write.head # NoCorpus /\ head' = write.head /\ write.head.reviews \in corpora'

LEMMA CommitCommits ==
    ASSUME CInv, NEW w \in Worker, Commit(w)
    PROVE  /\ wk[w].job \in Job /\ Owned(w) /\ wk[w].pc = "commit"
           /\ DecisionFits(wk[w].job, wk[w].token, wk[w].write)
           /\ Committed(w, wk[w].job, wk[w].write)
           /\ \A v \in Worker : wk'[v].pc # "commit"
<1>1. wk[w].pc = "commit" /\ IInv /\ jobs = [i \in Job |-> jobs[i]]
  BY DEF Commit, At, CInv, IInv, Typed
<1>2. PICK j, write : j = wk[w].job /\ write = wk[w].write
  OBVIOUS
<1>3. j \in Job
  BY <1>1, <1>2, WorkerRow DEF Working
<1>4. lock = w /\ Owned(w) /\ RowAfter(jobs[j], write.job, write.outcome)
  BY <1>1, <1>2 DEF IInv, DecidedUnderLock, Writes
<1>5. DecisionFits(wk[w].job, wk[w].token, wk[w].write)
  BY <1>1 DEF CInv, DecisionsFit
<1>6. \A v \in Worker : wk'[v].pc # "commit"
  <2>1. \A v \in Worker : wk[v].pc = "commit" => v = w
    BY <1>4 DEF CInv, IInv, DecidedUnderLock
  <2>. QED
    BY <2>1, IdleIsWorker DEF Commit, Set, CInv, IInv, Typed
<1>7. \A i \in Job : i # j => jobs'[i] = jobs[i]
  BY <1>1, <1>2 DEF Commit
<1>8. jobs'[j] = [write.job EXCEPT !.live = jobs[j].live]
  BY <1>1, <1>2, <1>3 DEF Commit
<1>9. Counts(write.job, jobs'[j]) /\ jobs'[j].state = write.job.state
  <2>1. PICK V : write.job \in JobRow(V)
    BY <1>4 DEF RowAfter, IsJob
  <2>2. PICK live : live = jobs[j].live
    OBVIOUS
  <2>. QED
    BY <1>8, <2>1, <2>2 DEF JobRow, Counts
<1>10. Committed(w, j, write)
  <2>1. \/ write.head = NoCorpus /\ UNCHANGED <<head, corpora>>
        \/ write.head # NoCorpus /\ head' = write.head /\ write.head.reviews \in corpora'
    BY <1>2 DEF Commit
  <2>2. seen' = seen \cup write.seen /\ cand' = cand
    BY <1>2 DEF Commit
  <2>. QED
    BY <1>7, <1>9, <2>1, <2>2 DEF Committed, RowWith, Counts
<1>. QED
  BY <1>1, <1>2, <1>3, <1>4, <1>5, <1>6, <1>10

\* Every observation is still of a call, which was accepted unless its job is unstable.
LEMMA CommitKeepsCalls ==
    ASSUME CInv, NEW w \in Worker, Commit(w)
    PROVE  SeenOfCalls'
<1>1. PICK j, write, token : j = wk[w].job /\ write = wk[w].write /\ token = wk[w].token
  OBVIOUS
<1>2. /\ j \in Job /\ Owned(w) /\ wk[w].pc = "commit" /\ wk[w].pc \in Working
      /\ DecisionFits(j, token, write) /\ Committed(w, j, write) /\ IInv
  BY <1>1, CommitCommits DEF CInv, Working
<1>3. PICK mine \in fetches : MyCalls(w) = {mine} /\ mine.job = j /\ mine.gen = jobs[j].gen
  BY <1>1, <1>2, MyCallIsNext
<1>4. \A f \in Read(j, jobs[j].gen) : f \notin MyCalls(w)
  BY <1>1, <1>2, MyCallIsNext
<1>5. PICK outcome : outcome = write.outcome
  OBVIOUS
<1>6. outcome \in Outcome /\ fetches' = Ended(MyCalls(w), outcome) /\ MyCalls(w) \subseteq fetches
  <2>1. RowAfter(jobs[j], write.job, write.outcome)
    BY <1>1, <1>2 DEF IInv, DecidedUnderLock, Writes
  <2>. QED
    BY <1>1, <1>5, <2>1 DEF RowAfter, Outcome, Commit, MyCalls
<1>7. \A g \in fetches : \E f \in fetches' : /\ SameCall(g, f)
                                             /\ g \in MyCalls(w) => f.outcome = outcome
                                             /\ g \notin MyCalls(w) => f = g
  BY <1>2, <1>6, EndedCalls DEF IInv
<1>8. SUFFICES ASSUME NEW o \in seen \cup write.seen PROVE \E f \in fetches' : CallOf(o, f)'
  BY <1>2 DEF SeenOfCalls, Committed
<1>9. CASE o \in write.seen
  <2>1. /\ o.job = j /\ o.token = token /\ o.gen = jobs[j].gen
        /\ write.outcome = "succeeded" \/ write.job.state = "unstable"
    BY <1>2, <1>9 DEF DecisionFits, BringsOwn
  <2>2. PICK f \in fetches' : SameCall(mine, f) /\ f.outcome = outcome
    BY <1>3, <1>7
  <2>3. mine.token = token
    BY <1>1, <1>3 DEF MyCalls
  <2>4. jobs'[j].state = write.job.state
    BY <1>2 DEF Committed, RowWith
  <2>. QED
    BY <1>3, <1>5, <2>1, <2>2, <2>3, <2>4 DEF CallOf, SameCall
<1>10. CASE o \in seen
  <2>1. PICK g \in fetches : CallOf(o, g)
    BY <1>10 DEF CInv, SeenOfCalls
  <2>2. o.job \in Job /\ o.gen <= jobs[o.job].gen
    BY <1>10, SeenIsReached
  <2>3. PICK f \in fetches' : /\ SameCall(g, f)
                              /\ g \notin MyCalls(w) => f = g
    BY <1>7
  <2>4. CASE o.job # j
    <3>1. jobs'[o.job] = jobs[o.job] /\ g \notin MyCalls(w)
      BY <1>2, <1>3, <2>1, <2>2, <2>4 DEF Committed, CallOf
    <3>. QED
      BY <2>1, <2>3, <3>1 DEF CallOf, SameCall
  <2>5. CASE o.job = j
    <3>1. SUFFICES ASSUME o.gen = jobs'[j].gen, jobs'[j].state # "unstable"
                   PROVE  f.outcome = "succeeded"
      BY <2>1, <2>3, <2>5 DEF CallOf, SameCall
    <3>2. jobs'[j].gen \in {jobs[j].gen, jobs[j].gen + 1} /\ jobs[j].gen \in 0..MaxRestarts
      <4>1. RowAfter(jobs[j], write.job, write.outcome)
        BY <1>1, <1>2 DEF IInv, DecidedUnderLock, Writes
      <4>2. jobs'[j].gen = write.job.gen
        BY <1>2 DEF Committed, RowWith
      <4>3. IsJob(jobs[j])
        BY <1>2 DEF IInv, Typed
      <4>4. jobs[j].gen \in 0..MaxRestarts
        BY <4>3 DEF IsJob, JobRow
      <4>. QED
        BY <4>1, <4>2, <4>4 DEF RowAfter
    <3>3. o.gen = jobs[j].gen
      BY <2>2, <2>5, <3>1, <3>2, CollectionAssumption
    <3>4. jobs[j].state = "running"
      BY <1>1, <1>2 DEF Owned
    <3>5. g.outcome = "succeeded" /\ g.job = j /\ g.gen = jobs[j].gen
      BY <2>1, <2>5, <3>3, <3>4 DEF CallOf
    <3>6. g \notin MyCalls(w)
      BY <1>4, <3>5 DEF Read
    <3>. QED
      BY <2>3, <3>5, <3>6
  <2>. QED
    BY <2>4, <2>5
<1>. QED
  BY <1>8, <1>9, <1>10

LEMMA CommitKeeps ==
    ASSUME CInv, IInv', NEW w \in Worker, Commit(w)
    PROVE  CInv'
<1>1. PICK j, write, token : j = wk[w].job /\ write = wk[w].write /\ token = wk[w].token
  OBVIOUS
<1>2. /\ j \in Job /\ jobs[j].state = "running"
      /\ DecisionFits(j, token, write) /\ Committed(w, j, write) /\ IInv
      /\ \A v \in Worker : wk'[v].pc # "commit"
  BY <1>1, CommitCommits DEF CInv, Owned
<1>3. \A o \in write.seen : o.job = j
  BY <1>2 DEF DecisionFits, BringsOwn
<1>4. \A i, gen : SeenIn(i, gen)' = ObsWith(write, i, gen)
  BY <1>2 DEF Committed, SeenIn, ObsWith
<1>5. \A i, gen : i # j => SeenIn(i, gen)' = SeenIn(i, gen)
  BY <1>3, <1>4 DEF SeenIn, ObsWith
<1>6. JobsFit'
  <2>1. SUFFICES ASSUME NEW i \in Job PROVE Fits(jobs'[i], SeenIn(i, jobs[i].gen)')
    BY DEF JobsFit
  <2>2. CASE i = j
    <3>1. Fits(write.job, ObsWith(write, j, write.job.gen))
      BY <1>2 DEF DecisionFits
    <3>2. Counts(write.job, jobs'[j]) /\ jobs'[j].state = write.job.state /\ jobs'[j].gen = write.job.gen
      BY <1>2 DEF Committed, RowWith
    <3>3. SeenIn(j, jobs[j].gen)' = ObsWith(write, j, write.job.gen)
      BY <1>2, <3>2 DEF Committed, SeenIn, ObsWith
    <3>. QED
      BY <2>2, <3>1, <3>2, <3>3 DEF Fits, Counts
  <2>3. CASE i # j
    <3>1. jobs'[i] = jobs[i]
      BY <1>2, <2>3 DEF Committed
    <3>2. SeenIn(i, jobs[i].gen)' = SeenIn(i, jobs[i].gen)
      BY <1>2, <1>3, <2>3, <3>1 DEF Committed, SeenIn
    <3>. QED
      BY <3>1, <3>2 DEF CInv, JobsFit
  <2>. QED
    BY <2>2, <2>3
<1>7. SeenOfCalls' /\ DecisionsFit'
  BY <1>2, CommitKeepsCalls DEF DecisionsFit
<1>8. HeadInUse'
  BY <1>2 DEF Committed, CInv, HeadInUse
<1>9. CorpusOfOneCohort'
  <2>1. CASE UNCHANGED <<head, corpora>>
    <3>1. SUFFICES ASSUME head.day # 0, NEW r \in Route, NEW i, i = <<head.day, r>>
                   PROVE  Good(jobs'[i]) /\ head.reviews[r] = {o.review : o \in SeenIn(i, jobs[i].gen)'}
      BY <2>1 DEF CorpusOfOneCohort, Good
    <3>2. i \in Job
      BY <3>1, CohortIsJobs DEF CInv
    <3>3. Good(jobs[i]) /\ head.reviews[r] = {o.review : o \in SeenIn(i, jobs[i].gen)}
      BY <3>1 DEF CInv, CorpusOfOneCohort, Good
    <3>4. i # j
      BY <1>2, <3>3 DEF Good
    <3>5. jobs'[i] = jobs[i]
      BY <1>2, <3>2, <3>4 DEF Committed
    <3>6. SeenIn(i, jobs[i].gen)' = SeenIn(i, jobs[i].gen)
      BY <1>2, <1>3, <3>4, <3>5 DEF Committed, SeenIn
    <3>. QED
      BY <3>3, <3>5, <3>6
  <2>2. CASE write.head # NoCorpus /\ head' = write.head
    <3>1. SUFFICES ASSUME NEW r \in Route, NEW i, i = <<head'.day, r>>
                   PROVE  Good(jobs'[i]) /\ head'.reviews[r] = {o.review : o \in SeenIn(i, jobs[i].gen)'}
      BY DEF CorpusOfOneCohort, Good
    <3>2. /\ head' = write.head /\ write.head.day \in 1..MaxDay /\ OfCohort(j, write, r)
      BY <1>2, <2>2 DEF DecisionFits, BringsCorpus
    <3>3. i \in Job /\ i = <<write.head.day, r>>
      BY <3>1, <3>2, CohortIsJobs DEF CInv
    <3>4. PICK row : row = RowWith(j, write, i)
      OBVIOUS
    <3>5. Good(row) /\ write.head.reviews[r] = {o.review : o \in ObsWith(write, i, row.gen)}
      BY <3>2, <3>3, <3>4 DEF OfCohort
    <3>6. jobs'[i].state = row.state /\ jobs'[i].gen = row.gen
      BY <1>2, <3>3, <3>4 DEF Committed
    <3>7. SeenIn(i, jobs[i].gen)' = ObsWith(write, i, row.gen)
      BY <1>2, <3>6 DEF Committed, SeenIn, ObsWith
    <3>. QED
      BY <3>2, <3>5, <3>6, <3>7 DEF Good
  <2>. QED
    BY <1>2, <2>1, <2>2 DEF Committed
<1>. QED
  BY <1>6, <1>7, <1>8, <1>9 DEF CInv

-----------------------------------------------------------------------------
(* A day is processed, and the invariant.                                      *)

LEMMA NewFits == New.unique = 0 /\ New.gen = 0 /\ ~Good(New)
BY DEF New, Good

LEMMA ProcessCases ==
    ASSUME IInv, NEW d \in 1..MaxDay, Process(d)
    PROVE  /\ \A j \in Job : \/ cand[j[1]] # "absent" /\ jobs'[j] = jobs[j]
                             \/ /\ cand[j[1]] = "absent" /\ jobs[j].state = "absent"
                                /\ jobs'[j] \in {New, jobs[j]}
           /\ \A r \in Route : cand[d] = "absent" => jobs'[<<d, r>>] = New
           /\ cand'[d] = (IF cand[d] = "absent" THEN "processed" ELSE "again")
           /\ \A e \in 1..MaxDay : e # d => cand'[e] = cand[e]
           /\ UNCHANGED <<fetches, seen, head, corpora, wk>>
           /\ \A w \in Worker : wk'[w].pc # "commit"
<1>1. \A j \in Job : jobs'[j] = IF j[1] = d /\ jobs[j].state = "absent" THEN New ELSE jobs[j]
  BY DEF Process
<1>2. \A j \in Job : (jobs[j].state = "absent") <=> (cand[j[1]] = "absent")
  BY DEF IInv, JobsOfCandidates
<1>3. \A r \in Route : <<d, r>> \in Job
  BY CohortIsJobs
<1>4. \A r \in Route : cand[d] = "absent" => jobs'[<<d, r>>] = New
  <2>1. SUFFICES ASSUME NEW r \in Route, cand[d] = "absent", NEW i \in Job, i = <<d, r>>
                 PROVE  jobs'[i] = New
    BY <1>3
  <2>. QED
    BY <1>1, <1>2, <2>1
<1>5. /\ cand'[d] = (IF cand[d] = "absent" THEN "processed" ELSE "again")
      /\ \A e \in 1..MaxDay : e # d => cand'[e] = cand[e]
  BY DEF Process, IInv, Typed
<1>6. lock = Nobody /\ UNCHANGED <<fetches, seen, head, corpora, wk>>
  BY DEF Process
<1>. QED
  BY <1>1, <1>2, <1>4, <1>5, <1>6, NobodyDecided

LEMMA ProcessKeeps ==
    ASSUME CInv, IInv', NEW d \in 1..MaxDay, Process(d)
    PROVE  CInv'
<1>1. /\ \A j \in Job : \/ cand[j[1]] # "absent" /\ jobs'[j] = jobs[j]
                        \/ /\ cand[j[1]] = "absent" /\ jobs[j].state = "absent"
                           /\ jobs'[j] \in {New, jobs[j]}
      /\ UNCHANGED <<fetches, seen, head, corpora>>
      /\ \A w \in Worker : wk'[w].pc # "commit"
  BY ProcessCases DEF CInv
<1>2. \A o \in seen : o.job \in Job /\ cand[o.job[1]] # "absent" /\ jobs'[o.job] = jobs[o.job]
  BY <1>1, SeenIsReached
<1>3. JobsFit'
  <2>1. SUFFICES ASSUME NEW j \in Job PROVE Fits(jobs'[j], SeenIn(j, jobs[j].gen)')
    BY DEF JobsFit
  <2>2. CASE jobs'[j] = jobs[j]
    <3>1. SeenIn(j, jobs[j].gen)' = SeenIn(j, jobs[j].gen)
      BY <1>1, <2>2 DEF SeenIn
    <3>. QED
      BY <2>2, <3>1 DEF CInv, JobsFit
  <2>3. CASE jobs'[j] = New /\ cand[j[1]] = "absent"
    <3>1. SeenIn(j, jobs[j].gen)' = {}
      BY <1>1, <1>2, <2>3 DEF SeenIn
    <3>2. Fits(New, {})
      BY NewFits, NothingSeenFits
    <3>. QED
      BY <2>3, <3>1, <3>2
  <2>. QED
    BY <1>1, <2>2, <2>3
<1>4. SeenOfCalls'
  BY <1>1, <1>2 DEF CInv, SeenOfCalls, CallOf
<1>5. DecisionsFit' /\ HeadInUse'
  BY <1>1 DEF DecisionsFit, CInv, HeadInUse
<1>6. CorpusOfOneCohort'
  <2>1. SUFFICES ASSUME head.day # 0, NEW r \in Route, NEW i, i = <<head.day, r>>
                 PROVE  Good(jobs'[i]) /\ head.reviews[r] = {o.review : o \in SeenIn(i, jobs[i].gen)'}
    BY <1>1 DEF CorpusOfOneCohort, Good
  <2>2. i \in Job
    BY <2>1, CohortIsJobs DEF CInv
  <2>3. Good(jobs[i]) /\ head.reviews[r] = {o.review : o \in SeenIn(i, jobs[i].gen)}
    BY <2>1 DEF CInv, CorpusOfOneCohort, Good
  <2>4. jobs'[i] = jobs[i]
    BY <1>1, <2>2, <2>3 DEF Good
  <2>5. SeenIn(i, jobs[i].gen)' = SeenIn(i, jobs[i].gen)
    BY <1>1, <2>4 DEF SeenIn
  <2>. QED
    BY <2>3, <2>4, <2>5
<1>. QED
  BY <1>3, <1>4, <1>5, <1>6 DEF CInv

LEMMA CorpusInit == Init => CInv
<1>1. SUFFICES ASSUME Init PROVE CInv
  OBVIOUS
<1>2. IInv /\ seen = {} /\ head = NoCorpus /\ head.day = 0
  BY <1>1, InitIsSafe DEF Init, NoCorpus
<1>3. JobsFit
  <2>1. SUFFICES ASSUME NEW j \in Job PROVE Fits(jobs[j], SeenIn(j, jobs[j].gen))
    BY DEF JobsFit
  <2>2. Absent.unique = 0 /\ ~Good(Absent)
    <3>1. New \in [state : {"pending"}, token : {0}, live : {FALSE}, gen : {0}, page : {0},
                   total : {NoTotal}, fetched : {0}, unique : {0}, visited : {{}}]
      BY DEF New
    <3>2. Absent.unique = 0 /\ Absent.state = "absent"
      BY <3>1 DEF Absent
    <3>. QED
      BY <3>2 DEF Good
  <2>3. jobs[j] \in {New, Absent} /\ SeenIn(j, jobs[j].gen) = {}
    BY <1>1, <1>2 DEF Init, SeenIn
  <2>. QED
    BY <2>2, <2>3, NewFits, NothingSeenFits
<1>4. DecisionsFit
  BY <1>1, IdleIsWorker DEF DecisionsFit, Init
<1>. QED
  BY <1>2, <1>3, <1>4 DEF CInv, SeenOfCalls, HeadInUse, CorpusOfOneCohort

\* Every step is quiet for the corpus, or one of Decide, Commit and Process.
LEMMA QuietOrNot ==
    ASSUME CInv, [Next]_vars
    PROVE  \/ QuietStep /\ \A v \in Worker : wk'[v].pc = "commit" => wk'[v] = wk[v]
           \/ \E w \in Worker : Decide(w) \/ Commit(w)
           \/ \E d \in 1..MaxDay : Process(d)
<1>1. ASSUME NEW w \in Worker, Claim(w) \/ ClaimNothing(w) \/ StartFetch(w) \/ Superseded(w)
      PROVE  QuietStep /\ \A v \in Worker : wk'[v].pc = "commit" => wk'[v] = wk[v]
  <2>1. CASE Claim(w)
    BY <2>1, ClaimIsQuiet
  <2>2. CASE ClaimNothing(w)
    BY <2>2, ClaimNothingIsQuiet
  <2>3. CASE StartFetch(w)
    BY <2>3, StartFetchIsQuiet
  <2>4. CASE Superseded(w)
    BY <2>4, SupersededIsQuiet
  <2>. QED
    BY <1>1, <2>1, <2>2, <2>3, <2>4
<1>2. ASSUME NEW w \in Worker, Crash(w)
      PROVE  QuietStep /\ \A v \in Worker : wk'[v].pc = "commit" => wk'[v] = wk[v]
  <2>1. QuietStep
    BY <1>2, WorldIsQuiet DEF Crash, IsLast
  <2>2. \A v \in Worker : wk'[v].pc = "commit" => wk'[v] = wk[v]
    BY <1>2, IdleIsWorker DEF Crash, Set, CInv, IInv, Typed
  <2>. QED
    BY <2>1, <2>2
<1>3. ASSUME NEW j \in Job, Expire(j) \/ ExpireLost(j) PROVE QuietStep /\ wk' = wk
  BY <1>3, WorldIsQuiet DEF Expire, ExpireLost, IsLast
<1>4. ASSUME NEW r \in Route, SourceChanges(r) PROVE QuietStep /\ wk' = wk
  BY <1>4, WorldIsQuiet DEF SourceChanges, IsLast
<1>5. CASE UNCHANGED vars
  BY <1>5, WorldIsQuiet DEF vars, IsLast
<1>6. ASSUME NEW d \in 1..MaxDay, SetBack(d) PROVE QuietStep /\ wk' = wk
  <2>1. \A e \in 1..MaxDay : IsLast(e)' => IsLast(e)
    BY <1>6 DEF SetBack, Processed, IsLast, CInv, IInv, Typed
  <2>. QED
    BY <1>6, <2>1, WorldIsQuiet DEF SetBack
<1>. QED
  BY <1>1, <1>2, <1>3, <1>4, <1>5, <1>6 DEF Next, Step

LEMMA CorpusStep == CInv /\ [Next]_vars => CInv'
<1>1. SUFFICES ASSUME CInv, [Next]_vars PROVE CInv'
  OBVIOUS
<1>2. IInv'
  BY <1>1, NextIsSafe DEF CInv
<1>3. CASE QuietStep /\ \A v \in Worker : wk'[v].pc = "commit" => wk'[v] = wk[v]
  BY <1>1, <1>2, <1>3, QuietKeepsAll
<1>4. ASSUME NEW w \in Worker, Decide(w) \/ Commit(w) PROVE CInv'
  BY <1>1, <1>2, <1>4, DecideKeeps, CommitKeeps
<1>5. ASSUME NEW d \in 1..MaxDay, Process(d) PROVE CInv'
  BY <1>1, <1>2, <1>5, ProcessKeeps
<1>. QED
  BY <1>1, <1>3, <1>4, <1>5, QuietOrNot

LEMMA CorpusInvariance == Spec => []CInv
BY CorpusInit, CorpusStep, PTL DEF Spec

-----------------------------------------------------------------------------
(* The handoff.                                                                *)

\* A day that was never set back, that is the last, and that is done.
Ready(d) == IsLast(d) /\ \A r \in Route : Good(jobs[<<d, r>>])
InUse(d) == head.day = d /\ head.reviews \in corpora

LEMMA HandedOffIs == HandedOff <=> \A d \in 1..MaxDay : Ready(d) => InUse(d)
BY DEF HandedOff, Ready, InUse, IsLast, Good

LEMMA HandoffStep ==
    ASSUME Route # {}, CInv, HandedOff, [Next]_vars
    PROVE  HandedOff'
<1>0. SUFFICES ASSUME NEW d \in 1..MaxDay, IsLast(d)', \A r \in Route : Good(jobs'[<<d, r>>])
               PROVE  head'.day = d /\ head'.reviews \in corpora'
  BY DEF HandedOff, IsLast, Good
<1>1. IsLast(d) /\ (\A r \in Route : Good(jobs[<<d, r>>])) => head.day = d /\ head.reviews \in corpora
  BY HandedOffIs DEF Ready, InUse
<1>2. \A r \in Route : <<d, r>> \in Job
  BY CohortIsJobs DEF CInv
<1>3. CASE QuietStep
  <2>1. UNCHANGED <<head, corpora>> /\ (\A j \in Job : Good(jobs'[j]) = Good(jobs[j])) /\ IsLast(d)
    BY <1>0, <1>3, QuietIsGood DEF QuietStep
  <2>2. \A r \in Route : Good(jobs[<<d, r>>])
    BY <1>0, <1>2, <2>1
  <2>. QED
    BY <1>1, <2>1, <2>2
<1>4. ASSUME NEW w \in Worker, Decide(w)
      PROVE  head'.day = d /\ head'.reviews \in corpora'
  BY <1>0, <1>1, <1>4 DEF Decide, IsLast
<1>5. ASSUME NEW w \in Worker, Commit(w)
      PROVE  head'.day = d /\ head'.reviews \in corpora'
  <2>1. PICK j, write, token : j = wk[w].job /\ write = wk[w].write /\ token = wk[w].token
    OBVIOUS
  <2>2. /\ j \in Job /\ jobs[j].state = "running"
        /\ DecisionFits(j, token, write) /\ Committed(w, j, write)
    BY <1>5, <2>1, CommitCommits DEF Owned
  <2>3. IsLast(d)
    BY <1>0, <2>2 DEF IsLast, Committed
  <2>4. \A r \in Route : Good(RowWith(j, write, <<d, r>>))
    BY <1>0, <1>2, <2>2 DEF Committed, Good
  <2>5. write.head # NoCorpus \/ Good(write.job) => write.head.day = d
    BY <2>2, <2>3, <2>4 DEF DecisionFits, BringsCorpus, AllGood
  <2>6. CASE write.head # NoCorpus
    <3>1. head' = write.head /\ write.head.reviews \in corpora' /\ write.head.day \in 1..MaxDay
      BY <2>2, <2>6 DEF Committed, DecisionFits, BringsCorpus
    <3>. QED
      BY <2>5, <2>6, <3>1
  <2>7. CASE write.head = NoCorpus
    <3>1. NoCorpus.day = 0 /\ d # 0
      BY DEF NoCorpus
    <3>2. ~Good(write.job) /\ UNCHANGED <<head, corpora>>
      BY <2>2, <2>5, <2>7, <3>1 DEF Committed
    <3>3. \A r \in Route : Good(jobs[<<d, r>>])
      BY <2>4, <3>2 DEF RowWith
    <3>. QED
      BY <1>1, <2>3, <3>2, <3>3
  <2>. QED
    BY <2>6, <2>7
<1>6. ASSUME NEW e \in 1..MaxDay, Process(e)
      PROVE  head'.day = d /\ head'.reviews \in corpora'
  <2>1. PICK r \in Route : TRUE
    OBVIOUS
  <2>2. /\ \A q \in Route : cand[e] = "absent" => jobs'[<<e, q>>] = New
        /\ cand'[e] = (IF cand[e] = "absent" THEN "processed" ELSE "again")
        /\ \A i \in 1..MaxDay : i # e => cand'[i] = cand[i]
        /\ \A j \in Job : jobs'[j] = jobs[j] \/ (cand[j[1]] = "absent" /\ jobs'[j] = New)
        /\ UNCHANGED <<head, corpora>>
    BY <1>6, ProcessCases DEF CInv
  <2>3. e # d
    BY <1>0, <2>1, <2>2, NewFits DEF IsLast
  <2>4. IsLast(d)
    BY <1>0, <2>2, <2>3 DEF IsLast
  <2>5. \A q \in Route : Good(jobs[<<d, q>>])
    BY <1>0, <1>2, <2>2, NewFits
  <2>. QED
    BY <1>1, <2>2, <2>4, <2>5
<1>. QED
  BY <1>3, <1>4, <1>5, <1>6, QuietOrNot

\* A route is complete or empty with the counts the source reported and its pages listed, each
\* review in one version, all of accepted calls of its last generation (_commit_page).
THEOREM CompleteIsCleanHolds == Spec => []CompleteIsClean
<1>1. ASSUME CInv, NEW j \in Job, jobs[j].state \in {"complete", "empty"},
             NEW obs, obs = SeenIn(j, jobs[j].gen)
      PROVE  /\ jobs[j].total = Cardinality(obs) /\ jobs[j].fetched = Cardinality(obs)
             /\ Cardinality(Ids(obs)) = Cardinality(obs)
             /\ \A o \in obs : \E f \in fetches : /\ f.job = j /\ f.token = o.token /\ f.gen = o.gen
                                                  /\ f.outcome = "succeeded"
  <2>1. IsFiniteSet(obs) /\ Fits(jobs[j], obs) /\ Good(jobs[j])
    BY <1>1, SeenInIsFinite DEF CInv, JobsFit, Good
  <2>2. ASSUME NEW o \in obs
        PROVE  \E f \in fetches : /\ f.job = j /\ f.token = o.token /\ f.gen = o.gen
                                  /\ f.outcome = "succeeded"
    <3>1. o \in seen /\ o.job = j /\ o.gen = jobs[j].gen
      BY <1>1 DEF SeenIn
    <3>. QED
      BY <1>1, <3>1 DEF CInv, SeenOfCalls, CallOf
  <2>. QED
    BY <2>1, <2>2, GoodIsVerified
<1>2. CInv => CompleteIsClean
  BY <1>1 DEF CompleteIsClean
<1>. QED
  BY <1>2, CorpusInvariance, PTL

\* The corpus in use is of one day's cohort, whatever the routes do since (collection_state,
\* corpus.build).
THEOREM CorpusOfOneCohortHolds == Spec => []CorpusOfOneCohort
<1>1. CInv => CorpusOfOneCohort
  BY DEF CInv
<1>. QED
  BY <1>1, CorpusInvariance, PTL

\* A game with a route: whoever completes the last route of the latest day hands the corpus on, in
\* the same commit (corpus.build within _commit_page), unless the candidate of that day was ever
\* set back or the day was before another that was.
THEOREM HandedOffHolds == ASSUME Route # {} PROVE Spec => []HandedOff
<1>1. Init => HandedOff
  <2>1. SUFFICES ASSUME Init, NEW d \in 1..MaxDay, Ready(d) PROVE FALSE
    BY HandedOffIs
  <2>2. PICK r \in Route : TRUE
    OBVIOUS
  <2>3. <<d, r>> \in Job /\ d = 1
    BY <2>1 DEF Init, Job, Ready, IsLast
  <2>4. jobs[<<d, r>>] = New
    BY <2>1, <2>3 DEF Init
  <2>. QED
    BY <2>1, <2>4, NewFits DEF Ready
<1>2. CInv /\ HandedOff /\ [Next]_vars => HandedOff'
  BY HandoffStep
<1>. QED
  BY <1>1, <1>2, CorpusInvariance, PTL DEF Spec

=============================================================================
