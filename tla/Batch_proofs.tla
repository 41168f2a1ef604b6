---------------------------- MODULE Batch_proofs ----------------------------
(* Proofs about Batch, for every number of workers, runs, games and pages, any *)
(* listings and limits, and any number of grants, crashes and edits by hand.   *)
EXTENDS Batch, FiniteSetTheorems, TLAPS

-----------------------------------------------------------------------------
(* The inductive invariant.                                                    *)

Outcome == {"open", "succeeded", "failed", "interrupted"}
Attempt == [game : Game, no : Nat, run : Run, token : Nat, outcome : Outcome]

IsCandidate(c) == \E Orders : c \in [state : State, order : Orders, count : Nat]
IsRun(r) ==
    /\ \E Statuses, Tokens, Errs : r \in [status : Statuses, token : Tokens, frozen : BOOLEAN,
                                          batch : Seq(Game), err : Errs]
    /\ Len(r.batch) <= Limit
Memory(Orders, Errs, Statuses) ==
    [pc : PcValues, run : Run \cup {NoRun}, tok : Nat, batch : Seq(Game), left : Seq(Game),
     fresh : Seq(Game), order : Orders, phase : Phase, page : Nat \ {0}, frozen : BOOLEAN,
     err : Errs, game : Game \cup {NoGame}, no : Nat, status : Statuses]
IsWorker(m) ==
    /\ \E Orders, Errs, Statuses : m \in Memory(Orders, Errs, Statuses)
    /\ (m.pc = "idle") = (m.run = NoRun)
    /\ Len(m.batch) <= Limit

Stored == /\ lease \in [token : Nat, owner : Run \cup {NoRun}, live : BOOLEAN]
          /\ lease.live => lease.owner # NoRun
          /\ cycle \in [phase : Phase, page : Nat \ {0}]
          /\ cand = [g \in Game |-> cand[g]] /\ \A g \in Game : IsCandidate(cand[g])
          /\ attempts \subseteq Attempt
          /\ runs = [r \in Run |-> runs[r]] /\ \A r \in Run : IsRun(runs[r])
Working == wk = [w \in Worker |-> wk[w]] /\ \A w \in Worker : IsWorker(wk[w])

Nos(g) == {a.no : a \in AttemptsAt(g)}
IsOpen(a) == a.outcome = "open"

\* Attempts are numbered from 1 on, and a candidate's counter never exceeds them.
Numbered ==
    /\ \A g \in Game : \E n \in 0..MaxAttempts : Nos(g) = 1..n /\ cand[g].count <= n
    /\ \A a, b \in attempts : a.game = b.game /\ a.no = b.no => a = b

\* Only one attempt at a candidate is open, and it is not open to another.
OpenIsBusy ==
    /\ \A a \in attempts : IsOpen(a) => cand[a.game].state \in {"processing", "processed"}
    /\ \A a, b \in attempts : IsOpen(a) /\ IsOpen(b) /\ a.game = b.game => a = b

Granted == \A a \in attempts : a.token <= lease.token

History == Numbered /\ OpenIsBusy /\ Granted /\ SuccessIsFinal /\ OncePerRun

Stands(phase, page) ==
    /\ phase = "new_releases_pending" => page = 1
    /\ phase = "browse" => page \in DOMAIN Pages
    /\ phase = "exhausted" => page = Len(Pages) + 1

Cursor == Stands(cycle.phase, cycle.page) /\ CursorKeepsUp

\* A worker that has been granted the lease.
Holder(w) == ~At(w, "idle") /\ ~At(w, "acquire")

\* Every grant of the lease has a token of its own.
TokensApart == \A v, w \in Worker : v # w /\ Holder(v) /\ Holder(w) => wk[v].tok # wk[w].tok

\* The worker the lease was granted to last, whether its time is over or not.
Current(w) == Holder(w) /\ wk[w].tok = lease.token

Scanning == {"select", "releases", "browse", "insert"}
Ending   == {"abort", "close"}

\* What holds of a worker at each place, whether it still has the lease or not.
InPlace(w) ==
    /\ Holder(w) => wk[w].tok <= lease.token
    /\ At(w, "insert") => wk[w].tok = lease.token
    /\ wk[w].pc \in Scanning => Stands(wk[w].phase, wk[w].page)
    /\ At(w, "releases") => wk[w].phase = "new_releases_pending"
    /\ At(w, "browse") => wk[w].phase = "browse"
    /\ At(w, "insert") => wk[w].phase # "exhausted"
    /\ At(w, "fetch") => wk[w].game \in Game /\ wk[w].no \in Nos(wk[w].game)

\* The attempt worker w makes.
MyAttempt(w, a) == At(w, "fetch") /\ a.game = wk[w].game /\ a.no = wk[w].no

\* What holds of it while nobody else has been granted the lease.
InCharge(w) ==
    /\ wk[w].pc \in Scanning => wk[w].phase = cycle.phase /\ wk[w].page = cycle.page
    /\ At(w, "insert") /\ wk[w].phase = "browse" =>
          Range(Pages[wk[w].page]) \ Excluded \subseteq Known \cup Range(wk[w].fresh)
    /\ wk[w].pc \notin Ending =>
          \A a \in attempts : IsOpen(a) /\ a.token = wk[w].tok => MyAttempt(w, a)
    /\ At(w, "fetch") => /\ \E a \in attempts : MyAttempt(w, a) /\ IsOpen(a)
                         /\ \A b \in AttemptsAt(wk[w].game) :
                               b.no <= wk[w].no /\ b.outcome # "succeeded"
    /\ wk[w].pc \notin Outside =>
          \A g \in Game : cand[g].state = "processing" => At(w, "fetch") /\ wk[w].game = g

Works(w) == InPlace(w) /\ (Current(w) => InCharge(w))

IInv == Stored /\ Working /\ History /\ Cursor /\ TokensApart /\ \A w \in Worker : Works(w)

-----------------------------------------------------------------------------
(* Numbers and sequences.                                                      *)

LEMMA Bounds == MaxAttempts \in Nat /\ MaxAttempts > 0 /\ Limit \in Nat
<1>1. MaxAttempts \in Nat \ {0} /\ Limit \in Nat \ {0}
  BY Zenon, BatchAssumption
<1>. QED
  BY <1>1

\* The first elements of a sequence.
LEMMA PrefixOfSeq ==
    ASSUME NEW S, NEW q \in Seq(S), NEW n \in Int
    PROVE  /\ Prefix(q, n) \in Seq(S)
           /\ n >= 0 => Len(Prefix(q, n)) <= n
           /\ n < 0 => Prefix(q, n) = <<>>
           /\ Len(q) <= n => Prefix(q, n) = q
<1>1. Min({n, Len(q)}) = IF n <= Len(q) THEN n ELSE Len(q)
  <2>1. Len(q) \in Nat
    OBVIOUS
  <2>. DEFINE m == IF n <= Len(q) THEN n ELSE Len(q)
  <2>2. m \in {n, Len(q)} /\ \A x \in {n, Len(q)} : m <= x
    BY <2>1
  <2>3. \A x \in {n, Len(q)} : (\A y \in {n, Len(q)} : x <= y) => x = m
    BY <2>1, <2>2
  <2>. HIDE DEF m
  <2>4. Min({n, Len(q)}) = m
    BY <2>2, <2>3 DEF Min
  <2>. QED
    BY <2>4 DEF m
<1>. DEFINE m == IF n <= Len(q) THEN n ELSE Len(q)
<1>2. m \in Int /\ m <= Len(q) /\ m <= n /\ (Len(q) <= n => m = Len(q)) /\ (n >= 0 => m >= 0)
      /\ (n < 0 => m = n)
  BY DEF m
<1>3. Prefix(q, n) = SubSeq(q, 1, m)
  BY <1>1 DEF Prefix
<1>. HIDE DEF m
<1>4. SubSeq(q, 1, m) \in Seq(S) /\ Len(SubSeq(q, 1, m)) = IF 1 <= m THEN m ELSE 0
  BY <1>2
<1>5. Len(q) <= n => SubSeq(q, 1, m) = q
  BY <1>2
<1>6. n < 0 => SubSeq(q, 1, m) = <<>>
  BY <1>2, <1>4
<1>. QED
  BY <1>2, <1>3, <1>4, <1>5, <1>6

LEMMA ElementsOfSeq ==
    ASSUME NEW S, NEW q \in Seq(S)
    PROVE  Range(q) \subseteq S /\ IsFiniteSet(Range(q))
<1>1. DOMAIN q = 1..Len(q) /\ Len(q) \in Nat
  OBVIOUS
<1>2. Range(q) \subseteq S
  BY DEF Range
<1>3. q \in Surjection(DOMAIN q, Range(q))
  BY DEF Surjection, Range
<1>4. IsFiniteSet(DOMAIN q)
  <2>1. IsFiniteSet(1..Len(q))
    BY <1>1, FS_Interval
  <2>. QED
    BY <1>1, <2>1
<1>5. PICK D : D = DOMAIN q
  OBVIOUS
<1>6. IsFiniteSet(Range(q))
  BY <1>3, <1>4, <1>5, FS_Surjection
<1>. QED
  BY <1>2, <1>6

\* An ordering of a set has all of its elements.
LEMMA OrderedHasAll ==
    ASSUME NEW S, IsFiniteSet(S), NEW place, NEW q \in Ordered(S, place)
    PROVE  q \in Seq(S) /\ Range(q) = S
<1>. DEFINE n == Cardinality(S)
<1>1. n \in Nat /\ IsFiniteSet(1..n) /\ Cardinality(1..n) = n
  <2>1. n \in Nat
    BY FS_CardinalityType
  <2>. HIDE DEF n
  <2>. QED
    BY <2>1, FS_Interval
<1>2. q \in [1..n -> S] /\ \A i, j \in 1..n : i # j => q[i] # q[j]
  BY DEF Ordered, SetToSeqs
<1>. HIDE DEF n
<1>3. q \in Injection(1..n, S)
  BY <1>2 DEF Injection, IsInjective
<1>4. q \in Surjection(1..n, S)
  BY <1>1, <1>3, FS_Injection DEF n
<1>5. Range(q) = S
  BY <1>2, <1>4 DEF Surjection, Range
<1>. QED
  BY <1>1, <1>2, <1>5

\* The number of the latest attempt at a candidate.
LEMMA LastIsLength ==
    ASSUME NEW g, NEW n \in Nat, Nos(g) = 1..n
    PROVE  LastNo(g) = n
<1>1. n \in 0..n /\ \A y \in 0..n : n >= y
  OBVIOUS
<1>2. \A x \in 0..n : (\A y \in 0..n : x >= y) => x = n
  OBVIOUS
<1>3. {a.no : a \in AttemptsAt(g)} \cup {0} = 0..n
  BY DEF Nos
<1>4. Max(0..n) = n
  BY <1>1, <1>2 DEF Max
<1>. QED
  BY <1>3, <1>4 DEF LastNo

LEMMA MaxOfTwo ==
    ASSUME NEW m \in Nat, NEW n \in Nat, m <= n
    PROVE  Max({m, n}) = n
<1>1. n \in {m, n} /\ \A y \in {m, n} : n >= y
  OBVIOUS
<1>2. \A x \in {m, n} : (\A y \in {m, n} : x >= y) => x = n
  OBVIOUS
<1>. QED
  BY <1>1, <1>2 DEF Max

-----------------------------------------------------------------------------
(* The history of attempts.                                                    *)

End(a, as, outcome) == IF a \in as THEN [a EXCEPT !.outcome = outcome] ELSE a

Ended(as, outcome) ==
    /\ attempts' \subseteq Attempt
    /\ \A a \in attempts : /\ End(a, as, outcome) \in attempts'
                           /\ End(a, as, outcome).game = a.game
                           /\ End(a, as, outcome).no = a.no
                           /\ End(a, as, outcome).run = a.run
                           /\ End(a, as, outcome).token = a.token
                           /\ a \in as => End(a, as, outcome).outcome = outcome
                           /\ a \notin as => End(a, as, outcome) = a
    /\ \A b \in attempts' : \E a \in attempts : b = End(a, as, outcome)

\* Closing attempts changes their outcomes and nothing else.
LEMMA ClosesAttempts ==
    ASSUME Stored, NEW as, as \subseteq attempts, NEW outcome \in Outcome,
           attempts' = Closes(as, outcome)
    PROVE  Ended(as, outcome)
<1>. DEFINE Close1(a) == [a EXCEPT !.outcome = outcome]
<1>1. ASSUME NEW a \in attempts
      PROVE  /\ Close1(a) \in Attempt /\ Close1(a).game = a.game /\ Close1(a).no = a.no
             /\ Close1(a).run = a.run /\ Close1(a).token = a.token /\ Close1(a).outcome = outcome
  BY DEF Stored, Attempt
<1>2. attempts' = (attempts \ as) \cup {Close1(a) : a \in as}
  BY DEF Closes
<1>3. \A a \in attempts : End(a, as, outcome) = IF a \in as THEN Close1(a) ELSE a
  BY DEF End
<1>. HIDE DEF Close1
<1>4. attempts' \subseteq Attempt
  <2>1. attempts \subseteq Attempt
    BY DEF Stored
  <2>. QED
    BY <1>1, <1>2, <2>1
<1>5. ASSUME NEW a \in attempts
      PROVE  /\ End(a, as, outcome) \in attempts'
             /\ End(a, as, outcome).game = a.game
             /\ End(a, as, outcome).no = a.no
             /\ End(a, as, outcome).run = a.run
             /\ End(a, as, outcome).token = a.token
             /\ a \in as => End(a, as, outcome).outcome = outcome
             /\ a \notin as => End(a, as, outcome) = a
  BY <1>1, <1>2, <1>3
<1>6. \A b \in attempts' : \E a \in attempts : b = End(a, as, outcome)
  BY <1>2, <1>3
<1>. QED
  BY <1>4, <1>5, <1>6 DEF Ended

\* What was attempted and when stays; only the outcomes of as differ.
Closed(as, outcome) ==
    /\ attempts' \subseteq Attempt
    /\ \A a \in attempts : \E b \in attempts' :
          /\ b.game = a.game /\ b.no = a.no /\ b.run = a.run /\ b.token = a.token
          /\ a \in as => b.outcome = outcome
          /\ a \notin as => b = a
    /\ \A b \in attempts' : \E a \in attempts :
          /\ b.game = a.game /\ b.no = a.no /\ b.run = a.run /\ b.token = a.token
          /\ a \in as => b.outcome = outcome
          /\ a \notin as => b = a

LEMMA ClosesIsClosed ==
    ASSUME Stored, NEW as, as \subseteq attempts, NEW outcome \in Outcome,
           attempts' = Closes(as, outcome)
    PROVE  Closed(as, outcome) /\ \A g : Nos(g)' = Nos(g)
<1>1. Ended(as, outcome)
  BY ClosesAttempts
<1>2. Closed(as, outcome)
  <2>1. \A a \in attempts : \E b \in attempts' :
           /\ b.game = a.game /\ b.no = a.no /\ b.run = a.run /\ b.token = a.token
           /\ a \in as => b.outcome = outcome
           /\ a \notin as => b = a
    BY <1>1 DEF Ended
  <2>2. \A b \in attempts' : \E a \in attempts :
           /\ b.game = a.game /\ b.no = a.no /\ b.run = a.run /\ b.token = a.token
           /\ a \in as => b.outcome = outcome
           /\ a \notin as => b = a
    <3>1. SUFFICES ASSUME NEW b \in attempts'
                   PROVE  \E a \in attempts :
                             /\ b.game = a.game /\ b.no = a.no /\ b.run = a.run /\ b.token = a.token
                             /\ a \in as => b.outcome = outcome
                             /\ a \notin as => b = a
      OBVIOUS
    <3>2. PICK a \in attempts : b = End(a, as, outcome)
      BY <1>1 DEF Ended
    <3>. QED
      BY <1>1, <3>2 DEF Ended
  <2>. QED
    BY <1>1, <2>1, <2>2 DEF Closed, Ended
<1>3. ASSUME NEW g
      PROVE  Nos(g)' = Nos(g)
  <2>1. \A n \in Nos(g)' : n \in Nos(g)
    <3>1. SUFFICES ASSUME NEW b \in attempts', b.game = g PROVE b.no \in Nos(g)
      BY DEF Nos, AttemptsAt
    <3>2. PICK a \in attempts : b.game = a.game /\ b.no = a.no
      BY <1>2 DEF Closed
    <3>. QED
      BY <3>1, <3>2 DEF Nos, AttemptsAt
  <2>2. \A n \in Nos(g) : n \in Nos(g)'
    <3>1. SUFFICES ASSUME NEW a \in attempts, a.game = g PROVE a.no \in Nos(g)'
      BY DEF Nos, AttemptsAt
    <3>2. PICK b \in attempts' : b.game = a.game /\ b.no = a.no
      BY <1>2 DEF Closed
    <3>. QED
      BY <3>1, <3>2 DEF Nos, AttemptsAt
  <2>. QED
    BY <2>1, <2>2
<1>. QED
  BY <1>2, <1>3

LEMMA ClosingIsSafe ==
    ASSUME Stored, History, NEW as, as \subseteq attempts, \A a \in as : IsOpen(a),
           NEW outcome \in Outcome, outcome # "open",
           attempts' = Closes(as, outcome), enrolled \subseteq enrolled',
           lease.token <= lease'.token, lease'.token \in Nat,
           \A g \in Game, n \in Nat : Nos(g) = 1..n /\ cand[g].count <= n => cand'[g].count <= n,
           \A a \in attempts : a.outcome = "succeeded" => cand'[a.game].state = "processed",
           \A a \in attempts : IsOpen(a) /\ a \notin as =>
               cand'[a.game].state \in {"processing", "processed"},
           outcome = "succeeded" =>
               \A a \in as : /\ cand'[a.game].state = "processed" /\ a.game \in enrolled'
                             /\ \A b \in AttemptsAt(a.game) :
                                   b.no <= a.no /\ b.outcome # "succeeded"
    PROVE  History'
<1>1. Closed(as, outcome) /\ \A g : Nos(g)' = Nos(g)
  BY ClosesIsClosed
<1>2. \A a, b \in attempts' : a.game = b.game /\ a.no = b.no => a = b
  <2>1. SUFFICES ASSUME NEW a \in attempts', NEW b \in attempts', a.game = b.game, a.no = b.no
                 PROVE  a = b
    OBVIOUS
  <2>2. /\ \A c \in attempts : /\ End(c, as, outcome).game = c.game
                               /\ End(c, as, outcome).no = c.no
        /\ \A c \in attempts' : \E d \in attempts : c = End(d, as, outcome)
    <3>1. Ended(as, outcome)
      BY ClosesAttempts
    <3>. QED
      BY <3>1 DEF Ended
  <2>3. PICK c \in attempts : a = End(c, as, outcome)
    BY <2>2
  <2>4. PICK d \in attempts : b = End(d, as, outcome)
    BY <2>2
  <2>5. c.game = d.game /\ c.no = d.no
    BY <2>1, <2>2, <2>3, <2>4
  <2>6. c = d
    BY <2>5 DEF History, Numbered
  <2>. QED
    BY <2>3, <2>4, <2>6
<1>3. Numbered'
  <2>1. ASSUME NEW g \in Game
        PROVE  \E n \in 0..MaxAttempts : Nos(g)' = 1..n /\ cand'[g].count <= n
    <3>1. PICK n \in 0..MaxAttempts : Nos(g) = 1..n /\ cand[g].count <= n
      BY DEF History, Numbered
    <3>2. n \in Nat
      OBVIOUS
    <3>3. cand'[g].count <= n
      BY <3>1, <3>2
    <3>. QED
      BY <1>1, <3>1, <3>3
  <2>. QED
    BY <1>2, <2>1 DEF Numbered
<1>4. OpenIsBusy'
  <2>1. \A b \in attempts' : IsOpen(b) => b \in attempts /\ b \notin as
    BY <1>1 DEF Closed, IsOpen
  <2>. QED
    BY <2>1 DEF History, OpenIsBusy
<1>5. Granted'
  <2>1. \A a \in attempts : a.token \in Nat /\ a.token <= lease.token /\ lease.token \in Nat
    BY DEF Stored, Attempt, History, Granted
  <2>2. \A a \in attempts : a.token <= lease'.token
    BY <2>1
  <2>. QED
    BY <1>1, <2>2 DEF Closed, Granted
<1>6. SuccessIsFinal'
  <2>1. SUFFICES ASSUME NEW b \in attempts', b.outcome = "succeeded"
                 PROVE  /\ cand'[b.game].state = "processed" /\ b.game \in enrolled'
                        /\ \A c \in attempts' : c.game = b.game => c.no <= b.no
    BY DEF SuccessIsFinal, AttemptsAt
  <2>2. PICK a \in attempts : /\ b.game = a.game /\ b.no = a.no
                              /\ a \in as => b.outcome = outcome
                              /\ a \notin as => b = a
    BY <1>1 DEF Closed
  <2>3. /\ cand'[a.game].state = "processed" /\ a.game \in enrolled'
        /\ \A c \in attempts : c.game = a.game => c.no <= a.no
    <3>1. CASE a \in as
      BY <2>1, <2>2, <3>1 DEF AttemptsAt
    <3>2. CASE a \notin as
      BY <2>1, <2>2, <3>2 DEF History, SuccessIsFinal, AttemptsAt
    <3>. QED
      BY <3>1, <3>2
  <2>4. ASSUME NEW c \in attempts', c.game = b.game
        PROVE  c.no <= b.no
    <3>1. PICK d \in attempts : c.game = d.game /\ c.no = d.no
      BY <1>1 DEF Closed
    <3>. QED
      BY <2>2, <2>3, <2>4, <3>1
  <2>5. cand'[b.game].state = "processed" /\ b.game \in enrolled'
    BY <2>2, <2>3
  <2>. QED
    BY <2>4, <2>5
<1>7. OncePerRun'
  <2>1. SUFFICES ASSUME NEW a \in attempts', NEW b \in attempts',
                        a.run = b.run, a.game = b.game, a.no < b.no
                 PROVE  a.outcome = "interrupted"
    BY DEF OncePerRun
  <2>2. PICK c \in attempts : /\ a.game = c.game /\ a.no = c.no /\ a.run = c.run
                              /\ c \notin as => a = c
    BY <1>1 DEF Closed
  <2>3. PICK d \in attempts : b.game = d.game /\ b.no = d.no /\ b.run = d.run
    BY <1>1 DEF Closed
  <2>4. c.outcome = "interrupted"
    BY <2>1, <2>2, <2>3 DEF History, OncePerRun
  <2>. QED
    BY <2>2, <2>4 DEF IsOpen
<1>. QED
  BY <1>3, <1>4, <1>5, <1>6, <1>7 DEF History

\* Attempt a, the next after the n attempts there are, is begun.
Begins(a, n) ==
    /\ Nos(a.game) = 1..n /\ n < MaxAttempts
    /\ cand[a.game].state \in {"pending", "retryable"}
    /\ a \in Attempt /\ a.no = n + 1 /\ a.token <= lease.token /\ a.outcome = "open"
    /\ \A b \in AttemptsAt(a.game) : b.run = a.run => b.outcome = "interrupted"
    /\ attempts' = attempts \cup {a} /\ lease' = lease /\ enrolled' = enrolled
    /\ cand'[a.game].state = "processing" /\ cand'[a.game].count = n + 1
    /\ \A h \in Game : h # a.game => cand'[h] = cand[h]

LEMMA AddingIsSafe ==
    ASSUME Stored, History, NEW a, NEW n \in Nat, Begins(a, n)
    PROVE  History' /\ Nos(a.game)' = 1..(n + 1)
<1>. DEFINE g == a.game
<1>0. /\ g \in Game /\ Nos(g) = 1..n /\ n < MaxAttempts
      /\ cand[g].state \in {"pending", "retryable"}
      /\ a \in Attempt /\ a.game = g /\ a.no = n + 1 /\ a.token <= lease.token /\ a.outcome = "open"
      /\ \A b \in AttemptsAt(g) : b.run = a.run => b.outcome = "interrupted"
      /\ attempts' = attempts \cup {a} /\ UNCHANGED <<lease, enrolled>>
      /\ cand'[g].state = "processing" /\ cand'[g].count = n + 1
      /\ \A h \in Game : h # g => cand'[h] = cand[h]
  BY DEF Begins, Attempt
<1>. HIDE DEF g
<1>1. \A b \in attempts : b.game \in Game /\ b.no \in Nat
  BY <1>0 DEF Stored, Attempt
<1>2. \A b \in attempts : b.game = g => b.no \in 1..n /\ ~IsOpen(b) /\ b.outcome # "succeeded"
  BY <1>0 DEF Nos, AttemptsAt, History, OpenIsBusy, SuccessIsFinal
<1>3. Nos(g)' = 1..(n + 1)
  <2>1. Nos(g)' = Nos(g) \cup {n + 1}
    BY <1>0 DEF Nos, AttemptsAt
  <2>. QED
    BY <1>0, <2>1
<1>4. \A h \in Game : h # g => Nos(h)' = Nos(h)
  BY <1>0 DEF Nos, AttemptsAt
<1>5. Numbered'
  <2>1. \A b, c \in attempts' : b.game = c.game /\ b.no = c.no => b = c
    <3>1. \A b \in attempts : b.game = g => b.no # n + 1
      BY <1>0, <1>2
    <3>. QED
      BY <1>0, <3>1 DEF History, Numbered
  <2>2. n + 1 \in 0..MaxAttempts
    BY <1>0, Bounds
  <2>3. ASSUME NEW h \in Game
        PROVE  \E m \in 0..MaxAttempts : Nos(h)' = 1..m /\ cand'[h].count <= m
    <3>1. CASE h = g
      BY <1>0, <1>3, <2>2, <3>1
    <3>2. CASE h # g
      BY <1>0, <1>4, <3>2 DEF History, Numbered
    <3>. QED
      BY <1>0, <3>1, <3>2
  <2>. QED
    BY <1>0, <2>1, <2>3 DEF Numbered
<1>6. OpenIsBusy'
  BY <1>0, <1>1, <1>2 DEF History, OpenIsBusy, IsOpen
<1>7. Granted'
  BY <1>0 DEF History, Granted
<1>8. SuccessIsFinal'
  <2>1. SUFFICES ASSUME NEW b \in attempts', b.outcome = "succeeded"
                 PROVE  /\ cand'[b.game].state = "processed" /\ b.game \in enrolled'
                        /\ \A c \in attempts' : c.game = b.game => c.no <= b.no
    BY <1>0 DEF SuccessIsFinal, AttemptsAt
  <2>2. b \in attempts /\ b.game \in Game /\ b.game # g
    BY <1>0, <1>1, <1>2, <2>1
  <2>. QED
    BY <1>0, <2>1, <2>2 DEF History, SuccessIsFinal, AttemptsAt
<1>9. OncePerRun'
  <2>1. SUFFICES ASSUME NEW b \in attempts', NEW c \in attempts',
                        b.run = c.run, b.game = c.game, b.no < c.no
                 PROVE  b.outcome = "interrupted"
    BY <1>0 DEF OncePerRun
  <2>2. CASE b \in attempts /\ c \in attempts
    BY <1>0, <2>1, <2>2 DEF History, OncePerRun
  <2>3. CASE b \in attempts /\ c = a
    BY <1>0, <2>1, <2>3 DEF AttemptsAt
  <2>4. CASE b = a
    <3>1. c = a \/ c.no \in 1..n
      BY <1>0, <1>2, <2>1, <2>4
    <3>. QED
      BY <1>0, <2>1, <2>4, <3>1
  <2>. QED
    BY <1>0, <2>2, <2>3, <2>4
<1>. QED
  BY <1>3, <1>5, <1>6, <1>7, <1>8, <1>9 DEF History, g

-----------------------------------------------------------------------------
(* Steps of one worker, as the others and the rows see them.                   *)

\* A worker that does nothing keeps what it relies on: whoever wrote while it was in charge
\* was the worker itself.
LEMMA OthersKeep ==
    ASSUME IInv, NEW v \in Worker, wk'[v] = wk[v],
           lease'.token \in Nat, lease.token <= lease'.token,
           lease'.token # lease.token => wk[v].pc # "insert",
           \A g \in Game : Nos(g) \subseteq Nos(g)',
           lease'.token = lease.token /\ Current(v) =>
               /\ UNCHANGED <<attempts, cycle>> /\ Known \subseteq Known'
               /\ \A g \in Game : cand'[g].state = "processing" => cand[g].state = "processing"
    PROVE  Works(v)'
<1>1. lease.token \in Nat /\ IsWorker(wk[v]) /\ Works(v)
  BY DEF IInv, Stored, Working
<1>2. wk[v].tok \in Nat /\ (wk[v].pc # "idle" => wk[v].run \in Run)
  BY <1>1 DEF IsWorker, Memory
<1>3. InPlace(v)'
  <2>1. wk[v].pc \notin {"idle", "acquire"} => wk[v].tok <= lease'.token
    BY <1>1, <1>2 DEF Works, InPlace, Holder, At
  <2>2. wk[v].pc = "fetch" => wk[v].game \in Game /\ wk[v].no \in Nos(wk[v].game)'
    BY <1>1 DEF Works, InPlace, At
  <2>. QED
    BY <1>1, <2>1, <2>2 DEF Works, InPlace, Holder, At
<1>4. ASSUME Current(v)'
      PROVE  InCharge(v)'
  <2>1. lease'.token = lease.token /\ Current(v)
    BY <1>1, <1>2, <1>4 DEF Current, Holder, At, Works, InPlace
  <2>2. /\ UNCHANGED <<attempts, cycle>> /\ Known \subseteq Known' /\ InCharge(v)
        /\ \A g \in Game : cand'[g].state = "processing" => cand[g].state = "processing"
    BY <1>1, <2>1 DEF Works
  <2>3. /\ wk[v].pc \in Scanning => wk[v].phase = cycle'.phase /\ wk[v].page = cycle'.page
        /\ wk[v].pc = "insert" /\ wk[v].phase = "browse" =>
              Range(Pages[wk[v].page]) \ Excluded \subseteq Known' \cup Range(wk[v].fresh)
    BY <2>2 DEF InCharge, At
  <2>5. wk[v].pc \notin Ending =>
          \A a \in attempts' : IsOpen(a) /\ a.token = wk[v].tok => MyAttempt(v, a)'
    BY <2>2 DEF InCharge, MyAttempt, At
  <2>6. wk[v].pc = "fetch" => /\ \E a \in attempts' : MyAttempt(v, a)' /\ IsOpen(a)
                              /\ \A b \in AttemptsAt(wk[v].game)' :
                                    b.no <= wk[v].no /\ b.outcome # "succeeded"
    BY <2>2 DEF InCharge, MyAttempt, At, AttemptsAt
  <2>7. wk[v].pc \notin Outside =>
          \A g \in Game : cand'[g].state = "processing" => wk[v].pc = "fetch" /\ wk[v].game = g
    BY <2>2 DEF InCharge, At
  <2>. QED
    BY <2>3, <2>5, <2>6, <2>7 DEF InCharge, At
<1>. QED
  BY <1>3, <1>4 DEF Works

LEMMA CurrentIsOne ==
    ASSUME IInv, NEW v \in Worker, NEW w \in Worker, Current(v), Current(w)
    PROVE  v = w
BY DEF IInv, TokensApart, Current

\* The lease is that of the worker that has verified its token.
LEMMA VerifiedIsCurrent ==
    ASSUME IInv, NEW w \in Worker, Verified(w), wk[w].pc # "acquire"
    PROVE  Current(w) /\ InCharge(w)
<1>1. wk[w].run # NoRun /\ IsWorker(wk[w])
  BY DEF Verified, IInv, Stored, Working
<1>2. Current(w)
  BY <1>1 DEF Current, Holder, At, IsWorker, Verified
<1>. QED
  BY <1>2 DEF IInv, Works

\* What a step of worker w has to show.
LEMMA StepIsSafe ==
    ASSUME IInv, NEW w \in Worker, wk' = [wk EXCEPT ![w] = wk'[w]], IsWorker(wk'[w]),
           Stored', History', Cursor', Works(w)', Known \subseteq Known',
           \A g \in Game : Nos(g) \subseteq Nos(g)',
           lease.token <= lease'.token,
           Holder(w)' => (Holder(w) /\ wk'[w].tok = wk[w].tok) \/ wk'[w].tok > lease.token,
           lease'.token # lease.token => \A v \in Worker : wk[v].pc # "insert",
           lease'.token = lease.token /\ ~Current(w) =>
               UNCHANGED <<attempts, cycle, cand>>
    PROVE  IInv'
<1>1. wk' = [v \in Worker |-> wk'[v]] /\ \A v \in Worker : v # w => wk'[v] = wk[v]
  BY DEF IInv, Working
<1>2. Working'
  BY <1>1 DEF IInv, Working
<1>3. TokensApart'
  <2>1. \A v \in Worker : Holder(v) => wk[v].tok <= lease.token /\ wk[v].tok \in Nat
    <3>1. SUFFICES ASSUME NEW v \in Worker, Holder(v)
                   PROVE  wk[v].tok <= lease.token /\ wk[v].tok \in Nat
      OBVIOUS
    <3>2. IsWorker(wk[v]) /\ Works(v)
      BY DEF IInv, Working
    <3>. QED
      BY <3>1, <3>2 DEF IsWorker, Memory, Works, InPlace
  <2>2. wk'[w].tok \in Nat /\ lease.token \in Nat
    BY DEF IsWorker, Memory, IInv, Stored
  <2>3. \A v \in Worker : v # w /\ Holder(v) /\ Holder(w)' => wk[v].tok # wk'[w].tok
    BY <2>1, <2>2 DEF IInv, TokensApart
  <2>4. \A v \in Worker : v # w => (Holder(v)' <=> Holder(v)) /\ wk'[v].tok = wk[v].tok
    BY <1>1 DEF Holder, At
  <2>. QED
    BY <1>1, <2>3, <2>4 DEF IInv, TokensApart
<1>4. ASSUME NEW v \in Worker, v # w
      PROVE  Works(v)'
  <2>1. wk'[v] = wk[v] /\ lease'.token \in Nat
    BY <1>1, <1>4 DEF Stored
  <2>2. ASSUME lease'.token = lease.token, Current(v)
        PROVE  /\ UNCHANGED <<attempts, cycle>> /\ Known \subseteq Known'
               /\ \A g \in Game : cand'[g].state = "processing" => cand[g].state = "processing"
    <3>1. ~Current(w)
      BY <1>4, <2>2, CurrentIsOne
    <3>. QED
      BY <2>2, <3>1
  <2>. QED
    BY <2>1, <2>2, OthersKeep
<1>. QED
  BY <1>2, <1>3, <1>4 DEF IInv

\* A step that writes nothing that others read, but perhaps the end of a lease or of a run.
SameButEnds ==
    /\ UNCHANGED <<cycle, cand, attempts, enrolled>>
    /\ lease' \in [token : Nat, owner : Run \cup {NoRun}, live : BOOLEAN]
    /\ lease'.live => lease'.owner # NoRun
    /\ lease'.token = lease.token
    /\ runs' = [r \in Run |-> runs'[r]]
    /\ \A r \in Run : /\ IsRun(runs'[r]) /\ runs'[r].frozen = runs[r].frozen
                      /\ runs'[r].batch = runs[r].batch

LEMMA SameKeeps ==
    ASSUME IInv, SameButEnds
    PROVE  Stored' /\ History' /\ Cursor' /\ Known' = Known /\ \A g \in Game : Nos(g)' = Nos(g)
<1>1. Stored'
  BY DEF IInv, Stored, SameButEnds
<1>2. /\ Known' = Known /\ \A g \in Game : Nos(g)' = Nos(g)
      /\ \A g \in Game : AttemptsAt(g)' = AttemptsAt(g)
  BY DEF SameButEnds, Known, Nos, AttemptsAt
<1>3. Cursor'
  BY <1>2 DEF SameButEnds, Cursor, CursorKeepsUp, IInv
<1>4. History'
  <2>1. Numbered'
    BY <1>2 DEF SameButEnds, IInv, History, Numbered
  <2>2. OpenIsBusy' /\ Granted'
    BY <1>2 DEF SameButEnds, IInv, History, OpenIsBusy, Granted
  <2>3. SuccessIsFinal' /\ OncePerRun'
    BY <1>2 DEF SameButEnds, IInv, History, SuccessIsFinal, OncePerRun, AttemptsAt
  <2>. QED
    BY <2>1, <2>2, <2>3 DEF History
<1>. QED
  BY <1>1, <1>2, <1>3, <1>4

LEMMA QuietIsSafe ==
    ASSUME IInv, NEW w \in Worker, SameButEnds,
           wk' = [wk EXCEPT ![w] = wk'[w]], IsWorker(wk'[w]), Works(w)',
           Holder(w)' => Holder(w) /\ wk'[w].tok = wk[w].tok
    PROVE  IInv'
<1>1. /\ Stored' /\ History' /\ Cursor' /\ Known \subseteq Known'
      /\ \A g \in Game : Nos(g) \subseteq Nos(g)'
  BY SameKeeps
<1>2. lease.token \in Nat /\ lease'.token = lease.token
  BY DEF IInv, Stored, SameButEnds
<1>3. UNCHANGED <<attempts, cycle, cand>>
  BY DEF SameButEnds
<1>4. lease.token <= lease'.token
  BY <1>2
<1>. QED
  BY <1>1, <1>2, <1>3, <1>4, StepIsSafe

\* A worker that gives up: it is idle, about to clean up, or about to close its run.
LEMMA LeavingIsSafe ==
    ASSUME IInv, NEW w \in Worker, SameButEnds,
           wk' = [wk EXCEPT ![w] = wk'[w]], IsWorker(wk'[w]), wk'[w].pc \in Ending \cup {"idle"},
           Holder(w)' => Holder(w) /\ wk'[w].tok = wk[w].tok
    PROVE  IInv'
<1>1. Works(w)'
  <2>1. Holder(w)' => wk'[w].tok <= lease'.token
    BY DEF IInv, Works, InPlace, SameButEnds
  <2>2. InPlace(w)'
    BY <2>1 DEF InPlace, At, Ending, Scanning
  <2>3. Holder(w)' => InCharge(w)'
    BY DEF InCharge, Holder, At, Ending, Outside, Scanning
  <2>. QED
    BY <2>2, <2>3 DEF Works, Current
<1>. QED
  BY <1>1, QuietIsSafe

-----------------------------------------------------------------------------
(* Leaving.                                                                    *)

LEMMA IdleIsWorker == IsWorker(Idle) /\ Idle.pc = "idle" /\ Idle.run = NoRun /\ Idle.batch = <<>>
<1>1. Idle.pc = "idle" /\ Idle.run = NoRun /\ Idle.batch = <<>>
  BY DEF Idle
<1>2. <<>> \in Seq(Game) /\ Len(<<>>) = 0
  OBVIOUS
<1>3. Idle \in Memory({0}, {FALSE}, {"queued"})
  BY <1>2 DEF Idle, Memory, PcValues, Phase, NoRun, NoGame
<1>4. Len(Idle.batch) <= Limit
  BY <1>1, <1>2, Bounds
<1>. QED
  BY <1>1, <1>3, <1>4 DEF IsWorker

LEMMA OnlyIsWorker ==
    ASSUME NEW w \in Worker, IsWorker(wk[w]), wk[w].pc # "idle", NEW there \in PcValues, there # "idle"
    PROVE  /\ Only(w, there) \in Memory({0}, {FALSE}, {"queued"}) /\ Only(w, there).batch = <<>>
           /\ Only(w, there).run = wk[w].run /\ wk[w].run \in Run /\ wk[w].run # NoRun
           /\ IsWorker(Only(w, there)) /\ Only(w, there).pc = there
           /\ Only(w, there).tok = wk[w].tok
<1>. DEFINE m == Only(w, there)
<1>1. wk[w].run \in Run /\ wk[w].tok \in Nat
  BY DEF IsWorker, Memory
<1>2. "no run" \notin Run
  BY Zenon, BatchAssumption
<1>3. Idle \in Memory({0}, {FALSE}, {"queued"}) /\ Idle.batch = <<>>
  <2>1. <<>> \in Seq(Game)
    OBVIOUS
  <2>. QED
    BY <2>1 DEF Idle, Memory, PcValues, Phase, NoRun, NoGame
<1>4. /\ m \in Memory({0}, {FALSE}, {"queued"}) /\ m.pc = there /\ m.run = wk[w].run
      /\ m.tok = wk[w].tok /\ m.batch = <<>>
  BY <1>1, <1>3 DEF Only, Memory
<1>. HIDE DEF m
<1>5. Len(<<>>) = 0 /\ Limit >= 0
  BY Bounds
<1>6. IsWorker(m)
  BY <1>1, <1>2, <1>4, <1>5 DEF IsWorker, NoRun
<1>. QED
  BY <1>1, <1>2, <1>4, <1>6 DEF m, NoRun

LEMMA HeldIsWorker ==
    ASSUME NEW w \in Worker, IsWorker(wk[w]), wk[w].pc # "idle", NEW left \in Seq(Game), NEW err,
           Len(left) <= Limit
    PROVE  /\ IsWorker(Held(w, left, err)) /\ Held(w, left, err).pc = "claim"
           /\ Held(w, left, err).tok = wk[w].tok /\ Held(w, left, err).run = wk[w].run
           /\ Held(w, left, err).left = left /\ Held(w, left, err).batch = left
           /\ Held(w, left, err).status = "queued"
<1>1. PICK there \in PcValues : there = "claim" /\ there # "idle"
  BY DEF PcValues, Acquired, Fenced
<1>2. PICK m : m = Only(w, there)
  OBVIOUS
<1>3. /\ m \in Memory({0}, {FALSE}, {"queued"}) /\ m.run = wk[w].run
      /\ wk[w].run # NoRun /\ m.pc = there /\ m.tok = wk[w].tok
  BY <1>1, <1>2, OnlyIsWorker
<1>. DEFINE held == [m EXCEPT !.batch = left, !.left = left, !.err = err]
<1>4. /\ held \in Memory({0}, {err}, {"queued"}) /\ held.pc = there /\ held.run = wk[w].run
      /\ held.tok = wk[w].tok /\ held.batch = left /\ held.left = left /\ held.status = "queued"
  BY <1>3 DEF Memory
<1>5. held = Held(w, left, err)
  BY <1>1, <1>2 DEF Held
<1>. HIDE DEF held
<1>6. IsWorker(held)
  BY <1>1, <1>3, <1>4 DEF IsWorker
<1>. QED
  BY <1>1, <1>4, <1>5, <1>6

LEMMA OverIsWorker ==
    ASSUME NEW w \in Worker, IsWorker(wk[w]), wk[w].pc # "idle", NEW status, NEW err
    PROVE  /\ IsWorker(Over(w, status, err)) /\ Over(w, status, err).pc = "close"
           /\ Over(w, status, err).tok = wk[w].tok /\ Over(w, status, err).batch = <<>>
           /\ Over(w, status, err).status = status
<1>1. PICK there \in PcValues : there = "close" /\ there # "idle"
  BY DEF PcValues, Acquired
<1>2. PICK m : m = Only(w, there)
  OBVIOUS
<1>3. /\ m \in Memory({0}, {FALSE}, {"queued"}) /\ m.batch = <<>> /\ m.run = wk[w].run
      /\ wk[w].run # NoRun /\ m.pc = there /\ m.tok = wk[w].tok
  BY <1>1, <1>2, OnlyIsWorker
<1>. DEFINE over == [m EXCEPT !.status = status, !.err = err]
<1>4. /\ over \in Memory({0}, {err}, {status}) /\ over.pc = there /\ over.run = wk[w].run
      /\ over.tok = wk[w].tok /\ over.batch = <<>> /\ over.status = status
  BY <1>3 DEF Memory
<1>5. over = Over(w, status, err)
  BY <1>1, <1>2 DEF Over
<1>. HIDE DEF over
<1>6. Len(<<>>) = 0 /\ Limit >= 0
  BY Bounds
<1>7. IsWorker(over)
  BY <1>1, <1>3, <1>4, <1>6 DEF IsWorker
<1>. QED
  BY <1>1, <1>4, <1>5, <1>7

LEMMA SameIsQuiet ==
    ASSUME IInv, UNCHANGED <<cycle, cand, attempts, enrolled, lease, runs>>
    PROVE  SameButEnds
BY DEF IInv, Stored, SameButEnds

LEMMA LeavesSafely ==
    ASSUME IInv, NEW w \in Worker, UNCHANGED <<cycle, cand, attempts, enrolled, lease, runs>>,
           NEW m, wk' = [wk EXCEPT ![w] = m], IsWorker(m),
           \/ m.pc = "idle"
           \/ m.pc \in Ending /\ Holder(w) /\ m.tok = wk[w].tok
    PROVE  IInv'
<1>1. wk'[w] = m
  BY DEF IInv, Working
<1>2. SameButEnds
  BY SameIsQuiet
<1>3. /\ wk' = [wk EXCEPT ![w] = wk'[w]] /\ IsWorker(wk'[w]) /\ wk'[w].pc \in Ending \cup {"idle"}
      /\ Holder(w)' => Holder(w) /\ wk'[w].tok = wk[w].tok
  BY <1>1 DEF Ending, Holder, At
<1>. QED
  BY <1>2, <1>3, LeavingIsSafe

LEMMA CrashIsSafe ==
    ASSUME IInv, NEW w \in Worker, Crash(w)
    PROVE  IInv'
BY IdleIsWorker, LeavesSafely DEF Crash, Set

LEMMA NotIdle ==
    ASSUME IInv, NEW w \in Worker
    PROVE  IsWorker(wk[w]) /\ Works(w) /\ (wk[w].pc # "idle" => wk[w].run \in Run /\ wk[w].tok \in Nat)
<1>1. IsWorker(wk[w]) /\ Works(w)
  BY DEF IInv, Working
<1>. QED
  BY <1>1 DEF IsWorker, Memory

LEMMA AbandonsSafely ==
    ASSUME IInv, NEW w \in Worker, Holder(w),
           UNCHANGED <<cycle, cand, attempts, enrolled, lease, runs>>,
           Leave(w, "abort") \/ \E status, err : Set(w, Over(w, status, err))
    PROVE  IInv'
<1>1. "abort" \in PcValues /\ "abort" \in Ending /\ "close" \in Ending /\ wk[w].pc # "idle"
  BY DEF PcValues, Acquired, Ending, Holder, At
<1>2. ASSUME Leave(w, "abort")
      PROVE  IInv'
  <2>1. IsWorker(Only(w, "abort")) /\ Only(w, "abort").pc = "abort" /\ Only(w, "abort").tok = wk[w].tok
    BY <1>1, NotIdle, OnlyIsWorker
  <2>. QED
    BY <1>1, <1>2, <2>1, LeavesSafely DEF Leave, Set
<1>3. ASSUME NEW status, NEW err, Set(w, Over(w, status, err))
      PROVE  IInv'
  <2>1. /\ IsWorker(Over(w, status, err)) /\ Over(w, status, err).pc = "close"
        /\ Over(w, status, err).tok = wk[w].tok
    BY <1>1, NotIdle, OverIsWorker
  <2>. QED
    BY <1>1, <1>3, <2>1, LeavesSafely DEF Set
<1>. QED
  BY <1>2, <1>3

LEMMA GivingUpIsSafe ==
    ASSUME IInv, NEW w \in Worker,
           \/ Fault(w) \/ InsertClashes(w) \/ FreezeClashes(w) \/ LoseLease(w) \/ Legacy(w)
           \/ FinishBatch(w) \/ (Abort(w) /\ ~Verified(w))
    PROVE  IInv'
<1>1. Holder(w)
  BY DEF Fault, InsertClashes, FreezeClashes, LoseLease, Legacy, FinishBatch, Abort, Fenced, Holder, At
<1>2. UNCHANGED <<cycle, cand, attempts, enrolled, lease, runs>>
  BY DEF Fault, InsertClashes, FreezeClashes, LoseLease, Legacy, FinishBatch, Abort
<1>3. Leave(w, "abort") \/ \E status, err : Set(w, Over(w, status, err))
  BY Zenon DEF Fault, InsertClashes, FreezeClashes, LoseLease, Legacy, FinishBatch, Abort, CutOff
<1>. QED
  BY <1>1, <1>2, <1>3, AbandonsSafely

\* What a step may do to the row of a run and keep the batch in it.
LEMMA RunsRewritten ==
    ASSUME IInv, NEW r \in Run, NEW x, NEW y,
           \/ runs' = runs
           \/ runs' = [runs EXCEPT ![r] = [runs[r] EXCEPT !.status = x]]
           \/ runs' = [runs EXCEPT ![r] = [runs[r] EXCEPT !.status = x, !.token = y]]
           \/ runs' = [runs EXCEPT ![r] = [runs[r] EXCEPT !.status = x, !.err = y]]
    PROVE  /\ runs' = [s \in Run |-> runs'[s]]
           /\ \A s \in Run : /\ IsRun(runs'[s]) /\ runs'[s].frozen = runs[s].frozen
                             /\ runs'[s].batch = runs[s].batch
<1>1. runs = [s \in Run |-> runs[s]] /\ \A s \in Run : IsRun(runs[s])
  BY DEF IInv, Stored
<1>2. CASE runs' = runs
  BY <1>1, <1>2
<1>3. ASSUME NEW d, runs' = [runs EXCEPT ![r] = d],
             \/ d = [runs[r] EXCEPT !.status = x]
             \/ d = [runs[r] EXCEPT !.status = x, !.token = y]
             \/ d = [runs[r] EXCEPT !.status = x, !.err = y]
      PROVE  /\ runs' = [s \in Run |-> runs'[s]]
             /\ \A s \in Run : /\ IsRun(runs'[s]) /\ runs'[s].frozen = runs[s].frozen
                               /\ runs'[s].batch = runs[s].batch
  <2>1. IsRun(d) /\ d.frozen = runs[r].frozen /\ d.batch = runs[r].batch
    <3>1. PICK c : c = runs[r]
      OBVIOUS
    <3>2. IsRun(c)
      BY <1>1, <3>1
    <3>3. \/ d = [c EXCEPT !.status = x]
          \/ d = [c EXCEPT !.status = x, !.token = y]
          \/ d = [c EXCEPT !.status = x, !.err = y]
      BY <1>3, <3>1
    <3>5. PICK Statuses, Tokens, Errs : c \in [status : Statuses, token : Tokens, frozen : BOOLEAN,
                                               batch : Seq(Game), err : Errs]
      BY <3>2 DEF IsRun
    <3>6. /\ \/ d \in [status : {x}, token : Tokens, frozen : BOOLEAN, batch : Seq(Game), err : Errs]
             \/ d \in [status : {x}, token : {y}, frozen : BOOLEAN, batch : Seq(Game), err : Errs]
             \/ d \in [status : {x}, token : Tokens, frozen : BOOLEAN, batch : Seq(Game), err : {y}]
          /\ d.frozen = c.frozen /\ d.batch = c.batch
      BY <3>3, <3>5
    <3>7. Len(c.batch) <= Limit
      BY <3>2 DEF IsRun
    <3>4. IsRun(d) /\ d.frozen = c.frozen /\ d.batch = c.batch
      BY <3>6, <3>7 DEF IsRun
    <3>. QED
      BY <3>1, <3>4
  <2>5. runs' = [runs EXCEPT ![r] = d]
    BY Zenon, <1>3
  <2>6. runs = [s \in Run |-> runs[s]]
    BY Zenon, <1>1
  <2>2. runs'[r] = d /\ \A s \in Run : s # r => runs'[s] = runs[s]
    BY ONLY <2>5, <2>6, r \in Run
  <2>3. runs' = [s \in Run |-> runs'[s]]
    BY ONLY <2>5, <2>6, r \in Run
  <2>4. ASSUME NEW s \in Run
        PROVE  IsRun(runs'[s]) /\ runs'[s].frozen = runs[s].frozen /\ runs'[s].batch = runs[s].batch
    <3>1. CASE s = r
      BY <2>1, <2>2, <3>1
    <3>2. CASE s # r
      BY <1>1, <2>2, <3>2
    <3>. QED
      BY <3>1, <3>2
  <2>. QED
    BY <2>3, <2>4
<1>. QED
  BY <1>2, <1>3

LEMMA CloseIsSafe ==
    ASSUME IInv, NEW w \in Worker, Close(w)
    PROVE  IInv'
<1>1. PICK r \in Run : r = wk[w].run
  BY NotIdle DEF Close, At
<1>2. wk' = [wk EXCEPT ![w] = Idle] /\ wk'[w] = Idle
  BY DEF Close, Set, IInv, Working
<1>3. /\ lease' \in [token : Nat, owner : Run \cup {NoRun}, live : BOOLEAN]
      /\ lease'.live => lease'.owner # NoRun
      /\ lease'.token = lease.token
  BY DEF Close, IInv, Stored
<1>4. PICK status, err :
         \/ runs' = runs
         \/ runs' = [runs EXCEPT ![r] = [runs[r] EXCEPT !.status = status, !.err = err]]
  BY <1>1 DEF Close, IInv, Stored
<1>5. /\ runs' = [s \in Run |-> runs'[s]]
      /\ \A s \in Run : /\ IsRun(runs'[s]) /\ runs'[s].frozen = runs[s].frozen
                        /\ runs'[s].batch = runs[s].batch
  BY <1>4, RunsRewritten
<1>6. SameButEnds
  BY <1>3, <1>5 DEF SameButEnds, Close
<1>7. ~Holder(w)'
  BY <1>2, IdleIsWorker DEF Holder, At
<1>. QED
  BY <1>2, <1>6, <1>7, IdleIsWorker, LeavingIsSafe DEF Ending

-----------------------------------------------------------------------------
(* Steps that only move a worker on.                                           *)

LEMMA MovesSafely ==
    ASSUME IInv, NEW w \in Worker, UNCHANGED <<cycle, cand, attempts, enrolled, lease, runs>>,
           NEW m, wk' = [wk EXCEPT ![w] = m], IsWorker(m), m.run = wk[w].run, m.tok = wk[w].tok,
           wk[w].pc \notin Outside \cup {"idle", "fetch"}, m.pc \notin {"idle", "acquire", "fetch"},
           m.pc = "insert" =>
               /\ m.tok = lease.token /\ m.phase # "exhausted"
               /\ m.phase = "browse" =>
                     Range(Pages[m.page]) \ Excluded \subseteq Known \cup Range(m.fresh),
           m.pc \in Scanning => wk[w].pc \in Scanning /\ m.phase = wk[w].phase /\ m.page = wk[w].page,
           m.pc = "releases" => m.phase = "new_releases_pending",
           m.pc = "browse" => m.phase = "browse"
    PROVE  IInv'
<1>1. wk'[w] = m
  BY DEF IInv, Working
<1>2. SameButEnds
  BY SameIsQuiet
<1>3. Works(w) /\ Known' = Known
  BY DEF IInv, Known
<1>4. InPlace(w)'
  <2>1. m.tok <= lease.token
    BY <1>3 DEF Works, InPlace, Holder, Outside, At
  <2>2. m.pc \in Scanning => Stands(m.phase, m.page)
    BY <1>3 DEF Works, InPlace
  <2>. QED
    BY <1>1, <2>1, <2>2 DEF InPlace, At
<1>5. ASSUME Current(w)'
      PROVE  InCharge(w)'
  <2>1. Current(w) /\ InCharge(w)
    BY <1>1, <1>3, <1>5 DEF Works, Current, Holder, Outside, At
  <2>2. \A a \in attempts : ~(IsOpen(a) /\ a.token = m.tok)
    BY <2>1 DEF InCharge, MyAttempt, Outside, Ending, At
  <2>3. \A g \in Game : cand[g].state # "processing"
    BY <2>1 DEF InCharge, At
  <2>4. m.pc \in Scanning => m.phase = cycle.phase /\ m.page = cycle.page
    BY <2>1 DEF InCharge
  <2>. QED
    BY <1>1, <1>3, <2>2, <2>3, <2>4 DEF InCharge, At
<1>6. Works(w)' /\ Holder(w)
  BY <1>4, <1>5 DEF Works, Holder, Outside, At
<1>. QED
  BY <1>1, <1>2, <1>6, QuietIsSafe

LEMMA ListingFailsIsSafe ==
    ASSUME IInv, NEW w \in Worker, ListingFails(w)
    PROVE  IInv'
<1>. DEFINE m == [wk[w] EXCEPT !.pc = "freeze", !.err = TRUE]
<1>1. IsWorker(wk[w]) /\ Works(w) /\ wk[w].pc \in {"releases", "browse"}
  BY NotIdle DEF ListingFails, At
<1>2. PICK Orders, Errs, Statuses : wk[w] \in Memory(Orders, Errs, Statuses)
  BY <1>1 DEF IsWorker
<1>3. /\ m \in Memory(Orders, {TRUE}, Statuses) /\ m.pc = "freeze" /\ m.run = wk[w].run
      /\ m.tok = wk[w].tok /\ m.batch = wk[w].batch
  BY <1>2 DEF Memory, PcValues, Acquired, Fenced
<1>4. wk' = [wk EXCEPT ![w] = m]
  BY DEF ListingFails, Set
<1>. HIDE DEF m
<1>5. IsWorker(m)
  BY <1>1, <1>3 DEF IsWorker
<1>7. UNCHANGED <<cycle, cand, attempts, enrolled, lease, runs>>
  BY DEF ListingFails
<1>8. wk[w].pc \notin Outside \cup {"idle", "fetch"}
  BY <1>1 DEF Outside
<1>9. m.pc \notin Scanning
  BY <1>3 DEF Scanning
<1>. QED
  BY <1>3, <1>4, <1>5, <1>7, <1>8, <1>9, MovesSafely

LEMMA SkipIsSafe ==
    ASSUME IInv, NEW w \in Worker, Skip(w)
    PROVE  IInv'
<1>. DEFINE m == [wk[w] EXCEPT !.left = Tail(@)]
<1>1. IsWorker(wk[w]) /\ wk[w].pc = "claim" /\ wk[w].left # <<>>
  BY NotIdle DEF Skip, At
<1>2. PICK Orders, Errs, Statuses : wk[w] \in Memory(Orders, Errs, Statuses)
  BY <1>1 DEF IsWorker
<1>3. Tail(wk[w].left) \in Seq(Game)
  BY <1>1, <1>2 DEF Memory
<1>4. /\ m \in Memory(Orders, Errs, Statuses) /\ m.pc = "claim" /\ m.run = wk[w].run
      /\ m.tok = wk[w].tok /\ m.batch = wk[w].batch
  BY <1>1, <1>2, <1>3 DEF Memory
<1>5. wk' = [wk EXCEPT ![w] = m]
  BY DEF Skip, Set
<1>. HIDE DEF m
<1>6. IsWorker(m)
  BY <1>1, <1>4 DEF IsWorker
<1>7. UNCHANGED <<cycle, cand, attempts, enrolled, lease, runs>>
  BY DEF Skip
<1>8. /\ wk[w].pc \notin Outside \cup {"idle", "fetch"}
      /\ m.pc \notin Scanning
  BY <1>1, <1>4 DEF Outside, Scanning
<1>. QED
  BY <1>4, <1>5, <1>6, <1>7, <1>8, MovesSafely

LEMMA TakeUpIsSafe ==
    ASSUME IInv, NEW w \in Worker, TakeUp(w)
    PROVE  IInv'
<1>1. PICK r \in Run : r = wk[w].run /\ IsWorker(wk[w]) /\ wk[w].pc = "select" /\ IsRun(runs[r])
  BY NotIdle DEF TakeUp, At, IInv, Stored
<1>2. /\ UNCHANGED <<cycle, cand, attempts, enrolled, lease, runs>>
      /\ wk[w].pc \notin Outside \cup {"idle", "fetch"}
  BY <1>1 DEF TakeUp, Outside
<1>3. runs[r].batch \in Seq(Game) /\ Len(runs[r].batch) <= Limit
  BY <1>1 DEF IsRun
<1>4. PICK m : m = Held(w, runs[r].batch, wk[w].err)
  OBVIOUS
<1>5. IsWorker(m) /\ m.pc = "claim" /\ m.tok = wk[w].tok /\ m.run = wk[w].run
  BY <1>1, <1>3, <1>4, HeldIsWorker
<1>6. wk' = [wk EXCEPT ![w] = m]
  BY <1>1, <1>4 DEF TakeUp, Set
<1>7. m.pc \notin Scanning
  BY <1>5 DEF Scanning
<1>. QED
  BY <1>2, <1>5, <1>6, <1>7, MovesSafely

LEMMA SelectIsSafe ==
    ASSUME IInv, NEW w \in Worker, Select(w)
    PROVE  IInv'
<1>1. IsWorker(wk[w]) /\ wk[w].pc = "select"
  BY NotIdle DEF Select, At
<1>2. /\ UNCHANGED <<cycle, cand, attempts, enrolled, lease, runs>>
      /\ wk[w].pc \notin Outside \cup {"idle", "fetch"}
  BY <1>1 DEF Select, Outside
<1>4. ASSUME NEW waiting \in Ordered(Waiting, [g \in Game |-> cand[g].order]),
             Set(w, [wk[w] EXCEPT !.batch = Prefix(waiting, Limit),
                                  !.pc = IF Len(waiting) < Limit THEN Discovery(wk[w].phase)
                                         ELSE "freeze"])
      PROVE  IInv'
  <2>1. PICK place : waiting \in Ordered(Waiting, place)
    BY <1>4
  <2>2. waiting \in Seq(Game)
    <3>1. Waiting \subseteq Game /\ IsFiniteSet(Game)
      BY BatchAssumption DEF Waiting
    <3>2. waiting \in Seq(Waiting)
      BY <2>1, <3>1, FS_Subset, OrderedHasAll
    <3>. QED
      BY <3>1, <3>2
  <2>3. PICK batch : batch = Prefix(waiting, Limit)
    OBVIOUS
  <2>4. batch \in Seq(Game) /\ Len(batch) <= Limit
    <3>1. Limit \in Int /\ Limit >= 0
      BY Bounds
    <3>. QED
      BY <2>2, <2>3, <3>1, PrefixOfSeq
  <2>5. PICK there : there = IF Len(waiting) < Limit THEN Discovery(wk[w].phase) ELSE "freeze"
    OBVIOUS
  <2>6. PICK Orders, Errs, Statuses : wk[w] \in Memory(Orders, Errs, Statuses)
    BY <1>1 DEF IsWorker
  <2>7. /\ there \in {"releases", "browse", "freeze"}
        /\ there = "releases" => wk[w].phase = "new_releases_pending"
        /\ there = "browse" => wk[w].phase = "browse"
    <3>1. wk[w].phase \in Phase
      BY <2>6 DEF Memory
    <3>. QED
      BY <2>5, <3>1 DEF Phase, Discovery
  <2>. DEFINE m == [wk[w] EXCEPT !.batch = batch, !.pc = there]
  <2>8. /\ m \in Memory(Orders, Errs, Statuses) /\ m.pc = there /\ m.run = wk[w].run
        /\ m.tok = wk[w].tok /\ m.batch = batch /\ m.phase = wk[w].phase /\ m.page = wk[w].page
    BY <2>4, <2>6, <2>7 DEF Memory, PcValues, Acquired, Fenced
  <2>9. wk' = [wk EXCEPT ![w] = m]
    BY <1>4, <2>3, <2>5 DEF Set
  <2>. HIDE DEF m
  <2>10. IsWorker(m)
    <3>1. m.run # NoRun /\ m.pc # "idle"
      BY <1>1, <2>7, <2>8 DEF IsWorker
    <3>. QED
      BY <2>4, <2>8, <3>1 DEF IsWorker
  <2>11. wk[w].pc \in Scanning
    BY <1>1 DEF Scanning
  <2>. QED
    BY <1>2, <2>7, <2>8, <2>9, <2>10, <2>11, MovesSafely
<1>. QED
  BY Zenon, <1>4 DEF Select

LEMMA ReadListingIsSafe ==
    ASSUME IInv, NEW w \in Worker, ReadListing(w)
    PROVE  IInv'
<1>1. IsWorker(wk[w]) /\ Works(w) /\ wk[w].pc \in {"releases", "browse"} /\ wk[w].run \in Run
  BY NotIdle DEF ReadListing, At
<1>2. /\ UNCHANGED <<cycle, cand, attempts, enrolled, lease, runs>>
      /\ wk[w].pc \notin Outside \cup {"idle", "fetch"}
  BY <1>1 DEF ReadListing, Outside
<1>3. Current(w) /\ InCharge(w)
  BY VerifiedIsCurrent DEF ReadListing, At
<1>4. PICK fresh \in Unknown(Listing(w)) :
           Set(w, [wk[w] EXCEPT !.pc = "insert", !.fresh = fresh, !.order = NextOrder])
  BY DEF ReadListing
<1>5. PICK Orders, Errs, Statuses : wk[w] \in Memory(Orders, Errs, Statuses)
  BY <1>1 DEF IsWorker
<1>6. /\ wk[w].pc = "browse" => wk[w].phase = "browse" /\ wk[w].page \in DOMAIN Pages
      /\ wk[w].pc = "releases" => wk[w].phase = "new_releases_pending"
  BY <1>1 DEF Works, InPlace, At, Scanning, Stands
<1>7. Listing(w) \in Seq(Game) /\ (wk[w].phase = "browse" => Listing(w) = Pages[wk[w].page])
  <2>1. NewReleases \in Seq(Game) /\ Pages \in Seq(Seq(Game))
    BY Zenon, BatchAssumption
  <2>2. CASE wk[w].pc = "releases"
    BY <1>6, <2>1, <2>2 DEF Listing, At
  <2>3. CASE wk[w].pc = "browse"
    BY <1>6, <2>1, <2>3 DEF Listing, At
  <2>. QED
    BY <1>1, <2>2, <2>3
<1>8. fresh \in Seq(Game) /\ Range(fresh) = Range(Listing(w)) \ (Known \cup Excluded)
  <2>. DEFINE S == Range(Listing(w)) \ (Known \cup Excluded)
  <2>1. PICK place : fresh \in Ordered(S, place)
    BY <1>4 DEF Unknown
  <2>2. Range(Listing(w)) \subseteq Game /\ IsFiniteSet(Range(Listing(w)))
    BY <1>7, ElementsOfSeq
  <2>3. S \subseteq Game /\ IsFiniteSet(S)
    BY <2>2, FS_Subset
  <2>. HIDE DEF S
  <2>4. fresh \in Seq(S) /\ Range(fresh) = S
    BY <2>1, <2>3, OrderedHasAll
  <2>5. fresh \in Seq(Game)
    BY <2>3, <2>4
  <2>. QED
    BY <2>4, <2>5 DEF S
<1>9. PICK order : order = NextOrder
  OBVIOUS
<1>. DEFINE m == [wk[w] EXCEPT !.pc = "insert", !.fresh = fresh, !.order = order]
<1>10. /\ m \in Memory({order}, Errs, Statuses) /\ m.pc = "insert" /\ m.run = wk[w].run
       /\ m.tok = wk[w].tok /\ m.batch = wk[w].batch /\ m.phase = wk[w].phase
       /\ m.page = wk[w].page /\ m.fresh = fresh
  BY <1>5, <1>8 DEF Memory, PcValues, Acquired
<1>11. wk' = [wk EXCEPT ![w] = m]
  BY <1>4, <1>9 DEF Set
<1>. HIDE DEF m
<1>12. IsWorker(m)
  <2>1. wk[w].run # NoRun /\ Len(m.batch) <= Limit
    BY <1>1, <1>10 DEF IsWorker
  <2>. QED
    BY <1>10, <2>1 DEF IsWorker
<1>13. m.tok = lease.token
  BY <1>3, <1>10 DEF Current
<1>14. m.phase # "exhausted"
  BY <1>1, <1>6, <1>10
<1>15. m.phase = "browse" => Range(Pages[m.page]) \ Excluded \subseteq Known \cup Range(m.fresh)
  BY <1>7, <1>8, <1>10
<1>16. wk[w].pc \in Scanning
  BY <1>1 DEF Scanning
<1>. QED
  BY <1>2, <1>10, <1>11, <1>12, <1>13, <1>14, <1>15, <1>16, MovesSafely

-----------------------------------------------------------------------------
(* Steps that write.                                                           *)

LEMMA CursorKeeps ==
    ASSUME Cursor, UNCHANGED cycle, Known \subseteq Known'
    PROVE  Cursor'
BY DEF Cursor, CursorKeepsUp

LEMMA HistoryKeeps ==
    ASSUME Stored, History, UNCHANGED attempts, enrolled \subseteq enrolled',
           lease.token <= lease'.token, lease'.token \in Nat,
           \A g \in Game, n \in Nat : Nos(g) = 1..n /\ cand[g].count <= n => cand'[g].count <= n,
           \A g \in Game : cand[g].state = "processed" => cand'[g].state = "processed",
           \A g \in Game : cand[g].state = "processing" => cand'[g].state \in {"processing", "processed"}
    PROVE  History'
<1>1. PICK as : as = {}
  OBVIOUS
<1>2. PICK outcome \in Outcome : outcome = "failed"
  BY DEF Outcome
<1>3. as \subseteq attempts /\ (\A a \in as : IsOpen(a)) /\ outcome # "open" /\ outcome # "succeeded"
  BY <1>1, <1>2
<1>4. attempts' = Closes(as, outcome)
  BY <1>1 DEF Closes
<1>5. \A a \in attempts : a.game \in Game
  BY DEF Stored, Attempt
<1>6. \A a \in attempts : a.outcome = "succeeded" => cand'[a.game].state = "processed"
  BY <1>5 DEF History, SuccessIsFinal
<1>7. \A a \in attempts : IsOpen(a) /\ a \notin as =>
          cand'[a.game].state \in {"processing", "processed"}
  BY <1>5 DEF History, OpenIsBusy
<1>. QED
  BY <1>3, <1>4, <1>6, <1>7, ClosingIsSafe

LEMMA GrantIsSafe ==
    ASSUME IInv, NEW w \in Worker, NEW r \in Run, Grant(r), \A v \in Worker : wk[v].pc # "insert",
           UNCHANGED <<cycle, cand, attempts, enrolled>>,
           runs' = [s \in Run |-> runs'[s]], \A s \in Run : IsRun(runs'[s]),
           NEW m, wk' = [wk EXCEPT ![w] = m], IsWorker(m), m.pc \in {"mark", "recover"},
           m.tok = lease.token + 1
    PROVE  IInv'
<1>1. lease.token \in Nat /\ wk'[w] = m
  BY DEF IInv, Stored, Working
<1>2. lease' \in [token : Nat, owner : Run \cup {NoRun}, live : BOOLEAN] /\ lease'.owner # NoRun
      /\ lease'.token = lease.token + 1
  <2>1. "no run" \notin Run
    BY Zenon, BatchAssumption
  <2>2. PICK tok \in Nat : tok = lease.token + 1
    BY <1>1
  <2>3. lease' = [token |-> tok, owner |-> r, live |-> TRUE]
    BY <2>2 DEF Grant
  <2>. QED
    BY <2>1, <2>2, <2>3 DEF NoRun
<1>3. Stored'
  BY <1>2 DEF IInv, Stored
<1>4. lease'.token \in Nat /\ lease.token <= lease'.token /\ lease'.token # lease.token
  BY <1>1, <1>2
<1>5. Known' = Known /\ \A g \in Game : Nos(g)' = Nos(g)
  BY DEF Known, Nos, AttemptsAt
<1>6. History'
  BY <1>4, HistoryKeeps DEF IInv
<1>7. Cursor'
  BY <1>5, CursorKeeps DEF IInv
<1>8. Works(w)'
  <2>1. m.tok <= lease'.token
    BY <1>1, <1>2
  <2>2. InPlace(w)'
    BY <1>1, <2>1 DEF InPlace, At, Scanning
  <2>3. \A a \in attempts : a.token \in Nat /\ a.token <= lease.token
    BY DEF IInv, Stored, Attempt, History, Granted
  <2>4. \A a \in attempts' : a.token # m.tok
    BY <1>1, <2>3
  <2>5. InCharge(w)'
    BY <1>1, <2>4 DEF InCharge, At, Scanning, Outside
  <2>. QED
    BY <2>2, <2>5 DEF Works
<1>9. wk'[w].tok > lease.token
  BY <1>1
<1>. QED
  BY <1>1, <1>3, <1>4, <1>5, <1>6, <1>7, <1>8, <1>9, StepIsSafe

LEMMA AcquireIsSafe ==
    ASSUME IInv, NEW w \in Worker, Acquire(w)
    PROVE  IInv'
<1>1. PICK r \in Run : r = wk[w].run /\ IsWorker(wk[w]) /\ wk[w].pc = "acquire"
  BY NotIdle DEF Acquire, At
<1>2. PICK tok \in Nat : tok = lease.token + 1
  BY DEF IInv, Stored
<1>3. PICK Orders, Errs, Statuses : wk[w] \in Memory(Orders, Errs, Statuses)
  BY <1>1 DEF IsWorker
<1>. DEFINE m == [wk[w] EXCEPT !.pc = "mark", !.tok = tok]
<1>4. /\ m \in Memory(Orders, Errs, Statuses) /\ m.pc = "mark" /\ m.run = wk[w].run
      /\ m.tok = tok /\ m.batch = wk[w].batch
  BY <1>3 DEF Memory, PcValues
<1>5. wk' = [wk EXCEPT ![w] = m]
  BY <1>2 DEF Acquire, Set
<1>. HIDE DEF m
<1>6. IsWorker(m)
  BY <1>1, <1>4 DEF IsWorker
<1>7. /\ Grant(r) /\ \A v \in Worker : wk[v].pc # "insert"
      /\ UNCHANGED <<cycle, cand, attempts, enrolled, runs>>
  BY <1>1 DEF Acquire, LeaseFree, At
<1>8. runs' = [s \in Run |-> runs'[s]] /\ \A s \in Run : IsRun(runs'[s])
  BY <1>7 DEF IInv, Stored
<1>. QED
  BY <1>2, <1>4, <1>5, <1>6, <1>7, <1>8, GrantIsSafe

LEMMA ResumeIsSafe ==
    ASSUME IInv, NEW w \in Worker, NEW r \in Run, Resume(w, r)
    PROVE  IInv'
<1>1. PICK tok \in Nat : tok = lease.token + 1
  BY DEF IInv, Stored
<1>2. PICK frozen, err : frozen = runs[r].frozen /\ err = runs[r].err
  OBVIOUS
<1>3. frozen \in BOOLEAN /\ r # NoRun
  <2>1. "no run" \notin Run
    BY Zenon, BatchAssumption
  <2>. QED
    BY <1>2, <2>1 DEF IInv, Stored, IsRun, NoRun
<1>. DEFINE m == [Idle EXCEPT !.pc = "recover", !.run = r, !.tok = tok, !.frozen = frozen, !.err = err]
<1>4. m \in Memory({0}, {err}, {"queued"}) /\ m.pc = "recover" /\ m.run = r /\ m.tok = tok
      /\ m.batch = <<>>
  <2>1. Idle \in Memory({0}, {FALSE}, {"queued"}) /\ Idle.batch = <<>>
    <3>1. <<>> \in Seq(Game)
      OBVIOUS
    <3>. QED
      BY <3>1 DEF Idle, Memory, PcValues, Phase, NoRun, NoGame
  <2>. QED
    BY <1>3, <2>1 DEF Memory, PcValues, Acquired, Fenced
<1>5. wk' = [wk EXCEPT ![w] = m]
  BY <1>1, <1>2 DEF Resume, Set
<1>. HIDE DEF m
<1>6. Len(<<>>) = 0 /\ Limit >= 0
  BY Bounds
<1>7. IsWorker(m)
  BY <1>3, <1>4, <1>6 DEF IsWorker
<1>8. /\ Grant(r) /\ \A v \in Worker : wk[v].pc # "insert"
      /\ UNCHANGED <<cycle, cand, attempts, enrolled>>
  BY DEF Resume, LeaseFree, At
<1>9. runs' = [runs EXCEPT ![r] = [runs[r] EXCEPT !.status = "running", !.token = lease.token + 1]]
  BY DEF Resume, IInv, Stored
<1>10. runs' = [s \in Run |-> runs'[s]] /\ \A s \in Run : IsRun(runs'[s])
  BY <1>9, RunsRewritten
<1>. QED
  BY <1>1, <1>4, <1>5, <1>7, <1>8, <1>10, GrantIsSafe

LEMMA BeginIsSafe ==
    ASSUME IInv, NEW w \in Worker, NEW r \in Run, Begin(w, r)
    PROVE  IInv'
<1>1. r # NoRun
  BY Zenon, BatchAssumption DEF NoRun
<1>. DEFINE m == [Idle EXCEPT !.pc = "acquire", !.run = r]
<1>2. m \in Memory({0}, {FALSE}, {"queued"}) /\ m.pc = "acquire" /\ m.run = r /\ m.batch = <<>>
  <2>1. Idle \in Memory({0}, {FALSE}, {"queued"}) /\ Idle.batch = <<>>
    <3>1. <<>> \in Seq(Game)
      OBVIOUS
    <3>. QED
      BY <3>1 DEF Idle, Memory, PcValues, Phase, NoRun, NoGame
  <2>. QED
    BY <2>1 DEF Memory, PcValues
<1>3. wk' = [wk EXCEPT ![w] = m]
  BY DEF Begin, Set
<1>. HIDE DEF m
<1>4. Len(<<>>) = 0 /\ Limit >= 0
  BY Bounds
<1>5. IsWorker(m) /\ wk'[w] = m
  BY <1>1, <1>2, <1>3, <1>4 DEF IsWorker, IInv, Working
<1>6. SameButEnds
  BY SameIsQuiet DEF Begin
<1>7. ~Holder(w)'
  BY <1>2, <1>5 DEF Holder, At
<1>8. Works(w)'
  BY <1>2, <1>5, <1>7 DEF Works, Current, InPlace, At, Scanning
<1>. QED
  BY <1>3, <1>5, <1>6, <1>7, <1>8, QuietIsSafe

LEMMA OverlapIsSafe ==
    ASSUME IInv, NEW w \in Worker, Overlap(w)
    PROVE  IInv'
<1>1. PICK r \in Run : r = wk[w].run
  BY NotIdle DEF Overlap, At
<1>2. wk' = [wk EXCEPT ![w] = Idle] /\ wk'[w] = Idle
  BY DEF Overlap, Set, IInv, Working
<1>3. \/ runs' = runs
      \/ runs' = [runs EXCEPT ![r] = [runs[r] EXCEPT !.status = "skipped"]]
  BY <1>1 DEF Overlap, IInv, Stored
<1>4. /\ runs' = [s \in Run |-> runs'[s]]
      /\ \A s \in Run : /\ IsRun(runs'[s]) /\ runs'[s].frozen = runs[s].frozen
                        /\ runs'[s].batch = runs[s].batch
  BY <1>3, RunsRewritten
<1>5. SameButEnds
  BY <1>4 DEF SameButEnds, Overlap, IInv, Stored
<1>6. ~Holder(w)'
  BY <1>2, IdleIsWorker DEF Holder, At
<1>. QED
  BY <1>2, <1>5, <1>6, IdleIsWorker, LeavingIsSafe DEF Ending

LEMMA MarkIsSafe ==
    ASSUME IInv, NEW w \in Worker, MarkRunning(w)
    PROVE  IInv'
<1>1. PICK r \in Run : r = wk[w].run /\ IsWorker(wk[w]) /\ Works(w) /\ wk[w].pc = "mark"
  BY NotIdle DEF MarkRunning, At
<1>2. PICK Orders, Errs, Statuses : wk[w] \in Memory(Orders, Errs, Statuses)
  BY <1>1 DEF IsWorker
<1>. DEFINE m == [wk[w] EXCEPT !.pc = "recover"]
<1>3. /\ m \in Memory(Orders, Errs, Statuses) /\ m.pc = "recover" /\ m.run = wk[w].run
      /\ m.tok = wk[w].tok /\ m.batch = wk[w].batch
  BY <1>2 DEF Memory, PcValues, Acquired, Fenced
<1>4. wk' = [wk EXCEPT ![w] = m]
  BY DEF MarkRunning, Set
<1>. HIDE DEF m
<1>5. IsWorker(m) /\ wk'[w] = m
  BY <1>1, <1>3, <1>4 DEF IsWorker, IInv, Working
<1>6. runs' = [runs EXCEPT ![r] = [runs[r] EXCEPT !.status = "running", !.token = wk[w].tok]]
  BY <1>1 DEF MarkRunning, IInv, Stored
<1>7. /\ runs' = [s \in Run |-> runs'[s]]
      /\ \A s \in Run : /\ IsRun(runs'[s]) /\ runs'[s].frozen = runs[s].frozen
                        /\ runs'[s].batch = runs[s].batch
  BY <1>6, RunsRewritten
<1>8. SameButEnds
  BY <1>7 DEF SameButEnds, MarkRunning, IInv, Stored
<1>9. UNCHANGED <<attempts, cycle, cand, lease>>
  BY DEF MarkRunning
<1>10. Works(w)'
  <2>1. m.tok <= lease.token
    BY <1>1, <1>3 DEF Works, InPlace, Holder, At
  <2>2. InPlace(w)'
    BY <1>3, <1>5, <1>9, <2>1 DEF InPlace, At, Scanning
  <2>3. ASSUME Current(w)'
        PROVE  InCharge(w)'
    <3>1. Current(w)
      BY <1>1, <1>3, <1>5, <1>9, <2>3 DEF Current, Holder, At
    <3>2. \A a \in attempts : ~(IsOpen(a) /\ a.token = m.tok)
      BY <1>1, <1>3, <3>1 DEF Works, InCharge, MyAttempt, Ending, At
    <3>. QED
      BY <1>3, <1>5, <1>9, <3>2 DEF InCharge, At, Scanning, Outside
  <2>. QED
    BY <2>2, <2>3 DEF Works
<1>11. Holder(w) /\ wk'[w].tok = wk[w].tok
  BY <1>1, <1>3, <1>5 DEF Holder, At
<1>. QED
  BY <1>4, <1>5, <1>8, <1>10, <1>11, QuietIsSafe

LEMMA FreezeIsSafe ==
    ASSUME IInv, NEW w \in Worker, Freeze(w)
    PROVE  IInv'
<1>. DEFINE r == wk[w].run
<1>1. IsWorker(wk[w]) /\ wk[w].pc = "freeze" /\ r \in Run /\ IsRun(runs[r])
  BY NotIdle DEF Freeze, At, IInv, Stored
<1>2. Current(w) /\ InCharge(w)
  BY VerifiedIsCurrent DEF Freeze, At
<1>3. UNCHANGED <<lease, cycle, cand, attempts, enrolled>>
  BY DEF Freeze
<1>4. wk[w].batch \in Seq(Game) /\ Len(wk[w].batch) <= Limit
  BY <1>1 DEF IsWorker, Memory
<1>5. PICK m : m = Held(w, wk[w].batch, wk[w].err)
  OBVIOUS
<1>6. IsWorker(m) /\ m.pc = "claim" /\ m.tok = wk[w].tok /\ m.run = r
  BY <1>1, <1>4, <1>5, HeldIsWorker
<1>7. wk' = [wk EXCEPT ![w] = m] /\ wk'[w] = m
  BY <1>5 DEF Freeze, Set, Held, IInv, Working
<1>8. PICK d : d = [runs[r] EXCEPT !.frozen = TRUE, !.batch = @ \o wk[w].batch, !.err = wk[w].err]
  OBVIOUS
<1>9. IsRun(d)
  <2>3. PICK batch : batch = runs[r].batch \o wk[w].batch
    OBVIOUS
  <2>4. batch \in Seq(Game) /\ Len(batch) <= Limit
    <3>1. runs[r].batch \in Seq(Game) /\ Len(runs[r].batch) <= Limit
      BY <1>1 DEF IsRun
    <3>2. wk[w].batch = <<>> \/ runs[r].batch = <<>>
      BY DEF Freeze, Clashes
    <3>3. CASE wk[w].batch = <<>>
      <4>1. batch = runs[r].batch
        BY <2>3, <3>1, <3>3
      <4>. QED
        BY <3>1, <4>1
    <3>4. CASE runs[r].batch = <<>>
      <4>1. batch = wk[w].batch
        BY <1>4, <2>3, <3>4
      <4>. QED
        BY <1>4, <4>1
    <3>. QED
      BY <3>2, <3>3, <3>4
  <2>1. PICK Statuses, Tokens, Errs : runs[r] \in [status : Statuses, token : Tokens, frozen : BOOLEAN,
                                                   batch : Seq(Game), err : Errs]
    BY <1>1 DEF IsRun
  <2>2. /\ d \in [status : Statuses, token : Tokens, frozen : BOOLEAN, batch : Seq(Game),
                  err : {wk[w].err}]
        /\ d.batch = batch
    BY <1>8, <2>1, <2>3, <2>4
  <2>. QED
    BY <2>2, <2>4 DEF IsRun
<1>10. runs = [s \in Run |-> runs[s]] /\ \A s \in Run : IsRun(runs[s])
  BY DEF IInv, Stored
<1>11. runs' = [runs EXCEPT ![r] = d]
  BY <1>1, <1>8, <1>10 DEF Freeze
<1>. HIDE DEF r
<1>12. runs' = [s \in Run |-> runs'[s]] /\ \A s \in Run : IsRun(runs'[s])
  BY <1>1, <1>9, <1>10, <1>11
<1>13. Stored'
  BY <1>3, <1>12 DEF IInv, Stored
<1>14. Known' = Known /\ (\A g \in Game : Nos(g)' = Nos(g)) /\ lease.token \in Nat
  BY <1>3 DEF Known, Nos, AttemptsAt, IInv, Stored
<1>15. History' /\ lease.token <= lease'.token
  BY <1>3, <1>14, HistoryKeeps DEF IInv
<1>16. Cursor'
  BY <1>3, <1>14, CursorKeeps DEF IInv
<1>17. Works(w)'
  <2>1. InPlace(w)'
    BY <1>2, <1>3, <1>6, <1>7, <1>14 DEF InPlace, At, Scanning, Current
  <2>2. \A a \in attempts : ~(IsOpen(a) /\ a.token = m.tok)
    BY <1>1, <1>2, <1>6 DEF InCharge, MyAttempt, At, Ending
  <2>3. \A g \in Game : cand[g].state # "processing"
    BY <1>1, <1>2 DEF InCharge, At, Outside
  <2>4. InCharge(w)'
    BY <1>3, <1>6, <1>7, <2>2, <2>3 DEF InCharge, At, Scanning
  <2>. QED
    BY <2>1, <2>4 DEF Works
<1>18. Holder(w) /\ wk'[w].tok = wk[w].tok
  BY <1>2, <1>6, <1>7 DEF Current
<1>. QED
  BY <1>2, <1>3, <1>6, <1>7, <1>13, <1>14, <1>15, <1>16, <1>17, <1>18, StepIsSafe

LEMMA RecoveredIs ==
    ASSUME IInv, NEW g \in Game, NEW interrupted, g \in interrupted => cand[g].state = "processing"
    PROVE  LET d == Recovered(g, interrupted) IN
           /\ IsCandidate(d)
           /\ \A n \in Nat : Nos(g) = 1..n /\ cand[g].count <= n => d.count <= n
           /\ d.state = "processing" <=> cand[g].state = "processing" /\ g \notin interrupted
           /\ cand[g].state = "processed" => d.state = "processed"
           /\ cand[g].state # "absent" => d.state # "absent"
<1>1. PICK n \in 0..MaxAttempts : Nos(g) = 1..n /\ cand[g].count <= n
  BY DEF IInv, History, Numbered
<1>2. n \in Nat /\ LastNo(g) = n
  <2>1. n \in Nat
    OBVIOUS
  <2>. QED
    BY <1>1, <2>1, LastIsLength
<1>3. PICK Orders : cand[g] \in [state : State, order : Orders, count : Nat]
  BY DEF IInv, Stored, IsCandidate
<1>4. Max({cand[g].count, LastNo(g)}) = n
  BY <1>1, <1>2, <1>3, MaxOfTwo
<1>5. PICK c : c = IF g \in interrupted THEN [cand[g] EXCEPT !.state = "retryable"] ELSE cand[g]
  OBVIOUS
<1>6. /\ c \in [state : State, order : Orders, count : Nat] /\ c.count = cand[g].count
      /\ c.state = IF g \in interrupted THEN "retryable" ELSE cand[g].state
  BY <1>3, <1>5 DEF State
<1>7. PICK d : d = IF c.state \in {"pending", "retryable"} /\ Exhausted(n)
                   THEN [c EXCEPT !.state = "failed", !.count = n] ELSE c
  OBVIOUS
<1>8. d = Recovered(g, interrupted)
  BY <1>4, <1>5, <1>6, <1>7 DEF Recovered
<1>9. /\ d \in [state : State, order : Orders, count : Nat]
      /\ d = c \/ (d.count = n /\ d.state = "failed" /\ c.state \in {"pending", "retryable"})
  BY <1>2, <1>6, <1>7 DEF State
<1>10. IsCandidate(d)
  BY <1>9 DEF IsCandidate
<1>11. ASSUME NEW k \in Nat, Nos(g) = 1..k, cand[g].count <= k
       PROVE  d.count <= k
  <2>1. k = n
    BY <1>2, <1>11, LastIsLength
  <2>. QED
    BY <1>1, <1>2, <1>6, <1>9, <2>1
<1>12. /\ d.state = "processing" <=> cand[g].state = "processing" /\ g \notin interrupted
       /\ cand[g].state = "processed" => d.state = "processed"
       /\ cand[g].state # "absent" => d.state # "absent"
  BY <1>6, <1>9
<1>. QED
  BY <1>8, <1>10, <1>11, <1>12

LEMMA RecoverIsSafe ==
    ASSUME IInv, NEW w \in Worker, Recover(w)
    PROVE  IInv'
<1>1. IsWorker(wk[w]) /\ wk[w].pc = "recover" /\ Current(w) /\ InCharge(w)
  BY NotIdle, VerifiedIsCurrent DEF Recover, At
<1>2. PICK stale : stale = StaleGames(w)
  OBVIOUS
<1>3. PICK as : as = {a \in attempts : a.game \in StaleGames(w) /\ a.outcome = "open"}
  OBVIOUS
<1>4. PICK outcome \in Outcome : outcome = "interrupted" /\ outcome # "open" /\ outcome # "succeeded"
  BY DEF Outcome
<1>5. /\ UNCHANGED <<lease, cycle, enrolled, runs>>
      /\ cand' = [g \in Game |-> Recovered(g, stale)]
      /\ attempts' = Closes(as, outcome)
      /\ wk' = [wk EXCEPT ![w] = [wk[w] EXCEPT !.pc = "select", !.phase = cycle.phase,
                                                !.page = cycle.page]]
  BY <1>2, <1>3, <1>4 DEF Recover, Set
<1>6. \A g \in Game : g \in stale <=> /\ cand[g].state = "processing"
                                      /\ ~ \E a \in AttemptsAt(g) : IsOpen(a) /\ a.token = wk[w].tok
  BY <1>2 DEF StaleGames, IsOpen
<1>7. stale \subseteq Game /\ as \subseteq attempts /\ (\A a \in as : IsOpen(a) /\ a.game \in stale)
      /\ \A a \in attempts : IsOpen(a) /\ a.game \in stale => a \in as
  BY <1>2, <1>3 DEF StaleGames, IsOpen
<1>8. ASSUME NEW g \in Game
      PROVE  /\ IsCandidate(cand'[g])
             /\ \A n \in Nat : Nos(g) = 1..n /\ cand[g].count <= n => cand'[g].count <= n
             /\ cand'[g].state = "processing" <=> cand[g].state = "processing" /\ g \notin stale
             /\ cand[g].state = "processed" => cand'[g].state = "processed"
             /\ cand[g].state # "absent" => cand'[g].state # "absent"
  <2>1. cand'[g] = Recovered(g, stale)
    BY <1>5
  <2>. QED
    BY <1>6, <2>1, RecoveredIs
<1>9. \A g \in Game : cand'[g].state # "processing"
  <2>1. \A a \in attempts : ~(IsOpen(a) /\ a.token = wk[w].tok)
    BY <1>1 DEF InCharge, MyAttempt, At, Ending
  <2>2. \A g \in Game : cand[g].state = "processing" => g \in stale
    BY <1>6, <2>1 DEF AttemptsAt
  <2>. QED
    BY <1>8, <2>2
<1>10. Closed(as, outcome) /\ \A g : Nos(g)' = Nos(g)
  BY <1>5, <1>7, ClosesIsClosed DEF IInv
<1>11. Stored'
  <2>1. cand' = [g \in Game |-> cand'[g]]
    BY <1>5
  <2>. QED
    BY <1>5, <1>8, <1>10, <2>1 DEF IInv, Stored, Closed
<1>12. lease.token \in Nat /\ lease'.token \in Nat /\ lease.token <= lease'.token
  BY <1>5 DEF IInv, Stored
<1>13. History'
  <2>1. \A a \in attempts : a.game \in Game
    BY DEF IInv, Stored, Attempt
  <2>2. \A a \in attempts : a.outcome = "succeeded" => cand'[a.game].state = "processed"
    BY <1>8, <2>1 DEF IInv, History, SuccessIsFinal
  <2>3. \A a \in attempts : IsOpen(a) /\ a \notin as => cand'[a.game].state \in {"processing", "processed"}
    <3>1. SUFFICES ASSUME NEW a \in attempts, IsOpen(a), a \notin as
                   PROVE  cand'[a.game].state \in {"processing", "processed"}
      OBVIOUS
    <3>2. a.game \in Game /\ a.game \notin stale /\ cand[a.game].state \in {"processing", "processed"}
      BY <1>7, <2>1, <3>1 DEF IInv, History, OpenIsBusy
    <3>. QED
      BY <1>8, <3>2
  <2>4. /\ Stored /\ History /\ as \subseteq attempts /\ (\A a \in as : IsOpen(a)) /\ outcome # "open"
        /\ attempts' = Closes(as, outcome) /\ enrolled \subseteq enrolled' /\ outcome # "succeeded"
    BY <1>4, <1>5, <1>7 DEF IInv
  <2>. QED
    BY <1>8, <1>12, <2>2, <2>3, <2>4, ClosingIsSafe
<1>14. Known \subseteq Known'
  BY <1>8 DEF Known
<1>15. Cursor'
  BY <1>5, <1>14, CursorKeeps DEF IInv
<1>. DEFINE m == [wk[w] EXCEPT !.pc = "select", !.phase = cycle.phase, !.page = cycle.page]
<1>16. PICK Orders, Errs, Statuses : wk[w] \in Memory(Orders, Errs, Statuses)
  BY <1>1 DEF IsWorker
<1>17. cycle.phase \in Phase /\ cycle.page \in Nat \ {0}
  BY DEF IInv, Stored
<1>18. /\ m \in Memory(Orders, Errs, Statuses) /\ m.pc = "select" /\ m.run = wk[w].run
       /\ m.tok = wk[w].tok /\ m.batch = wk[w].batch /\ m.phase = cycle.phase /\ m.page = cycle.page
  BY <1>16, <1>17 DEF Memory, PcValues, Acquired
<1>19. wk' = [wk EXCEPT ![w] = m] /\ wk'[w] = m
  BY <1>5 DEF IInv, Working
<1>. HIDE DEF m
<1>20. IsWorker(m)
  BY <1>1, <1>18 DEF IsWorker
<1>21. Works(w)'
  <2>1. m.tok = lease.token
    BY <1>1, <1>18 DEF Current
  <2>2. InPlace(w)'
    BY <1>5, <1>12, <1>18, <1>19, <2>1 DEF InPlace, At, IInv, Cursor
  <2>3. \A a \in attempts' : ~(IsOpen(a) /\ a.token = m.tok)
    <3>1. \A a \in attempts' : IsOpen(a) => a \in attempts
      BY <1>4, <1>10 DEF Closed, IsOpen
    <3>. QED
      BY <1>1, <1>18, <3>1 DEF InCharge, MyAttempt, At, Ending
  <2>4. InCharge(w)'
    BY <1>5, <1>9, <1>18, <1>19, <2>3 DEF InCharge, At
  <2>. QED
    BY <2>2, <2>4 DEF Works
<1>22. Holder(w) /\ wk'[w].tok = wk[w].tok
  BY <1>1, <1>18, <1>19 DEF Current
<1>. QED
  BY <1>1, <1>10, <1>11, <1>12, <1>13, <1>14, <1>15, <1>18, <1>19, <1>20, <1>21, <1>5, <1>22, StepIsSafe

\* Where the saved cursor stands, and what lies behind it.
LEMMA AdvancedStands ==
    ASSUME IInv, NEW w \in Worker, wk[w].pc = "insert", InCharge(w),
           NEW known, Known \subseteq known,
           Len(wk[w].fresh) <= Room(w) => Range(wk[w].fresh) \subseteq known
    PROVE  /\ Advanced(w) \in [phase : Phase, page : Nat \ {0}]
           /\ Stands(Advanced(w).phase, Advanced(w).page)
           /\ \A p \in 1..(Advanced(w).page - 1) : Range(Pages[p]) \ Excluded \subseteq known
           /\ wk[w].phase = "browse" /\ wk[w].page < Len(Pages) => Advanced(w).phase = "browse"
<1>. DEFINE page == wk[w].page
<1>1. /\ Works(w) /\ wk[w].phase = cycle.phase /\ page = cycle.page /\ page \in Nat \ {0}
      /\ wk[w].phase \in {"new_releases_pending", "browse"} /\ Stands(wk[w].phase, page)
  <2>1. Works(w) /\ IsWorker(wk[w])
    BY NotIdle
  <2>2. wk[w].phase \in Phase /\ page \in Nat \ {0}
    BY <2>1 DEF IsWorker, Memory
  <2>. QED
    BY <2>1, <2>2 DEF Works, InPlace, InCharge, At, Scanning, Phase
<1>2. DOMAIN Pages = 1..Len(Pages) /\ Len(Pages) \in Nat /\ Len(Pages) >= 1
  <2>1. Pages \in Seq(Seq(Game)) /\ Pages # <<>>
    BY Zenon, BatchAssumption
  <2>. QED
    BY <2>1
<1>3. \A p \in 1..(cycle.page - 1) : Range(Pages[p]) \ Excluded \subseteq known
  BY DEF IInv, Cursor, CursorKeepsUp
<1>. HIDE DEF page
<1>4. CASE wk[w].phase = "new_releases_pending"
  <2>1. Advanced(w) = [phase |-> "browse", page |-> page] /\ page = 1
    BY <1>1, <1>4 DEF Advanced, Stands, page
  <2>. QED
    BY <1>2, <1>4, <2>1 DEF Stands, Phase
<1>5. CASE wk[w].phase = "browse" /\ Len(wk[w].fresh) <= Room(w)
  <2>1. PICK next \in Nat \ {0} : next = page + 1
    BY <1>1
  <2>2. PICK phase \in Phase : phase = IF page < Len(Pages) THEN "browse" ELSE "exhausted"
    BY DEF Phase
  <2>3. Advanced(w) = [phase |-> phase, page |-> next]
    BY <1>5, <2>1, <2>2 DEF Advanced, page
  <2>4. page \in 1..Len(Pages)
    BY <1>1, <1>2, <1>5 DEF Stands, page
  <2>5. Stands(phase, next)
    BY <1>2, <2>1, <2>2, <2>4 DEF Stands
  <2>6. Range(Pages[page]) \ Excluded \subseteq known
    BY <1>5 DEF InCharge, At, page
  <2>7. \A p \in 1..(next - 1) : p \in 1..(cycle.page - 1) \/ p = page
    BY <1>1, <2>1
  <2>. QED
    BY <1>3, <1>5, <2>2, <2>3, <2>5, <2>6, <2>7 DEF page
<1>6. CASE wk[w].phase = "browse" /\ ~(Len(wk[w].fresh) <= Room(w))
  <2>1. Advanced(w) = [phase |-> "browse", page |-> page]
    BY <1>6 DEF Advanced, page
  <2>. QED
    BY <1>1, <1>3, <1>6, <2>1 DEF Stands, Phase
<1>. QED
  BY <1>1, <1>4, <1>5, <1>6

LEMMA InsertIsSafe ==
    ASSUME IInv, NEW w \in Worker, Insert(w)
    PROVE  IInv'
<1>1. IsWorker(wk[w]) /\ Works(w) /\ wk[w].pc = "insert"
  BY NotIdle DEF Insert, At
<1>2. Current(w) /\ InCharge(w)
  BY <1>1 DEF Works, InPlace, Current, Holder, At
<1>3. PICK Orders, Errs, Statuses : wk[w] \in Memory(Orders, Errs, Statuses)
  BY <1>1 DEF IsWorker
<1>4. PICK room \in Int : room = Room(w) /\ room + Len(wk[w].batch) = Limit /\ room >= 0
  <2>1. Len(wk[w].batch) \in Nat /\ Len(wk[w].batch) <= Limit /\ Limit \in Nat
    BY <1>1, <1>3, Bounds DEF IsWorker, Memory
  <2>2. Room(w) \in Int /\ Room(w) + Len(wk[w].batch) = Limit /\ Room(w) >= 0
    BY <2>1 DEF Room
  <2>. QED
    BY <2>2
<1>5. PICK new : new = Prefix(wk[w].fresh, room)
  OBVIOUS
<1>6. /\ new \in Seq(Game) /\ Len(new) <= room
      /\ Len(wk[w].fresh) <= room => new = wk[w].fresh
  <2>1. wk[w].fresh \in Seq(Game)
    BY <1>3 DEF Memory
  <2>. QED
    BY <1>4, <1>5, <2>1, PrefixOfSeq
<1>7. PICK batch : batch = wk[w].batch \o new
  OBVIOUS
<1>8. batch \in Seq(Game) /\ Len(batch) <= Limit
  <2>1. wk[w].batch \in Seq(Game)
    BY <1>3 DEF Memory
  <2>2. batch \in Seq(Game) /\ Len(batch) = Len(wk[w].batch) + Len(new)
    BY <1>6, <1>7, <2>1
  <2>3. Len(new) \in Nat /\ Len(wk[w].batch) \in Nat /\ Limit \in Nat
    BY <1>6, <2>1, Bounds
  <2>. QED
    BY <1>4, <1>6, <2>2, <2>3
<1>9. PICK there : there = IF wk[w].phase = "browse" /\ Len(batch) < Limit /\ wk[w].page < Len(Pages)
                           THEN "browse" ELSE "freeze"
  OBVIOUS
<1>10. PICK places : cand' = [g \in Game |-> IF g \in Range(new)
                                   THEN [state |-> "pending", count |-> 0, order |-> places[g]]
                                   ELSE cand[g]]
  <2>. DEFINE place(g) == wk[w].order - 1 + CHOOSE i \in DOMAIN new : new[i] = g
  <2>1. cand' = [g \in Game |-> IF g \in Range(new)
                    THEN [state |-> "pending", count |-> 0, order |-> place(g)] ELSE cand[g]]
    BY <1>4, <1>5 DEF Insert
  <2>. HIDE DEF place
  <2>2. PICK places : places = [g \in Game |-> place(g)]
    OBVIOUS
  <2>3. \A g \in Game : places[g] = place(g)
    BY <2>2
  <2>. QED
    BY <2>1, <2>3
<1>11. /\ UNCHANGED <<lease, attempts, enrolled, runs>> /\ cycle' = Advanced(w)
       /\ Range(new) \cap Known = {}
  BY <1>4, <1>5 DEF Insert
<1>12. ASSUME NEW g \in Game
       PROVE  \/ cand'[g] = cand[g]
              \/ /\ g \in Range(new) /\ cand[g].state = "absent" /\ IsCandidate(cand'[g])
                 /\ cand'[g].state = "pending" /\ cand'[g].count = 0
  <2>1. CASE g \in Range(new)
    <3>1. cand'[g] = [state |-> "pending", count |-> 0, order |-> places[g]]
      BY <1>10, <2>1
    <3>2. cand'[g] \in [state : State, order : {places[g]}, count : Nat]
      BY <3>1 DEF State
    <3>3. IsCandidate(cand'[g])
      BY <3>2 DEF IsCandidate
    <3>. QED
      BY <1>11, <2>1, <3>1, <3>3 DEF Known
  <2>2. CASE g \notin Range(new)
    BY <1>10, <2>2
  <2>. QED
    BY <2>1, <2>2
<1>13. Known \subseteq Known' /\ Range(new) \subseteq Known'
  <2>1. Range(new) \subseteq Game
    BY <1>6, ElementsOfSeq
  <2>2. \A g \in Range(new) : cand'[g].state = "pending"
    BY <1>10, <2>1
  <2>3. \A g \in Known : cand'[g].state # "absent"
    BY <1>12 DEF Known
  <2>. QED
    BY <2>1, <2>2, <2>3 DEF Known
<1>14. /\ cycle' \in [phase : Phase, page : Nat \ {0}] /\ Stands(cycle'.phase, cycle'.page)
       /\ \A p \in 1..(cycle'.page - 1) : Range(Pages[p]) \ Excluded \subseteq Known'
       /\ there = "browse" => cycle'.phase = "browse"
  <2>1. PICK known : known = Known'
    OBVIOUS
  <2>2. Known \subseteq known /\ (Len(wk[w].fresh) <= Room(w) => Range(wk[w].fresh) \subseteq known)
    BY <1>4, <1>6, <1>13, <2>1
  <2>3. /\ Advanced(w) \in [phase : Phase, page : Nat \ {0}]
        /\ Stands(Advanced(w).phase, Advanced(w).page)
        /\ \A p \in 1..(Advanced(w).page - 1) : Range(Pages[p]) \ Excluded \subseteq known
        /\ wk[w].phase = "browse" /\ wk[w].page < Len(Pages) => Advanced(w).phase = "browse"
    BY <1>1, <1>2, <2>2, AdvancedStands
  <2>. QED
    BY <1>9, <1>11, <2>1, <2>3
<1>15. Cursor'
  BY <1>14 DEF Cursor, CursorKeepsUp, Stands
<1>16. Stored'
  <2>1. cand' = [g \in Game |-> cand'[g]]
    BY <1>10
  <2>2. \A g \in Game : IsCandidate(cand'[g])
    BY <1>12 DEF IInv, Stored
  <2>. QED
    BY <1>11, <1>14, <2>1, <2>2 DEF IInv, Stored
<1>17. lease.token \in Nat /\ lease'.token \in Nat /\ lease.token <= lease'.token
  BY <1>11 DEF IInv, Stored
<1>18. History'
  <2>1. \A g \in Game, n \in Nat : Nos(g) = 1..n /\ cand[g].count <= n => cand'[g].count <= n
    BY <1>12
  <2>2. /\ \A g \in Game : cand[g].state = "processed" => cand'[g].state = "processed"
        /\ \A g \in Game : cand[g].state = "processing" => cand'[g].state = "processing"
    BY <1>12
  <2>. QED
    BY <1>11, <1>17, <2>1, <2>2, HistoryKeeps DEF IInv
<1>. DEFINE m == [wk[w] EXCEPT !.pc = there, !.batch = batch, !.fresh = <<>>, !.order = 0,
                               !.phase = cycle'.phase, !.page = cycle'.page]
<1>19. wk' = [wk EXCEPT ![w] = m]
  BY <1>4, <1>5, <1>7, <1>9 DEF Insert, Set
<1>20. /\ m \in Memory({0}, Errs, Statuses) /\ m.pc = there /\ m.run = wk[w].run
       /\ m.tok = wk[w].tok /\ m.batch = batch /\ m.phase = cycle'.phase /\ m.page = cycle'.page
  <2>1. PICK phase \in Phase : phase = cycle'.phase
    BY <1>14
  <2>2. PICK page \in Nat \ {0} : page = cycle'.page
    BY <1>14
  <2>3. PICK none \in Seq(Game) : none = <<>>
    <3>1. <<>> \in Seq(Game)
      OBVIOUS
    <3>. QED
      BY <3>1
  <2>4. there \in PcValues
    BY <1>9 DEF PcValues, Acquired, Fenced
  <2>5. m = [wk[w] EXCEPT !.pc = there, !.batch = batch, !.fresh = none, !.order = 0,
                          !.phase = phase, !.page = page]
    BY <2>1, <2>2, <2>3
  <2>. HIDE DEF m
  <2>6. /\ m \in Memory({0}, Errs, Statuses) /\ m.pc = there /\ m.run = wk[w].run
        /\ m.tok = wk[w].tok /\ m.batch = batch /\ m.phase = phase /\ m.page = page
    BY <1>3, <1>8, <2>4, <2>5 DEF Memory
  <2>. QED
    BY <2>1, <2>2, <2>6
<1>. HIDE DEF m
<1>21. wk'[w] = m /\ IsWorker(m)
  <2>1. wk'[w] = m
    BY <1>19 DEF IInv, Working
  <2>2. wk[w].run # NoRun /\ m.pc # "idle"
    BY <1>1, <1>9, <1>20 DEF IsWorker
  <2>. QED
    BY <1>8, <1>20, <2>1, <2>2 DEF IsWorker
<1>22. Works(w)'
  <2>1. m.tok = lease.token /\ m.pc \in {"browse", "freeze"}
    BY <1>2, <1>9, <1>20 DEF Current
  <2>2. InPlace(w)'
    BY <1>9, <1>11, <1>14, <1>17, <1>20, <1>21, <2>1 DEF InPlace, At
  <2>3. \A a \in attempts' : ~(IsOpen(a) /\ a.token = m.tok)
    BY <1>1, <1>2, <1>11, <1>20 DEF InCharge, MyAttempt, At, Ending
  <2>4. \A g \in Game : cand'[g].state # "processing"
    BY <1>1, <1>2, <1>12 DEF InCharge, At, Outside
  <2>5. InCharge(w)'
    BY <1>20, <1>21, <2>1, <2>3, <2>4 DEF InCharge, At
  <2>. QED
    BY <2>2, <2>5 DEF Works
<1>23. \A g \in Game : Nos(g) \subseteq Nos(g)'
  BY <1>11 DEF Nos, AttemptsAt
<1>24. Holder(w) /\ wk'[w].tok = wk[w].tok
  BY <1>2, <1>20, <1>21 DEF Current
<1>. QED
  BY <1>1, <1>2, <1>11, <1>13, <1>15, <1>16, <1>17, <1>18, <1>19, <1>20, <1>21, <1>22, <1>23, <1>24, StepIsSafe

-----------------------------------------------------------------------------
(* Attempts.                                                                   *)

LEMMA SpentIsLast ==
    ASSUME IInv, NEW g \in Game
    PROVE  \E n \in Nat : /\ Nos(g) = 1..n /\ n <= MaxAttempts /\ cand[g].count <= n
                          /\ Spent(g) = n /\ \A k \in Nat : Nos(g) = 1..k => k = n
<1>1. PICK n \in 0..MaxAttempts : Nos(g) = 1..n /\ cand[g].count <= n
  BY DEF IInv, History, Numbered
<1>2. n \in Nat /\ n <= MaxAttempts
  BY Bounds
<1>3. LastNo(g) = n
  BY <1>1, <1>2, LastIsLength
<1>4. cand[g].count \in Nat
  BY DEF IInv, Stored, IsCandidate
<1>5. Spent(g) = n
  BY <1>1, <1>2, <1>3, <1>4, MaxOfTwo DEF Spent
<1>6. \A k \in Nat : Nos(g) = 1..k => k = n
  BY <1>2, <1>3, LastIsLength
<1>. QED
  BY <1>1, <1>2, <1>5, <1>6

\* A candidate with another state and counter.
Rewritten(g, state, count) == cand' = [cand EXCEPT ![g].state = state, ![g].count = count]

LEMMA CandidateWith ==
    ASSUME IInv, NEW g \in Game, NEW state \in State, NEW count \in Nat, state # "absent",
           Rewritten(g, state, count)
    PROVE  /\ cand' = [h \in Game |-> cand'[h]] /\ \A h \in Game : IsCandidate(cand'[h])
           /\ cand'[g].state = state /\ cand'[g].count = count
           /\ \A h \in Game : h # g => cand'[h] = cand[h]
           /\ Known \subseteq Known'
<1>1. cand = [h \in Game |-> cand[h]] /\ \A h \in Game : IsCandidate(cand[h])
  BY DEF IInv, Stored
<1>2. PICK c : c = [cand[g] EXCEPT !.state = state, !.count = count]
  OBVIOUS
<1>3. IsCandidate(c) /\ c.state = state /\ c.count = count
  <2>1. PICK Orders : cand[g] \in [state : State, order : Orders, count : Nat]
    BY <1>1 DEF IsCandidate
  <2>2. c \in [state : State, order : Orders, count : Nat] /\ c.state = state /\ c.count = count
    BY <1>2, <2>1
  <2>. QED
    BY <2>2 DEF IsCandidate
<1>4. cand' = [cand EXCEPT ![g] = c]
  BY <1>1, <1>2 DEF Rewritten
<1>5. /\ cand' = [h \in Game |-> cand'[h]] /\ \A h \in Game : IsCandidate(cand'[h])
      /\ cand'[g] = c /\ \A h \in Game : h # g => cand'[h] = cand[h]
  BY <1>1, <1>3, <1>4
<1>. QED
  BY <1>3, <1>5 DEF Known

LEMMA ClaimOfSpent ==
    ASSUME IInv, NEW w \in Worker, wk[w].pc = "claim", wk[w].left # <<>>, Current(w), InCharge(w),
           NEW g \in Game, cand[g].state \in {"pending", "retryable"},
           cand' = [cand EXCEPT ![g].state = "failed", ![g].count = Spent(g)],
           Set(w, [wk[w] EXCEPT !.left = Tail(@)]),
           UNCHANGED <<attempts, lease, cycle, enrolled, runs>>
    PROVE  IInv'
<1>. DEFINE m == [wk[w] EXCEPT !.left = Tail(@)]
<1>1. IsWorker(wk[w])
  BY NotIdle
<1>2. PICK Orders, Errs, Statuses : wk[w] \in Memory(Orders, Errs, Statuses)
  BY <1>1 DEF IsWorker
<1>3. Tail(wk[w].left) \in Seq(Game)
  BY <1>2 DEF Memory
<1>4. /\ m \in Memory(Orders, Errs, Statuses) /\ m.pc = "claim" /\ m.run = wk[w].run
      /\ m.tok = wk[w].tok /\ m.batch = wk[w].batch
  BY <1>2, <1>3 DEF Memory
<1>5. wk' = [wk EXCEPT ![w] = m] /\ wk'[w] = m
  BY DEF Set, IInv, Working
<1>. HIDE DEF m
<1>6. IsWorker(m)
  BY <1>1, <1>4 DEF IsWorker
<1>7. PICK n \in Nat : Nos(g) = 1..n /\ Spent(g) = n /\ \A k \in Nat : Nos(g) = 1..k => k = n
  BY SpentIsLast
<1>8. PICK state \in State : state = "failed" /\ state # "absent"
  BY DEF State
<1>9. /\ cand' = [h \in Game |-> cand'[h]] /\ \A h \in Game : IsCandidate(cand'[h])
      /\ cand'[g].state = "failed" /\ cand'[g].count = n
      /\ \A h \in Game : h # g => cand'[h] = cand[h]
      /\ Known \subseteq Known'
  <2>1. Rewritten(g, state, n)
    BY <1>7, <1>8 DEF Rewritten
  <2>. QED
    BY <1>7, <1>8, <2>1, CandidateWith
<1>10. Stored' /\ lease.token \in Nat /\ lease.token <= lease'.token /\ lease'.token \in Nat
  BY <1>9 DEF IInv, Stored
<1>11. History'
  <2>1. \A h \in Game, k \in Nat : Nos(h) = 1..k /\ cand[h].count <= k => cand'[h].count <= k
    <3>1. SUFFICES ASSUME NEW h \in Game, NEW k \in Nat, Nos(h) = 1..k, cand[h].count <= k
                   PROVE  cand'[h].count <= k
      OBVIOUS
    <3>2. CASE h = g
      BY <1>7, <1>9, <3>1, <3>2
    <3>3. CASE h # g
      BY <1>9, <3>1, <3>3
    <3>. QED
      BY <3>2, <3>3
  <2>2. /\ \A h \in Game : cand[h].state = "processed" => cand'[h].state = "processed"
        /\ \A h \in Game : cand[h].state = "processing" => cand'[h].state = "processing"
    BY <1>9
  <2>. QED
    BY <1>10, <2>1, <2>2, HistoryKeeps DEF IInv
<1>12. Cursor'
  BY <1>9, CursorKeeps DEF IInv
<1>13. Works(w)'
  <2>1. InPlace(w)'
    BY <1>4, <1>5, <1>10 DEF InPlace, At, Scanning, Current
  <2>2. \A a \in attempts : ~(IsOpen(a) /\ a.token = m.tok)
    BY <1>4 DEF InCharge, MyAttempt, At, Ending
  <2>3. \A h \in Game : cand'[h].state # "processing"
    BY <1>9 DEF InCharge, At, Outside
  <2>4. InCharge(w)'
    BY <1>4, <1>5, <2>2, <2>3 DEF InCharge, At, Scanning
  <2>. QED
    BY <2>1, <2>4 DEF Works
<1>14. \A h \in Game : Nos(h) \subseteq Nos(h)'
  BY DEF Nos, AttemptsAt
<1>15. Holder(w) /\ wk'[w].tok = wk[w].tok
  BY <1>4, <1>5 DEF Current
<1>. QED
  BY <1>4, <1>5, <1>6, <1>9, <1>10, <1>11, <1>12, <1>13, <1>14, <1>15, StepIsSafe

\* A run that has not finished with a candidate has only interrupted attempts at it.
LEMMA UnfinishedIsInterrupted ==
    ASSUME IInv, NEW w \in Worker, NEW g \in Game, ~Finished(w, g),
           cand[g].state \in {"pending", "retryable"}
    PROVE  /\ \A b \in AttemptsAt(g) : b.run = wk[w].run => b.outcome = "interrupted"
           /\ \A b \in AttemptsAt(g) : b.outcome # "succeeded"
<1>1. \A b \in AttemptsAt(g) : b.outcome # "succeeded" /\ b.outcome # "open"
  BY DEF AttemptsAt, IInv, History, SuccessIsFinal, OpenIsBusy, IsOpen
<1>2. ASSUME NEW b \in AttemptsAt(g), b.run = wk[w].run, b.outcome # "interrupted"
      PROVE  FALSE
  <2>1. b \in attempts /\ b.game = g /\ b.outcome = "failed" /\ b.no \in Nat
    BY <1>1, <1>2 DEF AttemptsAt, IInv, Stored, Attempt, Outcome
  <2>2. PICK c \in AttemptsAt(g) : c.run = b.run /\ ~(c.no <= b.no)
    BY <1>2, <2>1 DEF Finished
  <2>3. c \in attempts /\ c.game = g /\ c.no \in Nat
    BY DEF AttemptsAt, IInv, Stored, Attempt
  <2>4. b.no < c.no
    BY <2>1, <2>2, <2>3
  <2>. QED
    BY <1>2, <2>1, <2>2, <2>3, <2>4 DEF IInv, History, OncePerRun
<1>. QED
  BY <1>1, <1>2

LEMMA ClaimOfAttempt ==
    ASSUME IInv, NEW w \in Worker, wk[w].pc = "claim", wk[w].left # <<>>, Current(w), InCharge(w),
           NEW g \in Game, ~Finished(w, g), cand[g].state \in {"pending", "retryable"},
           ~Exhausted(Spent(g)),
           cand' = [cand EXCEPT ![g].state = "processing", ![g].count = Spent(g) + 1],
           attempts' = attempts \cup {[game |-> g, no |-> Spent(g) + 1, run |-> wk[w].run,
                                       token |-> wk[w].tok, outcome |-> "open"]},
           Set(w, [wk[w] EXCEPT !.pc = "fetch", !.left = Tail(@), !.game = g, !.no = Spent(g) + 1]),
           UNCHANGED <<lease, cycle, enrolled, runs>>
    PROVE  IInv'
<1>1. IsWorker(wk[w]) /\ wk[w].run \in Run /\ wk[w].tok \in Nat /\ wk[w].tok = lease.token
  BY NotIdle DEF Current
<1>2. PICK Orders, Errs, Statuses : wk[w] \in Memory(Orders, Errs, Statuses)
  BY <1>1 DEF IsWorker
<1>3. PICK n \in Nat : /\ Nos(g) = 1..n /\ n <= MaxAttempts /\ Spent(g) = n
                       /\ \A k \in Nat : Nos(g) = 1..k => k = n
  BY SpentIsLast
<1>4. n < MaxAttempts
  BY <1>3, Bounds DEF Exhausted
<1>5. PICK no \in Nat : no = n + 1
  OBVIOUS
<1>6. PICK outcome \in Outcome : outcome = "open"
  BY DEF Outcome
<1>7. PICK a : a = [game |-> g, no |-> no, run |-> wk[w].run, token |-> wk[w].tok, outcome |-> outcome]
  OBVIOUS
<1>8. /\ a \in Attempt /\ a.game = g /\ a.no = no /\ a.run = wk[w].run /\ a.token = wk[w].tok
      /\ a.outcome = "open" /\ attempts' = attempts \cup {a}
  BY <1>1, <1>3, <1>5, <1>6, <1>7 DEF Attempt
<1>9. /\ \A b \in AttemptsAt(g) : b.run = a.run => b.outcome = "interrupted"
      /\ \A b \in AttemptsAt(g) : b.outcome # "succeeded"
  BY <1>8, UnfinishedIsInterrupted
<1>10. PICK state \in State : state = "processing" /\ state # "absent"
  BY DEF State
<1>11. /\ cand' = [h \in Game |-> cand'[h]] /\ \A h \in Game : IsCandidate(cand'[h])
       /\ cand'[g].state = "processing" /\ cand'[g].count = no
       /\ \A h \in Game : h # g => cand'[h] = cand[h]
       /\ Known \subseteq Known'
  <2>1. Rewritten(g, state, no)
    BY <1>3, <1>5, <1>10 DEF Rewritten
  <2>. QED
    BY <1>10, <2>1, CandidateWith
<1>12. Stored' /\ lease.token \in Nat /\ lease.token <= lease'.token /\ lease'.token \in Nat
  BY <1>8, <1>11 DEF IInv, Stored
<1>13. History' /\ Nos(g)' = 1..(n + 1)
  <2>1. Begins(a, n)
    BY <1>1, <1>3, <1>4, <1>5, <1>8, <1>9, <1>11, <1>12 DEF Begins
  <2>. QED
    BY <1>8, <2>1, AddingIsSafe DEF IInv
<1>14. Cursor'
  BY <1>11, CursorKeeps DEF IInv
<1>. DEFINE m == [wk[w] EXCEPT !.pc = "fetch", !.left = Tail(@), !.game = g, !.no = no]
<1>15. Tail(wk[w].left) \in Seq(Game)
  BY <1>2 DEF Memory
<1>16. /\ m \in Memory(Orders, Errs, Statuses) /\ m.pc = "fetch" /\ m.run = wk[w].run
       /\ m.tok = wk[w].tok /\ m.batch = wk[w].batch /\ m.game = g /\ m.no = no
  BY <1>2, <1>15 DEF Memory, PcValues, Acquired, Fenced
<1>17. wk' = [wk EXCEPT ![w] = m] /\ wk'[w] = m
  BY <1>3, <1>5 DEF Set, IInv, Working
<1>. HIDE DEF m
<1>18. IsWorker(m)
  BY <1>1, <1>16 DEF IsWorker
<1>19. Works(w)'
  <2>1. no \in Nos(g)'
    BY <1>5, <1>13
  <2>2. InPlace(w)'
    BY <1>1, <1>12, <1>16, <1>17, <2>1 DEF InPlace, At, Scanning, Current
  <2>3. \A b \in attempts' : IsOpen(b) /\ b.token = m.tok => b = a
    BY <1>8, <1>16 DEF InCharge, MyAttempt, At, Ending
  <2>4. MyAttempt(w, a)' /\ IsOpen(a) /\ a \in attempts'
    BY <1>8, <1>16, <1>17 DEF MyAttempt, At, IsOpen
  <2>5. \A h \in Game : cand'[h].state = "processing" => h = g
    BY <1>11 DEF InCharge, At, Outside
  <2>6. \A b \in attempts' : b.game = g => b.no <= no /\ b.outcome # "succeeded"
    <3>1. \A b \in attempts : b.game = g => b.no \in 1..n
      BY <1>3 DEF Nos, AttemptsAt
    <3>. QED
      BY <1>5, <1>8, <1>9, <3>1 DEF AttemptsAt
  <2>7. InCharge(w)'
    <3>1. \A b \in attempts' : IsOpen(b) /\ b.token = wk'[w].tok => MyAttempt(w, b)'
      BY <1>17, <2>3, <2>4
    <3>2. /\ \E b \in attempts' : MyAttempt(w, b)' /\ IsOpen(b)
          /\ \A b \in attempts' : b.game = wk'[w].game => b.no <= wk'[w].no /\ b.outcome # "succeeded"
      BY <1>16, <1>17, <2>4, <2>6 DEF AttemptsAt
    <3>3. \A h \in Game : cand'[h].state = "processing" => At(w, "fetch")' /\ wk'[w].game = h
      BY <1>16, <1>17, <2>5 DEF At
    <3>. QED
      BY <1>16, <1>17, <3>1, <3>2, <3>3 DEF InCharge, At, Scanning, AttemptsAt
  <2>. QED
    BY <2>2, <2>7 DEF Works
<1>20. \A h \in Game : Nos(h) \subseteq Nos(h)'
  BY <1>8 DEF Nos, AttemptsAt
<1>21. /\ wk' = [wk EXCEPT ![w] = wk'[w]] /\ IsWorker(wk'[w]) /\ wk'[w].tok = wk[w].tok
       /\ Holder(w) /\ lease'.token = lease.token
  BY <1>16, <1>17, <1>18 DEF Current
<1>22. Stored' /\ History' /\ Cursor' /\ Known \subseteq Known' /\ lease.token <= lease'.token
  BY <1>11, <1>12, <1>13, <1>14
<1>. QED
  BY <1>19, <1>20, <1>21, <1>22, StepIsSafe

LEMMA ClaimIsSafe ==
    ASSUME IInv, NEW w \in Worker, Claim(w)
    PROVE  IInv'
<1>1. IsWorker(wk[w]) /\ wk[w].pc = "claim" /\ wk[w].left # <<>> /\ Current(w) /\ InCharge(w)
  BY NotIdle, VerifiedIsCurrent DEF Claim, At
<1>2. PICK g \in Game : g = Head(wk[w].left)
  <2>1. wk[w].left \in Seq(Game)
    BY <1>1 DEF IsWorker, Memory
  <2>2. Head(wk[w].left) \in Game
    BY <1>1, <2>1
  <2>. QED
    BY <2>2
<1>3. ~Finished(w, g) /\ cand[g].state \in {"pending", "retryable"}
  BY <1>2 DEF Claim
<1>4. CASE Exhausted(Spent(g))
  <2>1. /\ cand' = [cand EXCEPT ![g].state = "failed", ![g].count = Spent(g)]
        /\ Set(w, [wk[w] EXCEPT !.left = Tail(@)])
        /\ UNCHANGED <<attempts, lease, cycle, enrolled, runs>>
    BY <1>2, <1>4 DEF Claim
  <2>. QED
    BY <1>1, <1>3, <2>1, ClaimOfSpent
<1>5. CASE ~Exhausted(Spent(g))
  <2>1. /\ cand' = [cand EXCEPT ![g].state = "processing", ![g].count = Spent(g) + 1]
        /\ attempts' = attempts \cup {[game |-> g, no |-> Spent(g) + 1, run |-> wk[w].run,
                                       token |-> wk[w].tok, outcome |-> "open"]}
        /\ Set(w, [wk[w] EXCEPT !.pc = "fetch", !.left = Tail(@), !.game = g, !.no = Spent(g) + 1])
        /\ UNCHANGED <<lease, cycle, enrolled, runs>>
    BY <1>2, <1>5 DEF Claim
  <2>. QED
    BY <1>1, <1>3, <1>5, <2>1, ClaimOfAttempt
<1>. QED
  BY <1>4, <1>5

\* The worker in charge closes its attempt, with what the candidate becomes.
LEMMA CommitIsSafe ==
    ASSUME IInv, NEW w \in Worker, wk[w].pc = "fetch", Verified(w),
           NEW outcome \in {"succeeded", "failed"}, NEW state \in {"processed", "failed", "retryable"},
           NEW as, as = Mine(w), attempts' = Closes(as, outcome),
           Rewritten(wk[w].game, state, wk[w].no),
           outcome = "succeeded" => state = "processed" /\ wk[w].game \in enrolled',
           enrolled \subseteq enrolled',
           Set(w, [wk[w] EXCEPT !.pc = "claim", !.game = NoGame, !.no = 0]),
           UNCHANGED <<lease, cycle, runs>>
    PROVE  IInv'
<1>1. IsWorker(wk[w]) /\ Works(w) /\ Current(w) /\ InCharge(w) /\ wk[w].tok = lease.token
  BY NotIdle, VerifiedIsCurrent DEF Current
<1>2. PICK Orders, Errs, Statuses : wk[w] \in Memory(Orders, Errs, Statuses)
  BY <1>1 DEF IsWorker
<1>3. PICK g \in Game : g = wk[w].game
  BY <1>1 DEF Works, InPlace, At
<1>4. PICK no \in Nat : no = wk[w].no
  BY <1>2 DEF Memory
<1>5. no \in Nos(g)
  BY <1>1, <1>3, <1>4 DEF Works, InPlace, At
<1>6. \A a : a \in as <=> a \in attempts /\ a.game = g /\ a.no = no /\ IsOpen(a)
  BY <1>3, <1>4 DEF Mine, AttemptsAt, IsOpen
<1>7. /\ \E a \in as : TRUE
      /\ \A b \in AttemptsAt(g) : b.no <= no /\ b.outcome # "succeeded"
      /\ \A a \in attempts : IsOpen(a) /\ a.token = wk[w].tok => a \in as
      /\ \A h \in Game : cand[h].state = "processing" => h = g
  BY <1>1, <1>3, <1>4, <1>6 DEF InCharge, MyAttempt, At, Ending, Outside
<1>8. \A a \in attempts : IsOpen(a) /\ a.game = g => a \in as
  BY <1>6, <1>7 DEF IInv, History, OpenIsBusy
<1>9. /\ cand' = [h \in Game |-> cand'[h]] /\ \A h \in Game : IsCandidate(cand'[h])
      /\ cand'[g].state = state /\ cand'[g].count = no
      /\ \A h \in Game : h # g => cand'[h] = cand[h]
      /\ Known \subseteq Known'
  <2>1. state \in State /\ state # "absent"
    BY DEF State
  <2>2. Rewritten(g, state, no)
    BY <1>3, <1>4
  <2>. QED
    BY <2>1, <2>2, CandidateWith
<1>10. as \subseteq attempts /\ (\A a \in as : IsOpen(a)) /\ outcome \in Outcome /\ outcome # "open"
  BY <1>6 DEF Outcome
<1>11. Closed(as, outcome) /\ \A h : Nos(h)' = Nos(h)
  BY <1>10, ClosesIsClosed DEF IInv
<1>12. Stored' /\ lease.token \in Nat /\ lease.token <= lease'.token /\ lease'.token \in Nat
  BY <1>9, <1>11 DEF IInv, Stored, Closed
<1>13. History'
  <2>1. \A h \in Game, k \in Nat : Nos(h) = 1..k /\ cand[h].count <= k => cand'[h].count <= k
    <3>1. SUFFICES ASSUME NEW h \in Game, NEW k \in Nat, Nos(h) = 1..k, cand[h].count <= k
                   PROVE  cand'[h].count <= k
      OBVIOUS
    <3>2. CASE h = g
      BY <1>5, <1>9, <3>1, <3>2
    <3>3. CASE h # g
      BY <1>9, <3>1, <3>3
    <3>. QED
      BY <3>2, <3>3
  <2>2. \A a \in attempts : a.game \in Game
    BY DEF IInv, Stored, Attempt
  <2>3. \A a \in attempts : a.outcome = "succeeded" => cand'[a.game].state = "processed"
    BY <1>7, <1>9, <2>2 DEF IInv, History, SuccessIsFinal, AttemptsAt
  <2>4. \A a \in attempts : IsOpen(a) /\ a \notin as => cand'[a.game].state \in {"processing", "processed"}
    BY <1>8, <1>9, <2>2 DEF IInv, History, OpenIsBusy
  <2>5. outcome = "succeeded" =>
            \A a \in as : /\ cand'[a.game].state = "processed" /\ a.game \in enrolled'
                          /\ \A b \in AttemptsAt(a.game) : b.no <= a.no /\ b.outcome # "succeeded"
    BY <1>3, <1>6, <1>7, <1>9
  <2>6. Stored /\ History
    BY DEF IInv
  <2>. QED
    BY <1>10, <1>12, <2>1, <2>3, <2>4, <2>5, <2>6, ClosingIsSafe
<1>14. Cursor'
  BY <1>9, CursorKeeps DEF IInv
<1>. DEFINE m == [wk[w] EXCEPT !.pc = "claim", !.game = NoGame, !.no = 0]
<1>15. /\ m \in Memory(Orders, Errs, Statuses) /\ m.pc = "claim" /\ m.run = wk[w].run
       /\ m.tok = wk[w].tok /\ m.batch = wk[w].batch
  BY <1>2 DEF Memory, PcValues, Acquired, Fenced
<1>16. wk' = [wk EXCEPT ![w] = m] /\ wk'[w] = m
  BY DEF Set, IInv, Working
<1>. HIDE DEF m
<1>17. IsWorker(m)
  BY <1>1, <1>15 DEF IsWorker
<1>18. Works(w)'
  <2>1. InPlace(w)'
    BY <1>1, <1>12, <1>15, <1>16 DEF InPlace, At, Scanning
  <2>2. \A a \in attempts' : ~(IsOpen(a) /\ a.token = m.tok)
    <3>1. \A a \in attempts' : IsOpen(a) => a \in attempts /\ a \notin as
      BY <1>10, <1>11 DEF Closed, IsOpen
    <3>. QED
      BY <1>7, <1>15, <3>1
  <2>3. \A h \in Game : cand'[h].state # "processing"
    BY <1>7, <1>9
  <2>4. InCharge(w)'
    BY <1>15, <1>16, <2>2, <2>3 DEF InCharge, At, Scanning
  <2>. QED
    BY <2>1, <2>4 DEF Works
<1>19. Holder(w) /\ wk'[w].tok = wk[w].tok
  BY <1>1, <1>15, <1>16 DEF Current
<1>. QED
  BY <1>1, <1>9, <1>11, <1>12, <1>13, <1>14, <1>15, <1>16, <1>17, <1>18, <1>19, StepIsSafe

LEMMA CommitSuccessIsSafe ==
    ASSUME IInv, NEW w \in Worker, CommitSuccess(w)
    PROVE  IInv'
<1>1. PICK outcome \in {"succeeded", "failed"} : outcome = "succeeded"
  OBVIOUS
<1>2. PICK state \in {"processed", "failed", "retryable"} : state = "processed"
  OBVIOUS
<1>3. PICK as : as = Mine(w)
  OBVIOUS
<1>4. /\ wk[w].pc = "fetch" /\ Verified(w) /\ attempts' = Closes(as, outcome)
      /\ Rewritten(wk[w].game, state, wk[w].no)
      /\ wk[w].game \in enrolled' /\ enrolled \subseteq enrolled'
      /\ Set(w, [wk[w] EXCEPT !.pc = "claim", !.game = NoGame, !.no = 0])
      /\ UNCHANGED <<lease, cycle, runs>>
  BY <1>1, <1>2, <1>3 DEF CommitSuccess, At, Rewritten
<1>. QED
  BY <1>1, <1>2, <1>3, <1>4, CommitIsSafe

LEMMA CommitFailureIsSafe ==
    ASSUME IInv, NEW w \in Worker, CommitFailure(w)
    PROVE  IInv'
<1>1. PICK outcome \in {"succeeded", "failed"} : outcome = "failed"
  OBVIOUS
<1>2. PICK state \in {"processed", "failed", "retryable"} : state = AfterFailure(wk[w].no)
  BY DEF AfterFailure
<1>3. PICK as : as = Mine(w)
  OBVIOUS
<1>4. /\ wk[w].pc = "fetch" /\ Verified(w) /\ attempts' = Closes(as, outcome)
      /\ Rewritten(wk[w].game, state, wk[w].no)
      /\ outcome # "succeeded" /\ enrolled \subseteq enrolled'
      /\ Set(w, [wk[w] EXCEPT !.pc = "claim", !.game = NoGame, !.no = 0])
      /\ UNCHANGED <<lease, cycle, runs>>
  BY <1>1, <1>2, <1>3 DEF CommitFailure, At, Rewritten
<1>. QED
  BY <1>3, <1>4, CommitIsSafe

LEMMA AbortIsSafe ==
    ASSUME IInv, NEW w \in Worker, Abort(w), Verified(w)
    PROVE  IInv'
<1>1. IsWorker(wk[w]) /\ Works(w) /\ Current(w) /\ InCharge(w) /\ wk[w].tok = lease.token
      /\ wk[w].pc = "abort"
  BY NotIdle, VerifiedIsCurrent DEF Current, Abort, At
<1>2. PICK as : as = {a \in attempts : a.run = wk[w].run /\ a.outcome = "open"}
  OBVIOUS
<1>3. PICK games : games = {a.game : a \in as}
  OBVIOUS
<1>4. PICK outcome \in Outcome : outcome = "failed" /\ outcome # "open" /\ outcome # "succeeded"
  BY DEF Outcome
<1>5. /\ UNCHANGED <<lease, cycle, enrolled, runs>>
      /\ attempts' = Closes(as, outcome)
      /\ cand' = [g \in Game |-> IF g \in games /\ cand[g].state = "processing"
                                 THEN [cand[g] EXCEPT !.state = AfterFailure(cand[g].count)]
                                 ELSE cand[g]]
  BY <1>2, <1>3, <1>4 DEF Abort
<1>6. PICK status, err : wk' = [wk EXCEPT ![w] = Over(w, status, err)]
  BY DEF Abort, Set, CutOff
<1>7. PICK m : m = Over(w, status, err)
  OBVIOUS
<1>8. wk' = [wk EXCEPT ![w] = m] /\ wk'[w] = m /\ IsWorker(m) /\ m.pc = "close" /\ m.tok = wk[w].tok
  <2>1. IsWorker(m) /\ m.pc = "close" /\ m.tok = wk[w].tok
    BY <1>1, <1>7, OverIsWorker
  <2>2. wk' = [wk EXCEPT ![w] = m] /\ wk'[w] = m
    BY <1>6, <1>7 DEF IInv, Working
  <2>. QED
    BY <2>1, <2>2
<1>9. as \subseteq attempts /\ \A a \in as : IsOpen(a)
  BY <1>2 DEF IsOpen
<1>10. ASSUME NEW g \in Game
       PROVE  /\ IsCandidate(cand'[g]) /\ cand'[g].count = cand[g].count
              /\ g \notin games => cand'[g] = cand[g]
              /\ cand[g].state # "processing" => cand'[g] = cand[g]
              /\ cand[g].state = "processing" => cand'[g].state # "absent"
  <2>1. PICK Orders : cand[g] \in [state : State, order : Orders, count : Nat]
    BY DEF IInv, Stored, IsCandidate
  <2>2. PICK state \in State : state = AfterFailure(cand[g].count) /\ state # "absent"
    BY DEF AfterFailure, State
  <2>3. PICK c : c = [cand[g] EXCEPT !.state = state]
    OBVIOUS
  <2>4. c \in [state : State, order : Orders, count : Nat] /\ c.count = cand[g].count /\ c.state = state
    BY <2>1, <2>3
  <2>5. cand'[g] = IF g \in games /\ cand[g].state = "processing" THEN c ELSE cand[g]
    BY <1>5, <2>2, <2>3
  <2>. QED
    BY <2>1, <2>2, <2>4, <2>5 DEF IsCandidate
<1>11. Closed(as, outcome) /\ \A g : Nos(g)' = Nos(g)
  BY <1>5, <1>9, ClosesIsClosed DEF IInv
<1>12. Stored' /\ lease.token \in Nat /\ lease.token <= lease'.token /\ lease'.token \in Nat
  <2>1. cand' = [g \in Game |-> cand'[g]]
    BY <1>5
  <2>2. \A g \in Game : IsCandidate(cand'[g])
    BY <1>10
  <2>3. UNCHANGED <<lease, cycle, runs>> /\ attempts' \subseteq Attempt
    BY <1>5, <1>11 DEF Closed
  <2>. QED
    BY <2>1, <2>2, <2>3 DEF IInv, Stored
<1>13. History'
  <2>1. \A a \in attempts : a.game \in Game
    BY DEF IInv, Stored, Attempt
  <2>2. \A g \in Game, n \in Nat : Nos(g) = 1..n /\ cand[g].count <= n => cand'[g].count <= n
    BY <1>10
  <2>3. \A a \in attempts : a.outcome = "succeeded" => cand'[a.game].state = "processed"
    BY <1>10, <2>1 DEF IInv, History, SuccessIsFinal
  <2>4. \A a \in attempts : IsOpen(a) /\ a \notin as => cand'[a.game].state \in {"processing", "processed"}
    <3>1. SUFFICES ASSUME NEW a \in attempts, IsOpen(a), a \notin as
                   PROVE  cand'[a.game].state \in {"processing", "processed"}
      OBVIOUS
    <3>2. a.game \notin games
      BY <1>3, <1>9, <3>1 DEF IInv, History, OpenIsBusy
    <3>. QED
      BY <1>10, <2>1, <3>1, <3>2 DEF IInv, History, OpenIsBusy
  <2>5. Stored /\ History /\ attempts' = Closes(as, outcome) /\ enrolled \subseteq enrolled'
    BY <1>5 DEF IInv
  <2>. QED
    BY <1>4, <1>9, <1>12, <2>2, <2>3, <2>4, <2>5, ClosingIsSafe
<1>14. Known \subseteq Known'
  BY <1>10 DEF Known
<1>15. Cursor'
  BY <1>5, <1>14, CursorKeeps DEF IInv
<1>16. Works(w)'
  BY <1>1, <1>5, <1>8, <1>12 DEF Works, InPlace, InCharge, At, Scanning, Ending, Outside
<1>17. Holder(w) /\ wk'[w].tok = wk[w].tok
  BY <1>1, <1>8 DEF Current
<1>. QED
  BY <1>1, <1>5, <1>8, <1>11, <1>12, <1>13, <1>14, <1>15, <1>16, <1>17, StepIsSafe

-----------------------------------------------------------------------------
(* Time and people.                                                            *)

LEMMA WorldIsSafe ==
    ASSUME IInv, UNCHANGED <<wk, attempts, cycle, runs>>, Stored', History', Known \subseteq Known',
           lease'.token = lease.token,
           \A g \in Game : cand'[g].state = "processing" => cand[g].state = "processing"
    PROVE  IInv'
<1>1. lease.token \in Nat /\ lease'.token \in Nat /\ lease.token <= lease'.token
  BY DEF IInv, Stored
<1>2. Cursor'
  BY CursorKeeps DEF IInv
<1>3. \A g \in Game : Nos(g) \subseteq Nos(g)'
  BY DEF Nos, AttemptsAt
<1>4. ASSUME NEW v \in Worker
      PROVE  Works(v)'
  BY <1>1, <1>3, OthersKeep
<1>5. Working' /\ TokensApart'
  BY DEF IInv, Working, TokensApart, Holder, At
<1>. QED
  BY <1>2, <1>4, <1>5 DEF IInv

LEMMA ExpireIsSafe ==
    ASSUME IInv, Expire
    PROVE  IInv'
<1>1. /\ UNCHANGED <<cycle, cand, attempts, enrolled, runs, wk>>
      /\ lease' = [lease EXCEPT !.live = FALSE]
  BY DEF Expire
<1>2. /\ lease' \in [token : Nat, owner : Run \cup {NoRun}, live : BOOLEAN]
      /\ lease'.token = lease.token /\ lease'.live = FALSE
  BY <1>1 DEF IInv, Stored
<1>3. SameButEnds
  BY <1>1, <1>2 DEF IInv, Stored, SameButEnds
<1>4. Stored' /\ History' /\ Known \subseteq Known'
  BY <1>3, SameKeeps
<1>. QED
  BY <1>1, <1>2, <1>4, WorldIsSafe

LEMMA PeopleAreSafe ==
    ASSUME IInv, UNCHANGED <<wk, attempts, cycle, runs, lease>>, enrolled \subseteq enrolled',
           NEW g \in Game, NEW c, IsCandidate(c), cand' = [cand EXCEPT ![g] = c],
           c.count <= cand[g].count, c.state \in {"processed", "retryable"},
           c.state = "retryable" => cand[g].state \in {"failed", "retryable"}
    PROVE  IInv'
<1>1. /\ cand' = [h \in Game |-> cand'[h]] /\ \A h \in Game : IsCandidate(cand'[h])
      /\ cand'[g] = c /\ \A h \in Game : h # g => cand'[h] = cand[h]
      /\ \A h \in Game : IsCandidate(cand[h])
  BY DEF IInv, Stored
<1>2. Stored' /\ lease.token \in Nat /\ lease'.token \in Nat /\ lease.token <= lease'.token
  BY <1>1 DEF IInv, Stored
<1>3. Known \subseteq Known'
  BY <1>1 DEF Known
<1>4. History'
  <2>1. c.count \in Nat /\ cand[g].count \in Nat
    BY <1>1 DEF IsCandidate
  <2>2. \A h \in Game, k \in Nat : Nos(h) = 1..k /\ cand[h].count <= k => cand'[h].count <= k
    BY <1>1, <2>1
  <2>3. /\ \A h \in Game : cand[h].state = "processed" => cand'[h].state = "processed"
        /\ \A h \in Game : cand[h].state = "processing" => cand'[h].state \in {"processing", "processed"}
    BY <1>1
  <2>. QED
    BY <1>2, <2>2, <2>3, HistoryKeeps DEF IInv
<1>5. \A h \in Game : cand'[h].state = "processing" => cand[h].state = "processing"
  BY <1>1
<1>. QED
  BY <1>2, <1>3, <1>4, <1>5, WorldIsSafe

LEMMA ManualIngestIsSafe ==
    ASSUME IInv, NEW g \in Game, ManualIngest(g)
    PROVE  IInv'
<1>1. PICK order : order = IF g \in Known THEN cand[g].order ELSE NextOrder
  OBVIOUS
<1>2. PICK c : c = [state |-> "processed", count |-> cand[g].count, order |-> order]
  OBVIOUS
<1>3. cand[g].count \in Nat
  BY DEF IInv, Stored, IsCandidate
<1>4. c \in [state : State, order : {order}, count : Nat] /\ c.count = cand[g].count
      /\ c.state = "processed"
  BY <1>2, <1>3 DEF State
<1>5. cand' = [cand EXCEPT ![g] = c]
  BY <1>1, <1>2 DEF ManualIngest
<1>6. UNCHANGED <<wk, attempts, cycle, runs, lease>> /\ enrolled \subseteq enrolled'
  BY DEF ManualIngest
<1>7. IsCandidate(c) /\ c.count <= cand[g].count
  <2>1. PICK Orders : Orders = {order}
    OBVIOUS
  <2>2. c \in [state : State, order : Orders, count : Nat]
    BY <1>4, <2>1
  <2>. QED
    BY <1>3, <1>4, <2>2 DEF IsCandidate
<1>. QED
  BY <1>4, <1>5, <1>6, <1>7, PeopleAreSafe

LEMMA OperatorEditIsSafe ==
    ASSUME IInv, NEW g \in Game, OperatorEdit(g)
    PROVE  IInv'
<1>1. PICK Orders : cand[g] \in [state : State, order : Orders, count : Nat]
  BY DEF IInv, Stored, IsCandidate
<1>2. PICK c : c = [cand[g] EXCEPT !.state = "retryable", !.count = 0]
  OBVIOUS
<1>3. c \in [state : State, order : Orders, count : Nat] /\ c.count = 0 /\ c.state = "retryable"
  BY <1>1, <1>2 DEF State
<1>4. cand' = [cand EXCEPT ![g] = c]
  BY <1>2 DEF OperatorEdit, IInv, Stored
<1>5. UNCHANGED <<wk, attempts, cycle, runs, lease>> /\ enrolled \subseteq enrolled'
      /\ cand[g].state \in {"failed", "retryable"}
  BY DEF OperatorEdit
<1>6. IsCandidate(c) /\ c.count <= cand[g].count
  BY <1>1, <1>3 DEF IsCandidate
<1>. QED
  BY <1>3, <1>4, <1>5, <1>6, PeopleAreSafe

-----------------------------------------------------------------------------
(* The theorems.                                                               *)

LEMMA InitIsSafe == Init => IInv
<1>. SUFFICES ASSUME Init PROVE IInv
  OBVIOUS
<1>1. /\ lease = [token |-> 0, owner |-> NoRun, live |-> FALSE]
      /\ cycle = [phase |-> "new_releases_pending", page |-> 1]
      /\ attempts = {} /\ wk = [w \in Worker |-> Idle]
      /\ cand = [g \in Game |-> [state |-> "absent", order |-> 0, count |-> 0]]
      /\ runs = [r \in Run |-> [status |-> "queued", token |-> 0, frozen |-> FALSE,
                                batch |-> <<>>, err |-> FALSE]]
  BY DEF Init
<1>2. \A g \in Game : IsCandidate(cand[g]) /\ cand[g].count = 0
  <2>1. SUFFICES ASSUME NEW g \in Game PROVE IsCandidate(cand[g]) /\ cand[g].count = 0
    OBVIOUS
  <2>2. cand[g] \in [state : State, order : {0}, count : Nat] /\ cand[g].count = 0
    BY <1>1 DEF State
  <2>. QED
    BY <2>2 DEF IsCandidate
<1>3. \A r \in Run : IsRun(runs[r])
  <2>1. SUFFICES ASSUME NEW r \in Run PROVE IsRun(runs[r])
    OBVIOUS
  <2>2. PICK none \in Seq(Game) : none = <<>> /\ Len(none) = 0
    <3>1. <<>> \in Seq(Game) /\ Len(<<>>) = 0
      OBVIOUS
    <3>. QED
      BY <3>1
  <2>3. runs[r] = [status |-> "queued", token |-> 0, frozen |-> FALSE, batch |-> none, err |-> FALSE]
    BY <1>1, <2>2
  <2>4. /\ runs[r] \in [status : {"queued"}, token : {0}, frozen : BOOLEAN, batch : Seq(Game),
                        err : {FALSE}]
        /\ runs[r].batch = none
    BY <2>3
  <2>5. Len(runs[r].batch) <= Limit
    BY <2>2, <2>4, Bounds
  <2>6. PICK Statuses, Tokens, Errs : runs[r] \in [status : Statuses, token : Tokens, frozen : BOOLEAN,
                                                   batch : Seq(Game), err : Errs]
    BY <2>4
  <2>. QED
    BY <2>5, <2>6 DEF IsRun
<1>4. Stored
  <2>1. lease \in [token : Nat, owner : Run \cup {NoRun}, live : BOOLEAN] /\ ~lease.live
    BY <1>1
  <2>2. cycle \in [phase : Phase, page : Nat \ {0}]
    BY <1>1 DEF Phase
  <2>3. cand = [g \in Game |-> cand[g]] /\ runs = [r \in Run |-> runs[r]]
    BY <1>1
  <2>. QED
    BY <1>1, <1>2, <1>3, <2>1, <2>2, <2>3 DEF Stored
<1>5. Working
  BY <1>1, IdleIsWorker DEF Working
<1>6. Numbered
  <2>1. \A g \in Game : Nos(g) = 1..0
    BY <1>1 DEF Nos, AttemptsAt
  <2>2. 0 \in 0..MaxAttempts
    BY Bounds
  <2>3. \A g \in Game : \E n \in 0..MaxAttempts : Nos(g) = 1..n /\ cand[g].count <= n
    <3>1. SUFFICES ASSUME NEW g \in Game
                   PROVE  Nos(g) = 1..0 /\ cand[g].count <= 0
      BY <2>2
    <3>. QED
      BY <1>2, <2>1
  <2>. QED
    BY <1>1, <2>3 DEF Numbered
<1>7. History
  BY <1>1, <1>6 DEF History, OpenIsBusy, Granted, SuccessIsFinal, OncePerRun
<1>8. Cursor
  BY <1>1 DEF Cursor, Stands, CursorKeepsUp
<1>9. \A w \in Worker : wk[w].pc = "idle"
  BY <1>1, IdleIsWorker
<1>10. TokensApart /\ \A w \in Worker : Works(w)
  BY <1>9 DEF TokensApart, Holder, At, Works, InPlace, Current, Scanning
<1>. QED
  BY <1>4, <1>5, <1>7, <1>8, <1>10 DEF IInv

LEMMA StepOfWorker ==
    ASSUME IInv, NEW w \in Worker, Step(w)
    PROVE  IInv'
<1>1. ASSUME NEW r \in Run, Begin(w, r) \/ Resume(w, r) PROVE IInv'
  BY <1>1, BeginIsSafe, ResumeIsSafe
<1>7. CASE Acquire(w) \/ Overlap(w) \/ MarkRunning(w) \/ TakeUp(w)
  BY <1>7, AcquireIsSafe, OverlapIsSafe, MarkIsSafe, TakeUpIsSafe
<1>2. CASE Recover(w) \/ Select(w) \/ ReadListing(w) \/ ListingFails(w) \/ Insert(w)
  BY <1>2, RecoverIsSafe, SelectIsSafe, ReadListingIsSafe, ListingFailsIsSafe, InsertIsSafe
<1>3. CASE Freeze(w) \/ Skip(w) \/ Claim(w) \/ CommitSuccess(w) \/ CommitFailure(w)
  BY <1>3, FreezeIsSafe, SkipIsSafe, ClaimIsSafe, CommitSuccessIsSafe, CommitFailureIsSafe
<1>4. CASE Fault(w) \/ InsertClashes(w) \/ FreezeClashes(w) \/ LoseLease(w) \/ Legacy(w) \/ FinishBatch(w)
  BY Zenon, <1>4, GivingUpIsSafe
<1>5. CASE Abort(w)
  BY <1>5, AbortIsSafe, GivingUpIsSafe
<1>6. CASE Close(w) \/ Crash(w)
  BY <1>6, CloseIsSafe, CrashIsSafe
<1>. QED
  BY <1>1, <1>2, <1>3, <1>4, <1>5, <1>6, <1>7 DEF Step

LEMMA NextIsSafe == IInv /\ [Next]_vars => IInv'
<1>. SUFFICES ASSUME IInv, [Next]_vars PROVE IInv'
  OBVIOUS
<1>1. ASSUME NEW w \in Worker, Step(w) PROVE IInv'
  BY <1>1, StepOfWorker
<1>2. ASSUME NEW g \in Ingested, ManualIngest(g) PROVE IInv'
  <2>1. Ingested \subseteq Game
    BY Zenon, BatchAssumption
  <2>. QED
    BY <1>2, <2>1, ManualIngestIsSafe
<1>3. ASSUME NEW g \in Game, OperatorEdit(g) PROVE IInv'
  BY <1>3, OperatorEditIsSafe
<1>4. CASE Expire
  BY <1>4, ExpireIsSafe
<1>5. CASE UNCHANGED vars
  <2>1. UNCHANGED <<lease, cycle, cand, attempts, enrolled, runs, wk>>
    BY <1>5 DEF vars
  <2>2. SameButEnds
    BY <2>1, SameIsQuiet
  <2>3. Stored' /\ History' /\ Known \subseteq Known'
    BY <2>2, SameKeeps
  <2>. QED
    BY <2>1, <2>3, WorldIsSafe
<1>. QED
  BY <1>1, <1>2, <1>3, <1>4, <1>5 DEF Next

\* The invariant of a day of batches: one attempt per number, one open attempt per candidate,
\* one worker in charge, and a cursor with nothing lost behind it, in every reachable state.
THEOREM InvariantHolds == Spec => []IInv
BY InitIsSafe, NextIsSafe, PTL DEF Spec

LEMMA NumberedIsBudget ==
    ASSUME IInv
    PROVE  AttemptBudget
<1>1. SUFFICES ASSUME NEW g \in Game
               PROVE  /\ {a.no : a \in AttemptsAt(g)} = 1..Cardinality(AttemptsAt(g))
                      /\ Cardinality(AttemptsAt(g)) <= MaxAttempts
  BY DEF AttemptBudget
<1>2. PICK n \in 0..MaxAttempts : Nos(g) = 1..n
  BY DEF IInv, History, Numbered
<1>3. n \in Nat /\ n <= MaxAttempts
  BY Bounds
<1>4. IsFiniteSet(1..n) /\ Cardinality(1..n) = n
  BY <1>3, FS_Interval
<1>. DEFINE f == [a \in AttemptsAt(g) |-> a.no]
<1>5. f \in Injection(AttemptsAt(g), 1..n)
  <2>1. \A a \in AttemptsAt(g) : a.no \in 1..n
    BY <1>2 DEF Nos
  <2>2. \A a, b \in AttemptsAt(g) : a.no = b.no => a = b
    BY DEF AttemptsAt, IInv, History, Numbered
  <2>. QED
    BY <2>1, <2>2 DEF Injection, IsInjective
<1>6. f \in Surjection(AttemptsAt(g), 1..n)
  <2>1. \A k \in 1..n : \E a \in AttemptsAt(g) : f[a] = k
    BY <1>2 DEF Nos
  <2>. QED
    BY <1>5, <2>1 DEF Injection, Surjection
<1>. HIDE DEF f
<1>7. Cardinality(AttemptsAt(g)) = n
  BY <1>4, <1>5, <1>6, FS_Injection
<1>. QED
  BY <1>2, <1>3, <1>7 DEF Nos

\* Crashes, recoveries and hand edits never win a candidate an attempt beyond the limit, and no
\* attempt number is used twice (process_candidate and _recover_stale_candidates).
THEOREM AttemptBudgetHolds == Spec => []AttemptBudget
BY NumberedIsBudget, InvariantHolds, PTL

\* A run repeats a candidate only after an interruption: a classified failure waits for another
\* run (the check of the latest attempt in process_candidate).
THEOREM OncePerRunHolds == Spec => []OncePerRun
<1>1. IInv => OncePerRun
  BY DEF IInv, History
<1>. QED
  BY <1>1, InvariantHolds, PTL

LEMMA HolderStrandsNothing ==
    ASSUME IInv
    PROVE  NothingStranded
<1>1. SUFFICES ASSUME NEW w \in Worker, Verified(w), wk[w].pc \notin Outside,
                      NEW g \in Game, cand[g].state = "processing"
               PROVE  At(w, "fetch") /\ wk[w].game = g
  BY DEF NothingStranded
<1>2. InCharge(w)
  BY <1>1, VerifiedIsCurrent DEF Outside
<1>. QED
  BY <1>1, <1>2 DEF InCharge

\* After recovery the only candidate in "processing" is the one the holder of the lease is
\* fetching, however many instances died or lost the lease before it.
THEOREM NothingStrandedHolds == Spec => []NothingStranded
BY HolderStrandsNothing, InvariantHolds, PTL

\* No page of SEE ALL is left behind with an identity that is not a candidate, for any listing
\* and any interleaving of the reads with manual ingest.
THEOREM CursorKeepsUpHolds == Spec => []CursorKeepsUp
<1>1. IInv => CursorKeepsUp
  BY DEF IInv, Cursor
<1>. QED
  BY <1>1, InvariantHolds, PTL

\* A successful attempt is the last of its candidate, which stays processed and enrolled.
THEOREM SuccessIsFinalHolds == Spec => []SuccessIsFinal
<1>1. IInv => SuccessIsFinal
  BY DEF IInv, History
<1>. QED
  BY <1>1, InvariantHolds, PTL

\* What freezing does to its worker and to its run.
LEMMA FreezeKeeps ==
    ASSUME IInv, NEW w \in Worker, Freeze(w)
    PROVE  /\ wk[w].run \in Run /\ wk[w].batch \in Seq(Game) /\ Len(wk[w].batch) <= Limit
           /\ wk'[w] = Held(w, wk[w].batch, wk[w].err)
           /\ runs'[wk[w].run].frozen
           /\ \/ runs'[wk[w].run].batch = runs[wk[w].run].batch /\ wk[w].batch = <<>>
              \/ runs'[wk[w].run].batch = wk[w].batch /\ runs[wk[w].run].batch = <<>>
           /\ \A s \in Run : s # wk[w].run => runs'[s] = runs[s]
<1>. DEFINE r == wk[w].run
<1>1. IsWorker(wk[w]) /\ r \in Run /\ IsRun(runs[r]) /\ runs = [s \in Run |-> runs[s]]
  BY NotIdle DEF Freeze, At, IInv, Stored
<1>2. wk[w].batch \in Seq(Game) /\ Len(wk[w].batch) <= Limit
  BY <1>1 DEF IsWorker, Memory
<1>3. wk'[w] = Held(w, wk[w].batch, wk[w].err)
  BY DEF Freeze, Set, Held, IInv, Working
<1>4. PICK d : d = [runs[r] EXCEPT !.frozen = TRUE, !.batch = @ \o wk[w].batch, !.err = wk[w].err]
  OBVIOUS
<1>5. PICK Statuses, Tokens, Errs : runs[r] \in [status : Statuses, token : Tokens, frozen : BOOLEAN,
                                                 batch : Seq(Game), err : Errs]
  BY <1>1 DEF IsRun
<1>6. d.frozen /\ d.batch = runs[r].batch \o wk[w].batch
  BY <1>4, <1>5
<1>7. \/ d.batch = runs[r].batch /\ wk[w].batch = <<>>
      \/ d.batch = wk[w].batch /\ runs[r].batch = <<>>
  <2>1. wk[w].batch = <<>> \/ runs[r].batch = <<>>
    BY DEF Freeze, Clashes
  <2>2. runs[r].batch \in Seq(Game)
    BY <1>5
  <2>3. wk[w].batch = <<>> => runs[r].batch \o wk[w].batch = runs[r].batch
    BY <2>2
  <2>4. runs[r].batch = <<>> => runs[r].batch \o wk[w].batch = wk[w].batch
    BY <1>2
  <2>. QED
    BY <1>6, <2>1, <2>3, <2>4
<1>8. runs' = [runs EXCEPT ![r] = d]
  BY <1>1, <1>4 DEF Freeze
<1>9. runs'[r] = d /\ \A s \in Run : s # r => runs'[s] = runs[s]
  BY <1>1, <1>8
<1>. QED
  BY <1>1, <1>2, <1>3, <1>6, <1>7, <1>9

\* Only the step that freezes a run gives it a batch.
LEMMA OnlyFreezes ==
    ASSUME IInv, [Next]_vars, NEW r \in Run
    PROVE  \/ runs'[r].frozen = runs[r].frozen /\ runs'[r].batch = runs[r].batch
           \/ \E w \in Worker : Freeze(w) /\ wk[w].run = r
<1>. DEFINE Same == \A s \in Run : runs'[s].frozen = runs[s].frozen /\ runs'[s].batch = runs[s].batch
<1>1. runs = [s \in Run |-> runs[s]]
  BY DEF IInv, Stored
<1>2. ASSUME NEW w \in Worker, NEW s \in Run, Resume(w, s)
      PROVE  Same
  <2>1. runs' = [runs EXCEPT ![s] = [runs[s] EXCEPT !.status = "running", !.token = lease.token + 1]]
    BY <1>1, <1>2 DEF Resume
  <2>. QED
    BY <2>1, RunsRewritten
<1>3. ASSUME NEW w \in Worker, Overlap(w) \/ MarkRunning(w) \/ Close(w)
      PROVE  Same
  <2>1. PICK s \in Run : s = wk[w].run
    BY <1>3, NotIdle DEF Overlap, MarkRunning, Close, At
  <2>2. Overlap(w) => \/ runs' = runs
                      \/ runs' = [runs EXCEPT ![s] = [runs[s] EXCEPT !.status = "skipped"]]
    BY <1>1, <2>1 DEF Overlap
  <2>3. MarkRunning(w) =>
          runs' = [runs EXCEPT ![s] = [runs[s] EXCEPT !.status = "running", !.token = wk[w].tok]]
    BY <1>1, <2>1 DEF MarkRunning
  <2>4. Close(w) =>
          \/ runs' = runs
          \/ runs' = [runs EXCEPT ![s] = [runs[s] EXCEPT !.status = wk[w].status, !.err = wk[w].err]]
    BY <1>1, <2>1 DEF Close
  <2>5. PICK x, y :
          \/ runs' = runs
          \/ runs' = [runs EXCEPT ![s] = [runs[s] EXCEPT !.status = x]]
          \/ runs' = [runs EXCEPT ![s] = [runs[s] EXCEPT !.status = x, !.token = y]]
          \/ runs' = [runs EXCEPT ![s] = [runs[s] EXCEPT !.status = x, !.err = y]]
    BY Zenon, <1>3, <2>2, <2>3, <2>4
  <2>6. \A t \in Run : runs'[t].frozen = runs[t].frozen /\ runs'[t].batch = runs[t].batch
    BY ZenonT(60), <2>5, RunsRewritten
  <2>. QED
    BY <2>6
<1>4. ASSUME NEW w \in Worker, Step(w), ~(\E s \in Run : Resume(w, s)), ~Freeze(w),
             ~Overlap(w), ~MarkRunning(w), ~Close(w)
      PROVE  runs' = runs
  <2>1. (\E s \in Run : Begin(w, s)) \/ Acquire(w) \/ Recover(w) \/ TakeUp(w) => runs' = runs
    BY Zenon DEF Begin, Acquire, Recover, TakeUp
  <2>2. Legacy(w) \/ Select(w) \/ ReadListing(w) \/ ListingFails(w) => runs' = runs
    BY Zenon DEF Legacy, Select, ReadListing, ListingFails
  <2>3. Insert(w) \/ InsertClashes(w) \/ FreezeClashes(w) \/ Skip(w) => runs' = runs
    BY Zenon DEF Insert, InsertClashes, FreezeClashes, Skip
  <2>4. Claim(w) \/ CommitSuccess(w) \/ CommitFailure(w) \/ FinishBatch(w) => runs' = runs
    BY Zenon DEF Claim, CommitSuccess, CommitFailure, FinishBatch
  <2>5. LoseLease(w) \/ Abort(w) \/ Fault(w) \/ Crash(w) => runs' = runs
    BY Zenon DEF LoseLease, Abort, Fault, Crash
  <2>. QED
    BY <1>4, <2>1, <2>2, <2>3, <2>4, <2>5 DEF Step
<1>5. ASSUME \/ \E g \in Ingested : ManualIngest(g)
             \/ \E g \in Game : OperatorEdit(g)
             \/ Expire
             \/ UNCHANGED vars
      PROVE  runs' = runs
  BY <1>5 DEF ManualIngest, OperatorEdit, Expire, vars
<1>6. ASSUME NEW w \in Worker, Step(w), ~Freeze(w)
      PROVE  Same
  BY <1>2, <1>3, <1>4, <1>6
<1>7. ASSUME NEW w \in Worker, Freeze(w), wk[w].run # r
      PROVE  runs'[r] = runs[r]
  BY <1>7, FreezeKeeps
<1>. QED
  BY <1>5, <1>6, <1>7 DEF Next

\* A batch that has items stays what it is: only an empty one may be filled.
LEMMA BatchStays ==
    ASSUME IInv, [Next]_vars, NEW r \in Run
    PROVE  /\ runs[r].frozen => runs'[r].frozen
           /\ runs[r].batch # <<>> => runs'[r].batch = runs[r].batch
           /\ Range(runs[r].batch) \subseteq Range(runs'[r].batch)
<1>1. CASE runs'[r].frozen = runs[r].frozen /\ runs'[r].batch = runs[r].batch
  BY <1>1
<1>2. ASSUME NEW w \in Worker, Freeze(w), wk[w].run = r
      PROVE  /\ runs'[r].frozen
             /\ runs[r].batch = <<>> \/ runs'[r].batch = runs[r].batch
  BY <1>2, FreezeKeeps
<1>3. Range(<<>>) = {}
  BY DEF Range
<1>. QED
  BY <1>1, <1>2, <1>3, OnlyFreezes

-----------------------------------------------------------------------------
(* A run that is closed as succeeded has left nothing of its batch behind.     *)

\* The worker in charge is fetching game g.
Fetching(g) == \E u \in Worker : Current(u) /\ At(u, "fetch") /\ wk[u].game = g

\* Nothing that happens later makes game g an item that run r still owes an attempt.
Tried(r, g)    == \E a \in AttemptsAt(g) : a.run = r /\ a.outcome = "failed"
Settled(g)     == cand[g].state = "processed" /\ ~Fetching(g)
Resolved(r, g) == Settled(g) \/ Exhausted(LastNo(g)) \/ Tried(r, g)

\* Where an item of the batch that worker w has taken up is while it works on it.
Placed(w, g) == \/ g \in Range(wk[w].left)
                \/ At(w, "fetch") /\ wk[w].game = g
                \/ Resolved(wk[w].run, g)

Passing(w) ==
    wk[w].pc \in {"claim", "fetch"} =>
        /\ wk[w].status = "queued"
        /\ Range(wk[w].batch) \subseteq Range(runs[wk[w].run].batch)
        /\ Range(wk[w].left) \subseteq Range(wk[w].batch)
        /\ \A g \in Range(wk[w].batch) : Placed(w, g)

\* Whatever was attempted is an item of the run that attempted it.
AttemptsBatched == \A a \in attempts : a.game \in Range(runs[a.run].batch)

ItemsKnown == /\ \A w \in Worker : Range(wk[w].batch) \subseteq Known
              /\ \A r \in Run : Range(runs[r].batch) \subseteq Known

FailedIsSpent == \A g \in Game : cand[g].state = "failed" => Exhausted(LastNo(g))

\* The attempt a worker makes is one of the run it works for.
Owned(w) == At(w, "fetch") =>
                \E a \in AttemptsAt(wk[w].game) : a.no = wk[w].no /\ a.run = wk[w].run

DInv == IInv /\ ItemsKnown /\ FailedIsSpent /\ AttemptsBatched /\ \A w \in Worker : Passing(w) /\ Owned(w)

\* The attempts keep what they are attempts at, and by whom.
RowsStay == \A a \in attempts : \E b \in attempts' : b.game = a.game /\ b.no = a.no /\ b.run = a.run

\* The attempt that worker w claims.
Claimed(w, no) == [game |-> Head(wk[w].left), no |-> no, run |-> wk[w].run, token |-> wk[w].tok,
                   outcome |-> "open"]

\* Attempts are claimed and closed, and nothing else happens to them.
LEMMA AttemptsMove ==
    ASSUME IInv, [Next]_vars
    PROVE  \/ attempts' = attempts
           \/ \E w \in Worker : Claim(w) /\ \E no : attempts' = attempts \cup {Claimed(w, no)}
           \/ \E as \in SUBSET attempts, outcome \in Outcome : /\ \A a \in as : a.outcome = "open"
                                                               /\ attempts' = Closes(as, outcome)
<1>1. ASSUME NEW w \in Worker, Recover(w)
      PROVE  \E as \in SUBSET attempts : /\ \A a \in as : a.outcome = "open"
                                         /\ attempts' = Closes(as, "interrupted")
  BY <1>1 DEF Recover
<1>2. ASSUME NEW w \in Worker, CommitSuccess(w)
      PROVE  \E as \in SUBSET attempts : /\ \A a \in as : a.outcome = "open"
                                         /\ attempts' = Closes(as, "succeeded")
  BY <1>2 DEF CommitSuccess, Mine, AttemptsAt
<1>3. ASSUME NEW w \in Worker, CommitFailure(w)
      PROVE  \E as \in SUBSET attempts : /\ \A a \in as : a.outcome = "open"
                                         /\ attempts' = Closes(as, "failed")
  BY <1>3 DEF CommitFailure, Mine, AttemptsAt
<1>4. ASSUME NEW w \in Worker, Abort(w)
      PROVE  \/ attempts' = attempts
             \/ \E as \in SUBSET attempts : /\ \A a \in as : a.outcome = "open"
                                            /\ attempts' = Closes(as, "failed")
  BY <1>4 DEF Abort
<1>5. ASSUME NEW w \in Worker, Claim(w)
      PROVE  \/ attempts' = attempts
             \/ \E no : attempts' = attempts \cup {Claimed(w, no)}
  BY Zenon, <1>5 DEF Claim, Claimed
<1>6. ASSUME NEW w \in Worker, Step(w),
             ~Recover(w), ~CommitSuccess(w), ~CommitFailure(w), ~Abort(w), ~Claim(w)
      PROVE  attempts' = attempts
  <2>1. (\E r \in Run : Begin(w, r) \/ Resume(w, r)) => attempts' = attempts
    BY Zenon DEF Begin, Resume
  <2>2. Acquire(w) \/ Overlap(w) \/ MarkRunning(w) \/ TakeUp(w) => attempts' = attempts
    BY Zenon DEF Acquire, Overlap, MarkRunning, TakeUp
  <2>3. Legacy(w) \/ Select(w) \/ ReadListing(w) \/ ListingFails(w) => attempts' = attempts
    BY Zenon DEF Legacy, Select, ReadListing, ListingFails
  <2>4. Insert(w) \/ InsertClashes(w) \/ Freeze(w) \/ FreezeClashes(w) => attempts' = attempts
    BY Zenon DEF Insert, InsertClashes, Freeze, FreezeClashes
  <2>5. Skip(w) \/ FinishBatch(w) \/ LoseLease(w) => attempts' = attempts
    BY Zenon DEF Skip, FinishBatch, LoseLease
  <2>6. Close(w) \/ Fault(w) \/ Crash(w) => attempts' = attempts
    BY Zenon DEF Close, Fault, Crash
  <2>. QED
    BY <1>6, <2>1, <2>2, <2>3, <2>4, <2>5, <2>6 DEF Step
<1>7. ASSUME \/ \E g \in Ingested : ManualIngest(g)
             \/ \E g \in Game : OperatorEdit(g)
             \/ Expire
             \/ UNCHANGED vars
      PROVE  attempts' = attempts
  BY <1>7 DEF ManualIngest, OperatorEdit, Expire, vars
<1>8. {"interrupted", "succeeded", "failed"} \subseteq Outcome
  BY DEF Outcome
<1>9. ASSUME NEW w \in Worker, Step(w)
      PROVE  \/ attempts' = attempts
             \/ Claim(w) /\ \E no : attempts' = attempts \cup {Claimed(w, no)}
             \/ \E as \in SUBSET attempts, outcome \in Outcome : /\ \A a \in as : a.outcome = "open"
                                                                 /\ attempts' = Closes(as, outcome)
  <2>1. CASE Recover(w)
    BY <1>1, <1>8, <2>1
  <2>2. CASE CommitSuccess(w)
    BY <1>2, <1>8, <2>2
  <2>3. CASE CommitFailure(w)
    BY <1>3, <1>8, <2>3
  <2>4. CASE Abort(w)
    BY <1>4, <1>8, <2>4
  <2>5. CASE Claim(w)
    BY <1>5, <2>5
  <2>6. CASE ~Recover(w) /\ ~CommitSuccess(w) /\ ~CommitFailure(w) /\ ~Abort(w) /\ ~Claim(w)
    BY <1>6, <1>9, <2>6
  <2>. QED
    BY <2>1, <2>2, <2>3, <2>4, <2>5, <2>6
<1>. QED
  BY <1>7, <1>9 DEF Next

\* An attempt that has ended stays as it is, and one that is open keeps what it is an attempt at.
LEMMA EndedStay ==
    ASSUME IInv, [Next]_vars
    PROVE  /\ \A g \in Game : Nos(g) \subseteq Nos(g)'
           /\ \A a \in attempts : a.outcome # "open" => a \in attempts'
           /\ RowsStay
<1>1. ASSUME attempts \subseteq attempts'
      PROVE  /\ \A g \in Game : Nos(g) \subseteq Nos(g)'
             /\ \A a \in attempts : a.outcome # "open" => a \in attempts'
             /\ RowsStay
  BY <1>1 DEF Nos, AttemptsAt, RowsStay
<1>2. ASSUME NEW as, as \subseteq attempts, \A a \in as : a.outcome = "open",
             NEW outcome \in Outcome, attempts' = Closes(as, outcome)
      PROVE  /\ \A g \in Game : Nos(g) \subseteq Nos(g)'
             /\ \A a \in attempts : a.outcome # "open" => a \in attempts'
             /\ RowsStay
  <2>1. Closed(as, outcome) /\ \A g : Nos(g)' = Nos(g)
    BY <1>2, ClosesIsClosed DEF IInv
  <2>2. \A a \in attempts : a.outcome # "open" => a \in attempts'
    BY <1>2, <2>1 DEF Closed
  <2>3. RowsStay
    BY <2>1 DEF Closed, RowsStay
  <2>. QED
    BY <2>1, <2>2, <2>3
<1>. QED
  BY <1>1, <1>2, AttemptsMove

\* Every attempt is one that was there, perhaps closed since, or has just been claimed.
LEMMA RowsComeFrom ==
    ASSUME IInv, [Next]_vars, NEW b \in attempts'
    PROVE  \/ \E a \in attempts : b.game = a.game /\ b.run = a.run
           \/ \E w \in Worker : Claim(w) /\ b.game = Head(wk[w].left) /\ b.run = wk[w].run
<1>1. ASSUME NEW as, as \subseteq attempts, NEW outcome \in Outcome, attempts' = Closes(as, outcome)
      PROVE  \E a \in attempts : b.game = a.game /\ b.run = a.run
  <2>1. Closed(as, outcome)
    BY <1>1, ClosesIsClosed DEF IInv
  <2>. QED
    BY <2>1 DEF Closed
<1>2. ASSUME NEW w \in Worker, NEW no, attempts' = attempts \cup {Claimed(w, no)}
      PROVE  b \in attempts \/ (b.game = Head(wk[w].left) /\ b.run = wk[w].run)
  <2>1. Claimed(w, no).game = Head(wk[w].left) /\ Claimed(w, no).run = wk[w].run
    BY DEF Claimed
  <2>. QED
    BY <1>2, <2>1
<1>. QED
  BY <1>1, <1>2, AttemptsMove

LEMMA LastIsBound ==
    ASSUME IInv, NEW g \in Game
    PROVE  /\ LastNo(g) \in Nat /\ Nos(g) = 1..LastNo(g) /\ cand[g].count \in Nat
           /\ cand[g].count <= LastNo(g)
<1>1. PICK n \in 0..MaxAttempts : Nos(g) = 1..n /\ cand[g].count <= n
  BY DEF IInv, History, Numbered
<1>2. n \in Nat
  OBVIOUS
<1>3. LastNo(g) = n
  BY <1>1, <1>2, LastIsLength
<1>4. cand[g].count \in Nat
  BY DEF IInv, Stored, IsCandidate
<1>. QED
  BY <1>1, <1>2, <1>3, <1>4

\* Attempts that are used up stay used up, and so do tried ones.
LEMMA SpentStays ==
    ASSUME IInv, IInv', [Next]_vars, NEW g \in Game
    PROVE  /\ Exhausted(LastNo(g)) => Exhausted(LastNo(g))'
           /\ \A r : Tried(r, g) => Tried(r, g)'
<1>1. Nos(g) \subseteq Nos(g)' /\ \A a \in attempts : a.outcome # "open" => a \in attempts'
  BY EndedStay
<1>2. PICK n : n = LastNo(g) /\ n \in Nat /\ Nos(g) = 1..n
  BY LastIsBound
<1>3. PICK m : m = LastNo(g)' /\ m \in Nat /\ Nos(g)' = 1..m
  <2>1. (LastNo(g) \in Nat /\ Nos(g) = 1..LastNo(g))'
    BY LastIsBound, PTL
  <2>. QED
    BY <2>1
<1>4. n <= m
  BY <1>1, <1>2, <1>3
<1>5. Exhausted(LastNo(g)) => Exhausted(LastNo(g))'
  BY <1>2, <1>3, <1>4, Bounds DEF Exhausted
<1>6. ASSUME NEW r, Tried(r, g)
      PROVE  Tried(r, g)'
  BY <1>1, <1>6 DEF Tried, AttemptsAt
<1>. QED
  BY <1>5, <1>6

\* What a step may do to the candidate of game g.
Treats(g) ==
    /\ cand[g].state # "absent" => cand'[g].state # "absent"
    /\ cand[g].state = "processed" => cand'[g].state = "processed" \/ Fetching(g)
    /\ cand'[g].state = "failed" => cand[g].state = "failed" \/ Exhausted(LastNo(g))

LEMMA RecoveryTreats ==
    ASSUME IInv, NEW w \in Worker, Recover(w), NEW g \in Game
    PROVE  Treats(g)
<1>1. PICK stale : stale = StaleGames(w)
  OBVIOUS
<1>2. cand'[g] = Recovered(g, stale) /\ (g \in stale => cand[g].state = "processing")
  BY <1>1 DEF Recover, StaleGames
<1>3. PICK c : c = IF g \in stale THEN [cand[g] EXCEPT !.state = "retryable"] ELSE cand[g]
  OBVIOUS
<1>4. PICK Orders : cand[g] \in [state : State, order : Orders, count : Nat]
  BY DEF IInv, Stored, IsCandidate
<1>5. /\ c \in [state : State, order : Orders, count : Nat] /\ c.count = cand[g].count
      /\ c.state = IF g \in stale THEN "retryable" ELSE cand[g].state
  BY <1>3, <1>4 DEF State
<1>6. PICK n : n = LastNo(g) /\ n \in Nat /\ c.count <= n
  BY <1>5, LastIsBound
<1>7. Max({c.count, LastNo(g)}) = n
  BY <1>5, <1>6, MaxOfTwo
<1>8. PICK d : d = IF c.state \in {"pending", "retryable"} /\ Exhausted(n)
                   THEN [c EXCEPT !.state = "failed", !.count = n] ELSE c
  OBVIOUS
<1>9. d = cand'[g]
  BY <1>2, <1>3, <1>7, <1>8 DEF Recovered
<1>10. d = c \/ (d.state = "failed" /\ c.state \in {"pending", "retryable"} /\ Exhausted(n))
  BY <1>5, <1>8
<1>. QED
  BY <1>2, <1>5, <1>6, <1>9, <1>10 DEF Treats

LEMMA InsertTreats ==
    ASSUME IInv, NEW w \in Worker, Insert(w), NEW g \in Game
    PROVE  Treats(g)
<1>1. PICK new : new = Prefix(wk[w].fresh, Room(w))
  OBVIOUS
<1>2. Range(new) \cap Known = {}
  BY <1>1 DEF Insert
<1>3. cand' = [h \in Game |->
                  IF h \in Range(new)
                  THEN [state |-> "pending", count |-> 0,
                        order |-> wk[w].order - 1 + CHOOSE i \in DOMAIN new : new[i] = h]
                  ELSE cand[h]]
  BY <1>1 DEF Insert
<1>4. \/ cand'[g] = cand[g]
      \/ g \in Range(new) /\ cand'[g].state = "pending"
  BY <1>3
<1>5. g \in Range(new) => cand[g].state = "absent"
  BY <1>2 DEF Known
<1>. QED
  BY <1>4, <1>5 DEF Treats

LEMMA RewritingTreats ==
    ASSUME IInv, NEW h \in Game, NEW state \in State, NEW count \in Nat, state # "absent",
           Rewritten(h, state, count), NEW g \in Game,
           cand[h].state = "processed" => state = "processed" \/ Fetching(h),
           state = "failed" => cand[h].state = "failed" \/ Exhausted(LastNo(h))
    PROVE  Treats(g)
<1>1. /\ cand'[h].state = state
      /\ \A i \in Game : i # h => cand'[i] = cand[i]
  BY CandidateWith
<1>. QED
  BY <1>1 DEF Treats

LEMMA ClaimTreats ==
    ASSUME IInv, NEW w \in Worker, Claim(w), NEW g \in Game
    PROVE  Treats(g)
<1>1. PICK h \in Game : h = Head(wk[w].left)
  <2>1. wk[w].left \in Seq(Game) /\ wk[w].left # <<>>
    BY NotIdle DEF Claim, IsWorker, Memory
  <2>. QED
    BY <2>1
<1>2. cand[h].state \in {"pending", "retryable"}
  BY <1>1 DEF Claim
<1>3. PICK n \in Nat : n = Spent(h) /\ n = LastNo(h)
  <2>1. LastNo(h) \in Nat /\ cand[h].count \in Nat /\ cand[h].count <= LastNo(h)
    BY LastIsBound
  <2>. QED
    BY <2>1, MaxOfTwo DEF Spent
<1>4. CASE Exhausted(Spent(h))
  <2>1. PICK state \in State : state = "failed"
    BY DEF State
  <2>2. cand' = [cand EXCEPT ![h].state = "failed", ![h].count = Spent(h)]
    BY Zenon, <1>1, <1>4 DEF Claim
  <2>3. Rewritten(h, state, n)
    BY Zenon, <1>3, <2>1, <2>2 DEF Rewritten
  <2>. QED
    BY <1>2, <1>3, <1>4, <2>1, <2>3, RewritingTreats
<1>5. CASE ~Exhausted(Spent(h))
  <2>1. PICK no \in Nat : no = n + 1
    OBVIOUS
  <2>2. PICK state \in State : state = "processing"
    BY DEF State
  <2>3. cand' = [cand EXCEPT ![h].state = "processing", ![h].count = Spent(h) + 1]
    BY Zenon, <1>1, <1>5 DEF Claim
  <2>4. Rewritten(h, state, no)
    BY Zenon, <1>3, <2>1, <2>2, <2>3 DEF Rewritten
  <2>. QED
    BY <1>2, <2>2, <2>4, RewritingTreats
<1>. QED
  BY <1>4, <1>5

LEMMA CommitTreats ==
    ASSUME IInv, NEW w \in Worker, CommitSuccess(w) \/ CommitFailure(w), NEW g \in Game
    PROVE  Treats(g)
<1>1. IsWorker(wk[w]) /\ Works(w) /\ wk[w].pc = "fetch" /\ Current(w)
  BY NotIdle, VerifiedIsCurrent DEF CommitSuccess, CommitFailure, At
<1>2. PICK h \in Game : h = wk[w].game
  BY <1>1 DEF Works, InPlace, At
<1>3. PICK no \in Nat : no = wk[w].no
  BY <1>1 DEF IsWorker, Memory
<1>4. Fetching(h)
  BY <1>1, <1>2 DEF Fetching, At
<1>5. no <= LastNo(h) /\ LastNo(h) \in Nat
  <2>1. no \in Nos(h)
    BY <1>1, <1>2, <1>3 DEF Works, InPlace, At
  <2>. QED
    BY <2>1, LastIsBound
<1>6. CASE CommitSuccess(w)
  <2>1. PICK state \in State : state = "processed"
    BY DEF State
  <2>2. Rewritten(h, state, no)
    BY <1>2, <1>3, <1>6, <2>1 DEF CommitSuccess, Rewritten
  <2>. QED
    BY <1>4, <2>1, <2>2, RewritingTreats
<1>7. CASE CommitFailure(w)
  <2>1. PICK state : state = AfterFailure(no)
    OBVIOUS
  <2>2. Rewritten(h, state, no)
    BY <1>2, <1>3, <1>7, <2>1 DEF CommitFailure, Rewritten
  <2>3. state \in State /\ state # "absent" /\ (state = "failed" => Exhausted(LastNo(h)))
    BY <1>5, <2>1, Bounds DEF AfterFailure, Exhausted, State
  <2>. QED
    BY <1>4, <2>2, <2>3, RewritingTreats
<1>. QED
  BY <1>6, <1>7

LEMMA AbortTreats ==
    ASSUME IInv, NEW w \in Worker, Abort(w), NEW g \in Game
    PROVE  Treats(g)
<1>1. \/ cand'[g] = cand[g]
      \/ /\ cand[g].state = "processing"
         /\ cand'[g] = [cand[g] EXCEPT !.state = AfterFailure(cand[g].count)]
  BY DEF Abort
<1>2. CASE cand'[g] = cand[g]
  BY <1>2 DEF Treats
<1>3. CASE /\ cand[g].state = "processing"
           /\ cand'[g] = [cand[g] EXCEPT !.state = AfterFailure(cand[g].count)]
  <2>1. PICK Orders : cand[g] \in [state : State, order : Orders, count : Nat]
    BY DEF IInv, Stored, IsCandidate
  <2>2. PICK state : state = AfterFailure(cand[g].count)
    OBVIOUS
  <2>3. cand'[g].state = state
    BY <1>3, <2>1, <2>2
  <2>4. LastNo(g) \in Nat /\ cand[g].count \in Nat /\ cand[g].count <= LastNo(g)
    BY LastIsBound
  <2>5. state \in {"failed", "retryable"} /\ (state = "failed" => Exhausted(LastNo(g)))
    BY <2>2, <2>4, Bounds DEF AfterFailure, Exhausted
  <2>. QED
    BY <1>3, <2>3, <2>5 DEF Treats
<1>. QED
  BY <1>1, <1>2, <1>3

LEMMA StepTreats ==
    ASSUME IInv, [Next]_vars, NEW g \in Game
    PROVE  Treats(g)
<1>1. ASSUME cand' = cand PROVE Treats(g)
  BY <1>1 DEF Treats
<1>2. ASSUME NEW w \in Worker, Step(w)
      PROVE  \/ cand' = cand
             \/ Recover(w) \/ Insert(w) \/ Claim(w) \/ CommitSuccess(w) \/ CommitFailure(w) \/ Abort(w)
  <2>1. (\E r \in Run : Begin(w, r) \/ Resume(w, r)) => cand' = cand
    BY Zenon DEF Begin, Resume
  <2>5. Acquire(w) \/ Overlap(w) \/ MarkRunning(w) \/ TakeUp(w) \/ Legacy(w) => cand' = cand
    BY Zenon DEF Acquire, Overlap, MarkRunning, TakeUp, Legacy
  <2>2. Select(w) \/ ReadListing(w) \/ ListingFails(w) \/ InsertClashes(w) => cand' = cand
    BY Zenon DEF Select, ReadListing, ListingFails, InsertClashes
  <2>3. Freeze(w) \/ FreezeClashes(w) \/ Skip(w) \/ FinishBatch(w) => cand' = cand
    BY Zenon DEF Freeze, FreezeClashes, Skip, FinishBatch
  <2>4. LoseLease(w) \/ Close(w) \/ Fault(w) \/ Crash(w) => cand' = cand
    BY Zenon DEF LoseLease, Close, Fault, Crash
  <2>. QED
    BY <1>2, <2>1, <2>2, <2>3, <2>4, <2>5 DEF Step
<1>3. ASSUME NEW w \in Worker, Step(w)
      PROVE  Treats(g)
  BY <1>1, <1>2, <1>3, RecoveryTreats, InsertTreats, ClaimTreats, CommitTreats, AbortTreats
<1>4. cand = [h \in Game |-> cand[h]] /\ IsCandidate(cand[g])
  BY DEF IInv, Stored
<1>5. ASSUME NEW h \in Game, ManualIngest(h)
      PROVE  Treats(g)
  <2>1. PICK order : order = IF h \in Known THEN cand[h].order ELSE NextOrder
    OBVIOUS
  <2>2. PICK c : c = [state |-> "processed", count |-> cand[h].count, order |-> order]
    OBVIOUS
  <2>3. cand' = [cand EXCEPT ![h] = c] /\ c.state = "processed"
    BY <1>5, <2>1, <2>2 DEF ManualIngest
  <2>. QED
    BY <1>4, <2>3 DEF Treats
<1>6. ASSUME NEW h \in Game, OperatorEdit(h)
      PROVE  Treats(g)
  <2>1. PICK state \in State : state = "retryable"
    BY DEF State
  <2>2. PICK none \in Nat : none = 0
    OBVIOUS
  <2>3. cand[h].state \in {"failed", "retryable"} /\ Rewritten(h, state, none)
    BY <1>6, <2>1, <2>2 DEF OperatorEdit, Rewritten
  <2>. QED
    BY <2>1, <2>2, <2>3, RewritingTreats
<1>7. Ingested \subseteq Game
  BY Zenon, BatchAssumption
<1>8. Expire \/ UNCHANGED vars => cand' = cand
  BY DEF Expire, vars
<1>. QED
  BY <1>1, <1>3, <1>5, <1>6, <1>7, <1>8 DEF Next

-----------------------------------------------------------------------------
(* Where a step leaves its worker.                                             *)

LEMMA StepSets ==
    ASSUME IInv, NEW w \in Worker, Step(w)
    PROVE  \A v \in Worker : v # w => wk'[v] = wk[v]
<1>1. ASSUME NEW r \in Run, Begin(w, r) \/ Resume(w, r)
      PROVE  \E m : wk' = [wk EXCEPT ![w] = m]
  BY Zenon, <1>1 DEF Begin, Resume, Set
<1>8. Acquire(w) \/ Overlap(w) \/ MarkRunning(w) => \E m : wk' = [wk EXCEPT ![w] = m]
  BY Zenon DEF Acquire, Overlap, MarkRunning, Set
<1>9. TakeUp(w) \/ Legacy(w) \/ FreezeClashes(w) => \E m : wk' = [wk EXCEPT ![w] = m]
  BY Zenon DEF TakeUp, Legacy, FreezeClashes, Set, Leave
<1>2. Recover(w) \/ Select(w) \/ ReadListing(w) => \E m : wk' = [wk EXCEPT ![w] = m]
  BY Zenon DEF Recover, Select, ReadListing, Set
<1>3. ListingFails(w) \/ Insert(w) \/ InsertClashes(w) => \E m : wk' = [wk EXCEPT ![w] = m]
  BY Zenon DEF ListingFails, Insert, InsertClashes, Set, Leave
<1>4. Freeze(w) \/ Skip(w) \/ Claim(w) => \E m : wk' = [wk EXCEPT ![w] = m]
  BY Zenon DEF Freeze, Skip, Claim, Set
<1>5. CommitSuccess(w) \/ CommitFailure(w) \/ FinishBatch(w) => \E m : wk' = [wk EXCEPT ![w] = m]
  BY Zenon DEF CommitSuccess, CommitFailure, FinishBatch, Set
<1>6. LoseLease(w) \/ Abort(w) \/ Close(w) \/ Fault(w) \/ Crash(w) =>
         \E m : wk' = [wk EXCEPT ![w] = m]
  BY Zenon DEF LoseLease, Abort, Close, Fault, Crash, Set, Leave
<1>7. PICK m : wk' = [wk EXCEPT ![w] = m]
  BY <1>1, <1>2, <1>3, <1>4, <1>5, <1>6, <1>8, <1>9 DEF Step
<1>. QED
  BY <1>7 DEF IInv, Working

\* A worker that is neither on its batch nor has anything in memory.
Apart(m) == m.pc \notin {"claim", "fetch"}

\* The steps after which a worker has no batch.
Leaving(w) == \/ \E r \in Run : Begin(w, r) \/ Resume(w, r)
              \/ Overlap(w) \/ Legacy(w) \/ InsertClashes(w) \/ FreezeClashes(w)
              \/ FinishBatch(w) \/ LoseLease(w) \/ Abort(w) \/ Close(w) \/ Fault(w) \/ Crash(w)

LEMMA AfterLeaving ==
    ASSUME IInv, NEW w \in Worker, Leaving(w)
    PROVE  Apart(wk'[w]) /\ wk'[w].batch = <<>>
<1>1. wk = [v \in Worker |-> wk[v]] /\ IsWorker(wk[w])
  BY DEF IInv, Working
<1>2. ASSUME NEW r \in Run, Begin(w, r)
      PROVE  Apart(wk'[w]) /\ wk'[w].batch = <<>>
  <2>1. PICK m : m = [Idle EXCEPT !.pc = "acquire", !.run = r]
    OBVIOUS
  <2>2. wk'[w] = m
    BY Zenon, <1>1, <1>2, <2>1 DEF Begin, Set
  <2>3. m.pc = "acquire" /\ m.batch = <<>>
    BY <2>1 DEF Idle
  <2>. QED
    BY <2>2, <2>3 DEF Apart
<1>3. ASSUME NEW r \in Run, Resume(w, r)
      PROVE  Apart(wk'[w]) /\ wk'[w].batch = <<>>
  <2>1. PICK tok, frozen, err : tok = lease.token + 1 /\ frozen = runs[r].frozen /\ err = runs[r].err
    OBVIOUS
  <2>2. PICK m : m = [Idle EXCEPT !.pc = "recover", !.run = r, !.tok = tok, !.frozen = frozen,
                                  !.err = err]
    OBVIOUS
  <2>3. wk'[w] = m
    BY Zenon, <1>1, <1>3, <2>1, <2>2 DEF Resume, Set
  <2>4. m.pc = "recover" /\ m.batch = <<>>
    BY <2>2 DEF Idle
  <2>. QED
    BY <2>3, <2>4 DEF Apart
<1>4. ASSUME Overlap(w) \/ Close(w) \/ Crash(w)
      PROVE  Apart(wk'[w]) /\ wk'[w].batch = <<>>
  <2>1. wk'[w] = Idle
    BY <1>1, <1>4 DEF Overlap, Close, Crash, Set
  <2>. QED
    BY <2>1, IdleIsWorker DEF Apart
<1>5. ASSUME wk[w].pc # "idle", Leave(w, "abort")
      PROVE  Apart(wk'[w]) /\ wk'[w].batch = <<>>
  <2>1. PICK there \in PcValues : there = "abort" /\ there # "idle"
    BY DEF PcValues, Acquired
  <2>2. wk'[w] = Only(w, there)
    BY <1>1, <1>5, <2>1 DEF Leave, Set
  <2>. QED
    BY <1>1, <1>5, <2>1, <2>2, OnlyIsWorker DEF Apart
<1>6. ASSUME wk[w].pc # "idle", NEW status, NEW err, Set(w, Over(w, status, err))
      PROVE  Apart(wk'[w]) /\ wk'[w].batch = <<>>
  <2>1. wk'[w] = Over(w, status, err)
    BY <1>1, <1>6 DEF Set
  <2>. QED
    BY <1>1, <1>6, <2>1, OverIsWorker DEF Apart
<1>7. ASSUME \/ Legacy(w) \/ InsertClashes(w) \/ FreezeClashes(w)
             \/ FinishBatch(w) \/ LoseLease(w) \/ Abort(w) \/ Fault(w)
      PROVE  /\ wk[w].pc # "idle"
             /\ Leave(w, "abort") \/ \E status, err : Set(w, Over(w, status, err))
  <2>1. InsertClashes(w) \/ FreezeClashes(w) \/ Fault(w) => wk[w].pc # "idle" /\ Leave(w, "abort")
    BY Zenon DEF InsertClashes, FreezeClashes, Fault, At, Fenced
  <2>2. Legacy(w) \/ FinishBatch(w) \/ LoseLease(w) \/ Abort(w) => wk[w].pc # "idle"
    BY DEF Legacy, FinishBatch, LoseLease, Abort, At, Fenced
  <2>3. Legacy(w) \/ FinishBatch(w) \/ LoseLease(w) \/ Abort(w) =>
           \E status, err : Set(w, Over(w, status, err))
    BY Zenon DEF Legacy, FinishBatch, LoseLease, Abort, CutOff
  <2>. QED
    BY <1>7, <2>1, <2>2, <2>3
<1>. QED
  BY <1>2, <1>3, <1>4, <1>5, <1>6, <1>7 DEF Leaving

\* The steps after which it has the batch it had.
Reading(w) == Acquire(w) \/ MarkRunning(w) \/ Recover(w) \/ ReadListing(w) \/ ListingFails(w)

LEMMA AfterReading ==
    ASSUME IInv, NEW w \in Worker, Reading(w)
    PROVE  Apart(wk'[w]) /\ wk'[w].batch = wk[w].batch
<1>1. wk = [v \in Worker |-> wk[v]] /\ IsWorker(wk[w])
  BY DEF IInv, Working
<1>2. PICK Orders, Errs, Statuses : wk[w] \in Memory(Orders, Errs, Statuses)
  BY <1>1 DEF IsWorker
<1>3. ASSUME Recover(w)
      PROVE  Apart(wk'[w]) /\ wk'[w].batch = wk[w].batch
  <2>1. PICK phase, page : wk' = [wk EXCEPT ![w] = [wk[w] EXCEPT !.pc = "select", !.phase = phase,
                                                                  !.page = page]]
    BY Zenon, <1>3 DEF Recover, Set
  <2>2. wk'[w] = [wk[w] EXCEPT !.pc = "select", !.phase = phase, !.page = page]
    BY <1>1, <2>1
  <2>. QED
    BY <1>2, <2>2 DEF Memory, Apart
<1>4. ASSUME ReadListing(w)
      PROVE  Apart(wk'[w]) /\ wk'[w].batch = wk[w].batch
  <2>1. PICK fresh, order : wk' = [wk EXCEPT ![w] = [wk[w] EXCEPT !.pc = "insert", !.fresh = fresh,
                                                                   !.order = order]]
    BY Zenon, <1>4 DEF ReadListing, Set
  <2>2. wk'[w] = [wk[w] EXCEPT !.pc = "insert", !.fresh = fresh, !.order = order]
    BY <1>1, <2>1
  <2>. QED
    BY <1>2, <2>2 DEF Memory, Apart
<1>5. ASSUME ListingFails(w)
      PROVE  Apart(wk'[w]) /\ wk'[w].batch = wk[w].batch
  <2>1. wk'[w] = [wk[w] EXCEPT !.pc = "freeze", !.err = TRUE]
    BY <1>1, <1>5 DEF ListingFails, Set
  <2>. QED
    BY <1>2, <2>1 DEF Memory, Apart
<1>6. ASSUME Acquire(w)
      PROVE  Apart(wk'[w]) /\ wk'[w].batch = wk[w].batch
  <2>1. PICK tok : tok = lease.token + 1
    OBVIOUS
  <2>2. wk'[w] = [wk[w] EXCEPT !.pc = "mark", !.tok = tok]
    BY <1>1, <1>6, <2>1 DEF Acquire, Set
  <2>. QED
    BY <1>2, <2>2 DEF Memory, Apart
<1>7. ASSUME MarkRunning(w)
      PROVE  Apart(wk'[w]) /\ wk'[w].batch = wk[w].batch
  <2>1. wk'[w] = [wk[w] EXCEPT !.pc = "recover"]
    BY <1>1, <1>7 DEF MarkRunning, Set
  <2>. QED
    BY <1>2, <2>1 DEF Memory, Apart
<1>. QED
  BY <1>3, <1>4, <1>5, <1>6, <1>7 DEF Reading

\* A prefix of a sequence has elements of it only.
LEMMA PrefixIsPart ==
    ASSUME NEW S, NEW q \in Seq(S), NEW n \in Int
    PROVE  Range(Prefix(q, n)) \subseteq Range(q)
<1>1. PICK m \in Int : m <= Len(q) /\ Prefix(q, n) = SubSeq(q, 1, m)
  <2>. DEFINE l == IF n <= Len(q) THEN n ELSE Len(q)
  <2>1. Len(q) \in Nat /\ l \in Int /\ l <= Len(q)
    OBVIOUS
  <2>2. l \in {n, Len(q)} /\ \A x \in {n, Len(q)} : l <= x
    BY <2>1
  <2>3. \A x \in {n, Len(q)} : (\A y \in {n, Len(q)} : x <= y) => x = l
    BY <2>1, <2>2
  <2>. HIDE DEF l
  <2>4. Min({n, Len(q)}) = l
    BY <2>2, <2>3 DEF Min
  <2>. QED
    BY <2>1, <2>4 DEF Prefix
<1>2. DOMAIN SubSeq(q, 1, m) = 1..m /\ \A i \in 1..m : SubSeq(q, 1, m)[i] = q[i]
  BY <1>1
<1>3. \A i \in 1..m : i \in DOMAIN q
  BY <1>1
<1>. QED
  BY <1>1, <1>2, <1>3 DEF Range

\* A frozen batch is taken up as it is stored.
LEMMA AfterTakeUp ==
    ASSUME IInv, NEW w \in Worker, TakeUp(w)
    PROVE  /\ IsWorker(wk[w]) /\ wk[w].pc # "idle" /\ wk[w].run \in Run
           /\ runs[wk[w].run].batch \in Seq(Game) /\ Len(runs[wk[w].run].batch) <= Limit
           /\ wk'[w] = Held(w, runs[wk[w].run].batch, wk[w].err) /\ runs' = runs
<1>1. wk[w].pc = "select" /\ runs' = runs
  BY Zenon DEF TakeUp, At
<1>2. IsWorker(wk[w]) /\ wk[w].run \in Run
  BY <1>1, NotIdle
<1>3. runs[wk[w].run].batch \in Seq(Game) /\ Len(runs[wk[w].run].batch) <= Limit
  BY <1>2 DEF IInv, Stored, IsRun
<1>4. wk'[w] = Held(w, runs[wk[w].run].batch, wk[w].err)
  BY DEF TakeUp, Set, IInv, Working
<1>. QED
  BY <1>1, <1>2, <1>3, <1>4

LEMMA AfterSelect ==
    ASSUME IInv, NEW w \in Worker, Select(w)
    PROVE  Apart(wk'[w]) /\ Range(wk'[w].batch) \subseteq Known
<1>1. wk = [v \in Worker |-> wk[v]] /\ IsWorker(wk[w])
  BY DEF IInv, Working
<1>2. ASSUME NEW waiting \in Ordered(Waiting, [g \in Game |-> cand[g].order]),
             Set(w, [wk[w] EXCEPT !.batch = Prefix(waiting, Limit),
                                  !.pc = IF Len(waiting) < Limit THEN Discovery(wk[w].phase)
                                         ELSE "freeze"])
      PROVE  Apart(wk'[w]) /\ Range(wk'[w].batch) \subseteq Known
  <2>1. PICK place : waiting \in Ordered(Waiting, place)
    BY <1>2
  <2>2. waiting \in Seq(Waiting) /\ Range(waiting) = Waiting
    <3>1. IsFiniteSet(Game)
      BY Zenon, BatchAssumption
    <3>2. Waiting \subseteq Game
      BY DEF Waiting
    <3>. QED
      BY <2>1, <3>1, <3>2, FS_Subset, OrderedHasAll
  <2>3. PICK batch : batch = Prefix(waiting, Limit)
    OBVIOUS
  <2>4. Range(batch) \subseteq Known
    <3>1. Limit \in Int
      BY Bounds
    <3>2. Range(batch) \subseteq Waiting
      BY <2>2, <2>3, <3>1, PrefixIsPart
    <3>. QED
      BY <3>2 DEF Waiting, Known
  <2>5. PICK there : there = IF Len(waiting) < Limit THEN Discovery(wk[w].phase) ELSE "freeze"
    OBVIOUS
  <2>6. PICK Orders, Errs, Statuses : wk[w] \in Memory(Orders, Errs, Statuses)
    BY <1>1 DEF IsWorker
  <2>7. there \notin {"claim", "fetch"}
    <3>1. wk[w].phase \in Phase
      BY <2>6 DEF Memory
    <3>. QED
      BY <2>5, <3>1 DEF Phase, Discovery
  <2>8. wk'[w] = [wk[w] EXCEPT !.batch = batch, !.pc = there]
    BY <1>1, <1>2, <2>3, <2>5 DEF Set
  <2>9. wk'[w].batch = batch /\ wk'[w].pc = there
    BY <2>6, <2>8 DEF Memory
  <2>. QED
    BY <2>4, <2>7, <2>9 DEF Apart
<1>. QED
  BY Zenon, <1>2 DEF Select

LEMMA AfterInsert ==
    ASSUME IInv, NEW w \in Worker, Insert(w), Range(wk[w].batch) \subseteq Known
    PROVE  Apart(wk'[w]) /\ Range(wk'[w].batch) \subseteq Known'
<1>1. wk = [v \in Worker |-> wk[v]] /\ IsWorker(wk[w])
  BY DEF IInv, Working
<1>2. PICK Orders, Errs, Statuses : wk[w] \in Memory(Orders, Errs, Statuses)
  BY <1>1 DEF IsWorker
<1>3. PICK new : new = Prefix(wk[w].fresh, Room(w))
  OBVIOUS
<1>4. new \in Seq(Game) /\ wk[w].batch \in Seq(Game)
  <2>1. wk[w].fresh \in Seq(Game) /\ wk[w].batch \in Seq(Game)
    BY <1>2 DEF Memory
  <2>2. Room(w) \in Int
    BY <2>1, Bounds DEF Room
  <2>. QED
    BY <1>3, <2>1, <2>2, PrefixOfSeq
<1>5. PICK batch : batch = wk[w].batch \o new
  OBVIOUS
<1>6. Range(batch) \subseteq Range(wk[w].batch) \cup Range(new)
  <2>1. \A i \in DOMAIN batch : \/ \E j \in DOMAIN wk[w].batch : batch[i] = wk[w].batch[j]
                                \/ \E j \in DOMAIN new : batch[i] = new[j]
    <3>1. PICK a \in Seq(Game) : a = wk[w].batch
      BY <1>4
    <3>2. batch = a \o new /\ Len(a) \in Nat /\ Len(new) \in Nat
      BY <1>4, <1>5, <3>1
    <3>3. ASSUME NEW i \in DOMAIN batch
          PROVE  \/ \E j \in DOMAIN a : batch[i] = a[j]
                 \/ \E j \in DOMAIN new : batch[i] = new[j]
      <4>1. i \in 1..(Len(a) + Len(new))
        BY <1>4, <3>2
      <4>2. CASE i <= Len(a)
        BY <1>4, <3>2, <4>1, <4>2
      <4>3. CASE i > Len(a)
        <5>1. i - Len(a) \in DOMAIN new /\ batch[i] = new[i - Len(a)]
          BY <1>4, <3>2, <4>1, <4>3
        <5>. QED
          BY <5>1
      <4>. QED
        BY <3>2, <4>1, <4>2, <4>3
    <3>. QED
      BY <3>1, <3>3
  <2>. QED
    BY <2>1 DEF Range
<1>7. cand' = [g \in Game |->
                  IF g \in Range(new)
                  THEN [state |-> "pending", count |-> 0,
                        order |-> wk[w].order - 1 + CHOOSE i \in DOMAIN new : new[i] = g]
                  ELSE cand[g]]
  BY <1>3 DEF Insert
<1>8. Range(new) \subseteq Game
  BY <1>4, ElementsOfSeq
<1>9. Range(new) \subseteq Known' /\ Known \subseteq Known'
  <2>1. \A g \in Game : g \in Range(new) => cand'[g].state = "pending"
    BY <1>7
  <2>2. \A g \in Game : g \notin Range(new) => cand'[g] = cand[g]
    BY <1>7
  <2>. QED
    BY <1>8, <2>1, <2>2 DEF Known
<1>10. PICK there : there = IF wk[w].phase = "browse" /\ Len(batch) < Limit /\ wk[w].page < Len(Pages)
                            THEN "browse" ELSE "freeze"
  OBVIOUS
<1>11. PICK phase, page : phase = cycle'.phase /\ page = cycle'.page
  OBVIOUS
<1>12. wk' = [wk EXCEPT ![w] = [wk[w] EXCEPT !.pc = there, !.batch = batch, !.fresh = <<>>,
                                             !.order = 0, !.phase = phase, !.page = page]]
  BY <1>3, <1>5, <1>10, <1>11 DEF Insert, Set
<1>13. wk'[w] = [wk[w] EXCEPT !.pc = there, !.batch = batch, !.fresh = <<>>, !.order = 0,
                              !.phase = phase, !.page = page]
  BY <1>1, <1>12
<1>14. wk'[w].pc = there /\ wk'[w].batch = batch
  BY <1>2, <1>13 DEF Memory
<1>15. there \notin {"claim", "fetch"}
  BY <1>10
<1>. QED
  BY <1>6, <1>9, <1>14, <1>15 DEF Apart

\* What a worker on its batch remembers after a step: the same run, and what is left.
Keeps(w, there, left) ==
    /\ wk'[w].pc = there /\ wk'[w].run = wk[w].run /\ wk'[w].status = wk[w].status
    /\ wk'[w].left = left /\ wk'[w].batch = wk[w].batch

Passes(w) == Set(w, [wk[w] EXCEPT !.left = Tail(@)])
Claims(w, g, no) ==
    Set(w, [wk[w] EXCEPT !.pc = "fetch", !.left = Tail(@), !.game = g, !.no = no])
Records(w) == Set(w, [wk[w] EXCEPT !.pc = "claim", !.game = NoGame, !.no = 0])

LEMMA AfterItem ==
    ASSUME IInv, NEW w \in Worker
    PROVE  /\ Passes(w) => Keeps(w, wk[w].pc, Tail(wk[w].left))
           /\ \A g, no : Claims(w, g, no) => /\ Keeps(w, "fetch", Tail(wk[w].left))
                                             /\ wk'[w].game = g
           /\ Records(w) => Keeps(w, "claim", wk[w].left)
<1>1. wk = [v \in Worker |-> wk[v]] /\ IsWorker(wk[w])
  BY DEF IInv, Working
<1>2. PICK Orders, Errs, Statuses : wk[w] \in Memory(Orders, Errs, Statuses)
  BY <1>1 DEF IsWorker
<1>3. PICK left : left = Tail(wk[w].left)
  OBVIOUS
<1>4. ASSUME Passes(w)
      PROVE  Keeps(w, wk[w].pc, left)
  <2>1. wk'[w] = [wk[w] EXCEPT !.left = left]
    BY <1>1, <1>3, <1>4 DEF Set, Passes
  <2>. QED
    BY <1>2, <2>1 DEF Memory, Keeps
<1>5. ASSUME NEW g, NEW no, Claims(w, g, no)
      PROVE  Keeps(w, "fetch", left) /\ wk'[w].game = g
  <2>1. wk'[w] = [wk[w] EXCEPT !.pc = "fetch", !.left = left, !.game = g, !.no = no]
    BY <1>1, <1>3, <1>5 DEF Set, Claims
  <2>. QED
    BY <1>2, <2>1 DEF Memory, Keeps
<1>6. ASSUME Records(w)
      PROVE  Keeps(w, "claim", wk[w].left)
  <2>1. wk'[w] = [wk[w] EXCEPT !.pc = "claim", !.game = NoGame, !.no = 0]
    BY <1>1, <1>6 DEF Set, Records
  <2>. QED
    BY <1>2, <2>1 DEF Memory, Keeps
<1>. QED
  BY <1>3, <1>4, <1>5, <1>6

LEMMA ItemSteps ==
    ASSUME NEW w \in Worker
    PROVE  /\ Skip(w) => wk[w].pc = "claim" /\ wk[w].left # <<>> /\ Passes(w)
           /\ Claim(w) =>
                 /\ wk[w].pc = "claim" /\ wk[w].left # <<>>
                 /\ Passes(w) \/ Claims(w, Head(wk[w].left), Spent(Head(wk[w].left)) + 1)
                 /\ cand[Head(wk[w].left)].state \in {"pending", "retryable"}
           /\ CommitSuccess(w) \/ CommitFailure(w) => wk[w].pc = "fetch" /\ Records(w)
<1>1. Skip(w) => wk[w].pc = "claim" /\ wk[w].left # <<>> /\ Passes(w)
  BY Zenon DEF Skip, At, Passes
<1>2. Claim(w) =>
         /\ wk[w].pc = "claim" /\ wk[w].left # <<>>
         /\ Passes(w) \/ Claims(w, Head(wk[w].left), Spent(Head(wk[w].left)) + 1)
         /\ cand[Head(wk[w].left)].state \in {"pending", "retryable"}
  BY Zenon DEF Claim, At, Passes, Claims
<1>3. CommitSuccess(w) \/ CommitFailure(w) => wk[w].pc = "fetch" /\ Records(w)
  BY Zenon DEF CommitSuccess, CommitFailure, At, Records
<1>. QED
  BY <1>1, <1>2, <1>3

\* The steps of a worker that goes on with its frozen batch.
Onward(w) == Skip(w) \/ Claim(w) \/ CommitSuccess(w) \/ CommitFailure(w)

LEMMA AfterStep ==
    ASSUME IInv, NEW w \in Worker, Step(w)
    PROVE  Apart(wk'[w]) \/ TakeUp(w) \/ Freeze(w) \/ Onward(w)
<1>1. Insert(w) => Apart(wk'[w])
  <2>1. SUFFICES ASSUME Insert(w) PROVE Apart(wk'[w])
    OBVIOUS
  <2>2. wk = [v \in Worker |-> wk[v]] /\ IsWorker(wk[w])
    BY DEF IInv, Working
  <2>3. PICK Orders, Errs, Statuses : wk[w] \in Memory(Orders, Errs, Statuses)
    BY <2>2 DEF IsWorker
  <2>4. PICK batch : batch = wk[w].batch \o Prefix(wk[w].fresh, Room(w))
    OBVIOUS
  <2>5. PICK there : there = IF wk[w].phase = "browse" /\ Len(batch) < Limit /\ wk[w].page < Len(Pages)
                             THEN "browse" ELSE "freeze"
    OBVIOUS
  <2>6. PICK phase, page : phase = cycle'.phase /\ page = cycle'.page
    OBVIOUS
  <2>7. wk' = [wk EXCEPT ![w] = [wk[w] EXCEPT !.pc = there, !.batch = batch, !.fresh = <<>>,
                                              !.order = 0, !.phase = phase, !.page = page]]
    BY <2>1, <2>4, <2>5, <2>6 DEF Insert, Set
  <2>8. wk'[w] = [wk[w] EXCEPT !.pc = there, !.batch = batch, !.fresh = <<>>, !.order = 0,
                               !.phase = phase, !.page = page]
    BY <2>2, <2>7
  <2>9. wk'[w].pc = there
    BY <2>3, <2>8 DEF Memory
  <2>. QED
    BY <2>5, <2>9 DEF Apart
<1>. QED
  BY <1>1, AfterLeaving, AfterReading, AfterSelect DEF Step, Leaving, Reading, Onward

\* How a worker comes to fetch a game: it was fetching it already, or has just claimed it.
LEMMA FetchIsClaimed ==
    ASSUME IInv, NEW w \in Worker, Step(w), wk'[w].pc = "fetch"
    PROVE  Claim(w) /\ cand[wk'[w].game].state \in {"pending", "retryable"}
<1>1. IsWorker(wk[w])
  BY NotIdle
<1>2. ~Apart(wk'[w])
  BY DEF Apart
<1>3. ~Freeze(w)
  <2>1. SUFFICES ASSUME Freeze(w) PROVE FALSE
    OBVIOUS
  <2>2. wk[w].pc # "idle"
    BY <2>1 DEF Freeze, At
  <2>. QED
    BY <1>1, <2>1, <2>2, FreezeKeeps, HeldIsWorker
<1>4. ~TakeUp(w)
  BY AfterTakeUp, HeldIsWorker
<1>5. ~Skip(w) /\ ~CommitSuccess(w) /\ ~CommitFailure(w)
  BY ItemSteps, AfterItem DEF Keeps
<1>6. Claim(w)
  BY <1>2, <1>3, <1>4, <1>5, AfterStep DEF Onward
<1>7. wk'[w].game = Head(wk[w].left)
  BY <1>6, ItemSteps, AfterItem DEF Keeps
<1>. QED
  BY <1>6, <1>7, ItemSteps

\* The token of the lease only grows.
LEMMA TokensGrow ==
    ASSUME IInv, [Next]_vars
    PROVE  lease.token \in Nat /\ lease'.token \in Nat /\ lease.token <= lease'.token
<1>1. lease \in [token : Nat, owner : Run \cup {NoRun}, live : BOOLEAN]
  BY DEF IInv, Stored
<1>2. ASSUME NEW w \in Worker, NEW r, Grant(r)
      PROVE  lease'.token = lease.token + 1
  <2>1. PICK tok : tok = lease.token + 1
    OBVIOUS
  <2>2. lease' = [token |-> tok, owner |-> r, live |-> TRUE]
    BY Zenon, <1>2, <2>1 DEF Grant
  <2>. QED
    BY <2>1, <2>2
<1>3. ASSUME NEW w \in Worker, Close(w)
      PROVE  lease'.token = lease.token
  <2>1. lease' = lease \/ lease' = [lease EXCEPT !.owner = NoRun, !.live = FALSE]
    BY <1>3 DEF Close
  <2>. QED
    BY <1>1, <2>1
<1>4. ASSUME NEW w \in Worker, Step(w), ~(\E r : Grant(r)), ~Close(w)
      PROVE  lease' = lease
  <2>5. (\E r \in Run : Begin(w, r)) \/ Overlap(w) \/ MarkRunning(w) \/ TakeUp(w) => lease' = lease
    BY Zenon DEF Begin, Overlap, MarkRunning, TakeUp
  <2>6. Legacy(w) \/ FreezeClashes(w) => lease' = lease
    BY Zenon DEF Legacy, FreezeClashes
  <2>7. (\E r \in Run : Resume(w, r)) \/ Acquire(w) => \E r : Grant(r)
    BY Zenon DEF Resume, Acquire
  <2>1. Recover(w) \/ Select(w) \/ ReadListing(w) => lease' = lease
    BY Zenon DEF Recover, Select, ReadListing
  <2>2. ListingFails(w) \/ Insert(w) \/ InsertClashes(w) \/ Freeze(w) => lease' = lease
    BY Zenon DEF ListingFails, Insert, InsertClashes, Freeze
  <2>3. Skip(w) \/ Claim(w) \/ CommitSuccess(w) \/ CommitFailure(w) => lease' = lease
    BY Zenon DEF Skip, Claim, CommitSuccess, CommitFailure
  <2>4. FinishBatch(w) \/ LoseLease(w) \/ Abort(w) \/ Fault(w) \/ Crash(w) => lease' = lease
    BY Zenon DEF FinishBatch, LoseLease, Abort, Fault, Crash
  <2>. QED
    BY <1>4, <2>1, <2>2, <2>3, <2>4, <2>5, <2>6, <2>7 DEF Step
<1>5. ASSUME \/ \E g \in Ingested : ManualIngest(g)
             \/ \E g \in Game : OperatorEdit(g)
             \/ Expire
             \/ UNCHANGED vars
      PROVE  lease'.token = lease.token
  <2>1. lease' = lease \/ lease' = [lease EXCEPT !.live = FALSE]
    BY <1>5 DEF ManualIngest, OperatorEdit, Expire, vars
  <2>. QED
    BY <1>1, <2>1
<1>6. lease.token \in Nat
  BY <1>1
<1>7. lease'.token \in {lease.token, lease.token + 1}
  BY <1>2, <1>3, <1>4, <1>5 DEF Next
<1>. QED
  BY <1>6, <1>7

\* Steps that are not a worker's leave every worker where it is.
LEMMA OthersStay ==
    ASSUME IInv, [Next]_vars, NEW v \in Worker
    PROVE  wk'[v] = wk[v] \/ Step(v)
<1>1. ASSUME NEW w \in Worker, Step(w), v # w
      PROVE  wk'[v] = wk[v]
  BY <1>1, StepSets
<1>2. ASSUME \/ \E g \in Ingested : ManualIngest(g)
             \/ \E g \in Game : OperatorEdit(g)
             \/ Expire
             \/ UNCHANGED vars
      PROVE  wk' = wk
  BY <1>2 DEF ManualIngest, OperatorEdit, Expire, vars
<1>. QED
  BY <1>1, <1>2 DEF Next

\* A processed game nobody in charge is fetching stays so: an item has to be claimed first.
LEMMA SettledStays ==
    ASSUME IInv, [Next]_vars, NEW g \in Game, Settled(g)
    PROVE  Settled(g)'
<1>1. cand'[g].state = "processed"
  BY StepTreats DEF Settled, Treats
<1>2. ASSUME NEW u \in Worker, Current(u)', wk'[u].pc = "fetch", wk'[u].game = g
      PROVE  FALSE
  <2>1. wk'[u] = wk[u]
    <3>1. cand[wk'[u].game].state = "processed"
      BY <1>2 DEF Settled
    <3>. QED
      BY <1>2, <3>1, OthersStay, FetchIsClaimed
  <2>2. Holder(u) /\ wk[u].tok \in Nat /\ wk[u].tok <= lease.token
    BY <1>2, <2>1, NotIdle DEF Works, InPlace, Holder, At
  <2>3. wk[u].tok = lease'.token
    BY <1>2, <2>1 DEF Current
  <2>4. wk[u].tok = lease.token
    BY <2>2, <2>3, TokensGrow
  <2>. QED
    BY <1>2, <2>1, <2>2, <2>4 DEF Settled, Fetching, Current, At
<1>. QED
  BY <1>1, <1>2 DEF Settled, Fetching, At

LEMMA ResolvedStays ==
    ASSUME IInv, IInv', [Next]_vars, NEW g \in Game, NEW r, Resolved(r, g)
    PROVE  Resolved(r, g)'
BY SpentStays, SettledStays DEF Resolved

-----------------------------------------------------------------------------
(* Items of a frozen batch stay accounted for.                                 *)

LEMMA HeadAndTail ==
    ASSUME NEW S, NEW q \in Seq(S), q # <<>>
    PROVE  /\ Tail(q) \in Seq(S) /\ Range(Tail(q)) \subseteq Range(q) /\ Head(q) \in Range(q)
           /\ \A x \in Range(q) : x = Head(q) \/ x \in Range(Tail(q))
<1>1. /\ Len(q) \in Nat /\ Len(q) >= 1 /\ Tail(q) \in Seq(S) /\ Len(Tail(q)) = Len(q) - 1
      /\ Head(q) = q[1] /\ \A i \in 1..(Len(q) - 1) : Tail(q)[i] = q[i + 1]
      /\ DOMAIN q = 1..Len(q) /\ DOMAIN Tail(q) = 1..(Len(q) - 1)
  OBVIOUS
<1>2. Range(Tail(q)) \subseteq Range(q)
  BY <1>1 DEF Range
<1>3. Head(q) \in Range(q)
  BY <1>1 DEF Range
<1>4. ASSUME NEW i \in DOMAIN q
      PROVE  q[i] = Head(q) \/ q[i] \in Range(Tail(q))
  <2>1. CASE i = 1
    BY <1>1, <2>1
  <2>2. CASE i # 1
    <3>1. i - 1 \in DOMAIN Tail(q) /\ Tail(q)[i - 1] = q[i]
      BY <1>1, <2>2
    <3>. QED
      BY <3>1 DEF Range
  <2>. QED
    BY <2>1, <2>2
<1>. QED
  BY <1>1, <1>2, <1>3, <1>4 DEF Range

\* A worker on its batch leaves no item of it behind, if it leaves none of those it had left,
\* nor the one it was fetching.
LEMMA GoesOn ==
    ASSUME IInv, IInv', [Next]_vars, NEW w \in Worker, Passing(w), wk[w].pc \in {"claim", "fetch"},
           wk'[w].run = wk[w].run, wk'[w].status = wk[w].status, wk'[w].batch = wk[w].batch,
           Range(wk'[w].left) \subseteq Range(wk[w].left),
           \A g \in Range(wk[w].left) : Placed(w, g)',
           \A g \in Game : At(w, "fetch") /\ g = wk[w].game => Placed(w, g)'
    PROVE  Passing(w)'
<1>. DEFINE r == wk[w].run
<1>1. /\ r \in Run /\ wk[w].status = "queued" /\ Range(wk[w].left) \subseteq Range(wk[w].batch)
      /\ Range(wk[w].batch) \subseteq Range(runs[r].batch)
  BY NotIdle DEF Passing
<1>2. Range(wk[w].batch) \subseteq Range(runs'[r].batch)
  BY <1>1, BatchStays
<1>3. \A g \in Range(wk[w].batch) : g \in Game
  <2>1. wk[w].batch \in Seq(Game)
    BY NotIdle DEF IsWorker, Memory
  <2>. QED
    BY <2>1, ElementsOfSeq
<1>4. ASSUME NEW g \in Range(wk[w].batch)
      PROVE  Placed(w, g)'
  <2>1. Placed(w, g)
    BY <1>4 DEF Passing
  <2>2. CASE g \in Range(wk[w].left) \/ (At(w, "fetch") /\ wk[w].game = g)
    BY <1>3, <2>2
  <2>3. CASE Resolved(wk[w].run, g)
    <3>1. Resolved(wk[w].run, g)'
      <4>1. PICK s : s = wk[w].run
        OBVIOUS
      <4>2. Resolved(s, g)'
        BY <1>3, <2>3, <4>1, ResolvedStays
      <4>3. s = wk'[w].run
        BY <4>1
      <4>. QED
        BY <4>1, <4>2, <4>3 DEF Resolved, Tried
    <3>2. wk'[w].run = wk[w].run
      OBVIOUS
    <3>. QED
      BY <3>1, <3>2 DEF Placed, Resolved, Tried
  <2>. QED
    BY <2>1, <2>2, <2>3 DEF Placed
<1>5. Range(wk'[w].left) \subseteq Range(wk[w].batch)
  BY <1>1
<1>. QED
  BY <1>1, <1>2, <1>4, <1>5 DEF Passing

\* So does a worker that takes up a batch from its beginning.
LEMMA TakesUp ==
    ASSUME NEW w \in Worker, IsWorker(wk[w]), wk[w].pc # "idle", NEW left \in Seq(Game), NEW err,
           Len(left) <= Limit, wk'[w] = Held(w, left, err),
           Range(left) \subseteq Range(runs'[wk[w].run].batch)
    PROVE  Passing(w)' /\ wk'[w].batch = left
<1>1. /\ wk'[w].run = wk[w].run /\ wk'[w].left = left /\ wk'[w].status = "queued"
      /\ wk'[w].batch = left
  BY HeldIsWorker
<1>. QED
  BY <1>1 DEF Passing, Placed

LEMMA SkipPasses ==
    ASSUME DInv, IInv', [Next]_vars, NEW w \in Worker, Skip(w)
    PROVE  Passing(w)'
<1>1. IInv /\ Passing(w) /\ FailedIsSpent /\ ItemsKnown
  BY DEF DInv
<1>2. /\ wk[w].pc = "claim" /\ wk[w].left # <<>> /\ Keeps(w, "claim", Tail(wk[w].left))
      /\ wk[w].left \in Seq(Game)
  BY <1>1, ItemSteps, AfterItem, NotIdle DEF IsWorker, Memory
<1>3. PICK g \in Game : g = Head(wk[w].left) /\ g \in Range(wk[w].left)
  BY <1>2, HeadAndTail
<1>4. Resolved(wk[w].run, g)
  <2>1. Finished(w, g) \/ (Verified(w) /\ cand[g].state \notin {"pending", "retryable"})
    BY Zenon, <1>3 DEF Skip
  <2>2. CASE Finished(w, g)
    <3>1. PICK a \in AttemptsAt(g) : a.run = wk[w].run /\ a.outcome \in {"succeeded", "failed"}
      BY <2>2 DEF Finished
    <3>2. CASE a.outcome = "failed"
      BY <3>1, <3>2 DEF Resolved, Tried
    <3>3. CASE a.outcome = "succeeded"
      <4>1. a \in attempts /\ a.game = g
        BY DEF AttemptsAt
      <4>2. cand[g].state = "processed"
        BY <1>1, <3>3, <4>1 DEF IInv, History, SuccessIsFinal
      <4>3. ASSUME NEW u \in Worker, Current(u), wk[u].pc = "fetch", wk[u].game = g
            PROVE  FALSE
        <5>1. InCharge(u)
          BY <1>1, <4>3 DEF IInv, Works
        <5>. QED
          BY <3>3, <4>1, <4>3, <5>1 DEF InCharge, At, AttemptsAt
      <4>. QED
        BY <4>2, <4>3 DEF Resolved, Settled, Fetching, At
    <3>. QED
      BY <3>1, <3>2, <3>3
  <2>3. CASE Verified(w) /\ cand[g].state \notin {"pending", "retryable"}
    <3>1. Current(w) /\ InCharge(w)
      BY <1>1, <1>2, <2>3, VerifiedIsCurrent
    <3>2. cand[g].state # "processing"
      BY <1>2, <3>1 DEF InCharge, Outside, At
    <3>3. cand[g].state # "absent"
      BY <1>1, <1>2, <1>3 DEF ItemsKnown, Passing, Known
    <3>4. cand[g].state \in State
      BY <1>1 DEF IInv, Stored, IsCandidate
    <3>5. cand[g].state = "failed" => Resolved(wk[w].run, g)
      BY <1>1 DEF FailedIsSpent, Resolved
    <3>6. ~Fetching(g)
      BY <1>1, <1>2, <3>1, CurrentIsOne DEF Fetching, At
    <3>. QED
      BY <2>3, <3>2, <3>3, <3>4, <3>5, <3>6 DEF State, Resolved, Settled
  <2>. QED
    BY <2>1, <2>2, <2>3
<1>5. Resolved(wk[w].run, g)'
  <2>1. PICK r : r = wk[w].run /\ r = wk'[w].run
    BY <1>2 DEF Keeps
  <2>2. Resolved(r, g)'
    BY <1>1, <1>4, <2>1, ResolvedStays
  <2>. QED
    BY <2>1, <2>2 DEF Resolved, Tried
<1>6. \A h \in Range(wk[w].left) : Placed(w, h)'
  <2>1. \A h \in Range(wk[w].left) : h = g \/ h \in Range(wk'[w].left)
    BY <1>2, <1>3, HeadAndTail DEF Keeps
  <2>. QED
    BY <1>5, <2>1 DEF Placed
<1>7. Range(wk'[w].left) \subseteq Range(wk[w].left)
  BY <1>2, HeadAndTail DEF Keeps
<1>. QED
  BY <1>1, <1>2, <1>6, <1>7, GoesOn DEF Keeps, At

LEMMA ClaimPasses ==
    ASSUME DInv, IInv', [Next]_vars, NEW w \in Worker, Claim(w)
    PROVE  Passing(w)'
<1>1. IInv /\ Passing(w)
  BY DEF DInv
<1>2. PICK g \in Game : g = Head(wk[w].left) /\ g \in Range(wk[w].left)
  BY <1>1, ItemSteps, NotIdle, HeadAndTail DEF IsWorker, Memory
<1>3. /\ wk[w].pc = "claim" /\ wk[w].left # <<>> /\ wk[w].left \in Seq(Game)
      /\ Passes(w) \/ Claims(w, g, Spent(g) + 1)
  BY <1>1, <1>2, ItemSteps, NotIdle DEF IsWorker, Memory
<1>4. \A h \in Range(wk[w].left) : h = g \/ h \in Range(Tail(wk[w].left))
  BY <1>2, <1>3, HeadAndTail
<1>5. Range(Tail(wk[w].left)) \subseteq Range(wk[w].left)
  BY <1>3, HeadAndTail
<1>6. CASE Claims(w, g, Spent(g) + 1)
  <2>1. Keeps(w, "fetch", Tail(wk[w].left)) /\ wk'[w].game = g
    BY <1>1, <1>6, AfterItem
  <2>2. \A h \in Range(wk[w].left) : Placed(w, h)'
    BY <1>4, <2>1 DEF Placed, Keeps, At
  <2>. QED
    BY <1>1, <1>3, <1>5, <2>1, <2>2, GoesOn DEF Keeps, At
<1>7. CASE ~Claims(w, g, Spent(g) + 1)
  <2>1. Keeps(w, "claim", Tail(wk[w].left))
    BY <1>1, <1>3, <1>7, AfterItem
  <2>2. Exhausted(Spent(g))
    BY Zenon, <1>2, <1>7 DEF Claim, Claims
  <2>3. Exhausted(LastNo(g))
    <3>1. PICK n \in Nat : Nos(g) = 1..n /\ Spent(g) = n
      BY <1>1, SpentIsLast
    <3>. QED
      BY <2>2, <3>1, LastIsLength
  <2>4. Exhausted(LastNo(g))'
    BY <1>1, <2>3, SpentStays
  <2>5. \A h \in Range(wk[w].left) : Placed(w, h)'
    BY <1>4, <2>1, <2>4 DEF Placed, Resolved, Keeps
  <2>. QED
    BY <1>1, <1>3, <1>5, <2>1, <2>5, GoesOn DEF Keeps, At
<1>. QED
  BY <1>6, <1>7

LEMMA CommitPasses ==
    ASSUME DInv, IInv', [Next]_vars, NEW w \in Worker, CommitSuccess(w) \/ CommitFailure(w)
    PROVE  Passing(w)'
<1>1. IInv /\ Passing(w) /\ IsWorker(wk[w]) /\ Works(w)
  BY NotIdle DEF DInv
<1>2. wk[w].pc = "fetch" /\ Keeps(w, "claim", wk[w].left) /\ wk[w].run \in Run
  BY <1>1, ItemSteps, AfterItem, NotIdle
<1>3. PICK g \in Game : g = wk[w].game
  BY <1>1, <1>2 DEF Works, InPlace, At
<1>4. PICK no \in Nat : no = wk[w].no
  BY <1>1 DEF IsWorker, Memory
<1>5. Current(w) /\ InCharge(w)
  BY <1>1, <1>2, VerifiedIsCurrent DEF CommitSuccess, CommitFailure
<1>6. ASSUME CommitSuccess(w)
      PROVE  Settled(g)'
  <2>1. PICK state \in State : state = "processed" /\ state # "absent"
    BY DEF State
  <2>2. Rewritten(g, state, no)
    BY <1>3, <1>4, <1>6, <2>1 DEF CommitSuccess, Rewritten
  <2>3. cand'[g].state = "processed"
    BY <1>1, <2>1, <2>2, CandidateWith
  <2>4. lease' = lease
    BY Zenon, <1>6 DEF CommitSuccess
  <2>5. ASSUME NEW u \in Worker, Current(u)', wk'[u].pc = "fetch"
        PROVE  FALSE
    <3>1. u # w
      BY <1>2, <2>5 DEF Keeps
    <3>2. wk'[u] = wk[u]
      <4>1. Step(w)
        BY <1>6 DEF Step
      <4>. QED
        BY <1>1, <3>1, <4>1, StepSets
    <3>3. Current(u)
      BY <2>4, <2>5, <3>2 DEF Current, Holder, At
    <3>. QED
      BY <1>1, <1>5, <3>1, <3>3, CurrentIsOne
  <2>. QED
    BY <2>3, <2>5 DEF Settled, Fetching, At
<1>7. ASSUME CommitFailure(w)
      PROVE  Tried(wk[w].run, g)'
  <2>1. PICK a \in attempts : a.game = g /\ a.no = no /\ a.run = wk[w].run
    BY <1>2, <1>3, <1>4 DEF DInv, Owned, At, AttemptsAt
  <2>2. PICK b \in attempts : b.game = g /\ b.no = no /\ b.outcome = "open"
    BY <1>2, <1>3, <1>4, <1>5 DEF InCharge, MyAttempt, IsOpen, At
  <2>3. a \in Mine(w)
    <3>1. a = b
      BY <1>1, <2>1, <2>2 DEF IInv, History, Numbered
    <3>. QED
      BY <1>3, <1>4, <2>1, <2>2, <3>1 DEF Mine, AttemptsAt
  <2>4. PICK outcome \in Outcome : outcome = "failed"
    BY DEF Outcome
  <2>5. Closed(Mine(w), outcome)
    <3>1. Mine(w) \subseteq attempts
      BY DEF Mine, AttemptsAt
    <3>2. attempts' = Closes(Mine(w), outcome)
      BY Zenon, <1>7, <2>4 DEF CommitFailure
    <3>. QED
      BY <1>1, <3>1, <3>2, ClosesIsClosed DEF IInv
  <2>6. \E c \in attempts' : c.game = g /\ c.run = wk[w].run /\ c.outcome = "failed"
    BY <2>1, <2>3, <2>4, <2>5 DEF Closed
  <2>. QED
    BY <1>2, <2>6 DEF Tried, AttemptsAt, Keeps
<1>8. Placed(w, g)'
  <2>1. PICK r : r = wk[w].run /\ r = wk'[w].run
    BY <1>2 DEF Keeps
  <2>2. Settled(g)' \/ Tried(r, g)'
    BY <1>6, <1>7, <2>1 DEF Tried
  <2>. QED
    BY <2>1, <2>2 DEF Placed, Resolved, Tried
<1>9. \A h \in Range(wk[w].left) : Placed(w, h)'
  BY <1>2 DEF Placed, Keeps
<1>10. \A h \in Game : At(w, "fetch") /\ h = wk[w].game => Placed(w, h)'
  BY <1>3, <1>8
<1>. QED
  BY <1>1, <1>2, <1>9, <1>10, GoesOn DEF Keeps

LEMMA StepPasses ==
    ASSUME DInv, IInv', [Next]_vars, NEW w \in Worker
    PROVE  Passing(w)'
<1>1. IInv /\ Passing(w)
  BY DEF DInv
<1>2. CASE wk'[w] = wk[w] /\ wk[w].pc \in {"claim", "fetch"}
  <2>1. \A g \in Range(wk[w].left) : Placed(w, g)'
    BY <1>2 DEF Placed
  <2>2. \A g \in Game : At(w, "fetch") /\ g = wk[w].game => Placed(w, g)'
    BY <1>2 DEF Placed, At
  <2>. QED
    BY <1>1, <1>2, <2>1, <2>2, GoesOn
<1>3. CASE TakeUp(w)
  BY <1>1, <1>3, AfterTakeUp, TakesUp
<1>4. CASE Freeze(w)
  <2>1. IsWorker(wk[w]) /\ wk[w].pc # "idle"
    BY <1>1, <1>4, NotIdle DEF Freeze, At
  <2>2. Range(wk[w].batch) \subseteq Range(runs'[wk[w].run].batch)
    <3>1. Range(<<>>) = {}
      BY DEF Range
    <3>. QED
      BY <1>1, <1>4, <3>1, FreezeKeeps
  <2>. QED
    BY <1>1, <1>4, <2>1, <2>2, FreezeKeeps, TakesUp
<1>5. CASE Onward(w)
  BY <1>5, SkipPasses, ClaimPasses, CommitPasses DEF Onward
<1>6. CASE Apart(wk'[w])
  BY <1>6 DEF Passing, Apart
<1>. QED
  <2>1. wk'[w] = wk[w] \/ Step(w)
    BY <1>1, OthersStay
  <2>2. wk'[w] = wk[w] /\ wk[w].pc \notin {"claim", "fetch"} => Apart(wk'[w])
    BY DEF Apart
  <2>. QED
    BY <1>1, <1>2, <1>3, <1>4, <1>5, <1>6, <2>1, <2>2, AfterStep

LEMMA StepOwns ==
    ASSUME DInv, IInv', [Next]_vars, NEW w \in Worker
    PROVE  Owned(w)'
<1>1. IInv /\ Owned(w) /\ RowsStay
  BY EndedStay DEF DInv
<1>2. CASE wk'[w] = wk[w]
  BY <1>1, <1>2 DEF Owned, At, RowsStay, AttemptsAt
<1>3. CASE Step(w) /\ wk'[w].pc = "fetch"
  <2>1. Claim(w)
    BY <1>1, <1>3, FetchIsClaimed
  <2>2. PICK g : g = Head(wk[w].left)
    OBVIOUS
  <2>3. PICK no : no = Spent(g) + 1
    OBVIOUS
  <2>4. wk[w].pc = "claim" /\ ~Passes(w)
    BY <1>1, <1>3, <2>1, ItemSteps, AfterItem DEF Keeps
  <2>5. /\ Claims(w, g, no)
        /\ attempts' = attempts \cup {[game |-> g, no |-> no, run |-> wk[w].run,
                                       token |-> wk[w].tok, outcome |-> "open"]}
    BY Zenon, <2>1, <2>2, <2>3, <2>4 DEF Claim, Claims, Passes
  <2>6. wk'[w].game = g /\ wk'[w].run = wk[w].run
    BY <1>1, <2>5, AfterItem DEF Keeps
  <2>7. wk'[w].no = no
    <3>1. IsWorker(wk[w]) /\ wk' = [wk EXCEPT ![w] = wk'[w]]
      BY <1>1, <2>5 DEF Claims, Set, IInv, Working
    <3>2. wk'[w] = [wk[w] EXCEPT !.pc = "fetch", !.left = Tail(@), !.game = g, !.no = no]
      BY <1>1, <2>5 DEF Claims, Set, IInv, Working
    <3>. QED
      BY <3>1, <3>2 DEF IsWorker, Memory
  <2>8. PICK a : a = [game |-> g, no |-> no, run |-> wk[w].run, token |-> wk[w].tok,
                      outcome |-> "open"]
    OBVIOUS
  <2>9. a.game = g /\ a.no = no /\ a.run = wk[w].run
    BY <2>8
  <2>10. attempts' = attempts \cup {a}
    BY Zenon, <2>5, <2>8
  <2>. QED
    BY <2>6, <2>7, <2>9, <2>10 DEF Owned, AttemptsAt
<1>4. CASE wk'[w].pc # "fetch"
  BY <1>4 DEF Owned, At
<1>. QED
  BY <1>1, <1>2, <1>3, <1>4, OthersStay

LEMMA KnownGrows ==
    ASSUME IInv, [Next]_vars
    PROVE  Known \subseteq Known'
BY StepTreats DEF Treats, Known

LEMMA WorkerItems ==
    ASSUME DInv, IInv', [Next]_vars, NEW w \in Worker
    PROVE  Range(wk'[w].batch) \subseteq Known'
<1>1. IInv /\ Range(wk[w].batch) \subseteq Known /\ Known \subseteq Known'
  BY KnownGrows DEF DInv, ItemsKnown
<1>2. Range(<<>>) = {}
  BY DEF Range
<1>3. CASE wk'[w].batch = wk[w].batch
  BY <1>1, <1>3
<1>4. CASE wk'[w].batch = <<>>
  BY <1>2, <1>4
<1>5. CASE Select(w)
  BY <1>1, <1>5, AfterSelect
<1>11. CASE TakeUp(w)
  <2>1. wk'[w].batch = runs[wk[w].run].batch /\ wk[w].run \in Run
    BY <1>1, <1>11, AfterTakeUp, HeldIsWorker
  <2>. QED
    BY <1>1, <2>1 DEF DInv, ItemsKnown
<1>6. CASE Insert(w)
  BY <1>1, <1>6, AfterInsert
<1>7. CASE Freeze(w)
  <2>1. IsWorker(wk[w]) /\ wk[w].pc # "idle"
    BY <1>1, <1>7, NotIdle DEF Freeze, At
  <2>2. wk'[w].batch = wk[w].batch
    BY <1>1, <1>7, <2>1, FreezeKeeps, HeldIsWorker
  <2>. QED
    BY <1>3, <2>2
<1>8. CASE Onward(w)
  BY <1>1, <1>3, <1>8, ItemSteps, AfterItem DEF Onward, Keeps
<1>9. CASE Reading(w)
  BY <1>1, <1>3, <1>9, AfterReading
<1>10. CASE Leaving(w)
  BY <1>1, <1>4, <1>10, AfterLeaving
<1>. QED
  <2>1. wk'[w] = wk[w] \/ Step(w)
    BY <1>1, OthersStay
  <2>. QED
    BY <1>3, <1>5, <1>6, <1>7, <1>8, <1>9, <1>10, <1>11, <2>1 DEF Step, Onward, Reading, Leaving

LEMMA ItemsStayKnown ==
    ASSUME DInv, IInv', [Next]_vars
    PROVE  ItemsKnown'
<1>1. IInv /\ ItemsKnown /\ Known \subseteq Known'
  BY KnownGrows DEF DInv
<1>2. ASSUME NEW r \in Run
      PROVE  Range(runs'[r].batch) \subseteq Known'
  <2>1. CASE runs'[r].batch = runs[r].batch
    BY <1>1, <2>1 DEF ItemsKnown
  <2>2. ASSUME NEW w \in Worker, Freeze(w), wk[w].run = r
        PROVE  Range(runs'[r].batch) \subseteq Known'
    <3>1. runs'[r].batch = wk[w].batch \/ runs'[r].batch = runs[r].batch
      BY <1>1, <2>2, FreezeKeeps
    <3>. QED
      BY <1>1, <3>1 DEF ItemsKnown
  <2>. QED
    BY <1>1, <2>1, <2>2, OnlyFreezes
<1>. QED
  BY <1>2, WorkerItems DEF ItemsKnown

LEMMA FailedStaysSpent ==
    ASSUME DInv, IInv', [Next]_vars
    PROVE  FailedIsSpent'
<1>1. IInv /\ FailedIsSpent
  BY DEF DInv
<1>2. ASSUME NEW g \in Game, cand'[g].state = "failed"
      PROVE  Exhausted(LastNo(g))'
  BY <1>1, <1>2, StepTreats, SpentStays DEF Treats, FailedIsSpent
<1>. QED
  BY <1>2 DEF FailedIsSpent

LEMMA AttemptsStayBatched ==
    ASSUME DInv, [Next]_vars
    PROVE  AttemptsBatched'
<1>1. IInv /\ AttemptsBatched
  BY DEF DInv
<1>2. SUFFICES ASSUME NEW b \in attempts'
               PROVE  b.game \in Range(runs'[b.run].batch)
  BY DEF AttemptsBatched
<1>3. ASSUME NEW a \in attempts, b.game = a.game, b.run = a.run
      PROVE  b.game \in Range(runs'[b.run].batch)
  <2>1. b.run \in Run /\ b.game \in Range(runs[b.run].batch)
    BY <1>1, <1>3 DEF AttemptsBatched, IInv, Stored, Attempt
  <2>. QED
    BY <1>1, <2>1, BatchStays
<1>4. ASSUME NEW w \in Worker, Claim(w), b.game = Head(wk[w].left), b.run = wk[w].run
      PROVE  b.game \in Range(runs'[b.run].batch)
  <2>1. /\ wk[w].pc = "claim" /\ wk[w].left # <<>> /\ wk[w].left \in Seq(Game)
        /\ wk[w].run \in Run
    BY <1>1, <1>4, ItemSteps, NotIdle DEF IsWorker, Memory
  <2>2. Head(wk[w].left) \in Range(runs[wk[w].run].batch)
    BY <2>1, HeadAndTail DEF DInv, Passing
  <2>. QED
    BY <1>1, <1>4, <2>1, <2>2, BatchStays
<1>. QED
  BY <1>1, <1>3, <1>4, RowsComeFrom

LEMMA BatchesAccountedFor == Spec => []DInv
<1>1. Init => DInv
  <2>1. SUFFICES ASSUME Init
                 PROVE  DInv
    OBVIOUS
  <2>2. IInv
    BY <2>1, InitIsSafe
  <2>3. Range(<<>>) = {}
    BY DEF Range
  <2>4. ASSUME NEW w \in Worker
        PROVE  wk[w] = Idle /\ wk[w].pc = "idle" /\ wk[w].batch = <<>>
    BY <2>1 DEF Init, Idle
  <2>5. \A r \in Run : runs[r].batch = <<>>
    BY <2>1 DEF Init
  <2>6. \A g \in Game : cand[g].state = "absent"
    BY <2>1 DEF Init
  <2>7. ItemsKnown
    BY <2>3, <2>4, <2>5 DEF ItemsKnown
  <2>8. FailedIsSpent
    BY <2>6 DEF FailedIsSpent
  <2>10. AttemptsBatched
    BY <2>1 DEF Init, AttemptsBatched
  <2>9. \A w \in Worker : Passing(w) /\ Owned(w)
    BY <2>4 DEF Passing, Owned, At
  <2>. QED
    BY <2>2, <2>7, <2>8, <2>9, <2>10 DEF DInv
<1>2. DInv /\ [Next]_vars => DInv'
  <2>1. SUFFICES ASSUME DInv, [Next]_vars
                 PROVE  DInv'
    OBVIOUS
  <2>2. IInv'
    BY <2>1, NextIsSafe DEF DInv
  <2>3. ItemsKnown' /\ FailedIsSpent' /\ AttemptsBatched'
    BY <2>1, <2>2, ItemsStayKnown, FailedStaysSpent, AttemptsStayBatched
  <2>4. \A w \in Worker : Passing(w)' /\ Owned(w)'
    BY <2>1, <2>2, StepPasses, StepOwns
  <2>. QED
    BY <2>2, <2>3, <2>4 DEF DInv
<1>. QED
  BY <1>1, <1>2, PTL DEF Spec

\* A frozen batch that has items is the batch of its run for good, and whatever its run attempts
\* is one of them, although a worker that read the row before may freeze another batch in it: the
\* positions in the table turn that away, except from a batch without any.
THEOREM BatchStaysFrozenHolds == Spec => BatchStaysFrozen
<1>1. ASSUME DInv, DInv', [Next]_vars, NEW r \in Run, runs[r].frozen
      PROVE  /\ runs'[r].frozen
             /\ runs[r].batch # <<>> => runs'[r].batch = runs[r].batch
             /\ Len(runs'[r].batch) <= Limit
             /\ \A a \in attempts' : a.run = r => a.game \in Range(runs'[r].batch)
  <2>1. Len(runs'[r].batch) <= Limit
    BY <1>1 DEF DInv, IInv, Stored, IsRun
  <2>2. \A a \in attempts' : a.run = r => a.game \in Range(runs'[r].batch)
    BY <1>1 DEF DInv, AttemptsBatched
  <2>. QED
    BY <1>1, <2>1, <2>2, BatchStays DEF DInv
<1>2. DInv /\ DInv' /\ [Next]_vars =>
          [\A r \in Run : runs[r].frozen =>
              /\ runs'[r].frozen
              /\ runs[r].batch # <<>> => runs'[r].batch = runs[r].batch
              /\ Len(runs'[r].batch) <= Limit
              /\ \A a \in attempts' : a.run = r => a.game \in Range(runs'[r].batch)]_vars
  BY <1>1
<1>. QED
  BY <1>2, BatchesAccountedFor, PTL DEF Spec, BatchStaysFrozen

\* Only the verdict on a whole batch calls it a success.
LEMMA OnlyTheVerdict ==
    ASSUME DInv, [Next]_vars, NEW w \in Worker, wk[w].pc = "claim", wk'[w].status = "succeeded"
    PROVE  FinishBatch(w) /\ wk[w].left = <<>> /\ Bad(wk[w].run) = {}
<1>1. IInv /\ Passing(w) /\ wk[w].status = "queued"
  BY DEF DInv, Passing
<1>2. Step(w)
  BY <1>1, OthersStay
<1>3. ~(Skip(w) \/ Claim(w))
  BY <1>1, ItemSteps, AfterItem DEF Keeps
<1>4. wk = [v \in Worker |-> wk[v]]
  BY <1>1 DEF IInv, Working
<1>5. Idle.status = "queued" 
  BY DEF Idle
<1>6. ~Crash(w)
  BY <1>4, <1>5 DEF Crash, Set
<1>7. ASSUME NEW there, NEW status
      PROVE  /\ Only(w, there).status = "queued"
             /\ \A err : Over(w, status, err).status = status
  BY DEF Only, Over, Idle
<1>8. ~Fault(w)
  BY <1>4, <1>7 DEF Fault, Leave, Set
<1>9. CutShort(wk[w].run) # "succeeded"
  BY DEF CutShort
<1>10. ~LoseLease(w)
  <2>1. SUFFICES ASSUME LoseLease(w)
                 PROVE  FALSE
    OBVIOUS
  <2>2. PICK status : status = CutShort(wk[w].run)
    OBVIOUS
  <2>3. wk'[w] = Over(w, status, TRUE)
    BY <1>4, <2>1, <2>2 DEF LoseLease, Set, CutOff
  <2>4. Over(w, status, TRUE).status = status
    BY <1>7
  <2>5. wk'[w].status = status
    BY ONLY <2>3, <2>4
  <2>. QED
    BY <1>9, <2>2, <2>5
<1>11. FinishBatch(w)
  <2>1. ~\E r \in Run : Begin(w, r) \/ Resume(w, r)
    BY Zenon DEF Begin, Resume, At
  <2>5. ~(Acquire(w) \/ Overlap(w) \/ MarkRunning(w) \/ TakeUp(w) \/ Legacy(w) \/ FreezeClashes(w))
    BY Zenon DEF Acquire, Overlap, MarkRunning, TakeUp, Legacy, FreezeClashes, At
  <2>2. ~(Recover(w) \/ Select(w) \/ ReadListing(w) \/ ListingFails(w))
    BY Zenon DEF Recover, Select, ReadListing, ListingFails, At
  <2>3. ~(Insert(w) \/ InsertClashes(w) \/ Freeze(w))
    BY Zenon DEF Insert, InsertClashes, Freeze, At
  <2>4. ~(CommitSuccess(w) \/ CommitFailure(w) \/ Abort(w) \/ Close(w))
    BY Zenon DEF CommitSuccess, CommitFailure, Abort, Close, At
  <2>. QED
    BY <1>2, <1>3, <1>6, <1>8, <1>10, <2>1, <2>2, <2>3, <2>4, <2>5 DEF Step
<1>12. wk'[w].status = Verdict(wk[w].run, wk[w].err) /\ wk[w].left = <<>>
  BY <1>4, <1>7, <1>11 DEF FinishBatch, Set
<1>. QED
  BY <1>9, <1>11, <1>12 DEF Verdict

\* The verdict on a run looks only at the latest attempts of that run at its items, and still a
\* run closed as succeeded leaves each item of its batch processed or out of attempts: whatever
\* else may have become of an item, another run, a person or a recovery had settled it.
THEOREM SucceededIsDoneHolds == Spec => SucceededIsDone
<1>1. ASSUME DInv, [Next]_vars, NEW w \in Worker, At(w, "claim"), wk'[w].status = "succeeded",
             NEW g \in Range(wk[w].batch)
      PROVE  cand[g].state = "processed" \/ Exhausted(LastNo(g))
  <2>1. wk[w].pc = "claim" /\ IInv /\ Passing(w)
    BY <1>1 DEF At, DInv
  <2>2. wk[w].left = <<>> /\ Bad(wk[w].run) = {}
    BY <1>1, <2>1, OnlyTheVerdict
  <2>3. Resolved(wk[w].run, g)
    BY <1>1, <2>1, <2>2 DEF Passing, Placed, At, Range
  <2>4. ASSUME NEW a \in AttemptsAt(g), a.run = wk[w].run, a.outcome = "failed"
        PROVE  FALSE
    <3>1. a \in attempts /\ a.game = g
      BY DEF AttemptsAt
    <3>2. \A c \in AttemptsAt(a.game) : c.run = wk[w].run => c.no <= a.no
      <4>1. SUFFICES ASSUME NEW c \in AttemptsAt(g), c.run = wk[w].run
                     PROVE  c.no <= a.no
        BY <3>1
      <4>2. c \in attempts /\ c.game = g
        BY DEF AttemptsAt
      <4>3. ~(a.no < c.no)
        BY <2>1, <2>4, <3>1, <4>1, <4>2 DEF IInv, History, OncePerRun
      <4>4. a.no \in Nat /\ c.no \in Nat
        BY <2>1, <3>1, <4>2 DEF IInv, Stored, Attempt
      <4>. QED
        BY <4>3, <4>4
    <3>. QED
      BY <2>2, <2>4, <3>1, <3>2 DEF Bad, LatestEnded
  <2>. QED
    BY <2>3, <2>4 DEF Resolved, Settled, Tried
<1>2. DInv /\ [Next]_vars =>
          [\A w \in Worker : At(w, "claim") /\ wk'[w].status = "succeeded" =>
              \A g \in Range(wk[w].batch) :
                  cand[g].state = "processed" \/ Exhausted(LastNo(g))]_vars
  BY <1>1
<1>. QED
  BY <1>2, BatchesAccountedFor, PTL DEF Spec, SucceededIsDone
=============================================================================
