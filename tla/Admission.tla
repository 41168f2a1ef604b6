------------------------------ MODULE Admission ------------------------------
(***************************************************************************)
(* The admission of manual runs (processing/admission.py) and the views    *)
(* over it (presentation/operators.py).                                    *)
(*                                                                         *)
(* A POST reads the clock, then waits for the TriggerAdmission row; when   *)
(* it has it, the clock it compares with may be behind the requests that   *)
(* others have made.  What becomes of an admitted request is module        *)
(* Scheduler's.                                                            *)
(***************************************************************************)
EXTENDS Integers, FiniteSets, FiniteSetsExt

CONSTANTS Operator,    \* users with the permission trigger_run; others are turned away
          Key,         \* request ids
          Post,        \* concurrent requests of the web server
          Hour, Cooldown, HourlyLimit,
          Wait,        \* bound on the wait for the row, in ticks
          MaxTime      \* bound on the clock

VARIABLES clock,
          requests,    \* ManualRunRequest
          lease,       \* ProcessingLease: when it expires; 0: no owner
          posts,       \* local variables of each POST
          served       \* who was told that a request of theirs is admitted (history)

vars == <<clock, requests, lease, posts, served>>

None == 0
Idle == [pc |-> "idle", user |-> None, key |-> None, now |-> 0]

Init == /\ clock = 1 /\ requests = {} /\ lease = None
        /\ posts = [p \in Post |-> Idle]
        /\ served = {}

Row(key) == {r \in requests : r.key = key}

\* Mutant of Recent: a request of exactly an hour ago is not counted, nor is one made since now.
RecentBeforeNow(now) == {r \in requests : now - Hour < r.at /\ r.at < now}
\* created_at >= now - 1 hour; one made after now was read is counted too.
Recent(now) == {r \in requests : r.at >= now - Hour}

Latest(rows)   == Max({r.at : r \in rows})
Earliest(rows) == Min({r.at : r \in rows})

\* The refusals of the limits, each with its Retry-After.
TooSoon(now) == IF Recent(now) = {} THEN {}
                ELSE {n \in {Cooldown - (now - Latest(Recent(now)))} : n > 0}
TooMany(now) == IF Cardinality(Recent(now)) < HourlyLimit THEN {}
                ELSE {Max({1, Earliest(Recent(now)) + Hour - now})}

Limited(now) == TooSoon(now) # {} \/ TooMany(now) # {}

-----------------------------------------------------------------------------
(* run_view.  The permission and the form of the id are judged first.       *)

\* The ids in use; a fresh one is the next number.
Used == {r.key : r \in requests} \cup {posts[p].key : p \in Post}

Arrive(p) ==
    /\ posts[p] = Idle
    /\ \E u \in Operator, k \in {n \in Key : n - 1 \in Used \cup {None}} :
          posts' = [posts EXCEPT ![p] = [pc |-> "waiting", user |-> u, key |-> k, now |-> clock]]
    /\ UNCHANGED <<clock, requests, lease, served>>

Refuse(p) == posts' = [posts EXCEPT ![p] = Idle] /\ UNCHANGED <<requests, served>>
Serve(p)  == /\ posts' = [posts EXCEPT ![p] = Idle]
             /\ served' = served \cup {[user |-> posts[p].user, key |-> posts[p].key]}

\* admit, from the lock to the commit.
Admit(p) ==
    LET u == posts[p].user
        k == posts[p].key
        now == posts[p].now
        known == Row(k)
    IN /\ posts[p].pc = "waiting"
       /\ \/ (\E r \in known : r.user # u) /\ Refuse(p)                      \* AdmissionConflict
          \/ (\E r \in known : r.user = u) /\ Serve(p) /\ UNCHANGED requests   \* replayed
          \/ known = {} /\ (lease > now \/ Limited(now)) /\ Refuse(p)         \* busy, rate_limited
          \/ /\ known = {} /\ lease <= now /\ ~Limited(now)                   \* accepted
             /\ Serve(p)
             /\ requests' = requests \cup {[key |-> k, user |-> u, at |-> now]}
       /\ UNCHANGED <<clock, lease>>

\* The scheduler takes the lease and gives it up.
LeaseMoves ==
    /\ lease' \in {None, clock + 1} \ {lease}
    /\ UNCHANGED <<clock, requests, posts, served>>

Tick == /\ clock < MaxTime
        /\ \A p \in Post : posts[p].pc = "waiting" => clock < posts[p].now + Wait
        /\ clock' = clock + 1
        /\ lease' = IF \E now \in {clock + 1} \cup ({posts[p].now : p \in Post} \ {0}) : lease > now
                    THEN lease ELSE None      \* expired for every caller
        /\ UNCHANGED <<requests, posts, served>>

Next == \/ \E p \in Post : Arrive(p) \/ Admit(p)
        \/ LeaseMoves
        \/ Tick

Spec == Init /\ [][Next]_vars

\* run_status_view: what a user is told of a key.
Lookup(u, key) == {r \in requests : r.key = key /\ r.user = u}

-----------------------------------------------------------------------------
(* Properties. *)

\* Whenever a request was made, however long it waited for the row: none was made within the
\* cooldown before it, and in no hour that ends with it more than the limit.
LimitsKept ==
    \A r \in requests :
        /\ \A s \in requests \ {r} : r.at - s.at >= Cooldown \/ s.at - r.at >= Cooldown
        /\ Cardinality({s \in requests : s.at \in (r.at - Hour)..r.at}) <= HourlyLimit

\* An id belongs to the operator whose POST was accepted, and who was told so can ask for its
\* status; the others are told neither that it is admitted nor, by its status, that it exists.
IdsAreOwned ==
    /\ \A k \in Key : Cardinality(Row(k)) <= 1
    /\ \A a \in served : Lookup(a.user, a.key) # {}
    /\ \A r \in requests : \A u \in Operator \ {r.user} :
          Lookup(u, r.key) = {} /\ [user |-> u, key |-> r.key] \notin served

\* A POST that did not wait for the row is told the truth: who waits for Retry-After, and one
\* tick more, is not refused again for the same reason if nobody else was admitted, and a tick
\* less would not have done.  (One more: the window of the hourly limit holds its first instant.)
RetryAfterIsHonest ==
    /\ \A n \in TooSoon(clock) : TooSoon(clock + n) = {} /\ TooSoon(clock + n - 1) # {}
    /\ \A n \in TooMany(clock) : TooMany(clock + n + 1) = {} /\ TooMany(clock + n - 1) # {}

AdmissionKept == LimitsKept /\ IdsAreOwned /\ RetryAfterIsHonest
=============================================================================
