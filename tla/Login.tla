-------------------------------- MODULE Login --------------------------------
(***************************************************************************)
(* The throttle of the operator login (presentation/operators.py).         *)
(*                                                                         *)
(* A POST counts the recent failures of its user and of its address, then  *)
(* lets django.contrib.auth judge the password, and only then records a    *)
(* failure of both: the count is not locked, and others are under way.     *)
(***************************************************************************)
EXTENDS Integers, FiniteSets, FiniteSetsExt

CONSTANTS User, Address,
          Call,          \* concurrent requests of the web server
          Window,        \* LOGIN_THROTTLE_WINDOW_SECONDS
          MaxAttempts,   \* LOGIN_THROTTLE_MAX_ATTEMPTS
          Patience       \* bound on the ticks that judging a password takes

VARIABLES failures,   \* LoginFailure: for each fingerprint and age, how many
          calls       \* local variables of each POST

vars == <<failures, calls>>

Fingerprint == User \cup Address
Age  == 0..(Window + Patience)
Idle == [pc |-> "idle"]

Init == /\ failures = [f \in Fingerprint |-> [a \in Age |-> 0]]
        /\ calls = [c \in Call |-> Idle]

Within(f, ages) == MapThenSumSet(LAMBDA a : failures[f][a], ages)

\* _throttled: created_at >= now - window
Throttled(f) == Within(f, 0..Window) >= MaxAttempts

Free(u, a) == ~Throttled(u) /\ ~Throttled(a)

\* login_view up to authenticate.  A throttled POST is answered like a wrong password.
Check(c) == /\ calls[c] = Idle
            /\ \E u \in User, a \in Address :
                  /\ Free(u, a)
                  /\ calls' = [calls EXCEPT ![c] = [pc |-> "judging", user |-> u, address |-> a,
                                                    since |-> 0]]
            /\ UNCHANGED failures

Login(c) == /\ calls[c].pc = "judging"
            /\ calls' = [calls EXCEPT ![c] = Idle]
            /\ UNCHANGED failures

\* One bulk_create for both fingerprints.
Rejected(c) ==
    /\ calls[c].pc = "judging"
    /\ failures' = [f \in Fingerprint |-> IF f \in {calls[c].user, calls[c].address}
                                          THEN [failures[f] EXCEPT ![0] = @ + 1] ELSE failures[f]]
    /\ calls' = [calls EXCEPT ![c] = Idle]

\* One failure of a throttled fingerprint is as good as another: only the recent ones are counted.
Tick == /\ \A c \in Call : calls[c].pc = "judging" => calls[c].since < Patience
        /\ failures' = [f \in Fingerprint |->
                          [a \in Age |-> IF a = 0 THEN 0 ELSE failures[f][a - 1]]]
        /\ calls' = [c \in Call |-> IF calls[c] = Idle THEN Idle
                                    ELSE [calls[c] EXCEPT !.since = @ + 1]]

Next == \/ \E c \in Call : Check(c) \/ Login(c) \/ Rejected(c)
        \/ Tick

Spec == Init /\ [][Next]_vars

-----------------------------------------------------------------------------
\* Failures of one user or of one address within a window never exceed the attempts allowed by
\* more than the requests that were judged while they were counted, one less than the callers.
ThrottleKept ==
    \A f \in Fingerprint : \A a \in 0..Patience :
        Within(f, a..(a + Window)) <= MaxAttempts + Cardinality(Call) - 1
=============================================================================
