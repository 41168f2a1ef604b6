--------------------------- MODULE Operators_proofs ---------------------------
(***************************************************************************)
(* Proofs about the parts of Operators: Admission and Login, for any       *)
(* operators, addresses and ids, any number of concurrent requests and any *)
(* settings of the limits, however long a request waits for its row or for *)
(* its password to be judged, and however the lease comes and goes; Cards, *)
(* the public page of a game; and Evaluation, of the summary prompt.       *)
(* They share no state, and no lemma is about two of them, but for the     *)
(* last theorem.                                                           *)
(***************************************************************************)
EXTENDS Operators, Sums, Sequences

------------------------------------------------------------------------------
(* Admission: the manual runs that operators ask for.                        *)

\* What the settings of the limits may be: there is a cooldown, and it is no longer than the hour.
AdmSettings == /\ Hour \in Nat /\ Cooldown \in Nat \ {0} /\ Cooldown <= Hour
               /\ HourlyLimit \in Nat \ {0}

-----------------------------------------------------------------------------
(* The inductive invariant.                                                    *)

Request == [key : RequestKey, user : Operator, at : Nat]
Waiting == [pc : {"waiting"}, user : Operator, key : RequestKey, now : Nat]

AdmTyped == /\ clock \in Nat
            /\ requests \subseteq Request /\ IsFiniteSet(requests)
            /\ posts \in [Post -> {Adm!Idle} \cup Waiting]

\* Nobody has read a time that is still to come.
Timely == /\ \A r \in requests : r.at <= clock
          /\ \A p \in Post : posts[p].pc = "waiting" => posts[p].now <= clock

KeysApart == \A r, s \in requests : r.key = s.key => r = s
ToldTrue  == \A a \in served : \E r \in requests : r.key = a.key /\ r.user = a.user

AInv == AdmTyped /\ Timely /\ Adm!LimitsKept /\ KeysApart /\ ToldTrue

-----------------------------------------------------------------------------
(* The first and the last of some requests.  An instance has operators of the  *)
(* libraries of its own.                                    *)

LEMMA SameOperators ==
    ASSUME NEW S
    PROVE  Adm!Cardinality(S) = Cardinality(S) /\ Adm!Max(S) = Max(S) /\ Adm!Min(S) = Min(S)
BY Zenon DEF Adm!Cardinality, Cardinality, Adm!IsFiniteSet, IsFiniteSet, Adm!Max, Max, Adm!Min, Min

LEMMA TimesOf ==
    ASSUME NEW R, IsFiniteSet(R), R # {}, \A r \in R : r.at \in Nat
    PROVE  LET T == {r.at : r \in R} IN IsFiniteSet(T) /\ T \subseteq Nat /\ T # {}
<1>. DEFINE T == {r.at : r \in R}
            f == [r \in R |-> r.at]
<1>1. f \in Surjection(R, T)
  BY DEF Surjection
<1>. HIDE DEF f
<1>2. IsFiniteSet(T)
  <2>. HIDE DEF T
  <2>. QED
    BY <1>1, FS_Surjection
<1>. QED
  BY <1>2

LEMMA LatestIsLast ==
    ASSUME NEW R, IsFiniteSet(R), R # {}, \A r \in R : r.at \in Nat
    PROVE  /\ Adm!Latest(R) \in Nat /\ \A r \in R : r.at <= Adm!Latest(R)
           /\ \E r \in R : r.at = Adm!Latest(R)
<1>1. PICK T : T = {r.at : r \in R} /\ IsFiniteSet(T) /\ T \subseteq Nat /\ T # {}
  BY TimesOf
<1>2. Max(T) \in T /\ \A x \in T : x <= Max(T)
  BY <1>1, MaxOfNat
<1>. QED
  BY <1>1, <1>2, SameOperators DEF Adm!Latest

LEMMA EarliestIsFirst ==
    ASSUME NEW R, IsFiniteSet(R), R # {}, \A r \in R : r.at \in Nat
    PROVE  /\ Adm!Earliest(R) \in Nat /\ \A r \in R : Adm!Earliest(R) <= r.at
           /\ \E r \in R : r.at = Adm!Earliest(R)
<1>1. PICK T : T = {r.at : r \in R} /\ IsFiniteSet(T) /\ T \subseteq Nat /\ T # {}
  BY TimesOf
<1>2. Min(T) \in T /\ \A x \in T : Min(T) <= x
  BY <1>1, MinOfNat
<1>. QED
  BY <1>1, <1>2, SameOperators DEF Adm!Earliest

LEMMA RecentAreRequests ==
    ASSUME AdmTyped, NEW now
    PROVE  /\ Adm!Recent(now) \subseteq requests /\ IsFiniteSet(Adm!Recent(now))
           /\ Cardinality(Adm!Recent(now)) \in Nat /\ \A r \in Adm!Recent(now) : r.at \in Nat
<1>1. Adm!Recent(now) \subseteq requests
  BY DEF Adm!Recent
<1>2. IsFiniteSet(Adm!Recent(now)) /\ Cardinality(Adm!Recent(now)) \in Nat
  BY <1>1, FS_Subset, FS_CardinalityType DEF AdmTyped
<1>. QED
  BY <1>1, <1>2 DEF AdmTyped, Request

-----------------------------------------------------------------------------
(* An admission.                                                               *)

\* Who is not told to wait for the cooldown comes that long after every request, also those
\* that are no longer among the recent ones.
LEMMA NotTooSoon ==
    ASSUME AdmSettings, AdmTyped, NEW now \in Nat, Adm!TooSoon(now) = {}
    PROVE  \A r \in requests : now - r.at >= Cooldown
<1>1. SUFFICES ASSUME NEW r \in requests
               PROVE  now - r.at >= Cooldown
  OBVIOUS
<1>2. r.at \in Nat
  BY DEF AdmTyped, Request
<1>3. CASE r \in Adm!Recent(now)
  <2>1. PICK R : R = Adm!Recent(now) /\ IsFiniteSet(R) /\ R # {} /\ \A s \in R : s.at \in Nat
    BY <1>3, RecentAreRequests
  <2>2. PICK last : last = Adm!Latest(R) /\ last \in Nat /\ r.at <= last
    BY <1>3, <2>1, LatestIsLast
  <2>3. {n \in {Cooldown - (now - last)} : n > 0} = {}
    BY <2>1, <2>2 DEF Adm!TooSoon
  <2>4. ~(Cooldown - (now - last) > 0)
    BY <2>3
  <2>. QED
    BY <1>2, <2>2, <2>4 DEF AdmSettings
<1>4. CASE r \notin Adm!Recent(now)
  <2>1. ~(r.at >= now - Hour)
    BY <1>4 DEF Adm!Recent
  <2>. QED
    BY <1>2, <2>1 DEF AdmSettings
<1>. QED
  BY <1>3, <1>4

LEMMA NotTooMany ==
    ASSUME AdmTyped, NEW now, Adm!TooMany(now) = {}
    PROVE  Cardinality(Adm!Recent(now)) < HourlyLimit
BY SameOperators DEF Adm!TooMany

\* The requests of the hour that ends with r.
Hourly(r) == {s \in requests : s.at \in (r.at - Hour)..r.at}

LEMMA AcceptKeepsLimits ==
    ASSUME AdmSettings, AdmTyped, Adm!LimitsKept, NEW now \in Nat, ~Adm!Limited(now), NEW new, new \notin requests,
           new.at = now, requests' = requests \cup {new}
    PROVE  Adm!LimitsKept'
<1>1. Adm!TooSoon(now) = {} /\ Adm!TooMany(now) = {}
  BY DEF Adm!Limited
<1>2. \A r \in requests : r.at \in Nat
  BY DEF AdmTyped, Request
<1>3. \A r \in requests : now - r.at >= Cooldown /\ r.at < now
  BY <1>1, <1>2, NotTooSoon DEF AdmSettings
<1>4. \A r \in requests' : \A s \in requests' \ {r} : r.at - s.at >= Cooldown \/ s.at - r.at >= Cooldown
  BY <1>2, <1>3 DEF Adm!LimitsKept
<1>5. ASSUME NEW r \in requests
      PROVE  Hourly(r)' = Hourly(r)
  <2>1. new.at \notin (r.at - Hour)..r.at
    BY <1>2, <1>3
  <2>. QED
    BY <2>1 DEF Hourly
<1>6. Cardinality(Hourly(new)') <= HourlyLimit
  <2>1. Hourly(new)' = Adm!Recent(now) \cup {new}
    <3>1. new.at \in (new.at - Hour)..new.at
      BY DEF AdmSettings
    <3>2. \A s \in requests : s.at \in (new.at - Hour)..new.at <=> s.at >= now - Hour
      BY <1>2, <1>3 DEF AdmSettings
    <3>. QED
      BY <3>1, <3>2 DEF Hourly, Adm!Recent
  <2>2. PICK R : R = Adm!Recent(now) /\ IsFiniteSet(R) /\ Cardinality(R) \in Nat /\ new \notin R
    BY RecentAreRequests
  <2>3. Cardinality(R \cup {new}) = Cardinality(R) + 1
    BY <2>2, FS_AddElement
  <2>4. Cardinality(R) < HourlyLimit
    BY <1>1, <2>2, NotTooMany
  <2>. QED
    BY <2>1, <2>2, <2>3, <2>4 DEF AdmSettings
<1>7. \A r \in requests' : Cardinality(Hourly(r)') <= HourlyLimit
  <2>1. \A r \in requests : Cardinality(Hourly(r)) <= HourlyLimit
    BY SameOperators DEF Adm!LimitsKept, Hourly
  <2>. QED
    BY <1>5, <1>6, <2>1
<1>. QED
  BY <1>4, <1>7, SameOperators DEF Adm!LimitsKept, Hourly

LEMMA AdmitKeeps ==
    ASSUME AdmSettings, AInv, NEW p \in Post, Adm!Admit(p)
    PROVE  AInv'
<1>1. PICK u, k, now : u = posts[p].user /\ k = posts[p].key /\ now = posts[p].now
  OBVIOUS
<1>2. /\ posts[p].pc = "waiting" /\ posts[p] \in Waiting
      /\ u \in Operator /\ k \in RequestKey /\ now \in Nat /\ now <= clock
  BY <1>1 DEF Adm!Admit, AInv, AdmTyped, Timely, Adm!Idle, Waiting
<1>3. clock' = clock /\ posts' = [posts EXCEPT ![p] = Adm!Idle]
  BY DEF Adm!Admit, Adm!Refuse, Adm!Serve
<1>4. /\ posts' \in [Post -> {Adm!Idle} \cup Waiting]
      /\ \A q \in Post : posts'[q].pc = "waiting" => posts'[q].now <= clock'
  BY <1>3 DEF AInv, AdmTyped, Timely, Adm!Idle
<1>5. \/ UNCHANGED <<requests, served>>
      \/ /\ \E r \in Adm!Row(k) : r.user = u
         /\ requests' = requests /\ served' = served \cup {[user |-> u, key |-> k]}
      \/ /\ Adm!Row(k) = {} /\ ~Adm!Limited(now)
         /\ requests' = requests \cup {[key |-> k, user |-> u, at |-> now]}
         /\ served' = served \cup {[user |-> u, key |-> k]}
  BY <1>1 DEF Adm!Admit, Adm!Refuse, Adm!Serve
<1>6. CASE UNCHANGED <<requests, served>>
  BY <1>3, <1>4, <1>6 DEF AInv, AdmTyped, Timely, Adm!LimitsKept, KeysApart, ToldTrue
<1>7. CASE /\ \E r \in Adm!Row(k) : r.user = u
           /\ requests' = requests /\ served' = served \cup {[user |-> u, key |-> k]}
  <2>1. \E r \in requests : r.key = k /\ r.user = u
    BY <1>7 DEF Adm!Row
  <2>2. ToldTrue'
    BY <1>7, <2>1 DEF AInv, ToldTrue
  <2>. QED
    BY <1>3, <1>4, <1>7, <2>2 DEF AInv, AdmTyped, Timely, Adm!LimitsKept, KeysApart
<1>8. CASE /\ Adm!Row(k) = {} /\ ~Adm!Limited(now)
           /\ requests' = requests \cup {[key |-> k, user |-> u, at |-> now]}
           /\ served' = served \cup {[user |-> u, key |-> k]}
  <2>1. PICK new : new = [key |-> k, user |-> u, at |-> now]
    OBVIOUS
  <2>2. new \in Request /\ new.key = k /\ new.user = u /\ new.at = now
    BY <1>2, <2>1 DEF Request
  <2>3. requests' = requests \cup {new}
    BY <1>8, <2>1
  <2>4. \A r \in requests : r.key # k
    BY <1>8 DEF Adm!Row
  <2>5. new \notin requests
    BY <2>2, <2>4
  <2>6. Adm!LimitsKept'
    BY <1>2, <1>8, <2>2, <2>3, <2>5, AcceptKeepsLimits DEF AInv
  <2>7. AdmTyped'
    BY <1>3, <1>4, <2>2, <2>3, FS_AddElement DEF AInv, AdmTyped
  <2>8. Timely'
    BY <1>2, <1>3, <1>4, <2>2, <2>3 DEF AInv, Timely
  <2>9. KeysApart' /\ ToldTrue'
    BY <1>8, <2>2, <2>3, <2>4 DEF AInv, KeysApart, ToldTrue
  <2>. QED
    BY <2>6, <2>7, <2>8, <2>9 DEF AInv
<1>. QED
  BY <1>5, <1>6, <1>7, <1>8

LEMMA OthersKeep ==
    ASSUME AInv, (\E p \in Post : Adm!Arrive(p)) \/ Adm!LeaseMoves \/ Adm!Tick \/ UNCHANGED Adm!vars
    PROVE  AInv'
<1>1. requests' = requests /\ served' = served /\ clock' \in {clock, clock + 1}
  BY DEF Adm!Arrive, Adm!LeaseMoves, Adm!Tick, Adm!vars
<1>2. clock \in Nat /\ clock' \in Nat /\ clock <= clock'
  BY <1>1 DEF AInv, AdmTyped
<1>3. \A q \in Post : posts[q].pc = "waiting" => posts[q].now \in Nat /\ posts[q].now <= clock
  BY DEF AInv, AdmTyped, Timely, Adm!Idle, Waiting
<1>4. \/ posts' = posts
      \/ \E p \in Post : \E m \in Waiting : m.now = clock /\ posts' = [posts EXCEPT ![p] = m]
  <2>1. ASSUME NEW p \in Post, Adm!Arrive(p)
        PROVE  \E m \in Waiting : m.now = clock /\ posts' = [posts EXCEPT ![p] = m]
    BY <1>2, <2>1 DEF Adm!Arrive, Waiting
  <2>. QED
    BY <2>1 DEF Adm!LeaseMoves, Adm!Tick, Adm!vars
<1>5. /\ posts' \in [Post -> {Adm!Idle} \cup Waiting]
      /\ \A q \in Post : posts'[q].pc = "waiting" => posts'[q].now <= clock'
  <2>1. CASE posts' = posts
    BY <1>2, <1>3, <2>1 DEF AInv, AdmTyped
  <2>2. CASE \E p \in Post : \E m \in Waiting : m.now = clock /\ posts' = [posts EXCEPT ![p] = m]
    BY <1>2, <1>3, <2>2 DEF AInv, AdmTyped
  <2>. QED
    BY <1>4, <2>1, <2>2
<1>6. AdmTyped'
  BY <1>1, <1>2, <1>5 DEF AInv, AdmTyped
<1>7. Timely'
  <2>1. \A r \in requests : r.at \in Nat /\ r.at <= clock
    BY DEF AInv, AdmTyped, Timely, Request
  <2>. QED
    BY <1>1, <1>2, <1>5, <2>1 DEF Timely
<1>8. Adm!LimitsKept' /\ KeysApart' /\ ToldTrue'
  BY <1>1 DEF AInv, Adm!LimitsKept, KeysApart, ToldTrue
<1>. QED
  BY <1>6, <1>7, <1>8 DEF AInv

LEMMA InitHolds ==
    ASSUME Adm!Init
    PROVE  AInv
<1>1. requests = {} /\ served = {} /\ IsFiniteSet(requests) /\ clock \in Nat
  BY FS_EmptySet DEF Adm!Init
<1>2. \A p \in Post : posts[p] = Adm!Idle /\ posts[p].pc # "waiting"
  BY DEF Adm!Init, Adm!Idle
<1>3. AdmTyped
  BY <1>1 DEF Adm!Init, AdmTyped
<1>4. Timely
  BY <1>1, <1>2 DEF Timely
<1>5. Adm!LimitsKept /\ KeysApart /\ ToldTrue
  BY <1>1 DEF Adm!LimitsKept, KeysApart, ToldTrue
<1>. QED
  BY <1>3, <1>4, <1>5 DEF AInv

LEMMA NextKeeps ==
    ASSUME AdmSettings, AInv, [Adm!Next]_(Adm!vars)
    PROVE  AInv'
BY AdmitKeeps, OthersKeep DEF Adm!Next

-----------------------------------------------------------------------------
(* What an operator is told.                                                   *)

LEMMA Owned ==
    ASSUME KeysApart, ToldTrue
    PROVE  Adm!IdsAreOwned
<1>1. ASSUME NEW k \in RequestKey
      PROVE  Cardinality(Adm!Row(k)) <= 1
  <2>1. CASE Adm!Row(k) = {}
    BY <2>1, FS_EmptySet
  <2>2. CASE Adm!Row(k) # {}
    <3>1. PICK r : r \in Adm!Row(k)
      BY <2>2
    <3>2. Adm!Row(k) = {r}
      BY <3>1 DEF Adm!Row, KeysApart
    <3>3. Cardinality({r}) = 1
      BY FS_Singleton
    <3>. QED
      BY <3>2, <3>3
  <2>. QED
    BY <2>1, <2>2
<1>2. \A a \in served : Adm!Lookup(a.user, a.key) # {}
  BY DEF ToldTrue, Adm!Lookup
<1>3. ASSUME NEW r \in requests, NEW u \in Operator \ {r.user}
      PROVE  Adm!Lookup(u, r.key) = {} /\ [user |-> u, key |-> r.key] \notin served
  <2>1. \A s \in requests : s.key = r.key => s.user # u
    BY DEF KeysApart
  <2>2. [user |-> u, key |-> r.key] \notin served
    BY <2>1 DEF ToldTrue
  <2>. QED
    BY <2>1, <2>2 DEF Adm!Lookup
<1>. QED
  BY <1>1, <1>2, <1>3, SameOperators DEF Adm!IdsAreOwned

\* The recent requests of a later time are those of this one that are young enough.
LEMMA RecentLater ==
    ASSUME AdmSettings, AdmTyped, NEW now \in Nat, NEW then \in Nat, now <= then
    PROVE  Adm!Recent(then) = {r \in Adm!Recent(now) : r.at >= then - Hour}
BY DEF Adm!Recent, AdmTyped, Request, AdmSettings

LEMMA CooldownHonest ==
    ASSUME AdmSettings, AdmTyped, Timely, NEW n \in Adm!TooSoon(clock)
    PROVE  Adm!TooSoon(clock + n) = {} /\ Adm!TooSoon(clock + n - 1) # {}
<1>1. clock \in Nat
  BY DEF AdmTyped
<1>2. PICK R : R = Adm!Recent(clock) /\ R \subseteq requests /\ IsFiniteSet(R) /\ R # {}
               /\ \A r \in R : r.at \in Nat
  BY RecentAreRequests DEF Adm!TooSoon
<1>3. PICK L : L = Adm!Latest(R) /\ L \in Nat /\ (\A r \in R : r.at <= L) /\ \E r \in R : r.at = L
  BY <1>2, LatestIsLast
<1>4. L <= clock
  BY <1>2, <1>3 DEF Timely
<1>5. n = Cooldown - (clock - L) /\ n \in Nat /\ n > 0
  <2>1. n \in {m \in {Cooldown - (clock - L)} : m > 0}
    BY <1>2, <1>3 DEF Adm!TooSoon
  <2>. QED
    BY <1>1, <1>3, <2>1 DEF AdmSettings
<1>6. Adm!TooSoon(clock + n) = {}
  <2>1. SUFFICES ASSUME Adm!Recent(clock + n) # {}
                 PROVE  Adm!TooSoon(clock + n) = {}
    BY DEF Adm!TooSoon
  <2>2. PICK P : P = Adm!Recent(clock + n) /\ IsFiniteSet(P) /\ P # {} /\ \A r \in P : r.at \in Nat
    BY <2>1, RecentAreRequests
  <2>3. PICK l : l = Adm!Latest(P) /\ l \in Nat /\ \E r \in P : r.at = l
    BY <2>2, LatestIsLast
  <2>4. l <= L
    BY <1>1, <1>2, <1>3, <1>5, <2>2, <2>3, RecentLater
  <2>5. ~(Cooldown - ((clock + n) - l) > 0)
    BY <1>1, <1>3, <1>5, <2>3, <2>4 DEF AdmSettings
  <2>. QED
    BY <2>2, <2>3, <2>5 DEF Adm!TooSoon
<1>7. Adm!TooSoon(clock + n - 1) # {}
  <2>1. PICK then \in Nat : then = clock + n - 1 /\ clock <= then
    BY <1>1, <1>5
  <2>2. PICK r : r \in R /\ r.at = L
    BY <1>3
  <2>3. PICK P : P = Adm!Recent(then) /\ IsFiniteSet(P) /\ \A s \in P : s.at \in Nat
    BY <2>1, RecentAreRequests
  <2>4. r \in P
    BY <1>1, <1>2, <1>3, <1>5, <2>1, <2>2, <2>3, RecentLater DEF AdmSettings
  <2>5. PICK l : l = Adm!Latest(P) /\ l \in Nat /\ r.at <= l
    BY <2>3, <2>4, LatestIsLast
  <2>6. PICK m : m = Cooldown - (then - l)
    OBVIOUS
  <2>7. m > 0
    BY <1>1, <1>3, <1>5, <2>1, <2>2, <2>5, <2>6 DEF AdmSettings
  <2>8. m \in Adm!TooSoon(then)
    BY <2>3, <2>4, <2>5, <2>6, <2>7 DEF Adm!TooSoon
  <2>. QED
    BY <2>1, <2>8
<1>. QED
  BY <1>6, <1>7

LEMMA HourHonest ==
    ASSUME AdmSettings, AdmTyped, Timely, Adm!LimitsKept, NEW n \in Adm!TooMany(clock)
    PROVE  Adm!TooMany(clock + n + 1) = {} /\ Adm!TooMany(clock + n - 1) # {}
<1>1. clock \in Nat
  BY DEF AdmTyped
<1>2. PICK R : R = Adm!Recent(clock) /\ R \subseteq requests /\ IsFiniteSet(R)
               /\ Cardinality(R) \in Nat /\ \A r \in R : r.at \in Nat
  BY RecentAreRequests
<1>3. ~(Cardinality(R) < HourlyLimit) /\ n = Max({1, Adm!Earliest(R) + Hour - clock})
  BY <1>2, SameOperators DEF Adm!TooMany
<1>4. R # {}
  BY <1>3, FS_EmptySet DEF AdmSettings
<1>5. PICK E : E = Adm!Earliest(R) /\ E \in Nat /\ \E r \in R : r.at = E
  BY <1>2, <1>4, EarliestIsFirst
<1>6. PICK e : e \in R /\ e.at = E
  BY <1>5
<1>7. E >= clock - Hour
  BY <1>2, <1>6 DEF Adm!Recent
<1>8. n \in Nat /\ n >= 1 /\ n >= E + Hour - clock /\ (n = 1 \/ n = E + Hour - clock)
  <2>1. PICK x : x = E + Hour - clock /\ x \in Nat
    BY <1>1, <1>5, <1>7 DEF AdmSettings
  <2>2. IsFiniteSet({1} \cup {x}) /\ {1} \cup {x} = {1, x}
    <3>1. IsFiniteSet({1}) /\ IsFiniteSet({x})
      BY FS_Singleton
    <3>. QED
      BY <3>1, FS_Union
  <2>3. PICK S : S = {1, x} /\ IsFiniteSet(S) /\ S \subseteq Nat /\ S # {}
    BY <2>1, <2>2
  <2>4. Max(S) \in S /\ \A y \in S : y <= Max(S)
    BY <2>3, MaxOfNat
  <2>5. n = Max(S)
    BY <1>3, <1>5, <2>1, <2>3
  <2>. QED
    BY <2>1, <2>3, <2>4, <2>5
<1>9. Cardinality(R) <= HourlyLimit
  <2>1. PICK L : L = Adm!Latest(R) /\ L \in Nat /\ (\A r \in R : r.at <= L) /\ \E r \in R : r.at = L
    BY <1>2, <1>4, LatestIsLast
  <2>2. PICK r : r \in R /\ r.at = L
    BY <2>1
  <2>3. L <= clock
    BY <1>2, <2>2 DEF Timely
  <2>4. PICK H : H = Hourly(r) /\ H \subseteq requests /\ Cardinality(H) <= HourlyLimit
    BY <1>2, <2>2, SameOperators DEF Adm!LimitsKept, Hourly
  <2>5. \A s \in R : s.at >= clock - Hour
    BY <1>2 DEF Adm!Recent
  <2>6. \A s \in R : s.at \in (r.at - Hour)..r.at
    BY <1>1, <1>2, <2>1, <2>2, <2>3, <2>5 DEF AdmSettings
  <2>7. R \subseteq H
    BY <1>2, <2>4, <2>6 DEF Hourly
  <2>8. IsFiniteSet(H)
    BY <2>4, FS_Subset DEF AdmTyped
  <2>9. Cardinality(R) <= Cardinality(H) /\ Cardinality(H) \in Nat
    BY <2>7, <2>8, FS_Subset, FS_CardinalityType
  <2>. QED
    BY <1>2, <2>4, <2>9 DEF AdmSettings
<1>10. Adm!TooMany(clock + n + 1) = {}
  <2>1. PICK then \in Nat : then = clock + n + 1 /\ clock <= then
    BY <1>1, <1>8
  <2>2. e.at < then - Hour
    BY <1>1, <1>5, <1>6, <1>8, <2>1 DEF AdmSettings
  <2>3. Adm!Recent(then) \subseteq R \ {e}
    BY <1>1, <1>2, <1>5, <1>6, <2>1, <2>2, RecentLater DEF AdmSettings
  <2>4. IsFiniteSet(R \ {e}) /\ Cardinality(R \ {e}) = Cardinality(R) - 1
    BY <1>2, <1>6, FS_RemoveElement
  <2>5. Cardinality(Adm!Recent(then)) <= Cardinality(R \ {e}) /\ Cardinality(Adm!Recent(then)) \in Nat
    BY <2>3, <2>4, FS_Subset, RecentAreRequests
  <2>6. Cardinality(Adm!Recent(then)) < HourlyLimit
    BY <1>2, <1>9, <2>4, <2>5 DEF AdmSettings
  <2>. QED
    BY <2>1, <2>6, SameOperators DEF Adm!TooMany
<1>11. Adm!TooMany(clock + n - 1) # {}
  <2>1. PICK then \in Nat : then = clock + n - 1 /\ clock <= then
    BY <1>1, <1>8
  <2>2. E >= then - Hour
    BY <1>1, <1>5, <1>7, <1>8, <2>1 DEF AdmSettings
  <2>3. \A r \in R : r.at >= E
    BY <1>2, <1>4, <1>5, EarliestIsFirst
  <2>4. \A r \in R : r.at >= then - Hour
    BY <1>2, <1>5, <2>1, <2>2, <2>3 DEF AdmSettings
  <2>5. Adm!Recent(then) = {r \in R : r.at >= then - Hour}
    BY <1>1, <1>2, <2>1, RecentLater
  <2>6. Adm!Recent(then) = R
    BY <2>4, <2>5
  <2>. QED
    BY <1>3, <2>1, <2>6, SameOperators DEF Adm!TooMany
<1>. QED
  BY <1>10, <1>11

LEMMA Told ==
    ASSUME AdmSettings, AInv
    PROVE  Adm!AdmissionKept
<1>1. Adm!IdsAreOwned
  BY Owned DEF AInv
<1>2. Adm!RetryAfterIsHonest
  BY CooldownHonest, HourHonest DEF AInv, Adm!RetryAfterIsHonest
<1>. QED
  BY <1>1, <1>2 DEF AInv, Adm!AdmissionKept

\* However many requests wait for the row, and however long: the admitted ones are spaced by the
\* cooldown and within the hourly limit, an id has one owner who alone is told of it, and the
\* Retry-After of a refusal is neither too short nor a tick too long (admit, run_view,
\* run_status_view).
THEOREM AdmissionHolds == ASSUME AdmSettings PROVE Adm!Spec => []Adm!AdmissionKept
<1>1. Adm!Init => AInv
  BY InitHolds
<1>2. AInv /\ [Adm!Next]_(Adm!vars) => AInv'
  BY NextKeeps
<1>3. AInv => Adm!AdmissionKept
  BY Told
<1>. QED
  BY <1>1, <1>2, <1>3, PTL DEF Adm!Spec

-----------------------------------------------------------------------------
(* The login.                                                                  *)

\* What the settings of the throttle and the server may be.
LoginSettings ==
    IsFiniteSet(Caller) /\ Window \in Nat /\ Patience \in Nat /\ LoginAttempts \in Nat \ {0}

-----------------------------------------------------------------------------
(* The inductive invariant.  Once a fingerprint is throttled no request is     *)
(* admitted to be judged under it, so that what is being judged is all that    *)
(* can still come on top.                                                      *)

Judged == [pc : {"judging"}, user : User, address : Address, since : Int]

LoginTyped == /\ failures \in [Log!Fingerprint -> [Log!Age -> Nat]]
              /\ calls \in [Caller -> {Log!Idle} \cup Judged]

\* The requests that are being judged under fingerprint f.
Judging(f) == {c \in Caller : calls[c].pc = "judging" /\ f \in {calls[c].user, calls[c].address}}
Most == LoginAttempts + Cardinality(Caller) - 1

\* The failures of f in the window that ends a ticks ago.
Count(f, a) == SumFunctionOnSet(failures[f], a..(a + Window))

Full == \A f \in Log!Fingerprint :
            /\ Count(f, 0) >= LoginAttempts => Count(f, 0) + Cardinality(Judging(f)) <= Most
            /\ \A a \in 0..Patience : Count(f, a) <= Most

LInv == LoginTyped /\ Full

-----------------------------------------------------------------------------
(* Windows.                                                                    *)

\* The instance has operators of the libraries of its own.
LEMMA SameCardinality ==
    ASSUME NEW S
    PROVE  Log!Cardinality(S) = Cardinality(S)
BY Zenon DEF Log!Cardinality, Cardinality, Log!IsFiniteSet, IsFiniteSet

LEMMA WithinIsSum ==
    ASSUME NEW f, NEW ages
    PROVE  Log!Within(f, ages) = SumFunctionOnSet(failures[f], ages)
BY Zenon DEF Log!Within, Log!MapThenSumSet, Log!MapThenFoldSet, SumFunctionOnSet, FoldFunctionOnSet, MapThenFoldSet

LEMMA Numbers ==
    ASSUME LoginSettings
    PROVE  /\ Cardinality(Caller) \in Nat /\ Most \in Nat /\ Most >= LoginAttempts - 1
           /\ LoginAttempts \in Nat /\ LoginAttempts > 0
<1>1. Cardinality(Caller) \in Nat
  BY FS_CardinalityType DEF LoginSettings
<1>. QED
  BY <1>1 DEF LoginSettings, Most

\* The requests that are judged are no more than the requests there are.
LEMMA JudgingIsFinite ==
    ASSUME LoginSettings, NEW f
    PROVE  /\ IsFiniteSet(Judging(f)) /\ Cardinality(Judging(f)) \in Nat
           /\ Cardinality(Judging(f)) <= Cardinality(Caller)
<1>1. Judging(f) \subseteq Caller
  BY DEF Judging
<1>. QED
  BY <1>1, FS_Subset, FS_CardinalityType DEF LoginSettings

LEMMA WindowIsFinite ==
    ASSUME LoginSettings, NEW a \in 0..Patience
    PROVE  a..(a + Window) \subseteq Log!Age /\ IsFiniteSet(a..(a + Window))
<1>1. a \in Int /\ a + Window \in Int
  BY DEF LoginSettings
<1>2. IsFiniteSet(a..(a + Window))
  BY <1>1, FS_Interval
<1>. QED
  BY <1>2 DEF LoginSettings, Log!Age

LEMMA CountIsNat ==
    ASSUME LoginSettings, LoginTyped, NEW f \in Log!Fingerprint, NEW a \in 0..Patience
    PROVE  Count(f, a) \in Nat
<1>1. a..(a + Window) \subseteq Log!Age /\ IsFiniteSet(a..(a + Window))
  BY WindowIsFinite
<1>2. \A x \in a..(a + Window) : failures[f][x] \in Nat
  BY <1>1 DEF LoginTyped
<1>. QED
  BY <1>1, <1>2, SumType DEF Count

\* The window of a function that is the same there has the same sum.
LEMMA SameWindow ==
    ASSUME LoginSettings, LoginTyped, LoginTyped', NEW f \in Log!Fingerprint, NEW a \in 0..Patience,
           \A x \in a..(a + Window) : failures'[f][x] = failures[f][x]
    PROVE  Count(f, a)' = Count(f, a)
<1>1. PICK S : S = a..(a + Window) /\ S \subseteq Log!Age /\ IsFiniteSet(S)
  BY WindowIsFinite
<1>2. PICK g : g = failures[f] /\ \A x \in S : g[x] \in Nat
  BY <1>1 DEF LoginTyped
<1>3. PICK h : h = failures'[f] /\ \A x \in S : h[x] \in Nat /\ h[x] = g[x]
  BY <1>1, <1>2
<1>4. \A x \in S : g[x] <= h[x] /\ h[x] <= g[x]
  BY <1>2, <1>3
<1>5. SumFunctionOnSet(g, S) <= SumFunctionOnSet(h, S) /\ SumFunctionOnSet(h, S) <= SumFunctionOnSet(g, S)
  BY <1>1, <1>2, <1>3, <1>4, SumIsMonotone
<1>6. SumFunctionOnSet(g, S) \in Nat /\ SumFunctionOnSet(h, S) \in Nat
  BY <1>1, <1>2, <1>3, SumType
<1>7. SumFunctionOnSet(h, S) = SumFunctionOnSet(g, S)
  BY <1>5, <1>6
<1>. QED
  BY Zenon, <1>1, <1>2, <1>3, <1>7 DEF Count

\* One more failure, of now, counts in the window that ends now and in no other.
LEMMA OneMore ==
    ASSUME LoginSettings, LoginTyped, LoginTyped', NEW f \in Log!Fingerprint,
           failures'[f] = [failures[f] EXCEPT ![0] = @ + 1]
    PROVE  /\ Count(f, 0)' = Count(f, 0) + 1
           /\ \A a \in 0..Patience : a # 0 => Count(f, a)' = Count(f, a)
<1>1. PICK S : S = 0..(0 + Window) /\ IsFiniteSet(S) /\ 0 \in S /\ S \subseteq Log!Age
  <2>1. 0 \in 0..Patience /\ 0 \in 0..(0 + Window)
    BY DEF LoginSettings
  <2>2. 0..(0 + Window) \subseteq Log!Age /\ IsFiniteSet(0..(0 + Window))
    BY <2>1, WindowIsFinite
  <2>. QED
    BY <2>1, <2>2
<1>2. PICK g : g = failures[f] /\ g \in [Log!Age -> Nat]
  BY DEF LoginTyped
<1>3. PICK h : h = failures'[f] /\ h = [g EXCEPT ![0] = @ + 1]
  BY <1>2
<1>4. Raised(h, g, S, 0)
  BY <1>1, <1>2, <1>3 DEF Raised
<1>5. SumFunctionOnSet(h, S) = SumFunctionOnSet(g, S) + 1
  BY <1>1, <1>2, <1>4, SumOfRaised
<1>6. ASSUME NEW a \in 0..Patience, a # 0
      PROVE  Count(f, a)' = Count(f, a)
  <2>1. \A x \in a..(a + Window) : x # 0 /\ x \in Log!Age
    BY <1>6, WindowIsFinite DEF LoginSettings
  <2>2. \A x \in a..(a + Window) : failures'[f][x] = failures[f][x]
    BY <1>2, <2>1
  <2>. QED
    BY <2>2, SameWindow
<1>7. Count(f, 0)' = Count(f, 0) + 1
  BY Zenon, <1>1, <1>2, <1>3, <1>5 DEF Count
<1>. QED
  BY <1>6, <1>7

-----------------------------------------------------------------------------
(* The steps.                                                                  *)

\* Whatever leaves the failures alone and has no more judged than before, or is not full.
LEMMA StaysFull ==
    ASSUME LoginSettings, LInv, LoginTyped', failures' = failures,
           \A f \in Log!Fingerprint : \/ Count(f, 0) < LoginAttempts
                                  \/ Judging(f)' \subseteq Judging(f)
    PROVE  LInv'
<1>1. SUFFICES ASSUME NEW f \in Log!Fingerprint
               PROVE  /\ Count(f, 0)' >= LoginAttempts => Count(f, 0)' + Cardinality(Judging(f)') <= Most
                      /\ \A a \in 0..Patience : Count(f, a)' <= Most
  BY DEF LInv, Full
<1>2. \A a : Count(f, a)' = Count(f, a)
  BY DEF Count
<1>3. \A a \in 0..Patience : Count(f, a)' <= Most
  BY <1>1, <1>2 DEF LInv, Full
<1>4. Count(f, 0) \in Nat
  <2>1. 0 \in 0..Patience
    BY DEF LoginSettings
  <2>. QED
    BY <1>1, <2>1, CountIsNat DEF LInv
<1>5. CASE Count(f, 0) < LoginAttempts
  BY <1>2, <1>3, <1>4, <1>5, Numbers
<1>6. CASE Judging(f)' \subseteq Judging(f)
  <2>1. PICK J, K : J = Judging(f) /\ K = Judging(f)' /\ K \subseteq J /\ IsFiniteSet(J)
    BY <1>6, JudgingIsFinite
  <2>2. Cardinality(K) <= Cardinality(J) /\ Cardinality(K) \in Nat /\ Cardinality(J) \in Nat
    BY <2>1, FS_Subset, FS_CardinalityType
  <2>3. Count(f, 0) >= LoginAttempts => Count(f, 0) + Cardinality(J) <= Most
    BY <1>1, <2>1 DEF LInv, Full
  <2>. QED
    BY <1>2, <1>3, <1>4, <2>1, <2>2, <2>3, Numbers
<1>. QED
  BY <1>1, <1>5, <1>6

LEMMA CheckKeeps ==
    ASSUME LoginSettings, LInv, NEW c \in Caller, Log!Check(c)
    PROVE  LInv'
<1>1. PICK u \in User, a \in Address :
          /\ Log!Free(u, a)
          /\ calls' = [calls EXCEPT ![c] = [pc |-> "judging", user |-> u, address |-> a, since |-> 0]]
  BY DEF Log!Check
<1>2. LoginTyped /\ failures' = failures
  BY DEF LInv, Log!Check
<1>3. PICK m : m = [pc |-> "judging", user |-> u, address |-> a, since |-> 0]
  OBVIOUS
<1>4. m \in Judged /\ m.user = u /\ m.address = a
  BY <1>3 DEF Judged
<1>5. LoginTyped' /\ calls' = [calls EXCEPT ![c] = m]
  BY <1>1, <1>2, <1>3, <1>4 DEF LoginTyped
<1>6. ASSUME NEW f \in Log!Fingerprint
      PROVE  Count(f, 0) < LoginAttempts \/ Judging(f)' \subseteq Judging(f)
  <2>1. CASE f \in {u, a}
    <3>1. ~(Log!Within(f, 0..Window) >= LoginAttempts)
      BY <1>1, <2>1 DEF Log!Free, Log!Throttled
    <3>2. Log!Within(f, 0..Window) = Count(f, 0)
      <4>1. 0..Window = 0..(0 + Window)
        BY DEF LoginSettings
      <4>. QED
        BY <4>1, WithinIsSum DEF Count
    <3>3. Count(f, 0) \in Nat
      <4>1. 0 \in 0..Patience
        BY DEF LoginSettings
      <4>. QED
        BY <1>2, <4>1, CountIsNat
    <3>. QED
      BY <3>1, <3>2, <3>3, Numbers
  <2>2. CASE f \notin {u, a}
    <3>1. \A d \in Caller : calls'[d] = IF d = c THEN m ELSE calls[d]
      BY <1>2, <1>5 DEF LoginTyped
    <3>. QED
      BY <1>4, <2>2, <3>1 DEF Judging
  <2>. QED
    BY <2>1, <2>2
<1>. QED
  BY <1>2, <1>5, <1>6, StaysFull

LEMMA LoginKeeps ==
    ASSUME LoginSettings, LInv, NEW c \in Caller, Log!Login(c)
    PROVE  LInv'
<1>1. LoginTyped /\ failures' = failures /\ calls' = [calls EXCEPT ![c] = Log!Idle]
  BY DEF LInv, Log!Login
<1>2. LoginTyped'
  BY <1>1 DEF LoginTyped
<1>3. \A d \in Caller : calls'[d] = IF d = c THEN Log!Idle ELSE calls[d]
  BY <1>1 DEF LoginTyped
<1>4. \A f : Judging(f)' \subseteq Judging(f)
  BY <1>3 DEF Judging, Log!Idle
<1>. QED
  BY <1>1, <1>2, <1>4, StaysFull

LEMMA RejectedKeeps ==
    ASSUME LoginSettings, LInv, NEW c \in Caller, Log!Rejected(c)
    PROVE  LInv'
<1>1. LoginTyped /\ Full /\ calls[c].pc = "judging" /\ calls' = [calls EXCEPT ![c] = Log!Idle]
  BY DEF LInv, Log!Rejected
<1>2. PICK both : both = {calls[c].user, calls[c].address}
  OBVIOUS
<1>3. failures' = [f \in Log!Fingerprint |-> IF f \in both THEN [failures[f] EXCEPT ![0] = @ + 1]
                                                       ELSE failures[f]]
  BY <1>2 DEF Log!Rejected
<1>4. LoginTyped'
  <2>1. ASSUME NEW f \in Log!Fingerprint
        PROVE  [failures[f] EXCEPT ![0] = @ + 1] \in [Log!Age -> Nat]
    <3>1. PICK g \in [Log!Age -> Nat] : g = failures[f]
      BY <1>1, <2>1 DEF LoginTyped
    <3>2. [g EXCEPT ![0] = @ + 1] \in [Log!Age -> Nat]
      <4>1. 0 \in Log!Age
        BY DEF Log!Age, LoginSettings
      <4>2. g[0] + 1 \in Nat
        BY <4>1
      <4>. QED
        BY <4>1, <4>2
    <3>. QED
      BY <3>1, <3>2
  <2>. QED
    BY <1>1, <1>3, <2>1 DEF LoginTyped
<1>5. \A d \in Caller : calls'[d] = IF d = c THEN Log!Idle ELSE calls[d]
  BY <1>1 DEF LoginTyped
<1>6. \A f : Judging(f)' = Judging(f) \ {c} /\ (c \in Judging(f) <=> f \in both)
  BY <1>1, <1>2, <1>5 DEF Judging, Log!Idle
<1>7. 0 \in 0..Patience
  BY DEF LoginSettings
<1>8. ASSUME NEW f \in Log!Fingerprint
      PROVE  /\ Count(f, 0)' >= LoginAttempts => Count(f, 0)' + Cardinality(Judging(f)') <= Most
             /\ \A a \in 0..Patience : Count(f, a)' <= Most
  <2>1. PICK J : /\ J = Judging(f) /\ IsFiniteSet(J) /\ Cardinality(J) \in Nat
                 /\ Cardinality(J) <= Cardinality(Caller) /\ Judging(f)' = J \ {c}
    BY <1>6, JudgingIsFinite
  <2>2. /\ Count(f, 0) \in Nat
        /\ Count(f, 0) >= LoginAttempts => Count(f, 0) + Cardinality(J) <= Most
        /\ \A a \in 0..Patience : Count(f, a) <= Most
    BY <1>1, <1>7, <1>8, <2>1, CountIsNat DEF Full
  <2>3. CASE f \in both
    <3>1. c \in J /\ Cardinality(J \ {c}) = Cardinality(J) - 1 /\ Cardinality(J \ {c}) \in Nat
      <4>1. c \in J
        BY <1>6, <2>1, <2>3
      <4>2. Cardinality(J \ {c}) = Cardinality(J) - 1 /\ IsFiniteSet(J \ {c})
        BY <2>1, <4>1, FS_RemoveElement
      <4>. QED
        BY <4>1, <4>2, FS_CardinalityType
    <3>2. failures'[f] = [failures[f] EXCEPT ![0] = @ + 1]
      BY <1>3, <1>8, <2>3
    <3>3. /\ Count(f, 0)' = Count(f, 0) + 1
          /\ \A a \in 0..Patience : a # 0 => Count(f, a)' = Count(f, a)
      BY <1>1, <1>4, <1>8, <3>2, OneMore
    <3>4. Count(f, 0)' >= LoginAttempts => Count(f, 0)' + Cardinality(J \ {c}) <= Most
      BY <2>1, <2>2, <3>1, <3>3, Numbers DEF Most
    <3>5. Count(f, 0)' <= Most
      BY <2>1, <2>2, <3>1, <3>3, Numbers DEF Most
    <3>. QED
      BY <2>1, <2>2, <3>3, <3>4, <3>5
  <2>4. CASE f \notin both
    <3>1. J \ {c} = J /\ failures'[f] = failures[f]
      BY <1>3, <1>6, <1>8, <2>1, <2>4
    <3>2. \A a : Count(f, a)' = Count(f, a)
      BY <3>1 DEF Count
    <3>. QED
      BY <2>1, <2>2, <3>1, <3>2
  <2>. QED
    BY <2>3, <2>4
<1>. QED
  BY <1>4, <1>8 DEF LInv, Full

LEMMA TickKeeps ==
    ASSUME LoginSettings, LInv, Log!Tick
    PROVE  LInv'
<1>1. LoginTyped /\ Full
  BY DEF LInv
<1>2. \A f \in Log!Fingerprint : failures'[f] = [a \in Log!Age |-> IF a = 0 THEN 0 ELSE failures[f][a - 1]]
  BY DEF Log!Tick
<1>3. ASSUME NEW f \in Log!Fingerprint
      PROVE  /\ failures'[f] \in [Log!Age -> Nat]
             /\ \A a \in Log!Age : failures'[f][a] = IF a = 0 THEN 0 ELSE failures[f][a - 1]
  <2>1. \A a \in Log!Age : a = 0 \/ a - 1 \in Log!Age
    BY DEF Log!Age, LoginSettings
  <2>2. PICK g \in [Log!Age -> Nat] : g = failures[f]
    BY <1>1, <1>3 DEF LoginTyped
  <2>3. failures'[f] = [a \in Log!Age |-> IF a = 0 THEN 0 ELSE g[a - 1]]
    BY <1>2, <1>3, <2>2
  <2>. QED
    BY <2>1, <2>2, <2>3
<1>4. /\ \A d \in Caller : calls'[d] = IF calls[d] = Log!Idle THEN Log!Idle ELSE [calls[d] EXCEPT !.since = @ + 1]
      /\ calls' = [d \in Caller |-> calls'[d]]
  BY DEF Log!Tick
<1>5. ASSUME NEW d \in Caller
      PROVE  /\ calls'[d] \in {Log!Idle} \cup Judged
             /\ calls'[d].pc = calls[d].pc
             /\ calls[d].pc = "judging" => /\ calls'[d].user = calls[d].user
                                           /\ calls'[d].address = calls[d].address
  <2>1. CASE calls[d] = Log!Idle
    BY <1>4, <2>1 DEF Log!Idle
  <2>2. CASE calls[d] # Log!Idle
    <3>1. calls[d] \in Judged
      BY <1>1, <2>2 DEF LoginTyped
    <3>2. calls'[d] = [calls[d] EXCEPT !.since = @ + 1]
      BY <1>4, <2>2
    <3>. QED
      BY <3>1, <3>2 DEF Judged
  <2>. QED
    BY <2>1, <2>2
<1>6. LoginTyped'
  <2>1. failures' = [f \in Log!Fingerprint |-> failures'[f]]
    BY DEF Log!Tick
  <2>. QED
    BY <1>3, <1>4, <1>5, <2>1 DEF LoginTyped
<1>7. \A f : Judging(f)' = Judging(f)
  BY <1>5 DEF Judging
<1>8. ASSUME NEW f \in Log!Fingerprint, NEW a \in 0..Patience, NEW b \in 0..Patience, b = a \/ b = a - 1,
             a = 0 => b = 0, a # 0 => b = a - 1
      PROVE  Count(f, a)' <= Count(f, b)
  <2>1. PICK S : S = b..(b + Window) /\ S \subseteq Log!Age /\ IsFiniteSet(S)
    BY WindowIsFinite
  <2>2. PICK T : T = a..(a + Window) /\ T \subseteq Log!Age /\ IsFiniteSet(T) /\ T \subseteq Int
    <3>1. a..(a + Window) \subseteq Int
      BY DEF LoginSettings
    <3>. QED
      BY <3>1, WindowIsFinite
  <2>3. PICK g : g = failures[f] /\ \A x \in S : g[x] \in Nat
    BY <1>1, <2>1 DEF LoginTyped
  <2>4. PICK h : h = failures'[f] /\ \A x \in T : h[x] \in Nat
    BY <1>3, <2>2
  <2>5. \A x \in T : h[x] = 0 \/ (x - 1 \in S /\ h[x] <= g[x - 1])
    <3>1. \A x \in T : h[x] = IF x = 0 THEN 0 ELSE g[x - 1]
      BY <1>3, <1>8, <2>2, <2>3, <2>4
    <3>2. \A x \in T : x # 0 => x - 1 \in S
      BY <1>8, <2>1, <2>2 DEF LoginSettings, Log!Age
    <3>3. \A x \in T : x # 0 => h[x] <= g[x - 1]
      BY <2>3, <3>1, <3>2
    <3>. QED
      BY <3>1, <3>2, <3>3
  <2>6. SumFunctionOnSet(h, T) <= SumFunctionOnSet(g, S)
    BY <2>1, <2>2, <2>3, <2>4, <2>5, SumOfShifted
  <2>. QED
    BY Zenon, <2>1, <2>2, <2>3, <2>4, <2>6 DEF Count
<1>9. ASSUME NEW f \in Log!Fingerprint, NEW a \in 0..Patience
      PROVE  Count(f, a)' \in Nat
  <2>1. PICK S : S = a..(a + Window) /\ S \subseteq Log!Age /\ IsFiniteSet(S)
    BY WindowIsFinite
  <2>2. PICK g : g = failures'[f] /\ \A x \in S : g[x] \in Nat
    BY <1>3, <1>9, <2>1
  <2>3. SumFunctionOnSet(g, S) \in Nat
    BY <2>1, <2>2, SumType
  <2>. QED
    BY Zenon, <2>1, <2>2, <2>3 DEF Count
<1>10. ASSUME NEW f \in Log!Fingerprint
       PROVE  /\ Count(f, 0)' >= LoginAttempts => Count(f, 0)' + Cardinality(Judging(f)') <= Most
              /\ \A a \in 0..Patience : Count(f, a)' <= Most
  <2>1. 0 \in 0..Patience
    BY DEF LoginSettings
  <2>2. Count(f, 0)' <= Count(f, 0)
    BY <1>8, <1>10, <2>1
  <2>3. Count(f, 0)' \in Nat
    BY <1>9, <1>10, <2>1
  <2>4. Count(f, 0) \in Nat /\ \A a \in 0..Patience : Count(f, a) \in Nat /\ Count(f, a) <= Most
    BY <1>1, <1>10, <2>1, CountIsNat DEF Full
  <2>5. Cardinality(Judging(f)) \in Nat
    BY JudgingIsFinite
  <2>6. Count(f, 0) >= LoginAttempts => Count(f, 0) + Cardinality(Judging(f)) <= Most
    BY <1>1, <1>10 DEF Full
  <2>7. ASSUME NEW a \in 0..Patience
        PROVE  Count(f, a)' <= Most
    <3>1. PICK b \in 0..Patience : (a = 0 => b = 0) /\ (a # 0 => b = a - 1)
      <4>1. a - 1 \in 0..Patience \/ a = 0
        BY DEF LoginSettings
      <4>. QED
        BY <2>1, <4>1
    <3>2. Count(f, a)' <= Count(f, b)
      BY <1>8, <1>10, <3>1
    <3>3. Count(f, a)' \in Nat
      BY <1>9, <1>10
    <3>. QED
      BY <2>4, <3>2, <3>3, Numbers
  <2>. QED
    BY <1>7, <2>2, <2>3, <2>4, <2>5, <2>6, <2>7, Numbers
<1>. QED
  BY <1>6, <1>10 DEF LInv, Full

-----------------------------------------------------------------------------
(* What they add up to.                                                        *)

LEMMA InitIsFree ==
    ASSUME LoginSettings, Log!Init
    PROVE  LInv
<1>1. LoginTyped
  BY DEF Log!Init, LoginTyped
<1>2. ASSUME NEW f \in Log!Fingerprint, NEW a \in 0..Patience
      PROVE  Count(f, a) = 0
  <2>1. PICK S : S = a..(a + Window) /\ S \subseteq Log!Age /\ IsFiniteSet(S)
    BY WindowIsFinite
  <2>2. \A x \in S : failures[f][x] = 0
    BY <1>2, <2>1 DEF Log!Init
  <2>. QED
    BY Zenon, <2>1, <2>2, SumOfZeros DEF Count
<1>3. 0 \in 0..Patience
  BY DEF LoginSettings
<1>. QED
  BY <1>1, <1>2, <1>3, Numbers DEF LInv, Full

\* However many POSTs are judged at once, and however long that takes, no window of any user or
\* address holds more failures than the attempts allowed and one for each other request: the
\* count of _throttled, taken without a lock, is exceeded by no more than that (login_view).
THEOREM ThrottleHolds ==
    ASSUME LoginSettings
    PROVE  Log!Spec => []Log!ThrottleKept
<1>1. Log!Init => LInv
  BY InitIsFree
<1>2. LInv /\ [Log!Next]_(Log!vars) => LInv'
  <2>1. LInv /\ Log!Next => LInv'
    BY CheckKeeps, LoginKeeps, RejectedKeeps, TickKeeps DEF Log!Next
  <2>2. LInv /\ UNCHANGED Log!vars => LInv'
    <3>1. SUFFICES ASSUME LInv, UNCHANGED Log!vars
                   PROVE  LInv'
      OBVIOUS
    <3>2. failures' = failures /\ calls' = calls
      BY <3>1 DEF Log!vars
    <3>3. LoginTyped' /\ \A f : Judging(f)' = Judging(f)
      BY <3>1, <3>2 DEF LInv, LoginTyped, Judging
    <3>. QED
      BY <3>1, <3>2, <3>3, StaysFull
  <2>. QED
    BY <2>1, <2>2
<1>3. LInv => Log!ThrottleKept
  <2>1. SUFFICES ASSUME LInv, NEW f \in Log!Fingerprint, NEW a \in 0..Patience
                 PROVE  Log!Within(f, a..(a + Window)) <= Most
    BY SameCardinality DEF Log!ThrottleKept, Most
  <2>2. Log!Within(f, a..(a + Window)) = Count(f, a)
    BY WithinIsSum DEF Count
  <2>. QED
    BY <2>1, <2>2 DEF LInv, Full
<1>. QED
  BY <1>1, <1>2, <1>3, PTL DEF Log!Spec

------------------------------------------------------------------------------
(* Cards: the public page of a game.                                         *)

\* Days are numbered, every corpus has its input, and no video stands for none.
CarSettings == /\ \E n \in Nat \ {0} : Day = 1..n
               /\ 1 \in Contour
               /\ DOMAIN InputOf = [Route -> Content]
               /\ Car!None \notin Footage

-----------------------------------------------------------------------------
(* The inductive invariant.  What the writers keep:                            *)

Job   == [state : {"pending", "odd", "failed"}, content : Content \cup {0}]
         \cup [state : {"complete"}, content : Content]
Order == {InputOf[c] : c \in [Route -> Content]} \X Contour
CorpusHead  == [corpus : [Route -> Content], checkpoint : Day \X [Route -> Job]]
Play  == [state : {"searching", "concluding", "done", "failed", "not_found"},
          video : Footage \cup {Car!None}]

CarTyped == /\ day \in Day /\ jobs \in [Day -> [Route -> Job]] /\ contour \in Contour
            /\ head \in {Car!NoHead} \cup CorpusHead
            /\ orders \in [Order -> {"none", "pending", "succeeded", "failed"}]
            /\ summaries \in Seq(Order)
            /\ play \in Play /\ conclusions \in Seq(Footage)

Cleared(js) == \A r \in Route : js[r].state = "complete"

\* A corpus is of a collection that was complete, and so has not changed since.
HeadIsTrue == head # Car!NoHead => /\ head.checkpoint[1] <= day
                                   /\ head.checkpoint[2] = jobs[head.checkpoint[1]]
                                   /\ Cleared(head.checkpoint[2])
OrdersAreServed == \A x \in Order : orders[x] = "succeeded" <=> x \in Car!ToSet(summaries)
PlayIsTrue == /\ play.state \in {"concluding", "done"} => play.video \in Footage
              /\ play.state = "done" => play.video \in Car!ToSet(conclusions)

WorldInv == CarTyped /\ HeadIsTrue /\ OrdersAreServed /\ PlayIsTrue

(* And what a page knows of it, from one read to the next.                     *)

IsPage(v) == v = [pc |-> v.pc, day |-> v.day, contour |-> v.contour, had |-> v.had,
                  checkpoint |-> v.checkpoint, reason |-> v.reason, corpus |-> v.corpus,
                  card |-> v.card, play |-> v.play, verdict |-> v.verdict]
Begun(v) == /\ IsPage(v) /\ v.day \in Day /\ v.contour \in Contour
            /\ v.pc \in {"jobs", "head", "order", "older", "play", "verdict", "done"}
            /\ v.had => summaries # <<>>

\* A corpus of the day of the page or of a later one has been current meanwhile.
SeenCurrent(v) == head # Car!NoHead /\ head.checkpoint[1] >= v.day => head.corpus \in seen

CardIsTrue(v) ==
    /\ v.card.state = "ok" => \E corpus \in seen : v.card.summary = <<InputOf[corpus], v.contour>>
    /\ v.had => v.card.state \in {"ok", "stale"}
    /\ v.card.state # "ok" => v.card.reason # Car!None
    /\ v.card.state \in {"ok", "stale"} => v.card.summary \in Car!ToSet(summaries)

CarShown == {"play", "verdict", "done"}
SoFar(v) ==
    /\ v.pc = "head" => v.checkpoint[1] = v.day
    /\ v.pc = "order" => v.corpus \in seen /\ v.corpus \in [Route -> Content]
    /\ v.pc = "older" => v.reason # Car!None
    /\ v.pc \in CarShown => CardIsTrue(v)
    /\ v.pc = "verdict" => /\ v.play \in Play
                           /\ v.play.state = "done" => v.play.video \in Footage /\ v.play.video \in Car!ToSet(conclusions)
    /\ v.pc = "done" => /\ v.verdict \in {Car!None, v.play.video}
                        /\ v.play.state = "done" => v.verdict # Car!None

\* When nobody writes, what was read is what there is.
OrderServed == Car!IsCurrent /\ <<InputOf[head.corpus], contour>> \in Car!ToSet(summaries)
Undisturbed(v) ==
    /\ v.day = day /\ v.contour = contour
    /\ v.pc = "head" => v.checkpoint = Car!Now /\ v.reason = Car!Reason(jobs[day])
    /\ v.pc = "order" => Car!IsCurrent /\ v.corpus = head.corpus
    /\ v.pc = "older" => ~OrderServed
    /\ v.pc \in CarShown => (v.card.state = "ok" <=> OrderServed)

PageInv(v) == Begun(v) /\ SeenCurrent(v) /\ SoFar(v) /\ (steady => Undisturbed(v))

CarInv == WorldInv /\ (view = Car!Asleep \/ PageInv(view))

-----------------------------------------------------------------------------
(* Reasons and sequences.                                                      *)

LEMMA CarReason ==
    ASSUME NEW js
    PROVE  Car!Reason(js) = Car!None <=> Cleared(js)
<1>1. PICK open : open = {r \in Route : js[r].state # "complete"}
  OBVIOUS
<1>2. PICK r : r = CHOOSE q \in open : \A p \in open : q <= p
  OBVIOUS
<1>3. Car!Reason(js) = CASE open = {} -> Car!None
                         [] open # {} /\ js[r].state = "odd" -> "unverified"
                         [] open # {} /\ js[r].state \in Car!Terminal -> js[r].state
                         [] OTHER -> "in_progress"
  BY <1>1, <1>2, Zenon DEF Car!Reason
<1>4. CASE open = {}
  BY <1>1, <1>3, <1>4 DEF Cleared
<1>5. CASE open # {}
  <2>1. Car!Reason(js) # Car!None
    BY <1>3, <1>5 DEF Car!None, Car!Terminal
  <2>. QED
    BY <1>1, <1>5, <2>1 DEF Cleared
<1>. QED
  BY <1>4, <1>5

LEMMA ToSetOfAppend ==
    ASSUME NEW S, NEW s \in Seq(S), NEW e
    PROVE  /\ Car!ToSet(Append(s, e)) = Car!ToSet(s) \cup {e}
           /\ Append(s, e) # <<>>
<1>1. /\ DOMAIN s = 1..Len(s) /\ Len(s) \in Nat /\ DOMAIN Append(s, e) = 1..(Len(s) + 1)
      /\ Append(s, e)[Len(s) + 1] = e /\ \A i \in 1..Len(s) : Append(s, e)[i] = s[i]
  OBVIOUS
<1>2. \A i \in 1..(Len(s) + 1) : i \in 1..Len(s) \/ i = Len(s) + 1
  BY <1>1
<1>3. Len(s) + 1 \in 1..(Len(s) + 1) /\ 1..Len(s) \subseteq 1..(Len(s) + 1)
  BY <1>1
<1>4. Append(s, e) # <<>>
  <2>1. Len(s) + 1 \in DOMAIN Append(s, e) /\ DOMAIN <<>> = {}
    BY <1>1, <1>3
  <2>. QED
    BY <2>1
<1>. QED
  BY <1>1, <1>2, <1>3, <1>4 DEF Car!ToSet

-----------------------------------------------------------------------------
(* The writers.                                                                *)

\* What a page may rely on, whoever writes.
Onward == /\ day <= day'
          /\ summaries # <<>> => summaries' # <<>>
          /\ Car!ToSet(summaries) \subseteq Car!ToSet(summaries')
          /\ Car!ToSet(conclusions) \subseteq Car!ToSet(conclusions')
          /\ head' = head \/ Car!IsCurrent'

LEMMA CarDays ==
    ASSUME CarSettings
    PROVE  Day \subseteq Nat /\ 1 \in Day /\ \A n \in Day : 1..n \subseteq Day
BY DEF CarSettings

LEMMA CarCollect ==
    ASSUME CarSettings, WorldInv, Car!Collect
    PROVE  WorldInv' /\ Onward
<1>1. /\ day' = day /\ head' = head /\ contour' = contour /\ orders' = orders /\ summaries' = summaries
      /\ play' = play /\ conclusions' = conclusions
  BY DEF Car!Collect, Car!Plays
<1>2. PICK d \in 1..day, r \in Route :
         /\ jobs[d][r].state # "complete"
         /\ \/ \E c \in Content : jobs' = [jobs EXCEPT ![d][r] = [state |-> "complete", content |-> c]]
            \/ \E s \in {"odd", "failed"} : jobs' = [jobs EXCEPT ![d][r].state = s]
  BY DEF Car!Collect
<1>3. d \in Day /\ Day \subseteq Nat
  BY CarDays DEF WorldInv, CarTyped
<1>4. jobs[d] \in [Route -> Job] /\ jobs[d][r] \in Job
  BY <1>3 DEF WorldInv, CarTyped
<1>5. PICK j \in Job : jobs' = [jobs EXCEPT ![d] = [@ EXCEPT ![r] = j]]
  <2>1. ASSUME NEW c \in Content, jobs' = [jobs EXCEPT ![d][r] = [state |-> "complete", content |-> c]]
        PROVE  \E j \in Job : jobs' = [jobs EXCEPT ![d] = [@ EXCEPT ![r] = j]]
    <3>1. [state |-> "complete", content |-> c] \in Job
      BY DEF Job
    <3>. QED
      BY <2>1, <3>1
  <2>2. ASSUME NEW s \in {"odd", "failed"}, jobs' = [jobs EXCEPT ![d][r].state = s]
        PROVE  \E j \in Job : jobs' = [jobs EXCEPT ![d] = [@ EXCEPT ![r] = j]]
    <3>1. [jobs[d][r] EXCEPT !.state = s] \in Job
      BY <1>4 DEF Job
    <3>2. jobs' = [jobs EXCEPT ![d] = [@ EXCEPT ![r] = [jobs[d][r] EXCEPT !.state = s]]]
      BY <2>2
    <3>. QED
      BY <3>1, <3>2
  <2>. QED
    BY <1>2, <2>1, <2>2
<1>6. jobs' \in [Day -> [Route -> Job]] /\ \A e \in Day : e # d => jobs'[e] = jobs[e]
  BY <1>3, <1>4, <1>5 DEF WorldInv, CarTyped
<1>7. CarTyped'
  BY <1>1, <1>6 DEF WorldInv, CarTyped
<1>8. HeadIsTrue'
  <2>1. SUFFICES ASSUME head # Car!NoHead
                 PROVE  HeadIsTrue'
    BY <1>1 DEF HeadIsTrue
  <2>2. PICK e, js : e = head.checkpoint[1] /\ js = head.checkpoint[2]
    OBVIOUS
  <2>3. e \in Day /\ e <= day /\ js = jobs[e] /\ Cleared(js)
    BY <2>1, <2>2 DEF WorldInv, CarTyped, HeadIsTrue, CorpusHead
  <2>4. e # d
    BY <1>2, <2>3 DEF Cleared
  <2>5. jobs'[e] = jobs[e]
    BY <1>6, <2>3, <2>4
  <2>. QED
    BY <1>1, <2>2, <2>3, <2>5 DEF HeadIsTrue
<1>9. OrdersAreServed' /\ PlayIsTrue'
  BY <1>1 DEF WorldInv, OrdersAreServed, PlayIsTrue
<1>10. Onward
  BY <1>1, <1>3 DEF Onward, WorldInv, CarTyped
<1>. QED
  BY <1>7, <1>8, <1>9, <1>10 DEF WorldInv

LEMMA CarNewDay ==
    ASSUME CarSettings, WorldInv, Car!NewDay \/ Car!Deploy
    PROVE  WorldInv' /\ Onward
<1>1. /\ head' = head /\ jobs' = jobs /\ orders' = orders /\ summaries' = summaries
      /\ play' = play /\ conclusions' = conclusions
      /\ day' \in Day /\ contour' \in Contour /\ day' \in {day, day + 1}
  BY DEF Car!NewDay, Car!Deploy, Car!Plays, WorldInv, CarTyped
<1>2. Day \subseteq Nat /\ day \in Day
  BY CarDays DEF WorldInv, CarTyped
<1>3. CarTyped' /\ OrdersAreServed' /\ PlayIsTrue'
  BY <1>1 DEF WorldInv, CarTyped, OrdersAreServed, PlayIsTrue
<1>4. HeadIsTrue'
  <2>1. SUFFICES ASSUME head # Car!NoHead
                 PROVE  head.checkpoint[1] <= day'
    BY <1>1 DEF HeadIsTrue, WorldInv
  <2>2. head.checkpoint[1] \in Day /\ head.checkpoint[1] <= day
    BY <2>1 DEF WorldInv, CarTyped, CorpusHead, HeadIsTrue
  <2>3. PICK d : d = head.checkpoint[1]
    OBVIOUS
  <2>4. d \in Nat /\ day \in Nat /\ d <= day /\ day' \in {day, day + 1}
    BY <1>1, <1>2, <2>2, <2>3
  <2>5. d <= day'
    BY <2>4
  <2>. QED
    BY <2>3, <2>5
<1>5. Onward
  BY <1>1, <1>2 DEF Onward
<1>. QED
  BY <1>3, <1>4, <1>5 DEF WorldInv

LEMMA CarBuild ==
    ASSUME CarSettings, WorldInv, Car!Build
    PROVE  WorldInv' /\ Onward
<1>1. /\ day' = day /\ jobs' = jobs /\ contour' = contour /\ summaries' = summaries
      /\ play' = play /\ conclusions' = conclusions /\ Car!Reason(jobs[day]) = Car!None
  BY DEF Car!Build, Car!Plays
<1>2. PICK corpus, x : /\ corpus = [r \in Route |-> jobs[day][r].content] /\ x = <<InputOf[corpus], contour>>
                       /\ head' = [corpus |-> corpus, checkpoint |-> Car!Now]
                       /\ orders' = [orders EXCEPT ![x] = IF @ = "none" THEN "pending" ELSE @]
  BY DEF Car!Build
<1>3. day \in Day /\ Day \subseteq Nat /\ jobs[day] \in [Route -> Job] /\ Cleared(jobs[day])
  BY <1>1, CarDays, CarReason DEF WorldInv, CarTyped
<1>4. corpus \in [Route -> Content]
  BY <1>2, <1>3 DEF Cleared, Job
<1>5. Car!Now = <<day, jobs[day]>>
  BY DEF Car!Now, Car!Checkpoint
<1>6. head' \in CorpusHead /\ head'.checkpoint = <<day, jobs[day]>> /\ head'.corpus = corpus
  BY <1>2, <1>3, <1>4, <1>5 DEF CorpusHead
<1>7. head' # Car!NoHead
  BY <1>6 DEF Car!NoHead
<1>8. orders' \in [Order -> {"none", "pending", "succeeded", "failed"}]
      /\ \A y \in Order : orders'[y] = "succeeded" <=> orders[y] = "succeeded"
  BY <1>2 DEF WorldInv, CarTyped
<1>9. CarTyped' /\ OrdersAreServed' /\ PlayIsTrue'
  BY <1>1, <1>6, <1>8 DEF WorldInv, CarTyped, OrdersAreServed, PlayIsTrue
<1>10. HeadIsTrue'
  BY <1>1, <1>3, <1>6 DEF HeadIsTrue, Cleared
<1>11. Car!IsCurrent'
  BY <1>1, <1>5, <1>6, <1>7 DEF Car!IsCurrent, Car!Now, Car!Checkpoint
<1>12. Onward
  BY <1>1, <1>3, <1>11 DEF Onward
<1>. QED
  BY <1>9, <1>10, <1>12 DEF WorldInv

LEMMA CarSummarize ==
    ASSUME CarSettings, WorldInv, Car!Summarize
    PROVE  WorldInv' /\ Onward
<1>1. /\ day' = day /\ jobs' = jobs /\ contour' = contour /\ head' = head
      /\ play' = play /\ conclusions' = conclusions
  BY DEF Car!Summarize, Car!Plays
<1>2. PICK x \in Order :
         /\ orders[x] = "pending"
         /\ \/ orders' = [orders EXCEPT ![x] = "succeeded"] /\ summaries' = Append(summaries, x)
            \/ orders' = [orders EXCEPT ![x] = "failed"] /\ summaries' = summaries
  BY DEF Car!Summarize, WorldInv, CarTyped
<1>3. day \in Nat
  BY CarDays DEF WorldInv, CarTyped
<1>4. summaries \in Seq(Order) /\ orders \in [Order -> {"none", "pending", "succeeded", "failed"}]
  BY DEF WorldInv, CarTyped
<1>5. /\ Car!ToSet(Append(summaries, x)) = Car!ToSet(summaries) \cup {x}
      /\ Append(summaries, x) # <<>> /\ Append(summaries, x) \in Seq(Order)
  BY <1>4, ToSetOfAppend
<1>6. x \notin Car!ToSet(summaries)
  BY <1>2 DEF WorldInv, OrdersAreServed
<1>7. /\ summaries' \in Seq(Order) /\ orders' \in [Order -> {"none", "pending", "succeeded", "failed"}]
      /\ Car!ToSet(summaries) \subseteq Car!ToSet(summaries')
      /\ summaries # <<>> => summaries' # <<>>
  BY <1>2, <1>4, <1>5
<1>8. OrdersAreServed'
  BY <1>2, <1>4, <1>5, <1>6 DEF WorldInv, OrdersAreServed
<1>9. CarTyped' /\ HeadIsTrue' /\ PlayIsTrue'
  BY <1>1, <1>7 DEF WorldInv, CarTyped, HeadIsTrue, PlayIsTrue
<1>10. Onward
  BY <1>1, <1>3, <1>7 DEF Onward
<1>. QED
  BY <1>8, <1>9, <1>10 DEF WorldInv

LEMMA CarWatch ==
    ASSUME CarSettings, WorldInv, Car!Watch
    PROVE  WorldInv' /\ Onward
<1>1. /\ day' = day /\ jobs' = jobs /\ contour' = contour /\ head' = head /\ orders' = orders
      /\ summaries' = summaries
  BY DEF Car!Watch
<1>2. play \in Play /\ conclusions \in Seq(Footage) /\ PlayIsTrue
  BY DEF WorldInv, CarTyped
<1>3. /\ play' \in Play /\ PlayIsTrue' /\ conclusions' \in Seq(Footage)
      /\ Car!ToSet(conclusions) \subseteq Car!ToSet(conclusions')
  <2>1. CASE conclusions' = conclusions /\ play'.state # "done" /\ play' \in Play
             /\ (play'.state = "concluding" => play'.video \in Footage)
    BY <1>2, <2>1 DEF PlayIsTrue
  <2>2. CASE /\ play.state = "concluding" /\ play' = [play EXCEPT !.state = "done"]
             /\ conclusions' = Append(conclusions, play.video)
    <3>1. play.video \in Footage
      BY <1>2, <2>2 DEF PlayIsTrue
    <3>2. conclusions' \in Seq(Footage) /\ Car!ToSet(conclusions') = Car!ToSet(conclusions) \cup {play.video}
      BY <1>2, <2>2, <3>1, ToSetOfAppend
    <3>3. play' \in Play /\ play'.video = play.video
      BY <1>2, <2>2 DEF Play
    <3>. QED
      BY <3>1, <3>2, <3>3 DEF PlayIsTrue
  <2>3. \/ /\ conclusions' = conclusions /\ play'.state # "done" /\ play' \in Play
           /\ (play'.state = "concluding" => play'.video \in Footage)
        \/ /\ play.state = "concluding" /\ play' = [play EXCEPT !.state = "done"]
           /\ conclusions' = Append(conclusions, play.video)
    BY <1>2 DEF Car!Watch, Play
  <2>. QED
    BY <2>1, <2>2, <2>3
<1>4. CarTyped' /\ HeadIsTrue' /\ OrdersAreServed'
  BY <1>1, <1>3 DEF WorldInv, CarTyped, HeadIsTrue, OrdersAreServed
<1>5. day \in Nat
  BY CarDays DEF WorldInv, CarTyped
<1>6. Onward
  BY <1>1, <1>3, <1>5 DEF Onward
<1>. QED
  BY <1>3, <1>4, <1>6 DEF WorldInv

\* What is current joins what was seen while a page is read.
SeenGrows == seen' = (IF view.pc = "idle" THEN {} ELSE seen) \cup
                     (IF view'.pc # "idle" /\ Car!IsCurrent' THEN {head'.corpus} ELSE {})

LEMMA CarWrite ==
    ASSUME CarSettings, CarInv, Car!Write, SeenGrows
    PROVE  CarInv'
<1>1. WorldInv' /\ Onward
  BY CarCollect, CarNewDay, CarBuild, CarSummarize, CarWatch, Zenon DEF Car!Write, CarInv
<1>2. view' = view /\ steady' = FALSE
  BY Zenon DEF Car!Write
<1>3. CASE view = Car!Asleep
  BY <1>1, <1>2, <1>3 DEF CarInv
<1>4. CASE PageInv(view)
  <2>1. PICK v : v = view
    OBVIOUS
  <2>2. Begun(v) /\ SeenCurrent(v) /\ SoFar(v)
    BY <1>4, <2>1 DEF PageInv
  <2>3. v.pc # "idle"
    BY <2>2 DEF Begun
  <2>4. seen \subseteq seen' /\ (Car!IsCurrent' => head'.corpus \in seen')
    BY <1>2, <2>1, <2>3 DEF SeenGrows
  <2>5. Begun(v)'
    BY <1>1, <2>2 DEF Begun, Onward, IsPage
  <2>6. SeenCurrent(v)'
    BY <1>1, <2>2, <2>4 DEF SeenCurrent, Onward
  <2>7. CardIsTrue(v) => CardIsTrue(v)'
    BY <1>1, <2>4 DEF CardIsTrue, Onward
  <2>8. SoFar(v)'
    BY <1>1, <2>2, <2>4, <2>7 DEF SoFar, Onward
  <2>9. PageInv(v)'
    BY <1>2, <2>5, <2>6, <2>8 DEF PageInv
  <2>. QED
    BY <1>1, <1>2, <2>1, <2>9 DEF CarInv
<1>. QED
  BY <1>3, <1>4 DEF CarInv

-----------------------------------------------------------------------------
(* The page.                                                                   *)

Still == /\ day' = day /\ jobs' = jobs /\ head' = head /\ contour' = contour /\ orders' = orders
         /\ summaries' = summaries /\ play' = play /\ conclusions' = conclusions

\* A page on its way moves on, to what the read shows it.
LEMMA CarMoves ==
    ASSUME CarSettings, CarInv, Still, SeenGrows, PageInv(view), steady' = (view.pc = "idle" \/ steady),
           NEW m, view' = m, IsPage(m), m.day = view.day, m.contour = view.contour, m.had = view.had,
           m.pc \in {"jobs", "head", "order", "older", "play", "verdict", "done"},
           SoFar(m), steady => Undisturbed(m)
    PROVE  CarInv'
<1>1. view.pc # "idle" /\ m.pc # "idle"
  BY DEF PageInv, Begun
<1>2. seen \subseteq seen' /\ (steady' => steady)
  <2>1. seen \subseteq seen'
    BY <1>1 DEF SeenGrows
  <2>2. steady' => steady
    BY <1>1, Zenon
  <2>. QED
    BY <2>1, <2>2
<1>3. WorldInv'
  BY DEF CarInv, WorldInv, Still, CarTyped, HeadIsTrue, OrdersAreServed, PlayIsTrue
<1>4. Begun(m)'
  BY DEF PageInv, Begun, Still, IsPage
<1>5. SeenCurrent(m)'
  BY <1>2 DEF PageInv, SeenCurrent, Still
<1>6. CardIsTrue(m) => CardIsTrue(m)'
  BY <1>2 DEF CardIsTrue, Still
<1>7. SoFar(m)'
  BY <1>2, <1>6 DEF SoFar, Still
<1>8. Undisturbed(m) => Undisturbed(m)'
  BY DEF Undisturbed, OrderServed, Still, Car!IsCurrent, Car!Now, Car!Checkpoint
<1>. QED
  BY <1>2, <1>3, <1>4, <1>5, <1>7, <1>8 DEF CarInv, PageInv

LEMMA CarAsk ==
    ASSUME CarSettings, CarInv, Still, SeenGrows, steady' = (view.pc = "idle" \/ steady), Car!Ask
    PROVE  CarInv'
<1>1. view.pc = "idle"
  BY DEF Car!Ask
<1>2. PICK m : /\ view' = m
               /\ m = [pc |-> "jobs", day |-> day, contour |-> contour, had |-> summaries # <<>>,
                       checkpoint |-> <<>>, reason |-> Car!None, corpus |-> <<>>, card |-> <<>>,
                       play |-> <<>>, verdict |-> Car!None]
  BY DEF Car!Ask
<1>3. /\ m.pc = "jobs" /\ m.day = day /\ m.contour = contour /\ m.had = (summaries # <<>>) /\ IsPage(m)
  BY <1>2 DEF IsPage
<1>4. WorldInv'
  BY DEF CarInv, WorldInv, Still, CarTyped, HeadIsTrue, OrdersAreServed, PlayIsTrue
<1>5. Begun(m)'
  BY <1>3 DEF Begun, Still, IsPage, CarInv, WorldInv, CarTyped
<1>6. SeenCurrent(m)'
  <2>1. SUFFICES ASSUME head # Car!NoHead, head.checkpoint[1] >= day
                 PROVE  head.corpus \in seen'
    BY <1>3 DEF SeenCurrent, Still
  <2>2. head \in CorpusHead /\ head.checkpoint[1] <= day /\ head.checkpoint[2] = jobs[head.checkpoint[1]]
        /\ Cleared(head.checkpoint[2])
    BY <2>1 DEF CarInv, WorldInv, CarTyped, HeadIsTrue
  <2>3. head.checkpoint[1] \in Nat /\ day \in Nat /\ head.checkpoint = <<head.checkpoint[1], head.checkpoint[2]>>
    BY <2>2, CarDays DEF CorpusHead, CarInv, WorldInv, CarTyped
  <2>4. head.checkpoint[1] = day
    BY <2>1, <2>2, <2>3
  <2>5. head.checkpoint = Car!Now /\ Cleared(jobs[day])
    BY <2>2, <2>3, <2>4 DEF Car!Now, Car!Checkpoint
  <2>6. Car!Reason(jobs[day]) = Car!None
    BY <2>5, CarReason
  <2>7. Car!IsCurrent
    BY <2>1, <2>5, <2>6 DEF Car!IsCurrent
  <2>8. Car!IsCurrent'
    BY <2>7 DEF Car!IsCurrent, Car!Now, Car!Checkpoint, Still
  <2>. QED
    BY <1>2, <1>3, <2>8 DEF SeenGrows, Still
<1>7. SoFar(m)'
  BY <1>3 DEF SoFar, CarShown
<1>8. Undisturbed(m)'
  BY <1>3 DEF Undisturbed, CarShown, Still
<1>. QED
  BY <1>2, <1>4, <1>5, <1>6, <1>7, <1>8 DEF CarInv, PageInv

\* A page that is being read.
LEMMA CarPage ==
    ASSUME CarSettings, CarInv, view.pc # "idle"
    PROVE  PageInv(view) /\ IsPage(view) /\ SoFar(view) /\ (steady => Undisturbed(view))
           /\ Day \subseteq Nat /\ day \in Day /\ view.day \in Day /\ view.contour \in Contour
<1>1. view # Car!Asleep
  BY DEF Car!Asleep
<1>. QED
  BY <1>1, CarDays DEF CarInv, PageInv, Begun, WorldInv, CarTyped

LEMMA CarReadJobs ==
    ASSUME CarSettings, CarInv, Still, SeenGrows, steady' = (view.pc = "idle" \/ steady), Car!ReadJobs
    PROVE  CarInv'
<1>1. view.pc = "jobs"
  BY DEF Car!ReadJobs
<1>2. PICK v : v = view
  OBVIOUS
<1>3. PageInv(v) /\ IsPage(v) /\ (steady => Undisturbed(v))
  BY <1>1, <1>2, CarPage
<1>4. PICK m : /\ view' = m
               /\ m = [v EXCEPT !.pc = "head", !.reason = Car!Reason(jobs[v.day]),
                                !.checkpoint = Car!Checkpoint(v.day, jobs[v.day])]
  BY <1>2 DEF Car!ReadJobs
<1>5. /\ IsPage(m) /\ m.pc = "head" /\ m.day = v.day /\ m.contour = v.contour /\ m.had = v.had
      /\ m.checkpoint = <<v.day, jobs[v.day]>> /\ m.reason = Car!Reason(jobs[v.day])
  BY <1>3, <1>4 DEF IsPage, Car!Checkpoint
<1>6. SoFar(m)
  BY <1>5 DEF SoFar, CarShown
<1>7. steady => Undisturbed(m)
  BY <1>3, <1>5 DEF Undisturbed, CarShown, Car!Now, Car!Checkpoint
<1>. QED
  BY <1>2, <1>3, <1>4, <1>5, <1>6, <1>7, CarMoves

LEMMA CarReadHead ==
    ASSUME CarSettings, CarInv, Still, SeenGrows, steady' = (view.pc = "idle" \/ steady), Car!ReadHead
    PROVE  CarInv'
<1>1. view.pc = "head"
  BY DEF Car!ReadHead
<1>2. PICK v : v = view
  OBVIOUS
<1>3. PageInv(v) /\ IsPage(v) /\ SoFar(v) /\ SeenCurrent(v) /\ (steady => Undisturbed(v))
      /\ Day \subseteq Nat /\ v.day \in Day
  BY <1>1, <1>2, CarPage DEF PageInv
<1>4. v.checkpoint[1] = v.day
  BY <1>1, <1>2, <1>3 DEF SoFar
<1>5. CASE v.reason # Car!None
  <2>1. PICK m : view' = m /\ m = [v EXCEPT !.pc = "older"]
    BY <1>2, <1>5 DEF Car!ReadHead
  <2>2. IsPage(m) /\ m.pc = "older" /\ m.day = v.day /\ m.contour = v.contour /\ m.had = v.had /\ m.reason = v.reason
    BY <1>3, <2>1 DEF IsPage
  <2>3. SoFar(m)
    BY <1>5, <2>2 DEF SoFar, CarShown
  <2>4. steady => Undisturbed(m)
    BY <1>1, <1>2, <1>3, <1>5, <2>2 DEF Undisturbed, CarShown, OrderServed, Car!IsCurrent
  <2>. QED
    BY <1>2, <1>3, <2>1, <2>2, <2>3, <2>4, CarMoves
<1>6. CASE v.reason = Car!None /\ ~Car!Verified
  <2>1. PICK m : view' = m /\ m = [v EXCEPT !.pc = "older", !.reason = "unverified"]
    BY <1>2, <1>6 DEF Car!ReadHead
  <2>2. IsPage(m) /\ m.pc = "older" /\ m.day = v.day /\ m.contour = v.contour /\ m.had = v.had /\ m.reason # Car!None
    BY <1>3, <2>1 DEF IsPage, Car!None
  <2>3. SoFar(m)
    BY <2>2 DEF SoFar, CarShown
  <2>4. steady => Undisturbed(m)
    BY <1>1, <1>2, <1>3, <1>6, <2>2 DEF Undisturbed, CarShown, OrderServed, Car!IsCurrent, Car!Verified
  <2>. QED
    BY <1>2, <1>3, <2>1, <2>2, <2>3, <2>4, CarMoves
<1>7. CASE v.reason = Car!None /\ Car!Verified
  <2>1. PICK m : view' = m /\ m = [v EXCEPT !.pc = "order", !.corpus = head.corpus]
    BY <1>2, <1>7 DEF Car!ReadHead
  <2>2. IsPage(m) /\ m.pc = "order" /\ m.day = v.day /\ m.contour = v.contour /\ m.had = v.had /\ m.corpus = head.corpus
    BY <1>3, <2>1 DEF IsPage
  <2>3. head # Car!NoHead /\ head.checkpoint = v.checkpoint
    BY <1>2, <1>7 DEF Car!Verified
  <2>4. head.corpus \in seen /\ head.corpus \in [Route -> Content]
    <3>1. head \in CorpusHead
      BY <2>3 DEF CarInv, WorldInv, CarTyped
    <3>2. head.checkpoint[1] >= v.day
      <4>1. v.day \in Nat
        BY <1>3
      <4>. QED
        BY <1>4, <2>3, <4>1
    <3>. QED
      BY <1>3, <2>3, <3>1, <3>2 DEF SeenCurrent, CorpusHead
  <2>5. SoFar(m)
    BY <2>2, <2>4 DEF SoFar, CarShown
  <2>6. steady => Undisturbed(m)
    BY <1>1, <1>2, <1>3, <1>7, <2>2, <2>3 DEF Undisturbed, CarShown, Car!IsCurrent
  <2>. QED
    BY <1>2, <1>3, <2>1, <2>2, <2>5, <2>6, CarMoves
<1>. QED
  BY <1>5, <1>6, <1>7

\* The card that a page shows.
LEMMA CarShows ==
    ASSUME CarSettings, CarInv, Still, SeenGrows, steady' = (view.pc = "idle" \/ steady),
           view.pc # "idle", NEW state, NEW summary, NEW reason, Car!Shows(state, summary, reason),
           state = "ok" => \E corpus \in seen : summary = <<InputOf[corpus], view.contour>>,
           view.had => state \in {"ok", "stale"},
           state # "ok" => reason # Car!None,
           state \in {"ok", "stale"} => summary \in Car!ToSet(summaries),
           steady => (state = "ok" <=> OrderServed)
    PROVE  CarInv'
<1>1. PICK v : v = view
  OBVIOUS
<1>2. PageInv(v) /\ IsPage(v) /\ (steady => Undisturbed(v))
  BY <1>1, CarPage
<1>3. PICK shows : shows = [state |-> state, summary |-> summary, reason |-> reason]
  OBVIOUS
<1>4. shows.state = state /\ shows.summary = summary /\ shows.reason = reason
  BY <1>3
<1>5. PICK m : view' = m /\ m = [v EXCEPT !.pc = "play", !.card = shows]
  BY <1>1, <1>3 DEF Car!Shows
<1>6. IsPage(m) /\ m.pc = "play" /\ m.day = v.day /\ m.contour = v.contour /\ m.had = v.had /\ m.card = shows
  BY <1>2, <1>5 DEF IsPage
<1>7. CardIsTrue(m)
  BY <1>1, <1>4, <1>6 DEF CardIsTrue
<1>8. SoFar(m)
  BY <1>6, <1>7 DEF SoFar
<1>9. steady => Undisturbed(m)
  BY <1>2, <1>4, <1>6 DEF Undisturbed
<1>. QED
  BY <1>1, <1>2, <1>5, <1>6, <1>8, <1>9, CarMoves

LEMMA CarReadOrder ==
    ASSUME CarSettings, CarInv, Still, SeenGrows, steady' = (view.pc = "idle" \/ steady), Car!ReadOrder
    PROVE  CarInv'
<1>1. view.pc = "order"
  BY DEF Car!ReadOrder
<1>2. PICK v : v = view
  OBVIOUS
<1>3. PageInv(v) /\ IsPage(v) /\ SoFar(v) /\ (steady => Undisturbed(v)) /\ v.contour \in Contour
  BY <1>1, <1>2, CarPage
<1>4. v.corpus \in seen /\ v.corpus \in [Route -> Content]
  BY <1>1, <1>2, <1>3 DEF SoFar
<1>5. PICK x : x = <<InputOf[v.corpus], v.contour>>
  OBVIOUS
<1>6. x \in Order
  BY <1>3, <1>4, <1>5 DEF Order
<1>7. orders[x] = "succeeded" <=> x \in Car!ToSet(summaries)
  BY <1>6 DEF CarInv, WorldInv, OrdersAreServed
<1>8. steady => (OrderServed <=> x \in Car!ToSet(summaries))
  BY <1>1, <1>2, <1>3, <1>5 DEF Undisturbed, OrderServed
<1>9. CASE orders[x] = "succeeded"
  <2>1. Car!Shows("ok", x, Car!None)
    BY <1>2, <1>5, <1>9, Zenon DEF Car!ReadOrder
  <2>2. PICK state : state = "ok"
    OBVIOUS
  <2>. QED
    BY <1>1, <1>2, <1>4, <1>5, <1>7, <1>8, <1>9, <2>1, <2>2, CarShows
<1>10. CASE orders[x] # "succeeded"
  <2>1. PICK why : why = IF orders[x] = "none" THEN "contour_changed" ELSE orders[x]
    OBVIOUS
  <2>2. PICK m : view' = m /\ m = [v EXCEPT !.pc = "older", !.reason = why]
    BY <1>2, <1>5, <1>10, <2>1 DEF Car!ReadOrder
  <2>3. IsPage(m) /\ m.pc = "older" /\ m.day = v.day /\ m.contour = v.contour /\ m.had = v.had /\ m.reason = why
    BY <1>3, <2>2 DEF IsPage
  <2>4. why # Car!None
    BY <2>1 DEF Car!None
  <2>5. SoFar(m)
    BY <2>3, <2>4 DEF SoFar, CarShown
  <2>6. steady => Undisturbed(m)
    BY <1>3, <1>7, <1>8, <1>10, <2>3 DEF Undisturbed, CarShown
  <2>. QED
    BY <1>2, <1>3, <2>2, <2>3, <2>5, <2>6, CarMoves
<1>. QED
  BY <1>9, <1>10

LEMMA CarReadOlder ==
    ASSUME CarSettings, CarInv, Still, SeenGrows, steady' = (view.pc = "idle" \/ steady), Car!ReadOlder
    PROVE  CarInv'
<1>1. view.pc = "older"
  BY DEF Car!ReadOlder
<1>2. SoFar(view) /\ (steady => Undisturbed(view)) /\ (view.had => summaries # <<>>)
  BY <1>1, CarPage DEF PageInv, Begun
<1>3. view.reason # Car!None /\ (steady => ~OrderServed)
  BY <1>1, <1>2 DEF SoFar, Undisturbed
<1>4. CASE summaries # <<>>
  <2>1. Car!Shows("stale", Car!Last(summaries), view.reason)
    BY <1>4, Zenon DEF Car!ReadOlder
  <2>2. Car!Last(summaries) \in Car!ToSet(summaries)
    <3>1. summaries \in Seq(Order)
      BY DEF CarInv, WorldInv, CarTyped
    <3>2. Len(summaries) \in DOMAIN summaries
      BY <1>4, <3>1
    <3>. QED
      BY <3>2 DEF Car!Last, Car!ToSet
  <2>3. PICK state : state = "stale"
    OBVIOUS
  <2>4. state # "ok" /\ Car!Shows(state, Car!Last(summaries), view.reason)
    BY <2>1, <2>3
  <2>. QED
    BY <1>1, <1>3, <2>2, <2>3, <2>4, CarShows
<1>5. CASE summaries = <<>>
  <2>1. PICK state : state = IF view.reason \in Car!Terminal THEN "unavailable" ELSE "pending"
    OBVIOUS
  <2>2. Car!Shows(state, Car!None, view.reason)
    BY <1>5, <2>1, Zenon DEF Car!ReadOlder
  <2>3. state # "ok" /\ state # "stale"
    BY <2>1
  <2>. QED
    BY <1>1, <1>2, <1>3, <1>5, <2>2, <2>3, CarShows
<1>. QED
  BY <1>4, <1>5

LEMMA CarReadPlay ==
    ASSUME CarSettings, CarInv, Still, SeenGrows, steady' = (view.pc = "idle" \/ steady), Car!ReadPlay
    PROVE  CarInv'
<1>1. view.pc = "play"
  BY DEF Car!ReadPlay
<1>2. PICK v : v = view
  OBVIOUS
<1>3. PageInv(v) /\ IsPage(v) /\ SoFar(v) /\ (steady => Undisturbed(v))
  BY <1>1, <1>2, CarPage
<1>4. PICK m : view' = m /\ m = [v EXCEPT !.pc = "verdict", !.play = play]
  BY <1>2 DEF Car!ReadPlay
<1>5. /\ IsPage(m) /\ m.pc = "verdict" /\ m.day = v.day /\ m.contour = v.contour /\ m.had = v.had
      /\ m.card = v.card /\ m.play = play
  BY <1>3, <1>4 DEF IsPage
<1>6. SoFar(m)
  <2>1. CardIsTrue(v)
    BY <1>1, <1>2, <1>3 DEF SoFar, CarShown
  <2>2. CardIsTrue(m)
    BY <1>5, <2>1 DEF CardIsTrue
  <2>3. play \in Play /\ (play.state = "done" => play.video \in Footage /\ play.video \in Car!ToSet(conclusions))
    BY DEF CarInv, WorldInv, CarTyped, PlayIsTrue
  <2>. QED
    BY <1>5, <2>2, <2>3 DEF SoFar
<1>7. steady => Undisturbed(m)
  BY <1>1, <1>2, <1>3, <1>5 DEF Undisturbed, CarShown
<1>. QED
  BY <1>2, <1>3, <1>4, <1>5, <1>6, <1>7, CarMoves

LEMMA CarReadVerdict ==
    ASSUME CarSettings, CarInv, Still, SeenGrows, steady' = (view.pc = "idle" \/ steady), Car!ReadVerdict
    PROVE  CarInv'
<1>1. view.pc = "verdict"
  BY DEF Car!ReadVerdict
<1>2. PICK v : v = view
  OBVIOUS
<1>3. PageInv(v) /\ IsPage(v) /\ SoFar(v) /\ (steady => Undisturbed(v))
  BY <1>1, <1>2, CarPage
<1>4. PICK about : about = Car!About(v.play.video)
  OBVIOUS
<1>5. PICK verdict : verdict = IF about # {} /\ v.play.state \in {"done", "failed"}
                               THEN conclusions[Car!Max(about)] ELSE Car!None
  OBVIOUS
<1>6. PICK m : view' = m /\ m = [v EXCEPT !.pc = "done", !.verdict = verdict]
  BY <1>2, <1>4, <1>5 DEF Car!ReadVerdict
<1>7. /\ IsPage(m) /\ m.pc = "done" /\ m.day = v.day /\ m.contour = v.contour /\ m.had = v.had
      /\ m.card = v.card /\ m.play = v.play /\ m.verdict = verdict
  BY <1>3, <1>6 DEF IsPage
<1>8. about # {} => conclusions[Car!Max(about)] = v.play.video
  <2>1. SUFFICES ASSUME about # {}
                 PROVE  Car!Max(about) \in about
    BY <1>4 DEF Car!About
  <2>2. conclusions \in Seq(Footage)
    BY DEF CarInv, WorldInv, CarTyped
  <2>3. Len(conclusions) \in Nat /\ DOMAIN conclusions = 1..Len(conclusions)
    BY <2>2
  <2>4. IsFiniteSet(1..Len(conclusions))
    <3>1. 1 \in Int /\ Len(conclusions) \in Int
      BY <2>3
    <3>. QED
      BY <3>1, FS_Interval
  <2>5. about \subseteq 1..Len(conclusions)
    BY <1>4, <2>3 DEF Car!About
  <2>6. IsFiniteSet(about) /\ about \subseteq Nat
    <3>1. PICK S : S = 1..Len(conclusions)
      OBVIOUS
    <3>2. IsFiniteSet(S) /\ about \subseteq S /\ S \subseteq Nat
      BY <2>3, <2>4, <2>5, <3>1
    <3>. QED
      BY <3>2, FS_Subset
  <2>7. Max(about) \in about
    BY <2>1, <2>6, MaxOfNat
  <2>8. Car!Max(about) = Max(about)
    BY Zenon DEF Car!Max, Max
  <2>. QED
    BY <2>7, <2>8
<1>9. v.play.state = "done" => about # {} /\ v.play.video # Car!None
  BY <1>1, <1>2, <1>3, <1>4 DEF SoFar, Car!About, Car!ToSet, CarSettings
<1>10. SoFar(m)
  <2>1. CardIsTrue(v)
    BY <1>1, <1>2, <1>3 DEF SoFar, CarShown
  <2>2. CardIsTrue(m)
    BY <1>7, <2>1 DEF CardIsTrue
  <2>3. verdict \in {Car!None, v.play.video} /\ (v.play.state = "done" => verdict # Car!None)
    BY <1>5, <1>8, <1>9
  <2>. QED
    BY <1>7, <2>2, <2>3 DEF SoFar
<1>11. steady => Undisturbed(m)
  BY <1>1, <1>2, <1>3, <1>7 DEF Undisturbed, CarShown
<1>. QED
  BY <1>2, <1>3, <1>6, <1>7, <1>10, <1>11, CarMoves

LEMMA CarClose ==
    ASSUME CarSettings, CarInv, Still, Car!Close
    PROVE  CarInv'
<1>1. WorldInv'
  BY DEF CarInv, WorldInv, Still, CarTyped, HeadIsTrue, OrdersAreServed, PlayIsTrue
<1>2. view' = Car!Asleep
  BY DEF Car!Close
<1>3. Car!Asleep' = Car!Asleep
  BY DEF Car!Asleep
<1>. QED
  BY <1>1, <1>2, <1>3 DEF CarInv

LEMMA CarRead ==
    ASSUME CarSettings, CarInv, Car!Read, SeenGrows
    PROVE  CarInv'
<1>1. Still /\ steady' = (view.pc = "idle" \/ steady)
  BY DEF Car!Read, Still
<1>2. \/ Car!Ask \/ Car!ReadJobs \/ Car!ReadHead \/ Car!ReadOrder \/ Car!ReadOlder \/ Car!ReadPlay
      \/ Car!ReadVerdict \/ Car!Close
  BY Zenon DEF Car!Read
<1>. QED
  BY <1>1, <1>2, CarAsk, CarReadJobs, CarReadHead, CarReadOrder, CarReadOlder, CarReadPlay,
     CarReadVerdict, CarClose, Zenon

LEMMA CarInit ==
    ASSUME CarSettings, Car!Init
    PROVE  CarInv
<1>1. /\ day = 1 /\ jobs = [d \in Day |-> [r \in Route |-> Car!Fresh]] /\ head = Car!NoHead
      /\ contour = 1 /\ summaries = <<>> /\ conclusions = <<>> /\ view = Car!Asleep
      /\ play = [state |-> "searching", video |-> Car!None]
      /\ orders = [x \in {InputOf[c] : c \in DOMAIN InputOf} \X Contour |-> "none"]
  BY DEF Car!Init
<1>2. orders = [x \in Order |-> "none"]
  BY <1>1 DEF Order, CarSettings
<1>3. Car!Fresh \in Job
  BY DEF Car!Fresh, Job
<1>4. play \in Play
  BY <1>1 DEF Play
<1>5. CarTyped
  <2>1. day \in Day /\ contour \in Contour
    BY <1>1, CarDays DEF CarSettings
  <2>2. jobs \in [Day -> [Route -> Job]] /\ orders \in [Order -> {"none", "pending", "succeeded", "failed"}]
    BY <1>1, <1>2, <1>3
  <2>3. summaries \in Seq(Order) /\ conclusions \in Seq(Footage)
    BY <1>1
  <2>. QED
    BY <1>1, <1>4, <2>1, <2>2, <2>3 DEF CarTyped
<1>6. Car!ToSet(summaries) = {}
  BY <1>1 DEF Car!ToSet
<1>7. HeadIsTrue /\ OrdersAreServed /\ PlayIsTrue
  BY <1>1, <1>2, <1>6 DEF HeadIsTrue, OrdersAreServed, PlayIsTrue
<1>. QED
  BY <1>1, <1>5, <1>7 DEF CarInv, WorldInv

LEMMA CarNext ==
    ASSUME CarSettings, CarInv, [Car!Next]_(Car!vars)
    PROVE  CarInv'
<1>1. CASE Car!Next
  <2>1. SeenGrows
    BY <1>1 DEF Car!Next, SeenGrows
  <2>2. Car!Write \/ Car!Read
    BY <1>1, Zenon DEF Car!Next
  <2>. QED
    BY <2>1, <2>2, CarWrite, CarRead
<1>2. CASE UNCHANGED Car!vars
  <2>1. Still /\ view' = view /\ seen' = seen /\ steady' = steady
    BY <1>2 DEF Car!vars, Still
  <2>2. WorldInv'
    BY <2>1 DEF CarInv, WorldInv, Still, CarTyped, HeadIsTrue, OrdersAreServed, PlayIsTrue
  <2>3. PICK v : v = view
    OBVIOUS
  <2>4. CardIsTrue(v) => CardIsTrue(v)'
    BY <2>1 DEF CardIsTrue, Still
  <2>5. Undisturbed(v) => Undisturbed(v)'
    BY <2>1 DEF Undisturbed, OrderServed, Still, Car!IsCurrent, Car!Now, Car!Checkpoint
  <2>6. PageInv(v) => PageInv(v)'
    BY <2>1, <2>4, <2>5 DEF PageInv, Begun, SeenCurrent, SoFar, Still, IsPage
  <2>. QED
    BY <2>1, <2>2, <2>3, <2>6 DEF CarInv
<1>. QED
  BY <1>1, <1>2

\* The public page of a game, read while the queues and the reviews move on, calls a summary current
\* only if it was when the page was read, always shows one that exists, warns exactly when there is
\* cause if nobody wrote meanwhile, and gives no verdict on another video than the one it links
\* (presentation/summaries.py, presentation/letsplays.py).
THEOREM CardsHold ==
    ASSUME CarSettings
    PROVE  Car!Spec => []CardsKept
<1>1. Car!Init => CarInv
  BY CarInit
<1>2. CarInv /\ [Car!Next]_(Car!vars) => CarInv'
  BY CarNext
<1>3. CarInv => Car!CardsKept
  <2>1. SUFFICES ASSUME CarInv, view.pc = "done"
                 PROVE  Car!OkWasCurrent /\ Car!NeverBlank /\ Car!WarnsOnlyIfStale /\ Car!VerdictIsOfTheVideo
    BY DEF Car!CardsKept
  <2>2. PageInv(view)
    BY <2>1, CarPage
  <2>3. CardIsTrue(view) /\ view.verdict \in {Car!None, view.play.video}
        /\ (view.play.state = "done" => view.verdict # Car!None)
    BY <2>1, <2>2 DEF PageInv, SoFar, CarShown
  <2>4. steady => (view.card.state = "ok" <=> OrderServed)
    BY <2>1, <2>2 DEF PageInv, Undisturbed, CarShown
  <2>. QED
    BY <2>3, <2>4 DEF CardIsTrue, OrderServed, Car!OkWasCurrent, Car!NeverBlank, Car!WarnsOnlyIfStale,
                      Car!VerdictIsOfTheVideo
<1>. QED
  BY <1>1, <1>2, <1>3, PTL DEF Car!Spec, CardsKept

------------------------------------------------------------------------------
(* Evaluation: a run of the prompt and its scorecard.                        *)

\* The cases are numbered, and a call is tried again a number of times.
EvaSettings == Case \subseteq Nat /\ Eva!IsFiniteSet(Case) /\ MaxRetries \in Nat

-----------------------------------------------------------------------------
(* The inductive invariant.                                                    *)

Result == [case : Case, status : {"success", "error"}, errors : BOOLEAN, clean : BOOLEAN, tokens : {Eva!Null, 1}]
Manifest == [status : {"running", "failed", "completed"}, ended : BOOLEAN, selected : Seq(Case),
             results : Seq(Result), attempted : Nat, apiAttempts : Nat, successful : Nat,
             passes : Nat, tokens : Nat]

\* The totals of the first results.
Successes  == {r \in Result : r.status = "success"}
Clean   == {r \in Result : r.status = "success" /\ ~r.errors}
Weight  == [r \in Result |-> IF r.tokens = Eva!Null THEN 0 ELSE r.tokens]
CountIn(s, n, G) == Cardinality({i \in 1..n : s[i] \in G})
SumOf(w, s, n)   == SumFunctionOnSet([i \in 1..n |-> w[s[i]]], 1..n)

Totals(m) == /\ m.successful = CountIn(m.results, Len(m.results), Successes)
             /\ m.passes = CountIn(m.results, Len(m.results), Clean)
             /\ m.tokens = SumOf(Weight, m.results, Len(m.results))

\* An interrupt closed the file: each total may lack the last result.
Lately(m) == {Len(m.results) - 1, Len(m.results)}
Interrupted(m) == /\ m.ended /\ m.status = "running"
                  /\ \E k \in Lately(m) : m.successful = CountIn(m.results, k, Successes)
                  /\ \E k \in Lately(m) : m.passes = CountIn(m.results, k, Clean)
                  /\ \E k \in Lately(m) : m.tokens = SumOf(Weight, m.results, k)

\* What a manifest says of the answers that came.
Prefix(m) == /\ Len(m.results) <= Len(m.selected) /\ Len(m.results) <= Len(answers)
             /\ \A i \in 1..Len(m.results) : m.results[i] = answers[i] /\ m.results[i].case = m.selected[i]
EvaTold(m) == /\ m \in Manifest /\ (Totals(m) \/ Interrupted(m)) /\ Prefix(m)
              /\ m.attempted \in {Len(m.results), Len(m.results) + 1}
              /\ m.apiAttempts <= asked
              /\ m.status = "completed" =>
                    Len(m.results) = Len(m.selected) /\ Len(answers) = Len(m.results) /\ m.apiAttempts = asked

\* The requests of n cases, at the most.
MostRequests(n) == n * (MaxRetries + 1)

Going(r) == r.man.status = "running" /\ Len(r.man.results) = Len(answers) /\ Totals(r.man)
IsRun(r) ==
    /\ r = [pc |-> r.pc, man |-> r.man, retries |-> r.retries] /\ r.pc \in {"loop", "call", "ended"}
    /\ r.retries \in 0..MaxRetries /\ EvaTold(r.man) /\ asked <= MostRequests(r.man.attempted)
    /\ r.pc = "loop" => Going(r) /\ asked = r.man.apiAttempts /\ r.man.attempted = Len(answers)
    /\ r.pc = "call" => /\ Going(r) /\ asked = r.man.apiAttempts + r.retries /\ r.man.attempted = Len(answers) + 1
                        /\ Len(answers) < Len(r.man.selected) /\ asked <= MostRequests(Len(answers)) + r.retries

ScoredRow == [case : Case, passed : BOOLEAN, blockers : SUBSET {"structural", "provider", "injection", "manual"},
        scores : [Dimension -> 0..4]]
IsCard(c) == /\ c = [status |-> c.status, of |-> c.of, aggregate |-> c.aggregate, rows |-> c.rows]
             /\ c.status \in {"awaiting_manual_review", "complete"} /\ c.rows \in Seq(ScoredRow)
             /\ ~forged => EvaTold(c.of)

Before  == run = [pc |-> "idle"] /\ disk = Eva!NoFile /\ card = Eva!NoFile /\ asked = 0 /\ answers = <<>> /\ ~mended
FileKept(d) == d \in Manifest /\ (~mended => EvaTold(d))
CardKept(c) == c # Eva!NoFile => IsCard(c)
Started == /\ IsRun(run) /\ FileKept(disk) /\ CardKept(card)
           /\ run.pc # "ended" => card = Eva!NoFile /\ ~mended /\ disk.status = "running"
EvaTyped == asked \in Nat /\ answers \in Seq(Result)
EvaInv   == EvaTyped /\ (Before \/ Started)

-----------------------------------------------------------------------------
(* Counts and sums of a sequence that grows.                                   *)

LEMMA CountOfAppend ==
    ASSUME NEW S, NEW s \in Seq(S), NEW a \in S, NEW G
    PROVE  /\ CountIn(s, Len(s), G) \in Nat
           /\ CountIn(Append(s, a), Len(s), G) = CountIn(s, Len(s), G)
           /\ CountIn(Append(s, a), Len(s) + 1, G) = CountIn(s, Len(s), G) + IF a \in G THEN 1 ELSE 0
<1>1. PICK n \in Nat : n = Len(s)
  OBVIOUS
<1>2. PICK t : t = Append(s, a)
  OBVIOUS
<1>3. Len(t) = n + 1 /\ t[n + 1] = a /\ \A i \in 1..n : t[i] = s[i]
  BY <1>1, <1>2
<1>4. PICK old : old = {i \in 1..n : s[i] \in G}
  OBVIOUS
<1>5. IsFiniteSet(old) /\ Cardinality(old) \in Nat
  <2>1. 1 \in Int /\ n \in Int
    BY <1>1
  <2>2. IsFiniteSet(1..n)
    BY <2>1, FS_Interval
  <2>3. old \subseteq 1..n
    BY <1>4
  <2>. QED
    BY <2>2, <2>3, FS_Subset, FS_CardinalityType
<1>6. n + 1 \notin old
  BY <1>1, <1>4
<1>7. \A i \in 1..(n + 1) : i \in 1..n \/ i = n + 1
  BY <1>1
<1>8. n + 1 \in 1..(n + 1) /\ 1..n \subseteq 1..(n + 1)
  BY <1>1
<1>9. {i \in 1..(n + 1) : t[i] \in G} = IF a \in G THEN old \cup {n + 1} ELSE old
  BY <1>3, <1>4, <1>7, <1>8
<1>10. Cardinality(old \cup {n + 1}) = Cardinality(old) + 1
  BY <1>5, <1>6, FS_AddElement
<1>11. {i \in 1..n : t[i] \in G} = old
  BY <1>3, <1>4
<1>. QED
  <2>1. CountIn(s, n, G) = Cardinality(old) /\ CountIn(t, n, G) = Cardinality(old)
    BY <1>4, <1>11 DEF CountIn
  <2>2. CountIn(t, n + 1, G) = Cardinality(IF a \in G THEN old \cup {n + 1} ELSE old)
    BY <1>9 DEF CountIn
  <2>. QED
    BY <1>1, <1>2, <1>5, <1>10, <2>1, <2>2

LEMMA SumOfSame ==
    ASSUME NEW f, NEW g, NEW S, IsFiniteSet(S), \A x \in S : f[x] \in Nat /\ g[x] = f[x]
    PROVE  SumFunctionOnSet(g, S) = SumFunctionOnSet(f, S)
<1>1. SumFunctionOnSet(g, S) <= SumFunctionOnSet(f, S) /\ SumFunctionOnSet(f, S) <= SumFunctionOnSet(g, S)
  BY SumIsMonotone
<1>2. SumFunctionOnSet(g, S) \in Nat /\ SumFunctionOnSet(f, S) \in Nat
  BY SumType
<1>. QED
  BY <1>1, <1>2

LEMMA SumOfAppend ==
    ASSUME NEW S, NEW w \in [S -> Nat], NEW s \in Seq(S), NEW a \in S
    PROVE  /\ SumOf(w, s, Len(s)) \in Nat
           /\ SumOf(w, Append(s, a), Len(s)) = SumOf(w, s, Len(s))
           /\ SumOf(w, Append(s, a), Len(s) + 1) = SumOf(w, s, Len(s)) + w[a]
<1>1. PICK n \in Nat : n = Len(s)
  OBVIOUS
<1>2. PICK t : t = Append(s, a)
  OBVIOUS
<1>3. Len(t) = n + 1 /\ t[n + 1] = a /\ \A i \in 1..n : t[i] = s[i]
  BY <1>1, <1>2
<1>4. PICK N : N = 1..n
  OBVIOUS
<1>5. IsFiniteSet(N) /\ n + 1 \notin N
  <2>1. 1 \in Int /\ n \in Int
    BY <1>1
  <2>2. IsFiniteSet(N)
    BY <1>4, <2>1, FS_Interval
  <2>. QED
    BY <1>1, <1>4, <2>2
<1>6. 1..(n + 1) = N \cup {n + 1}
  BY <1>1, <1>4
<1>7. PICK f : f = [i \in 1..n |-> w[s[i]]]
  OBVIOUS
<1>8. PICK g : g = [i \in 1..(n + 1) |-> w[t[i]]]
  OBVIOUS
<1>9. \A i \in N : s[i] \in S
  BY <1>1, <1>4
<1>10. \A i \in N : f[i] \in Nat /\ g[i] = f[i] /\ g[i] \in Nat
  BY <1>1, <1>3, <1>4, <1>6, <1>7, <1>8, <1>9
<1>11. g[n + 1] = w[a] /\ w[a] \in Nat
  BY <1>3, <1>6, <1>8
<1>12. SumFunctionOnSet(g, N \cup {n + 1}) = g[n + 1] + SumFunctionOnSet(g, N)
  BY <1>5, <1>10, <1>11, SumOfAdded
<1>13. SumFunctionOnSet(g, N) = SumFunctionOnSet(f, N)
  BY <1>5, <1>10, SumOfSame
<1>14. SumFunctionOnSet(f, N) \in Nat
  BY <1>5, <1>10, SumType
<1>15. SumOf(w, s, n) = SumFunctionOnSet(f, N) /\ SumOf(w, t, n + 1) = SumFunctionOnSet(g, N \cup {n + 1})
  BY <1>4, <1>6, <1>7, <1>8 DEF SumOf
<1>16. SumOf(w, t, n) = SumFunctionOnSet(f, N)
  <2>1. [i \in 1..n |-> w[t[i]]] = f
    BY <1>3, <1>7
  <2>. QED
    BY <1>4, <2>1 DEF SumOf
<1>. QED
  BY <1>1, <1>2, <1>11, <1>12, <1>13, <1>14, <1>15, <1>16

\* The totals when a result is added, with it and without.
LEMMA TotalsOfAppend ==
    ASSUME NEW s \in Seq(Result), NEW a \in Result
    PROVE  LET n == Len(s)
               t == Append(s, a)
           IN
           /\ CountIn(t, n, Successes) = CountIn(s, n, Successes)
           /\ CountIn(t, n, Clean) = CountIn(s, n, Clean)
           /\ SumOf(Weight, t, n) = SumOf(Weight, s, n)
           /\ CountIn(t, n + 1, Successes) = CountIn(s, n, Successes) + IF a.status = "success" THEN 1 ELSE 0
           /\ CountIn(t, n + 1, Clean) = CountIn(s, n, Clean) + IF a.status = "success" /\ ~a.errors THEN 1 ELSE 0
           /\ SumOf(Weight, t, n + 1) = SumOf(Weight, s, n) + IF a.tokens = Eva!Null THEN 0 ELSE a.tokens
<1>1. Weight \in [Result -> Nat] /\ Weight[a] = IF a.tokens = Eva!Null THEN 0 ELSE a.tokens
  BY DEF Weight, Result, Eva!Null
<1>2. (a \in Successes <=> a.status = "success") /\ (a \in Clean <=> (a.status = "success" /\ ~a.errors))
  BY DEF Successes, Clean
<1>3. PICK n, t : n = Len(s) /\ t = Append(s, a)
  OBVIOUS
<1>4. /\ CountIn(t, n, Successes) = CountIn(s, n, Successes)
      /\ CountIn(t, n + 1, Successes) = CountIn(s, n, Successes) + IF a \in Successes THEN 1 ELSE 0
  BY <1>3, CountOfAppend
<1>5. /\ CountIn(t, n, Clean) = CountIn(s, n, Clean)
      /\ CountIn(t, n + 1, Clean) = CountIn(s, n, Clean) + IF a \in Clean THEN 1 ELSE 0
  BY <1>3, CountOfAppend
<1>6. SumOf(Weight, t, n) = SumOf(Weight, s, n) /\ SumOf(Weight, t, n + 1) = SumOf(Weight, s, n) + Weight[a]
  BY <1>1, <1>3, SumOfAppend
<1>. QED
  BY <1>1, <1>2, <1>3, <1>4, <1>5, <1>6

-----------------------------------------------------------------------------
(* The run.                                                                    *)

LEMMA EvaMost ==
    ASSUME EvaSettings, NEW n \in Nat
    PROVE  MostRequests(n) \in Nat /\ MostRequests(n + 1) = MostRequests(n) + MaxRetries + 1 /\ MostRequests(0) = 0
<1>1. PICK k \in Nat : k = MaxRetries + 1
  BY DEF EvaSettings
<1>2. n * k \in Nat /\ (n + 1) * k = n * k + k /\ 0 * k = 0
  BY <1>1
<1>. QED
  BY <1>1, <1>2 DEF MostRequests, EvaSettings

\* What is told of the answers stays true when more of them come.
LEMMA ToldGrows ==
    ASSUME EvaTyped, NEW m, EvaTold(m), m.status # "completed", asked' \in Nat, asked <= asked',
           answers' = answers \/ \E a \in Result : answers' = Append(answers, a)
    PROVE  EvaTold(m)'
<1>1. Len(answers) <= Len(answers') /\ \A i \in 1..Len(answers) : answers'[i] = answers[i]
  BY DEF EvaTyped
<1>2. m.results \in Seq(Result) /\ m.apiAttempts \in Nat
  BY DEF EvaTold, Manifest
<1>3. Prefix(m)'
  BY <1>1, <1>2 DEF EvaTold, Prefix, EvaTyped
<1>. QED
  BY <1>2, <1>3 DEF EvaTold, EvaTyped, Totals, Interrupted, Lately

LEMMA ToldStays ==
    ASSUME NEW m, EvaTold(m), answers' = answers, asked' = asked
    PROVE  EvaTold(m)'
BY DEF EvaTold, Prefix, Totals, Interrupted, Lately

\* The manifest that is closed.
IsClosed(m, man, status) ==
    /\ m \in Manifest /\ m.status = status /\ m.ended /\ m.results = man.results /\ m.selected = man.selected
    /\ m.attempted = man.attempted /\ m.apiAttempts = man.apiAttempts /\ m.successful = man.successful
    /\ m.passes = man.passes /\ m.tokens = man.tokens
EndsAs(m) == run' = [pc |-> "ended", man |-> m, retries |-> run.retries]

LEMMA EvaRuns ==
    ASSUME EvaInv, run.pc \in {"loop", "call"}
    PROVE  /\ EvaTyped /\ IsRun(run) /\ EvaTold(disk)
           /\ card = Eva!NoFile /\ ~mended /\ disk.status = "running"
           /\ run = [pc |-> run.pc, man |-> run.man, retries |-> run.retries] /\ run.man \in Manifest
BY DEF EvaInv, Before, Started, FileKept, IsRun, EvaTold

LEMMA EvaClosed ==
    ASSUME EvaInv, run.pc \in {"loop", "call"},
           NEW man \in Manifest, NEW status \in {"running", "failed", "completed"}, Eva!Ends(man, status)
    PROVE  \E m : EndsAs(m) /\ disk' = m /\ IsClosed(m, man, status)
<1>1. PICK m : m = [man EXCEPT !.status = status, !.ended = TRUE]
  OBVIOUS
<1>2. disk' = m /\ run' = [run EXCEPT !.pc = "ended", !.man = m]
  BY <1>1, Zenon DEF Eva!Ends
<1>3. run = [pc |-> run.pc, man |-> run.man, retries |-> run.retries]
  BY EvaRuns
<1>4. EndsAs(m)
  BY <1>2, <1>3 DEF EndsAs
<1>5. IsClosed(m, man, status)
  BY <1>1 DEF Manifest, IsClosed
<1>. QED
  BY <1>2, <1>4, <1>5

\* The run goes on, or has ended.
LEMMA EvaGoesOn ==
    ASSUME EvaInv, run.pc \in {"loop", "call"}, Eva!Scorecard' = Eva!Scorecard, EvaTyped',
           NEW r, run' = r, IsRun(r)', NEW d, disk' = d, EvaTold(d)',
           r.pc = "ended" \/ d.status = "running"
    PROVE  EvaInv'
<1>1. card' = Eva!NoFile /\ ~mended' /\ Eva!NoFile' = Eva!NoFile
  BY EvaRuns DEF Eva!Scorecard, Eva!NoFile
<1>2. FileKept(d)' /\ CardKept(card)'
  BY <1>1 DEF FileKept, CardKept, EvaTold
<1>. QED
  BY <1>1, <1>2 DEF EvaInv, Started

LEMMA EvaEnds ==
    ASSUME EvaInv, run.pc \in {"loop", "call"}, Eva!Scorecard' = Eva!Scorecard, EvaTyped',
           NEW m, EndsAs(m), NEW d, disk' = d, EvaTold(d)',
           EvaTold(m)', asked' <= MostRequests(m.attempted)
    PROVE  EvaInv'
<1>1. run = [pc |-> run.pc, man |-> run.man, retries |-> run.retries] /\ run.retries \in 0..MaxRetries
  BY EvaRuns DEF IsRun
<1>2. PICK r : run' = r /\ r = [pc |-> "ended", man |-> m, retries |-> run.retries]
  BY DEF EndsAs
<1>3. IsRun(r)'
  BY <1>1, <1>2 DEF IsRun
<1>. QED
  BY <1>2, <1>3, EvaGoesOn

LEMMA EvaStart ==
    ASSUME EvaSettings, EvaInv, Eva!Start
    PROVE  EvaInv'
<1>1. /\ card = Eva!NoFile /\ ~mended /\ asked = 0 /\ answers = <<>>
      /\ card' = card /\ mended' = mended /\ asked' = asked /\ answers' = answers
  <2>1. run.pc = "idle" /\ card' = card /\ mended' = mended /\ asked' = asked /\ answers' = answers
    BY DEF Eva!Start, Eva!Scorecard
  <2>2. Before
    BY <2>1 DEF EvaInv, Started, IsRun
  <2>. QED
    BY <2>1, <2>2 DEF Before
<1>2. PICK n \in 1..Eva!Cardinality(Case) :
         \E selected \in [1..n -> Case] :
            /\ run' = [pc |-> "loop", man |-> Eva!Manifest(selected), retries |-> 0]
            /\ disk' = Eva!Manifest(selected)
  BY DEF Eva!Start
<1>3. n \in Nat
  BY <1>2
<1>4. PICK cases \in [1..n -> Case] :
         /\ run' = [pc |-> "loop", man |-> Eva!Manifest(cases), retries |-> 0]
         /\ disk' = Eva!Manifest(cases)
  BY <1>2
<1>5. cases \in Seq(Case)
  BY <1>3, <1>4
<1>6. PICK m : m = Eva!Manifest(cases)
  OBVIOUS
<1>7. /\ m \in Manifest /\ m.results = <<>> /\ m.status = "running" /\ m.selected = cases /\ m.attempted = 0
      /\ m.apiAttempts = 0 /\ m.successful = 0 /\ m.passes = 0 /\ m.tokens = 0
  BY <1>5, <1>6 DEF Eva!Manifest, Manifest
<1>8. Totals(m)
  <2>1. PICK none : none = 1..0
    OBVIOUS
  <2>2. none = {} /\ IsFiniteSet(none) /\ Cardinality(none) = 0
    BY <2>1, FS_EmptySet
  <2>3. \A G : CountIn(<<>>, 0, G) = 0
    BY <2>1, <2>2 DEF CountIn
  <2>4. SumOf(Weight, <<>>, 0) = 0
    <3>1. SumOf(Weight, <<>>, 0) = SumFunctionOnSet([i \in 1..0 |-> Weight[<<>>[i]]], none)
      BY <2>1 DEF SumOf
    <3>. QED
      BY <2>2, <3>1, SumOfZeros
  <2>. QED
    BY <1>7, <2>3, <2>4 DEF Totals
<1>9. EvaTold(m)'
  BY <1>1, <1>5, <1>7, <1>8 DEF EvaTold, Prefix, Totals
<1>10. PICK r : run' = r /\ r = [pc |-> "loop", man |-> m, retries |-> 0]
  BY <1>4, <1>6
<1>11. IsRun(r)'
  <2>1. asked' <= MostRequests(m.attempted)
    BY <1>1, <1>7, EvaMost
  <2>2. 0 \in 0..MaxRetries
    BY DEF EvaSettings
  <2>. QED
    BY <1>1, <1>4, <1>6, <1>7, <1>8, <1>9, <1>10, <2>1, <2>2 DEF IsRun, Going
<1>. QED
  <2>1. CardKept(card)' /\ FileKept(m)' /\ ~mended' /\ card' = Eva!NoFile'
    BY <1>1, <1>9 DEF CardKept, FileKept, EvaTold, Eva!NoFile
  <2>2. EvaTyped' /\ disk' = m
    BY <1>1, <1>4, <1>6 DEF EvaTyped, EvaInv
  <2>. QED
    BY <1>7, <1>10, <1>11, <2>1, <2>2 DEF EvaInv, Started

LEMMA EvaNextCase ==
    ASSUME EvaSettings, EvaInv, Eva!NextCase
    PROVE  EvaInv'
<1>1. run.pc = "loop" /\ Eva!Scorecard' = Eva!Scorecard /\ asked' = asked /\ answers' = answers
  BY DEF Eva!NextCase
<1>2. /\ EvaTyped /\ IsRun(run) /\ EvaTold(disk) /\ disk.status = "running"
      /\ run = [pc |-> run.pc, man |-> run.man, retries |-> run.retries] /\ run.man \in Manifest
  BY <1>1, EvaRuns
<1>3. PICK r, man : r = run /\ man = run.man
  OBVIOUS
<1>4. /\ EvaTold(man) /\ Going(r) /\ asked = man.apiAttempts /\ man.attempted = Len(answers) /\ Totals(man)
      /\ Len(man.results) = Len(answers) /\ asked <= MostRequests(man.attempted) /\ man.status = "running"
  BY <1>1, <1>2, <1>3 DEF IsRun, Going
<1>5. EvaTyped' /\ Len(answers) \in Nat /\ asked \in Nat
  BY <1>1, <1>2 DEF EvaTyped
<1>6. CASE man.attempted = Len(man.selected)
  <2>1. PICK status : status = "completed"
    OBVIOUS
  <2>2. Eva!Ends(man, status) /\ status \in {"running", "failed", "completed"}
    BY <1>3, <1>6, <2>1, Zenon DEF Eva!NextCase
  <2>3. PICK m : EndsAs(m) /\ disk' = m /\ IsClosed(m, man, status)
    BY <1>1, <1>2, <1>3, <2>2, EvaClosed
  <2>4. EvaTold(m)
    BY <1>4, <1>6, <2>1, <2>3 DEF EvaTold, Totals, Prefix, IsClosed
  <2>5. EvaTold(m)' /\ asked' <= MostRequests(m.attempted)
    BY <1>1, <1>4, <2>3, <2>4, ToldStays DEF IsClosed
  <2>. QED
    BY <1>1, <1>5, <2>3, <2>5, EvaEnds
<1>7. CASE man.attempted # Len(man.selected)
  <2>1. run' = [run EXCEPT !.pc = "call", !.retries = 0, !.man.attempted = @ + 1] /\ disk' = disk
    BY <1>3, <1>7, Zenon DEF Eva!NextCase
  <2>2. PICK m : m = [man EXCEPT !.attempted = @ + 1]
    OBVIOUS
  <2>3. PICK q : run' = q /\ q = [pc |-> "call", man |-> m, retries |-> 0]
    BY <1>2, <1>3, <2>1, <2>2
  <2>4. /\ m \in Manifest /\ m.attempted = man.attempted + 1 /\ m.status = "running" /\ m.results = man.results
        /\ m.selected = man.selected /\ m.apiAttempts = man.apiAttempts /\ m.successful = man.successful
        /\ m.passes = man.passes /\ m.tokens = man.tokens
    BY <1>2, <1>3, <1>4, <2>2 DEF Manifest
  <2>5. EvaTold(m) /\ Totals(m)
    BY <1>4, <2>4 DEF EvaTold, Prefix, Totals
  <2>6. PICK d : d = disk
    OBVIOUS
  <2>7. EvaTold(m)' /\ EvaTold(d)'
    BY <1>1, <1>2, <2>5, <2>6, ToldStays
  <2>8. Len(answers) < Len(m.selected)
    <3>1. Len(m.selected) \in Nat
      BY <2>4 DEF Manifest
    <3>. QED
      BY <1>4, <1>5, <1>7, <2>4, <3>1 DEF EvaTold, Prefix
  <2>9. asked <= MostRequests(m.attempted) /\ asked <= MostRequests(Len(answers)) + 0
    <3>1. PICK n \in Nat : n = Len(answers)
      BY <1>5
    <3>2. MostRequests(n) \in Nat /\ MostRequests(n + 1) = MostRequests(n) + MaxRetries + 1
      BY EvaMost
    <3>3. PICK p, p1 : p = MostRequests(n) /\ p1 = MostRequests(n + 1)
      OBVIOUS
    <3>4. asked <= p /\ man.attempted = n /\ m.attempted = n + 1
      BY <1>4, <2>4, <3>1, <3>3
    <3>5. asked <= p1
      BY <1>5, <3>2, <3>3, <3>4 DEF EvaSettings
    <3>6. asked <= p + 0
      BY <1>5, <3>2, <3>3, <3>4
    <3>. QED
      BY <3>1, <3>3, <3>4, <3>5, <3>6
  <2>10. 0 \in 0..MaxRetries
    BY DEF EvaSettings
  <2>11. IsRun(q)'
    BY <1>1, <1>4, <1>5, <2>3, <2>4, <2>5, <2>7, <2>8, <2>9, <2>10 DEF IsRun, Going
  <2>. QED
    BY <1>1, <1>2, <1>5, <2>1, <2>3, <2>6, <2>7, <2>11, EvaGoesOn
<1>. QED
  BY <1>6, <1>7

\* What the result of a case adds to the totals: all of it, or what an interrupt left of it.
Adds(m, old, a) == /\ m.successful = old.successful + IF a.status = "success" THEN 1 ELSE 0
                   /\ m.passes = old.passes + IF a.status = "success" /\ ~a.errors THEN 1 ELSE 0
                   /\ m.tokens = old.tokens + IF a.tokens = Eva!Null THEN 0 ELSE a.tokens
AddsSome(m, old, a) ==
    /\ m.successful = old.successful \/ m.successful = old.successful + IF a.status = "success" THEN 1 ELSE 0
    /\ m.passes = old.passes \/ m.passes = old.passes + IF a.status = "success" /\ ~a.errors THEN 1 ELSE 0
    /\ m.tokens = old.tokens \/ m.tokens = old.tokens + IF a.tokens = Eva!Null THEN 0 ELSE a.tokens

\* The manifest with the requests of the case at hand, and with its result.
Requested(m, old, n) == /\ m.apiAttempts = old.apiAttempts + n + 1 /\ m.selected = old.selected
                        /\ m.attempted = old.attempted
HasResult(m, old, a, n) == m \in Manifest /\ Requested(m, old, n) /\ m.results = Append(old.results, a)

LEMMA EvaAtCall ==
    ASSUME EvaSettings, EvaInv, run.pc = "call"
    PROVE  LET man == run.man
               retries == run.retries
               n == Len(answers)
           IN
           /\ EvaTyped /\ EvaTold(man) /\ EvaTold(disk) /\ Totals(man) /\ man \in Manifest
           /\ Len(man.results) = n /\ asked = man.apiAttempts + retries
           /\ man.status = "running" /\ man.attempted = n + 1 /\ n < Len(man.selected)
           /\ asked <= MostRequests(n) + retries /\ disk.status = "running"
           /\ asked \in Nat /\ n \in Nat /\ retries \in Nat /\ retries <= MaxRetries /\ MaxRetries \in Nat
           /\ Eva!Now \in Case
           /\ run = [pc |-> "call", man |-> man, retries |-> retries]
<1>1. EvaTyped /\ IsRun(run) /\ EvaTold(disk) /\ disk.status = "running" /\ run.man \in Manifest
  BY EvaRuns
<1>2. PICK r, man, retries, n : r = run /\ man = run.man /\ retries = run.retries /\ n = Len(answers)
  OBVIOUS
<1>3. /\ EvaTold(man) /\ Totals(man) /\ Len(man.results) = n /\ asked = man.apiAttempts + retries
      /\ man.status = "running" /\ man.attempted = n + 1 /\ n < Len(man.selected)
      /\ asked <= MostRequests(n) + retries /\ retries \in 0..MaxRetries
      /\ r = [pc |-> "call", man |-> man, retries |-> retries]
  BY <1>1, <1>2 DEF IsRun, Going
<1>4. asked \in Nat /\ n \in Nat /\ retries \in Nat /\ retries <= MaxRetries /\ MaxRetries \in Nat
  BY <1>1, <1>2, <1>3 DEF EvaTyped, EvaSettings
<1>5. Eva!Now \in Case
  BY <1>1, <1>2, <1>3, <1>4 DEF Eva!Now, Manifest
<1>. QED
  BY <1>1, <1>2, <1>3, <1>4, <1>5

\* One more request is within the bound.
LEMMA EvaOneMore ==
    ASSUME EvaSettings, EvaInv, run.pc = "call"
    PROVE  /\ asked + 1 \in Nat /\ asked <= asked + 1
           /\ asked <= MostRequests(Len(answers) + 1) /\ asked + 1 <= MostRequests(Len(answers) + 1)
           /\ asked + 1 <= MostRequests(Len(answers)) + (run.retries + 1)
<1>1. PICK n \in Nat, retries \in Nat :
         /\ n = Len(answers) /\ retries = run.retries /\ asked \in Nat /\ asked <= MostRequests(n) + retries
         /\ retries <= MaxRetries /\ MaxRetries \in Nat
  BY EvaAtCall
<1>2. MostRequests(n) \in Nat /\ MostRequests(n + 1) = MostRequests(n) + MaxRetries + 1
  BY EvaMost
<1>3. PICK p, q : p = MostRequests(n) /\ q = MostRequests(n + 1)
  OBVIOUS
<1>4. asked <= p + retries /\ p \in Nat /\ q = p + MaxRetries + 1
  BY <1>1, <1>2, <1>3
<1>5. asked + 1 <= q /\ asked <= q /\ asked + 1 <= p + (retries + 1) /\ asked + 1 \in Nat /\ asked <= asked + 1
  BY <1>1, <1>4
<1>. QED
  BY <1>1, <1>3, <1>5

\* A result is in the manifest, and its totals are or an interrupt closed it: it is told.
LEMMA EvaTaken ==
    ASSUME EvaSettings, EvaInv, run.pc = "call", NEW a \in Result, a.case = Eva!Now,
           asked' = asked + 1, answers' = Append(answers, a), mended' = mended, forged' = forged,
           NEW m, HasResult(m, run.man, a, run.retries), m.status \in {"running", "failed"},
           Adds(m, run.man, a) \/ (m.ended /\ m.status = "running" /\ AddsSome(m, run.man, a))
    PROVE  /\ EvaTyped' /\ EvaTold(m)' /\ (Adds(m, run.man, a) => Totals(m))
           /\ Len(m.results) = Len(answers') /\ m.attempted = Len(answers') /\ m.apiAttempts = asked'
           /\ asked' <= MostRequests(m.attempted)
<1>1. PICK man, retries, n, s : /\ man = run.man /\ retries = run.retries /\ n = Len(answers)
                                /\ s = man.results
  OBVIOUS
<1>2. /\ EvaTyped /\ EvaTold(man) /\ Totals(man) /\ man \in Manifest
      /\ Len(s) = n /\ asked = man.apiAttempts + retries /\ man.attempted = n + 1 /\ n < Len(man.selected)
      /\ asked \in Nat /\ n \in Nat /\ retries \in Nat
  BY <1>1, EvaAtCall
<1>3. /\ s \in Seq(Result) /\ answers \in Seq(Result) /\ EvaTyped' /\ man.apiAttempts \in Nat
      /\ Len(man.selected) \in Nat
  BY <1>1, <1>2 DEF EvaTyped, Manifest
<1>4. /\ m \in Manifest /\ m.results = Append(s, a) /\ m.selected = man.selected
      /\ m.attempted = man.attempted /\ m.apiAttempts = man.apiAttempts + retries + 1
  BY <1>1 DEF HasResult, Requested
<1>5. /\ Len(m.results) = n + 1 /\ Len(answers') = n + 1 /\ m.results[n + 1] = a /\ answers'[n + 1] = a
      /\ \A i \in 1..n : m.results[i] = s[i] /\ answers'[i] = answers[i]
  <2>1. Len(Append(s, a)) = n + 1 /\ Append(s, a)[n + 1] = a /\ \A i \in 1..n : Append(s, a)[i] = s[i]
    BY <1>2, <1>3
  <2>2. Len(answers') = n + 1 /\ answers'[n + 1] = a /\ \A i \in 1..n : answers'[i] = answers[i]
    BY <1>1, <1>2, <1>3
  <2>. QED
    BY <1>4, <2>1, <2>2
<1>6. PICK c, p, w, c1, p1, w1 :
         /\ c = CountIn(s, n, Successes) /\ c1 = CountIn(m.results, n + 1, Successes)
         /\ p = CountIn(s, n, Clean) /\ p1 = CountIn(m.results, n + 1, Clean)
         /\ w = SumOf(Weight, s, n) /\ w1 = SumOf(Weight, m.results, n + 1)
  OBVIOUS
<1>7. /\ c = CountIn(m.results, n, Successes) /\ p = CountIn(m.results, n, Clean)
      /\ w = SumOf(Weight, m.results, n)
      /\ c1 = c + IF a.status = "success" THEN 1 ELSE 0
      /\ p1 = p + IF a.status = "success" /\ ~a.errors THEN 1 ELSE 0
      /\ w1 = w + IF a.tokens = Eva!Null THEN 0 ELSE a.tokens
  BY <1>2, <1>3, <1>4, <1>6, TotalsOfAppend
<1>8. man.successful = c /\ man.passes = p /\ man.tokens = w
  BY <1>1, <1>2, <1>6 DEF Totals
<1>9. Adds(m, man, a) => Totals(m)
  BY <1>5, <1>6, <1>7, <1>8 DEF Adds, Totals
<1>10. m.ended /\ m.status = "running" /\ AddsSome(m, man, a) => Interrupted(m)
  <2>1. n \in Lately(m) /\ n + 1 \in Lately(m)
    BY <1>2, <1>5 DEF Lately
  <2>2. AddsSome(m, man, a) => /\ m.successful = c \/ m.successful = c1
                               /\ m.passes = p \/ m.passes = p1
                               /\ m.tokens = w \/ m.tokens = w1
    BY <1>7, <1>8 DEF AddsSome
  <2>3. AddsSome(m, man, a) => /\ \E k \in Lately(m) : m.successful = CountIn(m.results, k, Successes)
                               /\ \E k \in Lately(m) : m.passes = CountIn(m.results, k, Clean)
                               /\ \E k \in Lately(m) : m.tokens = SumOf(Weight, m.results, k)
    BY <1>6, <1>7, <2>1, <2>2
  <2>. QED
    BY <2>3 DEF Interrupted
<1>11. Prefix(m)'
  <2>1. a.case = m.selected[n + 1]
    BY <1>1, <1>2, <1>4 DEF Eva!Now
  <2>2. \A i \in 1..(n + 1) : i \in 1..n \/ i = n + 1
    BY <1>2
  <2>3. \A i \in 1..n : m.results[i] = answers'[i] /\ m.results[i].case = m.selected[i]
    BY <1>1, <1>2, <1>4, <1>5 DEF EvaTold, Prefix
  <2>4. \A i \in 1..(n + 1) : m.results[i] = answers'[i] /\ m.results[i].case = m.selected[i]
    BY <1>5, <2>1, <2>2, <2>3
  <2>5. n + 1 <= Len(m.selected)
    BY <1>2, <1>3, <1>4
  <2>. QED
    BY <1>2, <1>5, <2>4, <2>5 DEF Prefix
<1>12. m.apiAttempts = asked' /\ m.attempted = n + 1 /\ asked' <= MostRequests(n + 1) /\ asked' \in Nat
  BY <1>1, <1>2, <1>3, <1>4, EvaOneMore
<1>13. EvaTold(m)'
  <2>1. (Totals(m) \/ Interrupted(m))'
    BY <1>1, <1>9, <1>10 DEF Totals, Interrupted, Lately
  <2>. QED
    BY <1>2, <1>4, <1>5, <1>11, <1>12, <2>1 DEF EvaTold
<1>. QED
  BY <1>1, <1>3, <1>5, <1>9, <1>12, <1>13

\* It is recorded, or the write fails.
LEMMA EvaRecorded ==
    ASSUME EvaSettings, EvaInv, run.pc = "call", NEW a \in Result, a.case = Eva!Now,
           Eva!Scorecard' = Eva!Scorecard, asked' = asked + 1, answers' = Append(answers, a),
           NEW then \in {"continue", "raise"}, NEW m, Eva!Recorded(m, then),
           HasResult(m, run.man, a, run.retries), m.status = "running", Adds(m, run.man, a)
    PROVE  EvaInv'
<1>1. PICK man, retries, d : man = run.man /\ retries = run.retries /\ d = disk
  OBVIOUS
<1>2. /\ EvaTyped /\ EvaTold(man) /\ EvaTold(d) /\ d.status = "running" /\ man.status = "running"
      /\ retries \in 0..MaxRetries /\ run = [pc |-> "call", man |-> man, retries |-> retries]
      /\ man.attempted = Len(answers) + 1
  BY <1>1, EvaAtCall
<1>3. asked' \in Nat /\ asked <= asked' /\ asked' <= MostRequests(man.attempted)
  BY <1>2, EvaOneMore
<1>4. mended' = mended /\ forged' = forged
  BY DEF Eva!Scorecard
<1>5. /\ EvaTyped' /\ EvaTold(m)' /\ Totals(m) /\ Len(m.results) = Len(answers')
      /\ m.attempted = Len(answers') /\ m.apiAttempts = asked' /\ asked' <= MostRequests(m.attempted)
  BY <1>4, EvaTaken
<1>6. EvaTold(man)' /\ EvaTold(d)'
  BY <1>2, <1>3, ToldGrows
<1>7. CASE run' = [run EXCEPT !.pc = "loop", !.man = m] /\ disk' = m
  <2>1. PICK r : run' = r /\ r = [pc |-> "loop", man |-> m, retries |-> retries]
    BY <1>2, <1>7
  <2>2. Going(r)'
    BY <1>5, <2>1 DEF Going, Totals
  <2>3. IsRun(r)'
    BY <1>2, <1>5, <2>1, <2>2 DEF IsRun
  <2>. QED
    BY <1>5, <1>7, <2>1, <2>3, EvaGoesOn
<1>8. CASE Eva!Ends(m, "failed")
  <2>1. PICK status : status = "failed"
    OBVIOUS
  <2>2. Eva!Ends(m, status) /\ status \in {"running", "failed", "completed"} /\ m \in Manifest
    BY <1>8, <2>1 DEF HasResult
  <2>3. PICK o : EndsAs(o) /\ disk' = o /\ IsClosed(o, m, status)
    BY <2>2, EvaClosed
  <2>4. HasResult(o, run.man, a, run.retries) /\ Adds(o, run.man, a) /\ o.status \in {"running", "failed"}
    BY <2>1, <2>3 DEF HasResult, Requested, Adds, IsClosed
  <2>5. EvaTold(o)' /\ asked' <= MostRequests(o.attempted)
    BY <1>4, <2>4, EvaTaken
  <2>. QED
    BY <1>5, <2>3, <2>5, EvaEnds
<1>9. CASE run' = [run EXCEPT !.pc = "ended"] /\ disk' = disk
  <2>1. EndsAs(man)
    <3>1. run = [pc |-> run.pc, man |-> run.man, retries |-> run.retries]
      BY EvaRuns
    <3>. QED
      BY <1>1, <1>9, <3>1 DEF EndsAs
  <2>. QED
    BY <1>1, <1>3, <1>5, <1>6, <1>9, <2>1, EvaEnds
<1>. QED
  <2>1. \/ /\ IF then = "raise" THEN Eva!Ends(m, "failed")
                                ELSE run' = [run EXCEPT !.pc = "loop", !.man = m] /\ disk' = m
        \/ Eva!Ends(m, "failed")
        \/ run' = [run EXCEPT !.pc = "ended"] /\ disk' = disk
    BY Zenon DEF Eva!Recorded
  <2>. QED
    BY <1>7, <1>8, <1>9, <2>1, Zenon

\* It is in the manifest when an interrupt lands.
LEMMA EvaCutOff ==
    ASSUME EvaSettings, EvaInv, run.pc = "call", NEW a \in Result, a.case = Eva!Now,
           Eva!Scorecard' = Eva!Scorecard, asked' = asked + 1, answers' = Append(answers, a),
           NEW m, Eva!Ends(m, "running"), HasResult(m, run.man, a, run.retries), AddsSome(m, run.man, a)
    PROVE  EvaInv'
<1>1. PICK status : status = "running"
  OBVIOUS
<1>2. Eva!Ends(m, status) /\ status \in {"running", "failed", "completed"} /\ m \in Manifest
  BY <1>1 DEF HasResult
<1>3. PICK o : EndsAs(o) /\ disk' = o /\ IsClosed(o, m, status)
  BY <1>2, EvaClosed
<1>4. /\ HasResult(o, run.man, a, run.retries) /\ AddsSome(o, run.man, a)
      /\ o.ended /\ o.status = "running" /\ o.status \in {"running", "failed"}
  BY <1>1, <1>3 DEF HasResult, Requested, AddsSome, IsClosed
<1>5. mended' = mended /\ forged' = forged
  BY DEF Eva!Scorecard
<1>6. EvaTyped' /\ EvaTold(o)' /\ asked' <= MostRequests(o.attempted)
  BY <1>4, <1>5, EvaTaken
<1>. QED
  BY <1>3, <1>6, EvaEnds

\* The run ends and there is no result: it has made a request, which may be counted.
LEMMA EvaNothingCame ==
    ASSUME EvaSettings, EvaInv, run.pc = "call",
           Eva!Scorecard' = Eva!Scorecard, asked' = asked + 1, answers' = answers,
           NEW status \in {"running", "failed"},
           NEW m \in {run.man, Eva!Counted(run.man, "error")}, Eva!Ends(m, status)
    PROVE  EvaInv'
<1>1. PICK man, retries : man = run.man /\ retries = run.retries
  OBVIOUS
<1>2. /\ EvaTyped /\ EvaTold(man) /\ man \in Manifest /\ asked = man.apiAttempts + retries /\ Totals(man)
      /\ asked \in Nat /\ retries \in Nat /\ man.status = "running" /\ man.attempted = Len(answers) + 1
  BY <1>1, EvaAtCall
<1>3. man.apiAttempts \in Nat /\ EvaTyped'
  BY <1>2 DEF Manifest, EvaTyped
<1>4. asked' \in Nat /\ asked <= asked' /\ asked' <= MostRequests(man.attempted)
  BY <1>2, EvaOneMore
<1>5. /\ m \in Manifest /\ m.results = man.results /\ m.selected = man.selected /\ m.attempted = man.attempted
      /\ m.successful = man.successful /\ m.passes = man.passes /\ m.tokens = man.tokens
      /\ m.apiAttempts <= asked'
  <2>1. CASE m = man
    BY <1>2, <1>3, <2>1
  <2>2. CASE m = Eva!Counted(man, "error")
    <3>1. PICK k \in Nat : k = man.apiAttempts + retries + 1
      BY <1>2, <1>3
    <3>2. m = [man EXCEPT !.apiAttempts = k]
      BY <1>1, <1>2, <1>3, <2>2, <3>1 DEF Eva!Counted
    <3>3. k <= asked'
      BY <1>2, <1>3, <3>1
    <3>4. /\ m \in Manifest /\ m.results = man.results /\ m.selected = man.selected
          /\ m.attempted = man.attempted /\ m.successful = man.successful /\ m.passes = man.passes
          /\ m.tokens = man.tokens /\ m.apiAttempts = k
      BY <1>2, <3>1, <3>2 DEF Manifest
    <3>. QED
      BY <3>3, <3>4
  <2>. QED
    BY <1>1, <2>1, <2>2
<1>6. PICK o : EndsAs(o) /\ disk' = o /\ IsClosed(o, m, status)
  BY <1>5, EvaClosed
<1>7. EvaTold(man)'
  BY <1>2, <1>4, ToldGrows
<1>8. EvaTold(o)'
  <2>1. Totals(o)' /\ Prefix(o)'
    BY <1>2, <1>5, <1>6, <1>7 DEF EvaTold, Totals, Prefix, IsClosed
  <2>2. o.attempted \in {Len(o.results), Len(o.results) + 1} /\ o.status # "completed"
    BY <1>2, <1>5, <1>6 DEF EvaTold, IsClosed
  <2>. QED
    BY <1>5, <1>6, <2>1, <2>2 DEF EvaTold, IsClosed
<1>9. o.attempted = man.attempted
  BY <1>5, <1>6 DEF IsClosed
<1>. QED
  BY <1>3, <1>4, <1>6, <1>8, <1>9, EvaEnds

\* The manifests of the module have the result.
LEMMA EvaCounted ==
    ASSUME EvaSettings, EvaInv, run.pc = "call", NEW status
    PROVE  LET man == run.man
               o == Eva!Counted(man, status)
           IN
           /\ o \in Manifest /\ Requested(o, man, run.retries) /\ o.results = man.results /\ o.status = "running"
           /\ o.successful = man.successful /\ o.passes = man.passes /\ o.tokens = man.tokens
<1>1. PICK man, retries : man = run.man /\ retries = run.retries
  OBVIOUS
<1>2. man \in Manifest /\ retries \in Nat /\ man.status = "running"
  BY <1>1, EvaAtCall
<1>3. PICK k \in Nat : k = man.apiAttempts + retries + 1
  BY <1>2 DEF Manifest
<1>4. PICK o : o = [man EXCEPT !.apiAttempts = k]
  OBVIOUS
<1>5. Eva!Counted(man, status) = o
  BY <1>1, <1>2, <1>3, <1>4 DEF Eva!Counted, Manifest
<1>6. /\ o \in Manifest /\ Requested(o, man, retries) /\ o.results = man.results /\ o.status = "running"
      /\ o.successful = man.successful /\ o.passes = man.passes /\ o.tokens = man.tokens
  BY <1>2, <1>3, <1>4 DEF Manifest, Requested
<1>. QED
  BY <1>1, <1>5, <1>6

LEMMA EvaFailed ==
    ASSUME EvaSettings, EvaInv, run.pc = "call"
    PROVE  LET a == Eva!ErrorResult
               m == Eva!Failed
           IN
           /\ a \in Result /\ a.case = Eva!Now
           /\ HasResult(m, run.man, a, run.retries) /\ m.status = "running" /\ Adds(m, run.man, a)
<1>1. PICK man, retries, a, o : /\ man = run.man /\ retries = run.retries /\ a = Eva!ErrorResult
                                /\ o = Eva!Counted(man, "error")
  OBVIOUS
<1>2. a \in Result /\ a.case = Eva!Now /\ a.status = "error" /\ a.tokens = Eva!Null
  BY <1>1, EvaAtCall DEF Eva!ErrorResult, Result
<1>3. /\ o \in Manifest /\ Requested(o, man, retries) /\ o.results = man.results /\ o.status = "running"
      /\ o.successful = man.successful /\ o.passes = man.passes /\ o.tokens = man.tokens
  BY <1>1, EvaCounted
<1>4. PICK rs \in Seq(Result) : rs = Append(o.results, a)
  <2>1. PICK s \in Seq(Result) : s = o.results
    BY <1>3 DEF Manifest
  <2>2. Append(s, a) \in Seq(Result)
    BY <1>2
  <2>. QED
    BY <2>1, <2>2
<1>5. PICK m : m = [o EXCEPT !.results = rs]
  OBVIOUS
<1>6. Eva!Failed = m
  BY <1>1, <1>4, <1>5 DEF Eva!Failed
<1>7. /\ m \in Manifest /\ m.results = rs /\ m.apiAttempts = o.apiAttempts
      /\ m.selected = o.selected /\ m.attempted = o.attempted /\ m.status = o.status
      /\ m.successful = o.successful /\ m.passes = o.passes /\ m.tokens = o.tokens
  BY <1>3, <1>4, <1>5 DEF Manifest
<1>8. man.successful \in Nat /\ man.passes \in Nat /\ man.tokens \in Nat
  BY <1>1, EvaAtCall DEF Manifest
<1>9. HasResult(m, man, a, retries)
  BY <1>3, <1>4, <1>7 DEF HasResult, Requested
<1>10. Adds(m, man, a)
  BY <1>2, <1>3, <1>7, <1>8 DEF Adds
<1>. QED
  BY <1>1, <1>2, <1>3, <1>6, <1>7, <1>9, <1>10

With(o, rs, x, y, z) == [o EXCEPT !.results = rs, !.successful = x, !.passes = y, !.tokens = z]

LEMMA EvaSucceeded ==
    ASSUME EvaSettings, EvaInv, run.pc = "call", NEW a \in Eva!Answer
    PROVE  /\ a \in Result /\ a.case = Eva!Now
           /\ LET m == Eva!Succeeded(a) IN
              HasResult(m, run.man, a, run.retries) /\ m.status = "running" /\ Adds(m, run.man, a)
           /\ \A m \in Eva!TakenIn(a) : HasResult(m, run.man, a, run.retries) /\ AddsSome(m, run.man, a)
<1>1. PICK man, retries, o : man = run.man /\ retries = run.retries /\ o = Eva!Counted(man, "success")
  OBVIOUS
<1>2. a \in Result /\ a.case = Eva!Now /\ a.status = "success" /\ a.errors \in BOOLEAN /\ a.tokens \in {Eva!Null, 1}
  <2>1. Eva!Now \in Case
    BY EvaAtCall
  <2>. QED
    BY <2>1 DEF Eva!Answer, Result
<1>3. /\ o \in Manifest /\ Requested(o, man, retries) /\ o.results = man.results /\ o.status = "running"
      /\ o.successful = man.successful /\ o.passes = man.passes /\ o.tokens = man.tokens
  BY <1>1, EvaCounted
<1>4. /\ o.results \in Seq(Result) /\ o.successful \in Nat /\ o.passes \in Nat /\ o.tokens \in Nat
  BY <1>3 DEF Manifest
<1>5. PICK rs \in Seq(Result), k \in Nat : rs = Append(o.results, a) /\ k = o.successful + 1
  <2>1. PICK s \in Seq(Result) : s = o.results
    BY <1>4
  <2>2. Append(s, a) \in Seq(Result) /\ o.successful + 1 \in Nat
    BY <1>2, <1>4
  <2>. QED
    BY <2>1, <2>2
<1>6. PICK p, t : /\ p = IF a.errors THEN o.passes ELSE o.passes + 1
                  /\ t = IF a.tokens = Eva!Null THEN o.tokens ELSE o.tokens + a.tokens
  OBVIOUS
<1>7. p \in Nat /\ t \in Nat
  BY <1>2, <1>4, <1>6 DEF Eva!Null
<1>8. /\ k = o.successful + IF a.status = "success" THEN 1 ELSE 0
      /\ p = o.passes + IF a.status = "success" /\ ~a.errors THEN 1 ELSE 0
      /\ t = o.tokens + IF a.tokens = Eva!Null THEN 0 ELSE a.tokens
  BY <1>2, <1>4, <1>5, <1>6
<1>9. ASSUME NEW x \in Nat, NEW y \in Nat, NEW z \in Nat, NEW m, m = With(o, rs, x, y, z)
      PROVE  /\ HasResult(m, man, a, retries) /\ m.status = "running" /\ m.successful = x /\ m.passes = y
             /\ m.tokens = z
  <2>1. /\ m \in Manifest /\ m.results = rs /\ m.apiAttempts = o.apiAttempts
        /\ m.selected = o.selected /\ m.attempted = o.attempted /\ m.status = o.status
        /\ m.successful = x /\ m.passes = y /\ m.tokens = z
    BY <1>3, <1>9 DEF Manifest, With
  <2>. QED
    BY <1>3, <1>5, <2>1 DEF HasResult, Requested
<1>10. PICK whole : whole = With(o, rs, k, p, t)
  OBVIOUS
<1>11. Eva!Succeeded(a) = whole
  BY <1>1, <1>5, <1>6, <1>10 DEF Eva!Succeeded, With
<1>12. /\ HasResult(whole, man, a, retries) /\ whole.status = "running" /\ whole.successful = k
       /\ whole.passes = p /\ whole.tokens = t
  BY <1>7, <1>9, <1>10
<1>13. Adds(whole, man, a)
  BY <1>3, <1>8, <1>12 DEF Adds
<1>14. ASSUME NEW m \in Eva!TakenIn(a)
       PROVE  HasResult(m, man, a, retries) /\ AddsSome(m, man, a)
  <2>1. PICK appended : appended = [o EXCEPT !.results = rs]
    OBVIOUS
  <2>2. \/ m = appended \/ m = [appended EXCEPT !.successful = whole.successful]
        \/ m = [whole EXCEPT !.tokens = appended.tokens] \/ m = whole
    BY <1>1, <1>5, <1>11, <2>1 DEF Eva!TakenIn
  <2>3. appended = With(o, rs, o.successful, o.passes, o.tokens)
        /\ appended.tokens = o.tokens
    BY <1>3, <2>1 DEF Manifest, With
  <2>4. \E x \in {o.successful, k}, y \in {o.passes, p}, z \in {o.tokens, t} :
           m = With(o, rs, x, y, z)
    <3>1. CASE m = appended
      BY <2>3, <3>1
    <3>2. CASE m = [appended EXCEPT !.successful = whole.successful]
      <4>1. m = With(o, rs, k, o.passes, o.tokens)
        BY <1>3, <1>12, <2>1, <3>2 DEF Manifest, With
      <4>. QED
        BY <4>1
    <3>3. CASE m = [whole EXCEPT !.tokens = appended.tokens]
      <4>1. m = With(o, rs, k, p, o.tokens)
        BY <1>3, <1>10, <2>3, <3>3 DEF Manifest, With
      <4>. QED
        BY <4>1
    <3>4. CASE m = whole
      BY <1>10, <3>4
    <3>. QED
      BY <2>2, <3>1, <3>2, <3>3, <3>4
  <2>5. PICK x \in {o.successful, k}, y \in {o.passes, p}, z \in {o.tokens, t} :
           m = With(o, rs, x, y, z)
    BY <2>4
  <2>6. x \in Nat /\ y \in Nat /\ z \in Nat
    BY <1>4, <1>7
  <2>7. HasResult(m, man, a, retries) /\ m.successful = x /\ m.passes = y /\ m.tokens = z
    BY <1>9, <2>5, <2>6
  <2>. QED
    BY <1>3, <1>8, <2>7 DEF AddsSome
<1>. QED
  BY <1>1, <1>2, <1>11, <1>12, <1>13, <1>14

LEMMA EvaCall ==
    ASSUME EvaSettings, EvaInv, Eva!Call
    PROVE  EvaInv'
<1>1. run.pc = "call" /\ asked' = asked + 1 /\ Eva!Scorecard' = Eva!Scorecard
  BY DEF Eva!Call
<1>2. ASSUME NEW a \in Eva!Answer, answers' = Append(answers, a), Eva!Recorded(Eva!Succeeded(a), "continue")
      PROVE  EvaInv'
  <2>1. PICK m, then : m = Eva!Succeeded(a) /\ then = "continue"
    OBVIOUS
  <2>2. /\ a \in Result /\ a.case = Eva!Now /\ HasResult(m, run.man, a, run.retries) /\ m.status = "running"
        /\ Adds(m, run.man, a)
    BY <1>1, <2>1, EvaSucceeded
  <2>3. Eva!Recorded(m, then) /\ then \in {"continue", "raise"}
    BY <1>2, <2>1
  <2>. QED
    BY <1>1, <1>2, <2>2, <2>3, EvaRecorded
<1>3. ASSUME NEW then \in {"continue", "raise"}, answers' = Append(answers, Eva!ErrorResult),
             Eva!Recorded(Eva!Failed, then)
      PROVE  EvaInv'
  <2>1. PICK a, m : a = Eva!ErrorResult /\ m = Eva!Failed
    OBVIOUS
  <2>2. /\ a \in Result /\ a.case = Eva!Now /\ HasResult(m, run.man, a, run.retries) /\ m.status = "running"
        /\ Adds(m, run.man, a)
    BY <1>1, <2>1, EvaFailed
  <2>3. Eva!Recorded(m, then) /\ answers' = Append(answers, a)
    BY <1>3, <2>1
  <2>. QED
    BY <1>1, <2>2, <2>3, EvaRecorded
<1>4. CASE run.retries < MaxRetries /\ run' = [run EXCEPT !.retries = @ + 1] /\ disk' = disk /\ answers' = answers
  <2>1. PICK man, retries, n, d : man = run.man /\ retries = run.retries /\ n = Len(answers) /\ d = disk
    OBVIOUS
  <2>2. /\ EvaTyped /\ EvaTold(man) /\ EvaTold(d) /\ Totals(man) /\ man \in Manifest
        /\ Len(man.results) = n /\ asked = man.apiAttempts + retries
        /\ man.status = "running" /\ man.attempted = n + 1 /\ n < Len(man.selected) /\ d.status = "running"
        /\ asked \in Nat /\ n \in Nat /\ retries \in Nat /\ MaxRetries \in Nat
        /\ run = [pc |-> "call", man |-> man, retries |-> retries]
    BY <1>1, <2>1, EvaAtCall
  <2>3. PICK r : run' = r /\ r = [pc |-> "call", man |-> man, retries |-> retries + 1]
    BY <1>4, <2>2
  <2>4. /\ asked' \in Nat /\ asked <= asked' /\ asked' <= MostRequests(n + 1)
        /\ asked' <= MostRequests(n) + (retries + 1)
    BY <1>1, <2>1, EvaOneMore
  <2>5. EvaTyped'
    BY <1>4, <2>2, <2>4 DEF EvaTyped
  <2>6. EvaTold(man)' /\ EvaTold(d)'
    BY <1>4, <2>2, <2>4, <2>5, ToldGrows
  <2>7. retries + 1 \in 0..MaxRetries /\ asked' = man.apiAttempts + (retries + 1)
    <3>1. PICK k, q, o : k = man.apiAttempts /\ q = asked /\ o = asked'
      OBVIOUS
    <3>2. k \in Nat /\ retries \in Nat /\ MaxRetries \in Nat
      BY <2>2, <3>1 DEF Manifest
    <3>3. o = q + 1 /\ q = k + retries
      BY <1>1, <2>2, <3>1
    <3>4. retries < MaxRetries
      BY <1>4, <2>1
    <3>5. retries + 1 \in 0..MaxRetries /\ o = k + (retries + 1)
      BY ONLY <3>2, <3>3, <3>4
    <3>. QED
      BY <3>1, <3>5
  <2>8. Going(r)'
    BY <1>4, <2>1, <2>2, <2>3 DEF Going, Totals
  <2>9. IsRun(r)'
    BY <1>4, <2>1, <2>2, <2>3, <2>4, <2>6, <2>7, <2>8 DEF IsRun
  <2>. QED
    BY <1>1, <1>4, <2>1, <2>2, <2>3, <2>5, <2>6, <2>9, EvaGoesOn
<1>5. ASSUME NEW m \in {run.man, Eva!Counted(run.man, "error")}, Eva!Ends(m, "failed"), answers' = answers
      PROVE  EvaInv'
  <2>1. PICK status : status = "failed"
    OBVIOUS
  <2>2. Eva!Ends(m, status) /\ status \in {"running", "failed"}
    BY <1>5, <2>1
  <2>. QED
    BY <1>1, <1>5, <2>2, EvaNothingCame
<1>6. \/ \E a \in Eva!Answer : answers' = Append(answers, a) /\ Eva!Recorded(Eva!Succeeded(a), "continue")
      \/ answers' = Append(answers, Eva!ErrorResult) /\ Eva!Recorded(Eva!Failed, "continue")
      \/ run.retries < MaxRetries /\ run' = [run EXCEPT !.retries = @ + 1] /\ disk' = disk /\ answers' = answers
      \/ \E then \in {"continue", "raise"} :
            answers' = Append(answers, Eva!ErrorResult) /\ Eva!Recorded(Eva!Failed, then)
      \/ \E m \in {run.man, Eva!Counted(run.man, "error")} : Eva!Ends(m, "failed") /\ answers' = answers
  BY Zenon DEF Eva!Call
<1>. QED
  BY <1>2, <1>3, <1>4, <1>5, <1>6

LEMMA EvaInterrupt ==
    ASSUME EvaSettings, EvaInv, Eva!Interrupt
    PROVE  EvaInv'
<1>1. run.pc \in {"loop", "call"} /\ Eva!Scorecard' = Eva!Scorecard
  BY DEF Eva!Interrupt
<1>2. CASE Eva!Ends(run.man, "running") /\ asked' = asked /\ answers' = answers
  <2>1. PICK man, status : man = run.man /\ status = "running"
    OBVIOUS
  <2>2. /\ EvaTyped /\ EvaTold(man) /\ man \in Manifest /\ man.status = "running" /\ Totals(man)
        /\ asked <= MostRequests(man.attempted)
    BY <1>1, <2>1, EvaRuns DEF IsRun, Going
  <2>3. Eva!Ends(man, status) /\ status \in {"running", "failed", "completed"}
    BY <1>2, <2>1
  <2>4. PICK m : EndsAs(m) /\ disk' = m /\ IsClosed(m, man, status)
    BY <1>1, <2>2, <2>3, EvaClosed
  <2>5. EvaTold(m)
    BY <2>1, <2>2, <2>4 DEF EvaTold, Totals, Prefix, IsClosed
  <2>6. EvaTold(m)' /\ EvaTyped' /\ asked' <= MostRequests(m.attempted)
    BY <1>2, <2>2, <2>4, <2>5, ToldStays DEF EvaTyped, IsClosed
  <2>. QED
    BY <1>1, <2>4, <2>6, EvaEnds
<1>3. ASSUME run.pc = "call", asked' = asked + 1, NEW m \in {run.man, Eva!Counted(run.man, "error")},
             Eva!Ends(m, "running"), answers' = answers
      PROVE  EvaInv'
  <2>1. PICK status : status = "running"
    OBVIOUS
  <2>2. Eva!Ends(m, status) /\ status \in {"running", "failed"}
    BY <1>3, <2>1
  <2>. QED
    BY <1>1, <1>3, <2>2, EvaNothingCame
<1>4. ASSUME run.pc = "call", asked' = asked + 1, NEW a \in Eva!Answer, answers' = Append(answers, a),
             NEW m \in Eva!TakenIn(a), Eva!Ends(m, "running")
      PROVE  EvaInv'
  <2>1. a \in Result /\ a.case = Eva!Now /\ HasResult(m, run.man, a, run.retries) /\ AddsSome(m, run.man, a)
    BY <1>4, EvaSucceeded
  <2>. QED
    BY <1>1, <1>4, <2>1, EvaCutOff
<1>5. ASSUME run.pc = "call", asked' = asked + 1, answers' = Append(answers, Eva!ErrorResult),
             Eva!Ends(Eva!Failed, "running")
      PROVE  EvaInv'
  <2>1. PICK a, m : a = Eva!ErrorResult /\ m = Eva!Failed
    OBVIOUS
  <2>2. a \in Result /\ a.case = Eva!Now /\ HasResult(m, run.man, a, run.retries) /\ Adds(m, run.man, a)
    BY <1>5, <2>1, EvaFailed
  <2>3. AddsSome(m, run.man, a)
    BY <2>2 DEF Adds, AddsSome
  <2>4. Eva!Ends(m, "running") /\ answers' = Append(answers, a)
    BY <1>5, <2>1
  <2>. QED
    BY <1>1, <1>5, <2>2, <2>3, <2>4, EvaCutOff
<1>6. \/ Eva!Ends(run.man, "running") /\ asked' = asked /\ answers' = answers
      \/ /\ run.pc = "call" /\ asked' = asked + 1
         /\ \/ \E m \in {run.man, Eva!Counted(run.man, "error")} : Eva!Ends(m, "running") /\ answers' = answers
            \/ \E a \in Eva!Answer : /\ answers' = Append(answers, a)
                                     /\ \E m \in Eva!TakenIn(a) : Eva!Ends(m, "running")
            \/ answers' = Append(answers, Eva!ErrorResult) /\ Eva!Ends(Eva!Failed, "running")
  <2>1. \/ Eva!Ends(run.man, "running") /\ UNCHANGED <<asked, answers>>
        \/ /\ run.pc = "call" /\ asked' = asked + 1
           /\ \/ \E m \in {run.man, Eva!Counted(run.man, "error")} : Eva!Ends(m, "running") /\ UNCHANGED answers
              \/ \E a \in Eva!Answer : /\ answers' = Append(answers, a)
                                       /\ \E m \in Eva!TakenIn(a) : Eva!Ends(m, "running")
              \/ answers' = Append(answers, Eva!ErrorResult) /\ Eva!Ends(Eva!Failed, "running")
    BY Zenon DEF Eva!Interrupt
  <2>. QED
    BY <2>1, Zenon
<1>. QED
  BY <1>2, <1>3, <1>4, <1>5, <1>6

LEMMA EvaKill ==
    ASSUME EvaSettings, EvaInv, Eva!Kill
    PROVE  EvaInv'
<1>1. /\ run.pc \in {"loop", "call"} /\ Eva!Scorecard' = Eva!Scorecard /\ answers' = answers
      /\ run' = [run EXCEPT !.pc = "ended"] /\ disk' = disk
      /\ asked' \in {asked, asked + IF run.pc = "call" THEN 1 ELSE 0}
  BY DEF Eva!Kill
<1>2. PICK man, d : man = run.man /\ d = disk
  OBVIOUS
<1>3. /\ EvaTyped /\ EvaTold(man) /\ EvaTold(d) /\ d.status = "running" /\ man.status = "running"
      /\ asked <= MostRequests(man.attempted) /\ asked \in Nat
      /\ run = [pc |-> run.pc, man |-> run.man, retries |-> run.retries]
  BY <1>1, <1>2, EvaRuns DEF IsRun, Going, EvaTyped
<1>4. asked' \in Nat /\ asked <= asked' /\ asked' <= MostRequests(man.attempted)
  <2>1. CASE asked' = asked
    BY <1>3, <2>1
  <2>2. CASE asked' # asked
    <3>1. run.pc = "call" /\ asked' = asked + 1
      BY <1>1, <1>3, <2>2
    <3>2. man.attempted = Len(answers) + 1
      BY <1>2, <3>1, EvaAtCall
    <3>. QED
      BY <3>1, <3>2, EvaOneMore
  <2>. QED
    BY <2>1, <2>2
<1>5. EvaTyped'
  BY <1>1, <1>3, <1>4 DEF EvaTyped
<1>6. EvaTold(man)' /\ EvaTold(d)'
  BY <1>1, <1>3, <1>4, <1>5, ToldGrows
<1>7. EndsAs(man)
  BY <1>1, <1>2, <1>3 DEF EndsAs
<1>. QED
  BY <1>1, <1>2, <1>4, <1>5, <1>6, <1>7, EvaEnds

-----------------------------------------------------------------------------
(* The scorecard.                                                              *)

LEMMA AssessmentIsRow ==
    ASSUME NEW r \in Result
    PROVE  Eva!Assessment(r) \in ScoredRow
<1>1. \A kind, broken : Eva!Initial(kind, broken) \in [Dimension -> 0..4]
  BY DEF Eva!Initial, Eva!NA, Eva!Open
<1>2. PICK scores \in [Dimension -> 0..4] :
         scores = Eva!Initial(KindOf[r.case], r.errors \/ r.status # "success")
  BY <1>1
<1>3. PICK blockers : blockers = Eva!Blockers(r)
  OBVIOUS
<1>4. blockers \in SUBSET {"structural", "provider", "injection", "manual"}
  BY <1>3 DEF Eva!Blockers
<1>5. PICK passed \in BOOLEAN : passed = ~r.errors
  BY DEF Result
<1>6. Eva!Assessment(r) = [case |-> r.case, passed |-> passed, blockers |-> blockers, scores |-> scores]
  BY <1>2, <1>3, <1>5 DEF Eva!Assessment, Eva!Passed
<1>. QED
  BY <1>2, <1>4, <1>5, <1>6 DEF ScoredRow, Result

\* After the end of the run, when only the files change.
LEMMA EvaByHand ==
    ASSUME EvaInv, run.pc = "ended", run' = run, asked' = asked, answers' = answers,
           NEW d, disk' = d, FileKept(d)', NEW c, card' = c, CardKept(c)'
    PROVE  EvaInv'
<1>1. EvaTyped /\ Started
  BY DEF EvaInv, Before
<1>2. PICK r, m : r = run /\ m = run.man
  OBVIOUS
<1>3. EvaTold(m)' /\ IsRun(r)
  BY <1>1, <1>2, ToldStays DEF Started, IsRun
<1>4. IsRun(r)'
  BY <1>2, <1>3 DEF IsRun, Going
<1>. QED
  BY <1>1, <1>2, <1>4 DEF EvaInv, EvaTyped, Started

\* What a card and a file have when the run has ended.
LEMMA EvaFiles ==
    ASSUME EvaInv, card # Eva!NoFile \/ run.pc = "ended"
    PROVE  /\ EvaTyped /\ Started /\ run.pc = "ended" /\ disk \in Manifest /\ FileKept(disk)
           /\ card # Eva!NoFile => IsCard(card)
BY DEF EvaInv, Before, Started, FileKept, CardKept

LEMMA EvaFileStays ==
    ASSUME NEW d, FileKept(d), answers' = answers, asked' = asked, mended' = mended
    PROVE  FileKept(d)'
<1>1. EvaTold(d) => EvaTold(d)'
  BY ToldStays
<1>. QED
  BY <1>1 DEF FileKept

LEMMA EvaCardStays ==
    ASSUME NEW c, CardKept(c), answers' = answers, asked' = asked, forged' = forged
    PROVE  CardKept(c)'
<1>1. PICK m : m = c.of
  OBVIOUS
<1>2. EvaTold(m) => EvaTold(m)'
  BY ToldStays
<1>. QED
  BY <1>1, <1>2 DEF CardKept, IsCard, Eva!NoFile

\* The card with other rows, or another status, or of another run.
LEMMA EvaNewCard ==
    ASSUME EvaInv, card # Eva!NoFile, run' = run, asked' = asked, answers' = answers,
           disk' = disk, mended' = mended,
           NEW c, card' = c, c = [status |-> c.status, of |-> c.of, aggregate |-> c.aggregate, rows |-> c.rows],
           c.status \in {"awaiting_manual_review", "complete"}, c.rows \in Seq(ScoredRow),
           \/ c.of = card.of /\ forged' = forged
           \/ c.of = disk /\ forged' = mended
    PROVE  EvaInv'
<1>1. run.pc = "ended" /\ FileKept(disk) /\ IsCard(card)
  BY EvaFiles
<1>2. PICK d, k : d = disk /\ k = card.of
  OBVIOUS
<1>3. FileKept(d)'
  BY <1>1, <1>2, EvaFileStays
<1>4. ~forged' => EvaTold(c.of)'
  <2>1. CASE c.of = k /\ forged' = forged
    <3>1. ~forged => EvaTold(k)
      BY <1>1, <1>2 DEF IsCard
    <3>2. EvaTold(k) => EvaTold(k)'
      BY ToldStays
    <3>. QED
      BY <2>1, <3>1, <3>2
  <2>2. CASE c.of = d /\ forged' = mended
    <3>1. ~mended => EvaTold(d)
      BY <1>1, <1>2 DEF FileKept
    <3>2. EvaTold(d) => EvaTold(d)'
      BY ToldStays
    <3>. QED
      BY <2>2, <3>1, <3>2
  <2>. QED
    BY <1>2, <2>1, <2>2
<1>5. CardKept(c)'
  BY <1>4 DEF CardKept, IsCard
<1>. QED
  BY <1>1, <1>2, <1>3, <1>5, EvaByHand

LEMMA EvaCreate ==
    ASSUME EvaSettings, EvaInv, Eva!Create
    PROVE  EvaInv'
<1>1. /\ run.pc = "ended" /\ run' = run /\ asked' = asked /\ answers' = answers
      /\ disk' = disk /\ mended' = mended /\ forged' = mended
  BY DEF Eva!Create, Eva!World
<1>2. PICK d : d = disk
  OBVIOUS
<1>3. FileKept(d) /\ d.results \in Seq(Result)
  BY <1>1, <1>2, EvaFiles DEF Manifest
<1>4. FileKept(d)'
  BY <1>1, <1>3, EvaFileStays
<1>5. PICK marks : marks = [n \in DOMAIN d.results |-> Eva!Assessment(d.results[n])]
  OBVIOUS
<1>6. marks \in Seq(ScoredRow)
  <2>1. PICK s \in Seq(Result) : s = d.results
    BY <1>3
  <2>2. PICK k \in Nat : k = Len(s) /\ DOMAIN s = 1..k
    BY <2>1
  <2>3. \A n \in 1..k : Eva!Assessment(s[n]) \in ScoredRow
    BY <2>1, <2>2, AssessmentIsRow
  <2>4. marks \in [1..k -> ScoredRow]
    BY <1>5, <2>1, <2>2, <2>3
  <2>. QED
    BY <2>2, <2>4
<1>7. PICK c : /\ card' = c
               /\ c = [status |-> "awaiting_manual_review", of |-> d, aggregate |-> <<>>, rows |-> marks]
  BY <1>2, <1>5, Zenon DEF Eva!Create
<1>8. ~mended => EvaTold(d)'
  BY <1>3, <1>1, ToldStays DEF FileKept
<1>9. CardKept(c)'
  BY <1>1, <1>6, <1>7, <1>8 DEF CardKept, IsCard
<1>. QED
  BY <1>1, <1>2, <1>4, <1>7, <1>9, EvaByHand

LEMMA EvaEditRows ==
    ASSUME EvaSettings, EvaInv, Eva!EditRows
    PROVE  EvaInv'
<1>1. /\ card # Eva!NoFile /\ run' = run /\ asked' = asked /\ answers' = answers
      /\ disk' = disk /\ mended' = mended /\ forged' = forged
  BY DEF Eva!EditRows, Eva!World
<1>3. PICK k : k = card
  OBVIOUS
<1>4. IsCard(k) /\ k.rows \in Seq(ScoredRow)
  BY <1>1, <1>3, EvaFiles DEF IsCard
<1>5. PICK n \in DOMAIN card.rows :
         \/ \E d \in Dimension, v \in {0, 1, 2, Eva!NA} : card' = [card EXCEPT !.rows[n].scores[d] = v]
         \/ card' = [card EXCEPT !.rows[n].blockers = @ \cup {"manual"}]
         \/ card' = [card EXCEPT !.rows[n].blockers = {}, !.rows[n].passed = TRUE]
  BY DEF Eva!EditRows
<1>6. PICK r \in ScoredRow : r = card.rows[n]
  BY <1>3, <1>4, <1>5
<1>7. PICK s \in ScoredRow : card' = [card EXCEPT !.rows = [@ EXCEPT ![n] = s]]
  <2>1. ASSUME NEW d \in Dimension, NEW v \in {0, 1, 2, Eva!NA}, card' = [card EXCEPT !.rows[n].scores[d] = v]
        PROVE  \E s \in ScoredRow : card' = [card EXCEPT !.rows = [@ EXCEPT ![n] = s]]
    <3>1. PICK scores : scores = [r.scores EXCEPT ![d] = v]
      OBVIOUS
    <3>2. scores \in [Dimension -> 0..4]
      BY <3>1 DEF ScoredRow, Eva!NA
    <3>3. PICK s : s = [r EXCEPT !.scores = scores]
      OBVIOUS
    <3>4. s \in ScoredRow
      BY <3>2, <3>3 DEF ScoredRow
    <3>5. card' = [card EXCEPT !.rows = [@ EXCEPT ![n] = s]]
      BY <1>6, <2>1, <3>1, <3>3
    <3>. QED
      BY <3>4, <3>5
  <2>2. ASSUME card' = [card EXCEPT !.rows[n].blockers = @ \cup {"manual"}]
        PROVE  \E s \in ScoredRow : card' = [card EXCEPT !.rows = [@ EXCEPT ![n] = s]]
    <3>1. PICK s : s = [r EXCEPT !.blockers = @ \cup {"manual"}]
      OBVIOUS
    <3>2. s \in ScoredRow
      BY <3>1 DEF ScoredRow
    <3>3. card' = [card EXCEPT !.rows = [@ EXCEPT ![n] = s]]
      BY <1>6, <2>2, <3>1
    <3>. QED
      BY <3>2, <3>3
  <2>3. ASSUME card' = [card EXCEPT !.rows[n].blockers = {}, !.rows[n].passed = TRUE]
        PROVE  \E s \in ScoredRow : card' = [card EXCEPT !.rows = [@ EXCEPT ![n] = s]]
    <3>1. PICK s : s = [r EXCEPT !.blockers = {}, !.passed = TRUE]
      OBVIOUS
    <3>2. s \in ScoredRow
      BY <3>1 DEF ScoredRow
    <3>3. card' = [card EXCEPT !.rows = [@ EXCEPT ![n] = s]]
      BY <1>3, <1>4, <1>5, <1>6, <2>3, <3>1 DEF ScoredRow, IsCard
    <3>. QED
      BY <3>2, <3>3
  <2>. QED
    BY <1>5, <2>1, <2>2, <2>3
<1>8. PICK marks \in Seq(ScoredRow) : marks = [k.rows EXCEPT ![n] = s]
  <2>1. PICK old \in Seq(ScoredRow) : old = k.rows
    BY <1>4
  <2>2. PICK i \in Nat : i = Len(old) /\ old \in [1..i -> ScoredRow]
    BY <2>1
  <2>3. PICK new : new = [old EXCEPT ![n] = s]
    OBVIOUS
  <2>4. new \in [1..i -> ScoredRow]
    BY <1>7, <2>2, <2>3
  <2>5. new \in Seq(ScoredRow)
    BY <2>2, <2>4
  <2>. QED
    BY <2>1, <2>3, <2>5
<1>9. PICK c : card' = c /\ c = [k EXCEPT !.rows = marks]
  BY <1>3, <1>7, <1>8
<1>10. c.rows = marks /\ c.of = k.of /\ c.status = k.status
       /\ c = [status |-> c.status, of |-> c.of, aggregate |-> c.aggregate, rows |-> c.rows]
  BY <1>4, <1>9 DEF IsCard
<1>11. /\ c.status \in {"awaiting_manual_review", "complete"} /\ c.rows \in Seq(ScoredRow)
       /\ c.of = card.of /\ card' = c
  BY <1>3, <1>4, <1>8, <1>9, <1>10 DEF IsCard
<1>12. c = [status |-> c.status, of |-> c.of, aggregate |-> c.aggregate, rows |-> c.rows]
  BY <1>10
<1>. QED
  BY <1>1, <1>11, <1>12, EvaNewCard

LEMMA EvaEditCard ==
    ASSUME EvaSettings, EvaInv, Eva!EditCard
    PROVE  EvaInv'
<1>1. /\ card # Eva!NoFile /\ run' = run /\ asked' = asked /\ answers' = answers
      /\ disk' = disk /\ mended' = mended
  BY DEF Eva!EditCard, Eva!World
<1>2. PICK k : k = card
  OBVIOUS
<1>3. IsCard(k)
  BY <1>1, <1>2, EvaFiles
<1>4. CASE \E aggregate : card' = [card EXCEPT !.status = "complete", !.aggregate = aggregate] /\ forged' = forged
  <2>1. PICK aggregate : card' = [card EXCEPT !.status = "complete", !.aggregate = aggregate] /\ forged' = forged
    BY <1>4
  <2>2. PICK c : card' = c /\ c = [k EXCEPT !.status = "complete", !.aggregate = aggregate]
    BY <1>2, <2>1
  <2>3. c.rows = k.rows /\ c.of = k.of /\ c.status = "complete" /\ c.rows \in Seq(ScoredRow)
        /\ c = [status |-> c.status, of |-> c.of, aggregate |-> c.aggregate, rows |-> c.rows]
    BY <1>3, <2>2 DEF IsCard
  <2>4. c.status \in {"awaiting_manual_review", "complete"}
    BY <2>3
  <2>. QED
    BY <1>1, <1>2, <2>1, <2>2, <2>3, <2>4, EvaNewCard
<1>5. CASE card' = [card EXCEPT !.of = disk] /\ forged' = mended
  <2>1. PICK c : card' = c /\ c = [k EXCEPT !.of = disk]
    BY <1>2, <1>5
  <2>2. c.rows \in Seq(ScoredRow) /\ c.of = disk /\ c.status \in {"awaiting_manual_review", "complete"}
        /\ c = [status |-> c.status, of |-> c.of, aggregate |-> c.aggregate, rows |-> c.rows]
    BY <1>3, <2>1 DEF IsCard
  <2>. QED
    BY <1>1, <1>5, <2>1, <2>2, EvaNewCard
<1>6. \/ \E aggregate : card' = [card EXCEPT !.status = "complete", !.aggregate = aggregate] /\ forged' = forged
      \/ card' = [card EXCEPT !.of = disk] /\ forged' = mended
  <2>1. PICK most : most = 2 * Eva!Cardinality(Eva!Cells(card.rows))
    OBVIOUS
  <2>2. PICK aggregate : aggregate = [score |-> most, maximum |-> most, passed |-> TRUE]
    OBVIOUS
  <2>3. \/ card' = [card EXCEPT !.status = "complete", !.aggregate = aggregate] /\ forged' = forged
        \/ card' = [card EXCEPT !.of = disk] /\ forged' = mended
    BY <2>1, <2>2, Zenon DEF Eva!EditCard
  <2>. QED
    BY <2>3
<1>. QED
  BY <1>4, <1>5, <1>6

LEMMA EvaDiscard ==
    ASSUME EvaSettings, EvaInv, Eva!Discard
    PROVE  EvaInv'
<1>1. /\ card # Eva!NoFile /\ run' = run /\ asked' = asked /\ answers' = answers
      /\ disk' = disk /\ mended' = mended /\ card' = Eva!NoFile
  BY DEF Eva!Discard, Eva!World
<1>2. PICK d, c : d = disk /\ c = Eva!NoFile
  OBVIOUS
<1>3. FileKept(d) /\ run.pc = "ended"
  BY <1>1, <1>2, EvaFiles
<1>4. FileKept(d)' /\ CardKept(c)'
  BY <1>1, <1>2, <1>3, EvaFileStays DEF CardKept, Eva!NoFile
<1>. QED
  BY <1>1, <1>2, <1>3, <1>4, EvaByHand

LEMMA EvaEditRun ==
    ASSUME EvaSettings, EvaInv, Eva!EditRun
    PROVE  EvaInv'
<1>1. /\ run.pc = "ended" /\ run' = run /\ asked' = asked /\ answers' = answers
      /\ card' = card /\ forged' = forged /\ mended'
  BY DEF Eva!EditRun, Eva!World
<1>2. PICK d, c : d = disk /\ c = card
  OBVIOUS
<1>3. d \in Manifest /\ CardKept(c)
  BY <1>1, <1>2, EvaFiles DEF Started
<1>4. CardKept(c)'
  BY <1>1, <1>3, EvaCardStays
<1>5. CASE disk' = [disk EXCEPT !.status = "completed"]
  <2>1. PICK e : disk' = e /\ e = [d EXCEPT !.status = "completed"]
    BY <1>2, <1>5
  <2>2. e \in Manifest
    BY <1>3, <2>1 DEF Manifest
  <2>3. FileKept(e)'
    BY <1>1, <2>2 DEF FileKept
  <2>. QED
    BY <1>1, <1>2, <1>4, <2>1, <2>3, EvaByHand
<1>6. ASSUME NEW n \in DOMAIN disk.results,
             disk' = [disk EXCEPT !.results[n] = Eva!Good(@),
                                  !.tokens = IF disk.results[n].tokens = Eva!Null THEN @ + 1 ELSE @]
      PROVE  EvaInv'
  <2>1. PICK s \in Seq(Result) : s = d.results
    BY <1>3 DEF Manifest
  <2>2. PICK k \in Nat : k = Len(s) /\ s \in [1..k -> Result] /\ n \in 1..k
    BY <1>2, <1>6, <2>1
  <2>3. PICK r \in Result : r = s[n]
    BY <2>2
  <2>4. PICK g : g = [r EXCEPT !.status = "success", !.errors = FALSE, !.clean = TRUE, !.tokens = 1]
    OBVIOUS
  <2>5. g \in Result
    BY <2>4 DEF Result
  <2>6. PICK new : new = [s EXCEPT ![n] = g]
    OBVIOUS
  <2>7. new \in Seq(Result)
    <3>1. new \in [1..k -> Result]
      BY <2>2, <2>5, <2>6
    <3>. QED
      BY <2>2, <3>1
  <2>8. PICK t \in Nat : t = IF r.tokens = Eva!Null THEN d.tokens + 1 ELSE d.tokens
    BY <1>3 DEF Manifest
  <2>9. PICK e : disk' = e /\ e = [d EXCEPT !.results = new, !.tokens = t]
    BY <1>2, <1>3, <1>6, <2>1, <2>3, <2>4, <2>6, <2>8 DEF Eva!Good
  <2>10. e \in Manifest
    BY <1>3, <2>7, <2>8, <2>9 DEF Manifest
  <2>11. FileKept(e)'
    BY <1>1, <2>10 DEF FileKept
  <2>. QED
    BY <1>1, <1>2, <1>4, <2>9, <2>11, EvaByHand
<1>. QED
  BY <1>5, <1>6 DEF Eva!EditRun

LEMMA EvaFinalize ==
    ASSUME EvaSettings, EvaInv, Eva!Finalize
    PROVE  EvaInv'
<1>1. /\ card # Eva!NoFile /\ run' = run /\ asked' = asked /\ answers' = answers
      /\ disk' = disk /\ mended' = mended /\ forged' = forged
  BY DEF Eva!Finalize, Eva!World
<1>2. PICK k : k = card
  OBVIOUS
<1>3. IsCard(k)
  BY <1>1, <1>2, EvaFiles
<1>4. PICK aggregate : aggregate = Eva!Aggregate(card.rows)
  OBVIOUS
<1>5. PICK c : card' = c /\ c = [k EXCEPT !.status = "complete", !.aggregate = aggregate]
  BY <1>2, <1>4, Zenon DEF Eva!Finalize
<1>6. c.rows = k.rows /\ c.of = k.of /\ c.status = "complete" /\ c.rows \in Seq(ScoredRow)
      /\ c = [status |-> c.status, of |-> c.of, aggregate |-> c.aggregate, rows |-> c.rows]
  BY <1>3, <1>5 DEF IsCard
<1>7. c.status \in {"awaiting_manual_review", "complete"}
  BY <1>6
<1>. QED
  BY <1>1, <1>2, <1>5, <1>6, <1>7, EvaNewCard

-----------------------------------------------------------------------------
(* What the invariant says of the file and of a card that verifies.            *)

LEMMA EvaTellsTheTruth ==
    ASSUME EvaInv, ~mended, disk # Eva!NoFile
    PROVE  Eva!RunTellsTheTruth
<1>1. EvaTold(disk) /\ answers \in Seq(Result)
  BY DEF EvaInv, Before, Started, FileKept, EvaTyped
<1>2. PICK s, n : s = disk.results /\ n = Len(s)
  OBVIOUS
<1>3. s \in Seq(Result) /\ n \in Nat /\ disk.selected \in Seq(Case) /\ n <= Len(disk.selected) /\ n <= Len(answers)
      /\ DOMAIN s = 1..n
  BY <1>1, <1>2 DEF EvaTold, Prefix, Manifest
<1>4. \A i \in 1..n : s[i] \in Result /\ s[i] = answers[i] /\ s[i].case = disk.selected[i]
  BY <1>1, <1>2, <1>3 DEF EvaTold, Prefix
<1>5. Eva!CaseOf(s) = SubSeq(disk.selected, 1, n)
  <2>1. PICK t \in Seq(Case) : t = disk.selected
    BY <1>3
  <2>2. SubSeq(t, 1, n) = [i \in 1..n |-> t[i]]
    BY <1>3, <2>1
  <2>3. Eva!CaseOf(s) = [i \in 1..n |-> s[i].case]
    BY <1>3 DEF Eva!CaseOf
  <2>. QED
    BY <1>4, <2>1, <2>2, <2>3
<1>6. s = SubSeq(answers, 1, n)
  <2>1. SubSeq(answers, 1, n) = [i \in 1..n |-> answers[i]]
    BY <1>1, <1>3
  <2>2. s = [i \in 1..n |-> s[i]]
    BY <1>3
  <2>. QED
    BY <1>4, <2>1, <2>2
<1>7. PICK counted : counted = IF disk.ended /\ disk.status = "running" THEN {n - 1, n} ELSE {n}
  OBVIOUS
<1>8. /\ \E k \in counted : disk.successful = CountIn(s, k, Successes)
      /\ \E k \in counted : disk.passes = CountIn(s, k, Clean)
      /\ \E k \in counted : disk.tokens = SumOf(Weight, s, k)
      /\ \A k \in counted : \A i \in 1..k : i \in 1..n
  <2>1. n \in counted /\ \A k \in counted : \A i \in 1..k : i \in 1..n
    BY <1>3, <1>7
  <2>2. CASE Totals(disk)
    BY <1>2, <2>1, <2>2 DEF Totals
  <2>3. CASE Interrupted(disk)
    <3>1. Lately(disk) = counted
      BY <1>2, <1>7, <2>3 DEF Interrupted, Lately
    <3>. QED
      BY <1>2, <2>1, <2>3, <3>1 DEF Interrupted
  <2>. QED
    BY <1>1, <2>2, <2>3 DEF EvaTold
<1>9. ASSUME NEW k \in counted
      PROVE  /\ CountIn(s, k, Successes) = Eva!Cardinality({i \in 1..k : s[i].status = "success"})
             /\ CountIn(s, k, Clean) = Eva!Cardinality({i \in 1..k : s[i].status = "success" /\ ~s[i].errors})
  <2>1. \A S : Eva!Cardinality(S) = Cardinality(S)
    BY Zenon DEF Eva!Cardinality, Cardinality, Eva!IsFiniteSet, IsFiniteSet
  <2>2. \A i \in 1..k : s[i] \in Result
    BY <1>4, <1>8, <1>9
  <2>3. \A i \in 1..k : /\ s[i] \in Successes <=> s[i].status = "success"
                        /\ s[i] \in Clean <=> (s[i].status = "success" /\ ~s[i].errors)
    BY <2>2 DEF Successes, Clean
  <2>4. {i \in 1..k : s[i] \in Successes} = {i \in 1..k : s[i].status = "success"}
    BY <2>3
  <2>5. {i \in 1..k : s[i] \in Clean} = {i \in 1..k : s[i].status = "success" /\ ~s[i].errors}
    BY <2>3
  <2>. QED
    BY <2>1, <2>4, <2>5 DEF CountIn
<1>10. ASSUME NEW k \in counted
       PROVE  SumOf(Weight, s, k) = Eva!SumFunctionOnSet([i \in 1..k |-> Eva!Max({0, s[i].tokens})], 1..k)
  <2>1. \A f, S : Eva!SumFunctionOnSet(f, S) = SumFunctionOnSet(f, S)
    BY Zenon DEF Eva!SumFunctionOnSet, Eva!FoldFunctionOnSet, Eva!MapThenFoldSet,
                 SumFunctionOnSet, FoldFunctionOnSet, MapThenFoldSet
  <2>2. Eva!Max({0, Eva!Null}) = 0 /\ Eva!Max({0, 1}) = 1
    BY DEF Eva!Max, Eva!Null
  <2>3. \A i \in 1..k : Weight[s[i]] = Eva!Max({0, s[i].tokens})
    <3>1. ASSUME NEW i \in 1..k
          PROVE  Weight[s[i]] = Eva!Max({0, s[i].tokens})
      <4>1. PICK r \in Result : r = s[i]
        BY <1>4, <1>8, <1>10, <3>1
      <4>2. r.tokens \in {Eva!Null, 1} /\ Weight[r] = IF r.tokens = Eva!Null THEN 0 ELSE r.tokens
        BY DEF Result, Weight
      <4>3. CASE r.tokens = Eva!Null
        BY <2>2, <4>1, <4>2, <4>3
      <4>4. CASE r.tokens # Eva!Null
        BY <2>2, <4>1, <4>2, <4>4
      <4>. QED
        BY <4>3, <4>4
    <3>. QED
      BY <3>1
  <2>4. [i \in 1..k |-> Weight[s[i]]] = [i \in 1..k |-> Eva!Max({0, s[i].tokens})]
    BY <2>3
  <2>. QED
    BY <2>1, <2>4 DEF SumOf
<1>11. /\ \E k \in counted : disk.successful = Eva!Cardinality({i \in 1..k : s[i].status = "success"})
       /\ \E k \in counted : disk.passes = Eva!Cardinality({i \in 1..k : s[i].status = "success" /\ ~s[i].errors})
       /\ \E k \in counted : disk.tokens
             = Eva!SumFunctionOnSet([i \in 1..k |-> Eva!Max({0, s[i].tokens})], 1..k)
  <2>1. PICK k \in counted : disk.successful = CountIn(s, k, Successes)
    BY <1>8
  <2>2. PICK l \in counted : disk.passes = CountIn(s, l, Clean)
    BY <1>8
  <2>3. PICK j \in counted : disk.tokens = SumOf(Weight, s, j)
    BY <1>8
  <2>4. disk.successful = Eva!Cardinality({i \in 1..k : s[i].status = "success"})
    BY <1>9, <2>1
  <2>5. disk.passes = Eva!Cardinality({i \in 1..l : s[i].status = "success" /\ ~s[i].errors})
    BY <1>9, <2>2
  <2>6. disk.tokens = Eva!SumFunctionOnSet([i \in 1..j |-> Eva!Max({0, s[i].tokens})], 1..j)
    BY <1>10, <2>3
  <2>. QED
    BY <2>4, <2>5, <2>6
<1>12. /\ disk.attempted \in n..(n + 1) /\ disk.apiAttempts <= asked
       /\ disk.status = "completed" => n = Len(disk.selected) /\ disk.apiAttempts = asked
  BY <1>1, <1>2, <1>3 DEF EvaTold, Manifest
<1>. QED
  BY <1>2, <1>5, <1>6, <1>7, <1>11, <1>12 DEF Eva!RunTellsTheTruth

LEMMA EvaIsEarned ==
    ASSUME EvaInv, Eva!Verified
    PROVE  /\ \A n \in DOMAIN card.rows : \A d \in Dimension :
                 /\ card.rows[n].scores[d] \in IF Eva!Initial(KindOf[card.rows[n].case], FALSE)[d] = Eva!Open
                                               THEN {1, 2} ELSE {Eva!Initial(KindOf[card.rows[n].case], FALSE)[d]}
                 /\ d \in Critical => card.rows[n].scores[d] \in {2, Eva!NA}
           /\ \A n \in DOMAIN card.rows : card.rows[n].blockers = {}
           /\ ~forged => /\ disk.results = answers /\ disk.apiAttempts = asked
                         /\ {answers[n].case : n \in DOMAIN answers} = Case
                         /\ \A n \in DOMAIN answers : ~answers[n].errors /\ Eva!Blockers(answers[n]) = {}
<1>1. /\ card # Eva!NoFile /\ card.of = disk /\ disk.status = "completed"
      /\ Eva!Whole(disk.results) /\ Eva!Whole(card.rows) /\ Eva!AggregateHolds
      /\ \A n \in DOMAIN disk.results, m \in DOMAIN card.rows :
            disk.results[n].case = card.rows[m].case => Eva!RowVerified(disk.results[n], card.rows[m])
  BY DEF Eva!Verified
<1>2. IsCard(card) /\ answers \in Seq(Result)
  BY <1>1, EvaFiles DEF EvaTyped
<1>3. card.rows \in Seq(ScoredRow)
  BY <1>2 DEF IsCard
<1>4. PICK marks \in Seq(ScoredRow) : marks = card.rows
  BY <1>3
<1>5. {disk.results[n].case : n \in DOMAIN disk.results} = Case /\ {marks[n].case : n \in DOMAIN marks} = Case
  BY <1>1, <1>4 DEF Eva!Whole, Eva!CaseOf, Eva!ToSet
<1>6. ASSUME NEW n \in DOMAIN disk.results, NEW m \in DOMAIN marks, disk.results[n].case = marks[m].case
      PROVE  Eva!RowVerified(disk.results[n], marks[m])
  BY <1>1, <1>4, <1>6
<1>7. \A n \in DOMAIN disk.results : ~disk.results[n].errors /\ Eva!Blockers(disk.results[n]) = {}
  <2>1. SUFFICES ASSUME NEW n \in DOMAIN disk.results
                 PROVE  ~disk.results[n].errors /\ Eva!Blockers(disk.results[n]) = {}
    OBVIOUS
  <2>2. PICK m \in DOMAIN marks : marks[m].case = disk.results[n].case
    BY <1>5, <2>1
  <2>3. Eva!RowVerified(disk.results[n], marks[m])
    BY <1>6, <2>1, <2>2
  <2>. QED
    BY <2>3 DEF Eva!RowVerified
<1>8. PICK cells : cells = Eva!Cells(marks)
  OBVIOUS
<1>9. /\ \A x \in cells : marks[x[1]].scores[x[2]] # Eva!Open
      /\ card.aggregate = Eva!Aggregate(marks) /\ Eva!Aggregate(marks).passed
  BY <1>1, <1>4, <1>8 DEF Eva!AggregateHolds
<1>10. /\ \A n \in DOMAIN marks : marks[n].blockers = {}
       /\ \A x \in cells : marks[x[1]].scores[x[2]] >= IF x[2] \in Critical THEN 2 ELSE 1
  BY <1>8, <1>9 DEF Eva!Aggregate
<1>11. ASSUME NEW n \in DOMAIN marks, NEW d \in Dimension
       PROVE  LET start == Eva!Initial(KindOf[marks[n].case], FALSE)[d]
              IN /\ marks[n].scores[d] \in IF start = Eva!Open THEN {1, 2} ELSE {start}
                 /\ d \in Critical => marks[n].scores[d] \in {2, Eva!NA}
  <2>1. PICK m \in DOMAIN disk.results : disk.results[m].case = marks[n].case
    BY <1>5, <1>11
  <2>2. Eva!RowVerified(disk.results[m], marks[n])
    BY <1>6, <1>11, <2>1
  <2>3. PICK start : start = Eva!Initial(KindOf[marks[n].case], FALSE)[d]
    OBVIOUS
  <2>4. PICK v : v = marks[n].scores[d]
    OBVIOUS
  <2>5. (start = Eva!NA <=> v = Eva!NA) /\ (start \in {0, 1, 2} => v = start)
    BY <1>11, <2>1, <2>2, <2>3, <2>4 DEF Eva!RowVerified
  <2>6. start \in 0..4 /\ v \in 0..4
    <3>1. Eva!Initial(KindOf[marks[n].case], FALSE) \in [Dimension -> 0..4]
      BY DEF Eva!Initial, Eva!NA, Eva!Open
    <3>2. marks[n] \in ScoredRow
      BY <1>4, <1>11
    <3>. QED
      BY <1>11, <2>3, <2>4, <3>1, <3>2 DEF ScoredRow
  <2>7. v # Eva!NA => v # Eva!Open /\ v >= IF d \in Critical THEN 2 ELSE 1
    <3>1. SUFFICES ASSUME v # Eva!NA
                   PROVE  <<n, d>> \in cells
      BY <1>9, <1>10, <2>4
    <3>. QED
      BY <1>8, <1>11, <2>4, <3>1 DEF Eva!Cells
  <2>8. v \in IF start = Eva!Open THEN {1, 2} ELSE {start}
    BY <2>5, <2>6, <2>7 DEF Eva!NA, Eva!Open
  <2>9. d \in Critical => v \in {2, Eva!NA}
    BY <2>6, <2>7 DEF Eva!NA, Eva!Open
  <2>. QED
    BY <2>3, <2>4, <2>8, <2>9
<1>12. ASSUME ~forged
       PROVE  /\ disk.results = answers /\ disk.apiAttempts = asked
              /\ {answers[n].case : n \in DOMAIN answers} = Case
              /\ \A n \in DOMAIN answers : ~answers[n].errors /\ Eva!Blockers(answers[n]) = {}
  <2>1. EvaTold(disk)
    BY <1>1, <1>2, <1>12 DEF IsCard
  <2>2. PICK s : s = disk.results
    OBVIOUS
  <2>3. /\ s \in Seq(Result) /\ Len(s) = Len(answers) /\ disk.apiAttempts = asked
        /\ \A i \in 1..Len(s) : s[i] = answers[i]
    BY <1>1, <2>1, <2>2 DEF EvaTold, Prefix, Manifest
  <2>4. s = answers
    BY <1>2, <2>3
  <2>. QED
    BY <1>5, <1>7, <2>2, <2>3, <2>4
<1>13. \A n \in DOMAIN card.rows : \A d \in Dimension :
          /\ card.rows[n].scores[d] \in IF Eva!Initial(KindOf[card.rows[n].case], FALSE)[d] = Eva!Open
                                         THEN {1, 2} ELSE {Eva!Initial(KindOf[card.rows[n].case], FALSE)[d]}
          /\ d \in Critical => card.rows[n].scores[d] \in {2, Eva!NA}
  BY <1>4, <1>11, Zenon
<1>14. \A n \in DOMAIN card.rows : card.rows[n].blockers = {}
  BY <1>4, <1>10
<1>. QED
  BY <1>12, <1>13, <1>14, Zenon

LEMMA EvaKept ==
    ASSUME EvaInv
    PROVE  Eva!EvaluationKept
<1>1. Eva!RunTellsTheTruth
  <2>1. CASE ~mended /\ disk # Eva!NoFile
    BY <2>1, EvaTellsTheTruth
  <2>2. CASE ~(~mended /\ disk # Eva!NoFile)
    BY <2>2 DEF Eva!RunTellsTheTruth
  <2>. QED
    BY <2>1, <2>2
<1>2. Eva!RequestsBounded
  BY DEF EvaInv, Before, Started, IsRun, MostRequests, Eva!RequestsBounded
<1>3. Eva!VerifiedIsEarned
  <2>1. CASE Eva!Verified
    BY <2>1, EvaIsEarned DEF Eva!VerifiedIsEarned
  <2>2. CASE ~Eva!Verified
    BY <2>2, Zenon DEF Eva!VerifiedIsEarned
  <2>. QED
    BY <2>1, <2>2
<1>. QED
  BY <1>1, <1>2, <1>3 DEF Eva!EvaluationKept

LEMMA EvaStays ==
    ASSUME EvaInv, UNCHANGED Eva!vars
    PROVE  EvaInv'
<1>1. /\ run' = run /\ disk' = disk /\ asked' = asked /\ answers' = answers /\ card' = card
      /\ mended' = mended /\ forged' = forged
  BY DEF Eva!vars
<1>2. CASE Before
  BY <1>1, <1>2 DEF EvaInv, EvaTyped, Before, Eva!NoFile
<1>3. CASE Started
  <2>1. PICK r, m, d, c : r = run /\ m = run.man /\ d = disk /\ c = card
    OBVIOUS
  <2>2. EvaTold(m)' /\ FileKept(d)' /\ CardKept(c)'
    <3>1. EvaTold(m) /\ FileKept(d) /\ CardKept(c)
      BY <1>3, <2>1 DEF Started, IsRun
    <3>. QED
      BY <1>1, <3>1, ToldStays, EvaFileStays, EvaCardStays
  <2>3. IsRun(r)'
    <3>1. Going(r) => Going(r)'
      BY <1>1 DEF Going, Totals
    <3>. QED
      BY <1>1, <1>3, <2>1, <2>2, <3>1 DEF Started, IsRun
  <2>. QED
    BY <1>1, <1>3, <2>1, <2>2, <2>3 DEF EvaInv, EvaTyped, Started, Eva!NoFile
<1>. QED
  BY <1>2, <1>3 DEF EvaInv

LEMMA EvaNext ==
    ASSUME EvaSettings, EvaInv, [Eva!Next]_(Eva!vars)
    PROVE  EvaInv'
BY EvaStart, EvaNextCase, EvaCall, EvaInterrupt, EvaKill, EvaCreate, EvaFinalize, EvaEditRows, EvaEditCard,
   EvaDiscard, EvaEditRun, EvaStays DEF Eva!Next

\* Whenever the run of the evaluation dies, what it wrote is true and counts its requests; and a
\* scorecard that verifies was earned: whatever was edited by hand as far as its scores go, and as
\* far as the answers go unless the run was edited before its hash was taken
\* (evals/reviews/run_groq_eval.py, evals/reviews/score_run.py).
THEOREM EvaluationHolds ==
    ASSUME EvaSettings
    PROVE  Eva!Spec => []EvaluationKept
<1>1. Eva!Init => EvaInv
  BY DEF Eva!Init, EvaInv, EvaTyped, Before
<1>2. EvaInv /\ [Eva!Next]_(Eva!vars) => EvaInv'
  BY EvaNext
<1>3. EvaInv => Eva!EvaluationKept
  BY EvaKept
<1>. QED
  BY <1>1, <1>2, <1>3, PTL DEF Eva!Spec, EvaluationKept

-----------------------------------------------------------------------------
(* Admission and Login.                                                        *)

\* The manual runs that operators ask for stay within the cooldown and the hourly limit and are
\* admitted once each (ops/manual_run.py), and no account and no address gets more attempts at a
\* password than the throttle allows (the login view and its failures).
THEOREM OperatorsHold ==
    ASSUME AdmSettings, LoginSettings
    PROVE  Adm!Spec /\ Log!Spec => []OperatorsKept
<1>1. Adm!Spec => []Adm!AdmissionKept
  BY AdmissionHolds
<1>2. Log!Spec => []Log!ThrottleKept
  BY ThrottleHolds
<1>. QED
  BY <1>1, <1>2, PTL DEF OperatorsKept
=============================================================================
