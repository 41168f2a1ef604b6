--------------------------- MODULE ReviewSelection ---------------------------
(***************************************************************************)
(* Which reviews of a corpus the language model is given                   *)
(* (reviews/selection.py and the middle of build in reviews/corpus.py).    *)
(*                                                                         *)
(* Reviews of the platforms of one game come together; the same text by    *)
(* the same author is found on several.  Of a review the model keeps its   *)
(* platform, its identity there, its words and the side its score takes.   *)
(***************************************************************************)
EXTENDS Integers, FiniteSets, FiniteSetsExt

CONSTANTS Platform,        \* numbers, in the order of source_platform_id and of slug
          Identity,        \* identity_key, numbers in their order
          Words,           \* normalized author, date and text, numbers
          Side,            \* of "negative", "mixed", "positive" and "unscored"
          Hashes,          \* orders of _sort_key: each a function from selection keys to numbers
          MaxSelected,     \* MAX_SELECTED_REVIEWS
          MinPerSide       \* MIN_PER_SENTIMENT_SIDE

VARIABLES pool,      \* the reviews observed on the routes
          hash,      \* how _sort_key orders them
          selected   \* SelectionResult.selected, whose order is that of Before

vars == <<pool, hash, selected>>

Blank   == 0
Sided   == {"negative", "positive"}
Nothing == <<>>

Place  == Platform \X Identity
Absent == [words |-> -1]

Init == pool = Nothing /\ hash = Nothing /\ selected = Nothing

\* What the routes of the game brought.
Observed == /\ pool = Nothing
            /\ pool' \in [Place -> {Absent} \cup [words : Words \cup {Blank}, side : Side]]
            /\ hash' \in Hashes
            /\ UNCHANGED selected

-----------------------------------------------------------------------------
(* build: the records that are given to the selector. *)

Reviews(from) == {x \in Place : from[x] # Absent}

\* An identity met on one platform is the review's key; else the key has the platform in it.
\* The order of keys: plain ones come before qualified ones.
Plain == 0
Key(from, x) == IF \E y \in Reviews(from) : y # x /\ y[2] = x[2] THEN x ELSE <<Plain, x[2]>>
Smaller(j, k) == j[1] < k[1] \/ (j[1] = k[1] /\ j[2] < k[2])

\* _dedup_fingerprint is equal for equal words and score; the first review that has it, by
\* identity and platform, names the group.
Same(from, x) == {y \in Reviews(from) : from[y] = from[x]}

-----------------------------------------------------------------------------
(* select_reviews *)

\* Mutant of Eligible: a blank review may take a place.
EligibleBlank(from) == Reviews(from)
Eligible(from) == {x \in Reviews(from) : from[x].words # Blank}

\* _deduplicate: of each group the member with the smallest key.
Representatives(from) ==
    {x \in Eligible(from) : \A y \in Same(from, x) \ {x} : Smaller(Key(from, x), Key(from, y))}

\* _deterministic_order: sorted by hash within each platform, then in turns across platforms; each
\* with its number in the queue of its platform.
Turns(from) ==
    LET left == Representatives(from)
        Ahead(x) == {y \in left : y[1] = x[1] /\ hash[Key(from, y)] < hash[Key(from, x)]}
    IN {<<Cardinality(Ahead(x)), x>> : x \in left}
Before(t, u) == t[1] < u[1] \/ (t[1] = u[1] /\ t[2][1] < u[2][1])
First(T, n) == {t \in T : Cardinality({u \in T : Before(u, t)}) < n}

\* The first ones of each side are reserved, and the others fill up what is left.
Reserved(from, turns) ==
    UNION {First({t \in turns : from[t[2]].side = side}, MinPerSide) : side \in Sided}
Chosen(from) ==
    LET turns    == Turns(from)
        reserved == Reserved(from, turns)
        others   == First(turns \ reserved, Max({0, MaxSelected - Cardinality(reserved)}))
    IN {t[2] : t \in First(reserved \cup others, MaxSelected)}

Select == /\ pool # Nothing /\ selected = Nothing
          /\ selected' = [done |-> TRUE, reviews |-> Chosen(pool)]
          /\ UNCHANGED <<pool, hash>>

Next == Observed \/ Select

Spec == Init /\ [][Next]_vars

-----------------------------------------------------------------------------
(* Properties. *)

Different(X) == {pool[x] : x \in X}
OnSide(X, side) == {x \in X : pool[x].side = side}
Usable == {x \in Reviews(pool) : pool[x].words # Blank}

\* The language model is given reviews that say something, none of them twice, as many as there
\* are or may be; and each side of the opinions gets its reserved share, or all there is of it.
SelectionIsFair ==
    LET chosen == selected.reviews IN
    /\ chosen \subseteq Usable
    /\ \A x, y \in chosen : pool[x] = pool[y] => x = y
    /\ Cardinality(chosen) = Min({MaxSelected, Cardinality(Different(Usable))})
    /\ \A side \in Sided :
          Cardinality(OnSide(chosen, side))
             >= Min({MinPerSide, Cardinality(Different(OnSide(Usable, side)))})

\* No platform is crowded out: when one has more to give, another does not give two more than it,
\* but for the reviews of the two sides that were reserved.
PlatformsShare ==
    LET chosen == selected.reviews
        left   == Representatives(pool) \ chosen
        Of(p)  == {x \in chosen : x[1] = p}
    IN \A p, q \in Platform :
          (\E x \in left : x[1] = q) =>
          Cardinality({x \in Of(p) : pool[x].side \notin Sided}) <= Cardinality(Of(q)) + 1

\* An author who edits a text (of a review with an id of its own) does not change which reviews
\* are selected, as long as the text neither was nor becomes another's, and is not blank.
EditsDoNotSteer ==
    \A x \in Usable : Same(pool, x) = {x} =>
        Chosen([pool EXCEPT ![x].words = Max(Words) + 1]) = selected.reviews

SelectionKept == selected # Nothing => SelectionIsFair /\ PlatformsShare /\ EditsDoNotSteer
=============================================================================
