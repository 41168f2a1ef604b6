----------------------------- MODULE Similarity -----------------------------
(***************************************************************************)
(* The policy text-hybrid (similarity/text.py): which games are similar,   *)
(* and what the page of a game shows of it (catalog/queries.py).           *)
(*                                                                         *)
(* The arithmetic of the scores is left out: how much two games are alike  *)
(* by their labels, and by their descriptions, is an input.                *)
(***************************************************************************)
EXTENDS Integers, FiniteSets

CONSTANTS Game,        \* numbers: the order of ids
          Genre,
          Score,       \* fused scores, numbers
          GenreBonus,  \* GENRE_BONUS
          MinScore,    \* MIN_FUSED_SCORE
          MaxResults   \* MAX_RESULTS

VARIABLES input,     \* what refresh gives to rank
          result,    \* what rank returned
          deleted    \* games gone from the catalogue since then

vars == <<input, result, deleted>>

None == -1      \* minus infinity
Nothing == <<>>
Pairs(G) == {x \in G \X G : x[1] # x[2]}
\* The pairs that rank compares by label: the rows of the games that have no described peer.
Labelled(described) == {x \in Pairs(Game) : x[1] \notin described \/ described = {x[1]}}

Init == input = Nothing /\ result = Nothing /\ deleted = {}

\* The games whose description is usable, the genre of each, and for each the fused scores of
\* the others.
Given == /\ input = Nothing
         /\ \E described \in SUBSET Game :
               input' \in [described : {described}, genre : [Game -> Genre],
                           byLabel : [Labelled(described) -> Score], byText : [Pairs(described) -> Score]]
         /\ UNCHANGED <<result, deleted>>

\* A lone described game has no described peer, and is ranked by its label.
Described == IF Cardinality(input.described) < 2 THEN {} ELSE input.described

Bonus(g, h) == IF input.genre[g] = input.genre[h] THEN GenreBonus ELSE 0

\* The matrix: rows by label, and the block of the described games by text.
Compared(g) == (IF g \in Described THEN Described ELSE Game) \ {g}
Fused(g, h) == IF h \notin Compared(g) THEN None
               ELSE Bonus(g, h) + IF g \in Described THEN input.byText[<<g, h>>] ELSE input.byLabel[<<g, h>>]

\* The order of a row, and the place of a game in it.
Before(g, h, k) == Fused(g, h) > Fused(g, k) \/ (Fused(g, h) = Fused(g, k) /\ h < k)
Place(g, h) == 1 + Cardinality({k \in Game : Before(g, k, h)})

\* The first MAX_RESULTS of the row, those that reach the least score.
Neighbors(g) ==
    LET kept == {h \in Game : Place(g, h) <= MaxResults /\ Fused(g, h) >= MinScore}
    IN [n \in {Place(g, h) : h \in kept} |->
          LET h == CHOOSE k \in kept : Place(g, k) = n
          IN [id |-> h, score |-> Fused(g, h), basis |-> IF g \in Described THEN "description" ELSE "title"]]

Rank == /\ input # Nothing /\ result = Nothing
        /\ result' = [g \in Game |-> IF Cardinality(Game) < 2 THEN <<>> ELSE Neighbors(g)]
        /\ UNCHANGED <<input, deleted>>

\* A game is deleted by hand; the rows that name it stay until the next rebuild.
Delete == /\ result # Nothing /\ deleted = {}
          /\ \E g \in Game : deleted' = {g}
          /\ UNCHANGED <<input, result>>

Next == Given \/ Rank \/ Delete

Spec == Init /\ [][Next]_vars

\* list_similar_games: the places of the row that are shown.
Shown(g) == {n \in DOMAIN result[g] : result[g][n].id \notin deleted \cup {g}}

-----------------------------------------------------------------------------
\* The page of a game shows the games most like it, the most alike first and of equals the older:
\* a described game is compared by description with the described games, if there is another, and
\* every other game by title with all games.  Each one shown reaches the least score, and one that
\* is not shown is gone, or falls short of the least score or of all that were found.
SimilarAreShown ==
    result # Nothing => \A g \in Game \ deleted :
        LET byDescription == g \in input.described /\ input.described # {g}
            peers == (IF byDescription THEN input.described ELSE Game) \ {g}
            Alike(h) == Bonus(g, h) + IF byDescription THEN input.byText[<<g, h>>] ELSE input.byLabel[<<g, h>>]
            row   == result[g]
            shown == {row[n].id : n \in Shown(g)}
            found == {row[n].id : n \in DOMAIN row}
        IN /\ shown \subseteq peers \ deleted
           /\ \A n \in Shown(g) : /\ Alike(row[n].id) >= MinScore
                                  /\ row[n].basis = IF byDescription THEN "description" ELSE "title"
           /\ \A m, n \in Shown(g) :
                 m < n => \/ Alike(row[m].id) > Alike(row[n].id)
                          \/ Alike(row[m].id) = Alike(row[n].id) /\ row[m].id < row[n].id
           /\ \A h \in peers \ (shown \cup deleted) :
                 \/ Alike(h) < MinScore
                 \/ Cardinality(found) = MaxResults /\ \A k \in shown : Alike(k) >= Alike(h)
=============================================================================
