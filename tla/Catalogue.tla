------------------------------ MODULE Catalogue ------------------------------
(***************************************************************************)
(* The catalogue: games, their locators and their platforms, merged from   *)
(* what Metacritic says of them (catalog/ingest.py, catalog/models.py),    *)
(* and the pages that list it (catalog/queries.py).                        *)
(*                                                                         *)
(* Several processes ingest at once: a scheduled run, and the commands     *)
(* that ingest one game.  A transaction reads the game and its locator     *)
(* before it writes, and so locks, the game; the platforms are read under  *)
(* that lock.  A SourceFetch is told by what it supplied.                  *)
(***************************************************************************)
EXTENDS Integers, FiniteSets, FiniteSetsExt

CONSTANTS Writer,
          Game,        \* source_game_ids, numbers: also the order of titles and of ids
          Locator,
          Platform,    \* source_platform_ids
          Related,     \* source_game_platform_ids
          Score,       \* numbers
          PageSize

VARIABLES games,    \* Game; genres and a score stand for every field that is merged
          alias,    \* GameAlias: the game a locator is bound to
          rows,     \* GamePlatform, by game and platform; from: what last_changed_fetch supplied
          wr        \* local variables of each writer

vars == <<games, alias, rows, wr>>

Null == 0        \* no value
Nothing == -1    \* no fetch, or a fetch that says nothing about this field
Absent == [game |-> "none"]
Idle == [pc |-> "idle"]

Init == /\ games = [g \in Game |-> Absent]
        /\ alias = [l \in Locator |-> Null]
        /\ rows = [x \in Game \X Platform |-> Absent]
        /\ wr = [w \in Writer |-> Idle]

\* _merge_field
Merge(current, new) == IF new = Null THEN current ELSE new

-----------------------------------------------------------------------------
(* fetch_and_prepare.  What is known of a platform when the game is         *)
(* applied: the userscore of the lead platform is in the detail page, that  *)
(* of another in a page of its own, which may fail or be invalid, or which  *)
(* the detail page does not name.                                           *)

Entry == [related : Related, metascore : Score \cup {Null}]
\* told: a fetch that succeeded is its source, in which it may be absent.
Userscore == [told : {TRUE}, value : Score \cup {Null}]
             \cup [told : {FALSE}, value : {Null}]

-----------------------------------------------------------------------------
(* The beginning of a transaction: _resolve_game up to its first write.     *)

Begin(w) ==
    /\ wr[w] = Idle
    /\ \E g \in Game, l \in Locator :
          wr' = [wr EXCEPT ![w] = [pc |-> "read", game |-> g, locator |-> l, bound |-> alias[l],
                                   saved |-> IF games[g] = Absent THEN Absent ELSE
                                             [genres |-> games[g].genres, from |-> games[g].from]]]
    /\ UNCHANGED <<games, alias, rows>>

\* IdentityConflict, a unique constraint that another writer was quicker to meet, or any later
\* conflict: nothing is written.
RollBack(w) == wr' = [wr EXCEPT ![w] = Idle] /\ UNCHANGED <<games, alias, rows>>

IdentityConflict(w) == wr[w].bound \notin {Null, wr[w].game}
\* A game or a locator that was absent is inserted.
InsertFails(w) == \/ wr[w].saved = Absent /\ games[wr[w].game] # Absent
                  \/ wr[w].bound = Null /\ alias[wr[w].locator] # Null

\* The game as _resolve_game writes it: every column, those it does not change as it read them.
Resolved(w, genres, source) ==
    LET old == IF wr[w].saved = Absent THEN [genres |-> Null, from |-> Nothing] ELSE wr[w].saved
    IN [game |-> "known", locator |-> wr[w].locator, genres |-> Merge(old.genres, genres),
        from |-> IF genres # Null THEN source ELSE old.from]

SaveGame(w, genres, source) ==
    /\ games' = [games EXCEPT ![wr[w].game] = Resolved(w, genres, source)]
    /\ alias' = [alias EXCEPT ![wr[w].locator] = wr[w].game]

\* resolve_game_identity, for a game of a listing.
Discover(w) ==
    /\ wr[w].pc = "read"
    /\ IF IdentityConflict(w) \/ InsertFails(w) THEN RollBack(w)
       ELSE /\ SaveGame(w, Null, Nothing)
            /\ wr' = [wr EXCEPT ![w] = Idle]
            /\ UNCHANGED rows

-----------------------------------------------------------------------------
(* apply_game_dto *)

\* The platforms of a page are written in its order, each judged by the rows as those before it
\* (earlier) have left them.
PlatformConflict(g, p, entry, earlier) ==
    \E x \in DOMAIN rows \ ({<<g, p>>} \cup ({g} \X earlier)) :
       rows[x] # Absent /\ rows[x].related = entry.related

\* Mutant of UserscoreFrom: the fetch of the platform's page is its source whenever it succeeded.
UserscoreFromSuccess(old, value, user) ==
    IF user.told THEN user.value ELSE old.userFrom
\* Where the userscore that is kept comes from.
UserscoreFrom(old, value, user) ==
    IF (user.value # Null \/ value = Null) /\ user.told THEN user.value ELSE old.userFrom

\* _upsert_platform, and the sources of its scores.
Upserted(g, p, entry, user) ==
    LET old == IF rows[<<g, p>>] # Absent THEN rows[<<g, p>>]
               ELSE [metascore |-> Null, metaFrom |-> Nothing, userscore |-> Null, userFrom |-> Nothing]
        meta == Merge(old.metascore, entry.metascore)
        value == Merge(old.userscore, user.value)
    IN [game |-> "known", related |-> entry.related,
        metascore |-> meta,
        metaFrom |-> IF entry.metascore # Null \/ meta = Null THEN entry.metascore ELSE old.metaFrom,
        userscore |-> value,
        userFrom |-> UserscoreFrom(old, value, user)]

\* validate_game: no two platforms of a page have the same id.  (So a platform cannot clash with one
\* that the same page has just written.)
Apply(w) ==
    LET g == wr[w].game IN
    /\ wr[w].pc = "read"
    /\ \E listed \in (SUBSET Platform) \ {{}} : \E entries \in [listed -> Entry], users \in [listed -> Userscore],
                                               genres \in Score \cup {Null},
                                               place \in [listed -> 1..Cardinality(listed)] :
          /\ \A p, q \in listed : p # q => entries[p].related # entries[q].related /\ place[p] # place[q]
          /\ IF \/ IdentityConflict(w) \/ InsertFails(w)
                \/ \E p \in listed : PlatformConflict(g, p, entries[p], {q \in listed : place[q] < place[p]})
             THEN RollBack(w)
             ELSE /\ SaveGame(w, genres, genres)
                  /\ rows' = [x \in DOMAIN rows |->
                                IF x[1] = g /\ x[2] \in listed
                                THEN Upserted(g, x[2], entries[x[2]], users[x[2]]) ELSE rows[x]]
                  /\ wr' = [wr EXCEPT ![w] = Idle]

Next == \E w \in Writer : Begin(w) \/ Discover(w) \/ Apply(w)

Spec == Init /\ [][Next]_vars

-----------------------------------------------------------------------------
(* queries.py: the list of games, of one platform or of all.                *)

Known(p) == {g \in Game : \/ p = Nothing /\ games[g] # Absent
                          \/ p # Nothing /\ rows[<<g, p>>] # Absent}
\* _list_metascore: Null if no platform has one.
Metascore(g, p) == Max({Null} \cup {rows[<<g, q>>].metascore :
                                      q \in {q \in Platform : /\ p \in {q, Nothing}
                                                              /\ rows[<<g, q>>] # Absent}})
\* By score, those without one last; then by title and id.
Above(g, h, p) == \/ Metascore(g, p) > Metascore(h, p)
                  \/ Metascore(g, p) = Metascore(h, p) /\ g < h
Place(g, p) == 1 + Cardinality({h \in Known(p) : Above(h, g, p)})

\* Paginator.get_page: one page at least; the last one for any number that is not a page's.
Listed(p) == Cardinality(Known(p))
NumPages(p) == Max({1, (Listed(p) + PageSize - 1) \div PageSize})
Page(p, n) == LET m    == IF n \in 1..NumPages(p) THEN n ELSE NumPages(p)
                  gone == (m - 1) * PageSize
              IN [i \in 1..Min({PageSize, Listed(p) - gone}) |->
                     CHOOSE g \in Known(p) : Place(g, p) = gone + i]

-----------------------------------------------------------------------------
(* Properties. *)

\* The source recorded for a value supplied that value, whatever fetches failed, said nothing or
\* came between; a value that is absent was absent from its source, or has none.
ValuesHaveSources ==
    LET Supplied(value, from) == value = IF from = Nothing THEN Null ELSE from IN
    /\ \A g \in Game : games[g] # Absent => Supplied(games[g].genres, games[g].from)
    /\ \A x \in DOMAIN rows : rows[x] # Absent => /\ Supplied(rows[x].metascore, rows[x].metaFrom)
                                                  /\ Supplied(rows[x].userscore, rows[x].userFrom)

\* A locator stays bound to the game it was bound to, the locator of a game is bound to it, and
\* an assertion of the source belongs to one platform of one game.
IdentitiesAreKept ==
    /\ \A g \in Game : games[g] # Absent => alias[games[g].locator] = g
    /\ \A x \in DOMAIN rows : rows[x] # Absent =>
          /\ games[x[1]] # Absent
          /\ \A y \in DOMAIN rows \ {x} : rows[y] # Absent => rows[y].related # rows[x].related

\* A score is never lost to a fetch without one, and a locator never changes hands.
NothingIsLost ==
    /\ \A x \in DOMAIN rows : rows[x] # Absent =>
          /\ rows'[x] # Absent
          /\ rows[x].metascore # Null => rows'[x].metascore # Null
          /\ rows[x].userscore # Null => rows'[x].userscore # Null
    /\ \A l \in Locator : alias[l] # Null => alias'[l] = alias[l]

\* Who turns the pages of a list that has games sees every game of it, in its order and so none
\* twice, and never an empty page.  (The list does not depend on what the writers have read.)
PagesPartition ==
    (\A w \in Writer : wr[w] = Idle) => \A p \in Platform \cup {Nothing} : Known(p) # {} =>
        LET Turned == {x \in (1..NumPages(p)) \X (1..PageSize) : x[2] \in DOMAIN Page(p, x[1])}
            Seen(x) == Page(p, x[1])[x[2]]
        IN /\ {Seen(x) : x \in Turned} = Known(p)
           /\ \A x, y \in Turned : x[1] < y[1] \/ (x[1] = y[1] /\ x[2] < y[2]) => Above(Seen(x), Seen(y), p)
           /\ \A n \in 1..(NumPages(p) + 1) : Page(p, n) # <<>>

CatalogueKept == /\ [](ValuesHaveSources /\ IdentitiesAreKept /\ PagesPartition)
                 /\ [][NothingIsLost]_vars
=============================================================================
