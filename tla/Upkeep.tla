-------------------------------- MODULE Upkeep --------------------------------
(***************************************************************************)
(* The parts that keep the catalogue and tell that the program lives, side *)
(* by side: they share no state.  A constant or a variable that another    *)
(* part has too goes by a name of its own here.                            *)
(***************************************************************************)
EXTENDS Integers

CONSTANTS Process, HeartbeatInterval, Stale, MaxHeartbeatFaults,
          Writer, CatalogueGame, Locator, Platform, Related, CatalogueScore, PageSize,
          IndexedGame, GameText, EmbedBatch, CheckInterval, FailurePause, FullCheck, MaxSaves,
          MaxIndexFaults,
          RankedGame, Genre, FusedScore, GenreBonus, MinScore, MaxResults,
          FetchAttempts, Pauses, RequestTimeout, ResponseDeadline, MaxOpening, MaxBody, ChunkReads, MaxEntries

VARIABLES row, process, unharmed, overlap, beatFaults,
          games, alias, rows, wr,
          catalogue, open, saves, embedding, neighbors, mt, untouched, indexFaults,
          input, ranking, deleted,
          call, evidence, page, fetched

Obs == INSTANCE Observation WITH
    Interval <- HeartbeatInterval, MaxFaults <- MaxHeartbeatFaults, quiet <- unharmed, faults <- beatFaults

Cat == INSTANCE Catalogue WITH Game <- CatalogueGame, Score <- CatalogueScore

Ind == INSTANCE SimilarIndex WITH
    Game <- IndexedGame, Content <- GameText, Interval <- CheckInterval, Backoff <- FailurePause,
    MaxFaults <- MaxIndexFaults, quiet <- untouched, faults <- indexFaults

Sim == INSTANCE Similarity WITH Game <- RankedGame, Score <- FusedScore, result <- ranking

Gat == INSTANCE Gateway WITH MaxAttempts <- FetchAttempts, Backoff <- Pauses, result <- fetched

-----------------------------------------------------------------------------
(* What each part keeps is said in its module. *)

\* The heartbeats tell which processes live.
ObservationKept == Obs!ObservationKept

\* The catalogue: identities, merged values, and the pages of its lists.
CatalogueKept == /\ [](Cat!ValuesHaveSources /\ Cat!IdentitiesAreKept /\ Cat!PagesPartition)
                 /\ [][Cat!NothingIsLost]_Cat!vars

\* The similar games: the index catches up, and what it ranks is what is shown.
SimilarKept == Ind!IndexCatchesUp /\ Sim!SimilarAreShown

\* A page of Metacritic is fetched and read whole, or not at all.
GatewayKept == Gat!GatewayKept
=============================================================================
