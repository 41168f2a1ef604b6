---------------------------- MODULE SimilarIndex ----------------------------
(***************************************************************************)
(* The upkeep of the similar-games index (catalog/similarity_index.py).    *)
(*                                                                         *)
(* The maintainer of the worker reads the catalogue, embeds texts that     *)
(* have no current embedding, and once none is pending recomputes the      *)
(* neighbours of every game.  Games are saved meanwhile; a signature of    *)
(* the catalogue spares it the work when nothing seems to have changed.    *)
(*                                                                         *)
(* Time is relative; saves of games are numbered in the order of their     *)
(* updated_at, which may not be the order of their commits.                *)
(***************************************************************************)
EXTENDS Integers, Sequences, FiniteSets, FiniteSetsExt, SequencesExt

CONSTANTS Game,        \* numbers, in the order of their ids
          Content,     \* what a game may say: [label, description], description 0 if unusable
          EmbedBatch,  \* EMBED_BATCH
          Interval,    \* MAINTENANCE_INTERVAL_SECONDS
          Backoff,     \* the delay after a failure: 10 intervals in the code
          FullCheck,   \* FULL_CHECK_SECONDS
          MaxSaves, MaxFaults   \* bounds

VARIABLES catalogue,   \* Game: what it says, and its updated_at
          open,        \* a save whose transaction is open
          saves,       \* saves so far
          embedding,   \* GameEmbedding: the text each was made from
          neighbors,   \* GameNeighbors: inputs, the game's own text; seen: those of all
          mt,          \* the Maintainer and its local variables
          quiet,       \* ticks since the last commit, fault or restart, at most Settles (history)
          faults

vars == <<catalogue, open, saves, embedding, neighbors, mt, quiet, faults>>

TextKind   == {"description", "label"}
NoText == 0
Absent == [label |-> NoText, description |-> NoText]
NoSave == [game |-> 0]
\* Within this time (no less than Backoff) the index has caught up with the catalogue.
Settles == FullCheck + Interval

Fresh == [pc |-> "idle", next |-> 0, settled |-> <<>>, age |-> 0,
          signature |-> <<>>, read |-> <<>>, embedded |-> 0]

Init == /\ catalogue = [g \in Game |-> [says |-> Absent, at |-> 0]]
        /\ open = NoSave /\ saves = 0
        /\ embedding = [x \in Game \X TextKind |-> NoText]
        /\ neighbors = [g \in Game |-> [inputs |-> Absent, seen |-> <<>>]]
        /\ mt = Fresh /\ quiet = 0 /\ faults = 0

Says == [g \in Game |-> catalogue[g].says]

-----------------------------------------------------------------------------
(* Games are saved, in transactions of which one may take its time.         *)

NewSave(g, says) == [game |-> g, says |-> says, at |-> saves + 1]
Committed(save) == /\ catalogue' = [catalogue EXCEPT ![save.game] = [says |-> save.says, at |-> save.at]]
                   /\ quiet' = 0

SaveGame == /\ saves < MaxSaves
            /\ \E g \in Game \ {open.game}, says \in Content : Committed(NewSave(g, says))
            /\ saves' = saves + 1
            /\ UNCHANGED <<open, embedding, neighbors, mt, faults>>

OpenSave == /\ saves < MaxSaves /\ open = NoSave
            /\ \E g \in Game, says \in Content : open' = NewSave(g, says)
            /\ saves' = saves + 1
            /\ UNCHANGED <<catalogue, embedding, neighbors, mt, quiet, faults>>

CommitSave == /\ open # NoSave
              /\ Committed(open)
              /\ open' = NoSave
              /\ UNCHANGED <<saves, embedding, neighbors, mt, faults>>

World == UNCHANGED <<catalogue, open, saves>>
Calm  == UNCHANGED <<quiet, faults>>
Fault == faults < MaxFaults /\ faults' = faults + 1 /\ quiet' = 0

-----------------------------------------------------------------------------
(* Maintainer.run_if_due *)

\* _catalogue_signature: the count of games, their latest updated_at, the count of neighbours.
Signature == <<Cardinality({g \in Game : Says[g] # Absent}), Max({catalogue[g].at : g \in Game}),
               Cardinality({g \in Game : neighbors[g].inputs # Absent})>>

Due == mt.pc = "idle" /\ mt.next = 0

\* Mutant of Spared: a catalogue that looks settled is never checked in full again.
SparedForGood == Signature = mt.settled
Spared == Signature = mt.settled /\ mt.age < FullCheck

Check == /\ Due
         /\ mt' = IF Spared THEN [mt EXCEPT !.next = Interval]
                  ELSE [mt EXCEPT !.pc = "signed", !.signature = Signature]
         /\ World /\ Calm /\ UNCHANGED <<embedding, neighbors>>

\* _current_texts
ReadCatalogue == /\ mt.pc = "signed"
                 /\ mt' = [mt EXCEPT !.pc = "read", !.read = Says]
                 /\ World /\ Calm /\ UNCHANGED <<embedding, neighbors>>

\* _pending: the texts of the games that were read, in the order of ids and kinds.
Texts == {x \in Game \X TextKind : mt.read[x[1]][x[2]] # NoText}
Before(x, y) == x[1] < y[1] \/ (x[1] = y[1] /\ x[2] = "description" /\ y[2] = "label")
Pending(saved) == SetToSortSeq({x \in Texts : saved[x] # mt.read[x[1]][x[2]]}, Before)

\* embed_pending: a batch, saved in one transaction.
Embed == /\ mt.pc = "read"
         /\ LET todo == Pending(embedding)
                batch == ToSet(SubSeq(todo, 1, Min({EmbedBatch, Len(todo)})))
            IN /\ embedding' = [x \in DOMAIN embedding |->
                                  IF x \in batch THEN mt.read[x[1]][x[2]] ELSE embedding[x]]
               /\ mt' = [mt EXCEPT !.pc = "embedded", !.embedded = Cardinality(batch)]
         /\ World /\ Calm /\ UNCHANGED neighbors

\* neighbors_stale, by the fingerprint of each game.
NeighborsStale == \E g \in Game : mt.read[g] # Absent /\ neighbors[g].inputs # mt.read[g]

\* rebuild_neighbors, of every game that was read: all their texts have current embeddings.
Rebuilt == [g \in Game |-> IF mt.read[g] = Absent THEN neighbors[g]
                           ELSE [inputs |-> mt.read[g], seen |-> mt.read]]

\* The end of refresh and what run_if_due makes of its result.
Finish ==
    /\ mt.pc = "embedded"
    /\ LET pending == mt.embedded > 0 /\ Len(Pending(embedding)) > 0
           rebuilds == ~pending /\ (mt.embedded > 0 \/ NeighborsStale)
           worked == mt.embedded > 0 \/ rebuilds
       IN /\ neighbors' = (IF rebuilds THEN Rebuilt ELSE neighbors)
          /\ mt' = [Fresh EXCEPT !.next = IF pending THEN 0 ELSE Interval,
                                 !.settled = IF worked THEN <<>> ELSE mt.signature]
    /\ World /\ Calm /\ UNCHANGED embedding

\* A query, the model or its loading fails: the exception is logged, the rest is for later.
Fails == /\ mt.pc # "idle" \/ Due
         /\ Fault
         /\ mt' = [Fresh EXCEPT !.next = Backoff, !.settled = mt.settled, !.age = mt.age]
         /\ World /\ UNCHANGED <<embedding, neighbors>>

Restart == /\ Fault
           /\ mt' = Fresh
           /\ World /\ UNCHANGED <<embedding, neighbors>>

Up(n, most) == IF n = most THEN most ELSE n + 1

\* The worker comes back to the maintainer every tick, or is held up.
Tick == /\ mt.pc = "idle"
        /\ IF Due THEN Fault ELSE quiet' = Up(quiet, Settles) /\ UNCHANGED faults
        /\ mt' = [mt EXCEPT !.next = IF @ = 0 THEN 0 ELSE @ - 1,
                            !.age = IF mt.settled = <<>> THEN 0 ELSE Up(@, FullCheck)]
        /\ World /\ UNCHANGED <<embedding, neighbors>>

Next == \/ SaveGame \/ OpenSave \/ CommitSave
        \/ Check \/ ReadCatalogue \/ Embed \/ Finish \/ Fails \/ Restart
        \/ Tick

Spec == Init /\ [][Next]_vars

-----------------------------------------------------------------------------
\* A while after the last commit and the last failure, however they fell between the steps of
\* the maintainer and in whatever order the saves were committed, every game has the neighbours
\* that the present texts of all games give it.
IndexCatchesUp ==
    quiet = Settles => \A g \in Game : Says[g] # Absent =>
                          neighbors[g] = [inputs |-> Says[g], seen |-> Says]
=============================================================================
