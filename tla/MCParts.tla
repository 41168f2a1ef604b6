------------------------------- MODULE MCParts -------------------------------
(***************************************************************************)
(* The parts of the program that share no state with each other, on small  *)
(* instances: each behaviour is one of one part, which "part" names, and   *)
(* the others stay as they began.                                          *)
(***************************************************************************)
EXTENDS LetsPlays, Upkeep, Operators, Answers, TLC

VARIABLE part

\* Workers differ in name only; the same names are those of posts, calls and writers.
Names == Permutations(Worker)

-----------------------------------------------------------------------------
(* The let's plays: an audio in each tick, and one Whisper call in two (by  *)
(* its units).  A search is stopped by a refusal of YouTube's only.         *)

NoLimit  == 9
UnitsOf  == [k \in Kind |-> IF k = "whisper" THEN 2 ELSE 1]
LimitsOf == [k \in Kind |->
               CASE k = "whisper" -> {[span |-> 2, calls |-> NoLimit, units |-> 3]}
                 [] k = "audio"   -> {[span |-> 1, calls |-> 1, units |-> NoLimit]}
                 [] OTHER         -> {}]
PauseOf  == [k \in Kind |-> 1]

(* The upkeep.  Two games may say the same, with or without a description.  *)

Saying(l, d) == [label |-> l, description |-> d]
GameTexts == {Saying(1, 0), Saying(2, 1)}
PauseList == <<1>>

(* What people use. *)

InputOfCorpus == [c \in [{1} -> 1..2] |-> c[1]]
KindOfCase    == <<"instruction_injection", "sparse">>

(* The answers: an order of the keys that is not theirs; videos without     *)
(* views, live, named for the game or not, where word 2 is a number; claims *)
(* that fit or do not; sentences that end here or there.                    *)

KeyOrders == {[k \in (0..2) \X (1..2) |-> (5 * (2 * k[1] + k[2])) % 7]}

Shown(n, what, titled) == [views |-> n, metadata |-> what, titled |-> titled]
Candidates == {Shown(2, "live", TRUE), Shown(2, "fits", FALSE), Shown(1, "fits", TRUE), Shown(0, "fits", TRUE)}
Titles     == {<<>>, <<1>>, <<1, 2>>, <<1, 2, 1>>}
Spoken     == [1..5 -> 0..2]
Compounds  == {<<0, 0, 1>>}
Track(generated, l) == [generated |-> generated, language |-> l]
TrackLists == {<<>>, <<Track(TRUE, "en"), Track(TRUE, "fr")>>, <<Track(FALSE, "en")>>, <<Track(TRUE, "en")>>}

Claim(size, review) == [claim |-> size, cites |-> review]
Claims == {Claim("fits", 1), Claim("fits", 2), Claim("long", 1)}

SpokenWords == {[length |-> n, ends |-> e \cap (1..n)] : n \in {0, 2, 9, 11}, e \in SUBSET {1, 4, 5, 8}}

-----------------------------------------------------------------------------
PartsInit ==
    /\ Init /\ Adm!Init /\ Log!Init /\ Obs!Init /\ Cat!Init /\ Ind!Init /\ Sim!Init /\ Gat!Init
    /\ Sel!Init /\ Eva!Init /\ Ans!Init /\ Con!Init /\ Cho!Init /\ Car!Init
    /\ part \in {"let's plays", "admission", "login", "observation", "catalogue", "index", "similarity",
                 "gateway", "selection", "evaluation", "summary", "conclusion", "choice", "cards"}

PartsNext ==
    /\ UNCHANGED part
    /\ \/ part = "let's plays" /\ Next
       \/ part = "admission"   /\ Adm!Next
       \/ part = "login"       /\ Log!Next
       \/ part = "observation" /\ Obs!Next
       \/ part = "catalogue"   /\ Cat!Next
       \/ part = "index"       /\ Ind!Next
       \/ part = "similarity"  /\ Sim!Next
       \/ part = "gateway"     /\ Gat!Next
       \/ part = "selection"   /\ Sel!Next
       \/ part = "evaluation"  /\ Eva!Next
       \/ part = "summary"     /\ Ans!Next
       \/ part = "conclusion"  /\ Con!Next
       \/ part = "choice"      /\ Cho!Next
       \/ part = "cards"       /\ Car!Next
    /\ part # "let's plays" => UNCHANGED vars
    /\ part # "admission"   => UNCHANGED <<clock, requests, lease, posts, served>>
    /\ part # "login"       => UNCHANGED <<failures, calls>>
    /\ part # "observation" => UNCHANGED <<row, process, unharmed, overlap, beatFaults>>
    /\ part # "catalogue"   => UNCHANGED <<games, alias, rows, wr>>
    /\ part # "index"       => UNCHANGED <<catalogue, open, saves, embedding, neighbors, mt, untouched, indexFaults>>
    /\ part # "similarity"  => UNCHANGED <<input, ranking, deleted>>
    /\ part # "gateway"     => UNCHANGED <<call, evidence, page, fetched>>
    /\ part # "selection"   => UNCHANGED <<pool, hash, selected>>
    /\ part # "evaluation"  => UNCHANGED <<run, disk, asked, answers, card, mended, forged, edits>>
    /\ part # "summary"     => UNCHANGED <<request, said, summary>>
    /\ part # "conclusion"  => UNCHANGED <<stage, transcript, read, sentence, current, segments, kept, conclusion>>
    /\ part # "choice"      => UNCHANGED <<name, found, heard, chosen>>
    /\ part # "cards"       => UNCHANGED <<day, jobs, head, contour, orders, summaries, play, conclusions, view, seen, steady, writes>>

PartsVars == <<part, vars, Adm!vars, Log!vars, Obs!vars, Cat!vars, Ind!vars, Sim!vars, Gat!vars,
               Sel!vars, Eva!vars, Ans!vars, Con!vars, Cho!vars, Car!vars>>

PartsSpec == PartsInit /\ [][PartsNext]_PartsVars
=============================================================================
