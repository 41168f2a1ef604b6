---------------------------- MODULE LetsPlayChoice ----------------------------
(***************************************************************************)
(* Which of the videos found for a game is chosen as its let's play        *)
(* (letsplays/selection.py, and facts and captions of youtube.py).         *)
(*                                                                         *)
(* LetsPlays has the worker around these calls, with its budgets, leases   *)
(* and retries; here every call is made once.  Words are numbers: those of *)
(* the game's name and others.                                             *)
(***************************************************************************)
EXTENDS Integers, Sequences, FiniteSets, FiniteSetsExt, SequencesExt

CONSTANTS Video,        \* numbers, in the order of video_id
          Candidate,    \* what a search may tell of a video
          Name,         \* name_words of the titles of games: sequences of words
          Digits,       \* the words that are numbers
          Compound,     \* <<first, second, word>>: two words that make up a word
          Tracks,       \* sequences of caption tracks that a video may have
          Text,         \* what may be spoken at its start: sequences of words
          MaxListens,   \* MAX_LISTENS
          SpokenGap     \* SPOKEN_GAP

VARIABLES name,     \* of the game
          found,    \* the candidates
          heard,    \* Check of each video that was listened to, and what it was (history)
          chosen    \* Choice.video_id

vars == <<name, found, heard, chosen>>

None    == 0
Nothing == <<>>

Init == name = Nothing /\ found = Nothing /\ heard = <<>> /\ chosen = None

-----------------------------------------------------------------------------
(* The search: shortlist. *)

\* "none" or no broadcast, not short, no excluded word in the title, English or undeclared.
WorthListening == {v \in Video : found[v].views # None /\ found[v].metadata = "fits"}
Above(v, w) == found[v].views > found[w].views \/ (found[v].views = found[w].views /\ v < w)
Place(v) == 1 + Cardinality({w \in WorthListening : Above(w, v)})
Shortlisted(n) == CHOOSE v \in WorthListening : Place(v) = n

Search == /\ found = Nothing
          /\ name' \in Name /\ found' \in [Video -> Candidate]
          /\ UNCHANGED <<heard, chosen>>

-----------------------------------------------------------------------------
(* What is heard. *)

\* captions: a generated track of the spoken language, else a manual one; any generated one only
\* when the language is not known.
Generated(tracks) == {i \in DOMAIN tracks : tracks[i].generated}
Picks(tracks, wanted) ==
    LET spoken == {i \in DOMAIN tracks : tracks[i].language = wanted}
        same   == spoken \cap Generated(tracks)
    IN IF wanted = "unknown" THEN Generated(tracks) ELSE IF same # {} THEN same ELSE spoken
Pick(tracks, wanted) == tracks[Min(Picks(tracks, wanted))]

\* facts: the language of the original stream, where YouTube says it.
FactsLanguage(spoken) == {"unknown", spoken}
\* The language of the captions, else the one that Whisper hears in the original audio; there may
\* be no audio, and then the video is unavailable.
Languages(tracks, wanted, spoken) ==
    IF Picks(tracks, wanted) # {} THEN {Pick(tracks, wanted).language} ELSE {spoken, "none"}

-----------------------------------------------------------------------------
(* about_this_game *)

IsDigit(w) == w \in Digits
\* Where the window after a place holds a word.
NextIn(text, w, at) == {p \in (at + 1)..Min({Len(text), at + 1 + SpokenGap}) : text[p] = w}

\* The first place in each window is taken, and no other is tried.
Follows(text, place) ==
    /\ text[place[1]] = name[1]
    /\ \A n \in 2..Len(name) : LET window == NextIn(text, name[n], place[n - 1]) IN
                              window # {} /\ place[n] = Min(window)
SpeechNamesGame(text) == name # <<>> /\ \E place \in [DOMAIN name -> DOMAIN text] : Follows(text, place)
\* Two words that are spoken one after the other may make up a word of the name.
SpeechTouchesName(text) ==
    LET pairs == {<<text[i], text[i + 1]>> : i \in 1..(Len(text) - 1)}
        words == ToSet(text) \cup {c[3] : c \in {c \in Compound : <<c[1], c[2]>> \in pairs}}
    IN \E n \in DOMAIN name : ~IsDigit(name[n]) /\ name[n] \in words
AboutThisGame(v, text) ==
    IF found[v].titled THEN SpeechTouchesName(text) ELSE SpeechNamesGame(text)

\* choose, for one candidate as the worker calls it
Decision(v, language, fast, text) ==
    IF language = "none" THEN "unavailable"
    ELSE IF language # "en" THEN "not_english"
    ELSE IF ~fast THEN "too_little_speech"
    ELSE IF ~AboutThisGame(v, text) THEN "other_game" ELSE "accepted"

\* speech_names_game as its comment puts it: some choice of places will do.
InOrder(text) ==
    name # <<>> /\ \E p \in [DOMAIN name -> DOMAIN text] :
        /\ \A n \in DOMAIN name : text[p[n]] = name[n]
        /\ \A n \in 2..Len(name) : p[n] - p[n - 1] \in 1..(SpokenGap + 1)
\* speech_touches_name likewise: at some place a word of the name is spoken, in one or in two.
Touched(text) ==
    \E n \in DOMAIN name, i \in DOMAIN text :
        /\ name[n] \notin Digits
        /\ text[i] = name[n] \/ (i < Len(text) /\ <<text[i], text[i + 1], name[n]>> \in Compound)
AsMeant(v, text) == IF found[v].titled THEN Touched(text) ELSE InOrder(text)

Listening == /\ found # Nothing /\ chosen = None
             /\ Len(heard) < Min({MaxListens, Cardinality(WorthListening)})
Heard(language, fast, text, spoken, wanted) ==
    LET v == Shortlisted(Len(heard) + 1) d == Decision(v, language, fast, text) IN
    /\ heard' = Append(heard, [video |-> v, decision |-> d, fits |-> fast /\ AsMeant(v, text),
                               spoken |-> spoken, wanted |-> wanted])
    /\ chosen' = IF d = "accepted" THEN v ELSE None
    /\ UNCHANGED <<name, found>>

\* The videos of the shortlist are heard in turn.
Listen == /\ Listening
          /\ \/ \E text \in Text : Heard("en", TRUE, text, "en", "en")
             \/ \E tracks \in Tracks, spoken \in {"en", "fr"}, fast \in BOOLEAN, text \in {name, <<>>} :
                \E wanted \in FactsLanguage(spoken) : \E language \in Languages(tracks, wanted, spoken) :
                   Heard(language, fast, text, spoken, wanted)

Next == Search \/ Listen

Spec == Init /\ [][Next]_vars

-----------------------------------------------------------------------------
(* Properties. *)

\* The videos are heard by their views, and the one that is chosen is the first that would do: it
\* does, and those before it do not.  (A speech that names a game of three words or more may be
\* missed: the first place of a word is taken even when only a later one leads on.)
TheMostViewedIsChosen ==
    \A n \in DOMAIN heard :
        /\ heard[n].video \in WorthListening
        /\ \A v \in WorthListening : Above(v, heard[n].video) <=> \E m \in 1..(n - 1) : heard[m].video = v
        /\ heard[n].decision = "accepted" <=> (heard[n].video = chosen /\ n = Len(heard))
        /\ heard[n].decision = "accepted" => heard[n].fits
        /\ heard[n].decision = "other_game" /\ Len(name) <= 2 => ~heard[n].fits

\* A dub does not pass for English where YouTube says what is spoken.
DubsAreNotHeard ==
    \A n \in DOMAIN heard : heard[n].wanted # "unknown" /\ heard[n].decision = "accepted" => heard[n].spoken = "en"

LetsPlayChoiceKept == TheMostViewedIsChosen /\ DubsAreNotHeard
=============================================================================
