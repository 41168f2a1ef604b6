------------------------------ MODULE Conclusion ------------------------------
(***************************************************************************)
(* What of a let's play's transcript the language model is sent, and what  *)
(* of its answer is kept (letsplays/conclusion.py, and chat of groq.py).   *)
(*                                                                         *)
(* A word of the transcript is its place in it.  Each round of the loops   *)
(* of segment and of prepare is a step.                                    *)
(***************************************************************************)
EXTENDS Integers, Sequences, FiniteSets, FiniteSetsExt, SequencesExt

CONSTANTS Transcripts,    \* records: how many words, and after which of them a sentence ends
          MaxWords,       \* MAX_TRANSCRIPT_WORDS
          SegmentMin,     \* SEGMENT_MIN_WORDS
          SegmentMax,     \* SEGMENT_MAX_WORDS
          Overhead,       \* what a request takes besides its segments, in tokens; a word takes one,
          PerSegment,     \* and so does the number of a segment; and the guess of 30 for a segment
          MaxRequest,     \* MAX_REQUEST_TOKENS less the completion
          MaxOpinions,    \* three likes and three dislikes
          MaxWait         \* 86400, the longest Retry-After

VARIABLES pc,
          transcript,
          read,        \* the words up to this one are in a segment, in current or in sentence
          sentence,    \* what is left of the sentence at hand, a sequence of words
          current,     \* the segment that waits for more
          segments,    \* those that are done
          kept,        \* how many of them are left: parts, and then Prepared.segments
          result       \* what is stored, or the error

vars == <<pc, transcript, read, sentence, current, segments, kept, result>>

None    == 0
Nothing == <<>>

Init == /\ pc = "start" /\ transcript = Nothing /\ read = 0 /\ sentence = <<>> /\ current = <<>>
        /\ segments = <<>> /\ kept = 0 /\ result = Nothing

-----------------------------------------------------------------------------
(* segment, for the first MAX_TRANSCRIPT_WORDS words. *)

Begin == /\ pc = "start"
         /\ pc' = "segment" /\ transcript' \in Transcripts
         /\ UNCHANGED <<read, sentence, current, segments, kept, result>>

\* The n words that follow a place.
Words(place, n) == [i \in 1..n |-> place + i]

Limit == Min({transcript.length, MaxWords})
SentenceEnd == Min({Limit} \cup {n \in transcript.ends : n > read})
NextSentence ==
    /\ pc = "segment" /\ sentence = <<>> /\ read < Limit
    /\ sentence' = Words(read, SentenceEnd - read) /\ read' = SentenceEnd
    /\ UNCHANGED <<pc, transcript, current, segments, kept, result>>

NonEmpty(s) == IF s = <<>> THEN <<>> ELSE <<s>>

\* The inner loop: a piece of a sentence that is too long.
CutPiece ==
    /\ pc = "segment" /\ Len(sentence) > SegmentMax
    /\ segments' = segments \o NonEmpty(current) \o <<SubSeq(sentence, 1, SegmentMax)>>
    /\ current' = <<>> /\ sentence' = SubSeq(sentence, SegmentMax + 1, Len(sentence))
    /\ UNCHANGED <<pc, transcript, read, kept, result>>

\* The rest of the loop: what is too short waits for more.
Join ==
    /\ pc = "segment" /\ sentence # <<>> /\ Len(sentence) <= SegmentMax
    /\ LET flush  == current # <<>> /\ Len(current) + Len(sentence) > SegmentMax
           done   == IF flush THEN Append(segments, current) ELSE segments
           joined == IF flush THEN sentence ELSE current \o sentence
       IN IF Len(joined) >= SegmentMin THEN segments' = Append(done, joined) /\ current' = <<>>
                                       ELSE segments' = done /\ current' = joined
    /\ sentence' = <<>>
    /\ UNCHANGED <<pc, transcript, read, kept, result>>

Segmented ==
    /\ pc = "segment" /\ sentence = <<>> /\ read = Limit
    /\ segments' = segments \o NonEmpty(current) /\ current' = <<>>
    /\ kept' = Len(segments') /\ pc' = "prepare"
    /\ UNCHANGED <<transcript, read, sentence, result>>

-----------------------------------------------------------------------------
(* prepare *)

\* _measure, of the first n segments
Tokens(n) == Overhead + n + Cardinality(UNION {{m} \X DOMAIN segments[m] : m \in 1..n})

Dropped(excess) == Max({1, excess \div PerSegment})

Drop == /\ pc = "prepare" /\ kept > 0 /\ Tokens(kept) > MaxRequest
        /\ kept' = Max({0, kept - Dropped(Tokens(kept) - MaxRequest)})
        /\ UNCHANGED <<pc, transcript, read, sentence, current, segments, result>>

Prepared == /\ pc = "prepare" /\ kept > 0 /\ Tokens(kept) <= MaxRequest
            /\ pc' = "chat"
            /\ UNCHANGED <<transcript, read, sentence, current, segments, kept, result>>

Ends(outcome) == /\ pc' = "done" /\ result' = outcome
                 /\ UNCHANGED <<transcript, read, sentence, current, segments, kept>>

DoesNotFit == /\ pc = "prepare" /\ kept = 0
              /\ Ends([error |-> "transcript_does_not_fit", wait |-> None])

-----------------------------------------------------------------------------
(* The answer. *)

\* chat: the wait of a refusal is kept within a day.
ChatFails == /\ pc = "chat"
             /\ \E asked \in {-1, None, MaxWait + 1} :
                   Ends([error |-> "api", wait |-> Max({None, Min({asked, MaxWait})})])

\* The segments that points name.
Lists == UNION {[1..n -> 1..(kept + 1)] : n \in 0..(MaxOpinions + 1)}
\* "other": another status, or no answer of this form; sized: no point and no verdict is too long.
Answer == [status : {"sufficient", "insufficient", "other"}, verdict : {"empty", "fits"},
           sized : BOOLEAN, sponsored : BOOLEAN, likes : Lists, dislikes : Lists]

\* validate_output finds nothing.
Valid(answer) ==
    LET items == answer.likes \o answer.dislikes IN
    /\ answer.status # "other" /\ answer.sized
    /\ Len(answer.likes) <= MaxOpinions /\ Len(answer.dislikes) <= MaxOpinions
    /\ \A i \in DOMAIN items : items[i] \in 1..kept
    /\ \A i, j \in DOMAIN items : items[i] = items[j] => i = j
    /\ answer.status = "insufficient" => items = <<>> /\ answer.verdict = "empty" /\ ~answer.sponsored
    /\ answer.status = "sufficient" => items # <<>> /\ answer.verdict = "fits"

\* opinions: the quotes, likes first
Opinions(answer) == LET items == answer.likes \o answer.dislikes IN
                    [i \in DOMAIN items |-> segments[items[i]]]

Conclude == /\ pc = "chat"
            /\ \E answer \in Answer :
                  Ends(IF Valid(answer) THEN [status |-> answer.status, quotes |-> Opinions(answer)]
                                        ELSE [error |-> "malformed_conclusion", wait |-> None])

Next == \/ Begin \/ NextSentence \/ CutPiece \/ Join \/ Segmented
        \/ Drop \/ Prepared \/ DoesNotFit \/ ChatFails \/ Conclude

Spec == Init /\ [][Next]_vars

-----------------------------------------------------------------------------
(* Properties. *)

\* The place of the last word of a segment.
End(n) == IF n = 0 THEN 0 ELSE Last(segments[n])

\* The language model is sent the beginning of the transcript, word by word, in segments that are
\* short enough to quote; and as much of it as the budget has room for, where no segment takes
\* more than PerSegment tokens: nothing is sent only when not even the first segment fits.
BeginningIsSent ==
    pc \in {"chat", "done"} =>
        /\ \A n \in 1..kept : /\ Len(segments[n]) \in 1..SegmentMax
                              /\ segments[n] = Words(End(n - 1), Len(segments[n]))
        /\ End(kept) <= Limit
        /\ kept > 0 => Tokens(kept) <= MaxRequest
        /\ SegmentMax < PerSegment /\ End(kept) < Limit =>
              Tokens(kept) + Min({SegmentMax, Limit - End(kept)}) + 1 > MaxRequest

\* What is quoted was said in the transcript, in one piece, and nothing is quoted twice;
\* a conclusion has an opinion, and "insufficient" has none.
QuotesWereHeard ==
    pc = "done" /\ "quotes" \in DOMAIN result =>
        /\ \A i \in DOMAIN result.quotes : \E place \in 0..transcript.length :
              LET quote == result.quotes[i] IN
              quote = Words(place, Len(quote)) /\ place + Len(quote) <= transcript.length
        /\ \A i, j \in DOMAIN result.quotes : result.quotes[i] = result.quotes[j] => i = j
        /\ result.status = "sufficient" <=> result.quotes # <<>>

ConclusionKept == BeginningIsSent /\ QuotesWereHeard
=============================================================================
