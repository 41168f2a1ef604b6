-------------------------------- MODULE Answers --------------------------------
(***************************************************************************)
(* What is given to the language models and what is kept of their answers, *)
(* side by side: these parts share no state.                               *)
(***************************************************************************)
EXTENDS Integers

CONSTANTS ReviewPlatform, Identity, ReviewWords, Side, Hashes, MaxSelected, MinPerSide,
          Video, Candidate, Name, Digits, Compound, Tracks, Text, MaxHeard, SpokenGap,
          Items, MaxReviews, MaxItems, Raw, Guard, PromptLimit, Completion, MaxWait,
          Transcripts, MaxWords, SegmentMin, SegmentMax, Overhead, PerSegment, MaxRequest, MaxOpinions

VARIABLES pool, hash, selected,
          name, found, heard, chosen,
          request, said, summary,
          stage, transcript, read, sentence, current, segments, kept, conclusion

Sel == INSTANCE ReviewSelection WITH Platform <- ReviewPlatform, Words <- ReviewWords
Cho == INSTANCE LetsPlayChoice WITH MaxListens <- MaxHeard
Ans == INSTANCE SummaryAnswer WITH result <- summary
Con == INSTANCE Conclusion WITH pc <- stage, result <- conclusion

-----------------------------------------------------------------------------
(* What each part keeps is said in its module. *)

\* The reviews that are given to the language model, and the video that is listened to.
SelectionKept == Sel!SelectionKept /\ Cho!LetsPlayChoiceKept

\* What is kept of the answers of the language models.
AnswersKept == Ans!SummaryAnswerKept /\ Con!ConclusionKept
=============================================================================
