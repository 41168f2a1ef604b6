---------------------------- MODULE SummaryAnswer ----------------------------
(***************************************************************************)
(* One question to the language model of the summaries and what is made of *)
(* its answer (summaries/preflight.py, groq_adapter.py, contour.py).       *)
(*                                                                         *)
(* Reviews are sent under the ids 1..n.  The provider may answer anything; *)
(* what it said is kept apart in "said", to compare the result with it.    *)
(***************************************************************************)
EXTENDS Integers, Sequences, FiniteSets, SequencesExt

CONSTANTS Items,        \* what may stand in a list: records of a claim and the review it cites
          MaxReviews,   \* MAX_SELECTED_REVIEWS
          MaxItems,     \* five likes and five dislikes
          Raw,          \* sizes of a serialized request, in tokens
          Guard,        \* FRAMING_GUARD
          PromptLimit,  \* PROMPT_LIMIT
          Completion,   \* MAX_COMPLETION_TOKENS
          MaxWait       \* 86400, the longest Retry-After

VARIABLES request,   \* PreparedRequest, and how many reviews are in it
          said,      \* what the provider answered
          result     \* GroqCallResult, GroqApiError or PreflightError

vars == <<request, said, result>>

Nothing  == <<>>
NotAList == <<[claim |-> "not a list", cites |-> 0]>>
NoValue == -1

Init == request = Nothing /\ said = Nothing /\ result = Nothing

-----------------------------------------------------------------------------
(* preflight *)

\* measure
Measured(n, raw) == [reviews |-> n, guarded |-> raw + Guard, reserved |-> raw + Guard + Completion]

Error(name) == [kind |-> "error", name |-> name, wait |-> NoValue]

\* prepare; what is too long is not sent.
Prepare == /\ request = Nothing
           /\ \E n \in 1..MaxReviews, raw \in Raw :
                 /\ request' = Measured(n, raw)
                 /\ IF raw + Guard > PromptLimit THEN result' = Error("prompt_budget_exceeded")
                                                ELSE UNCHANGED result
           /\ UNCHANGED said

Sent == request # Nothing /\ said = Nothing /\ result = Nothing

-----------------------------------------------------------------------------
(* groq_adapter *)

Headers == [is : {"absent", "not a number", "not finite"}, n : {0}]
              \cup [is : {"number"}, n : {-2, 0, 1, MaxWait, MaxWait + 1}]
\* The sanitized Retry-After of an answer that is not 200.
WaitOf(header) == IF header.is # "number" \/ header.n < 0 THEN NoValue
                  ELSE IF header.n > MaxWait THEN MaxWait ELSE header.n

\* _post: no connection, a status that is not 200, no JSON, or no object.
PostFails ==
    /\ Sent
    /\ \/ \E name \in {"connection failed", "unexpected body"} :
             said' = [broken |-> name] /\ result' = Error(name)
       \/ \E header \in Headers :
             said' = [retryAfter |-> header] /\ result' = [Error("http") EXCEPT !.wait = WaitOf(header)]
    /\ UNCHANGED request

\* _safe_usage keeps a number that is one; "usage" is what the body holds.
Usage(usage) == IF usage \in Nat THEN usage ELSE NoValue

Result(output, errors, cut, usage) ==
    [kind |-> "result", output |-> output, errors |-> errors, cut |-> cut, usage |-> Usage(usage)]

\* No message, or one that is not JSON, and the usage all the same.
Unparseable == /\ Sent
               /\ \E usage \in {NoValue, 1} :
                     /\ said' = [usage |-> usage]
                     /\ result' = Result(Nothing, TRUE, FALSE, usage)
               /\ UNCHANGED request

-----------------------------------------------------------------------------
(* contour *)

Lists   == {NotAList} \cup UNION {[1..n -> Items] : n \in 0..(MaxItems + 1)}
Reasons == {"null", "not_enough_meaningful_reviews", "other"}
\* An answer; "addressed" says that its keys, case_id and audience are those that were asked for.
Answers == [addressed : BOOLEAN, status : {"ok", "insufficient_data", "other"},
            likes : Lists, dislikes : Lists, reason : Reasons]

\* normalize_output
Long(list) == Len(list) > MaxItems
Shortened(list) == IF Long(list) THEN SubSeq(list, 1, MaxItems) ELSE list
Normalized(answer) == [answer EXCEPT !.likes = Shortened(@), !.dislikes = Shortened(@)]

\* Mutant of ListIsRight: a citation need only look like one.
ListIsRightAnyReview(list, n) ==
    Len(list) <= MaxItems /\ \A i \in DOMAIN list : list[i].claim = "fits"
\* The claims are of 1 to 160 characters and each cites one review that was sent.
ListIsRight(list, n) ==
    /\ Len(list) <= MaxItems
    /\ \A i \in DOMAIN list : list[i].claim = "fits" /\ list[i].cites \in 1..n

\* validate_output finds nothing.
Valid(answer, n) ==
    /\ answer.addressed
    /\ answer.status \in {"ok", "insufficient_data"}
    /\ ListIsRight(answer.likes, n) /\ ListIsRight(answer.dislikes, n)
    /\ answer.status = "insufficient_data" =>
          /\ answer.likes = <<>> /\ answer.dislikes = <<>>
          /\ answer.reason = "not_enough_meaningful_reviews"
    /\ answer.status = "ok" => answer.reason = "null"

\* generate_summary
Answered == /\ Sent
            /\ said' \in Answers
            /\ LET answer == Normalized(said')
                   right  == Valid(answer, request.reviews)
               IN result' = Result(IF right THEN answer ELSE Nothing, ~right,
                                   Long(said'.likes) \/ Long(said'.dislikes), 1)
            /\ UNCHANGED request

Next == Prepare \/ PostFails \/ Unparseable \/ Answered

Spec == Init /\ [][Next]_vars

-----------------------------------------------------------------------------
(* Properties. *)

Told == result # Nothing /\ result.kind = "result" /\ result.output # Nothing

\* What is published was said: each list starts as the model's own list does, with nothing left
\* out of it but what came after the first MaxItems; that is noted; and whoever reads a claim can
\* be shown the review it is drawn from.
PublishedWasSaid ==
    Told => \A field \in {"likes", "dislikes"} :
        LET shown == result.output[field] list == said[field] IN
        /\ IsPrefix(shown, list)
        /\ Len(shown) < Len(list) => Len(shown) = MaxItems /\ result.cut
        /\ \A i \in DOMAIN shown : shown[i].cites <= request.reviews

\* An answer is not thrown away for what would not be published of it anyway.
LengthIsForgiven ==
    said # Nothing /\ "likes" \in DOMAIN said =>
        LET Kept == {said.likes[i] : i \in DOMAIN said.likes \cap 1..MaxItems}
                        \cup {said.dislikes[i] : i \in DOMAIN said.dislikes \cap 1..MaxItems}
        IN (/\ said.addressed /\ said.status = "ok" /\ said.reason = "null"
            /\ \A item \in Kept : item.claim = "fits" /\ item.cites <= request.reviews) => Told

\* "Not enough data" never comes with an opinion.
SilenceIsSilent == Told /\ result.output.status = "insufficient_data" =>
                      said.likes = <<>> /\ said.dislikes = <<>>

\* Whatever a refusal says, the wait it leads to is no wait at all or one within a day; and a
\* request that was sent fits the budget that was reserved for it.
WaitsAreBounded == result # Nothing /\ result.kind = "error" => result.wait \in {NoValue} \cup 0..MaxWait
SentFits == said # Nothing => request.reserved <= PromptLimit + Completion

SummaryAnswerKept == /\ PublishedWasSaid /\ LengthIsForgiven /\ SilenceIsSilent
                     /\ WaitsAreBounded /\ SentFits
=============================================================================
