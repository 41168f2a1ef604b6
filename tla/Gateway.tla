------------------------------- MODULE Gateway -------------------------------
(***************************************************************************)
(* One call of the Metacritic gateway (metacritic/gateway.py): a request   *)
(* bounded in size and time, its retries, and the parser that judges the   *)
(* page (metacritic/detail_parser.py, listing_parser.py, review_parser.py, *)
(* page.py).                                                               *)
(*                                                                         *)
(* Of a page the model keeps what decides whether it is accepted: whose it *)
(* is, whether its required blocks are there, its entries (platforms,      *)
(* cards or reviews) and what ends it (score widget, arrow or next link).  *)
(***************************************************************************)
EXTENDS Integers, Sequences, FiniteSetsExt, SequencesExt

CONSTANTS MaxAttempts,        \* MAX_ATTEMPTS
          Backoff,            \* RETRY_BACKOFF_SECONDS, for each attempt but the last
          RequestTimeout,     \* REQUEST_TIMEOUT_SECONDS: of each operation of the client
          ResponseDeadline,   \* RESPONSE_DEADLINE_SECONDS
          MaxOpening,         \* bound on the operations of an attempt before its last read of the head
          MaxBody,            \* MAX_RESPONSE_BYTES, in chunks
          ChunkReads,         \* the most reads that make a chunk (_STREAM_CHUNK_SIZE of a byte each)
          MaxEntries          \* bound on the entries of a page

VARIABLES call,       \* what the call is doing
          evidence,   \* FetchEvidence of the latest attempt
          page,       \* the page that came
          result      \* the DTO, or None

vars == <<call, evidence, page, result>>

Fetch == {"game_detail", "platform_userscore", "new_releases", "browse_page", "review_page"}
None == <<>>
Retryable == {503}      \* of 500, 502, 503 and 504
Status == {200, 403, 429} \cup Retryable

Page == [of : {"asked", "other", "nobody"}, blocks : BOOLEAN,
         entries : SeqOf({"whole", "partly", "broken"}, MaxEntries),
         end : {"present", "empty", "broken", "missing"}]

Init == /\ call = [pc |-> "idle"]
        /\ evidence = None /\ page = None /\ result = None

Ask == /\ call.pc = "idle"
       /\ \E kind \in Fetch : call' = [pc |-> "connect", kind |-> kind, attempt |-> 1, body |-> 0, reads |-> 0,
                                      status |-> 0, elapsed |-> 0, total |-> 0, head |-> 0, heads |-> 0,
                                      retried |-> TRUE]
       /\ UNCHANGED <<evidence, page, result>>

-----------------------------------------------------------------------------
(* _attempt *)

Evidence(status, whole, error) ==
    [status |-> status, sha |-> whole, error |-> error,
     outcome |-> IF error = "none" THEN "succeeded" ELSE "failed"]

\* The attempt ends; without a body, and if that may be for a passing reason, there is another.
Ended(c, ev, retryable) ==
    /\ evidence' = ev
    /\ call' = IF ev.outcome = "failed" /\ retryable /\ c.attempt < MaxAttempts
               THEN [c EXCEPT !.pc = "connect", !.attempt = @ + 1, !.body = 0, !.reads = 0, !.status = 0,
                              !.elapsed = 0, !.head = 0, !.total = @ + Backoff[c.attempt]]
               ELSE [c EXCEPT !.pc = IF ev.outcome = "failed" THEN "returned" ELSE "parse",
                              !.retried = retryable]

After(n) == [call EXCEPT !.elapsed = @ + n, !.total = @ + n]

\* The connection, the request and the reads that make the head of the answer, as many as the
\* source makes of it: each is an operation of the client, and nothing counts them.
Opened(n) == [After(n) EXCEPT !.reads = @ + 1, !.head = @ + n, !.heads = @ + n]

Opens == /\ call.pc = "connect" /\ call.reads < MaxOpening
         /\ \E n \in 0..RequestTimeout : call' = Opened(n)
         /\ UNCHANGED <<evidence, page, result>>

Answers == /\ call.pc = "connect"
           /\ \E n \in 0..RequestTimeout, status \in Status :
                 call' = [Opened(n) EXCEPT !.pc = "stream", !.reads = 0, !.status = status]
           /\ UNCHANGED <<evidence, page, result>>

\* A timeout or a reset, at any time: TransportError; anything else of httpx is not retried.
HttpError == /\ \E n \in 0..RequestTimeout, retryable \in BOOLEAN :
                   \/ call.pc = "connect" /\ Ended(Opened(n), Evidence(0, FALSE, "http_error"), retryable)
                   \/ call.pc = "stream" /\ Ended(After(n), Evidence(0, FALSE, "http_error"), retryable)
             /\ UNCHANGED <<page, result>>

\* Mutant of Bounded: the first clause that is looked at is the only one.
BoundedBySize(c, error) == c.body > MaxBody /\ error = "response_too_large"
\* Size and time are judged after each chunk.
Bounded(c, error) == \/ c.body > MaxBody /\ error = "response_too_large"
                     \/ /\ c.body <= MaxBody /\ c.elapsed > ResponseDeadline
                        /\ error = "response_deadline_exceeded"

Errors(c) == {e \in {"response_too_large", "response_deadline_exceeded"} : Bounded(c, e)}
Chunk(c)  == [c EXCEPT !.body = @ + 1, !.reads = 0]

\* iter_bytes hands out a chunk when enough was read to fill it.
Reads == /\ call.pc = "stream"
         /\ \E n \in 0..RequestTimeout :
               LET c == [After(n) EXCEPT !.reads = @ + 1] IN
               \/ c.reads < ChunkReads /\ call' = c /\ UNCHANGED evidence
               \/ Errors(Chunk(c)) = {} /\ call' = Chunk(c) /\ UNCHANGED evidence
               \/ \E error \in Errors(Chunk(c)) : Ended(Chunk(c), Evidence(c.status, FALSE, error), FALSE)
         /\ UNCHANGED <<page, result>>

\* The end of the body, and what is left of it as a last chunk.
BodyEnds == /\ call.pc = "stream"
            /\ \E n \in 0..RequestTimeout :
                  LET c == IF call.reads = 0 THEN After(n) ELSE Chunk(After(n))
                      errors == IF call.reads = 0 THEN {} ELSE Errors(c)
                  IN \/ \E error \in errors : Ended(c, Evidence(c.status, FALSE, error), FALSE)
                     \/ /\ errors = {} /\ c.status # 200
                        /\ Ended(c, Evidence(c.status, TRUE, "http_status"), c.status \in Retryable)
                     \/ errors = {} /\ c.status = 200 /\ Ended(c, Evidence(200, TRUE, "none"), FALSE)
            /\ UNCHANGED <<page, result>>

-----------------------------------------------------------------------------
(* The parsers: a page is taken as a whole or not at all.                   *)

\* require_matching_canonical, _require_matching_browse_listing, _require_matching_review_route;
\* extract_json_ld, extract_nuxt_payload and the fields that a page must have.
WellFormed(p) == p.of = "asked" /\ p.blocks

\* _parse_platform, _identity_from_slug, _parse_review_item: an optional field may be missing.
Entries(p) == "broken" \notin ToSet(p.entries)

\* parse_game_detail: platforms, and the score widget of the lead platform.
GameDetail(p) == WellFormed(p) /\ Entries(p) /\ p.entries # <<>> /\ p.end \in {"present", "empty"}
\* parse_platform_userscore: an empty widget is a score that is absent.
PlatformUserscore(p) == p.of = "asked" /\ p.end \in {"present", "empty"}
\* parse_new_releases
NewReleases(p) == WellFormed(p) /\ Entries(p) /\ p.entries # <<>>
\* parse_browse_page: the arrow to the next page, which may be disabled.
BrowsePage(p) == WellFormed(p) /\ Entries(p) /\ p.end \in {"present", "empty"}
\* parse_review_page: without a next link it is the last.
ReviewPage(p) == WellFormed(p) /\ Entries(p) /\ p.end \in {"present", "empty", "missing"}

Accepted(kind, p) == CASE kind = "game_detail"        -> GameDetail(p)
                       [] kind = "platform_userscore" -> PlatformUserscore(p)
                       [] kind = "new_releases"       -> NewReleases(p)
                       [] kind = "browse_page"        -> BrowsePage(p)
                       [] kind = "review_page"        -> ReviewPage(p)

\* The entries that are read, by their places on the page.
Read(kind, p) == [kind |-> kind, end |-> p.end,
                  entries |-> IF kind = "platform_userscore" THEN <<>>
                              ELSE RestrictValues(p.entries, LAMBDA e : e # "broken")]

\* The rest of fetch_game, fetch_platform_userscore, list_new_releases, iter_browse and
\* fetch_review_page.
Parse == /\ call.pc = "parse"
         /\ \E p \in Page :
               /\ page' = p
               /\ IF Accepted(call.kind, p)
                  THEN result' = Read(call.kind, p) /\ UNCHANGED evidence
                  ELSE /\ result' = None
                       /\ evidence' = [evidence EXCEPT !.outcome = "invalid", !.error = "parse_error"]
         /\ call' = [call EXCEPT !.pc = "returned"]

Next == Ask \/ Opens \/ Answers \/ HttpError \/ Reads \/ BodyEnds \/ Parse

Spec == Init /\ [][Next]_vars

-----------------------------------------------------------------------------
(* Properties. *)

\* Once the head of an answer is there an attempt ends within a bound, however slowly the source
\* sends the body: at the deadline, or at the first chunk if the head itself took longer, after at
\* most the reads of the chunk at hand.  The call takes no more than this for each attempt, its
\* pauses and the heads.  (What a head may take has no bound: the deadline is not looked at before
\* the first chunk, and a head that trickles restarts the timeout of the client at each read.)
BodyTime == ChunkReads * RequestTimeout
Quiet(c) == Max({ResponseDeadline, c.head})

CallsEnd ==
    call.pc # "idle" =>
        /\ call.attempt <= MaxAttempts
        /\ call.elapsed <= Quiet(call) + BodyTime
        /\ call.total <= call.heads + call.attempt * (ResponseDeadline + BodyTime)
                         + MapThenSumSet(LAMBDA i : Backoff[i], 1..(call.attempt - 1))

\* What a call returns and the evidence it leaves agree: a DTO if and only if the last attempt
\* brought a page of the very address that was asked for, read to its end; and a failure that
\* may pass is only given up after the last attempt.
EvidenceIsTrue ==
    call.pc = "returned" =>
        /\ result # None <=> evidence.outcome = "succeeded"
        /\ result # None => evidence.sha /\ evidence.status = 200 /\ page.of = "asked"
        /\ evidence.outcome = "failed" => page = None
        /\ evidence.outcome = "failed" /\ call.retried => call.attempt = MaxAttempts
        /\ evidence.error = "http_status" /\ evidence.status \in Retryable
              => call.attempt = MaxAttempts

\* A page of which one entry is broken is not taken for a shorter one.
PagesAreWhole ==
    result # None /\ call.kind # "platform_userscore" => result.entries = page.entries

GatewayKept == CallsEnd /\ EvidenceIsTrue /\ PagesAreWhole
=============================================================================
