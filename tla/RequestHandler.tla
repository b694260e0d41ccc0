--------------------------- MODULE RequestHandler ---------------------------
(***************************************************************************)
(* The fetch-request registry of a chart (struct RequestHandler in         *)
(* src/connector/fetcher.rs).  Every chart owns one.  It decides whether a *)
(* missing range of history may be downloaded now, remembers how each      *)
(* download ended, and tells the dashboard whether an answer that arrives  *)
(* belongs to a request the chart still wants.                             *)
(*                                                                         *)
(* All operations run on the UI thread, one at a time.  What is not under  *)
(* the registry's control is the order in which they are called: time      *)
(* passes, settings change (supersede), workers answer late, twice or not  *)
(* at all, and the same range is asked for on every chart tick.            *)
(*                                                                         *)
(* Timestamps are modelled by ages.  The code only ever compares           *)
(* `now - timestamp` with a retention and `now` with `retry_at`, so an     *)
(* entry carries the time since its last status change (age) and the time  *)
(* left until `retry_at` (retryIn).  An age stops growing at AgeCap, past  *)
(* every retention, where it can no longer be told apart.                  *)
(***************************************************************************)
EXTENDS Integers

CONSTANTS
  Ids,                  \* request ids (Uuid::new_v4, never reused)
  Fetches,              \* the ranges asked for: see FetchRecord
  NoRequest,            \* stands for "this id is not in the map"
  PendingTimeout,       \* PENDING_TIMEOUT_MS
  CompletedRetention,   \* COMPLETED_RETENTION_MS
  FailedRetention,      \* FAILED_RETENTION_MS
  SupersededRetention,  \* SUPERSEDED_RETENTION_MS
  EmptyTtl,             \* EMPTY_TRADE_FETCH_TTL
  BackoffSteps,         \* number of distinct retry delays (6 in the code)
  Backoff,              \* the delays: 2500 * 2^(i - 1) ms for i in 1..6
  AgeCap,               \* bound on ages, past every retention
  MaxAttempts,          \* bound on the attempts counter
  MaxGeneration         \* bound on the generation counter

Kinds == {"Kline", "OpenInterest", "Trades", "BubbleSummary"}

(* A FetchRange.  `timeframe` is that of OpenInterest and BubbleSummary,   *)
(* `detail` stands for the other parameters of a BubbleSummary (price      *)
(* step, candidate and cluster limits); other kinds carry one fixed value. *)
FetchRecord == [kind: Kinds, from: Nat, to: Nat, timeframe: Nat, detail: Nat]

Statuses == {"Pending", "Completed", "Failed", "Superseded"}

Request == [fetch: Fetches, status: Statuses, age: 0..AgeCap, retryIn: Nat,
            attempts: 0..MaxAttempts, generation: 0..MaxGeneration]

ASSUME FetchesAssumption == Fetches \subseteq FetchRecord
ASSUME NoRequestAssumption == NoRequest \notin Request
ASSUME TimesAssumption ==
  /\ PendingTimeout \in Nat \ {0}
  /\ CompletedRetention \in Nat
  /\ FailedRetention \in Nat
  /\ SupersededRetention \in Nat
  /\ EmptyTtl \in Nat
  /\ AgeCap \in Nat
  /\ AgeCap >= PendingTimeout
  /\ AgeCap > CompletedRetention
  /\ AgeCap > FailedRetention
  /\ AgeCap > SupersededRetention
ASSUME BackoffAssumption ==
  /\ BackoffSteps \in Nat \ {0}
  /\ Backoff \in [1..BackoffSteps -> Nat \ {0}]
  /\ \A i \in 1..BackoffSteps : Backoff[i] <= FailedRetention
  /\ \A i, j \in 1..BackoffSteps : i <= j => Backoff[i] <= Backoff[j]
ASSUME BoundsAssumption == MaxAttempts \in Nat \ {0} /\ MaxGeneration \in Nat

VARIABLES
  requests,       \* RequestHandler.requests
  generationId,   \* RequestHandler.generation_id
  emptyAge,       \* RequestHandler.empty_trade_fetches: age of each mark
  issued          \* ids handed out so far

handlerVars == <<requests, generationId, emptyAge, issued>>

-----------------------------------------------------------------------------
(* Ranges *)

IsValid(f) == f.from < f.to

SharesTrades(g, f) ==
  /\ f.kind \in {"Trades", "BubbleSummary"}
  /\ g.kind = f.kind
  /\ g.timeframe = f.timeframe

Exact(g, f) == SharesTrades(g, f) /\ g.from = f.from /\ g.to = f.to

Contains(g, f) == SharesTrades(g, f) /\ g.from <= f.from /\ f.to <= g.to

SameWith(g, f) == g = f

-----------------------------------------------------------------------------
(* The operations as functions of an entry *)

Present(id) == requests[id] # NoRequest

HasStatus(id, status) == Present(id) /\ requests[id].status = status

RetryDelay(attempts) ==
  Backoff[IF attempts < BackoffSteps THEN attempts ELSE BackoffSteps]

(* Mutant: the counter is not saturating.                                  *)
MutantNextAttempt(r) == r.attempts + 1

NextAttempt(r) == IF r.attempts < MaxAttempts THEN r.attempts + 1 ELSE MaxAttempts

FailedEntry(r) ==
  [r EXCEPT !.status = "Failed", !.age = 0,
            !.attempts = NextAttempt(r), !.retryIn = RetryDelay(NextAttempt(r))]

Expired(r) ==
  \/ r.status = "Completed" /\ r.age > CompletedRetention
  \/ r.status = "Failed" /\ r.age > FailedRetention
  \/ r.status = "Superseded" /\ r.age > SupersededRetention

(* Mutant: only a request that was retried times out.                      *)
MutantTimedOut(r) ==
  r.status = "Pending" /\ r.age >= PendingTimeout /\ r.attempts > 0

TimedOut(r) == r.status = "Pending" /\ r.age >= PendingTimeout

CleanedEntry(r) ==
  IF r = NoRequest \/ Expired(r) THEN NoRequest
  ELSE IF TimedOut(r) THEN FailedEntry(r)
  ELSE r

(* Mutant: a failed request is retried whatever its retry time.            *)
MutantRetryable(r, f) ==
  r # NoRequest /\ r.status = "Failed" /\ SameWith(r.fetch, f)

(* What add_request_with_id finds in the map once cleanup_stale_at has run *)
(* and the failed requests for f that may be retried are removed.          *)
Retryable(r, f) ==
  r # NoRequest /\ r.status = "Failed" /\ r.retryIn = 0 /\ SameWith(r.fetch, f)

KeptEntry(r, f) ==
  IF Retryable(CleanedEntry(r), f) THEN NoRequest ELSE CleanedEntry(r)

Kept(f) == [id \in Ids |-> KeptEntry(requests[id], f)]

(* Mutant: a pending request is recognised only by all its parameters.     *)
MutantBlocks(r, f) ==
  /\ r # NoRequest
  /\ SameWith(r.fetch, f)
  /\ r.status \in {"Pending", "Completed"} \/ (r.status = "Failed" /\ r.retryIn > 0)

(* An entry on account of which a new request for f is refused.            *)
Blocks(r, f) ==
  /\ r # NoRequest
  /\ \/ /\ r.status \in {"Pending", "Completed"}
        /\ Contains(r.fetch, f) \/ SameWith(r.fetch, f)
     \/ /\ r.status = "Failed"
        /\ r.retryIn > 0
        /\ Exact(r.fetch, f) \/ SameWith(r.fetch, f)

RecentlyEmpty(f) == f.kind = "Trades" /\ emptyAge[f] < EmptyTtl

NewRequest(f) ==
  [fetch |-> f, status |-> "Pending", age |-> 0, retryIn |-> 0,
   attempts |-> 0, generation |-> generationId]

(* Mutant: a revived request keeps the generation it was superseded in.    *)
MutantReactivatedEntry(r) ==
  [r EXCEPT !.status = "Pending", !.age = 0, !.attempts = 0]

ReactivatedEntry(r) ==
  [r EXCEPT !.status = "Pending", !.age = 0, !.attempts = 0,
            !.generation = generationId]

SupersededEntry(r) ==
  IF r # NoRequest /\ r.status = "Pending"
  THEN [r EXCEPT !.status = "Superseded", !.age = 0]
  ELSE r

AgedEntry(r) ==
  IF r = NoRequest THEN NoRequest
  ELSE [r EXCEPT !.age = IF r.age < AgeCap THEN r.age + 1 ELSE AgeCap,
                 !.retryIn = IF r.retryIn > 0 THEN r.retryIn - 1 ELSE 0]

(* An answer for id is to be discarded.                                    *)
IsStaleGeneration(id) ==
  Present(id) => /\ requests[id].status \notin {"Completed", "Failed"}
                 /\ requests[id].generation # generationId

HasPendingTradeRequests ==
  \E id \in Ids : HasStatus(id, "Pending") /\ requests[id].fetch.kind = "Trades"

IsTradeRequest(id) == Present(id) /\ requests[id].fetch.kind = "Trades"

-----------------------------------------------------------------------------
HandlerInit ==
  /\ requests = [id \in Ids |-> NoRequest]
  /\ generationId = 0
  /\ emptyAge = [f \in Fetches |-> EmptyTtl]
  /\ issued = {}

(* cleanup_stale, called on every chart tick.                              *)
CleanupStale ==
  /\ requests' = [id \in Ids |-> CleanedEntry(requests[id])]
  /\ UNCHANGED <<generationId, emptyAge, issued>>

(* add_request_with_id: an invalid range, or a trade range recently found  *)
(* empty, is turned away after the cleanup.                                *)
AddRejected(f) ==
  /\ ~IsValid(f) \/ RecentlyEmpty(f)
  /\ CleanupStale

Admissible(f) == IsValid(f) /\ ~RecentlyEmpty(f)

(* ... a request already under way, done or backing off suppresses it.     *)
AddSuppressed(f) ==
  /\ Admissible(f)
  /\ \E id \in Ids : Blocks(Kept(f)[id], f)
  /\ requests' = Kept(f)
  /\ UNCHANGED <<generationId, emptyAge, issued>>

Unblocked(f) == Admissible(f) /\ \A id \in Ids : ~Blocks(Kept(f)[id], f)

(* The entries for exactly f that survive an Unblocked(f): superseded ones. *)
Superseded(f) ==
  {id \in Ids : Kept(f)[id] # NoRequest /\ SameWith(Kept(f)[id].fetch, f)}

(* ... a superseded request for the same range is revived under its id.    *)
AddReactivated(f, id) ==
  /\ Unblocked(f)
  /\ id \in Superseded(f)
  /\ requests' = [Kept(f) EXCEPT ![id] = ReactivatedEntry(Kept(f)[id])]
  /\ UNCHANGED <<generationId, emptyAge, issued>>

(* ... otherwise it is queued under a fresh id.                            *)
AddQueued(f, id) ==
  /\ Unblocked(f)
  /\ Superseded(f) = {}
  /\ id \in Ids \ issued
  /\ requests' = [Kept(f) EXCEPT ![id] = NewRequest(f)]
  /\ issued' = issued \cup {id}
  /\ UNCHANGED <<generationId, emptyAge>>

(* Mutant: any late answer completes the request.                          *)
MutantMarkCompleted(id) ==
  /\ Present(id)
  /\ requests' = [requests EXCEPT ![id].status = "Completed", ![id].age = 0]
  /\ UNCHANGED <<generationId, emptyAge, issued>>

(* mark_completed and mark_no_data: only a pending request completes.      *)
MarkCompleted(id) ==
  /\ HasStatus(id, "Pending")
  /\ requests' = [requests EXCEPT ![id].status = "Completed", ![id].age = 0]
  /\ UNCHANGED <<generationId, emptyAge, issued>>

(* mark_failed: a pending request fails, and a failed one fails again with *)
(* a longer delay.                                                         *)
MarkFailed(id) ==
  /\ HasStatus(id, "Pending") \/ HasStatus(id, "Failed")
  /\ requests' = [requests EXCEPT ![id] = FailedEntry(requests[id])]
  /\ UNCHANGED <<generationId, emptyAge, issued>>

(* supersede_all_pending: a new generation begins.                         *)
SupersedeAllPending ==
  /\ generationId < MaxGeneration
  /\ generationId' = generationId + 1
  /\ requests' = [id \in Ids |-> SupersededEntry(requests[id])]
  /\ UNCHANGED <<emptyAge, issued>>

MarkEmptyTradeRange(f) ==
  /\ f.kind = "Trades"
  /\ emptyAge' = [emptyAge EXCEPT ![f] = 0]
  /\ UNCHANGED <<requests, generationId, issued>>

(* One unit of time passes.                                                *)
Tick ==
  /\ requests' = [id \in Ids |-> AgedEntry(requests[id])]
  /\ emptyAge' = [f \in Fetches |->
                    IF emptyAge[f] < EmptyTtl THEN emptyAge[f] + 1 ELSE EmptyTtl]
  /\ UNCHANGED <<generationId, issued>>

AddRequest(f) ==
  \/ AddRejected(f)
  \/ AddSuppressed(f)
  \/ \E id \in Ids : AddReactivated(f, id) \/ AddQueued(f, id)

Answer(id) == MarkCompleted(id) \/ MarkFailed(id)

HandlerNext ==
  \/ Tick
  \/ CleanupStale
  \/ SupersedeAllPending
  \/ \E f \in Fetches : AddRequest(f) \/ MarkEmptyTradeRange(f)
  \/ \E id \in Ids : Answer(id)

HandlerSpec == HandlerInit /\ [][HandlerNext]_handlerVars

-----------------------------------------------------------------------------
(* Properties *)

(* Every entry is well formed and every counter within its width: the      *)
(* attempts counter saturates and ages stay below their cap.               *)
TypeOK ==
  /\ requests \in [Ids -> Request \cup {NoRequest}]
  /\ generationId \in 0..MaxGeneration
  /\ emptyAge \in [Fetches -> 0..EmptyTtl]
  /\ issued \subseteq Ids

(* is_stale_generation answers "discard" for exactly the entries that were *)
(* superseded: whatever sequence of resets and revivals led here, a pending*)
(* request belongs to the current generation (its answer is applied) and a *)
(* superseded one to an earlier generation (its answer is not).            *)
StaleExactlyWhenSuperseded ==
  \A id \in Ids :
    Present(id) => (IsStaleGeneration(id) <=> requests[id].status = "Superseded")

(* The registry never lets the same range be downloaded twice at a time:   *)
(* the map holds one entry per range, and two pending trade or bubble      *)
(* requests never ask for the same interval, not even with different       *)
(* bubble parameters.                                                      *)
NoDuplicateDownload ==
  \A i, j \in Ids :
    i # j /\ Present(i) /\ Present(j) =>
      /\ ~SameWith(requests[i].fetch, requests[j].fetch)
      /\ ~ /\ requests[i].status = "Pending"
           /\ requests[j].status = "Pending"
           /\ Exact(requests[i].fetch, requests[j].fetch)

(* A failed range stays blocked until its retry time: no cleanup, reset,   *)
(* answer or other request drops or revives the entry while time is left   *)
(* before retry_at, and the time left shrinks only as time passes.         *)
BackoffHolds ==
  [][\A id \in Ids :
       HasStatus(id, "Failed") /\ requests[id].retryIn > 0 =>
         /\ HasStatus(id, "Failed")'
         /\ requests'[id].retryIn >= requests[id].retryIn - 1]_handlerVars

(* How a request ended is never rewritten by a late answer: completed and  *)
(* failed entries keep their status until they are forgotten, and a        *)
(* superseded one can only be revived, in the generation then current.     *)
SettledIsFinal ==
  [][\A id \in Ids :
       Present(id) /\ Present(id)' /\ requests[id].status # "Pending" =>
         \/ requests'[id].status = requests[id].status
         \/ /\ requests[id].status = "Superseded"
            /\ requests'[id].status = "Pending"
            /\ requests'[id].generation = generationId']_handlerVars

(* No range stays blocked by a request whose worker died: every pending    *)
(* request eventually ends, by an answer, a reset or the time-out.         *)
PendingEnds ==
  \A id \in Ids : HasStatus(id, "Pending") ~> ~HasStatus(id, "Pending")

=============================================================================
