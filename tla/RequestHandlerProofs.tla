------------------------ MODULE RequestHandlerProofs ------------------------
(***************************************************************************)
(* Safety of the fetch-request registry for every set of ids, ranges,      *)
(* retentions and back-off schedule.                                       *)
(***************************************************************************)
EXTENDS RequestHandler, TLAPS

(* What holds of an entry on its own.  A failed entry is forgotten only    *)
(* after its retry time because its remaining delay and its age together   *)
(* never exceed the retention.                                             *)
EntryOK(r) ==
  r # NoRequest =>
    /\ r.status = "Pending" => r.generation = generationId
    /\ r.status = "Superseded" => r.generation < generationId
    /\ r.status = "Failed" =>
         /\ r.attempts >= 1
         /\ r.retryIn <= RetryDelay(r.attempts)
         /\ r.retryIn > 0 => r.age + r.retryIn <= FailedRetention

(* Two entries never compete for the same download.                        *)
Apart(r, s) ==
  r # NoRequest /\ s # NoRequest =>
    /\ ~SameWith(r.fetch, s.fetch)
    /\ ~ /\ r.status = "Pending"
         /\ s.status = "Pending"
         /\ Exact(r.fetch, s.fetch)

(* The inductive invariant.                                                *)
HandlerInv ==
  /\ TypeOK
  /\ \A id \in Ids : Present(id) => id \in issued
  /\ \A id \in Ids : EntryOK(requests[id])
  /\ \A i, j \in Ids : i # j => Apart(requests[i], requests[j])

Entry == Request \cup {NoRequest}

-----------------------------------------------------------------------------
(* Lemmas about the functions that change an entry *)

LEMMA DelayBound ==
  ASSUME NEW n \in Nat, n >= 1
  PROVE  /\ RetryDelay(n) \in Nat
         /\ RetryDelay(n) <= FailedRetention
         /\ \A m \in Nat : m >= n => RetryDelay(n) <= RetryDelay(m)
<1>1. \A k \in Nat : k >= 1 => (IF k < BackoffSteps THEN k ELSE BackoffSteps) \in 1..BackoffSteps
  BY BackoffAssumption
<1>2. QED
  BY <1>1, BackoffAssumption DEF RetryDelay

(* mark_failed and the time-out leave a well-formed failed entry.          *)
LEMMA FailedEntryFacts ==
  ASSUME NEW r \in Request
  PROVE  /\ FailedEntry(r) \in Request
         /\ FailedEntry(r) # NoRequest
         /\ FailedEntry(r).status = "Failed"
         /\ FailedEntry(r).fetch = r.fetch
         /\ EntryOK(FailedEntry(r))
<1>1. NextAttempt(r) \in 0..MaxAttempts /\ NextAttempt(r) \in Nat /\ NextAttempt(r) >= 1
  BY BoundsAssumption DEF NextAttempt, Request
<1>2. /\ RetryDelay(NextAttempt(r)) \in Nat
      /\ RetryDelay(NextAttempt(r)) <= FailedRetention
  BY <1>1, DelayBound
<1>3. FailedEntry(r) = [r EXCEPT !.status = "Failed", !.age = 0,
                          !.attempts = NextAttempt(r), !.retryIn = RetryDelay(NextAttempt(r))]
  BY DEF FailedEntry
<1>4. FailedEntry(r) \in Request
  <2>1. 0 \in 0..AgeCap /\ "Failed" \in Statuses
    BY TimesAssumption DEF Statuses
  <2>2. \A n \in 0..MaxAttempts, d \in Nat :
          [r EXCEPT !.status = "Failed", !.age = 0, !.attempts = n, !.retryIn = d] \in Request
    BY <2>1 DEF Request
  <2>3. QED
    BY <1>1, <1>2, <1>3, <2>2
<1>5. /\ FailedEntry(r).status = "Failed"
      /\ FailedEntry(r).fetch = r.fetch
      /\ FailedEntry(r).attempts = NextAttempt(r)
      /\ FailedEntry(r).retryIn = RetryDelay(NextAttempt(r))
      /\ FailedEntry(r).age = 0
  BY <1>3 DEF Request
<1>6. FailedEntry(r) # NoRequest
  BY <1>4, NoRequestAssumption
<1>7. EntryOK(FailedEntry(r))
  BY <1>1, <1>2, <1>5, TimesAssumption DEF EntryOK
<1>8. QED
  BY <1>4, <1>5, <1>6, <1>7

(* The cleanup keeps an entry as it is, forgets it, or times it out.       *)
LEMMA CleanedFacts ==
  ASSUME NEW r \in Entry, EntryOK(r)
  PROVE  /\ CleanedEntry(r) \in Entry
         /\ EntryOK(CleanedEntry(r))
         /\ CleanedEntry(r) # NoRequest =>
              /\ r # NoRequest
              /\ CleanedEntry(r).fetch = r.fetch
              /\ \/ CleanedEntry(r) = r
                 \/ /\ r.status = "Pending"
                    /\ CleanedEntry(r).status = "Failed"
<1>1. CASE r = NoRequest \/ Expired(r)
  <2>1. CleanedEntry(r) = NoRequest
    BY <1>1 DEF CleanedEntry
  <2>2. QED
    BY <2>1 DEF EntryOK, Entry
<1>2. CASE ~(r = NoRequest \/ Expired(r)) /\ TimedOut(r)
  <2>1. CleanedEntry(r) = FailedEntry(r) /\ r \in Request /\ r.status = "Pending"
    BY <1>2 DEF CleanedEntry, Entry, TimedOut
  <2>2. QED
    BY <2>1, <1>2, FailedEntryFacts DEF Entry
<1>3. CASE ~(r = NoRequest \/ Expired(r)) /\ ~TimedOut(r)
  <2>1. CleanedEntry(r) = r
    BY <1>3 DEF CleanedEntry
  <2>2. QED
    BY <2>1, <1>3
<1>4. QED
  BY <1>1, <1>2, <1>3

(* ... and so does the removal of failed requests that may be retried.     *)
LEMMA KeptFacts ==
  ASSUME NEW r \in Entry, NEW f \in Fetches, EntryOK(r)
  PROVE  /\ KeptEntry(r, f) \in Entry
         /\ EntryOK(KeptEntry(r, f))
         /\ KeptEntry(r, f) # NoRequest =>
              /\ r # NoRequest
              /\ KeptEntry(r, f).fetch = r.fetch
              /\ \/ KeptEntry(r, f) = r
                 \/ /\ r.status = "Pending"
                    /\ KeptEntry(r, f).status = "Failed"
<1>1. KeptEntry(r, f) = NoRequest \/ KeptEntry(r, f) = CleanedEntry(r)
  BY DEF KeptEntry
<1>2. CASE KeptEntry(r, f) = NoRequest
  BY <1>2 DEF EntryOK, Entry
<1>3. CASE KeptEntry(r, f) = CleanedEntry(r)
  BY <1>3, CleanedFacts
<1>4. QED
  BY <1>1, <1>2, <1>3

(* Cleaning can only drop entries or end pending ones, so it keeps entries *)
(* apart.                                                                  *)
LEMMA ApartPreserved ==
  ASSUME NEW r, NEW s, NEW rr, NEW ss, Apart(r, s),
         rr # NoRequest => /\ r # NoRequest /\ rr.fetch = r.fetch
                           /\ rr.status = "Pending" => r.status = "Pending",
         ss # NoRequest => /\ s # NoRequest /\ ss.fetch = s.fetch
                           /\ ss.status = "Pending" => s.status = "Pending"
  PROVE  Apart(rr, ss)
  BY DEF Apart

-----------------------------------------------------------------------------
(* Every operation preserves the invariant *)

(* A step that maps every entry through a function which keeps its range   *)
(* and never makes it pending preserves the invariant, whatever else the   *)
(* generation does.                                                        *)
LEMMA MapPreserves ==
  ASSUME HandlerInv,
         requests' = [id \in Ids |-> requests'[id]],
         generationId' \in 0..MaxGeneration,
         emptyAge' \in [Fetches -> 0..EmptyTtl],
         issued' = issued,
         \A id \in Ids :
           /\ requests'[id] \in Entry
           /\ EntryOK(requests[id])' 
           /\ requests'[id] # NoRequest =>
                /\ requests[id] # NoRequest
                /\ requests'[id].fetch = requests[id].fetch
                /\ requests'[id].status = "Pending" => requests[id].status = "Pending"
  PROVE  HandlerInv'
<1>1. TypeOK'
  BY DEF HandlerInv, TypeOK, Entry
<1>2. \A id \in Ids : Present(id)' => id \in issued'
  BY DEF HandlerInv, Present
<1>3. ASSUME NEW i \in Ids, NEW j \in Ids, i # j
      PROVE  Apart(requests[i], requests[j])'
  <2>1. Apart(requests[i], requests[j])
    BY <1>3 DEF HandlerInv
  <2>2. Apart(requests'[i], requests'[j])
    BY <2>1, ApartPreserved
  <2>3. QED
    BY <2>2 DEF Apart
<1>4. QED
  BY <1>1, <1>2, <1>3 DEF HandlerInv

(* An empty registry satisfies the invariant.                              *)
LEMMA InitInv == HandlerInit => HandlerInv
<1>1. SUFFICES ASSUME HandlerInit PROVE HandlerInv
  OBVIOUS
<1>2. TypeOK
  BY <1>1, TimesAssumption, BoundsAssumption DEF HandlerInit, TypeOK
<1>3. \A id \in Ids : requests[id] = NoRequest
  BY <1>1 DEF HandlerInit
<1>4. QED
  BY <1>2, <1>3 DEF HandlerInv, Present, EntryOK, Apart

(* cleanup_stale preserves the invariant.                                  *)
LEMMA CleanupInv == HandlerInv /\ CleanupStale => HandlerInv'
<1>1. SUFFICES ASSUME HandlerInv, CleanupStale PROVE HandlerInv'
  OBVIOUS
<1>2. ASSUME NEW id \in Ids
      PROVE  /\ requests'[id] = CleanedEntry(requests[id])
             /\ requests[id] \in Entry
             /\ EntryOK(requests[id])
  BY <1>1 DEF CleanupStale, HandlerInv, TypeOK, Entry
<1>3. ASSUME NEW id \in Ids
      PROVE  /\ requests'[id] \in Entry
             /\ EntryOK(requests[id])'
             /\ requests'[id] # NoRequest =>
                  /\ requests[id] # NoRequest
                  /\ requests'[id].fetch = requests[id].fetch
                  /\ requests'[id].status = "Pending" => requests[id].status = "Pending"
  <2>1. EntryOK(CleanedEntry(requests[id])) /\ generationId' = generationId
    BY <1>1, <1>2, CleanedFacts DEF CleanupStale
  <2>2. EntryOK(requests[id])'
    BY <2>1, <1>2 DEF EntryOK
  <2>3. QED
    BY <2>2, <1>2, CleanedFacts
<1>4. QED
  BY <1>1, <1>3, MapPreserves DEF CleanupStale, HandlerInv, TypeOK

(* What add_request_with_id works on once the cleanup is done.             *)
LEMMA KeptInv ==
  ASSUME HandlerInv, NEW f \in Fetches
  PROVE  /\ Kept(f) = [id \in Ids |-> Kept(f)[id]]
         /\ \A id \in Ids :
              /\ Kept(f)[id] = KeptEntry(requests[id], f)
              /\ Kept(f)[id] \in Entry
              /\ EntryOK(Kept(f)[id])
              /\ Kept(f)[id] # NoRequest =>
                   /\ requests[id] # NoRequest
                   /\ Kept(f)[id].fetch = requests[id].fetch
                   /\ Kept(f)[id].status = "Pending" => requests[id].status = "Pending"
         /\ \A i, j \in Ids : i # j => Apart(Kept(f)[i], Kept(f)[j])
<1>1. Kept(f) = [id \in Ids |-> Kept(f)[id]]
  BY DEF Kept
<1>2. ASSUME NEW id \in Ids
      PROVE  /\ Kept(f)[id] = KeptEntry(requests[id], f)
             /\ requests[id] \in Entry
             /\ EntryOK(requests[id])
  BY DEF Kept, HandlerInv, TypeOK, Entry
<1>3. ASSUME NEW id \in Ids
      PROVE  /\ Kept(f)[id] \in Entry
             /\ EntryOK(Kept(f)[id])
             /\ Kept(f)[id] # NoRequest =>
                  /\ requests[id] # NoRequest
                  /\ Kept(f)[id].fetch = requests[id].fetch
                  /\ Kept(f)[id].status = "Pending" => requests[id].status = "Pending"
  BY <1>2, KeptFacts
<1>4. ASSUME NEW i \in Ids, NEW j \in Ids, i # j
      PROVE  Apart(Kept(f)[i], Kept(f)[j])
  <2>1. Apart(requests[i], requests[j])
    BY <1>4 DEF HandlerInv
  <2>2. QED
    BY <2>1, <1>3, ApartPreserved
<1>5. QED
  BY <1>1, <1>2, <1>3, <1>4

(* A refused request changes nothing but what the cleanup changes.         *)
LEMMA SuppressedInv ==
  ASSUME HandlerInv, NEW f \in Fetches, AddSuppressed(f)
  PROVE  HandlerInv'
<1>1. requests' = Kept(f) /\ UNCHANGED <<generationId, emptyAge, issued>>
  BY DEF AddSuppressed
<1>2. ASSUME NEW id \in Ids
      PROVE  EntryOK(requests[id])'
  BY <1>1, KeptInv DEF EntryOK
<1>3. QED
  BY <1>1, <1>2, KeptInv, MapPreserves DEF HandlerInv, TypeOK

(* A queued or revived request is the only pending one for its range.      *)
LEMMA UnblockedApart ==
  ASSUME HandlerInv, NEW f \in Fetches, Unblocked(f), NEW id \in Ids,
         NEW r \in Request, r.fetch = f,
         \A other \in Ids \ {id} : other \notin Superseded(f)
  PROVE  \A other \in Ids \ {id} : Apart(r, Kept(f)[other]) /\ Apart(Kept(f)[other], r)
<1>1. SUFFICES ASSUME NEW other \in Ids \ {id}, Kept(f)[other] # NoRequest
               PROVE  /\ ~SameWith(f, Kept(f)[other].fetch)
                      /\ ~ /\ Kept(f)[other].status = "Pending"
                           /\ Exact(f, Kept(f)[other].fetch) \/ Exact(Kept(f)[other].fetch, f)
  BY DEF Apart, SameWith
<1>2. ~SameWith(f, Kept(f)[other].fetch)
  BY <1>1 DEF Superseded, SameWith
<1>3. ~Blocks(Kept(f)[other], f)
  BY DEF Unblocked
<1>4. Kept(f)[other].fetch \in FetchRecord /\ f \in FetchRecord
  BY <1>1, KeptInv, FetchesAssumption DEF Entry, Request
<1>5. Exact(f, Kept(f)[other].fetch) \/ Exact(Kept(f)[other].fetch, f)
        => Contains(Kept(f)[other].fetch, f)
  BY <1>4 DEF Exact, Contains, SharesTrades, FetchRecord
<1>6. QED
  BY <1>1, <1>2, <1>3, <1>5 DEF Blocks

(* A request under a fresh id preserves the invariant.                     *)
LEMMA QueuedInv ==
  ASSUME HandlerInv, NEW f \in Fetches, NEW id \in Ids, AddQueued(f, id)
  PROVE  HandlerInv'
<1> DEFINE new == NewRequest(f)
<1>1. /\ requests' = [Kept(f) EXCEPT ![id] = new]
      /\ issued' = issued \cup {id}
      /\ UNCHANGED <<generationId, emptyAge>>
      /\ Unblocked(f)
  BY DEF AddQueued
<1>2. /\ new \in Request
      /\ new # NoRequest
      /\ new.fetch = f
      /\ new.status = "Pending"
      /\ new.generation = generationId
  <2>1. new \in Request
    BY BoundsAssumption, TimesAssumption
       DEF HandlerInv, TypeOK, NewRequest, Request, Statuses
  <2>2. QED
    BY <2>1, NoRequestAssumption DEF NewRequest
<1>3. EntryOK(new)
  BY <1>2 DEF EntryOK
<1>4. \A other \in Ids : requests'[other] = IF other = id THEN new ELSE Kept(f)[other]
  BY <1>1, KeptInv
<1>5. TypeOK'
  <2>1. requests' \in [Ids -> Request \cup {NoRequest}]
    BY <1>1, <1>2, KeptInv DEF Entry
  <2>2. QED
    BY <1>1, <2>1 DEF HandlerInv, TypeOK
<1>6. \A other \in Ids : Present(other)' => other \in issued'
  BY <1>1, <1>4, KeptInv DEF HandlerInv, Present
<1>7. \A other \in Ids : EntryOK(requests[other])'
  BY <1>1, <1>3, <1>4, KeptInv DEF EntryOK
<1>8. ASSUME NEW i \in Ids, NEW j \in Ids, i # j
      PROVE  Apart(requests[i], requests[j])'
  <2>1. Superseded(f) = {}
    BY DEF AddQueued
  <2>2. \A other \in Ids \ {id} : Apart(new, Kept(f)[other]) /\ Apart(Kept(f)[other], new)
    BY <1>1, <1>2, <2>1, UnblockedApart
  <2>3. Apart(requests'[i], requests'[j])
    BY <1>4, <1>8, <2>2, KeptInv
  <2>4. QED
    BY <2>3 DEF Apart
<1>9. QED
  BY <1>5, <1>6, <1>7, <1>8 DEF HandlerInv

(* A revived request gets the current generation and stays unique.         *)
LEMMA ReactivatedInv ==
  ASSUME HandlerInv, NEW f \in Fetches, NEW id \in Ids, AddReactivated(f, id)
  PROVE  HandlerInv'
<1> DEFINE new == ReactivatedEntry(Kept(f)[id])
<1>1. /\ requests' = [Kept(f) EXCEPT ![id] = new]
      /\ UNCHANGED <<generationId, emptyAge, issued>>
      /\ Unblocked(f)
      /\ Kept(f)[id] # NoRequest
      /\ Kept(f)[id].fetch = f
  BY DEF AddReactivated, Superseded, SameWith
<1>2. /\ new \in Request
      /\ new # NoRequest
      /\ new.fetch = f
      /\ new.status = "Pending"
      /\ new.generation = generationId
  <2>1. Kept(f)[id] \in Request
    BY <1>1, KeptInv DEF Entry
  <2>2. \A r \in Request : ReactivatedEntry(r) \in Request
    <3>1. 0 \in 0..AgeCap /\ 0 \in 0..MaxAttempts /\ "Pending" \in Statuses
      BY BoundsAssumption, TimesAssumption DEF Statuses
    <3>2. generationId \in 0..MaxGeneration
      BY DEF HandlerInv, TypeOK
    <3>3. QED
      BY <3>1, <3>2 DEF ReactivatedEntry, Request
  <2>3. QED
    BY <1>1, <2>1, <2>2, NoRequestAssumption DEF ReactivatedEntry, Request
<1>3. EntryOK(new)
  BY <1>2 DEF EntryOK
<1>4. \A other \in Ids : requests'[other] = IF other = id THEN new ELSE Kept(f)[other]
  BY <1>1, KeptInv
<1>5. TypeOK'
  <2>1. requests' \in [Ids -> Request \cup {NoRequest}]
    BY <1>1, <1>2, KeptInv DEF Entry
  <2>2. QED
    BY <1>1, <2>1 DEF HandlerInv, TypeOK
<1>6. \A other \in Ids : Present(other)' => other \in issued'
  BY <1>1, <1>4, KeptInv DEF HandlerInv, Present
<1>7. \A other \in Ids : EntryOK(requests[other])'
  BY <1>1, <1>3, <1>4, KeptInv DEF EntryOK
<1>8. ASSUME NEW i \in Ids, NEW j \in Ids, i # j
      PROVE  Apart(requests[i], requests[j])'
  <2>1. ASSUME NEW other \in Ids \ {id} PROVE other \notin Superseded(f)
    <3>1. Apart(Kept(f)[other], Kept(f)[id])
      BY KeptInv
    <3>2. QED
      BY <1>1, <3>1 DEF Apart, Superseded, SameWith
  <2>2. \A other \in Ids \ {id} : Apart(new, Kept(f)[other]) /\ Apart(Kept(f)[other], new)
    BY <1>1, <1>2, <2>1, UnblockedApart
  <2>3. Apart(requests'[i], requests'[j])
    BY <1>4, <1>8, <2>2, KeptInv
  <2>4. QED
    BY <2>3 DEF Apart
<1>9. QED
  BY <1>5, <1>6, <1>7, <1>8 DEF HandlerInv

(* mark_completed preserves the invariant.                                 *)
LEMMA CompletedInv ==
  ASSUME HandlerInv, NEW id \in Ids, MarkCompleted(id)
  PROVE  HandlerInv'
<1> DEFINE done == [requests[id] EXCEPT !.status = "Completed", !.age = 0]
<1>1. /\ requests[id] \in Request
      /\ requests[id] # NoRequest
      /\ requests \in [Ids -> Entry]
      /\ requests' = [requests EXCEPT ![id] = done]
      /\ UNCHANGED <<generationId, emptyAge, issued>>
  BY DEF MarkCompleted, HasStatus, Present, HandlerInv, TypeOK, Entry
<1>2. /\ done \in Request
      /\ done # NoRequest
      /\ done.fetch = requests[id].fetch
      /\ done.status = "Completed"
  <2>1. 0 \in 0..AgeCap /\ "Completed" \in Statuses
    BY TimesAssumption DEF Statuses
  <2>2. QED
    BY <1>1, <2>1, NoRequestAssumption DEF Request
<1>3. \A other \in Ids : requests'[other] = IF other = id THEN done ELSE requests[other]
  BY <1>1
<1>4. ASSUME NEW other \in Ids
      PROVE  EntryOK(requests[other])'
  BY <1>1, <1>2, <1>3 DEF EntryOK, HandlerInv
<1>5. QED
  BY <1>1, <1>2, <1>3, <1>4, MapPreserves DEF HandlerInv, TypeOK, Entry

(* mark_failed preserves the invariant.                                    *)
LEMMA FailedInv ==
  ASSUME HandlerInv, NEW id \in Ids, MarkFailed(id)
  PROVE  HandlerInv'
<1> DEFINE failed == FailedEntry(requests[id])
<1>1. /\ requests[id] \in Request
      /\ requests[id] # NoRequest
      /\ requests \in [Ids -> Entry]
      /\ requests' = [requests EXCEPT ![id] = failed]
      /\ UNCHANGED <<generationId, emptyAge, issued>>
  BY DEF MarkFailed, HasStatus, Present, HandlerInv, TypeOK, Entry
<1>2. /\ failed \in Request
      /\ failed.fetch = requests[id].fetch
      /\ failed.status = "Failed"
      /\ EntryOK(failed)
  BY <1>1, FailedEntryFacts
<1>3. \A other \in Ids : requests'[other] = IF other = id THEN failed ELSE requests[other]
  BY <1>1
<1>4. ASSUME NEW other \in Ids
      PROVE  EntryOK(requests[other])'
  BY <1>1, <1>2, <1>3 DEF EntryOK, HandlerInv
<1>5. QED
  BY <1>1, <1>2, <1>3, <1>4, MapPreserves DEF HandlerInv, TypeOK, Entry

(* A new generation leaves only earlier ones superseded.                   *)
LEMMA SupersedeInv ==
  ASSUME HandlerInv, SupersedeAllPending
  PROVE  HandlerInv'
<1>1. /\ generationId' = generationId + 1
      /\ generationId' \in 0..MaxGeneration
      /\ generationId \in Nat
      /\ UNCHANGED <<emptyAge, issued>>
  BY BoundsAssumption DEF SupersedeAllPending, HandlerInv, TypeOK
<1>2. ASSUME NEW id \in Ids
      PROVE  /\ requests'[id] \in Entry
             /\ EntryOK(requests[id])'
             /\ requests'[id] # NoRequest =>
                  /\ requests[id] # NoRequest
                  /\ requests'[id].fetch = requests[id].fetch
                  /\ requests'[id].status = "Pending" => requests[id].status = "Pending"
  <2>1. requests[id] \in Entry /\ requests'[id] = SupersededEntry(requests[id])
    BY DEF SupersedeAllPending, HandlerInv, TypeOK, Entry
  <2>2. CASE requests[id] # NoRequest /\ requests[id].status = "Pending"
    <3>1. requests[id] \in Request /\ requests[id].generation = generationId
      BY <2>1, <2>2 DEF Entry, HandlerInv, EntryOK
    <3>2. 0 \in 0..AgeCap /\ "Superseded" \in Statuses
      BY TimesAssumption DEF Statuses
    <3>3. /\ requests'[id] \in Request
          /\ requests'[id].status = "Superseded"
          /\ requests'[id].generation = generationId
          /\ requests'[id].fetch = requests[id].fetch
      BY <2>1, <2>2, <3>1, <3>2 DEF SupersededEntry, Request
    <3>4. EntryOK(requests[id])'
      BY <1>1, <3>3 DEF EntryOK
    <3>5. QED
      BY <2>2, <3>3, <3>4 DEF Entry
  <2>3. CASE ~(requests[id] # NoRequest /\ requests[id].status = "Pending")
    <3>1. requests'[id] = requests[id]
      BY <2>1, <2>3 DEF SupersededEntry
    <3>2. EntryOK(requests[id])
      BY DEF HandlerInv
    <3>3. EntryOK(requests[id])'
      <4>1. CASE requests[id] = NoRequest
        BY <3>1, <4>1 DEF EntryOK
      <4>2. CASE requests[id] # NoRequest
        <5>1. requests[id].generation \in Nat /\ requests[id].status # "Pending"
          BY <2>1, <2>3, <4>2 DEF Entry, Request
        <5>2. requests[id].status = "Superseded" => requests[id].generation < generationId'
          BY <1>1, <3>2, <4>2, <5>1 DEF EntryOK
        <5>3. QED
          BY <3>1, <3>2, <4>2, <5>1, <5>2 DEF EntryOK
      <4>3. QED
        BY <4>1, <4>2
    <3>4. QED
      BY <2>1, <2>3, <3>1, <3>3
  <2>4. QED
    BY <2>2, <2>3
<1>3. QED
  BY <1>1, <1>2, MapPreserves DEF SupersedeAllPending, HandlerInv, TypeOK

(* Time only moves a failed entry towards its retry.                       *)
LEMMA TickInv ==
  ASSUME HandlerInv, Tick
  PROVE  HandlerInv'
<1>1. ASSUME NEW id \in Ids
      PROVE  /\ requests'[id] \in Entry
             /\ EntryOK(requests[id])'
             /\ requests'[id] # NoRequest =>
                  /\ requests[id] # NoRequest
                  /\ requests'[id].fetch = requests[id].fetch
                  /\ requests'[id].status = requests[id].status
  <2>1. /\ requests[id] \in Entry
        /\ EntryOK(requests[id])
        /\ requests'[id] = AgedEntry(requests[id])
        /\ generationId' = generationId
    BY DEF Tick, HandlerInv, TypeOK, Entry
  <2>2. CASE requests[id] = NoRequest
    BY <2>1, <2>2 DEF AgedEntry, EntryOK, Entry
  <2>3. CASE requests[id] # NoRequest
    <3>1. requests[id] \in Request /\ AgeCap \in Nat
      BY <2>1, <2>3, TimesAssumption DEF Entry
    <3>2. \A r \in Request :
            LET a == IF r.age < AgeCap THEN r.age + 1 ELSE AgeCap
                d == IF r.retryIn > 0 THEN r.retryIn - 1 ELSE 0
            IN  a \in 0..AgeCap /\ d \in Nat
      BY <3>1 DEF Request
    <3>3. /\ requests'[id] \in Request
          /\ requests'[id].fetch = requests[id].fetch
          /\ requests'[id].status = requests[id].status
          /\ requests'[id].attempts = requests[id].attempts
          /\ requests'[id].generation = requests[id].generation
          /\ requests'[id].age = IF requests[id].age < AgeCap
                                 THEN requests[id].age + 1 ELSE AgeCap
          /\ requests'[id].retryIn = IF requests[id].retryIn > 0
                                     THEN requests[id].retryIn - 1 ELSE 0
      BY <2>1, <2>3, <3>1, <3>2 DEF AgedEntry, Request
    <3>4. ASSUME requests[id].status = "Failed"
          PROVE  /\ requests'[id].retryIn <= RetryDelay(requests[id].attempts)
                 /\ requests'[id].retryIn > 0 =>
                      requests'[id].age + requests'[id].retryIn <= FailedRetention
      <4>1. /\ requests[id].attempts \in Nat
            /\ requests[id].attempts >= 1
            /\ requests[id].retryIn <= RetryDelay(requests[id].attempts)
            /\ requests[id].retryIn > 0 =>
                 requests[id].age + requests[id].retryIn <= FailedRetention
        BY <2>1, <2>3, <3>1, <3>4, BoundsAssumption DEF EntryOK, Request
      <4>2. RetryDelay(requests[id].attempts) \in Nat
        BY <4>1, DelayBound
      <4>3. requests[id].age \in Nat /\ requests[id].retryIn \in Nat /\ FailedRetention \in Nat
        BY <3>1, TimesAssumption DEF Request
      <4>4. QED
        BY <3>1, <3>3, <4>1, <4>2, <4>3
    <3>5. EntryOK(requests[id])'
      BY <2>1, <2>3, <3>3, <3>4 DEF EntryOK
    <3>6. QED
      BY <2>3, <3>3, <3>5 DEF Entry
  <2>4. QED
    BY <2>2, <2>3
<1>2. emptyAge' \in [Fetches -> 0..EmptyTtl]
  BY TimesAssumption DEF Tick, HandlerInv, TypeOK
<1>3. QED
  BY <1>1, <1>2, MapPreserves DEF Tick, HandlerInv, TypeOK

(* mark_empty_trade_range does not touch the requests.                     *)
LEMMA MarkEmptyInv ==
  ASSUME HandlerInv, NEW f \in Fetches, MarkEmptyTradeRange(f)
  PROVE  HandlerInv'
<1>1. emptyAge' \in [Fetches -> 0..EmptyTtl] /\ UNCHANGED <<requests, generationId, issued>>
  BY TimesAssumption DEF MarkEmptyTradeRange, HandlerInv, TypeOK
<1>2. QED
  BY <1>1 DEF HandlerInv, TypeOK, Present, EntryOK, Apart

(* Nothing changes when nothing happens.                                   *)
LEMMA StutterInv == HandlerInv /\ UNCHANGED handlerVars => HandlerInv'
BY DEF handlerVars, HandlerInv, TypeOK, Present, EntryOK, Apart

(* Every step preserves the invariant.                                     *)
LEMMA NextInv == HandlerInv /\ [HandlerNext]_handlerVars => HandlerInv'
<1>1. SUFFICES ASSUME HandlerInv, [HandlerNext]_handlerVars PROVE HandlerInv'
  OBVIOUS
<1>2. CASE Tick
  BY <1>1, <1>2, TickInv
<1>3. CASE CleanupStale
  BY <1>1, <1>3, CleanupInv
<1>4. CASE SupersedeAllPending
  BY <1>1, <1>4, SupersedeInv
<1>5. ASSUME NEW f \in Fetches, AddRequest(f) \/ MarkEmptyTradeRange(f)
      PROVE  HandlerInv'
  <2>1. CASE AddRejected(f)
    BY <1>1, <2>1, CleanupInv DEF AddRejected
  <2>2. CASE AddSuppressed(f)
    BY <1>1, <2>2, SuppressedInv
  <2>3. ASSUME NEW id \in Ids, AddReactivated(f, id) PROVE HandlerInv'
    BY <1>1, <2>3, ReactivatedInv
  <2>4. ASSUME NEW id \in Ids, AddQueued(f, id) PROVE HandlerInv'
    BY <1>1, <2>4, QueuedInv
  <2>5. CASE MarkEmptyTradeRange(f)
    BY <1>1, <2>5, MarkEmptyInv
  <2>6. QED
    BY <1>5, <2>1, <2>2, <2>3, <2>4, <2>5 DEF AddRequest
<1>6. ASSUME NEW id \in Ids, Answer(id)
      PROVE  HandlerInv'
  BY <1>1, <1>6, CompletedInv, FailedInv DEF Answer
<1>7. CASE UNCHANGED handlerVars
  BY <1>1, <1>7, StutterInv
<1>8. QED
  BY <1>1, <1>2, <1>3, <1>4, <1>5, <1>6, <1>7 DEF HandlerNext

(* The inductive invariant holds in every reachable state.                 *)
THEOREM Invariance == HandlerSpec => []HandlerInv
<1>1. HandlerInit => HandlerInv
  BY InitInv
<1>2. HandlerInv /\ [HandlerNext]_handlerVars => HandlerInv'
  BY NextInv
<1>3. QED
  BY <1>1, <1>2, PTL DEF HandlerSpec

-----------------------------------------------------------------------------
(* The properties that the runs check *)

(* Type correctness, for every choice of the constants.                    *)
THEOREM TypeCorrect == HandlerSpec => []TypeOK
BY Invariance, PTL DEF HandlerInv

(* The stale check separates the requests of the current generation from   *)
(* the superseded ones: entries cannot be confused by resets and revivals. *)
THEOREM StaleDetection == HandlerSpec => []StaleExactlyWhenSuperseded
<1>1. HandlerInv => StaleExactlyWhenSuperseded
  <2>1. SUFFICES ASSUME HandlerInv, NEW id \in Ids, Present(id)
                 PROVE  IsStaleGeneration(id) <=> requests[id].status = "Superseded"
    BY DEF StaleExactlyWhenSuperseded
  <2>2. /\ requests[id] \in Request
        /\ EntryOK(requests[id])
        /\ generationId \in Int
    BY <2>1, BoundsAssumption DEF HandlerInv, TypeOK, Present
  <2>3. /\ requests[id].status \in Statuses
        /\ requests[id].generation \in Int
        /\ requests[id].status = "Pending" => requests[id].generation = generationId
        /\ requests[id].status = "Superseded" => requests[id].generation < generationId
    BY <2>1, <2>2, BoundsAssumption DEF EntryOK, Present, Request
  <2>4. QED
    BY <2>1, <2>2, <2>3 DEF IsStaleGeneration, Statuses
<1>2. QED
  BY <1>1, Invariance, PTL

(* No range is ever downloaded twice at a time.                            *)
THEOREM NoDuplicate == HandlerSpec => []NoDuplicateDownload
<1>1. HandlerInv => NoDuplicateDownload
  BY DEF HandlerInv, NoDuplicateDownload, Apart, Present
<1>2. QED
  BY <1>1, Invariance, PTL

(* The cleanup forgets a failed request only once it may be retried.       *)
LEMMA BackingOffIsKept ==
  ASSUME NEW r \in Request, EntryOK(r), r.status = "Failed", r.retryIn > 0
  PROVE  /\ CleanedEntry(r) = r
         /\ \A f \in Fetches : KeptEntry(r, f) = r
<1>1. /\ r # NoRequest
      /\ r.age \in Nat
      /\ r.retryIn \in Nat
      /\ FailedRetention \in Nat
  BY NoRequestAssumption, TimesAssumption DEF Request
<1>2. ~Expired(r) /\ ~TimedOut(r)
  BY <1>1 DEF EntryOK, Expired, TimedOut
<1>3. CleanedEntry(r) = r
  BY <1>1, <1>2 DEF CleanedEntry
<1>4. QED
  BY <1>3 DEF KeptEntry, Retryable

(* A range that failed stays blocked until its retry time.                 *)
THEOREM BackoffRespected == HandlerSpec => BackoffHolds
<1> DEFINE BackingOff(id) == HasStatus(id, "Failed") /\ requests[id].retryIn > 0
           StillBlocked(id) == /\ HasStatus(id, "Failed")'
                               /\ requests'[id].retryIn >= requests[id].retryIn - 1
<1>1. ASSUME HandlerInv, HandlerNext, NEW id \in Ids, BackingOff(id)
      PROVE  StillBlocked(id)
  <2>1. /\ requests \in [Ids -> Entry]
        /\ requests[id] \in Request
        /\ requests[id] # NoRequest
        /\ requests[id].status = "Failed"
        /\ requests[id].retryIn \in Nat
        /\ requests[id].retryIn > 0
        /\ EntryOK(requests[id])
    BY <1>1 DEF HandlerInv, TypeOK, HasStatus, Present, Request, Entry
  <2>2. ASSUME requests'[id] = requests[id]
        PROVE  StillBlocked(id)
    BY <2>1, <2>2 DEF HasStatus, Present
  <2>3. CASE CleanupStale
    BY <2>1, <2>2, <2>3, BackingOffIsKept DEF CleanupStale
  <2>4. ASSUME NEW f \in Fetches, AddSuppressed(f)
        PROVE  StillBlocked(id)
    BY <2>1, <2>2, <2>4, BackingOffIsKept DEF AddSuppressed, Kept
  <2>5. ASSUME NEW f \in Fetches, NEW other \in Ids, AddReactivated(f, other)
        PROVE  StillBlocked(id)
    <3>1. Kept(f)[id] = requests[id]
      BY <2>1, BackingOffIsKept DEF Kept
    <3>2. CASE other # id
      BY <2>2, <2>5, <3>1, <3>2, <1>1, KeptInv DEF AddReactivated
    <3>3. CASE other = id
      <4>1. SameWith(requests[id].fetch, f) /\ ~Blocks(requests[id], f)
        BY <2>5, <3>1, <3>3 DEF AddReactivated, Superseded, Unblocked
      <4>2. QED
        BY <2>1, <4>1 DEF Blocks
    <3>4. QED
      BY <3>2, <3>3
  <2>6. ASSUME NEW f \in Fetches, NEW other \in Ids, AddQueued(f, other)
        PROVE  StillBlocked(id)
    <3>1. other # id
      BY <1>1, <2>1, <2>6 DEF AddQueued, HandlerInv, Present
    <3>2. Kept(f)[id] = requests[id]
      BY <2>1, BackingOffIsKept DEF Kept
    <3>3. QED
      BY <1>1, <2>2, <2>6, <3>1, <3>2, KeptInv DEF AddQueued
  <2>7. ASSUME NEW other \in Ids, MarkCompleted(other)
        PROVE  StillBlocked(id)
    <3>1. other # id
      BY <2>1, <2>7 DEF MarkCompleted, HasStatus
    <3>2. QED
      BY <2>1, <2>2, <2>7, <3>1 DEF MarkCompleted
  <2>8. ASSUME NEW other \in Ids, MarkFailed(other)
        PROVE  StillBlocked(id)
    <3>1. CASE other # id
      BY <2>1, <2>2, <2>8, <3>1 DEF MarkFailed
    <3>2. CASE other = id
      <4>1. requests'[id] = FailedEntry(requests[id])
        BY <2>1, <2>8, <3>2 DEF MarkFailed
      <4>2. requests'[id].retryIn >= requests[id].retryIn
        <5>1. /\ requests[id].attempts \in Nat
              /\ requests[id].attempts >= 1
              /\ requests[id].attempts <= MaxAttempts
              /\ requests[id].retryIn <= RetryDelay(requests[id].attempts)
          BY <2>1, BoundsAssumption DEF EntryOK, Request
        <5>2. /\ NextAttempt(requests[id]) \in Nat
              /\ NextAttempt(requests[id]) >= requests[id].attempts
          BY <5>1, BoundsAssumption DEF NextAttempt
        <5>3. RetryDelay(requests[id].attempts) <= RetryDelay(NextAttempt(requests[id]))
          BY <5>1, <5>2, DelayBound
        <5>4. requests'[id].retryIn = RetryDelay(NextAttempt(requests[id]))
          BY <2>1, <4>1 DEF FailedEntry, Request
        <5>5. /\ RetryDelay(requests[id].attempts) \in Nat
              /\ RetryDelay(NextAttempt(requests[id])) \in Nat
          BY <5>1, <5>2, DelayBound
        <5>6. QED
          BY <2>1, <5>1, <5>3, <5>4, <5>5
      <4>3. requests'[id] # NoRequest /\ requests'[id].status = "Failed"
        BY <2>1, <4>1, FailedEntryFacts
      <4>4. requests'[id].retryIn \in Nat
        BY <2>1, <4>1, FailedEntryFacts DEF Request
      <4>5. QED
        BY <2>1, <4>2, <4>3, <4>4 DEF HasStatus, Present
    <3>3. QED
      BY <3>1, <3>2
  <2>9. CASE SupersedeAllPending
    BY <2>1, <2>2, <2>9 DEF SupersedeAllPending, SupersededEntry
  <2>10. CASE Tick
    <3>1. requests'[id] = AgedEntry(requests[id])
      BY <2>10 DEF Tick
    <3>2. /\ requests'[id].status = "Failed"
          /\ requests'[id].retryIn = requests[id].retryIn - 1
          /\ requests'[id].fetch = requests[id].fetch
      BY <2>1, <3>1 DEF AgedEntry, Request
    <3>3. requests'[id] # NoRequest
      <4>1. requests'[id] \in Entry /\ (requests'[id] = NoRequest \/ requests'[id] \in Request)
        BY <1>1, <2>10, TickInv DEF HandlerInv, TypeOK, Entry
      <4>2. AgedEntry(requests[id]) \in Request
        <5>1. \A r \in Request :
                LET a == IF r.age < AgeCap THEN r.age + 1 ELSE AgeCap
                    d == IF r.retryIn > 0 THEN r.retryIn - 1 ELSE 0
                IN  a \in 0..AgeCap /\ d \in Nat
          BY TimesAssumption DEF Request
        <5>2. QED
          BY <2>1, <5>1 DEF AgedEntry, Request
      <4>3. QED
        BY <3>1, <4>2, NoRequestAssumption
    <3>4. QED
      BY <2>1, <3>2, <3>3 DEF HasStatus, Present
  <2>11. ASSUME NEW f \in Fetches, MarkEmptyTradeRange(f)
         PROVE  StillBlocked(id)
    BY <2>2, <2>11 DEF MarkEmptyTradeRange
  <2>12. QED
    BY <1>1, <2>3, <2>4, <2>5, <2>6, <2>7, <2>8, <2>9, <2>10, <2>11
       DEF HandlerNext, AddRequest, AddRejected, Answer
<1>2. HandlerInv /\ [HandlerNext]_handlerVars =>
        [\A id \in Ids : BackingOff(id) => StillBlocked(id)]_handlerVars
  BY <1>1
<1>3. QED
  BY <1>2, Invariance, PTL DEF HandlerSpec, BackoffHolds

(* No late answer rewrites how a request ended.                            *)
THEOREM SettledFinal == HandlerSpec => SettledIsFinal
<1> DEFINE Settled(id) == Present(id) /\ Present(id)' /\ requests[id].status # "Pending"
           Unrevised(id) ==
             \/ requests'[id].status = requests[id].status
             \/ /\ requests[id].status = "Superseded"
                /\ requests'[id].status = "Pending"
                /\ requests'[id].generation = generationId'
<1>1. ASSUME HandlerInv, HandlerNext, NEW id \in Ids, Settled(id)
      PROVE  Unrevised(id)
  <2>1. /\ requests \in [Ids -> Entry]
        /\ requests[id] \in Entry
        /\ requests[id] # NoRequest
        /\ requests'[id] # NoRequest
        /\ requests[id].status # "Pending"
        /\ EntryOK(requests[id])
        /\ id \in issued
    BY <1>1 DEF HandlerInv, TypeOK, Present, Entry
  <2>2. ASSUME requests'[id] = requests[id]
        PROVE  Unrevised(id)
    BY <2>2
  <2>3. CASE CleanupStale
    <3>1. requests'[id] = CleanedEntry(requests[id])
      BY <2>3 DEF CleanupStale
    <3>2. QED
      BY <2>1, <2>2, <3>1, CleanedFacts
  <2>4. ASSUME NEW f \in Fetches
        PROVE  Kept(f)[id] # NoRequest => Kept(f)[id] = requests[id]
    BY <2>1, KeptFacts DEF Kept
  <2>5. ASSUME NEW f \in Fetches, AddSuppressed(f)
        PROVE  Unrevised(id)
    BY <2>1, <2>2, <2>4, <2>5 DEF AddSuppressed
  <2>6. ASSUME NEW f \in Fetches, NEW other \in Ids, AddReactivated(f, other)
        PROVE  Unrevised(id)
    <3>1. CASE other # id
      BY <1>1, <2>1, <2>2, <2>4, <2>6, <3>1, KeptInv DEF AddReactivated
    <3>2. CASE other = id
      <4>1. /\ Kept(f)[id] = requests[id]
            /\ SameWith(requests[id].fetch, f)
            /\ ~Blocks(requests[id], f)
            /\ requests'[id] = ReactivatedEntry(requests[id])
        BY <1>1, <2>1, <2>4, <2>6, <3>2, KeptInv DEF AddReactivated, Superseded, Unblocked
      <4>2. requests[id].status \notin {"Pending", "Completed"}
        BY <2>1, <4>1 DEF Blocks
      <4>3. requests[id].status # "Failed"
        <5>1. SUFFICES ASSUME requests[id].status = "Failed" PROVE FALSE
          OBVIOUS
        <5>2. requests[id].retryIn \in Nat /\ ~(requests[id].retryIn > 0)
          BY <2>1, <4>1, <5>1 DEF Blocks, Entry, Request
        <5>3. requests[id].retryIn = 0
          BY <5>2
        <5>4. KeptEntry(requests[id], f) = requests[id]
          BY <4>1 DEF Kept
        <5>5. CleanedEntry(requests[id]) = requests[id]
          BY <2>1, <5>4 DEF KeptEntry
        <5>6. Retryable(requests[id], f)
          BY <2>1, <4>1, <5>1, <5>3 DEF Retryable
        <5>7. QED
          BY <2>1, <5>4, <5>5, <5>6 DEF KeptEntry
      <4>4. requests[id].status = "Superseded"
        BY <2>1, <4>2, <4>3 DEF Entry, Request, Statuses
      <4>5. requests'[id].status = "Pending" /\ requests'[id].generation = generationId
        BY <2>1, <4>1 DEF ReactivatedEntry, Entry, Request
      <4>6. QED
        BY <2>6, <4>4, <4>5 DEF AddReactivated
    <3>3. QED
      BY <3>1, <3>2
  <2>7. ASSUME NEW f \in Fetches, NEW other \in Ids, AddQueued(f, other)
        PROVE  Unrevised(id)
    <3>1. other # id
      BY <2>1, <2>7 DEF AddQueued
    <3>2. QED
      BY <1>1, <2>1, <2>2, <2>4, <2>7, <3>1, KeptInv DEF AddQueued
  <2>8. ASSUME NEW other \in Ids, MarkCompleted(other)
        PROVE  Unrevised(id)
    <3>1. other # id
      BY <2>1, <2>8 DEF MarkCompleted, HasStatus
    <3>2. QED
      BY <2>1, <2>2, <2>8, <3>1 DEF MarkCompleted
  <2>9. ASSUME NEW other \in Ids, MarkFailed(other)
        PROVE  Unrevised(id)
    <3>1. CASE other # id
      BY <2>1, <2>2, <2>9, <3>1 DEF MarkFailed
    <3>2. CASE other = id
      <4>1. requests[id].status = "Failed" /\ requests'[id] = FailedEntry(requests[id])
        BY <2>1, <2>9, <3>2 DEF MarkFailed, HasStatus
      <4>2. QED
        BY <2>1, <4>1, FailedEntryFacts DEF Entry
    <3>3. QED
      BY <3>1, <3>2
  <2>10. CASE SupersedeAllPending
    BY <2>1, <2>2, <2>10 DEF SupersedeAllPending, SupersededEntry
  <2>11. CASE Tick
    <3>1. requests'[id] = AgedEntry(requests[id])
      BY <2>11 DEF Tick
    <3>2. QED
      BY <2>1, <3>1 DEF AgedEntry, Entry, Request
  <2>12. ASSUME NEW f \in Fetches, MarkEmptyTradeRange(f)
         PROVE  Unrevised(id)
    BY <2>2, <2>12 DEF MarkEmptyTradeRange
  <2>13. QED
    BY <1>1, <2>3, <2>5, <2>6, <2>7, <2>8, <2>9, <2>10, <2>11, <2>12
       DEF HandlerNext, AddRequest, AddRejected, Answer
<1>2. HandlerInv /\ [HandlerNext]_handlerVars =>
        [\A id \in Ids : Settled(id) => Unrevised(id)]_handlerVars
  BY <1>1
<1>3. QED
  BY <1>2, Invariance, PTL DEF HandlerSpec, SettledIsFinal
=============================================================================
