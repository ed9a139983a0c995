------------------------------ MODULE JwksCache ------------------------------
(***************************************************************************)
(* The verification keys of the OIDC authenticator                         *)
(* (crates/agentic-server/src/auth.rs).  Requests look a token's key up in *)
(* a shared cache; one that finds the cache stale or without the key waits *)
(* for a one-permit gate, looks again and may fetch the provider's key set *)
(* itself.  A fetch leaves a back-off behind when it fails, a coalescing   *)
(* window when it succeeds, and nothing when its request is dropped.       *)
(*                                                                         *)
(* Time is a counter that advances while no deadline of the code passes.   *)
(***************************************************************************)
EXTENDS Naturals, FiniteSets

CONSTANTS
  Requests,      \* requests with a bearer token
  Kids,          \* key ids
  Ttls,          \* the lifetimes a provider may give its key set
  Cooldown,      \* JWKS_REFRESH_COOLDOWN
  Coalesce,      \* JWKS_REFRESH_COALESCE_WINDOW
  WaitTimeout,   \* JWKS_REFRESH_WAIT_TIMEOUT
  FetchTimeout,  \* OIDC_HTTP_TIMEOUT
  MaxTime,       \* bound: the clock
  MaxRotations,  \* bound: changes of the provider's key set
  Never, NoOne

ConstantsOK ==
  /\ Cooldown \in Nat /\ Coalesce \in Nat /\ WaitTimeout \in Nat /\ FetchTimeout \in Nat
  /\ Ttls \subseteq Nat /\ MaxTime \in Nat /\ MaxRotations \in Nat

VARIABLES
  now,        \* the clock
  provider,   \* the keys the provider publishes
  publishedAt, \* key -> the last time the provider published it
  absentAt,    \* key -> the last time it did not
  rotations,
  keys,       \* CachedJwks.keys
  expires,    \* CachedJwks.expires_at
  refresh,    \* RefreshState: last_completed, retry_after, coalesce_until
  gate,       \* the request holding the refresh permit
  req,        \* request -> what it looks for and how far it is
  lastFetch   \* how the last fetch that was not dropped went

vars == <<now, provider, publishedAt, absentAt, rotations, keys, expires, refresh, gate, req, lastFetch>>

environment == <<now, provider, publishedAt, absentAt, rotations>>

Idle == [pc |-> "idle"]
Fresh == now < expires
Before(deadline) == deadline # Never /\ now < deadline

Init ==
  /\ now = 0 /\ rotations = 0
  /\ provider \in SUBSET Kids \ {{}}
  /\ publishedAt = [k \in Kids |-> IF k \in provider THEN 0 ELSE Never]
  /\ absentAt = [k \in Kids |-> IF k \in provider THEN Never ELSE 0]
  /\ keys = provider                  \* discover() fetched the first set
  /\ expires \in Ttls
  /\ refresh = [completed |-> 0, retry |-> Never, coalesce |-> Never]
  /\ gate = NoOne
  /\ req = [r \in Requests |-> Idle]
  /\ lastFetch = [outcome |-> "ok", began |-> 0, ended |-> 0]

-----------------------------------------------------------------------------
\* The request ends: its key is returned, unknown, or could not be looked up.
\* What is recorded with it is how long ago the provider last agreed.
Ended(k, result) ==
  [pc |-> "done", kid |-> k, result |-> result,
   age |-> LET at == IF result = "accepted" THEN publishedAt[k] ELSE absentAt[k]
           IN IF at = Never THEN Never ELSE now - at]

\* The first look, without the gate.
Arrive(r, k) ==
  /\ req[r] = Idle
  /\ req' = [req EXCEPT ![r] = IF Fresh /\ k \in keys THEN Ended(k, "accepted")
                               ELSE [pc |-> "wait", kid |-> k, since |-> now]]
  /\ UNCHANGED <<environment, keys, expires, refresh, gate, lastFetch>>

\* What a request that holds the gate does about key k on its second look.
SecondLook(k) ==
  IF Fresh /\ k \in keys THEN "accepted"
  ELSE IF Fresh /\ now - refresh.completed < Cooldown THEN "unknown"
  ELSE IF Before(refresh.coalesce) THEN IF k \in keys THEN "accepted" ELSE "unknown"
  ELSE IF Before(refresh.retry) THEN "unavailable"
  ELSE "fetch"

\* The permit is free: the request answers from the cache and gives it back,
\* or keeps it and begins a fetch, with the back-off set beforehand.
Acquire(r) ==
  LET k == req[r].kid
      look == SecondLook(k)
  IN /\ req[r].pc = "wait" /\ gate = NoOne
     /\ IF look = "fetch"
          THEN /\ gate' = r
               /\ req' = [req EXCEPT ![r] = [pc |-> "fetch", kid |-> k, since |-> now,
                                             retry |-> now + Cooldown]]
               /\ refresh' = [refresh EXCEPT !.retry = now + Cooldown]
          ELSE /\ req' = [req EXCEPT ![r] = Ended(k, look)]
               /\ UNCHANGED <<gate, refresh>>
     /\ UNCHANGED <<environment, keys, expires, lastFetch>>

\* The wait for the permit ran out.
WaitTimesOut(r) ==
  /\ req[r].pc = "wait" /\ now - req[r].since >= WaitTimeout
  /\ req' = [req EXCEPT ![r] = Ended(req[r].kid, "unavailable")]
  /\ UNCHANGED <<environment, keys, expires, refresh, gate, lastFetch>>

\* The provider answers with the set it publishes now; the body is on its way.
ProviderAnswers(r) ==
  /\ req[r].pc = "fetch"
  /\ req' = [req EXCEPT ![r] = [pc |-> "body", kid |-> req[r].kid, since |-> req[r].since,
                                retry |-> req[r].retry, got |-> provider]]
  /\ UNCHANGED <<environment, keys, expires, refresh, gate, lastFetch>>

\* The state a completed refresh leaves.
Refreshed == [completed |-> now, retry |-> Never, coalesce |-> now + Coalesce]

\* The set is compiled and installed whole, whether or not it has the key.
Install(r, ttl) ==
  LET q == req[r]
  IN /\ q.pc = "body"
     /\ keys' = q.got
     /\ expires' = now + ttl
     /\ refresh' = Refreshed
     /\ gate' = NoOne
     /\ req' = [req EXCEPT ![r] = Ended(q.kid, IF q.kid \in q.got THEN "accepted" ELSE "unknown")]
     /\ lastFetch' = [outcome |-> "ok", began |-> q.since, ended |-> now]
     /\ UNCHANGED environment

\* The request, its body or its key set is refused: the back-off stays.
FetchFails(r) ==
  /\ req[r].pc \in {"fetch", "body"}
  /\ gate' = NoOne
  /\ req' = [req EXCEPT ![r] = Ended(req[r].kid, "unavailable")]
  /\ lastFetch' = [outcome |-> "failed", began |-> req[r].since, ended |-> now]
  /\ UNCHANGED <<environment, keys, expires, refresh>>

(* Mutant of Dropped. *)
DroppedKept(r) == refresh

\* The back-off when an attempt is dropped: cleared if it is still its own.
Dropped(r) == IF refresh.retry = req[r].retry THEN [refresh EXCEPT !.retry = Never] ELSE refresh

\* The client goes away: the request is dropped wherever it waits.
Cancel(r) ==
  /\ req[r].pc \in {"wait", "fetch", "body"}
  /\ refresh' = IF req[r].pc = "wait" THEN refresh ELSE Dropped(r)
  /\ gate' = IF gate = r THEN NoOne ELSE gate
  /\ req' = [req EXCEPT ![r] = Idle]
  /\ UNCHANGED <<environment, keys, expires, lastFetch>>

\* The connection's next request.
Again(r) ==
  /\ req[r].pc = "done"
  /\ req' = [req EXCEPT ![r] = Idle]
  /\ UNCHANGED <<environment, keys, expires, refresh, gate, lastFetch>>

\* The provider publishes another set.
Rotate(set) ==
  /\ rotations < MaxRotations /\ set # provider
  /\ rotations' = rotations + 1
  /\ provider' = set
  /\ publishedAt' = [k \in Kids |-> IF k \in provider \cup set THEN now ELSE publishedAt[k]]
  /\ absentAt' = [k \in Kids |-> IF k \notin provider \cap set THEN now ELSE absentAt[k]]
  /\ UNCHANGED <<now, keys, expires, refresh, gate, req, lastFetch>>

\* Time passes, past no timer that is due.
Tick ==
  /\ now < MaxTime
  /\ \A r \in Requests :
       /\ req[r].pc = "wait" => now - req[r].since < WaitTimeout
       /\ req[r].pc \in {"fetch", "body"} => now - req[r].since < FetchTimeout
  /\ now' = now + 1
  /\ publishedAt' = [k \in Kids |-> IF k \in provider THEN now + 1 ELSE publishedAt[k]]
  /\ absentAt' = [k \in Kids |-> IF k \notin provider THEN now + 1 ELSE absentAt[k]]
  /\ UNCHANGED <<provider, rotations, keys, expires, refresh, gate, req, lastFetch>>

Step(r) ==
  \/ \E k \in Kids : Arrive(r, k)
  \/ Acquire(r) \/ WaitTimesOut(r) \/ ProviderAnswers(r)
  \/ \E ttl \in Ttls : Install(r, ttl)
  \/ FetchFails(r) \/ Cancel(r) \/ Again(r)

Next ==
  \/ \E r \in Requests : Step(r)
  \/ \E set \in SUBSET Kids \ {{}} : Rotate(set)
  \/ Tick

Spec == Init /\ [][Next]_vars

-----------------------------------------------------------------------------
Fetching(r) == req[r].pc \in {"fetch", "body"}

\* The permit is held exactly by the one request that fetches.
TypeOK ==
  /\ now \in 0..MaxTime
  /\ provider \in SUBSET Kids \ {{}} /\ keys \in SUBSET Kids \ {{}}
  /\ expires \in Nat /\ refresh.completed \in 0..MaxTime
  /\ \A r \in Requests : Fetching(r) <=> gate = r

LongestTtl == CHOOSE t \in Ttls : \A u \in Ttls : u <= t
Lifetime == IF LongestTtl > Coalesce THEN LongestTtl ELSE Coalesce

\* A key the provider has withdrawn is accepted no longer than the lifetime
\* of the set it was fetched with, or the coalescing window, and the time
\* that fetch took (docs/design/oidc-bearer-authentication.md "a provider can
\* remove a compromised key without requiring a gateway restart").
WithdrawnKeysExpire ==
  \A r \in Requests :
    req[r].pc = "done" /\ req[r].result = "accepted" =>
      req[r].age # Never /\ req[r].age <= Lifetime + FetchTimeout

\* A key is called unknown only if the provider did without it within the
\* cooldown and the time of a fetch: a rotated-in key is accepted after that.
UnknownWasAbsent ==
  \A r \in Requests :
    req[r].pc = "done" /\ req[r].result = "unknown" =>
      req[r].age # Never /\ req[r].age <= Cooldown + FetchTimeout

\* A back-off that still holds is of a fetch under way or of the last fetch,
\* which failed: a dropped request never leaves one behind, whatever other
\* requests do meanwhile (auth.rs:150).
BackoffMeansFailure ==
  Before(refresh.retry) => gate # NoOne \/ lastFetch.outcome = "failed"

\* The provider is spared: a fetch begins no sooner than the coalescing
\* window after one that succeeded, no sooner than the cooldown when the
\* cached set is still fresh, and no sooner than the cooldown after the start
\* of one that failed.
SparesProvider ==
  \A r \in Requests : ~Fetching(r) /\ Fetching(r)' =>
    /\ \A s \in Requests : ~Fetching(s)
    /\ lastFetch.outcome = "ok" /\ lastFetch.ended > 0 => now >= lastFetch.ended + Coalesce
    /\ Fresh => now >= refresh.completed + Cooldown
    /\ lastFetch.outcome = "failed" => now >= lastFetch.began + Cooldown

FetchesSpaced == [][SparesProvider]_vars

\* "After a refresh failure, another provider request is suppressed for 30
\* seconds" (docs/design/oidc-bearer-authentication.md): the next fetch
\* begins no sooner than the cooldown after the failure.
FailureSuppresses ==
  [][\A r \in Requests : ~Fetching(r) /\ Fetching(r)' =>
       (lastFetch.outcome = "failed" => now >= lastFetch.ended + Cooldown)]_vars
============================================================================
