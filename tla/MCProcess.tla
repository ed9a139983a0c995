----------------------------- MODULE MCProcess ------------------------------
(***************************************************************************)
(* For TLC, state that the requests and tasks of a process share: the rate *)
(* limiter (RateLimiter), the event sink of a retained response            *)
(* (RetainedRun), the verification keys (JwksCache) and the leases its     *)
(* maintenance renews (MessageThreads).  A behaviour checks one part,      *)
(* chosen at the start; the variables of the other modules rest:           *)
(*   limits  checks of several callers on a map that is full               *)
(*   run     a response with two acknowledging tasks, a flush and a relay  *)
(*   keys    two requests and a provider of one key that rotates; one tick *)
(*           stands for the coalescing window, the wait timeout and a slow *)
(*           fetch, the cooldown is two                                  *)
(*   leases  several lease periods and maintenance passes of one replica   *)
(* The constants of RateLimiter are in the cfg.                            *)
(***************************************************************************)
EXTENDS RateLimiter, TLC

CONSTANTS x1, x2, Never, NoOne

VARIABLES
    part,    \* the part this behaviour checks
    owner, cancelled, worker, pending, permits, relay, log, delivered, accum, outcome,
    stored, waiter, frames,
    now, provider, publishedAt, absentAt, rotations, keys, expires, refresh, gate, req, lastFetch,
    time, skew, row, turn, active, cleanup, renewing, passes, committed

Run == INSTANCE RetainedRun WITH
    Worker <- "worker", Flusher <- "flusher", Acks <- {x1, x2}, Capacity <- 1, MaxFrames <- 2

Jwks == INSTANCE JwksCache WITH
    Requests <- {x1, x2}, Kids <- {"old", "new"}, Ttls <- {0, 4}, Cooldown <- 2, Coalesce <- 1,
    WaitTimeout <- 1, FetchTimeout <- 1, MaxTime <- 6, MaxRotations <- 1

Leases == INSTANCE MessageThreads WITH
    Replicas <- {"replica"}, Turns <- {x1, x2}, None <- NoOne, Lease <- 2, Ttl <- 3,
    MaxSkew <- 1, MaxClock <- 5, MaxPasses <- 3, clock <- time

ASSUME Run!ConstantsOK /\ Jwks!ConstantsOK

Symmetry == Permutations(Callers)

runVars == <<owner, cancelled, worker, pending, permits, relay, log, delivered, accum, outcome,
             stored, waiter, frames>>
keyVars == <<now, provider, publishedAt, absentAt, rotations, keys, expires, refresh, gate, req,
             lastFetch>>
leaseVars == <<time, skew, row, turn, active, cleanup, renewing, passes, committed>>

MCInit ==
    /\ part \in {"limits", "run", "keys", "leases"}
    /\ Init /\ Run!Init /\ Jwks!Init /\ Leases!Init
    /\ part # "run" => owner = "running"
    /\ provider = {"old"} /\ (part # "keys" => expires = 0)
    /\ part # "leases" => skew = [r \in {"replica"} |-> 0]

MCNext ==
    /\ UNCHANGED part
    /\ \/ part = "limits" /\ Next /\ UNCHANGED <<runVars, keyVars, leaseVars>>
       \/ part = "run" /\ Run!Next /\ UNCHANGED <<vars, keyVars, leaseVars>>
       \/ part = "keys" /\ Jwks!Next /\ UNCHANGED <<vars, runVars, leaseVars>>
       \/ part = "leases" /\ Leases!Next /\ UNCHANGED <<vars, runVars, keyVars>>
       \* the bounds are reached, or nothing more is asked
       \/ UNCHANGED <<vars, runVars, keyVars, leaseVars>>

MCSpec == MCInit /\ [][MCNext]_<<part, vars, runVars, keyVars, leaseVars>>

-----------------------------------------------------------------------------
(* The properties of the parts beside limits. *)

(* Whatever interleaving of the task and the connection's acknowledgements *)
(* enqueued them, the client's frames are numbered 0, 1, 2, ...            *)
(* (response_events.rs emit_frame).                                        *)
SequenceGapless == part = "run" => Run!SequenceGapless

(* The client is told of a response that completed only after it was       *)
(* stored, and at most one frame ends it (response_run_owner.rs).          *)
CompletedIsStored == part = "run" => Run!CompletedIsStored

(* The receipt names the frame that created the response                   *)
(* (response_events.rs wait_created).                                      *)
ReceiptExact == part = "run" => Run!ReceiptExact

(* The observed outcome is the truth about storing and delivery            *)
(* (response_run_owner.rs join).                                           *)
OutcomeTrue == part = "run" => Run!OutcomeTrue

(* After the owner joined, the absence of a receipt is final, so that the  *)
(* successor's input may be rolled back.                                   *)
JoinedReceiptFinal == [][part = "run" => Run!KeepsReceipt]_runVars

(* A key the provider has withdrawn is accepted no longer than its set's   *)
(* lifetime and a fetch (auth.rs).                                         *)
WithdrawnKeysExpire == part = "keys" => Jwks!WithdrawnKeysExpire

(* A key is called unknown only if the provider did without it within the  *)
(* cooldown and a fetch (auth.rs).                                         *)
UnknownWasAbsent == part = "keys" => Jwks!UnknownWasAbsent

(* A back-off that still holds is of a fetch under way or of one that      *)
(* failed, never of a dropped request (auth.rs:150).                       *)
BackoffMeansFailure == part = "keys" => Jwks!BackoffMeansFailure

(* Fetches are one at a time and apart by the coalescing window, the       *)
(* cooldown or the back-off (auth.rs).                                     *)
FetchesSpaced == [][part = "keys" => Jwks!SparesProvider]_keyVars

(* A lease whose request is gone blocks its parent for a bounded time: a   *)
(* maintenance pass that copied the token earlier may renew it once more,  *)
(* and never again (storage/messages.rs maintain).                         *)
AbandonedLeaseEnds == part = "leases" => Leases!AbandonedExpires

(* What the client and the owner are told of a run is true and in order.   *)
RunTold ==
    /\ [](/\ part = "run" => Run!TypeOK
          /\ SequenceGapless /\ CompletedIsStored /\ ReceiptExact /\ OutcomeTrue)
    /\ JoinedReceiptFinal

(* What is kept for a time is kept for no more than that: keys, refusals   *)
(* of keys and of fetches, and leases.                                     *)
LifetimesBounded ==
    /\ [](/\ part = "keys" => Jwks!TypeOK
          /\ WithdrawnKeysExpire /\ UnknownWasAbsent /\ BackoffMeansFailure
          /\ AbandonedLeaseEnds)
    /\ FetchesSpaced
=============================================================================
