--------------------------- MODULE MessageThreads ---------------------------
(***************************************************************************)
(* Messages-native threads shared by several gateway replicas through one  *)
(* database. A continuation loads its parent, reserves it with a lease     *)
(* that its replica renews, runs inference, and consumes the parent and    *)
(* stores the child in one transaction fenced by the lease's token.        *)
(*                                                                         *)
(* Replicas read their own clocks. A turn's id stands for the message it   *)
(* produces and for its lease token (both are fresh UUIDs); all turns      *)
(* belong to one owner. A history is the sequence of turns whose messages  *)
(* it holds.                                                               *)
(***************************************************************************)
EXTENDS Integers, Sequences

CONSTANTS
    Replicas,   \* gateway processes
    Turns,      \* Messages requests with a thread
    None,       \* no parent, or no token
    Lease,      \* LEASE_SECONDS
    Ttl,        \* THREAD_TTL_SECONDS
    MaxSkew,    \* how far a replica's clock runs ahead of another's
    MaxClock,   \* bound on the clock, for model checking
    MaxPasses   \* bound on each replica's maintenance passes

ASSUME ConstantsAssumption ==
    /\ None \notin Turns
    /\ {Lease, Ttl} \subseteq Nat \ {0}
    /\ {MaxSkew, MaxClock, MaxPasses} \subseteq Nat

VARIABLES
    clock,      \* true time
    skew,       \* each replica's lead over it
    row,        \* table message_threads
    turn,       \* each request's progress
    active,     \* Inner::active of each replica
    cleanup,    \* tokens that Inner::cleanup tasks will release
    renewing,   \* what a replica's maintenance pass still has to renew
    passes,     \* maintenance passes started (bound)
    committed   \* turns whose transaction committed

vars == <<clock, skew, row, turn, active, cleanup, renewing, passes, committed>>

Row == [state : {"absent", "ready", "in_flight", "consumed"}, token : Turns \cup {None},
        until : Nat, expires : Nat, history : Seq(Turns)]

NoRow == [state |-> "absent", token |-> None, until |-> 0, expires |-> 0, history |-> <<>>]

Turn == [phase : {"new", "loaded", "reserved", "active", "published", "done", "failed"},
         rep : Replicas \cup {None}, parent : Turns \cup {None}, base : Seq(Turns), left : Nat]

Init ==
    /\ clock = 0
    /\ skew \in [Replicas -> 0..MaxSkew]
    /\ row = [m \in Turns |-> NoRow]
    /\ turn = [t \in Turns |-> [phase |-> "new", rep |-> None, parent |-> None,
                                base |-> <<>>, left |-> 0]]
    /\ active = [r \in Replicas |-> {}]
    /\ cleanup = [r \in Replicas |-> {}]
    /\ renewing = [r \in Replicas |-> {}]
    /\ passes = [r \in Replicas |-> 0]
    /\ committed = {}

Now(r) == clock + skew[r]

Fail(t) == [turn EXCEPT ![t].phase = "failed", ![t].left = clock]

-----------------------------------------------------------------------------
(* Requests *)

(* prepare of thread.create: nothing to load or reserve.                   *)
PrepareCreate(t, r) ==
    /\ turn[t].phase = "new"
    /\ turn' = [turn EXCEPT ![t].phase = "active", ![t].rep = r]
    /\ UNCHANGED <<clock, skew, row, active, cleanup, renewing, passes, committed>>

(* MessageThreadStore::load finds a parent that may be continued.          *)
Loadable(p, now) ==
    /\ row[p].state \in {"ready", "in_flight"}
    /\ row[p].expires > now
    /\ row[p].state = "in_flight" => row[p].until <= now

(* prepare of thread.continue up to the reservation.                       *)
Load(t, r, p) ==
    /\ turn[t].phase = "new"
    /\ p # t
    /\ Loadable(p, Now(r))
    /\ turn' = [turn EXCEPT ![t].phase = "loaded", ![t].rep = r, ![t].parent = p,
                            ![t].base = row[p].history]
    /\ UNCHANGED <<clock, skew, row, active, cleanup, renewing, passes, committed>>

(* The WHERE clause of message_thread::reserve.                            *)
Reservable(p, now) ==
    /\ row[p].expires > now
    /\ \/ row[p].state = "ready"
       \/ row[p].state = "in_flight" /\ row[p].until <= now

(* The reservation commits. The request can still be dropped before its    *)
(* lease guard exists.                                                     *)
Reserve(t) ==
    /\ turn[t].phase = "loaded"
    /\ LET p == turn[t].parent
           now == Now(turn[t].rep) IN
       /\ Reservable(p, now)
       /\ row' = [row EXCEPT ![p].state = "in_flight", ![p].token = t, ![p].until = now + Lease]
    /\ turn' = [turn EXCEPT ![t].phase = "reserved"]
    /\ UNCHANGED <<clock, skew, active, cleanup, renewing, passes, committed>>

(* No row was changed, validation of the loaded parent failed, or the      *)
(* request was dropped: it ends without a lease guard.                     *)
Refuse(t) ==
    /\ turn[t].phase \in {"loaded", "reserved"}
    /\ turn' = Fail(t)
    /\ UNCHANGED <<clock, skew, row, active, cleanup, renewing, passes, committed>>

(* reserve returns the guard and registers its token for renewal.          *)
Activate(t) ==
    /\ turn[t].phase = "reserved"
    /\ turn' = [turn EXCEPT ![t].phase = "active"]
    /\ active' = [active EXCEPT ![turn[t].rep] = @ \cup {t}]
    /\ UNCHANGED <<clock, skew, row, cleanup, renewing, passes, committed>>

(* The WHERE clause of message_thread::consume_in_tx.                      *)
Holds(t, p, now) ==
    row[p].token = t /\ row[p].state = "in_flight" /\ row[p].until > now

(* Mutant: the child starts a history of its own.                          *)
ChildOwn(t, now) == [NoRow EXCEPT !.state = "ready", !.expires = now + Ttl, !.history = <<t>>]

(* MessagesThreadTurn::complete and message_thread::create_in_tx.          *)
Child(t, now) ==
    [NoRow EXCEPT !.state = "ready", !.expires = now + Ttl, !.history = Append(turn[t].base, t)]

(* message_thread::consume_in_tx.                                          *)
Consumed(p) == [row[p] EXCEPT !.state = "consumed", !.token = None, !.until = 0, !.history = <<>>]

(* publish: the transaction, with the parent (if any) still held and the   *)
(* child kept or, after a refusal or a fallback, discarded.                *)
Publish(t, keep) ==
    LET p == turn[t].parent
        now == Now(turn[t].rep) IN
    /\ turn[t].phase = "active"
    /\ p # None => Holds(t, p, now)
    /\ row' = [m \in Turns |-> IF m = p THEN Consumed(p)
                               ELSE IF m = t /\ keep THEN Child(t, now) ELSE row[m]]
    /\ committed' = committed \cup {t}
    /\ turn' = [turn EXCEPT ![t].phase = "published"]
    /\ UNCHANGED <<clock, skew, active, cleanup, renewing, passes>>

(* publish returns and its completed guard is dropped.                     *)
Finish(t) ==
    /\ turn[t].phase = "published"
    /\ turn' = [turn EXCEPT ![t].phase = "done"]
    /\ active' = [active EXCEPT ![turn[t].rep] = @ \ {t}]
    /\ UNCHANGED <<clock, skew, row, cleanup, renewing, passes, committed>>

(* Drop for MessageThreadLease forgets the token.                          *)
Dropped(r, t) == [active EXCEPT ![r] = @ \ {t}]

(* The request fails, is cancelled, or lost its lease: the guard is        *)
(* dropped uncompleted and a task will release the token, perhaps of a     *)
(* transaction that did commit.                                            *)
Abandon(t) ==
    /\ turn[t].phase \in {"active", "published"}
    /\ LET r == turn[t].rep IN
       /\ active' = Dropped(r, t)
       /\ cleanup' = IF turn[t].parent = None THEN cleanup
                     ELSE [cleanup EXCEPT ![r] = @ \cup {t}]
    /\ turn' = Fail(t)
    /\ UNCHANGED <<clock, skew, row, renewing, passes, committed>>

-----------------------------------------------------------------------------
(* Background work of a replica *)

(* Mutant: any lease on the parent is released.                            *)
ReleasedParent(t) ==
    [m \in Turns |-> IF m = turn[t].parent /\ row[m].state = "in_flight"
                     THEN [row[m] EXCEPT !.state = "ready", !.token = None, !.until = 0]
                     ELSE row[m]]

(* message_thread::release, by token.                                      *)
Released(t) ==
    [m \in Turns |-> IF row[m].token = t /\ row[m].state = "in_flight"
                     THEN [row[m] EXCEPT !.state = "ready", !.token = None, !.until = 0]
                     ELSE row[m]]

(* A cleanup task runs; its statement may fail.                            *)
Release(r, t) ==
    /\ t \in cleanup[r]
    /\ cleanup' = [cleanup EXCEPT ![r] = @ \ {t}]
    /\ row' \in {Released(t), row}
    /\ UNCHANGED <<clock, skew, turn, active, renewing, passes, committed>>

(* maintain copies the active leases, ...                                  *)
MaintainBegin(r) ==
    /\ renewing[r] = {} /\ active[r] # {}
    /\ passes[r] < MaxPasses
    /\ passes' = [passes EXCEPT ![r] = @ + 1]
    /\ renewing' = [renewing EXCEPT ![r] = active[r]]
    /\ UNCHANGED <<clock, skew, row, turn, active, cleanup, committed>>

(* ... renews them one after the other (message_thread::renew), and gives  *)
(* up at the first error.                                                  *)
Renew(r, t) ==
    LET p == turn[t].parent IN
    /\ t \in renewing[r]
    /\ \/ /\ renewing' = [renewing EXCEPT ![r] = @ \ {t}]
          /\ row' = IF p # None /\ Holds(t, p, Now(r))
                    THEN [row EXCEPT ![p].until = Now(r) + Lease]
                    ELSE row
       \/ /\ renewing' = [renewing EXCEPT ![r] = {}]
          /\ row' = row
    /\ UNCHANGED <<clock, skew, turn, active, cleanup, passes, committed>>

(* The rows that message_thread::expire deletes.                           *)
Expired(now) ==
    {m \in Turns : /\ row[m].state # "absent"
                   /\ row[m].expires <= now
                   /\ row[m].state # "in_flight" \/ row[m].until <= now}

(* The end of a maintenance pass.                                          *)
Expire(r) ==
    /\ renewing[r] = {}
    /\ Expired(Now(r)) # {}
    /\ row' = [m \in Turns |-> IF m \in Expired(Now(r)) THEN NoRow ELSE row[m]]
    /\ UNCHANGED <<clock, skew, turn, active, cleanup, renewing, passes, committed>>

(* A replica stops and starts again: its requests, guards and tasks are    *)
(* gone, its leases stay in the table.                                     *)
Crash(r) ==
    /\ \E t \in Turns : turn[t].rep = r
    /\ turn' = [t \in Turns |->
                  IF turn[t].rep = r /\ turn[t].phase \notin {"new", "done", "failed"}
                  THEN [turn[t] EXCEPT !.phase = "failed", !.left = clock] ELSE turn[t]]
    /\ active' = [active EXCEPT ![r] = {}]
    /\ cleanup' = [cleanup EXCEPT ![r] = {}]
    /\ renewing' = [renewing EXCEPT ![r] = {}]
    /\ turn' # turn \/ cleanup' # cleanup
    /\ UNCHANGED <<clock, skew, row, passes, committed>>

Tick ==
    /\ clock < MaxClock
    /\ clock' = clock + 1
    /\ UNCHANGED <<skew, row, turn, active, cleanup, renewing, passes, committed>>

Next ==
    \/ Tick
    \/ \E r \in Replicas : MaintainBegin(r) \/ Expire(r) \/ Crash(r)
    \/ \E r \in Replicas, t \in Turns : PrepareCreate(t, r) \/ Release(r, t) \/ Renew(r, t)
    \/ \E r \in Replicas, t, p \in Turns : Load(t, r, p)
    \/ \E t \in Turns : \/ Reserve(t) \/ Refuse(t) \/ Activate(t) \/ Finish(t) \/ Abandon(t)
                        \/ \E keep \in BOOLEAN : Publish(t, keep)

Spec == Init /\ [][Next]_vars

-----------------------------------------------------------------------------
(* Properties *)

(* Types.                                                                  *)
TypeOK ==
    /\ clock \in Nat
    /\ skew \in [Replicas -> 0..MaxSkew]
    /\ row \in [Turns -> Row]
    /\ turn \in [Turns -> Turn]
    /\ active \in [Replicas -> SUBSET Turns]
    /\ cleanup \in [Replicas -> SUBSET Turns]
    /\ renewing \in [Replicas -> SUBSET Turns]
    /\ passes \in [Replicas -> Nat]
    /\ committed \subseteq Turns

(* Two replicas never both finish a continuation of one message, whoever's *)
(* lease ran out, was taken over, released late or renewed from a stale    *)
(* list.                                                                   *)
ContinuedOnce ==
    \A s, t \in committed : turn[s].parent = turn[t].parent => s = t \/ turn[s].parent = None

(* A lease whose request is gone (failed, dropped between reserving and    *)
(* holding the guard, or crashed with its replica) blocks its parent for a *)
(* bounded time: a maintenance pass that copied the token earlier may      *)
(* renew it once more, and never again.                                    *)
AbandonedExpires ==
    \A p, t \in Turns :
      /\ row[p].state = "in_flight" /\ row[p].token = t
      /\ turn[t].phase = "failed"
      => row[p].until <= turn[t].left + skew[turn[t].rep] + 2 * Lease

(* A late release never breaks a lease that another request has taken      *)
(* since: a step of somebody else ends t's lease only once it has expired  *)
(* by that replica's clock.                                                *)
LeaseRespected ==
    [][\A p, t \in Turns :
         /\ row[p].state = "in_flight" /\ row[p].token = t
         /\ turn[t].phase \in {"reserved", "active"} /\ turn'[t] = turn[t]
         /\ row'[p].token # t
         => \E r \in Replicas : row[p].until <= Now(r)]_vars

(* What the in-flight states of the rows and their tokens are for: one     *)
(* continuation per message, and a lease its holder can rely on.           *)
ThreadsSound == [](TypeOK /\ ContinuedOnce) /\ LeaseRespected

(* The store with its leases, replicas and crashes implements ThreadLog:   *)
(* continuation is one atomic step that happens at most once for each      *)
(* message and extends exactly its history.                                *)
Log == INSTANCE ThreadLog WITH
    Messages <- Turns,
    open <- {m \in Turns : row[m].state \in {"ready", "in_flight"}},
    history <- [m \in Turns |-> row[m].history],
    continued <- {turn[t].parent : t \in committed} \ {None}

(* See Log.                                                                *)
ImplementsThreadLog == Log!Spec

=============================================================================
