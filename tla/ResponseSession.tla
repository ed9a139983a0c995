--------------------------- MODULE ResponseSession ---------------------------
(***************************************************************************)
(* The transient continuation state of WebSocket Responses: the group of   *)
(* serial sessions owned by one connection, their cached checkpoints, the  *)
(* execution leases turns hold on them, explicit pins, and the aggregate   *)
(* retained-byte budget.                                                   *)
(*                                                                         *)
(* A turn is one request run in a session.  It takes the session's lease   *)
(* (begin), resolves its parent checkpoint, runs, builds and charges the   *)
(* replacement checkpoint, writes the durable row when the request is      *)
(* stored, and publishes.  A turn is named by the response id it produces. *)
(* Every action is one critical section of the code: a lock held without   *)
(* an await, or one atomic update of the shared byte counter.              *)
(*                                                                         *)
(* An Option is a set with at most one element.  An Arc<RetainedCheckpoint>*)
(* is the immutable value itself; "by" tells apart two allocations for the *)
(* same response (the published checkpoint, and a copy a turn loads from   *)
(* durable storage), which are charged separately.                         *)
(***************************************************************************)
EXTENDS Naturals, Sequences, FiniteSets

CONSTANTS
    Sessions,      \* sessions a connection may create
    Turns,         \* turns, named by their response ids
    MaxSessions,   \* ResponseSessionGroup::max_sessions
    MaxBytes,      \* per-checkpoint limit, ResponseSessionGroup::max_bytes
    Limit,         \* aggregate limit, CheckpointBudget::limit
    Sizes,         \* sizes a serialized checkpoint may have
    MaxPins,       \* bound on live pins, for model checking
    Waiters        \* sessions somebody calls wait_until_idle on

ASSUME ConstantsAssumption ==
    /\ IsFiniteSet(Sessions)
    /\ IsFiniteSet(Turns)
    /\ {MaxSessions, MaxBytes, Limit, MaxPins} \subseteq Nat
    /\ Sizes \subseteq Nat
    /\ Waiters \subseteq Sessions

VARIABLES
    groupClosed,   \* SessionGroupState::closed
    members,       \* SessionGroupState::members
    closing,       \* members the group's Drop has taken and not closed yet
    born,          \* sessions created so far
    latest,        \* SessionState::latest
    active,        \* SessionState::active
    closed,        \* SessionState::closed
    turn,          \* the lease and the progress of every turn
    pins,          \* live ResponseCheckpointPins
    used,          \* CheckpointBudget::used
    stored,        \* history of each durable response row, when it exists
    lineage,       \* history each response was asked to have
    waiting        \* one caller of wait_until_idle per session

groupVars == <<groupClosed, members, closing, born>>
sessionVars == <<latest, active, closed>>
vars == <<groupClosed, members, closing, born, latest, active, closed, turn,
          pins, used, stored, lineage, waiting>>

-----------------------------------------------------------------------------
(* Values *)

Checkpoint == [rid : Turns, by : Turns, bytes : Nat, durable : BOOLEAN,
               history : Seq(Turns)]

Pin == [owner : Sessions, ckpt : Checkpoint]

(* "fork" is the rest of begin after it released its own session's lock,   *)
(* still under the group lock; "drop" is an abandoned turn whose lease is  *)
(* not dropped yet; "notify" is between the end of the lease's critical    *)
(* section and idle.notify_waiters().                                      *)
Phases == {"new", "fork", "rehydrate", "run", "write", "publish", "drop",
           "notify", "done"}

LeasePhases == {"fork", "rehydrate", "run", "write", "publish", "drop"}

(* A caller of wait_until_idle: outside, at the head of its loop, with its *)
(* Notified enabled, past a check that found the session active, notified  *)
(* before that check, or suspended.                                        *)
WaitStates == {"out", "loop", "enabled", "checked", "permit", "parked"}

Turn == [phase : Phases, session : SUBSET Sessions, prev : SUBSET Turns,
         store : BOOLEAN, parent : SUBSET Checkpoint,
         built : SUBSET Checkpoint]

(* The bytes charged for a set of checkpoints: their total size, counted   *)
(* as the number of (checkpoint, byte) pairs.                              *)
Cells(S) == {cell \in S \X (1 .. Limit) : cell[2] <= cell[1].bytes}
Charge(S) == Cardinality(Cells(S))

(* Every checkpoint some Arc still references.                             *)
Refs == (UNION {latest[s] : s \in Sessions})
        \cup (UNION {turn[t].parent : t \in Turns})
        \cup (UNION {turn[t].built : t \in Turns})
        \cup {p.ckpt : p \in pins}

HasLease(t) == turn[t].phase \in LeasePhases

(* A begin that is still scanning members holds the group lock.            *)
GroupLockFree == \A t \in Turns : turn[t].phase # "fork"

(* The last Arc of a checkpoint refunds its reservation when it is dropped.*)
Refund == used' = used - Charge(Refs \ Refs')

Init ==
    /\ groupClosed = FALSE
    /\ members = {}
    /\ closing = {}
    /\ born = {}
    /\ latest = [s \in Sessions |-> {}]
    /\ active = [s \in Sessions |-> FALSE]
    /\ closed = [s \in Sessions |-> FALSE]
    /\ turn = [t \in Turns |->
                 [phase |-> "new", session |-> {}, prev |-> {}, store |-> FALSE,
                  parent |-> {}, built |-> {}]]
    /\ pins = {}
    /\ used = 0
    /\ stored = [t \in Turns |-> {}]
    /\ lineage = [t \in Turns |-> <<>>]
    /\ waiting = [s \in Sessions |-> "out"]

-----------------------------------------------------------------------------
(* The session group *)

(* ResponseSessionGroup::new_session.  The cap counts every session ever   *)
(* created: members are never removed while the group is open.             *)
NewSession(s) ==
    /\ GroupLockFree
    /\ ~groupClosed
    /\ Cardinality(members) < MaxSessions
    /\ s \notin born
    /\ born' = born \cup {s}
    /\ members' = members \cup {s}
    /\ UNCHANGED <<groupClosed, closing, sessionVars, turn, pins, used, stored,
                   lineage, waiting>>

(* Drop for ResponseSessionGroup, first critical section: close the group  *)
(* and take its members.                                                   *)
DropGroup ==
    /\ GroupLockFree
    /\ ~groupClosed
    /\ groupClosed' = TRUE
    /\ closing' = members
    /\ members' = {}
    /\ UNCHANGED <<born, sessionVars, turn, pins, used, stored, lineage, waiting>>

(* Close one session: its state lock is held for the two assignments.      *)
CloseState(s) ==
    /\ closed' = [closed EXCEPT ![s] = TRUE]
    /\ latest' = [latest EXCEPT ![s] = {}]
    /\ UNCHANGED <<groupClosed, members, born, active, turn, pins, stored,
                   lineage, waiting>>
    /\ Refund

(* Drop for ResponseSessionGroup, one member of the second loop.           *)
CloseMember(s) ==
    /\ s \in closing
    /\ closing' = closing \ {s}
    /\ CloseState(s)

(* Drop for ResponseSession.                                               *)
DropSession(s) ==
    /\ s \in born
    /\ ~closed[s]
    /\ CloseState(s)
    /\ UNCHANGED closing

-----------------------------------------------------------------------------
(* Taking the lease *)

(* Mutant: begin does not look at the active flag.                         *)
SlotOpen(s) == ~closed[s]

SlotFree(s) == ~closed[s] /\ ~active[s]

(* The parts of begin and begin_pinned that run under the session's lock.  *)
TakeLease(t, s, prev, base, store, parent, phase) ==
    /\ turn[t].phase = "new"
    /\ GroupLockFree
    /\ ~groupClosed
    /\ s \in born
    /\ SlotFree(s)
    /\ active' = [active EXCEPT ![s] = TRUE]
    /\ turn' = [turn EXCEPT ![t] =
                  [phase |-> phase, session |-> {s}, prev |-> prev,
                   store |-> store, parent |-> parent, built |-> {}]]
    /\ lineage' = [lineage EXCEPT ![t] = Append(base, t)]
    /\ UNCHANGED <<groupVars, latest, closed, pins, used, stored, waiting>>

(* A client can name a response once it was announced, whatever became of  *)
(* it.                                                                     *)
Known == {p \in Turns : turn[p].phase \notin {"new", "fork", "rehydrate"}}

(* ResponseSession::begin without previous_response_id.                    *)
BeginFresh(t, s, store) == TakeLease(t, s, {}, <<>>, store, {}, "rehydrate")

(* ResponseSession::begin for previous_response_id p: the session's own    *)
(* latest checkpoint when it matches, otherwise the member scan.           *)
Begin(t, s, p, store) ==
    /\ p \in Known
    /\ LET own == {c \in latest[s] : c.rid = p} IN
       TakeLease(t, s, {p}, lineage[p], store, own,
                 IF own = {} THEN "fork" ELSE "rehydrate")

(* The fork scan of begin: an open member other than this one that still   *)
(* caches the parent.  One member lock is held at a time; a response is    *)
(* cached by one session only, so at most one member can match.            *)
ResolveFork(t) ==
    /\ turn[t].phase = "fork"
    /\ LET found == UNION {{c \in latest[m] : c.rid \in turn[t].prev} :
                           m \in {m \in members : m \notin turn[t].session /\ ~closed[m]}} IN
       turn' = [turn EXCEPT ![t].parent = found, ![t].phase = "rehydrate"]
    /\ UNCHANGED <<groupVars, sessionVars, pins, used, stored, lineage, waiting>>

(* ResponseSession::begin_pinned: begin(None), then the pinned snapshot.   *)
BeginPinned(t, pin, store) ==
    TakeLease(t, pin.owner, {pin.ckpt.rid}, lineage[pin.ckpt.rid], store,
              {pin.ckpt}, "rehydrate")

(* ResponseSession::pin_response.                                          *)
PinResponse(s) ==
    /\ GroupLockFree
    /\ ~groupClosed
    /\ ~closed[s]
    /\ Cardinality(pins) < MaxPins
    /\ \E c \in latest[s] : pins' = pins \cup {[owner |-> s, ckpt |-> c]}
    /\ UNCHANGED <<groupVars, sessionVars, turn, used, stored, lineage, waiting>>

(* The owner of a pin (a steering batch) drops it.                         *)
Unpin(pin) ==
    /\ pins' = pins \ {pin}
    /\ UNCHANGED <<groupVars, sessionVars, turn, stored, lineage, waiting>>
    /\ Refund

(* ResponseSession::discard_cached_response.                               *)
DiscardCachedResponse(s) ==
    /\ latest[s] # {}
    /\ latest' = [latest EXCEPT ![s] = {}]
    /\ UNCHANGED <<groupVars, active, closed, turn, pins, stored, lineage, waiting>>
    /\ Refund

-----------------------------------------------------------------------------
(* Running the turn *)

(* CheckpointBudget::try_reserve.                                          *)
Reserve(bytes) ==
    /\ used + bytes <= Limit
    /\ used' = used + bytes

(* rehydrate_request with from_session_response when nothing has to be     *)
(* loaded: no parent was asked for, or begin resolved it.                  *)
Rehydrate(t) ==
    /\ turn[t].phase = "rehydrate"
    /\ turn[t].prev = {} \/ turn[t].parent # {}
    /\ turn' = [turn EXCEPT ![t].phase = "run"]
    /\ UNCHANGED <<groupVars, sessionVars, pins, used, stored, lineage, waiting>>

(* from_session_response's durable fallback: only a stored request reads   *)
(* storage, and the loaded parent is charged before inference.             *)
RehydrateStored(t, bytes) ==
    /\ turn[t].phase = "rehydrate"
    /\ turn[t].parent = {}
    /\ turn[t].store
    /\ \E p \in turn[t].prev, h \in UNION {stored[q] : q \in turn[t].prev} :
         turn' = [turn EXCEPT
                    ![t].phase = "run",
                    ![t].parent = {[rid |-> p, by |-> t, bytes |-> bytes,
                                    durable |-> TRUE, history |-> h]}]
    /\ Reserve(bytes)
    /\ UNCHANGED <<groupVars, sessionVars, pins, stored, lineage, waiting>>

(* ResponseContinuation::parent_items: nothing without a parent.           *)
ParentItems(t) == IF turn[t].parent = {} THEN {<<>>}
                  ELSE {c.history : c \in turn[t].parent}

(* Mutant: a stored turn goes on to publish before its durable write.      *)
AfterBuildUnwritten(t) == "publish"

(* write_turn writes the row of a stored turn before it publishes.         *)
AfterBuild(t) == IF turn[t].store THEN "write" ELSE "publish"

(* ResponseContinuation::checkpoint: the replacement is built from the     *)
(* lease's parent and charged while the parent is still charged too.       *)
BuildCheckpoint(t, bytes) ==
    /\ turn[t].phase = "run"
    /\ bytes <= MaxBytes
    /\ Reserve(bytes)
    /\ \E h \in ParentItems(t) :
         turn' = [turn EXCEPT
                    ![t].phase = AfterBuild(t),
                    ![t].built = {[rid |-> t, by |-> t, bytes |-> bytes,
                                   durable |-> turn[t].store,
                                   history |-> Append(h, t)]}]
    /\ UNCHANGED <<groupVars, sessionVars, pins, stored, lineage, waiting>>

(* Mutant: a transient parent's history is not copied into the row.        *)
DurableHistoryUnspliced(t) ==
    IF turn[t].prev = {} \/ \E c \in turn[t].parent : ~c.durable THEN {<<t>>}
    ELSE {Append(h, t) : h \in UNION {stored[p] : p \in turn[t].prev}}

(* What write_turn stores for the turn: a transient parent's history is    *)
(* copied in front of the turn's own items and no stored parent is named;  *)
(* otherwise ResponseStore::persist extends the stored parent's history.   *)
DurableHistory(t) ==
    IF \E c \in turn[t].parent : ~c.durable
    THEN {Append(h, t) : h \in ParentItems(t)}
    ELSE IF turn[t].prev = {} THEN {<<t>>}
    ELSE {Append(h, t) : h \in UNION {stored[p] : p \in turn[t].prev}}

(* write_turn's durable write, one transaction of ResponseStore::persist.  *)
DurableWrite(t) ==
    /\ turn[t].phase = "write"
    /\ DurableHistory(t) # {}
    /\ stored' = [stored EXCEPT ![t] = DurableHistory(t)]
    /\ turn' = [turn EXCEPT ![t].phase = "publish"]
    /\ UNCHANGED <<groupVars, sessionVars, pins, used, lineage, waiting>>

(* Mutant: the parent is left to the field destructors, which run after    *)
(* the slot is free.                                                       *)
EndLeaseKeepsParent(t) ==
    turn' = [turn EXCEPT ![t].built = {}, ![t].phase = "notify"]

(* A lease ends: it gives up its parent inside the critical section that   *)
(* frees the slot, before another turn can see the session idle.           *)
EndLease(t) ==
    turn' = [turn EXCEPT ![t].parent = {}, ![t].built = {}, ![t].phase = "notify"]

(* Mutant: publish does not look at the closed flag.                       *)
MayPublishAlways(t) == TRUE

MayPublish(t) == \A s \in turn[t].session : ~closed[s]

(* ResponseContinuation::publish.                                          *)
Publish(t) ==
    /\ turn[t].phase = "publish"
    /\ MayPublish(t)
    /\ \E s \in turn[t].session :
         /\ latest' = [latest EXCEPT ![s] = turn[t].built]
         /\ active' = [active EXCEPT ![s] = FALSE]
    /\ EndLease(t)
    /\ UNCHANGED <<groupVars, closed, pins, stored, lineage, waiting>>
    /\ Refund

(* A turn gives up: an error at any step, a failed reservation or durable  *)
(* write, publish on a closed session, or its future dropped by            *)
(* cancellation (also right after the durable write).  The replacement is  *)
(* dropped before the lease, in reverse order of declaration.              *)
Abandon(t) ==
    /\ turn[t].phase \in {"rehydrate", "run", "write", "publish"}
    /\ turn' = [turn EXCEPT ![t].built = {}, ![t].phase = "drop"]
    /\ UNCHANGED <<groupVars, sessionVars, pins, stored, lineage, waiting>>
    /\ Refund

(* Drop for an unfinished ResponseContinuation: evict the parent from this *)
(* session's cache when it is still the latest, release it, free the slot. *)
DropLease(t) ==
    /\ turn[t].phase = "drop"
    /\ \E s \in turn[t].session :
         /\ latest' = [latest EXCEPT ![s] =
                         {c \in @ : \A p \in turn[t].parent : p.rid # c.rid}]
         /\ active' = [active EXCEPT ![s] = FALSE]
    /\ EndLease(t)
    /\ UNCHANGED <<groupVars, closed, pins, stored, lineage, waiting>>
    /\ Refund

(* Mutant: a waiter that has not suspended yet is not registered, as       *)
(* without enable().                                                       *)
WokenIfParked(w) == IF w = "parked" THEN "loop" ELSE w

(* What notify_waiters does to a caller: its Notified counts from enable().*)
Woken(w) == CASE w = "enabled" -> "permit"
              [] w \in {"checked", "parked"} -> "loop"
              [] OTHER -> w

(* idle.notify_waiters(), after the state lock was released.               *)
NotifyIdle(t) ==
    /\ turn[t].phase = "notify"
    /\ turn' = [turn EXCEPT ![t].phase = "done", ![t].session = {},
                           ![t].prev = {}, ![t].store = FALSE]
    /\ waiting' = [s \in Sessions |->
                     IF s \in turn[t].session THEN Woken(waiting[s]) ELSE waiting[s]]
    /\ UNCHANGED <<groupVars, sessionVars, pins, used, stored, lineage>>

-----------------------------------------------------------------------------
(* ResponseSession::wait_until_idle *)

(* A call, or the next round of its loop, registers before looking.        *)
WaitEnable(s) ==
    /\ s \in born \cap Waiters
    /\ waiting[s] \in {"out", "loop"}
    /\ waiting' = [waiting EXCEPT ![s] = "enabled"]
    /\ UNCHANGED <<groupVars, sessionVars, turn, pins, used, stored, lineage>>

(* Return when the session is idle; a notification received since the      *)
(* registration already satisfies the await that follows.                  *)
WaitCheck(s) ==
    /\ waiting[s] \in {"enabled", "permit"}
    /\ waiting' = [waiting EXCEPT ![s] =
                     IF ~active[s] THEN "out"
                     ELSE IF @ = "permit" THEN "loop" ELSE "checked"]
    /\ UNCHANGED <<groupVars, sessionVars, turn, pins, used, stored, lineage>>

(* notified.await suspends the caller.                                     *)
WaitPark(s) ==
    /\ waiting[s] = "checked"
    /\ waiting' = [waiting EXCEPT ![s] = "parked"]
    /\ UNCHANGED <<groupVars, sessionVars, turn, pins, used, stored, lineage>>

-----------------------------------------------------------------------------

WaitStep(s) == WaitEnable(s) \/ WaitCheck(s) \/ WaitPark(s)

TurnStep(t) ==
    \/ ResolveFork(t)
    \/ Rehydrate(t)
    \/ \E bytes \in Sizes : RehydrateStored(t, bytes)
    \/ \E bytes \in Sizes : BuildCheckpoint(t, bytes)
    \/ DurableWrite(t)
    \/ Publish(t)
    \/ Abandon(t)
    \/ DropLease(t)
    \/ NotifyIdle(t)

Next ==
    \/ DropGroup
    \/ \E s \in Sessions :
         \/ NewSession(s)
         \/ CloseMember(s)
         \/ DropSession(s)
         \/ PinResponse(s)
         \/ DiscardCachedResponse(s)
         \/ WaitEnable(s)
         \/ WaitCheck(s)
         \/ WaitPark(s)
    \/ \E pin \in pins : Unpin(pin)
    \/ \E t \in Turns :
         \/ \E store \in BOOLEAN :
              \/ \E s \in Sessions : BeginFresh(t, s, store)
              \/ \E s \in Sessions, p \in Turns : Begin(t, s, p, store)
              \/ \E pin \in pins : BeginPinned(t, pin, store)
         \/ TurnStep(t)

Spec == Init /\ [][Next]_vars

-----------------------------------------------------------------------------
(* Properties *)

(* Types; every member or closing session of the group was created by it.  *)
TypeOK ==
    /\ groupClosed \in BOOLEAN
    /\ members \subseteq born
    /\ closing \subseteq born
    /\ born \subseteq Sessions
    /\ latest \in [Sessions -> SUBSET Checkpoint]
    /\ active \in [Sessions -> BOOLEAN]
    /\ closed \in [Sessions -> BOOLEAN]
    /\ turn \in [Turns -> Turn]
    /\ pins \subseteq Pin
    /\ used \in Nat
    /\ stored \in [Turns -> SUBSET Seq(Turns)]
    /\ lineage \in [Turns -> Seq(Turns)]
    /\ waiting \in [Sessions -> WaitStates]

(* The shared counter always equals the total size of the checkpoints some *)
(* cache, lease, pin or prepared replacement still references, each counted*)
(* once however many share it, and never exceeds the connection's limit.   *)
BudgetExact == used = Charge(Refs) /\ used <= Limit

(* A session is active exactly while one turn holds its lease, and no two  *)
(* turns ever hold it together.                                            *)
SerialLease ==
    \A s \in Sessions :
      LET holders == {t \in Turns : HasLease(t) /\ s \in turn[t].session} IN
      /\ active[s] <=> holders # {}
      /\ \A t1, t2 \in holders : t1 = t2

(* Once every turn has given its lease back, only caches and pins are      *)
(* charged: a turn that observes the idle slot can reserve everything its  *)
(* predecessor retained.                                                   *)
IdleReleasesCharge ==
    (\A s \in Sessions : ~active[s]) =>
      used = Charge((UNION {latest[s] : s \in Sessions}) \cup {p.ckpt : p \in pins})

(* The budget of a connection is exact at every point, and given back when *)
(* the sessions are idle (session.rs reserve, release).                    *)
BudgetSound == BudgetExact /\ IdleReleasesCharge

(* A closed session caches nothing, and a group whose Drop has finished    *)
(* leaves no member open, so no late completion is ever cached.            *)
ClosedCachesNothing ==
    /\ \A s \in Sessions : closed[s] => latest[s] = {}
    /\ groupClosed => \A s \in born : closed[s] \/ s \in closing

(* Whatever mix of stored and transient turns, forks, pins, evictions and  *)
(* storage fallbacks led to it, a retained checkpoint and a stored row     *)
(* hold exactly the history of the chain their request named.              *)
HistoryContinuity ==
    /\ \A c \in Refs : c.history = lineage[c.rid]
    /\ \A t \in Turns : \A h \in stored[t] : h = lineage[t]

(* A checkpoint another turn can continue says it is durable only if its   *)
(* row was stored: publication follows the durable write.                  *)
DurableMeansStored ==
    /\ \A s \in Sessions : \A c \in latest[s] : c.durable => stored[c.rid] # {}
    /\ \A t \in Turns : \A c \in turn[t].parent : c.durable => stored[c.rid] # {}

-----------------------------------------------------------------------------
(* Liveness.  wait_until_idle is called after the session's turn was       *)
(* cancelled or finished, so turns and the waiter itself are scheduled     *)
(* fairly; nothing is assumed about when turns begin.                      *)

Fairness ==
    /\ \A t \in Turns : WF_vars(TurnStep(t))
    /\ \A s \in Sessions : WF_vars(waiting[s] # "out" /\ WaitStep(s))

FairSpec == Spec /\ Fairness

(* A waiter is never left parked: every wait_until_idle returns.           *)
WaitReturns == \A s \in Sessions : waiting[s] # "out" ~> waiting[s] = "out"

=============================================================================
