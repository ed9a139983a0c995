----------------------------- MODULE RetainedRun -----------------------------
(***************************************************************************)
(* One retained response of a WebSocket connection: the task that executes *)
(* it (ResponseRunOwner), the event sink through which that task and the   *)
(* connection's own acknowledgements reach the client in one numbered      *)
(* sequence (ResponseEventSink over GatewayStreamAccumulator), and the     *)
(* bounded queue with the relay that drains it.                            *)
(*                                                                         *)
(* A producer waits for a place in the queue, then numbers and enqueues    *)
(* its frame under the sink's lock: two steps, between which the relay may *)
(* close. Content is abstracted to a frame's kind.                         *)
(***************************************************************************)
EXTENDS Integers, Sequences, FiniteSets

CONSTANTS
    Worker,     \* the spawned task
    Acks,       \* emit_local and emit_steering calls of the connection
    Flusher,    \* a flush call
    Capacity,   \* STREAM_EVENT_BUFFER
    MaxFrames   \* frames presented and acknowledged in all (bound)

ConstantsOK ==
    /\ Worker # Flusher /\ {Worker, Flusher} \cap Acks = {}
    /\ Capacity \in Nat \ {0} /\ MaxFrames \in Nat

Producers == Acks \cup {Worker, Flusher}

VARIABLES
    owner,      \* ResponseRunState, or "dropped"
    cancelled,  \* ResponseRunOwner::cancellation
    worker,     \* the task: where it is, what it presents, how it ends
    pending,    \* what each producer waits to enqueue, an Option
    permits,    \* producers that hold a place in the queue
    relay,      \* whether the receiver still exists
    log,        \* everything ever enqueued, in order
    delivered,  \* how much of it the relay has taken
    accum,      \* GatewayStreamAccumulator
    outcome,    \* the watched ResponseState
    stored,     \* the turn was persisted
    waiter,     \* a wait_created call
    frames      \* frames presented so far (bound)

vars == <<owner, cancelled, worker, pending, permits, relay, log, delivered, accum,
          outcome, stored, waiter, frames>>

Kinds == {"created", "in_progress", "item", "ack", "completed", "failed", "error", "flush"}

Frame == [kind : Kinds, seq : Nat]

(* The frames that end a response for the client.                          *)
Closing == {"completed", "failed", "error"}

Init ==
    /\ owner \in {"awaiting", "running"}
    /\ cancelled = FALSE
    /\ worker = [pc |-> IF owner = "awaiting" THEN "gate" ELSE "run", result |-> "none",
                 terminal |-> "completed"]
    /\ pending = [p \in Producers |-> {}]
    /\ permits = {}
    /\ relay = "open"
    /\ log = <<>> /\ delivered = 0
    /\ accum = [next |-> 0, created |-> FALSE, inProgress |-> FALSE]
    /\ outcome = [commit |-> "running", receipt |-> {}, joined |-> FALSE]
    /\ stored = FALSE
    /\ waiter = "idle"
    /\ frames = 0

-----------------------------------------------------------------------------
(* The sink *)

(* Sender::reserve: a place in the bounded queue.                          *)
Reserve(p) ==
    /\ pending[p] # {} /\ p \notin permits
    /\ relay = "open"
    /\ Len(log) - delivered + Cardinality(permits) < Capacity
    /\ permits' = permits \cup {p}
    /\ UNCHANGED <<owner, cancelled, worker, pending, relay, log, delivered, accum, outcome,
                   stored, waiter, frames>>

(* GatewayStreamAccumulator::should_emit_lifecycle.                        *)
ShouldEmit(kind) ==
    /\ kind = "created" => ~accum.created
    /\ kind = "in_progress" => ~accum.inProgress

(* Mutant: a response start is numbered before it is found a duplicate.    *)
StampedEarly(kind) ==
    [next |-> accum.next + (IF kind = "item" THEN 1 ELSE 2),
     created |-> accum.created \/ kind = "created",
     inProgress |-> accum.inProgress \/ kind = "in_progress"]

(* stamp_event and take_once.                                              *)
Stamped(kind) ==
    [next |-> accum.next + 1,
     created |-> accum.created \/ kind = "created",
     inProgress |-> accum.inProgress \/ kind = "in_progress"]

(* emit_frame under the lock: number, enqueue and commit.                  *)
Enqueued(p, kind) ==
    /\ log' = Append(log, [kind |-> kind, seq |-> accum.next])
    /\ accum' = Stamped(kind)
    /\ permits' = permits \ {p}
    /\ pending' = [pending EXCEPT ![p] = {}]

(* emit_frame refuses a duplicate lifecycle event or an oversized one; it  *)
(* consumes no number.                                                     *)
Dropped(p) ==
    /\ permits' = permits \ {p}
    /\ pending' = [pending EXCEPT ![p] = {}]
    /\ UNCHANGED <<log, accum>>

(* An acknowledgement through the same sequence; a failure to deliver it   *)
(* is not reported to the response.                                        *)
EmitAck(a) ==
    /\ pending[a] = {}
    /\ frames < MaxFrames
    /\ frames' = frames + 1
    /\ pending' = [pending EXCEPT ![a] = {"ack"}]
    /\ UNCHANGED <<owner, cancelled, worker, permits, relay, log, delivered, accum, outcome,
                   stored, waiter>>

PublishAck(a) ==
    /\ a \in permits
    /\ Enqueued(a, "ack") \/ Dropped(a)
    /\ UNCHANGED <<owner, cancelled, worker, relay, delivered, outcome, stored, waiter, frames>>

AckFails(a) ==
    /\ pending[a] # {} /\ a \notin permits /\ relay = "closed"
    /\ pending' = [pending EXCEPT ![a] = {}]
    /\ UNCHANGED <<owner, cancelled, worker, permits, relay, log, delivered, accum, outcome,
                   stored, waiter, frames>>

(* flush: a marker without a number; it needs a place in the queue, too.   *)
FlushBegin ==
    /\ pending[Flusher] = {} /\ "flush" \notin {log[i].kind : i \in DOMAIN log}
    /\ pending' = [pending EXCEPT ![Flusher] = {"flush"}]
    /\ UNCHANGED <<owner, cancelled, worker, permits, relay, log, delivered, accum, outcome,
                   stored, waiter, frames>>

FlushSend ==
    /\ Flusher \in permits
    /\ log' = Append(log, [kind |-> "flush", seq |-> accum.next])
    /\ permits' = permits \ {Flusher}
    /\ pending' = [pending EXCEPT ![Flusher] = {}]
    /\ UNCHANGED <<owner, cancelled, worker, relay, delivered, accum, outcome, stored, waiter,
                   frames>>

(* ResponseEventSink::stream hands the next frame to the transport.        *)
Deliver ==
    /\ relay = "open" /\ delivered < Len(log)
    /\ delivered' = delivered + 1
    /\ UNCHANGED <<owner, cancelled, worker, pending, permits, relay, log, accum, outcome,
                   stored, waiter, frames>>

(* The connection drops the event stream with whatever is still queued.    *)
CloseRelay ==
    /\ relay = "open"
    /\ relay' = "closed"
    /\ UNCHANGED <<owner, cancelled, worker, pending, permits, log, delivered, accum, outcome,
                   stored, waiter, frames>>

-----------------------------------------------------------------------------
(* The execution task *)

(* activate: the owner releases the gated execution.                       *)
Activate ==
    /\ owner = "awaiting"
    /\ owner' = "running"
    /\ UNCHANGED <<cancelled, worker, pending, permits, relay, log, delivered, accum, outcome,
                   stored, waiter, frames>>

(* The gate's select, biased towards cancellation.                         *)
PassGate ==
    /\ worker.pc = "gate" /\ owner = "running" /\ ~cancelled
    /\ worker' = [worker EXCEPT !.pc = "run"]
    /\ UNCHANGED <<owner, cancelled, pending, permits, relay, log, delivered, accum, outcome,
                   stored, waiter, frames>>

(* run_until_gateway_tools_complete presents a frame; an upstream round    *)
(* starts with its own response.created and response.in_progress.          *)
Present(kind) ==
    /\ worker.pc = "run" /\ pending[Worker] = {}
    /\ frames < MaxFrames
    /\ frames' = frames + 1
    /\ pending' = [pending EXCEPT ![Worker] = {kind}]
    /\ UNCHANGED <<owner, cancelled, worker, permits, relay, log, delivered, accum, outcome,
                   stored, waiter>>

(* emit_frame's receipt for a response.created.                            *)
Receipt(kind) == IF kind = "created" THEN {accum.next} ELSE outcome.receipt

(* One of those frames is enqueued, or was a duplicate.                    *)
PresentPublish ==
    /\ worker.pc = "run" /\ Worker \in permits
    /\ \E kind \in pending[Worker] :
         \/ /\ ShouldEmit(kind)
            /\ Enqueued(Worker, kind)
            /\ outcome' = [outcome EXCEPT !.receipt = Receipt(kind)]
         \/ /\ ~ShouldEmit(kind)
            /\ Dropped(Worker)
            /\ UNCHANGED outcome
    /\ UNCHANGED <<owner, cancelled, worker, relay, delivered, stored, waiter, frames>>

(* The execution returned a payload and its terminal frame fits in any     *)
(* sequence number.                                                        *)
RunReturns(terminal) ==
    /\ worker.pc = "run" /\ pending[Worker] = {}
    /\ worker' = [worker EXCEPT !.pc = "persist", !.terminal = terminal]
    /\ UNCHANGED <<owner, cancelled, pending, permits, relay, log, delivered, accum, outcome,
                   stored, waiter, frames>>

(* persist succeeds; a cancelled run does not start it.                    *)
PersistDone ==
    /\ worker.pc = "persist" /\ ~cancelled
    /\ stored' = TRUE
    /\ worker' = [worker EXCEPT !.pc = "terminal"]
    /\ pending' = [pending EXCEPT ![Worker] = {worker.terminal}]
    /\ UNCHANGED <<owner, cancelled, permits, relay, log, delivered, accum, outcome, waiter,
                   frames>>

(* emit_terminal's outcome.                                                *)
Committed(terminal) == IF terminal = "failed" THEN "failed" ELSE "committed"

(* emit_terminal enqueues the terminal frame and then sets the outcome.    *)
EmitTerminal ==
    /\ worker.pc = "terminal" /\ Worker \in permits
    /\ Enqueued(Worker, worker.terminal)
    /\ outcome' = [outcome EXCEPT !.commit = Committed(worker.terminal)]
    /\ worker' = [worker EXCEPT !.pc = "ended", !.result = "ok"]
    /\ UNCHANGED <<owner, cancelled, relay, delivered, stored, waiter, frames>>

(* The result is an error: mark_failed, and the error is to be delivered,  *)
(* as response.failed for a rejected tool search, as error otherwise.      *)
Failing(kind) ==
    /\ worker' = [worker EXCEPT !.pc = "deliver", !.result = "err"]
    /\ outcome' = [outcome EXCEPT !.commit = "failed"]
    /\ permits' = permits \ {Worker}
    /\ pending' = [pending EXCEPT ![Worker] = {kind}]
    /\ UNCHANGED <<owner, cancelled, relay, log, delivered, accum, waiter, frames>>

(* Cancelled at the gate, or its activation sender is gone.                *)
GateFails ==
    /\ worker.pc = "gate"
    /\ cancelled \/ owner = "dropped"
    /\ Failing("error") /\ UNCHANGED stored

(* The execution failed, its payload does not fit, or it was cancelled.    *)
RunFails(kind) ==
    /\ worker.pc = "run"
    /\ Failing(kind) /\ UNCHANGED stored

(* persist fails before its commit, or is dropped by a cancellation on     *)
(* either side of it.                                                      *)
PersistFails ==
    /\ worker.pc = "persist"
    /\ Failing("error")
    /\ IF cancelled THEN stored' \in {stored, TRUE} ELSE UNCHANGED stored

(* The terminal frame is not delivered: cancelled, or the relay is gone.   *)
TerminalFails ==
    /\ worker.pc = "terminal"
    /\ cancelled \/ (relay = "closed" /\ Worker \notin permits)
    /\ Failing("error") /\ UNCHANGED stored

Aborted == [outcome EXCEPT !.commit = "aborted"]

(* The error reaches the relay; or cancellation makes it moot; or it       *)
(* cannot be delivered and the transport has to be closed.                 *)
DeliverError ==
    /\ worker.pc = "deliver"
    /\ \/ /\ ~cancelled /\ Worker \in permits
          /\ \E kind \in pending[Worker] : Enqueued(Worker, kind)
          /\ UNCHANGED outcome
       \/ /\ cancelled
          /\ Dropped(Worker) /\ UNCHANGED outcome
       \/ /\ ~cancelled /\ relay = "closed" /\ Worker \notin permits
          /\ Dropped(Worker)
          /\ outcome' = Aborted
    /\ worker' = [worker EXCEPT !.pc = "ended"]
    /\ UNCHANGED <<owner, cancelled, relay, delivered, stored, waiter, frames>>

(* The task panics while it executes.                                      *)
Panic ==
    /\ worker.pc = "run"
    /\ worker' = [worker EXCEPT !.pc = "ended", !.result = "panic"]
    /\ permits' = permits \ {Worker}
    /\ pending' = [pending EXCEPT ![Worker] = {}]
    /\ UNCHANGED <<owner, cancelled, relay, log, delivered, accum, outcome, stored, waiter, frames>>

-----------------------------------------------------------------------------
(* The owner and observers *)

Cancel ==
    /\ ~cancelled
    /\ cancelled' = TRUE
    /\ UNCHANGED <<owner, worker, pending, permits, relay, log, delivered, accum, outcome,
                   stored, waiter, frames>>

(* Dropping the owner cancels, and abandons an activation.                 *)
OwnerDrop ==
    /\ owner \in {"awaiting", "running"}
    /\ owner' = "dropped"
    /\ cancelled' = TRUE
    /\ UNCHANGED <<worker, pending, permits, relay, log, delivered, accum, outcome, stored,
                   waiter, frames>>

(* join.                                                                   *)
Join ==
    /\ owner \in {"awaiting", "running"} /\ worker.pc = "ended"
    /\ owner' = "joined"
    /\ outcome' = [outcome EXCEPT
         !.joined = TRUE,
         !.commit = IF worker.result = "panic" THEN "aborted"
                    ELSE IF worker.result = "err" /\ @ # "aborted" THEN "failed" ELSE @]
    /\ UNCHANGED <<cancelled, worker, pending, permits, relay, log, delivered, accum, stored,
                   waiter, frames>>

(* wait_created: the receipt, or created_or_error, which takes the lock,   *)
(* once the run has ended or the relay is gone.                            *)
WaitCreated ==
    /\ \/ waiter = "idle" /\ waiter' = "waiting"
       \/ /\ waiter = "waiting"
          /\ outcome.receipt # {} \/ outcome.commit # "running" \/ relay = "closed"
          /\ waiter' = IF outcome.receipt # {} THEN "created" ELSE "error"
    /\ UNCHANGED <<owner, cancelled, worker, pending, permits, relay, log, delivered, accum,
                   outcome, stored, frames>>

WorkerStep ==
    \/ PassGate \/ GateFails \/ PresentPublish \/ PersistDone \/ PersistFails
    \/ EmitTerminal \/ TerminalFails \/ DeliverError \/ Reserve(Worker)
    \/ \E kind \in {"error", "failed"} : RunFails(kind)
    \/ \E terminal \in {"completed", "failed"} : RunReturns(terminal)

Next ==
    \/ WorkerStep \/ Panic
    \/ \E kind \in {"created", "in_progress", "item"} : Present(kind)
    \/ \E p \in Acks \cup {Flusher} : Reserve(p)
    \/ \E a \in Acks : EmitAck(a) \/ PublishAck(a) \/ AckFails(a)
    \/ FlushBegin \/ FlushSend \/ Deliver \/ CloseRelay
    \/ Activate \/ Cancel \/ OwnerDrop \/ Join \/ WaitCreated

(* The runtime keeps polling the task and a join; nobody is assumed to     *)
(* read the events.                                                        *)
Fairness == WF_vars(WorkerStep) /\ WF_vars(Join)

Spec == Init /\ [][Next]_vars /\ Fairness

-----------------------------------------------------------------------------
(* Properties *)

(* Types.                                                                  *)
TypeOK ==
    /\ owner \in {"awaiting", "running", "joined", "dropped"}
    /\ cancelled \in BOOLEAN
    /\ worker \in [pc : {"gate", "run", "persist", "terminal", "deliver", "ended"},
                   result : {"none", "ok", "err", "panic"}, terminal : {"completed", "failed"}]
    /\ pending \in [Producers -> SUBSET Kinds]
    /\ permits \subseteq Producers
    /\ relay \in {"open", "closed"}
    /\ log \in Seq(Frame) /\ delivered \in 0..Len(log)
    /\ accum \in [next : Nat, created : BOOLEAN, inProgress : BOOLEAN]
    /\ outcome \in [commit : {"running", "committed", "failed", "aborted"},
                    receipt : SUBSET Nat, joined : BOOLEAN]
    /\ stored \in BOOLEAN
    /\ waiter \in {"idle", "waiting", "created", "error"}
    /\ frames \in Nat

Numbered == SelectSeq(log, LAMBDA f : f.kind # "flush")

(* Whatever interleaving of the task and the connection's acknowledgements *)
(* enqueued them, duplicates and refused frames included, the client's     *)
(* frames are numbered 0, 1, 2, ... without gap or repetition.             *)
SequenceGapless == \A i \in DOMAIN Numbered : Numbered[i].seq = i - 1

(* The client is told of a response that completed only after it was       *)
(* stored, and at most one frame ends the response.                        *)
CompletedIsStored ==
    /\ \A i \in DOMAIN log : log[i].kind = "completed" => stored
    /\ \A i, j \in DOMAIN log : {log[i].kind, log[j].kind} \subseteq Closing => i = j

(* The receipt names the frame that created the response, which is in the  *)
(* queue once and before everything that ends it.                          *)
ReceiptExact ==
    /\ \A s \in outcome.receipt :
         \E i \in DOMAIN log : log[i] = [kind |-> "created", seq |-> s]
    /\ \A i, j \in DOMAIN log :
         log[i].kind = "created" => /\ outcome.receipt = {log[i].seq}
                                    /\ log[j].kind \in {"created"} \cup Closing => i <= j

(* The observed outcome is the truth: committed only with a stored turn    *)
(* whose terminal frame is queued; once the owner has joined, the response *)
(* is decided, and unless the run was cancelled or its task panicked it is *)
(* aborted whenever the client can be left waiting for an ending.          *)
OutcomeTrue ==
    /\ outcome.commit = "committed" => stored /\ \E i \in DOMAIN log : log[i].kind = "completed"
    /\ outcome.joined => outcome.commit # "running"
    /\ outcome.joined /\ ~cancelled /\ outcome.commit \in {"failed", "committed"}
         => \E i \in DOMAIN log : log[i].kind \in Closing

(* After the owner joined, the absence of a receipt is final, so that the  *)
(* successor's input may be rolled back.                                   *)
KeepsReceipt == outcome.joined => outcome'.receipt = outcome.receipt

JoinedReceiptFinal == [][KeepsReceipt]_vars

(* A cancelled run ends although nobody reads its events.                  *)
CancelEnds == cancelled ~> worker.pc = "ended"

(* What ResponseCommitState's comment says: the outcome of execution and   *)
(* persistence does not depend on whether the events were delivered.       *)
StoredIsCommitted == outcome.joined /\ stored /\ worker.terminal = "completed"
                       => outcome.commit = "committed"

=============================================================================
