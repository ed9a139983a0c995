------------------------------ MODULE Steering ------------------------------
(***************************************************************************)
(* One Responses WebSocket connection: admission of response.create onto   *)
(* FIFO lanes (multiplexer.rs), the retained routes (control.rs), and the  *)
(* life of a response.steer update from acceptance to the successor that   *)
(* carries it or to its failure (control/steering.rs).                     *)
(*                                                                         *)
(* The connection loop, every request task, every response execution,      *)
(* every outcome worker and every deferred failure worker are actors of    *)
(* their own.  A section under the target's mutex, or one turn of the      *)
(* connection loop, is one step; an await separates two.                   *)
(*                                                                         *)
(* Responses are numbered in the order their executions are started, which *)
(* on a lane is the order of their routes' ordinals.  An Option is a set   *)
(* with at most one element.  Steering input is always valid, and byte     *)
(* budgets count entries.                                                  *)
(***************************************************************************)
EXTENDS Naturals, Sequences, FiniteSets, SequencesExt

CONSTANTS
    Lanes,           \* stream ids
    Steers,          \* response.steer messages the client may send
    MaxCreates,      \* response.create messages the client may send
    MaxOutstanding,  \* WS_MAX_OUTSTANDING_REQUESTS
    MaxRoutes,       \* MAX_ROUTES
    MaxControls,     \* MAX_CONTROLS: steers per target, deferred workers
    MaxEchoes,       \* MAX_CONTROL_BYTES, in accepted echoes retained
    Faults,          \* what may go wrong
    Settings         \* how a response's request may qualify for steering

ConstantsOK ==
    /\ IsFiniteSet(Lanes) /\ IsFiniteSet(Steers)
    /\ {MaxCreates, MaxOutstanding, MaxRoutes, MaxControls, MaxEchoes} \subseteq Nat \ {0}
    /\ Faults \subseteq {"expiry", "abort", "relay", "shutdown"}
    /\ Settings \subseteq {"steerable", "over budget", "unsupported"} /\ Settings # {}
    /\ Lanes # {}

ASSUME ConstantsAssumption == ConstantsOK

(* A successor consumes at least one steer, so these ids never run out.    *)
Responses == 1 .. (MaxCreates + Cardinality(Steers))

MaxOutcomes == 2 * MaxControls + 1

VARIABLES
    conn,       \* open, draining or closed
    expired,    \* AuthenticatedPrincipal::is_expired
    active,     \* keys of WsMultiplexer.lanes
    queue,      \* their queued work
    tasks,      \* WsMultiplexer.request_tasks
    creates,    \* response.create messages received
    latest,     \* each lane's session: the cached parent checkpoint
    routes,     \* keys of Controls.routes
    cleanup,    \* targets of Controls.tasks running fail_successor
    target,     \* SteeringTarget.state of every response
    run,        \* ResponseEventSink and execution of every response
    outbox,     \* SteeringTarget.outcomes, and what its worker has yet to emit
    told,       \* last outcome of each steer emitted to the client
    fate        \* whether each steer was sent, and accepted

vars == <<conn, expired, active, queue, tasks, creates, latest, routes, cleanup,
          target, run, outbox, told, fate>>

laneVars == <<active, queue, tasks, creates>>
steerVars == <<told, fate>>

(* SteeringBatch: echoes and queue hold the same updates; queued says the  *)
(* queue has not moved to a successor's publication.  pin is the parent    *)
(* checkpoint and whether it waits for required client output.             *)
Batch == [entries : Seq(Steers), queued : BOOLEAN, pin : {"none", "free", "input"}]

Target == [lane : Lanes, phase : {"Running", "Ready", "Reserved", "Closed"},
           settings : BOOLEAN, supported : BOOLEAN, batch : SUBSET Batch]

(* carries is the accepted input in the response's own request, need what  *)
(* its checkpoint requires of a continuation.                              *)
Run == [exec : {"none", "gated", "running", "committed", "failed", "aborted"},
        created : BOOLEAN, relay : BOOLEAN, carries : Seq(Steers),
        need : {"free", "input", "malformed"}]

Work == [lane : Lanes, prev : SUBSET Responses, parent : SUBSET Responses,
         auto : BOOLEAN, bad : BOOLEAN]

Steps == {"spawned", "fresh", "prepare", "preparing", "flush", "register", "publish",
          "cancelled", "join", "finish", "check", "failing", "done"}

Task == [work : Work, pc : Steps, resp : SUBSET Responses, snap : Seq(Steers),
         wait : SUBSET Responses, fatal : BOOLEAN]

Event == [kind : {"accepted", "pending", "failed", "rejected", "barrier"},
          steer : SUBSET Steers]

NoWork == [l \in Lanes |-> <<>>]

NoTarget == [lane |-> CHOOSE l \in Lanes : TRUE, phase |-> "Running",
             settings |-> FALSE, supported |-> FALSE, batch |-> {}]

NoRun == [exec |-> "none", created |-> FALSE, relay |-> TRUE, carries |-> <<>>, need |-> "free"]

Init ==
    /\ conn = "open" /\ expired = FALSE
    /\ active = {} /\ queue = NoWork /\ tasks = {} /\ creates = 0
    /\ latest = [l \in Lanes |-> {}]
    /\ routes = {} /\ cleanup = {}
    /\ target = [r \in Responses |-> NoTarget]
    /\ run = [r \in Responses |-> NoRun]
    /\ outbox = [r \in Responses |-> <<>>]
    /\ told = [s \in Steers |-> "nothing"]
    /\ fate = [s \in Steers |-> "unsent"]

-----------------------------------------------------------------------------
(* Reading the state *)

The(S) == CHOOSE x \in S : TRUE

Entries(tg) == IF tg.batch = {} THEN <<>> ELSE The(tg.batch).entries

Terminal(r) == run[r].exec \in {"committed", "failed", "aborted"}

Queued == Cardinality({x \in Lanes \X (1 .. MaxOutstanding) : x[2] <= Len(queue[x[1]])})

(* SteeringByteCharges held by accepted echoes.                            *)
Echoes == Cardinality({s \in Steers : \E r \in Responses : s \in ToSet(Entries(target[r]))})

(* has_pending_steers of the target named by previous_response_id.         *)
Attached(w) ==
    {r \in w.prev \cap routes :
       /\ target[r].lane = w.lane
       /\ \E b \in target[r].batch : b.queued /\ b.entries # <<>>}

Attach(w) == IF w.parent = {} THEN [w EXCEPT !.parent = Attached(w)] ELSE w

(* is_active_steering_target: the newest published route of its lane.      *)
Newest(r) ==
    /\ run[r].created
    /\ \A q \in routes : target[q].lane = target[r].lane /\ run[q].created => q <= r

(* Mutant: an accepted batch does not keep the settings.                   *)
ReleaseEverySuperseded(tg) ==
    [r \in Responses |->
       IF r \in routes /\ run[r].created /\ ~Newest(r)
       THEN [tg[r] EXCEPT !.settings = FALSE] ELSE tg[r]]

(* release_inactive_settings.                                              *)
ReleaseInactive(tg) ==
    [r \in Responses |->
       IF r \in routes /\ run[r].created /\ ~Newest(r) /\ tg[r].batch = {}
       THEN [tg[r] EXCEPT !.settings = FALSE] ELSE tg[r]]

(* SteeringState::close.                                                   *)
Closed(tg) == [tg EXCEPT !.phase = "Closed", !.settings = FALSE, !.batch = {}]

Barrier == [kind |-> "barrier", steer |-> {}]

Events(kind, entries) ==
    [i \in 1 .. Len(entries) |-> [kind |-> kind, steer |-> {entries[i]}]]

Flushed(r) == Barrier \notin ToSet(outbox[r])

(* What fail_successor sends: one failed outcome per echo, then a barrier. *)
Failures(tg) == IF tg.batch = {} THEN <<>> ELSE Append(Events("failed", Entries(tg)), Barrier)

-----------------------------------------------------------------------------
(* The end of the connection.  The loop breaks and finish_ws_connection    *)
(* cancels and joins tasks and executions, and drops everything the        *)
(* connection owned, unapplied input included.                             *)

Close ==
    /\ conn' = "closed" /\ expired' = FALSE
    /\ active' = {} /\ queue' = NoWork /\ tasks' = {} /\ creates' = 0
    /\ latest' = [l \in Lanes |-> {}]
    /\ routes' = {} /\ cleanup' = {}
    /\ target' = [r \in Responses |-> NoTarget]
    /\ run' = [r \in Responses |-> NoRun]
    /\ outbox' = [r \in Responses |-> <<>>]
    /\ told' = [s \in Steers |-> "nothing"]
    /\ fate' = [s \in Steers |-> "unsent"]

(* The client goes away.                                                   *)
Disconnect == conn # "closed" /\ Close

(* The loop joins a relay that ended with an error.                        *)
RelayFailed == conn # "closed" /\ (\E r \in Responses : ~run[r].relay) /\ Close

(* begin_ws_draining: queued work is discarded.                            *)
BeginDraining ==
    /\ "shutdown" \in Faults /\ conn = "open"
    /\ conn' = "draining"
    /\ active' = {} /\ queue' = NoWork
    /\ UNCHANGED <<expired, tasks, creates, latest, routes, cleanup, target, run, outbox, told, fate>>

Drained == conn = "draining" /\ tasks = {} /\ cleanup = {} /\ Close

Expire ==
    /\ "expiry" \in Faults /\ conn = "open" /\ ~expired
    /\ expired' = TRUE
    /\ UNCHANGED <<conn, active, queue, tasks, creates, latest, routes, cleanup, target, run, outbox, told, fate>>
-----------------------------------------------------------------------------
(* WsMultiplexer: admission and FIFO lanes *)

(* has_capacity_for, counting requests only.                               *)
HasCapacity(ts) == Cardinality(ts) + Queued < MaxOutstanding

(* spawn: steering is attached again, since the parent may have accepted   *)
(* input while the work was queued.                                        *)
Spawned(w) == [work |-> Attach(w), pc |-> "spawned", resp |-> {}, snap |-> <<>>,
               wait |-> {}, fatal |-> FALSE]

(* A client message is handled after reap_ready has finished every         *)
(* completed task.                                                         *)
Reaped == \A t \in tasks : t.pc # "done"

(* A response.create, or one that does not parse (bad), whose capacity the *)
(* loop has checked.  A lane with a running task queues it.                *)
Schedule(w) ==
    IF ~HasCapacity(tasks)
    THEN UNCHANGED <<active, queue, tasks>>
    ELSE IF w.lane \in active
    THEN /\ queue' = [queue EXCEPT ![w.lane] = Append(@, w)]
         /\ UNCHANGED <<active, tasks>>
    ELSE /\ active' = active \cup {w.lane}
         /\ tasks' = tasks \cup {Spawned(w)}
         /\ UNCHANGED queue

(* handle_ws_client_message on a response.create.  The client can name any *)
(* response whose creation it was sent.                                    *)
Create(l, prev, bad) ==
    /\ conn = "open" /\ creates < MaxCreates
    /\ prev \subseteq {r \in Responses : run[r].created} /\ Cardinality(prev) <= 1
    /\ IF expired THEN Close
       ELSE LET w == [lane |-> l, prev |-> prev, parent |-> {}, auto |-> FALSE, bad |-> bad]
            IN  /\ Reaped
                /\ creates' = creates + 1
                /\ Schedule(IF bad THEN w ELSE Attach(w))
                /\ UNCHANGED <<conn, expired, latest, routes, cleanup, target, run, outbox, told, fate>>

(* SteeringTarget::automatic_request over a lane's routes.                 *)
AutoReady(tg, l) ==
    {r \in routes : /\ tg[r].lane = l /\ tg[r].phase = "Ready"
                    /\ \E b \in tg[r].batch : b.pin = "free"}

AutoWork(r) == [lane |-> target[r].lane, prev |-> {r}, parent |-> {r},
                auto |-> TRUE, bad |-> FALSE]

(* fail_automatic_admission: the target is closed before its failure       *)
(* worker runs; too many workers end the connection.                       *)
FailAutomatic(tg, r) ==
    /\ target' = [q \in Responses |-> IF q = r THEN [tg[q] EXCEPT !.phase = "Closed"] ELSE tg[q]]
    /\ cleanup' = cleanup \cup {r}

WorkersFull == Cardinality(cleanup) >= MaxControls

(* schedule_next after the lane's task ended: queued work first, else an   *)
(* automatic successor, else the lane goes idle.                           *)
ScheduleNext(l, ts) ==
    \/ /\ queue[l] # <<>>
       /\ tasks' = ts \cup {Spawned(Head(queue[l]))}
       /\ queue' = [queue EXCEPT ![l] = Tail(@)]
       /\ UNCHANGED <<conn, expired, active, creates, latest, routes, cleanup, target, run, outbox, told, fate>>
    \/ /\ queue[l] = <<>> /\ AutoReady(target, l) = {}
       /\ tasks' = ts
       /\ active' = active \ {l}
       /\ UNCHANGED <<conn, expired, queue, creates, latest, routes, cleanup, target, run, outbox, told, fate>>
    \/ /\ queue[l] = <<>>
       /\ \E r \in AutoReady(target, l) :
            IF ~target[r].settings \/ (~HasCapacity(ts) /\ WorkersFull) THEN Close
            ELSE /\ IF HasCapacity(ts)
                    THEN tasks' = ts \cup {Spawned(AutoWork(r))} /\ UNCHANGED <<active, cleanup, target>>
                    ELSE tasks' = ts /\ active' = active \ {l} /\ FailAutomatic(target, r)
                 /\ UNCHANGED <<conn, expired, queue, creates, latest, routes, run, outbox, told, fate>>

(* finish: a result that could not be queued to the client is fatal.       *)
Finish(t) ==
    /\ t.pc = "done"
    /\ \/ t.fatal /\ Close
       \/ /\ ~t.fatal /\ conn = "draining"
          /\ tasks' = tasks \ {t}
          /\ UNCHANGED <<conn, expired, active, queue, creates, latest, routes, cleanup, target, run, outbox, told, fate>>
       \/ ~t.fatal /\ conn = "open" /\ ScheduleNext(t.work.lane, tasks \ {t})

-----------------------------------------------------------------------------
(* response.steer *)

(* Mutant: a reserved target still accepts.                                *)
AcceptsReserved(tg, r) ==
    /\ run[r].created /\ tg[r].supported /\ Newest(r) /\ tg[r].settings
    /\ tg[r].phase # "Closed"
    /\ Echoes < MaxEchoes
    /\ tg[r].batch = {} /\ tg[r].phase = "Ready" => latest[tg[r].lane] = {r}
    /\ Len(Entries(tg[r])) < MaxControls

(* rejection_code, the byte charge, reserve_batch and try_accept.          *)
Accepts(tg, r) ==
    /\ run[r].created /\ tg[r].supported /\ Newest(r) /\ tg[r].settings
    /\ tg[r].phase \in {"Running", "Ready"}
    /\ Echoes < MaxEchoes
    /\ tg[r].batch = {} /\ tg[r].phase = "Ready" => latest[tg[r].lane] = {r}
    /\ Len(Entries(tg[r])) < MaxControls

(* The batch after the update; the first one on a completed parent pins    *)
(* that parent's checkpoint.                                               *)
Accepted(tg, r, s) ==
    IF tg[r].batch # {}
    THEN {[b EXCEPT !.entries = Append(@, s)] : b \in tg[r].batch}
    ELSE {[entries |-> <<s>>, queued |-> TRUE,
           pin |-> IF tg[r].phase = "Running" THEN "none" ELSE run[r].need]}

(* schedule_automatic_ready once the update is handled: idle lanes are     *)
(* admitted until one does not fit, and that one fails.                    *)
ScheduleReady(tg, box, told1, fate1) ==
    LET ready == {l \in Lanes \ active : AutoReady(tg, l) # {}}
        free  == MaxOutstanding - (Cardinality(tasks) + Queued)
    IN  \E pick \in [ready -> routes] :
          /\ \A l \in ready : pick[l] \in AutoReady(tg, l)
          /\ IF \/ \E l \in ready : ~tg[pick[l]].settings
                \/ Cardinality(ready) > free /\ WorkersFull
             THEN Close
             ELSE /\ outbox' = box /\ told' = told1 /\ fate' = fate1
                  /\ \E fit \in SUBSET ready :
                       /\ IF Cardinality(ready) <= free
                          THEN fit = ready /\ target' = tg /\ UNCHANGED cleanup
                          ELSE /\ Cardinality(fit) = free
                               /\ \E l \in ready \ fit : FailAutomatic(tg, pick[l])
                       /\ active' = active \cup fit
                       /\ tasks' = tasks \cup {Spawned(AutoWork(pick[l])) : l \in fit}
                  /\ UNCHANGED <<conn, expired, queue, creates, latest, routes, run>>

(* dispatch_steering.  An update whose target has no route is refused on   *)
(* the connection, any other through the target's outcome queue, and a     *)
(* full outcome queue ends the connection.                                 *)
Steer(s, r) ==
    /\ conn = "open" /\ fate[s] = "unsent"
    /\ IF expired THEN Close
       ELSE /\ Reaped
            /\ LET tg     == ReleaseInactive(target)
                   ok     == r \in routes /\ Accepts(tg, r)
                   new    == [tg EXCEPT ![r].batch = Accepted(tg, r, s)]
                   notify == IF ~ok THEN Events("rejected", <<s>>)
                             ELSE IF \E b \in new[r].batch : b.pin = "input"
                             THEN Events("accepted", <<s>>) \o Events("pending", <<s>>)
                             ELSE Events("accepted", <<s>>)
                   box    == [outbox EXCEPT ![r] = @ \o notify]
               IN  IF r \notin routes
                   THEN ScheduleReady(tg, outbox, [told EXCEPT ![s] = "rejected"],
                                      [fate EXCEPT ![s] = "refused"])
                   ELSE IF Len(box[r]) > MaxOutcomes THEN Close
                   ELSE ScheduleReady(IF ok THEN new ELSE tg, box, told,
                                      [fate EXCEPT ![s] = IF ok THEN "owned" ELSE "refused"])

-----------------------------------------------------------------------------
(* A request task: spawn, handle_ws_request, prepare_successor and         *)
(* run_response *)

Become(t, u) == tasks' = (tasks \ {t}) \cup {u}

Goto(t, pc) == Become(t, [t EXCEPT !.pc = pc])

FailSuccessor(r) ==
    /\ target' = [target EXCEPT ![r] = Closed(@)]
    /\ outbox' = [outbox EXCEPT ![r] = @ \o Failures(target[r])]

(* Mutant: the automatic attempt's error is not turned into failures.      *)
ErrorsUnreported(t, fatal) ==
    Become(t, [t EXCEPT !.pc = "done", !.fatal = fatal]) /\ UNCHANGED <<target, outbox>>

(* The task's body returned an error.  An automatic one fails its target   *)
(* and returns what that returned; an explicit one reports the error to    *)
(* the client and keeps the accepted batch.                                *)
Errors(t, fatal) ==
    IF t.work.auto
    THEN /\ FailSuccessor(The(t.work.parent))
         /\ Become(t, [t EXCEPT !.pc = "failing", !.wait = t.work.parent, !.fatal = TRUE])
    ELSE /\ Become(t, [t EXCEPT !.pc = "done", !.fatal = fatal])
         /\ UNCHANGED <<target, outbox>>

(* Evicting an unfinished turn's cached parent.                            *)
Evict(l, prev) == latest' = [latest EXCEPT ![l] = @ \ prev]

(* The identity check, and a work item that only reports its parse error.  *)
(* An expired identity is reported and ends the task.                      *)
Dispatch(t) ==
    /\ t.pc = "spawned"
    /\ IF expired
       THEN Goto(t, "done") /\ UNCHANGED latest
       ELSE IF t.work.bad
       THEN /\ Goto(t, "done")
            /\ IF t.work.parent = {} THEN Evict(t.work.lane, t.work.prev) ELSE UNCHANGED latest
       ELSE Goto(t, IF t.work.parent = {} THEN "fresh" ELSE "prepare") /\ UNCHANGED latest
    /\ UNCHANGED <<conn, expired, active, queue, creates, routes, cleanup, target, run, outbox, told, fate>>

NextResponse(r) == run[r].exec = "none" /\ \A q \in Responses : run[q].exec = "none" => r <= q

(* start_gated: execution exists but waits for its route.                  *)
StartGated(t, pc, carries) ==
    \E r \in Responses :
      /\ NextResponse(r)
      /\ run' = [run EXCEPT ![r].exec = "gated", ![r].carries = carries]
      /\ Become(t, [t EXCEPT !.pc = pc, !.resp = {r}])

(* Preparation of a request without steering.  A failure drops its lease.  *)
PrepareFresh(t) ==
    /\ t.pc = "fresh"
    /\ \/ StartGated(t, "register", <<>>) /\ UNCHANGED <<target, outbox, latest>>
       \/ Errors(t, FALSE) /\ Evict(t.work.lane, t.work.prev) /\ UNCHANGED run
    /\ UNCHANGED <<conn, expired, active, queue, creates, routes, cleanup, told, fate>>

(* prepare_successor up to its await: the accepted input is copied.        *)
PrepareSuccessor(t) ==
    /\ t.pc = "prepare"
    /\ LET tg == target[The(t.work.parent)]
       IN  IF tg.phase = "Ready" /\ \E b \in tg.batch : b.queued /\ b.pin # "none"
           THEN /\ Become(t, [t EXCEPT !.pc = "preparing", !.snap = Entries(tg)])
                /\ UNCHANGED <<target, outbox>>
           ELSE Errors(t, tg.phase = "Ready" /\ \A b \in tg.batch : b.pin # "none")
    /\ UNCHANGED <<conn, expired, active, queue, creates, latest, routes, cleanup, run, told, fate>>

(* Mutant: input accepted during preparation does not invalidate it.       *)
AnySnapshot(t, tg) == TRUE

(* PreparedRetainedResponse::matches_steering.                             *)
MatchesSteering(t, tg) == t.snap = Entries(tg)

(* prepare_successor after its await: the phase is checked again, and a    *)
(* snapshot that is no longer complete is prepared again.                  *)
ReserveSuccessor(t) ==
    /\ t.pc = "preparing"
    /\ LET r == The(t.work.parent)
           tg == target[r]
       IN  \/ Errors(t, FALSE) /\ UNCHANGED run
           \/ /\ tg.phase = "Ready" /\ ~MatchesSteering(t, tg)
              /\ Goto(t, "prepare") /\ UNCHANGED <<target, outbox, run>>
           \/ /\ tg.phase = "Ready" /\ MatchesSteering(t, tg)
              /\ Len(outbox[r]) < MaxOutcomes
              /\ target' = [target EXCEPT ![r].phase = "Reserved",
                              ![r].batch = {[b EXCEPT !.queued = FALSE] : b \in @}]
              /\ outbox' = [outbox EXCEPT ![r] = Append(@, Barrier)]
              /\ StartGated(t, "flush", t.snap)
    /\ UNCHANGED <<conn, expired, active, queue, creates, latest, routes, cleanup, told, fate>>

(* flush_outcomes: the target's worker has emitted everything before it.   *)
OutcomesFlushed(r) == Flushed(r)

(* The reserved successor waits for the outcomes; without a relay there is *)
(* no worker to wait for and the gated execution is cancelled.             *)
FlushOutcomes(t) ==
    /\ t.pc = "flush"
    /\ LET p == The(t.work.parent)
       IN  \/ /\ run[p].relay /\ OutcomesFlushed(p)
              /\ Goto(t, "register") /\ UNCHANGED <<target, run, outbox>>
           \/ /\ ~run[p].relay
              /\ run' = [run EXCEPT ![The(t.resp)].exec = "failed"]
              /\ Errors(t, TRUE)
    /\ UNCHANGED <<conn, expired, active, queue, creates, latest, routes, cleanup, told, fate>>

(* Controls::register and ResponseRunOwner::activate.  A full route table  *)
(* gives up one completed route that owns no accepted input, or ends the   *)
(* connection.  The settings may not fit their own budget.                 *)
Register(t) ==
    /\ t.pc = "register"
    /\ LET r    == The(t.resp)
           tg   == ReleaseInactive(target)
           old  == {q \in routes : Terminal(q) /\ target[q].batch = {}}
           kept == IF Cardinality(routes) < MaxRoutes THEN {routes} ELSE {routes \ {q} : q \in old}
       IN  IF kept = {} THEN Close
           ELSE \E rs \in kept, config \in Settings :
                  /\ routes' = rs \cup {r}
                  /\ target' = [tg EXCEPT ![r].lane = t.work.lane,
                                          ![r].supported = config # "unsupported",
                                          ![r].settings = config = "steerable"]
                  /\ run' = [run EXCEPT ![r].exec = "running"]
                  /\ Goto(t, IF t.work.parent = {} THEN "join" ELSE "publish")
                  /\ UNCHANGED <<conn, expired, active, queue, creates, latest, cleanup, outbox, told, fate>>

(* commit_successor: the published successor owns the input.               *)
CommitSuccessor(r) == target' = [target EXCEPT ![r] = Closed(@)]

(* wait_created, then commit; a phase other than Reserved is an error.     *)
(* Without a receipt, once execution ended or the relay closed, execution  *)
(* is cancelled.                                                           *)
AwaitCreated(t) ==
    /\ t.pc = "publish"
    /\ LET r == The(t.resp)
           p == The(t.work.parent)
       IN  \/ /\ run[r].created
              /\ IF target[p].phase = "Reserved"
                 THEN CommitSuccessor(p) /\ Goto(t, "join") /\ UNCHANGED outbox
                 ELSE Errors(t, FALSE)
           \/ /\ ~run[r].created /\ (Terminal(r) \/ ~run[r].relay)
              /\ Goto(t, "cancelled") /\ UNCHANGED <<target, outbox>>
    /\ UNCHANGED <<conn, expired, active, queue, creates, latest, routes, cleanup, run, told, fate>>

(* created_receipt read after execution was joined.                        *)
Receipt(r) == run[r].created

(* The cancelled execution is joined.  Creation that was published in the  *)
(* meantime still commits, else the batch fails.                           *)
JoinCancelled(t) ==
    /\ t.pc = "cancelled" /\ Terminal(The(t.resp))
    /\ LET p == The(t.work.parent)
       IN  IF Receipt(The(t.resp))
           THEN CommitSuccessor(p) /\ Goto(t, "finish") /\ UNCHANGED outbox
           ELSE /\ FailSuccessor(p)
                /\ Become(t, [t EXCEPT !.pc = "failing", !.wait = {p}, !.fatal = ~t.work.auto])
    /\ UNCHANGED <<conn, expired, active, queue, creates, latest, routes, cleanup, run, told, fate>>

(* The execution is joined.  An aborted one is a transport failure; a lost *)
(* relay makes the last flush fail.                                        *)
JoinRun(t) ==
    /\ t.pc = "join" /\ Terminal(The(t.resp))
    /\ LET r == The(t.resp)
       IN  IF run[r].exec = "aborted" \/ ~run[r].relay
           THEN Errors(t, run[r].exec = "aborted")
           ELSE Goto(t, "finish") /\ UNCHANGED <<target, outbox>>
    /\ UNCHANGED <<conn, expired, active, queue, creates, latest, routes, cleanup, run, told, fate>>

(* required_steering_input returned an error.                              *)
Malformed(pin) == pin = "malformed"

(* mark_ready: pins the parent for a batch it already owns and tells which *)
(* output that batch waits for.  A malformed obligation pins nothing, and  *)
(* a full outcome queue is an error.                                       *)
MarkReady(t) ==
    /\ t.pc = "finish"
    /\ LET r    == The(t.resp)
           tg   == target[r]
           pin  == IF latest[tg.lane] = {r} THEN run[r].need ELSE "none"
           box  == outbox[r] \o (IF pin = "input" THEN Events("pending", Entries(tg)) ELSE <<>>)
           new  == [target EXCEPT ![r].phase = "Ready"]
       IN  IF tg.phase # "Running"
           THEN Goto(t, "check") /\ UNCHANGED <<target, outbox>>
           ELSE IF Malformed(pin)
           THEN /\ target' = [new EXCEPT ![r].supported = FALSE]
                /\ Goto(t, "check") /\ UNCHANGED outbox
           ELSE /\ target' = [new EXCEPT ![r].batch = {[b EXCEPT !.pin = pin] : b \in @}]
                /\ outbox' = [outbox EXCEPT ![r] = IF Len(box) <= MaxOutcomes THEN box ELSE SubSeq(box, 1, MaxOutcomes)]
                /\ IF Len(box) <= MaxOutcomes THEN Goto(t, "check")
                   ELSE Become(t, [t EXCEPT !.pc = "done", !.fatal = ~t.work.auto])
    /\ UNCHANGED <<conn, expired, active, queue, creates, latest, routes, cleanup, run, told, fate>>

(* missing_parent_for_steers.                                              *)
MissingParent(tg) == \E b \in tg.batch : b.pin = "none"

(* The rest of finish_response: a batch without a parent fails.            *)
CheckParent(t) ==
    /\ t.pc = "check"
    /\ LET r == The(t.resp)
       IN  IF MissingParent(target[r])
           THEN /\ FailSuccessor(r)
                /\ Become(t, [t EXCEPT !.pc = "failing", !.wait = {r}, !.fatal = ~t.work.auto])
           ELSE Goto(t, "done") /\ UNCHANGED <<target, outbox>>
    /\ UNCHANGED <<conn, expired, active, queue, creates, latest, routes, cleanup, run, told, fate>>

(* fail_successor returns when its outcomes were emitted, with an error if *)
(* they cannot be.  That error is fatal, except that an automatic task     *)
(* whose body returned it answers it with a second, empty, fail_successor. *)
Failed(t) ==
    /\ t.pc = "failing"
    /\ \/ (\A r \in t.wait : Flushed(r)) /\ Become(t, [t EXCEPT !.pc = "done", !.fatal = FALSE])
       \/ (\E r \in t.wait : ~Flushed(r) /\ ~run[r].relay) /\ Goto(t, "done")
    /\ UNCHANGED <<conn, expired, active, queue, creates, latest, routes, cleanup, target, run, outbox, told, fate>>

TaskStep(t) ==
    \/ Dispatch(t) \/ PrepareFresh(t) \/ PrepareSuccessor(t) \/ ReserveSuccessor(t)
    \/ FlushOutcomes(t) \/ Register(t) \/ AwaitCreated(t) \/ JoinCancelled(t)
    \/ JoinRun(t) \/ MarkReady(t) \/ CheckParent(t) \/ Failed(t) \/ Finish(t)

-----------------------------------------------------------------------------
(* Executions, outcome workers, deferred failures and route expiry *)

(* emit_frame of response.created.  The relay is no guard: a queue permit  *)
(* taken before the relay closed still publishes.                          *)
PublishCreated(r) ==
    /\ run[r].exec = "running" /\ ~run[r].created
    /\ run' = [run EXCEPT ![r].created = TRUE]
    /\ UNCHANGED <<conn, expired, laneVars, latest, routes, cleanup, target, outbox, steerVars>>

(* The execution's task ends.  A committed turn published its checkpoint,  *)
(* unless that was too large to retain; a failed one may have evicted the  *)
(* parent it referenced.                                                   *)
EndRun(r) ==
    /\ run[r].exec = "running"
    /\ \/ /\ run[r].created
          /\ \E need \in {"free", "input", "malformed"} :
               run' = [run EXCEPT ![r].exec = "committed", ![r].need = need]
          /\ \E kept \in {{}, {r}} : latest' = [latest EXCEPT ![target[r].lane] = kept]
       \/ /\ run' = [run EXCEPT ![r].exec = "failed"]
          /\ \E kept \in {{}, latest[target[r].lane]} : latest' = [latest EXCEPT ![target[r].lane] = kept]
       \/ /\ "abort" \in Faults
          /\ run' = [run EXCEPT ![r].exec = "aborted"]
          /\ UNCHANGED latest
    /\ UNCHANGED <<conn, expired, laneVars, routes, cleanup, target, outbox, steerVars>>

(* A relay ends with an error.                                             *)
LoseRelay(r) ==
    /\ "relay" \in Faults /\ r \in routes /\ run[r].relay
    /\ run' = [run EXCEPT ![r].relay = FALSE]
    /\ UNCHANGED <<conn, expired, laneVars, latest, routes, cleanup, target, outbox, steerVars>>

(* The target's outcome worker emits through the response's sink.          *)
Emit(r) ==
    /\ outbox[r] # <<>> /\ run[r].relay
    /\ LET event == Head(outbox[r])
       IN  told' = [s \in Steers |->
                      IF s \in event.steer /\ event.kind # "pending" THEN event.kind ELSE told[s]]
    /\ outbox' = [outbox EXCEPT ![r] = Tail(@)]
    /\ UNCHANGED <<conn, expired, laneVars, latest, routes, cleanup, target, run, fate>>

(* A deferred fail_successor of an automatic admission, and its end.       *)
CleanUp(r) ==
    /\ r \in cleanup
    /\ \/ /\ target[r].batch # {}
          /\ FailSuccessor(r) /\ UNCHANGED cleanup
       \/ /\ target[r].batch = {} /\ Flushed(r)
          /\ cleanup' = cleanup \ {r} /\ UNCHANGED <<target, outbox>>
    /\ UNCHANGED <<conn, expired, laneVars, latest, routes, run, steerVars>>

(* Controls::expire: completed routes that own no accepted input go once   *)
(* their retention has passed.                                             *)
ExpireRoutes ==
    /\ conn # "closed"
    /\ target' = ReleaseInactive(target)
    /\ \E gone \in SUBSET {r \in routes : Terminal(r) /\ target[r].batch = {}} :
         routes' = routes \ gone
    /\ <<target', routes'>> # <<target, routes>>
    /\ UNCHANGED <<conn, expired, laneVars, latest, cleanup, run, outbox, steerVars>>

Next ==
    \/ \E l \in Lanes, prev \in SUBSET Responses, bad \in BOOLEAN : Create(l, prev, bad)
    \/ \E s \in Steers, r \in Responses : Steer(s, r)
    \/ \E t \in tasks : TaskStep(t)
    \/ \E r \in Responses : PublishCreated(r) \/ EndRun(r) \/ LoseRelay(r) \/ Emit(r) \/ CleanUp(r)
    \/ ExpireRoutes \/ Expire
    \/ Disconnect \/ RelayFailed \/ BeginDraining \/ Drained

Spec == Init /\ [][Next]_vars

-----------------------------------------------------------------------------
(* Safety *)

(* Every variable has the shape its Rust counterpart has.                  *)
TypeOK ==
    /\ conn \in {"open", "draining", "closed"} /\ expired \in BOOLEAN
    /\ active \subseteq Lanes /\ queue \in [Lanes -> Seq(Work)]
    /\ tasks \subseteq Task /\ creates \in 0 .. MaxCreates
    /\ latest \in [Lanes -> SUBSET Responses]
    /\ routes \subseteq Responses /\ cleanup \subseteq Responses
    /\ target \in [Responses -> Target] /\ run \in [Responses -> Run]
    /\ outbox \in [Responses -> Seq(Event)]
    /\ told \in [Steers -> {"nothing", "accepted", "failed", "rejected", "barrier"}]
    /\ fate \in [Steers -> {"unsent", "refused", "owned"}]

Live == conn # "closed"

(* The responses whose published request contains the steer.               *)
AppliedBy(s) == {r \in Responses : run[r].created /\ s \in ToSet(run[r].carries)}

(* The steer was reported failed, or its failure waits to be emitted.      *)
Returned(s) ==
    \/ told[s] = "failed"
    \/ \E r \in Responses : [kind |-> "failed", steer |-> {s}] \in ToSet(outbox[r])

(* An accepted update reaches at most one created successor, and never one *)
(* that was created and also a failure that invites the client to send it  *)
(* again: the receipt decides, even when it is published after the waiter  *)
(* gave up (run_response, l. 377-402).                                     *)
AppliedOnce ==
    Live => \A s \in Steers :
              /\ Cardinality(AppliedBy(s)) <= 1
              /\ Returned(s) => AppliedBy(s) = {}

(* While the connection lives no accepted update disappears: some target   *)
(* owns it, a created successor carries it, or its failure is reported.    *)
NothingLost ==
    Live => \A s \in Steers : fate[s] = "owned" =>
              \/ \E r \in Responses : s \in ToSet(Entries(target[r]))
              \/ AppliedBy(s) # {}
              \/ Returned(s)

(* A target that owns accepted input keeps its route and the settings an   *)
(* automatic successor needs, however long required output, queued work    *)
(* or a newer response on the lane delays that successor.                  *)
OwnersStayUsable ==
    conn = "open" => \A r \in Responses :
       target[r].batch # {} =>
         /\ r \in routes
         /\ target[r].phase \in {"Running", "Ready"} => target[r].settings

(* A lane runs one task at a time, and only while the lane is active: the  *)
(* order of routes on a lane is the order in which they are published.     *)
LaneSerial ==
    /\ \A t, u \in tasks : t.work.lane = u.work.lane => t = u
    /\ conn = "open" => active = {t.work.lane : t \in tasks}

(* Requests running and queued stay within WS_MAX_OUTSTANDING_REQUESTS,    *)
(* automatic successors included.                                          *)
OutstandingBounded == Cardinality(tasks) + Queued <= MaxOutstanding

(* The client learns that an update was accepted before the successor that *)
(* carries it is created.                                                  *)
ToldBeforeCreated ==
    \A r \in Responses : run'[r].created /\ ~run[r].created =>
      \A s \in ToSet(run[r].carries) : told[s] = "accepted"

AcceptedFirst == [][ToldBeforeCreated]_vars

(* A reserved batch is sealed and a closed target stays closed: nothing is *)
(* added to what a successor has been prepared with, and no completion     *)
(* callback reopens a target.                                              *)
KeepsSealed ==
    Live' => \A r \in Responses :
      /\ target[r].phase = "Reserved" =>
           \/ target'[r].phase = "Reserved" /\ target'[r].batch = target[r].batch
           \/ target'[r].phase = "Closed"
      /\ target[r].phase = "Closed" => target'[r].phase = "Closed"

Sealed == [][KeepsSealed]_vars

(* Every accepted update has exactly one fate, whatever expires, aborts,   *)
(* fails or shuts down in between (steering.rs).                           *)
EachSteerOnce == TypeOK /\ AppliedOnce /\ NothingLost

(* Lanes run their work one at a time within the connection's limits, and  *)
(* a target that owns input stays able to apply it (websocket.rs).         *)
LanesServed == LaneSerial /\ OutstandingBounded /\ OwnersStayUsable

(* The client learns that an update was accepted before the successor that *)
(* carries it is created; nothing is added to a batch a successor has been *)
(* prepared with, and no completion callback reopens a closed target.      *)
OutcomesInOrder == [][ToldBeforeCreated /\ KeepsSealed]_vars

(* An execution that ended without a terminal frame closes the transport   *)
(* rather than leave the client waiting (engine/retained.rs, l. 353-357).  *)
AbortCloses ==
    conn = "open" => \A r \in Responses :
       run[r].exec = "aborted" => \E t \in tasks : r \in t.resp

-----------------------------------------------------------------------------
(* Liveness.  Tasks, executions and workers are Tokio tasks that the       *)
(* runtime polls again; inference ends by itself, by its timeout or at the *)
(* requested boundary.  Nothing is assumed about the client.               *)

Fairness ==
    /\ \A l \in Lanes : WF_vars(\E t \in tasks : t.work.lane = l /\ TaskStep(t))
    /\ \A r \in Responses : WF_vars(EndRun(r)) /\ WF_vars(Emit(r)) /\ WF_vars(CleanUp(r))
    /\ WF_vars(Drained) /\ WF_vars(RelayFailed)

FairSpec == Spec /\ Fairness

Waiting(s) ==
    \E r \in Responses : \E b \in target[r].batch : s \in ToSet(b.entries) /\ b.pin = "input"

(* Accepted input is committed to a successor or returned as failed,       *)
(* unless it waits for the client's required output or the connection ends.*)
Resolves ==
    \A s \in Steers : fate[s] = "owned" ~>
       AppliedBy(s) # {} \/ told[s] = "failed" \/ Waiting(s) \/ conn # "open"

=============================================================================
