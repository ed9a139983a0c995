# TLA+ models of agentic-api

This directory holds TLA+ models of the stateful parts of the `agentic-api`
gateway, the TLC configurations that check them on small instances, and TLAPS
proofs of what matters most in them. `PROJECT.json` is the index: components,
runs, mutants, the map from definitions to source lines, findings, hazards and
theorems.

Paths below are relative to `src/crates/`; `core/` abbreviates
`agentic-server-core/src/`, `server/` abbreviates `agentic-server/src/`, `ws/`
abbreviates `server/handler/websocket/`.

## 1. The system

The gateway puts a stateful Responses API (and the Conversations and Messages
APIs) in front of a stateless inference server. A request is rehydrated with the
history it continues, run through rounds of inference and gateway-owned tool
calls, and persisted. Over WebSocket one connection multiplexes several FIFO
lanes, caches the latest response of each lane in a session so that unstored
responses can be continued, and accepts `response.steer` updates that a
successor of a running response applies.

| Component | State | Operations | Module |
|---|---|---|---|
| Response session group (`core/executor/session.rs`, `session/checkpoint.rs`) and turn persistence (`persist.rs`) | members, cached checkpoints, leases, pins, byte budget | begin, rehydrate, checkpoint, publish, pin, close, wait until idle | `ResponseSession` |
| Context compaction (`core/executor/compaction.rs`, `pending_calls.rs`, `types/io/input/window.rs`) | stored chain, retained window, open calls | rehydrate, trigger, summarise, carry over, store | `CompactionWindow`, `Compaction` |
| Response and conversation stores (`core/storage/response.rs`, `conversation.rs`, `models/`) | rows, history item ids, sequence numbers, latest response | get, persist, delete, add and delete items | `ResponseStore`, `ConversationStore` |
| WebSocket multiplexer, steering, connection loop (`ws/responses/`, `core/executor/session/steering.rs`) | lanes, queue, routes, targets and their batches, outcome queues | admit, schedule, steer, reserve, commit, fail, evict, drain | `Steering` |
| Event sink and retained run owner (`core/executor/response_events.rs`, `engine/retained.rs`) | queue, relay, receipt, outcome | present, publish, flush, cancel, persist, abort | `RetainedRun` |
| Multi-agent coordinator and injection (`core/executor/multi_agent/`, `engine/multi_agent/`) | agent tree, phases, mailboxes, pending calls, command queue | spawn, message, wait, interrupt, round, compact, submit, finish | `MultiAgent` |
| Gateway tool loop and relay (`core/executor/gateway.rs`, `relay.rs`, `engine/agent_turn.rs`) | items of a round, running calls, deferred frames, budgets | stream, admit, run, announce, decide | `GatewayLoop` |
| Stream accumulator (`core/executor/accumulator/`) | slots, id bindings, validation state | bind, accumulate, complete, drain, cut | `ItemSlots` |
| Messages API loop (`core/executor/messages_stream.rs`, `messages_server_tools/`) | message blocks, server tools, budgets, usage | ingest, show, execute, continue, replay | `MessagesLoop` |
| Message thread store (`core/storage/messages.rs`, `models/message_thread.rs`) | thread rows, lease tokens and expiries | load, reserve, renew, publish, release, expire | `MessageThreads`, `ThreadLog` |
| File search (`core/storage/file_search/`, `core/storage/local_files.rs`, `core/tool/file_search/`) | files, blobs, cleanup markers, stores, index rows | upload, publish, ingest, delete, sweep, page, rank | `FileBlobs`, `VectorStores`, `SemanticSearch`, `Pagination` |
| MCP client (`core/tool/mcp/`, `tool/executors.rs`) | connections, discoveries, handlers | discover, list, filter, connect, call | `McpServers` |
| Code interpreter (`core/tool/code_interpreter/`) | permit, worker process, deadlines | start, run, cancel, kill, reap | `CodeWorkers` |
| Rate limiter (`server/rate_limit.rs`) | arrival time of each caller, overflow bucket | check, sweep | `RateLimiter` |
| Key-set cache (`server/auth.rs`) | keys, expiry, back-off, refresh gate | look up, wait, fetch | `JwksCache` |
| Server, application and launcher lifecycle (`server/server.rs`, `agentic_process.rs`) | tracker, stop flags, child processes | start, serve, signal, drain, kill | `ServerLifecycle` |

The parts without a module (wire types, event translation, configuration,
telemetry, readiness, HTTP handlers, adapters, documentation, packaging) convert
data or do I/O; `PROJECT.json` lists each with the reason.

How they interact: a request on a WebSocket lane is admitted by the rate limiter,
scheduled by the multiplexer and run by a retained run, which takes a lease of
its session, rehydrates from the cache or the stores, compacts, runs rounds of
the tool loop (whose upstream events the slots accumulate and whose calls go to
MCP servers, the code interpreter or file search), or the multi-agent
coordinator, persists, publishes its checkpoint and commits its event sink; a
steering target then hands it to a successor. `ServerLifecycle` surrounds all of
this. The modules meet at those steps; where one needs another it has the other's
outcomes as choices (a run of `Steering` may fail, abort or commit; a turn of
`ResponseSession` may end at any await), so that its results hold whatever the
other does.

### What is hard here, and what makes each part correct

* **Sessions.** Turns share one byte budget and may end by success, error,
  cancellation or a closing connection, with awaits in between. One lease per
  session, an exact and bounded counter, nothing cached after close, and a
  history that never loses or repeats a turn whichever mix of cached and stored
  parents produced it.
* **Compaction** replaces history by a summary while calls are still open: a
  client can go on from every response, and the model is never shown an output
  without its call.
* **Stores.** A turn reads its base long before it writes its result, and two
  replicas share the database and the blob directory. What is recorded is what
  the model saw; deletions remove exactly the deleted context; no listed file
  lacks its bytes whatever stops where.
* **Steering.** A target accepts updates while it runs, while it is ready and
  while a successor is prepared across awaits: an accepted update is applied
  once or returned once, in order, and eventually.
* **Rounds of tools.** Calls run concurrently under three limits while items of
  the same round still stream: the client sees a legal sequence, the model gets
  one output per call, and no waiting call starves another.
* **Agents** message, wait for and interrupt each other under a limit: nothing
  is stranded, nothing reported twice.
* **Threads.** Replicas with different clocks renew, lose and take over leases: a
  message is continued once.
* **The process.** Clocks are read before locks are taken, fetches are dropped
  half-way, guests are killed, signals arrive during the drain.

## 2. Modules

An `Option` is a set with at most one element or a named null value. An action is
one critical section of the code, or what runs between two awaits; a database
transaction is one step. Operators whose comment starts with *Mutant* are
plausible bugs; they show that a property can fail, and no specification refers
to them. Every definition's lines are in `PROJECT.json` under `map`.

**ResponseSession.** A turn is named by the response it produces and goes through
`new`, `fork` (a begin still scanning sibling sessions under the group lock),
`rehydrate`, `run`, `write`, `publish`, `notify`, `done`; `drop` is a turn that
was abandoned and whose lease is not dropped yet. `Begin`, `BeginFresh` and
`BeginPinned` are the three ways to take a lease; `RehydrateStored` charges a
copy of its own; `BuildCheckpoint` reserves the replacement; `DurableWrite` and
`Publish` are two steps because `write_turn` awaits the database between them.
Checkpoints are values, charged once however many references share them.
`lineage` is a history variable: the chain each request asked to continue.

**CompactionWindow, Compaction.** Pure operators over histories (open calls,
windows, what a compaction carries over) and one chain of turns that applies
them, over HTTP and in a session. An item is its type, its call or message and
the kind a call and its output agree on; summaries are opaque; thresholds and
estimates are choices, one turn runs at a time, and the compact endpoint is one
step. The branch of `maybe_compact_context` for multi-agent requests is not
reachable from `run_round` and is left out (`MultiAgent` has its own compaction).

**ResponseStore, ConversationStore.** A turn reads its parent when it rehydrates,
again at the head of `persist`, and inserts later. The two reads of
`from_conversation` come in either order. The statements of `persist` are
separate steps held apart by the row lock, because several replicas may share a
PostgreSQL database. A turn's items are named by the turn.

**Steering.** The connection loop, a task per running request (`run_response`), an
execution per response, an outcome worker per target and the deferred failure
workers. `Faults` names what may go wrong: the principal expires, an execution
aborts, a relay closes, the server shuts down. Steering input is valid; byte
budgets count entries; the session-lane limit, injection and `generate=false`
are left out; the reservation of a successor and the barrier it sends are one
step; teardown of the connection is one step.

**RetainedRun.** A producer waits for a place in the queue, then numbers and
enqueues its frame under the sink's lock: two steps, between which the relay may
close. Worker, acknowledging tasks, a flush and the relay interleave.

**MultiAgent.** The coordinator's loop is one actor; model rounds, compactions,
deadlines and the client's submissions are its environment. Not modelled: replay
of a history the client holds, byte budgets, frame delivery.

**GatewayLoop.** An upstream stream whose items open in ascending index order, the
dispatcher, the relay with its deferred frames, admission under the call budget,
execution under exclusion, slots and shared permits, and the decision after a
round. Withholding a builtin tool after a refusal is not modelled; the JSON relay
presents nothing; the retained-byte budget is the outcome `fatal`.

**ItemSlots.** An upstream that names its items by index, id, both or neither.
Content is counted in fragments; kinds stand for the classes the code tells
apart; reasoning parts, shell items, byte accounting, id synthesis and the JSON
body path are left out.

**MessagesLoop.** Blocks arrive at ascending indices, `message_delta` after them;
an invalid line fails the round; the non-streaming loop is there as reference
operators. Sealed results, thread byte limits, `fallback` and request
normalisation are left out.

**MessageThreads, ThreadLog.** `ThreadLog` is what the store promises without
replicas, leases or clocks: a message is continued at most once, in one step, by
exactly its history plus the turn. `MessageThreads` is the store: replicas with
skewed clocks, rows with a lease token, guards and cleanup tasks in memory,
maintenance passes that renew what they copied, and crashes. The refinement
mapping is `Log`: open messages are the rows that are ready or in flight, and a
message is continued when a committed turn has it as its parent.

**FileBlobs, VectorStores, SemanticSearch, Pagination.** The upload, deletion and
sweep tasks of several replicas over SQL and a blob directory; ingestion races;
the doubling of k against the exact ranking; keyset paging over a changing table.
Text extraction, ranking by words and score fusion are left out.

**McpServers.** Each request declares one server and builds its tools from one of
four sources, over connections and caches the requests share; name sanitisation
and its collisions are modelled. URL and header validation, registry merge, byte
limits and reconnection inside the MCP library are left out.

**CodeWorkers.** Caller, supervisor thread, guest process and deadlines.
`cgroup.kill` takes effect at once on the attached processes; the readiness probe,
delegation, temporary directories and the framing of messages are left out.

**RateLimiter, JwksCache, ServerLifecycle.** The limiter with a clock read outside
its lock; the key cache with a discrete clock and a provider that rotates its key;
`run_with_llm`, `serve_gateway` and the launcher's session with one signal. Token
claims and signatures, the readiness probe, telemetry and configuration are left
out.

## 3. Runs

A run is a suite: its MC module holds one instance of each module (or several,
with different constants) and a variable `part` that an initial state chooses and
no step changes. A behaviour is a behaviour of that one part; the variables of the
others rest. So the states of a suite are the sum of those of its parts, never
their product, and what a part shows is what a run of its own would show. Parts
that share no variables are put together only to keep the number of
configurations small; they are about the same layer of the system. In a suite with
fairness, `Stop` lets a part rest where its module may stop, and each fairness
condition is that of the part's own module. The parts of `steering` are cuts of
one specification instead: each bounds which requests, lanes and faults occur.

A property of a suite is a conjunction of named parts, each defined with the
comment that says which code it is about, grouped by what they promise together.

| Run | Parts | Distinct states | Properties |
|---|---|---|---|
| `sessions` | `group`: two sessions, three turns, one pin; `http`, `socket`: a chain of three turns with compactions | 884k | `BudgetSound`, `SerialLease`, `ClosedCachesNothing`, `HistoryContinuity`, `DurableMeansStored`, `CompactionSound` |
| `stores` | `chain`, `quiet`: four turns and deletions; `shared`, `edited`: a conversation with three turns, or two and an API item; `lists`; `portable`, `indexed`: vector stores; `blobs`: two replicas, two deleters, a crash | 866k | `ChainSound`, `ConversationSound`, `WalksComplete`, `FilesSound`, `BlobsSound` |
| `steering` | `faults`: every fault, two steers; `queue`: a queued create against automatic successors; `lanes`: two lanes under a limit of one | 472k | `EachSteerOnce`, `LanesServed`, `OutcomesInOrder` |
| `multi_agent` | `live`, `mail`, `deep`, `continue`: trees of two and three agents | 1.10M | `OutputsOnce`, `SlotsShared`, `AllAccounted` |
| `gateway` | five instances of the tool loop, three of the slots | 379k | `StreamIsResponse`, `CallsAnswered`, `SteeringSafe`, `ItemsSound` |
| `messages` | `threads`: three turns on two replicas; five instances of the Messages loop | 1.26M | `ThreadsSound`, `ImplementsThreadLog`, `StreamIsTurn`, `RoundsSound`, `ReplayRestoresRounds` |
| `tools` | `workers`; `sources`, `names`, `cell`: MCP servers | 1.05M | `GuestsBounded`, `ServersShared`, `CallsPermitted` |
| `process` | `limits`: four checks of three callers with a map of one key; `run`; `keys`; `leases`: several lease periods | 1.38M | `RateSound`, `RetrySuffices`, `RunTold`, `LifetimesBounded` |
| `progress` | `server`, `wait`, `loop`, `blobs`, `search`, with fairness | 349k | `ServerSound`, `SignalEnds`, `TurnsEnd`, `StoresSettle` |
| `outcomes` | `agents`, `servers`, `workers`, `run`, `steers`, with fairness | 233k | `RunEnds`, `HelpersEnd`, `Resolves` |
| `steering_expiry` | | | `Resolves`, violated: finding 1 |
| `response_delete_race` | | | `NoDeletedContext`, violated: finding 2 |

Each property of a passing run has a mutant in `PROJECT.json`: a changed
definition under which TLC finds the property violated.

What they show, in a sentence each:

* `BudgetSound`, `SerialLease`, `ClosedCachesNothing`: the byte counter is the sum
  of the checkpoints that are referenced, an idle session gives its charge back,
  a session has one turn at a time, and a closed group caches nothing, at every
  point where a turn, a pin or the connection may go away.
* `HistoryContinuity`, `DurableMeansStored`: every checkpoint and row is the
  chain its request asked to continue, and a turn reported as stored is.
* `CompactionSound`: outputs find their calls, calls come once, users' messages
  stay, and the cached window and the stored chain show the model the same.
* `ChainSound`: deletions lose nothing else, and all of the deleted context unless
  one overlaps a turn (finding 2; the part `quiet` has no such overlap).
* `ConversationSound`: items join at the end, a response records the context it
  ran with, and a turn that requires the latest turn is stored right after it.
* `WalksComplete`, `FilesSound`, `BlobsSound`: a walk over changing rows is in
  order and complete; no chunk without its file, store and index row; no row
  without bytes, and no bytes without a row or an intent.
* `EachSteerOnce`, `LanesServed`, `OutcomesInOrder`, `Resolves`: an accepted
  update has exactly one fate, told in order, and it does get one.
* `OutputsOnce`, `SlotsShared`, `AllAccounted`, `RunEnds`: client outputs are
  applied once, an agent waits for nothing but a slot, no task is forgotten, and
  the response ends.
* `StreamIsResponse`, `CallsAnswered`, `SteeringSafe`, `ItemsSound`: the frames
  are a legal sequence and the stored response; calls are answered once within
  the budgets; items are neither folded together nor lost.
* `StreamIsTurn`, `RoundsSound`, `ReplayRestoresRounds`: the same for Messages,
  and a finished turn the client returns restores the rounds it came from.
* `ThreadsSound`, `ImplementsThreadLog`, `LifetimesBounded`: one continuation per
  message, a lease its holder can rely on, an abandoned lease that ends.
* `GuestsBounded`, `ServersShared`, `CallsPermitted`: a permit is never given
  back before its process is reaped, requests that share servers see their own
  filter and fixed names, and only authorised tools are called.
* `RateSound`, `RetrySuffices`: a bucket grants at most its burst and one request
  per interval, beyond which it is off by no more than the wait for the lock, and
  a caller who waits as told is granted.
* `RunTold`: the numbered sequence has no gap, a completed run is stored, a
  receipt is exact.
* `ServerSound`, `SignalEnds`, `TurnsEnd`, `StoresSettle`, `HelpersEnd`: a signal
  ends the process within the drain, and what waits is served.

### Bounds

* Sessions: with `Limit = 3` and `MaxBytes = 1`, checkpoints of size 1 and refused
  ones of size 2 both occur, three live checkpoints fill the budget and a fourth
  is refused. Three turns are a parent, a stored child and a fork that continues
  either. A chain of three turns has a compaction above, in and below a turn.
* Stores: four turns give deletions above, inside and below a concurrent turn;
  three writers give every order of two and a deletion around a third. Ten owner
  tokens are more than can be in use, so a fresh one always exists.
* Steering: responses never run out, since a successor consumes an update. Two
  steers and a queue of two fill every queue. The code serves queued creates of a
  lane first, so an endless stream of them may delay a successor: creates are
  bounded, and `Resolves` is not claimed of such a client.
* Agents: a limit of one makes two subagents compete; mailboxes of two or three
  messages fill up; five rounds are enough for spawn, message, wait and answer.
* Gateway: three items in a round give a call behind, between and before others;
  six rounds pass the limit of two asynchronous rounds in a row.
* Threads: three turns are two that compete for a third one's message; a skew and
  a lease of one tick let a lease run out on one replica and not on the other. The
  part `leases` has longer leases and several maintenance passes, on one replica.
* Limits: a map of one key sends every second caller to the overflow bucket.
* Blobs: one fault at any point; the sweep's age and the lease let a sweep outlive
  the lease it claimed.

Deadlock is not checked where the system may stop, which is said in the cfg.
Symmetry is used only with invariants and action properties. Where a suite has no
symmetry set for some names, `Renamed` (sessions) and `UploadHere` (progress) pick
one of two behaviours that differ by a renaming.

### Fairness

Weak fairness of what the runtime polls and of deadlines, never of a client or of
a request's arrival:

* `TurnsEnd`: a turn that holds a lease and a waiter are polled again; the calls
  of a round return (their handlers have timeouts), other responses give their
  permits back.
* `StoresSettle`: each replica's maintenance loop runs its sweep, and time passes.
* `SignalEnds`: only `run_with_llm`'s polling and the clock.
* `RunEnds`: the coordinator is polled, rounds end, deadlines pass. It is checked
  without client calls and submissions, which may keep a response waiting.
* `HelpersEnd`: page requests answer, fail or time out; the supervisor thread of a
  guest and its deadlines; the worker task of a cancelled run.
* `Resolves`: each lane's task, each execution's end, each outcome and cleanup
  worker, and the loop's reaction to a failed relay and to a completed drain.

`GatewayLoop` itself asks strong fairness of `AcquirePermit` (the semaphore is a
fair queue); `progress` needs only the weak one since the other responses hold at
most one of two permits.
## 4. Proofs

TLC checks the instances of section 3; the theorems below hold for every value of
the constants. Eight modules hold them, each beside the module it is about. Every
inductive invariant was model-checked as an invariant of its module's own
specification on a small instance before it was proved.

| Module | Theorems | Property of a run |
|---|---|---|
| `ResponseSessionProofs` | `Invariance`, `TypeCorrect`, `BudgetIsExact`, `LeasesAreSerial`, `IdleSessionsRelease`, `ClosedSessionsCacheNothing`, `BudgetIsSound`, `HistoriesContinue`, `DurableIsStored` | `BudgetSound`, `SerialLease`, `ClosedCachesNothing`, `HistoryContinuity`, `DurableMeansStored` |
| `MessageThreadsProofs` | `Invariance`, `ThreadsAreSound`, `StoreImplementsLog`, `AbandonedLeasesEnd` | `ThreadsSound`, `ImplementsThreadLog` |
| `CodeWorkersProofs` | `Invariance`, `GuestsAreBounded` | `GuestsBounded` |
| `SteeringProofs` | `SteeringTypeCorrect`, `LanesAlwaysServed` | `LanesServed` |
| `SteeringFatesProofs` | `EverySteerOnce`, `OutcomesAlwaysInOrder` | `EachSteerOnce`, `OutcomesInOrder` |
| `FileBlobsProofs` | `Invariance`, `BlobsAreSound` | `BlobsSound` |
| `RateLimiterProofs` | `Invariance`, `RateIsSound`, `RetryIsHonest` | `RateSound`, `RetrySuffices` |
| `ServerLifecycleProofs` | `Invariance`, `ServerIsSound` | `ServerSound` |

The assumptions are those of the modules: finite sets of sessions, turns, files
and clients where something is counted, at least one slot, one burst, one tick of
a lease or a drain, a lane and positive limits of a connection, more owner tokens
than tasks and intents can hold at once (they are UUIDs), and the names `None` and
`Overflow` outside the sets they mark. The bounds that exist for TLC (`MaxPins`,
`MaxClock`, `MaxPasses`, `MaxAge`, `MaxFaults`) are any number.

**Sessions.** That `used` is the sum of the referenced checkpoints is not inductive
alone: reserving a replacement adds one charge, which is right only if the new
checkpoint is not referenced yet. `FreshInv` says so: every referenced checkpoint
was allocated by a turn that is past rehydration, its replacement by a turn that
is past generation. `TurnInv` ties the phase of a turn to what it references, so
that dropping it gives back exactly its own charge; `ClosedInv` says that an open
group still lists every session it created, so that its `Drop` reaches them all.
The charge of a set is a fold over a finite set, and what one element more or less
does to it is `ChargeOne` and `ChargeUnion`.

**Histories.** `HistoryContinuity` relates a checkpoint to the chain its request
asked for, and a checkpoint is built from a parent that was cached, pinned or read
back from the database several steps before. `ChainInv` remembers which parent a
lease extends until it is built, `RowInv` and `CheckpointInv` that whatever can
become a parent holds its own chain, and `DurableInv` that what another turn may
take for durable has its row: a turn between `DurableWrite` and `Publish` has it
already. The steps that touch no turn (`CachesStep`) only copy checkpoints.

**Threads.** A message is continued once because the token in its row is of a turn
that has not committed, and a turn that is to publish holds that token (`RowInv`,
`TokenInv`); `ParentInv` keeps the history the turn loaded, through renewals,
take-overs and crashes, so that a commit is the one step of `ThreadLog` that
continues it. `StoreImplementsLog` maps every step: a commit to `Continue`, the
expiry of rows to `Forget`, all others to a stutter. `AbandonedLeasesEnd` bounds
`until` by the time the request left (`UntilInv`): a maintenance pass that copied
the token before may renew it once more, hence two lease periods, plus the skew.

**Guests.** A permit is held from admission to the answer and a worker exists only
under a supervisor that holds one (`PermitInv`); so workers inject into permits,
and `Cardinality(held) <= Slots` bounds them. `CancelInv` and `KillInv` say that a
cancel is not lost between registering the callback and attaching the process, the
window in which the code checks the flag again; `AnswerInv` that a guest which
exceeded its output is stopped and not reported complete.

**Steering.** That a target with accepted input keeps its route and settings
(`OwnersStayUsable`) rests on what every task, queued request and execution may
be doing meanwhile. `LaneInv` holds the queues to the limit, so that a lane's next
request is admitted in the place of the one that ended. `TaskInv` says at which
points a task has a response, whose execution has which state, and that no two
tasks share one; `RunInv` that a response is not visible before its route is
registered. `TargetInv` says that a non-empty batch has a created response, a
route and, until it is reserved, settings; that a reservation is held by one task
of the lane, until it commits, reopens or fails the batch; that a ready target has
ended; and that a deferred failure owns a closed one. The conditions `Older`, `Steady`
and `Whole` say what a step may change around a task or a target without touching
these facts; each action then shows only what it changes itself.

**Fates of steers.** That an accepted update is applied once or returned, never
both and never neither, relates the batches of all targets, the snapshots of the
tasks and the outcome queues of all responses. `CarryInv`: a successor being
prepared carries exactly what its parent's target holds, and whatever carries an
update was created, has ended or still is being prepared. `HeldInv`: one target
holds an update, which was not returned, and a created successor that carries it
belongs to the task that is about to commit it, so failing a batch after the
receipt said "not created" returns nothing that was applied. `AppliedInv` is the
property itself. For the order, `AckInv` says that the acceptance of all a target
holds was emitted or waits there in front of the barrier its reservation put into
the queue, and `OutboxInv` that an acceptance is queued once, before the failure of
the same update, and agrees with its fate; so a flushed barrier means the client
was told. `QuietStep`, `GrownOutbox` and `GrownAck` carry the steps that only move
tasks or only append outcomes; `EverySteerOnce` and `OutcomesAlwaysInOrder` then
follow from every step's `StepOK`.

**Uploaded files.** The row, the marker and the bytes of a file are in two stores
no transaction spans, and three kinds of tasks may act on it at once. `FileOK` ties
them to the phase of the file's one upload: a row means its bytes, an upload that is
done and no marker; an upload under way has a marker, and its blob unless a sweep
took the marker as abandoned. That a sweep or a deletion never removes the bytes of
a published row needs `Buried`: once a pass has claimed a file, either its upload is
done and the row gone, or the marker is abandoned, which the publication's fence and
every other task leave alone; so no row can appear while the pass removes the bytes.
`SweepOK` and `DeleteOK` say that a marker is given up only when the bytes are gone
or the marker stays as a tombstone. The freshness of owner tokens is needed for the
types only (`FreshExists`, by counting): no property rests on a token being unique,
because the kind of the marker already tells the publication that it was fenced off.

**Limiter.** For every grant of a bucket, its arrival time is at least the time of
that grant and an interval for it and each that followed (`ArrivalInv`); together
with the check that admits, that is the rate. A sweep forgets arrival times, by
the clock of a request that read it up to `MaxDelay` before it got the lock, and
each one costs the accounting that much: `Slack`. The arithmetic, the rounding of
`Retry-After` up to whole seconds and the sweep are lemmas of their own.
`RetryIsHonest` rests on `PromiseInv`: what was promised covers the arrival time
until the bucket serves somebody else.

**Lifecycle.** The tracker's count is the number of guards there are (`CountInv`),
so a waiter that finds it zero finds no guard; `NoLostWakeup` needs the waiter to be
registered before it reads the count, as `Notify` has it. `GateInv` says what each
stage of `serve_gateway` has already seen end, which is what a later stage relies
on, and `ClientInv` that a client is cut off only at the end of the drain.

What stays model-checked: everything under fairness (`SignalEnds`, `TurnsEnd`,
`StoresSettle`, `RunEnds`, `HelpersEnd`, `Resolves`), as the prover has no liveness
under fairness and no `ENABLED`; what a recursive definition computes for every
input (`CompactionSound`, `ReplayRestoresRounds`, the walk of a deletion in
`ChainSound`), which needs induction over data; and the properties of the other
large state machines (`MultiAgent`, `GatewayLoop`, `MessagesLoop`, vector stores, MCP), for which
no inductive invariant is written.


## 5. Findings

1. **An expired principal leaves accepted steering unresolved**
   (`ws/responses/multiplexer.rs:321`, run `steering_expiry`). The task of an
   automatic successor returns after the identity error without failing its
   target, and the target is scheduled again and again. `ARCHITECTURE.md:286-287`
   and `docs/api/index.md:649` say such input is closed and returned.
2. **A deletion can leave deleted context in a new descendant**
   (`core/storage/response.rs:187`, run `response_delete_race`). `persist` reads the
   parent's history before it opens its transaction. A delete of the parent's
   ancestor that commits in between is not seen, and the child keeps the deleted
   context. `docs/api/index.md:538-540` says descendants exclude it.

The modules also state what a comment, a document or a test says and the code does
not do in corner cases. No run lists these; each is an operator of the module
named, and TLC finds a counterexample with the constants of the part named.

* `NothingStoredSince` (`ConversationStore`, `shared`): the latest-turn check
  compares null with null after the other turn's response was deleted
  (`core/storage/conversation.rs:163` against `:143-144`).
* `AbortCloses` (`Steering`, `faults`): an abort of an automatic successor does not
  close the transport, since the error is replaced by the success of failing a
  batch that is already closed (`ws/responses/multiplexer.rs:357` against
  `core/executor/engine/retained.rs:355-356`).
* `RateExact` (`RateLimiter`, `limits`): forgetting an idle caller does change a
  decision of a check that read an earlier time (`server/rate_limit.rs:181`
  against `:208`); `RateBounded` is what holds.
* `StoredIsCommitted` (`RetainedRun`, `run`): a stored response is reported failed
  when its terminal frame cannot be delivered (`engine/retained.rs:218` against
  `response_events.rs:17`).
* `QuiescentCloses` (`MultiAgent`, `live`): an agent that failed while it waited
  keeps a quiescent response open until its deadline
  (`engine/multi_agent/rounds.rs:338` against `engine/multi_agent.rs:279`).
* `ClientCallsNotOvertaken` (`GatewayLoop`, `wire`, with `EndsUnnamed`): a gateway
  call is announced before an earlier client function call
  (`core/executor/gateway.rs:306` against `:299`).
* `OwnTurnAccepted` (`MessagesLoop`, `replay`, without `UniqueIds`): a turn whose
  upstream reused a call id is refused when the client returns it
  (`messages_server_tools/replay.rs:223` against `:8`).
* `AliasesFixed` (`McpServers`, `names`, with `Echoes`): the alias of a tool whose
  name collides changes once its narrowed listing is retained
  (`tool/mcp/handler.rs:217` against `:168`).
* `FailureSuppresses` (`JwksCache`, `keys`): after a slow failure the next fetch
  comes earlier than 30 seconds (`server/auth.rs:129` against
  `docs/design/oidc-bearer-authentication.md:34`).
* `SessionLeavesNothing` (`ServerLifecycle`, `server`): the launcher kills the
  gateway, whose vLLM child stays (`server/agentic_process.rs:511` against
  `docs/superpowers/specs/2026-08-14-agentic-api-cli-design.md:72`).
* `OutputHasCall` (`Compaction`, `http`): a repeated output of a synchronous call
  is shown without its call (`types/io/input/window.rs:124` against `:117`).
* `StoredGoesOn` (`Compaction`, `socket`): a stored child of an unstored parent
  that compacted cannot be continued over HTTP (`core/executor/persist.rs:135`
  against `:131`).

## 6. Not modelled

Prompt text and token estimates of compaction, word ranking, wire formats,
telemetry, configuration parsing, CLI output, readiness probes and packaging: they
have no state machine, or their behaviour is in text that a model would only
restate. What is left out of a modelled part is said with its module in section 2
and in `PROJECT.json`. A variant of `ResponseStore` statement by statement, for
PostgreSQL at READ COMMITTED, is not written.
