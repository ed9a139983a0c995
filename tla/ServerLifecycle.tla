--------------------------- MODULE ServerLifecycle ---------------------------
(***************************************************************************)
(* Start, drain and stop of the gateway process when it owns a vLLM        *)
(* subprocess (`agentic-server serve`), alone or under the `agentic`       *)
(* launcher that runs it next to a coding harness.                         *)
(*                                                                         *)
(* Four processes: the launcher, the harness, the gateway and vLLM. Inside *)
(* the gateway: run_with_llm (variable server), the future serve_gateway   *)
(* (gate), the blob cleanup worker, HTTP requests with the thread leases   *)
(* they hold, and WebSocket tasks with the tracker that counts them. A     *)
(* request or socket task is a Tokio task of its own: dropping the gateway *)
(* future does not end it, stopping the runtime does.                      *)
(***************************************************************************)
EXTENDS Naturals, FiniteSets

CONSTANTS
    Clients,        \* connections the gateway may accept
    DrainTimeout,   \* GATEWAY_DRAIN_TIMEOUT, in ticks
    Launched        \* whether the `agentic` launcher started the gateway

ASSUME ClientsAssumption == IsFiniteSet(Clients)
ASSUME DrainAssumption == DrainTimeout \in Nat \ {0}
ASSUME LaunchedAssumption == Launched \in BOOLEAN

VARIABLES
    launcher,   \* where run_session is
    harness,    \* the coding harness
    server,     \* where run_with_llm is
    result,     \* what it will return
    llm,        \* the vLLM subprocess
    llmFailed,  \* vLLM exited without being killed
    signalled,  \* a signal the registered listener has not consumed
    heard,      \* a signal has reached the gateway
    token,      \* shutdown_token is cancelled
    elapsed,    \* ticks since the drain began
    gate,       \* where serve_gateway is
    listening,  \* axum still accepts
    worker,     \* the blob cleanup worker
    http,       \* per client, its HTTP connection
    lease,      \* per client, the Messages thread lease of its request
    socket,     \* per client, its upgraded WebSocket task
    active,     \* WebSocketTracker.active
    waiter,     \* where wait_until_idle is
    notified    \* whether notify_waiters ran since the waiter's notified()

proc == <<launcher, harness, server, result, llm, llmFailed, signalled, heard, token, elapsed>>
future == <<gate, listening, worker>>
tracker == <<active, waiter, notified>>
vars == <<proc, future, http, lease, socket, tracker>>

HttpStates == {"none", "running", "upgrading", "done", "cut"}
LeaseStates == {"none", "held", "releasing", "free"}
SocketStates == {"none", "open", "busy", "leaving", "notifying", "gone", "cut"}
Running == {"startup", "serving", "draining", "reaping"}

TypeOK ==
    /\ launcher \in {"none", "wait", "harness", "cleanup", "over"}
    /\ harness \in {"none", "running", "gone"}
    /\ server \in {"discover", "exited", "killed"} \cup Running
    /\ result \in {"none", "ok", "llm_exited", "error"}
    /\ llm \in {"none", "loading", "ready", "gone"}
    /\ {llmFailed, signalled, heard, token, listening, notified} \subseteq BOOLEAN
    /\ elapsed \in 0..DrainTimeout
    /\ gate \in {"none", "bind", "accept", "workers", "idle", "threads", "done", "dropped"}
    /\ worker \in {"none", "running", "gone"}
    /\ http \in [Clients -> HttpStates]
    /\ lease \in [Clients -> LeaseStates]
    /\ socket \in [Clients -> SocketStates]
    /\ active = Cardinality({c \in Clients : http[c] = "upgrading"
                                             \/ socket[c] \in {"open", "busy", "leaving"}})
    /\ waiter \in {"off", "armed", "asleep"}

Init ==
    /\ launcher = IF Launched THEN "wait" ELSE "none"
    /\ harness = "none"
    /\ server = "discover" /\ result = "none"
    /\ llm = "none" /\ llmFailed = FALSE
    /\ signalled = FALSE /\ heard = FALSE /\ token = FALSE
    /\ elapsed = 0
    /\ gate = "none" /\ listening = FALSE /\ worker = "none"
    /\ http = [c \in Clients |-> "none"]
    /\ lease = [c \in Clients |-> "none"]
    /\ socket = [c \in Clients |-> "none"]
    /\ active = 0 /\ waiter = "off" /\ notified = FALSE

Alive == server \in Running

(* A task that is still alive when the process ends is cut short. *)
CutTasks ==
    /\ http' = [c \in Clients |-> IF http[c] \in {"running", "upgrading"} THEN "cut" ELSE http[c]]
    /\ socket' = [c \in Clients |-> IF socket[c] \in {"open", "busy", "leaving"}
                                    THEN "cut" ELSE socket[c]]
    /\ active' = 0

-----------------------------------------------------------------------------
(* run_with_llm *)

(* Discovery fails, or the signal listener is registered and vLLM spawned. *)
Discover ==
    /\ server = "discover"
    /\ \/ /\ server' = "startup" /\ llm' = "loading"
          /\ UNCHANGED result
       \/ /\ server' = "exited" /\ result' = "error"
          /\ UNCHANGED llm
    /\ UNCHANGED <<launcher, harness, llmFailed, signalled, heard, token, elapsed>>
    /\ UNCHANGED <<future, http, lease, socket, tracker>>

(* The run ends with r: the gateway future is dropped, vLLM still to be killed. *)
Conclude(r, g) ==
    /\ server' = "reaping" /\ result' = r
    /\ gate' = g /\ waiter' = "off"
    /\ listening' = FALSE
    /\ worker' = IF worker = "running" THEN "gone" ELSE worker

(* First arm of the biased startup select. *)
StartupSignal ==
    /\ server = "startup" /\ signalled
    /\ signalled' = FALSE
    /\ Conclude("ok", "none")
    /\ UNCHANGED <<launcher, harness, llm, llmFailed, heard, token, elapsed>>
    /\ UNCHANGED <<http, lease, socket, active, notified>>

(* Second arm: vLLM exited while the gateway waited for it. *)
StartupExit ==
    /\ server = "startup" /\ ~signalled
    /\ llm = "gone"
    /\ Conclude("llm_exited", "none")
    /\ UNCHANGED <<launcher, harness, llm, llmFailed, signalled, heard, token, elapsed>>
    /\ UNCHANGED <<http, lease, socket, active, notified>>

(* Third arm: ready and the state built, or readiness timed out or the build failed. *)
StartupReady ==
    /\ server = "startup" /\ ~signalled /\ llm # "gone"
    /\ \/ /\ llm = "ready"
          /\ server' = "serving" /\ gate' = "bind"
          /\ UNCHANGED <<result, waiter, listening, worker>>
       \/ Conclude("error", "none")
    /\ UNCHANGED <<launcher, harness, llm, llmFailed, signalled, heard, token, elapsed>>
    /\ UNCHANGED <<http, lease, socket, active, notified>>

(* The listener binds and the cleanup worker starts, or the bind fails. *)
Bind ==
    /\ server = "serving" /\ gate = "bind"
    /\ \/ /\ gate' = "accept" /\ listening' = TRUE /\ worker' = "running"
          /\ UNCHANGED <<server, result, waiter>>
       \/ Conclude("error", "done")
    /\ UNCHANGED <<launcher, harness, llm, llmFailed, signalled, heard, token, elapsed>>
    /\ UNCHANGED <<http, lease, socket, active, notified>>

ServeSignal ==
    /\ server = "serving" /\ signalled
    /\ signalled' = FALSE /\ token' = TRUE
    /\ server' = "draining"
    /\ UNCHANGED <<launcher, harness, result, llm, llmFailed, heard, elapsed>>
    /\ UNCHANGED <<future, http, lease, socket, tracker>>

(* vLLM exits while serving: cancel and return its error, without a drain. *)
ServeChildExit ==
    /\ server = "serving" /\ llm = "gone"
    /\ token' = TRUE
    /\ Conclude("llm_exited", "dropped")
    /\ UNCHANGED <<launcher, harness, llm, llmFailed, signalled, heard, elapsed>>
    /\ UNCHANGED <<http, lease, socket, active, notified>>

(* drain_gateway: the timeout polls the gateway before its own clock. *)
DrainDone ==
    /\ server = "draining" /\ gate = "done"
    /\ Conclude("ok", "done")
    /\ UNCHANGED <<launcher, harness, llm, llmFailed, signalled, heard, token, elapsed>>
    /\ UNCHANGED <<http, lease, socket, active, notified>>

(* Mutant of DrainTimesOut. *)
DrainTimesOutAgain ==
    /\ server = "draining" /\ gate # "done"
    /\ elapsed = DrainTimeout
    /\ elapsed' = 0
    /\ UNCHANGED <<launcher, harness, server, result, llm, llmFailed, signalled, heard, token>>
    /\ UNCHANGED <<future, http, lease, socket, tracker>>

DrainTimesOut ==
    /\ server = "draining" /\ gate # "done"
    /\ elapsed = DrainTimeout
    /\ Conclude("ok", "dropped")
    /\ UNCHANGED <<launcher, harness, llm, llmFailed, signalled, heard, token, elapsed>>
    /\ UNCHANGED <<http, lease, socket, active, notified>>

(* child.kill and child.wait, the runtime stopped, telemetry flushed. *)
Reap ==
    /\ server = "reaping"
    /\ server' = "exited" /\ llm' = "gone"
    /\ CutTasks
    /\ UNCHANGED <<launcher, harness, result, llmFailed, signalled, heard, token, elapsed>>
    /\ UNCHANGED <<future, lease, waiter, notified>>

-----------------------------------------------------------------------------
(* serve_gateway *)

(* The graceful-shutdown future of axum sees the token and the accept loop ends. *)
StopListening ==
    /\ Alive /\ gate = "accept" /\ listening /\ token
    /\ listening' = FALSE
    /\ UNCHANGED <<proc, gate, worker, http, lease, socket, tracker>>

(* The server future completes once every connection it accepted has ended. *)
ServeEnds ==
    /\ Alive /\ gate = "accept" /\ ~listening
    /\ \A c \in Clients : http[c] \notin {"running", "upgrading"}
    /\ gate' = "workers"
    /\ UNCHANGED <<proc, listening, worker, http, lease, socket, tracker>>

(* abort_all and join_next until the cleanup worker is gone. *)
JoinWorkers ==
    /\ Alive /\ gate = "workers"
    /\ worker' = "gone" /\ gate' = "idle"
    /\ UNCHANGED <<proc, listening, http, lease, socket, tracker>>

(* The worker's own loop breaks on the token. *)
WorkerStops ==
    /\ Alive /\ worker = "running" /\ token
    /\ worker' = "gone"
    /\ UNCHANGED <<proc, gate, listening, http, lease, socket, tracker>>

(* wait_until_idle: notified() and enable() *)
Arm ==
    /\ Alive /\ gate = "idle" /\ waiter = "off"
    /\ waiter' = "armed" /\ notified' = FALSE
    /\ UNCHANGED <<proc, future, http, lease, socket, active>>

(* ... then the load of `active`, then the await. *)
CheckActive ==
    /\ Alive /\ gate = "idle" /\ waiter = "armed"
    /\ IF active = 0
       THEN gate' = "threads" /\ waiter' = "off"
       ELSE waiter' = "asleep" /\ UNCHANGED gate
    /\ UNCHANGED <<proc, listening, worker, http, lease, socket, active, notified>>

Wake ==
    /\ Alive /\ gate = "idle" /\ waiter = "asleep" /\ notified
    /\ waiter' = "off"
    /\ UNCHANGED <<proc, future, http, lease, socket, active, notified>>

(* messages_threads.shutdown joins the lease releases under way. *)
JoinReleases ==
    /\ Alive /\ gate = "threads"
    /\ \A c \in Clients : lease[c] # "releasing"
    /\ gate' = "done"
    /\ UNCHANGED <<proc, listening, worker, http, lease, socket, tracker>>

-----------------------------------------------------------------------------
(* requests and sockets *)

(* A Messages continuation takes a lease; a WebSocket upgrade is tracked in its handler. *)
Accept(c) ==
    /\ Alive /\ gate = "accept" /\ listening
    /\ http[c] = "none"
    /\ \/ /\ http' = [http EXCEPT ![c] = "running"]
          /\ \E l \in {"none", "held"} : lease' = [lease EXCEPT ![c] = l]
          /\ UNCHANGED active
       \/ /\ http' = [http EXCEPT ![c] = "upgrading"]
          /\ active' = active + 1
          /\ UNCHANGED lease
    /\ UNCHANGED <<proc, future, socket, waiter, notified>>

(* The response completes and its publication consumes the lease. *)
HttpEnds(c) ==
    /\ Alive /\ http[c] = "running"
    /\ http' = [http EXCEPT ![c] = "done"]
    /\ lease' = [lease EXCEPT ![c] = IF @ = "held" THEN "free" ELSE @]
    /\ UNCHANGED <<proc, future, socket, tracker>>

(* The request is dropped: a spawned, tracked task releases its lease. *)
HttpDropped(c) ==
    /\ Alive /\ http[c] = "running"
    /\ http' = [http EXCEPT ![c] = "done"]
    /\ lease' = [lease EXCEPT ![c] = IF @ = "held" THEN "releasing" ELSE @]
    /\ UNCHANGED <<proc, future, socket, tracker>>

LeaseReleased(c) ==
    /\ Alive /\ lease[c] = "releasing"
    /\ lease' = [lease EXCEPT ![c] = "free"]
    /\ UNCHANGED <<proc, future, http, socket, tracker>>

(* The connection is handed over: its HTTP side is over, the task runs on. An
   upgrade that fails drops the task and its guard. *)
Upgrade(c) ==
    /\ Alive /\ http[c] = "upgrading"
    /\ http' = [http EXCEPT ![c] = "done"]
    /\ \E s \in {"open", "leaving"} : socket' = [socket EXCEPT ![c] = s]
    /\ UNCHANGED <<proc, future, lease, tracker>>

(* A response.create is accepted only before the token is seen. *)
SocketWork(c) ==
    /\ Alive /\ socket[c] = "open" /\ ~token
    /\ socket' = [socket EXCEPT ![c] = "busy"]
    /\ UNCHANGED <<proc, future, http, lease, tracker>>

SocketWorkEnds(c) ==
    /\ Alive /\ socket[c] = "busy"
    /\ socket' = [socket EXCEPT ![c] = "open"]
    /\ UNCHANGED <<proc, future, http, lease, tracker>>

(* The loop breaks: drained and without work, or the client went away. *)
SocketDrained(c) ==
    /\ Alive /\ socket[c] = "open" /\ token
    /\ socket' = [socket EXCEPT ![c] = "leaving"]
    /\ UNCHANGED <<proc, future, http, lease, tracker>>

SocketDisconnected(c) ==
    /\ Alive /\ socket[c] \in {"open", "busy"}
    /\ socket' = [socket EXCEPT ![c] = "leaving"]
    /\ UNCHANGED <<proc, future, http, lease, tracker>>

(* Mutant of SocketEnds. *)
SocketEndsUnnotified(c) ==
    /\ Alive /\ socket[c] = "leaving"
    /\ active' = active - 1
    /\ socket' = [socket EXCEPT ![c] = IF active = 0 THEN "notifying" ELSE "gone"]
    /\ UNCHANGED <<proc, future, http, lease, waiter, notified>>

(* Drop of the guard, first half: fetch_sub. *)
SocketEnds(c) ==
    /\ Alive /\ socket[c] = "leaving"
    /\ active' = active - 1
    /\ socket' = [socket EXCEPT ![c] = IF active = 1 THEN "notifying" ELSE "gone"]
    /\ UNCHANGED <<proc, future, http, lease, waiter, notified>>

(* Second half, for the last guard only: notify_waiters. *)
NotifyIdle(c) ==
    /\ Alive /\ socket[c] = "notifying"
    /\ socket' = [socket EXCEPT ![c] = "gone"]
    /\ notified' = TRUE
    /\ UNCHANGED <<proc, future, http, lease, active, waiter>>

-----------------------------------------------------------------------------
(* signals, vLLM, the clock *)

(* Before the listener is registered a signal has its default effect. *)
Signal ==
    /\ ~heard
    /\ heard' = TRUE
    /\ \/ /\ Alive
          /\ signalled' = TRUE
          /\ UNCHANGED server
       \/ /\ server = "discover"
          /\ server' = "killed"
          /\ UNCHANGED signalled
    /\ UNCHANGED <<launcher, harness, result, llm, llmFailed, token, elapsed>>
    /\ UNCHANGED <<future, http, lease, socket, tracker>>

LlmReady ==
    /\ llm = "loading"
    /\ llm' = "ready"
    /\ UNCHANGED <<launcher, harness, server, result, llmFailed, signalled, heard, token, elapsed>>
    /\ UNCHANGED <<future, http, lease, socket, tracker>>

LlmExits ==
    /\ llm \in {"loading", "ready"}
    /\ llm' = "gone" /\ llmFailed' = TRUE
    /\ UNCHANGED <<launcher, harness, server, result, signalled, heard, token, elapsed>>
    /\ UNCHANGED <<future, http, lease, socket, tracker>>

Tick ==
    /\ server = "draining" /\ elapsed < DrainTimeout
    /\ elapsed' = elapsed + 1
    /\ UNCHANGED <<launcher, harness, server, result, llm, llmFailed, signalled, heard, token>>
    /\ UNCHANGED <<future, http, lease, socket, tracker>>

-----------------------------------------------------------------------------
(* run_session, the launcher *)

(* wait_for_gateway and the model lookup succeed and the harness starts, or one of
   them fails: the deadline passes whatever became of the gateway. *)
SessionStarts ==
    /\ launcher = "wait"
    /\ \/ /\ Alive /\ gate = "accept" /\ listening
          /\ launcher' = "harness" /\ harness' = "running"
       \/ /\ launcher' = "cleanup"
          /\ UNCHANGED harness
    /\ UNCHANGED <<server, result, llm, llmFailed, signalled, heard, token, elapsed>>
    /\ UNCHANGED <<future, http, lease, socket, tracker>>

(* The harness exits, or Ctrl-C makes the launcher kill it. *)
HarnessExits ==
    /\ launcher = "harness"
    /\ launcher' = "cleanup" /\ harness' = "gone"
    /\ UNCHANGED <<server, result, llm, llmFailed, signalled, heard, token, elapsed>>
    /\ UNCHANGED <<future, http, lease, socket, tracker>>

(* cleanup: kill (SIGKILL) and wait. A killed gateway runs no code of its own. *)
Cleanup ==
    /\ launcher = "cleanup"
    /\ launcher' = "over"
    /\ IF server \in {"exited", "killed"}
       THEN UNCHANGED <<server, http, socket, active>>
       ELSE server' = "killed" /\ CutTasks
    /\ UNCHANGED <<harness, result, llm, llmFailed, signalled, heard, token, elapsed>>
    /\ UNCHANGED <<future, lease, waiter, notified>>

-----------------------------------------------------------------------------
Over ==
    /\ server \in {"exited", "killed"}
    /\ launcher \in {"none", "over"}
    /\ UNCHANGED vars

ServerStep ==
    \/ Discover \/ StartupSignal \/ StartupExit \/ StartupReady \/ Bind
    \/ ServeSignal \/ ServeChildExit \/ DrainDone \/ DrainTimesOut \/ Reap

GateStep ==
    \/ StopListening \/ ServeEnds \/ JoinWorkers \/ WorkerStops
    \/ Arm \/ CheckActive \/ Wake \/ JoinReleases

ClientStep(c) ==
    \/ Accept(c) \/ HttpEnds(c) \/ HttpDropped(c) \/ LeaseReleased(c) \/ Upgrade(c)
    \/ SocketWork(c) \/ SocketWorkEnds(c)
    \/ SocketDrained(c) \/ SocketDisconnected(c) \/ SocketEnds(c) \/ NotifyIdle(c)

Next ==
    \/ ServerStep \/ GateStep
    \/ \E c \in Clients : ClientStep(c)
    \/ Signal \/ LlmReady \/ LlmExits \/ Tick
    \/ SessionStarts \/ HarnessExits \/ Cleanup
    \/ Over

Spec == Init /\ [][Next]_vars

(* The runtime polls run_with_llm and its timer; nothing is assumed of clients,
   sockets, the gateway future or vLLM. *)
FairSpec == Spec /\ WF_vars(ServerStep) /\ WF_vars(Tick)

-----------------------------------------------------------------------------
(* When serve_gateway returns by itself nothing it started is left: no request, no
   socket task, no cleanup worker and no lease that another replica would have to
   wait out (server.rs, lines 146-166). *)
QuietWhenDone ==
    gate = "done" =>
        /\ worker # "running"
        /\ \A c \in Clients : /\ http[c] \notin {"running", "upgrading"}
                              /\ socket[c] \notin {"open", "busy", "leaving"}
                              /\ lease[c] \notin {"held", "releasing"}

(* wait_until_idle never sleeps through the last guard's notification, which would
   make every drain last its full timeout (app.rs, lines 165-176 and 213-220). *)
NoLostWakeup ==
    Alive /\ gate = "idle" /\ waiter = "asleep" /\ active = 0 =>
        notified \/ \E c \in Clients : socket[c] = "notifying"

(* A gateway that was signalled and returns success has cut a request or a socket
   only after the whole drain timeout (server.rs, lines 190-203). *)
DrainHonoured ==
    server = "exited" /\ result = "ok" /\ (\E c \in Clients : "cut" \in {http[c], socket[c]}) =>
        elapsed = DrainTimeout

(* Success is reported only after a signal, and a vLLM failure only when vLLM
   exited by itself (server.rs, lines 303-336). *)
OutcomeTrue ==
    server = "exited" =>
        /\ result # "none"
        /\ result = "ok" => heard
        /\ result = "llm_exited" => llmFailed

(* vLLM never outlives a run_with_llm that returned, whichever way it returned
   (server.rs, lines 339-340). *)
ChildReaped == server = "exited" => llm \in {"none", "gone"}

(* The drain loses no work it promised to wait for, reports what happened and
   leaves no vLLM behind. *)
ServerSound ==
    TypeOK /\ QuietWhenDone /\ NoLostWakeup /\ DrainHonoured /\ OutcomeTrue /\ ChildReaped

(* A signal always ends the process, whatever requests, sockets, the database or
   vLLM do (server.rs, lines 180-203 and 323-341). *)
SignalEnds == signalled ~> server \in {"exited", "killed"}

(* The launcher's design: once the session is over the gateway and the vLLM it
   started have been terminated (agentic_process.rs, lines 510-514). *)
SessionLeavesNothing ==
    launcher = "over" => server \in {"exited", "killed"} /\ llm \in {"none", "gone"}
============================================================================
