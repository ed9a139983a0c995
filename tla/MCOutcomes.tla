----------------------------- MODULE MCOutcomes -----------------------------
(***************************************************************************)
(* For TLC, what a response and its helpers owe, no symmetry.  A behaviour *)
(* checks one part, chosen at the start; the variables of the other        *)
(* modules rest:                                                           *)
(*   agents   a parent that waits for an agent whose history is compacted  *)
(*   servers  tool listings whose cursors lead round in circles            *)
(*   workers  a guest that stalls, fails or overflows, and its permit      *)
(*   run      the cancellation of a retained run                           *)
(*   steers   a response that takes a steer, and its successor             *)
(***************************************************************************)
EXTENDS Naturals, Sequences, TLC

CONSTANTS x1, x2, Nobody, Root

VARIABLES
    part,    \* the part this behaviour checks
    tree, pc, runs, sub, queue,
    clients, discovered, opened, started, published, request, call,
    req, held, sup, revoked, installed, flag, killing, guest, inGroup, sent, exceeded,
    stopping, armed, resp, exit, late, answer,
    owner, cancelled, task, pending, permits, relay, log, delivered, accum, watched,
    persisted, receipt, frames,
    conn, expired, lanes, work, tasks, creates, parents, routes, cleanup, steered, run,
    outbox, told, fate

Agents == INSTANCE MultiAgent WITH
    Subagents <- {x1}, Parent <- [x \in {x1} |-> Root], Calls <- {}, AsyncCalls <- {},
    Submissions <- {}, Limit <- 1, MaxMail <- 3, MaxRounds <- 3, Slots <- 1, MaxRuns <- 1,
    MaxActs <- 1, Tools <- {"spawn", "wait"}, Large <- {x1}

Pages ==
    [cfg |-> <<[tools |-> <<"dot">>, next |-> 2], [tools |-> <<"under">>, next |-> 2]>>,
     own |-> <<[tools |-> <<"dot">>, next |-> 2], [tools |-> <<"under">>, next |-> 3],
               [tools |-> <<"other">>, next |-> 2]>>]

Servers == INSTANCE McpServers WITH
    Requests <- {x1}, Calls <- {}, Labels <- {"cfg", "own"}, Configured <- {"cfg"},
    Tools <- {"dot", "under", "other"},
    CandidateNames <- [dot |-> <<"file", "file_1">>, under |-> <<"file", "file_1", "file_2">>,
                       other |-> <<"other">>],
    Pages <- Pages, OperatorAllowed <- [cfg |-> {"dot", "under"}],
    Filters <- {Nobody, {"under"}}, Listings <- {<<"other">>}, Echoes <- FALSE,
    NoFilter <- Nobody, NoListing <- Nobody, NoConn <- Nobody, NoCall <- Nobody,
    MaxConns <- 1, MaxBuilds <- 1, MaxPages <- 4, req <- request

Workers == INSTANCE CodeWorkers WITH
    Calls <- {x1}, Slots <- 1, cancelled <- revoked, worker <- guest, outcome <- answer

Run == INSTANCE RetainedRun WITH
    Worker <- "worker", Flusher <- "flusher", Acks <- {x1}, Capacity <- 1, MaxFrames <- 2,
    worker <- task, outcome <- watched, stored <- persisted, waiter <- receipt

Steers == INSTANCE Steering WITH
    Lanes <- {x1}, Steers <- {x1}, MaxCreates <- 2, MaxOutstanding <- 2, MaxRoutes <- 2,
    MaxControls <- 1, MaxEchoes <- 1, Faults <- {}, Settings <- {"steerable"},
    active <- lanes, queue <- work, latest <- parents, target <- steered

ASSUME Agents!ConstantsOK /\ Servers!ConstantsOK /\ Run!ConstantsOK /\ Steers!ConstantsOK

agentVars == <<tree, pc, runs, sub, queue>>
serverVars == <<clients, discovered, opened, started, published, request, call>>
workerVars == <<req, held, sup, revoked, installed, flag, killing, guest, inGroup, sent,
                exceeded, stopping, armed, resp, exit, late, answer>>
runVars == <<owner, cancelled, task, pending, permits, relay, log, delivered, accum, watched,
             persisted, receipt, frames>>
steerVars == <<conn, expired, lanes, work, tasks, creates, parents, routes, cleanup, steered,
               run, outbox, told, fate>>

Init ==
    /\ part \in {"agents", "servers", "workers", "run", "steers"}
    /\ Agents!Init /\ Workers!Init /\ Steers!Init
    /\ Servers!Init /\ (part # "servers" => started = [l \in DOMAIN Pages |-> TRUE])
    /\ Run!Init /\ (part # "run" => owner = "running")

Next ==
    /\ UNCHANGED part
    /\ IF part = "agents" THEN Agents!Next ELSE UNCHANGED agentVars
    /\ IF part = "servers" THEN Servers!Next ELSE UNCHANGED serverVars
    /\ IF part = "workers" THEN Workers!Next ELSE UNCHANGED workerVars
    /\ IF part = "run" THEN Run!Next ELSE UNCHANGED runVars
    /\ IF part = "steers" THEN Steers!Next ELSE UNCHANGED steerVars

\* Where a part may really stop, it rests.
Stop == UNCHANGED <<part, agentVars, serverVars, workerVars, runVars, steerVars>>

-----------------------------------------------------------------------------
(* The fairness of each part is its module's own. *)

Fair ==
    /\ WF_agentVars(part = "agents" /\ Agents!Tick)
    /\ WF_agentVars(part = "agents" /\ Agents!DeadlineWakes)
    /\ WF_agentVars(part = "agents" /\ Agents!ReceiveCommand)
    /\ \A a \in {Root, x1} :
          /\ WF_agentVars(part = "agents" /\ (Agents!RoundEnds(a) \/ Agents!CompactionEnds(a)
                                               \/ Agents!TaskFails(a)))
          /\ WF_agentVars(part = "agents" /\ Agents!WaitExpires(a))
    /\ WF_serverVars(part = "servers" /\
          (Servers!FromCache(x1) \/ Servers!FromRetained(x1) \/ Servers!Discover(x1)
           \/ Servers!Connect(x1) \/ Servers!ConnectFails(x1) \/ Servers!ListPage(x1)
           \/ Servers!Store(x1)))
    /\ \A c \in {x1} :
          /\ WF_workerVars(part = "workers" /\ Workers!Supervise(c))
          /\ WF_workerVars(part = "workers" /\ Workers!Deadline(c))
    /\ WF_runVars(part = "run" /\ Run!WorkerStep)
    /\ WF_runVars(part = "run" /\ Run!Join)

SteersFair ==
    /\ WF_steerVars(part = "steers" /\ \E t \in tasks : Steers!TaskStep(t))
    /\ \A r \in Steers!Responses :
          /\ WF_steerVars(part = "steers" /\ Steers!EndRun(r))
          /\ WF_steerVars(part = "steers" /\ Steers!Emit(r))
          /\ WF_steerVars(part = "steers" /\ Steers!CleanUp(r))
    /\ WF_steerVars(part = "steers" /\ Steers!Drained)
    /\ WF_steerVars(part = "steers" /\ Steers!RelayFailed)

Spec ==
    /\ Init
    /\ [][Next \/ Stop]_<<part, agentVars, serverVars, workerVars, runVars, steerVars>>
    /\ Fair /\ SteersFair

-----------------------------------------------------------------------------
(* What the parts owe. *)

(* A multi-agent run ends: a parent that waits is woken by its child's end *)
(* or its deadline (multi_agent coordinator).                              *)
RunEnds == part = "agents" => Agents!RunEnds

(* Building the tools of a request ends whatever cursors a server sends    *)
(* (tool/mcp).                                                             *)
BuildsEnd == part = "servers" => Servers!BuildsEnd

(* A guest permit comes back whatever the guest does (code interpreter).   *)
PermitsReturn == part = "workers" => Workers!PermitsReturn

(* A cancelled run ends although its queue is full and its relay gone      *)
(* (response_run_owner.rs).                                                *)
CancelEnds == part = "run" => Run!CancelEnds

(* An accepted steer is applied, fails, or waits for an owner that can     *)
(* still take it (steering.rs).                                            *)
Resolves == part = "steers" => Steers!Resolves

(* A response's helpers end: discovery, code workers and cancelled runs.   *)
HelpersEnd == BuildsEnd /\ PermitsReturn /\ CancelEnds
=============================================================================
