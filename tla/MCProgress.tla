----------------------------- MODULE MCProgress -----------------------------
(***************************************************************************)
(* For TLC, what must eventually happen in the process and its stores, no  *)
(* symmetry: the life of the gateway process under its launcher            *)
(* (ServerLifecycle), and four components that owe an end.  A behaviour    *)
(* checks one part, chosen at the start; the variables of the other        *)
(* modules rest:                                                           *)
(*   server   start-up, two clients, a signal and the drain                *)
(*   wait     a caller of wait_until_idle and the turns of its session     *)
(*   loop     exclusive tools, limited slots and shared permits            *)
(*   blobs    crashes, lost answers and the sweep of two replicas          *)
(*   search   every ranking of three chunks against two queries            *)
(* The constants of ServerLifecycle are in the cfg.                        *)
(***************************************************************************)
EXTENDS ServerLifecycle, TLC

CONSTANTS x1, x2

VARIABLES
    part,    \* the part this behaviour checks
    groupClosed, members, closing, born, latest, busy, closed, turn, pins, used, stored,
    lineage, waiting,
    phase, round, items, status, firstGw, notes, window, deferred, wire, presented, budget,
    before, calls, announced, taken, relayed, failed, others, ran, output, input, trail,
    asyncRun, steering, ended,
    row, marker, disk, up, del, sweep, faults,
    key, score, target, threshold, maxK, query, k, best, path

Session == INSTANCE ResponseSession WITH
    Sessions <- {x1}, Turns <- {x1, x2}, MaxSessions <- 1, MaxBytes <- 1, Limit <- 2,
    Sizes <- {1}, MaxPins <- 1, Waiters <- {x1}, active <- busy

Loop == INSTANCE GatewayLoop WITH
    Kinds <- {"web", "mcp"}, Serial <- {"mcp"}, Outcomes <- {"ok", "fatal"}, MaxRounds <- 1,
    MaxItems <- 2, TotalItems <- 2, MaxNotes <- 0, MaxDeferred <- 8, MaxToolCalls <- 2,
    Slots <- 1, Materializations <- 2, MaxOthers <- 1, Steers <- FALSE, Listed <- 0,
    Unnamed <- FALSE, EndsUnnamed <- FALSE, started <- presented, outcome <- ended

Blobs == INSTANCE FileBlobs WITH
    Files <- {x1}, Replicas <- {x1, x2}, Deleters <- {x1}, Tokens <- {"t1", "t2", "t3", "t4", "t5", "t6", "t7", "t8"}, Lease <- 1,
    MaxAge <- 1, MaxFaults <- 1

Search == INSTANCE SemanticSearch WITH
    Rows <- 1 .. 3, Keys <- {"x", "y"}, Queries <- 1 .. 2, MaxScore <- 2, Targets <- {1, 2},
    Thresholds <- {0, 2}, MaxKs <- {2, 3}

ASSUME Loop!ConstantsOK /\ Blobs!ConstantsOK

waitVars == <<groupClosed, members, closing, born, latest, busy, closed, turn, pins, used,
              stored, lineage, waiting>>
loopVars == <<phase, round, items, status, firstGw, notes, window, deferred, wire, presented,
              budget, before, calls, announced, taken, relayed, failed, others, ran, output,
              input, trail, asyncRun, steering, ended>>
blobVars == <<row, marker, disk, up, del, sweep, faults>>
searchVars == <<key, score, target, threshold, maxK, query, k, best, path>>

MCInit ==
    /\ part \in {"server", "wait", "loop", "blobs", "search"}
    /\ Init /\ Session!Init /\ Loop!Init /\ Blobs!Init
    /\ IF part = "search" THEN Search!Init
       ELSE /\ key = <<>> /\ score = <<>> /\ best = <<>> /\ path = "native"
            /\ target = 1 /\ threshold = 0 /\ maxK = 2 /\ query = 1 /\ k = 2

\* The replicas are alike: x1 is the one that uploads.
UploadHere == up'[x1].at # x2

\* Where a part may really stop, it rests.
MCNext ==
    /\ UNCHANGED part
    /\ IF part = "server" THEN Next ELSE UNCHANGED vars
    /\ IF part = "wait" THEN Session!Next ELSE UNCHANGED waitVars
    /\ IF part = "loop" THEN Loop!Next ELSE UNCHANGED loopVars
    /\ IF part = "blobs" THEN Blobs!Next /\ UploadHere ELSE UNCHANGED blobVars
    /\ IF part = "search" THEN Search!Next ELSE UNCHANGED searchVars

MCStop == UNCHANGED <<part, vars, waitVars, loopVars, blobVars, searchVars>>

-----------------------------------------------------------------------------
(* The fairness of each part is its module's own. *)

Fair ==
    /\ WF_vars(part = "server" /\ ServerStep) /\ WF_vars(part = "server" /\ Tick)
    /\ \A t \in {x1, x2} : WF_waitVars(part = "wait" /\ Session!TurnStep(t))
    /\ WF_waitVars(part = "wait" /\ waiting[x1] # "out" /\ Session!WaitStep(x1))
    /\ \A r \in {x1, x2} : WF_blobVars(part = "blobs" /\ Blobs!SweepSteps(r))
    /\ WF_blobVars(part = "blobs" /\ Blobs!Tick)
    /\ WF_searchVars(part = "search" /\ Search!Next)

\* Other responses hold at most one of the two permits here, so that weak
\* fairness is enough where the module asks for a fair queue.
LoopFair ==
    /\ WF_loopVars(part = "loop" /\ Loop!ResponseStart)
    /\ WF_loopVars(part = "loop" /\ (Loop!StreamEnds \/ Loop!SteeringCut))
    /\ WF_loopVars(part = "loop" /\ Loop!TakeResult)
    /\ WF_loopVars(part = "loop" /\ Loop!CallsDrained)
    /\ WF_loopVars(part = "loop" /\ Loop!Decide)
    /\ WF_loopVars(part = "loop" /\ Loop!FinishStream)
    /\ WF_loopVars(part = "loop" /\ Loop!OthersRelease)
    /\ \A n \in 1 .. 2 :
          /\ WF_loopVars(part = "loop" /\ Loop!AcquireExclusion(n))
          /\ WF_loopVars(part = "loop" /\ Loop!AcquireSlot(n))
          /\ WF_loopVars(part = "loop" /\ Loop!AcquirePermit(n))
          /\ WF_loopVars(part = "loop" /\ Loop!CallReturns(n))

MCSpec ==
    /\ MCInit
    /\ [][MCNext \/ MCStop]_<<part, vars, waitVars, loopVars, blobVars, searchVars>>
    /\ Fair /\ LoopFair

-----------------------------------------------------------------------------
(* What the parts beside server owe. *)

(* Every call of wait_until_idle returns once the turns of its session     *)
(* ended: no notification is lost between its check and its sleep          *)
(* (session.rs wait_until_idle).                                           *)
WaitReturns == part = "wait" => Session!WaitReturns

(* A response ends although exclusions, slots and permits are short        *)
(* (executor/gateway.rs).                                                  *)
LoopEnds == part = "loop" => Loop!Ends

(* A blob no row points at is removed by some sweep (files/blobs).         *)
OrphansSwept == part = "blobs" => Blobs!OrphansSwept

(* The native vector search answers like the exact ranking.                *)
SameAnswer == part = "search" => Search!SameAnswer

(* The doubling of k ends.                                                 *)
Answers == part = "search" => Search!Answers

(* Callers that wait for an idle session, for a tool, a slot or a permit   *)
(* get it.                                                                 *)
TurnsEnd == WaitReturns /\ LoopEnds

(* Orphaned blobs go, and a search answers, with the exact ranking.        *)
StoresSettle == OrphansSwept /\ []SameAnswer /\ Answers
=============================================================================
