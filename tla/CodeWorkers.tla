----------------------------- MODULE CodeWorkers -----------------------------
(***************************************************************************)
(* Calls of the embedded code interpreter. A call takes a permit without   *)
(* waiting, a spawned supervisor runs one worker process for it in a       *)
(* memory-limited cgroup, and the request waits for the answer. A request  *)
(* may be dropped at any moment: its guard cancels the call, which is      *)
(* remembered until the supervisor has installed a callback that kills the *)
(* cgroup. The worker runs one guest and may crash, hang, exceed an output *)
(* budget or be killed for its memory.                                     *)
(*                                                                         *)
(* cgroup.kill kills what is in the group at that moment: a worker that is *)
(* not attached yet survives it. The group is created before the callback  *)
(* is installed and the worker is attached after it was spawned.           *)
(***************************************************************************)
EXTENDS Naturals, FiniteSets

CONSTANTS
    Calls,  \* code interpreter calls
    Slots   \* guest_permits

ASSUME SlotsAssumption == Slots \in Nat \ {0}

VARIABLES
    req,        \* per call, the requesting future
    held,       \* calls whose permit is taken
    sup,        \* per call, where its supervisor is
    cancelled,  \* CancellationState.cancelled
    installed,  \* the cancel callback is installed
    flag,       \* the callback's AtomicBool
    killing,    \* the callback has yet to write cgroup.kill
    worker,     \* the worker process
    inGroup,    \* it is attached to its cgroup
    sent,       \* the request frame was written to it
    exceeded,   \* it crossed an output budget
    stopping,   \* its guest was told to stop for that
    armed,      \* it installed the guest's cancellation in the output handler
    resp,       \* the response frame it wrote
    exit,       \* how it ended
    late,       \* the read deadline killed it
    outcome     \* what the supervisor will answer

cancellation == <<cancelled, installed, flag, killing>>
process == <<worker, inGroup, sent, exceeded, stopping, armed, resp, exit>>
vars == <<req, held, sup, cancellation, process, late, outcome>>

Alive == {"booting", "connected", "building", "guest", "wrote"}
Results == {"completed", "failed", "incomplete", "error"}

TypeOK ==
    /\ req \in [Calls -> {"new", "waiting", "dropped", "refused", "answered"}]
    /\ held \subseteq Calls /\ Cardinality(held) <= Slots
    /\ sup \in [Calls -> {"none", "group", "install", "check", "spawn", "attach", "confirm",
                          "accept", "send", "read", "wait", "drop", "reply", "done"}]
    /\ {cancelled, installed, flag, killing, inGroup, sent, exceeded, stopping, armed, late}
           \subseteq [Calls -> BOOLEAN]
    /\ worker \in [Calls -> Alive \cup {"none", "exited", "reaped"}]
    /\ resp \in [Calls -> Results \cup {"none"}]
    /\ exit \in [Calls -> {"none", "ok", "bad", "oom", "killed"}]
    /\ outcome \in [Calls -> Results \cup {"none"}]

No == [c \in Calls |-> FALSE]
None == [c \in Calls |-> "none"]

Init ==
    /\ req = [c \in Calls |-> "new"]
    /\ held = {} /\ sup = None
    /\ cancelled = No /\ installed = No /\ flag = No /\ killing = No
    /\ worker = None /\ inGroup = No /\ sent = No
    /\ exceeded = No /\ stopping = No /\ armed = No
    /\ late = No
    /\ resp = None /\ exit = None
    /\ outcome = None

Set(f, c, v) == [f EXCEPT ![c] = v]
Goto(c, s) == sup' = Set(sup, c, s)

(* The supervisor returns r: what it owns is dropped next. *)
Return(c, r) ==
    /\ outcome' = Set(outcome, c, r)
    /\ Goto(c, "drop")

-----------------------------------------------------------------------------
(* execute_call *)

Admit(c) ==
    /\ req[c] = "new" /\ Cardinality(held) < Slots
    /\ req' = Set(req, c, "waiting")
    /\ held' = held \cup {c}
    /\ Goto(c, "group")
    /\ UNCHANGED <<cancellation, process, outcome, late>>

Refuse(c) ==
    /\ req[c] = "new" /\ Cardinality(held) = Slots
    /\ req' = Set(req, c, "refused")
    /\ UNCHANGED <<held, sup, cancellation, process, outcome, late>>

(* CancelOnDrop: cancel() sets the flag and, when a callback is installed, runs
   it: the callback's store, then its write (KillGroup). *)

DropRequest(c) ==
    /\ req[c] = "waiting"
    /\ req' = Set(req, c, "dropped")
    /\ cancelled' = Set(cancelled, c, TRUE)
    /\ flag' = Set(flag, c, installed[c])
    /\ killing' = Set(killing, c, installed[c])
    /\ UNCHANGED <<held, sup, installed, process, outcome, late>>

(* What a write to cgroup.kill does. *)
Killed(c) ==
    IF inGroup[c] /\ worker[c] \in Alive
    THEN worker' = Set(worker, c, "exited") /\ exit' = Set(exit, c, "killed")
    ELSE UNCHANGED <<worker, exit>>

KillGroup(c) ==
    /\ killing[c]
    /\ killing' = Set(killing, c, FALSE)
    /\ Killed(c)
    /\ UNCHANGED <<req, held, sup, cancelled, installed, flag>>
    /\ UNCHANGED <<inGroup, sent, exceeded, stopping, armed, resp, outcome, late>>

-----------------------------------------------------------------------------
(* run_isolated_inner *)

MakeGroup(c) ==
    /\ sup[c] = "group"
    /\ \/ Goto(c, "install") /\ UNCHANGED outcome
       \/ Return(c, "error")
    /\ UNCHANGED <<req, held, cancellation, process, late>>

(* Mutant of Install. *)
InstallForgets(c) ==
    /\ sup[c] = "install"
    /\ installed' = Set(installed, c, TRUE)
    /\ Goto(c, "check")
    /\ UNCHANGED <<req, held, cancelled, flag, killing, process, late, outcome>>

(* install runs the callback at once when the cancel came first; the group is
   still empty. *)
Install(c) ==
    /\ sup[c] = "install"
    /\ installed' = Set(installed, c, TRUE)
    /\ flag' = Set(flag, c, cancelled[c])
    /\ Goto(c, "check")
    /\ UNCHANGED <<req, held, cancelled, killing, process, outcome, late>>

CheckBeforeSpawn(c) ==
    /\ sup[c] = "check"
    /\ IF flag[c] THEN Return(c, "error") ELSE Goto(c, "spawn") /\ UNCHANGED outcome
    /\ UNCHANGED <<req, held, cancellation, process, late>>

Spawn(c) ==
    /\ sup[c] = "spawn"
    /\ \/ /\ worker' = Set(worker, c, "booting")
          /\ Goto(c, "attach")
          /\ UNCHANGED outcome
       \/ /\ Return(c, "error")
          /\ UNCHANGED worker
    /\ UNCHANGED <<req, held, cancellation, inGroup, sent, exceeded, stopping, armed, resp, exit, late>>

(* attach confirms the membership and the limits, or fails. *)
Attach(c) ==
    /\ sup[c] = "attach"
    /\ \/ /\ worker[c] \in Alive
          /\ inGroup' = Set(inGroup, c, TRUE)
          /\ Goto(c, "confirm")
          /\ UNCHANGED outcome
       \/ /\ Return(c, "error")
          /\ UNCHANGED inGroup
    /\ UNCHANGED <<req, held, cancellation, worker, sent, exceeded, stopping, armed, resp, exit, late>>

CheckAttached(c) ==
    /\ sup[c] = "confirm"
    /\ IF flag[c] THEN Return(c, "error") ELSE Goto(c, "accept") /\ UNCHANGED outcome
    /\ UNCHANGED <<req, held, cancellation, process, late>>

(* accept_child: one turn of its loop that leaves it. *)
AcceptChild(c) ==
    /\ sup[c] = "accept"
    /\ \/ /\ flag[c] \/ worker[c] = "exited"
          /\ Return(c, "error")
       \/ /\ ~flag[c] /\ worker[c] = "connected"
          /\ Goto(c, "send")
          /\ UNCHANGED outcome
    /\ UNCHANGED <<req, held, cancellation, process, late>>

AcceptTimesOut(c) ==
    /\ sup[c] = "accept"
    /\ Return(c, "error")
    /\ UNCHANGED <<req, held, cancellation, process, late>>

Send(c) ==
    /\ sup[c] = "send"
    /\ IF worker[c] \in Alive
       THEN /\ sent' = Set(sent, c, TRUE)
            /\ Goto(c, "read")
            /\ UNCHANGED outcome
       ELSE /\ Return(c, "error")
            /\ UNCHANGED sent
    /\ UNCHANGED <<req, held, cancellation, worker, inGroup, exceeded, stopping, armed, resp, exit, late>>

(* read_worker_response: a frame, a closed socket after an OOM kill, or a closed
   socket without one. *)
ReadResponse(c) ==
    /\ sup[c] = "read"
    /\ \/ /\ resp[c] # "none"
          /\ outcome' = Set(outcome, c, resp[c])
          /\ Goto(c, "wait")
       \/ /\ resp[c] = "none" /\ worker[c] = "exited"
          /\ IF exit[c] = "oom"
             THEN outcome' = Set(outcome, c, "incomplete") /\ Goto(c, "wait")
             ELSE Return(c, "error")
    /\ UNCHANGED <<req, held, cancellation, process, late>>

ReadTimesOut(c) ==
    /\ sup[c] = "read"
    /\ Killed(c)
    /\ late' = Set(late, c, TRUE)
    /\ outcome' = Set(outcome, c, "incomplete")
    /\ Goto(c, "wait")
    /\ UNCHANGED <<req, held, cancellation, inGroup, sent, exceeded, stopping, armed, resp>>

(* wait_worker_exit. A worker the deadline killed counts as a clean exit, and so
   does one that answered and was then killed for its memory. *)
WaitExit(c) ==
    /\ sup[c] = "wait"
    /\ \/ /\ worker[c] = "exited"
          /\ late[c] \/ exit[c] \in {"ok", "oom"}
          /\ Goto(c, "drop")
          /\ UNCHANGED outcome
       \/ /\ IF worker[c] = "exited"
             THEN ~late[c] /\ exit[c] \in {"bad", "killed"}
             ELSE flag[c]
          /\ Return(c, "error")
    /\ UNCHANGED <<req, held, cancellation, process, late>>

WaitTimesOut(c) ==
    /\ sup[c] = "wait" /\ worker[c] # "exited"
    /\ Return(c, "error")
    /\ UNCHANGED <<req, held, cancellation, process, late>>

(* WorkerChild and Cgroup are dropped: the process is killed and reaped, attached
   or not, and the group removed. *)
DropWorker(c) ==
    /\ sup[c] = "drop"
    /\ worker' = Set(worker, c, IF worker[c] = "none" THEN "none" ELSE "reaped")
    /\ exit' = Set(exit, c, IF worker[c] \in Alive THEN "killed" ELSE exit[c])
    /\ inGroup' = Set(inGroup, c, FALSE)
    /\ Goto(c, "reply")
    /\ UNCHANGED <<req, held, cancellation, sent, exceeded, stopping, armed, resp, late, outcome>>

(* The supervisor task answers, if anyone still waits, and its permit goes back. *)
Reply(c) ==
    /\ sup[c] = "reply"
    /\ req' = Set(req, c, IF req[c] = "waiting" THEN "answered" ELSE req[c])
    /\ held' = held \ {c}
    /\ Goto(c, "done")
    /\ UNCHANGED <<cancellation, process, late, outcome>>

-----------------------------------------------------------------------------
(* worker_main and supervise, in the worker process *)

Connect(c) ==
    /\ worker[c] = "booting"
    /\ worker' = Set(worker, c, "connected")
    /\ UNCHANGED <<req, held, sup, cancellation, inGroup, sent, exceeded, stopping, armed, resp, exit, late, outcome>>

(* It reads the request, finds its cgroup bounded and builds the sandbox. *)
Receive(c) ==
    /\ worker[c] = "connected" /\ sent[c] /\ inGroup[c]
    /\ worker' = Set(worker, c, "building")
    /\ UNCHANGED <<req, held, sup, cancellation, inGroup, sent, exceeded, stopping, armed, resp, exit, late, outcome>>

StartGuest(c) ==
    /\ worker[c] = "building"
    /\ worker' = Set(worker, c, "guest")
    /\ UNCHANGED <<req, held, sup, cancellation, inGroup, sent, exceeded, stopping, armed, resp, exit, late, outcome>>

(* append: more output than the budget; the guest is stopped if it can be. *)
Overflow(c) ==
    /\ worker[c] = "guest"
    /\ exceeded' = Set(exceeded, c, TRUE)
    /\ stopping' = Set(stopping, c, stopping[c] \/ armed[c])
    /\ UNCHANGED <<req, held, sup, cancellation, worker, inGroup, sent, armed, resp, exit, late, outcome>>

(* install_cancellation stops a guest that crossed its budget before. *)
ArmGuest(c) ==
    /\ worker[c] = "guest" /\ ~armed[c]
    /\ armed' = Set(armed, c, TRUE)
    /\ stopping' = Set(stopping, c, exceeded[c])
    /\ UNCHANGED <<req, held, sup, cancellation, worker, inGroup, sent, exceeded, resp, exit, late, outcome>>

(* How the guest ends, and the status supervise gives it. *)
GuestEnds(c) ==
    /\ worker[c] = "guest" /\ armed[c]
    /\ \E r \in {IF exceeded[c] THEN "incomplete" ELSE "completed",    \* Ok, or cancelled
                 "failed", "incomplete", "error"} :                  \* exception, limit, other
           resp' = Set(resp, c, r)
    /\ worker' = Set(worker, c, "wrote")
    /\ UNCHANGED <<req, held, sup, cancellation, inGroup, sent, exceeded, stopping, armed, exit, late, outcome>>

(* The sandbox cannot be built. *)
BuildFails(c) ==
    /\ worker[c] = "building"
    /\ resp' = Set(resp, c, "error")
    /\ worker' = Set(worker, c, "wrote")
    /\ UNCHANGED <<req, held, sup, cancellation, inGroup, sent, exceeded, stopping, armed, exit, late, outcome>>

Exit(c) ==
    /\ worker[c] = "wrote"
    /\ worker' = Set(worker, c, "exited") /\ exit' = Set(exit, c, "ok")
    /\ UNCHANGED <<req, held, sup, cancellation, inGroup, sent, exceeded, stopping, armed, resp, late, outcome>>

Crash(c) ==
    /\ worker[c] \in Alive
    /\ worker' = Set(worker, c, "exited")
    /\ \E e \in {"bad"} \cup (IF inGroup[c] THEN {"oom"} ELSE {}) : exit' = Set(exit, c, e)
    /\ UNCHANGED <<req, held, sup, cancellation, inGroup, sent, exceeded, stopping, armed, resp, late, outcome>>

-----------------------------------------------------------------------------
Supervise(c) ==
    \/ MakeGroup(c) \/ Install(c) \/ CheckBeforeSpawn(c) \/ Spawn(c) \/ Attach(c)
    \/ CheckAttached(c) \/ AcceptChild(c) \/ Send(c) \/ ReadResponse(c) \/ WaitExit(c)
    \/ DropWorker(c) \/ Reply(c)

Deadline(c) == AcceptTimesOut(c) \/ ReadTimesOut(c) \/ WaitTimesOut(c)

Work(c) ==
    \/ Connect(c) \/ Receive(c) \/ StartGuest(c) \/ Overflow(c) \/ ArmGuest(c)
    \/ GuestEnds(c) \/ BuildFails(c) \/ Exit(c) \/ Crash(c)

Over ==
    /\ \A c \in Calls : req[c] \in {"dropped", "refused", "answered"} /\ c \notin held
    /\ UNCHANGED vars

Next ==
    \/ \E c \in Calls :
          \/ Admit(c) \/ Refuse(c) \/ DropRequest(c) \/ KillGroup(c)
          \/ Supervise(c) \/ Deadline(c) \/ Work(c)
    \/ Over

Spec == Init /\ [][Next]_vars

(* The blocking thread of the supervisor runs and its clocks advance; the worker
   is not assumed to do anything. *)
FairSpec == Spec /\ \A c \in Calls : WF_vars(Supervise(c)) /\ WF_vars(Deadline(c))

-----------------------------------------------------------------------------
(* A permit is returned only after the call's worker was terminated and reaped,
   also when its request was dropped, so no more workers exist than permits
   (code_interpreter.rs, lines 193-199). *)
ReapedBeforeRelease ==
    /\ \A c \in Calls \ held : worker[c] \in {"none", "reaped"}
    /\ Cardinality({c \in Calls : worker[c] \notin {"none", "reaped"}}) <= Slots

(* Once the cancel of a dropped request has run, no guest runs for it: not when it
   came before the callback was installed, nor between the spawn and the
   attachment, when the kill finds the group empty (provider.rs, lines 40-57). *)
NoGuestAfterCancel ==
    \A c \in Calls : cancelled[c] /\ ~killing[c] => worker[c] \notin {"building", "guest"}

(* "Completed" means the guest ran to its end within its output budget, and
   "incomplete" that a limit cut it short (eryx.rs, lines 225-245). *)
OutcomeTrue ==
    \A c \in Calls : req[c] = "answered" =>
        /\ outcome[c] = "completed" => resp[c] = "completed" /\ ~exceeded[c]
        /\ outcome[c] = "incomplete" => late[c] \/ exit[c] = "oom" \/ resp[c] = "incomplete"

(* A guest that crossed its output budget while it can be stopped has been told to
   stop, even if it did so before its cancellation was installed
   (eryx.rs, lines 44-67). *)
OverflowStops ==
    \A c \in Calls : worker[c] = "guest" /\ exceeded[c] /\ armed[c] => stopping[c]

(* Guests are bounded in number and in output, stop with their requests, and are
   reported as they ended. *)
GuestsBounded ==
    TypeOK /\ ReapedBeforeRelease /\ NoGuestAfterCancel /\ OutcomeTrue /\ OverflowStops

(* Every permit comes back, whatever the worker does (linux.rs, lines 146-173,
   277-283 and 333-353). *)
PermitsReturn == \A c \in Calls : c \in held ~> c \notin held
============================================================================
