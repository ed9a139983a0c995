----------------------------- MODULE MultiAgent -----------------------------
(***************************************************************************)
(* One multi-agent response.  A coordinator owns a tree of agents: their   *)
(* turns, mailboxes, histories and client calls.  Rounds of inference and  *)
(* compactions run as concurrent tasks on a snapshot of one agent's        *)
(* history; a client answers calls while they run, through a bounded       *)
(* control queue.  The coordinator loop drains finished tasks, wakes       *)
(* waiters, schedules runnable agents and, when nothing runs and nobody    *)
(* can be woken, closes the control queue and checkpoints the tree, from   *)
(* which a later request continues it.                                     *)
(*                                                                         *)
(* `generation' counters are kept as what they are compared for: whether a *)
(* history changed since its compaction was planned (task.stale) or since  *)
(* one was applied (compacted).                                            *)
(***************************************************************************)
EXTENDS Naturals, Sequences, FiniteSets, SequencesExt

CONSTANTS
    Root, Subagents,   \* AgentIdentity::root() and the identities that may be spawned
    Parent,            \* the identity each subagent's path ends under
    Calls, AsyncCalls, \* client call ids a model may emit, and those of async tools
    Submissions,       \* client requests that carry tool outputs
    Limit,             \* max_concurrent_subagents
    MaxMail,           \* MAX_MAIL
    MaxRounds,         \* MAX_RUN_ROUNDS
    Slots,             \* MAX_OUTSTANDING_CONTROLS
    MaxRuns,           \* bound: requests that run this tree
    MaxActs,           \* bound: collaboration calls of one round
    Tools,             \* the collaboration tools the models call
    Large              \* the agents whose histories may reach the compaction threshold

Agents == {Root} \cup Subagents

ConstantsOK ==
    /\ Root \notin Subagents
    /\ Parent \in [Subagents -> Agents]
    /\ AsyncCalls \subseteq Calls
    /\ Tools \subseteq {"spawn", "fork", "send", "followup", "interrupt", "wait", "list"}
    /\ Large \subseteq Agents
    /\ {Limit, MaxMail, MaxRounds, Slots, MaxRuns, MaxActs} \subseteq Nat

VARIABLES
    tree,      \* AgentRegistry, contexts, PendingClientCalls and RunOwner
    pc,        \* where the coordinator loop is
    runs,      \* requests that have run this tree
    sub,       \* submission |-> its batch and what became of it
    queue      \* RunControlReceiver: admitted commands, oldest first

vars == <<tree, pc, runs, sub, queue>>

Phases == {"runnable", "inferring", "clients", "mailbox"}
States == Phases \cup {"absent", "idle", "interrupted", "failed"}
NoTask == [kind |-> "none", snap |-> <<>>, stale |-> FALSE]
NoCall == [owner |-> Root, st |-> "none"]
Own == [k |-> "own"]                  \* what a model produced, but for client calls
ActResult == [k |-> "act"]            \* a collaboration call's function_call_output
UserMessage == [k |-> "user"]

NewTree ==
    [order |-> <<Root>>,
     st |-> [a \in Agents |-> IF a = Root THEN "runnable" ELSE "absent"],
     turn |-> [a \in Agents |-> 0],
     mail |-> [a \in Agents |-> <<>>],
     history |-> [a \in Agents |-> IF a = Root THEN <<UserMessage>> ELSE <<>>],
     during |-> [a \in Agents |-> <<>>],      \* inputs_during_round
     compacted |-> [a \in Agents |-> FALSE],
     wait |-> [a \in Agents |-> "none"],
     task |-> [a \in Agents |-> NoTask],
     interrupted |-> {},
     calls |-> [c \in Calls |-> NoCall],
     rounds |-> 0,
     ended |-> {},                            \* for the properties: the turns that settled
     err |-> FALSE]

Init ==
    /\ tree = NewTree
    /\ pc = "tick"
    /\ runs = 1
    /\ sub = [s \in Submissions |-> [st |-> "new", batch |-> {}, read |-> FALSE]]
    /\ queue = <<>>
-----------------------------------------------------------------------------
(* The registry: turns, phases and mail. *)

Active(t, a) == t.st[a] \in Phases
ActiveSubagents(t) == Cardinality({a \in Subagents : Active(t, a)})
Key(t, a) == <<a, t.turn[a]>>

AwaitingOutputs(t) == {c \in Calls \ AsyncCalls : t.calls[c].st = "pending"}
AwaitedBy(t, a) == {c \in AwaitingOutputs(t) : t.calls[c].owner = a}

\* generation += 1
Touch(t, a) ==
    [t EXCEPT !.compacted[a] = FALSE, !.task[a].stale = t.task[a].kind = "compaction"]

Enqueue(t, a, m) ==
    [t EXCEPT !.mail[a] = Append(@, m), !.st[a] = IF @ = "mailbox" THEN "runnable" ELSE @]

Note(t, a, item) == [t EXCEPT !.history[a] = Append(@, item)]

StartTurn(t, a) == [Touch(t, a) EXCEPT !.turn[a] = @ + 1, !.st[a] = "runnable"]

\* A client output, or a collaboration result, after the last item the agent produced.
HasUnreadOutput(h) ==
    \E i \in DOMAIN h :
       /\ h[i].k \in {"out", "act"}
       /\ \A j \in DOMAIN h : j > i => h[j].k \notin {"own", "call", "summary"}

ResumeUnreadAgents(t) ==
    LET unread == SelectSeq(t.order, LAMBDA a : t.st[a] = "idle" /\ HasUnreadOutput(t.history[a]))
        Resume(u, a) == IF a # Root /\ ActiveSubagents(u) >= Limit THEN u ELSE StartTurn(u, a)
    IN  FoldLeft(Resume, t, unread)

HasRoom(t, a) == Len(t.mail[a]) < MaxMail
CanSettle(t, a) == a = Root \/ HasRoom(t, Parent[a])

RegistrySettle(t, a, how) ==
    LET s == [t EXCEPT !.st[a] = how, !.ended = @ \cup {Key(t, a)}]
    IN  IF a = Root THEN s
        ELSE Enqueue(s, Parent[a], [k |-> "finished", from |-> a, turn |-> t.turn[a]])

(* Mutant of ResumeQueuedTask. *)
LeaveQueuedTask(t, a) == t

ResumeQueuedTask(t, a) ==
    IF ~Active(t, a) /\ \E i \in DOMAIN t.mail[a] : t.mail[a][i].k = "task"
    THEN StartTurn(t, a) ELSE t

(* Mutant of SettleTurn. *)
SettleTurnQuietly(t, a, how) ==
    IF ~CanSettle(t, a) THEN [t EXCEPT !.err = TRUE]
    ELSE LET s == RegistrySettle(t, a, how)
         IN  ResumeQueuedTask(IF a = Root THEN s ELSE Touch(s, Parent[a]), a)

SettleTurn(t, a, how) ==
    IF ~CanSettle(t, a) THEN [t EXCEPT !.err = TRUE]
    ELSE LET s == RegistrySettle(t, a, how)
             p == IF a = Root THEN s ELSE Touch(s, Parent[a])
         IN  ResumeUnreadAgents(ResumeQueuedTask(p, a))
-----------------------------------------------------------------------------
(* Collaboration calls.  An invalid one changes nothing but its own result. *)

AgentActs(a) ==
    [do : Tools \cap {"spawn", "fork"}, on : {b \in Subagents : Parent[b] = a}]
      \cup [do : Tools \cap {"send", "followup", "interrupt"}, on : Agents]
      \cup [do : Tools \cap {"wait", "list"}, on : {a}]

\* Only calls answered within the copied part are copied, with their outputs.
ForkHistory(h) ==
    LET Answered(c) == \E i, j \in DOMAIN h : h[i] = [k |-> "call", c |-> c] /\ h[j].k = "out" /\ h[j].c = c
    IN  SelectSeq(h, LAMBDA item : item.k \in {"call", "out"} => Answered(item.c))

SpawnAgent(t, a, x) ==
    IF ActiveSubagents(t) >= Limit \/ t.st[x.on] # "absent" THEN t
    ELSE [t EXCEPT !.order = Append(@, x.on),
                   !.st[x.on] = "runnable",
                   !.mail[x.on] = <<[k |-> "task", from |-> a, turn |-> t.turn[a]]>>,
                   !.history[x.on] = IF x.do = "fork" THEN ForkHistory(t.history[a]) ELSE <<>>]

SendMessage(t, a, b) ==
    IF t.st[b] = "absent" \/ ~HasRoom(t, b) THEN t
    ELSE Touch(Enqueue(t, b, [k |-> "message", from |-> a, turn |-> t.turn[a]]), b)

FollowupTask(t, a, b) ==
    LET refused == \/ t.st[b] = "absent"
                   \/ b = Root
                   \/ ~HasRoom(t, b)
                   \/ ~Active(t, b) /\ ActiveSubagents(t) >= Limit
        s == IF Active(t, b) THEN t ELSE StartTurn(t, b)
    IN  IF refused THEN t
        ELSE Touch(Enqueue(s, b, [k |-> "task", from |-> a, turn |-> t.turn[a]]), b)

\* A running round or compaction ends first; any other turn settles at once.
InterruptAgent(t, a, b) ==
    LET s == IF t.wait[b] = "none" THEN t ELSE Note([t EXCEPT !.wait[b] = "none"], b, ActResult)
    IN  CASE t.st[b] = "absent" \/ b = a -> t
          [] t.task[b].kind # "none" -> Touch([t EXCEPT !.interrupted = @ \cup {Key(t, b)}], b)
          [] t.task[b].kind = "none" /\ Active(t, b) ->
               IF CanSettle(s, b) THEN SettleTurn(s, b, "interrupted") ELSE s
          [] OTHER -> t

Waits(t, a, x) == x.do = "wait" /\ t.wait[a] = "none" /\ Key(t, a) \notin t.interrupted

Dispatch(t, a, x) ==
    CASE x.do \in {"spawn", "fork"} -> SpawnAgent(t, a, x)
      [] x.do = "send" -> SendMessage(t, a, x.on)
      [] x.do = "followup" -> FollowupTask(t, a, x.on)
      [] x.do = "interrupt" -> InterruptAgent(t, a, x.on)
      [] OTHER -> t

Act(t, a, x) ==
    IF Waits(t, a, x)
    THEN [t EXCEPT !.wait[a] = "armed", !.st[a] = IF t.mail[a] = <<>> THEN "mailbox" ELSE "runnable"]
    ELSE Note(IF Key(t, a) \in t.interrupted THEN t ELSE Dispatch(t, a, x), a, ActResult)
-----------------------------------------------------------------------------
(* Finished tasks. *)

RoundResults(a) ==
    [calls : {cs \in SUBSET Calls : Cardinality(cs) <= 1 /\ \A c \in cs : tree.calls[c].st = "none"},
     acts : SeqOf(AgentActs(a), MaxActs),
     end : {"done", "more", "terminal"}]

RegisterClientCalls(t, a, cs) ==
    [t EXCEPT !.calls = [c \in Calls |-> IF c \in cs THEN [owner |-> a, st |-> "pending"] ELSE @[c]]]

\* The round's own input and output replace the history; outputs accepted meanwhile follow.
(* Mutant of AfterRound. *)
AfterRoundForgets(t, a, r) ==
    LET produced == SetToSeq({[k |-> "call", c |-> c] : c \in r.calls}) \o <<Own>>
    IN  RegisterClientCalls(
          [Touch([t EXCEPT !.task[a] = NoTask], a) EXCEPT
             !.st[a] = "runnable",
             !.history[a] = t.task[a].snap \o produced,
             !.during[a] = <<>>], a, r.calls)

AfterRound(t, a, r) ==
    LET produced == SetToSeq({[k |-> "call", c |-> c] : c \in r.calls}) \o <<Own>>
    IN  RegisterClientCalls(
          [Touch([t EXCEPT !.task[a] = NoTask], a) EXCEPT
             !.st[a] = "runnable",
             !.history[a] = t.task[a].snap \o produced \o t.during[a],
             !.during[a] = <<>>], a, r.calls)

CompleteRound(t, a, r) ==
    LET Do(u, x) == Act(u, a, x)
        s == FoldLeft(Do, AfterRound(t, a, r), r.acts)
    IN  CASE Key(s, a) \in s.interrupted ->
               SettleTurn([s EXCEPT !.interrupted = @ \ {Key(s, a)}], a, "interrupted")
          [] Key(s, a) \notin s.interrupted /\ r.calls \ AsyncCalls # {} -> [s EXCEPT !.st[a] = "clients"]
          [] Key(s, a) \notin s.interrupted /\ r.calls \ AsyncCalls = {} ->
               CASE r.end = "terminal" -> SettleTurn(s, a, "failed")
                 [] r.end = "done" /\ r.acts = <<>> -> SettleTurn(s, a, "idle")
                 [] OTHER -> s

\* Async calls and their last outputs stay beside the summary.
AsyncRecord(h, i) ==
    /\ h[i].k \in {"call", "out"} /\ h[i].c \in AsyncCalls
    /\ \A j \in DOMAIN h : j > i /\ h[j].k = h[i].k => h[j].c # h[i].c

ResolvedPrefix(h) ==
    LET Resolved(n) == \A i \in 1 .. n : h[i].k = "call" /\ h[i].c \notin AsyncCalls
                                           => \E j \in i .. n : h[j].k = "out" /\ h[j].c = h[i].c
    IN  CHOOSE n \in 0 .. Len(h) : Resolved(n) /\ \A m \in (n + 1) .. Len(h) : ~Resolved(m)

Summarised(h) ==
    LET kept == SelectSeq([i \in DOMAIN h |-> [at |-> i, item |-> h[i]]], LAMBDA e : AsyncRecord(h, e.at))
        gone == {i \in DOMAIN h : ~AsyncRecord(h, i)}
        old == UNION {h[i].of : i \in {j \in gone : h[j].k = "summary"}}
    IN  [i \in DOMAIN kept |-> kept[i].item]
          \o <<[k |-> "summary", of |-> old \cup {h[i] : i \in {j \in gone : h[j].k # "summary"}}]>>

TryCommitCompaction(t, a) ==
    LET n == ResolvedPrefix(t.task[a].snap)
        h == t.history[a]
    IN  IF t.task[a].stale \/ n > Len(h) THEN t
        ELSE [t EXCEPT !.history[a] = Summarised(SubSeq(h, 1, n)) \o SubSeq(h, n + 1, Len(h)),
                       !.compacted[a] = TRUE]

CompleteCompaction(t, a) ==
    LET s == [TryCommitCompaction(t, a) EXCEPT !.task[a] = NoTask]
    IN  IF Key(t, a) \in t.interrupted
        THEN SettleTurn([s EXCEPT !.interrupted = @ \ {Key(t, a)}], a, "interrupted")
        ELSE [s EXCEPT !.st[a] = "runnable"]

CompleteFailed(t, a) ==
    SettleTurn([t EXCEPT !.task[a] = NoTask, !.interrupted = @ \ {Key(t, a)}], a, "failed")
-----------------------------------------------------------------------------
(* One pass of the coordinator: wake waiters, schedule, finish or wait. *)

(* Mutant of WakeWaiters. *)
WakeOnMailOnly(t) ==
    LET ready == {a \in Agents : t.wait[a] # "none" /\ t.st[a] \in {"runnable", "mailbox"} /\ t.mail[a] # <<>>}
    IN  [t EXCEPT !.wait = [a \in Agents |-> IF a \in ready THEN "none" ELSE @[a]],
                  !.history = [a \in Agents |-> IF a \in ready THEN Append(@[a], ActResult) ELSE @[a]],
                  !.st = [a \in Agents |-> IF a \in ready THEN "runnable" ELSE @[a]]]

WakeWaiters(t) ==
    LET ready == {a \in Agents : /\ t.wait[a] # "none" /\ t.st[a] \in {"runnable", "mailbox"}
                                 /\ t.mail[a] # <<>> \/ t.wait[a] = "expired"}
    IN  [t EXCEPT !.wait = [a \in Agents |-> IF a \in ready THEN "none" ELSE @[a]],
                  !.history = [a \in Agents |-> IF a \in ready THEN Append(@[a], ActResult) ELSE @[a]],
                  !.st = [a \in Agents |-> IF a \in ready THEN "runnable" ELSE @[a]]]

TakeMailbox(t, a) ==
    LET s == [t EXCEPT !.history[a] = @ \o t.mail[a], !.mail[a] = <<>>]
    IN  IF t.mail[a] = <<>> THEN s ELSE Touch(s, a)

SpawnTask(t, a, kind) ==
    [t EXCEPT !.task[a] = [kind |-> kind, snap |-> t.history[a], stale |-> FALSE],
              !.st[a] = "inferring"]

SpawnRound(t, a) == [SpawnTask(t, a, "round") EXCEPT !.during[a] = <<>>, !.rounds = @ + 1]

ScheduleAgent(t, a, large) ==
    LET s == TakeMailbox(t, a)
    IN  CASE t.wait[a] # "none" \/ t.task[a].kind = "compaction" -> t
          [] t.wait[a] = "none" /\ AwaitedBy(t, a) # {} -> [t EXCEPT !.st[a] = "clients"]
          [] t.wait[a] = "none" /\ AwaitedBy(t, a) = {} /\ t.rounds >= MaxRounds ->
               SettleTurn(t, a, "interrupted")
          [] OTHER ->
               IF ~s.compacted[a] /\ a \in large /\ ResolvedPrefix(s.history[a]) > 0
               THEN SpawnTask(s, a, "compaction") ELSE SpawnRound(s, a)

\* large: the agents whose history is over the compaction threshold.
Schedule(t, large) ==
    LET runnable == SelectSeq(t.order, LAMBDA a : t.st[a] = "runnable")
        One(u, a) == IF u.err THEN u ELSE ScheduleAgent(u, a, large)
    IN  FoldLeft(One, t, runnable)

Quiescent(t) ==
    /\ \A a \in Agents : t.task[a].kind = "none"
    /\ AwaitingOutputs(t) # {} \/ \A a \in Agents : t.wait[a] = "none"

FinishWaits(t) ==
    [t EXCEPT !.wait = [a \in Agents |-> "none"],
              !.history = [a \in Agents |-> IF t.wait[a] # "none" THEN Append(@[a], ActResult) ELSE @[a]]]

Decide(ss, how) == [s \in Submissions |-> IF s \in ss THEN [sub[s] EXCEPT !.st = how] ELSE sub[s]]

\* The receiver is closed and what it still holds is answered Finalizing, without an await.

Finish(t) ==
    /\ tree' = FinishWaits(t)
    /\ pc' = "done"
    /\ sub' = Decide({queue[i] : i \in DOMAIN queue}, "finalizing")
    /\ queue' = <<>>

\* An error cancels the tasks and drops the tree and the receiver: queued commands end
\* without a decision.
Abandon ==
    /\ tree' = NewTree
    /\ pc' = "failed"
    /\ sub' = Decide({queue[i] : i \in DOMAIN queue}, "lost")
    /\ queue' = <<>>

GoOn(t, where) ==
    IF t.err THEN Abandon
    ELSE tree' = t /\ pc' = where /\ UNCHANGED <<sub, queue>>

Tick ==
    /\ pc = "tick"
    /\ \E t \in {Schedule(WakeWaiters(tree), large) : large \in SUBSET Large} :
          IF ~t.err /\ Quiescent(t) THEN Finish(t) ELSE GoOn(t, "select")
    /\ UNCHANGED runs

RoundEnds(a) ==
    /\ pc \in {"tick", "select"}
    /\ tree.task[a].kind = "round"
    /\ \E t \in {CompleteRound(tree, a, r) : r \in RoundResults(a)} : GoOn(t, "tick")
    /\ UNCHANGED runs

CompactionEnds(a) ==
    /\ pc \in {"tick", "select"}
    /\ tree.task[a].kind = "compaction"
    /\ GoOn(CompleteCompaction(tree, a), "tick")
    /\ UNCHANGED runs

\* A failed task of the root fails the response, one of a subagent its turn.
TaskFails(a) ==
    /\ pc \in {"tick", "select"}
    /\ tree.task[a].kind # "none"
    /\ IF a = Root THEN Abandon ELSE GoOn(CompleteFailed(tree, a), "tick")
    /\ UNCHANGED runs

\* A cancelled response, its one-hour limit, a refused publication.
RunFails ==
    /\ pc \in {"tick", "select"}
    /\ Abandon
    /\ UNCHANGED runs

\* A wait's deadline passes.
WaitExpires(a) ==
    /\ pc \in {"tick", "select"}
    /\ tree.wait[a] = "armed"
    /\ tree' = [tree EXCEPT !.wait[a] = "expired"]
    /\ UNCHANGED <<pc, runs, sub, queue>>

DeadlineWakes ==
    /\ pc = "select"
    /\ \E a \in Agents : tree.wait[a] = "expired"
    /\ pc' = "tick"
    /\ UNCHANGED <<tree, runs, sub, queue>>
-----------------------------------------------------------------------------
(* Client outputs: live, through the control queue, or in a continuation.  *)

Valid(t, batch) ==
    \A c \in batch : \/ t.calls[c].st = "pending"
                     \/ c \in AsyncCalls /\ t.calls[c].st = "resolved"

Outputs(t, s, batch, a) == SetToSeq({[k |-> "out", c |-> c, s |-> s] : c \in {d \in batch : t.calls[d].owner = a}})

Resolve(t, batch) ==
    [t EXCEPT !.calls = [c \in Calls |-> IF c \in batch THEN [@[c] EXCEPT !.st = "resolved"] ELSE @[c]]]

AcceptLiveOutputs(t, s, batch) ==
    LET owners == {t.calls[c].owner : c \in batch}
        r == Resolve(t, batch)
        kept == [a \in Agents |-> IF t.st[a] = "inferring" /\ t.task[a].kind # "compaction"
                                  THEN t.during[a] \o Outputs(t, s, batch, a) ELSE t.during[a]]
        u == [r EXCEPT
               !.during = kept,
               !.history = [a \in Agents |-> @[a] \o Outputs(t, s, batch, a)],
               !.compacted = [a \in Agents |-> @[a] /\ a \notin owners],
               !.task = [a \in Agents |-> [@[a] EXCEPT !.stale = @ \/ (a \in owners /\ t.task[a].kind = "compaction")]],
               !.st = [a \in Agents |-> IF a \in owners /\ @[a] = "clients" /\ AwaitedBy(r, a) = {}
                                        THEN "runnable" ELSE @[a]]]
    IN  ResumeUnreadAgents(u)

\* A slot stays taken until its decision is read.
Held == {s \in Submissions : sub[s].st \in {"queued", "accepted", "rejected", "finalizing"} /\ ~sub[s].read}

TrySubmitOutputs(s) ==
    /\ sub[s].st = "new"
    /\ IF pc \in {"tick", "select"} /\ Cardinality(Held) < Slots
       THEN \E batch \in SUBSET Calls \ {{}} :
               /\ sub' = [sub EXCEPT ![s] = [@ EXCEPT !.st = "queued", !.batch = batch]]
               /\ queue' = Append(queue, s)
       ELSE sub' = [sub EXCEPT ![s].st = "refused"] /\ UNCHANGED queue
    /\ UNCHANGED <<tree, pc, runs>>

ReceiveCommand ==
    /\ pc = "select"
    /\ queue # <<>>
    /\ LET s == Head(queue)
           ok == Valid(tree, sub[s].batch)
       IN  /\ tree' = IF ok THEN AcceptLiveOutputs(tree, s, sub[s].batch) ELSE tree
           /\ sub' = [sub EXCEPT ![s].st = IF ok THEN "accepted" ELSE "rejected"]
    /\ queue' = Tail(queue)
    /\ pc' = "tick"
    /\ UNCHANGED runs

ReadDecision(s) ==
    /\ sub[s].st \in {"accepted", "rejected", "finalizing"} /\ ~sub[s].read
    /\ sub' = [sub EXCEPT ![s].read = TRUE]
    /\ UNCHANGED <<tree, pc, runs, queue>>

ContinueInput(t, s, batch, message) ==
    LET owners == {t.calls[c].owner : c \in batch}
        r == [Resolve(t, batch) EXCEPT
               !.history = [a \in Agents |-> @[a] \o Outputs(t, s, batch, a)],
               !.st = [a \in Agents |-> IF a \in owners /\ @[a] = "clients" THEN "runnable" ELSE @[a]]]
        resumed == message \/ \E c \in batch \cap AsyncCalls : t.calls[c].owner = Root
    IN  IF ~resumed THEN r
        ELSE [r EXCEPT !.turn[Root] = IF Active(t, Root) THEN @ ELSE @ + 1, !.st[Root] = "runnable",
                       !.history[Root] = IF message THEN Append(@, UserMessage) ELSE @]

\* A request that continues the checkpoint answers every synchronous call.
Continue(s) ==
    /\ pc = "done" /\ runs < MaxRuns
    /\ sub[s].st = "new"
    /\ \E batch \in SUBSET Calls, message \in BOOLEAN :
          /\ Valid(tree, batch) /\ AwaitingOutputs(tree) \subseteq batch
          /\ message \/ batch # {}
          /\ tree' = ResumeUnreadAgents(
                       [ContinueInput(tree, s, batch, message) EXCEPT
                          !.compacted = [a \in Agents |-> FALSE], !.during = [a \in Agents |-> <<>>],
                          !.interrupted = {}, !.rounds = 0])
          /\ sub' = [sub EXCEPT ![s] = [st |-> "accepted", batch |-> batch, read |-> TRUE]]
    /\ pc' = "tick"
    /\ runs' = runs + 1
    /\ UNCHANGED <<queue>>

Done ==
    /\ \/ pc = "failed"
       \/ pc = "done" /\ (runs = MaxRuns \/ \A s \in Submissions : sub[s].st # "new")
    /\ UNCHANGED vars

Next ==
    \/ Tick \/ RunFails \/ DeadlineWakes \/ ReceiveCommand \/ Done
    \/ \E a \in Agents : RoundEnds(a) \/ CompactionEnds(a) \/ TaskFails(a) \/ WaitExpires(a)
    \/ \E s \in Submissions : TrySubmitOutputs(s) \/ ReadDecision(s) \/ Continue(s)

\* The runtime polls the coordinator and its tasks, and deadlines pass.
Fairness ==
    /\ WF_vars(Tick) /\ WF_vars(DeadlineWakes) /\ WF_vars(ReceiveCommand)
    /\ \A a \in Agents : WF_vars(RoundEnds(a) \/ CompactionEnds(a) \/ TaskFails(a)) /\ WF_vars(WaitExpires(a))

Spec == Init /\ [][Next]_vars /\ Fairness
-----------------------------------------------------------------------------
(* Properties *)

\* Every component of the coordinator keeps its type, and a mailbox its capacity.
TypeOK ==
    /\ tree.order \in Seq(Agents) /\ Head(tree.order) = Root
    /\ \A a \in Agents :
          /\ tree.st[a] \in States
          /\ tree.st[a] = "absent" <=> ~Contains(tree.order, a)
          /\ Len(tree.mail[a]) <= MaxMail
          /\ tree.wait[a] \in {"none", "armed", "expired"}
          /\ tree.task[a].kind \in {"none", "round", "compaction"}
    /\ \A c \in Calls : tree.calls[c] \in [owner : Agents, st : {"none", "pending", "resolved"}]
    /\ pc \in {"tick", "select", "done", "failed"}
    /\ \A s \in Submissions : sub[s].batch \subseteq Calls
    /\ queue \in Seq(Submissions)

Occurrences(h, item) ==
    Cardinality({i \in DOMAIN h : h[i] = item})
      + Cardinality({i \in DOMAIN h : h[i].k = "summary" /\ item \in h[i].of})

\* A batch is applied as a whole exactly when the client is told so: each of its
\* outputs is in its call's owner's history once if it was accepted, whichever round
\* or compaction was in flight, and not at all otherwise (accept_live_outputs).
OutputsAppliedOnce ==
    pc # "failed" =>
      \A s \in Submissions : \A c \in sub[s].batch :
         Occurrences(tree.history[tree.calls[c].owner], [k |-> "out", c |-> c, s |-> s])
           = IF sub[s].st = "accepted" THEN 1 ELSE 0

\* A synchronous call takes one output over the life of the tree, live or continued
\* (validate_batch, restored through checkpoint).
AnsweredOnce ==
    \A c \in Calls \ AsyncCalls :
       Cardinality({s \in Submissions : sub[s].st = "accepted" /\ c \in sub[s].batch}) <= 1

\* An idle agent with an output it has not read waits only for a free subagent slot
\* (resume_unread_agents).
OutputWaitsOnlyForSlot ==
    pc \in {"select", "done"} =>
      \A a \in Agents :
         tree.st[a] = "idle" /\ HasUnreadOutput(tree.history[a])
           => a # Root /\ ActiveSubagents(tree) >= Limit

\* The subagent limit holds through spawns, follow-ups and resumptions, and the
\* inferring agents are those with a task, so RunOwner never refuses one.
TasksWithinLimit ==
    pc # "failed" =>
      /\ ActiveSubagents(tree) <= Limit
      /\ \A a \in Agents : tree.st[a] = "inferring" <=> tree.task[a].kind # "none"

\* The parent of a settled turn has its completion exactly once, in its mailbox or in
\* its history, whatever replaced that history since (settle_turn).
TurnsReported ==
    pc # "failed" =>
      \A e \in tree.ended :
         e[1] # Root =>
           LET m == [k |-> "finished", from |-> e[1], turn |-> e[2]]
               p == Parent[e[1]]
           IN  Occurrences(tree.mail[p], m) + Occurrences(tree.history[p], m) = 1

\* A response completes only when every active agent waits for something outside it:
\* outputs the client owes, or mail; and no inactive agent sits on a task (drive).
NothingStranded ==
    pc = "done" /\ tree.rounds < MaxRounds =>
      \A a \in Agents :
         /\ tree.st[a] = "clients" => AwaitedBy(tree, a) # {}
         /\ tree.st[a] = "mailbox" => tree.mail[a] = <<>>
         /\ tree.st[a] = "runnable" => AwaitingOutputs(tree) # {}
         /\ ~Active(tree, a) => \A i \in DOMAIN tree.mail[a] : tree.mail[a][i].k # "task"

\* Closing the control queue leaves no admitted command without a decision (finish).
EveryCommandDecided ==
    pc \in {"done", "failed"} => \A s \in Submissions : sub[s].st # "queued"

\* The comment in drive: a live socket does not keep an otherwise quiescent response
\* open.  The coordinator goes back to waiting only while some agent is active.
QuiescentCloses == pc = "select" => \E a \in Agents : Active(tree, a)

\* What refutes QuiescentCloses: the wait of an agent whose round then failed.
LeftoverWait == \E a \in Agents : ~Active(tree, a) /\ tree.wait[a] # "none"

\* Every response ends, but for a leftover wait, without its one-hour limit: rounds are
\* bounded, waits have deadlines, and nobody waits for a task that does not run (drive).
RunEnds == []<>(pc \in {"done", "failed"} \/ LeftoverWait)
============================================================================
