----------------------------- MODULE SteeringProofs -----------------------------
(***************************************************************************)
(* Proofs about the lanes, targets and tasks of one connection, for every  *)
(* number of lanes, steers and requests, and every limit and fault.        *)
(***************************************************************************)
EXTENDS Steering, FiniteSetTheorems, TLAPS

-----------------------------------------------------------------------------
(* The inductive invariant *)

(* An Option is a set with at most one element.                            *)
Option(S) == \A x, y \in S : x = y

(* Where a task holds the reservation of its parent's target.              *)
Reserving == {"flush", "register", "publish", "cancelled"}

(* Tasks and queued work are within the connection's limit; a queue never  *)
(* outgrows it, and holds work of its own lane.                            *)
LaneInv ==
    /\ LaneSerial /\ OutstandingBounded /\ IsFiniteSet(tasks)
    /\ \A l \in Lanes :
         /\ Len(queue[l]) <= MaxOutstanding
         /\ \A i \in 1 .. Len(queue[l]) : queue[l][i].lane = l

(* What a request asks to continue is at most one response; its steering   *)
(* parent is on its lane and was created.                                  *)
WorkOK(w) ==
    /\ Option(w.prev) /\ Option(w.parent)
    /\ w.auto => w.parent # {}
    /\ \A p \in w.parent : target[p].lane = w.lane /\ run[p].created

(* A task has its response from the start of its execution on, which is    *)
(* gated until its route is registered.                                    *)
TaskOK(t) ==
    /\ WorkOK(t.work) /\ Option(t.resp)
    /\ t.pc \in {"prepare", "preparing", "flush", "publish", "cancelled"} => t.work.parent # {}
    /\ t.pc = "fresh" => t.work.parent = {}
    /\ t.pc \in {"spawned", "fresh", "prepare", "preparing"} => t.resp = {}
    /\ t.pc \in Reserving \cup {"join", "finish", "check"} => t.resp # {}
    /\ \A r \in t.resp :
         /\ run[r].exec # "none"
         /\ t.pc \in {"flush", "register"} => run[r].exec = "gated"
         /\ t.pc \in {"publish", "cancelled", "join", "finish", "check"} =>
              run[r].exec # "gated" /\ target[r].lane = t.work.lane
         /\ t.pc \in {"finish", "check"} => Terminal(r)

TaskInv ==
    /\ \A t \in tasks : TaskOK(t)
    /\ \A t, u \in tasks : t.resp \cap u.resp # {} => t = u
    /\ \A l \in Lanes : \A i \in 1 .. Len(queue[l]) : WorkOK(queue[l][i])

(* A response that waits for its route was not created.                    *)
RunInv == \A r \in Responses : run[r].exec \in {"none", "gated"} => ~run[r].created

(* A target that owns input has its route and, until a successor reserved  *)
(* it, its settings; a reservation is held by one task of the lane.  A     *)
(* completed target with a malformed obligation accepts nothing.           *)
Holds(t, p) == p \in t.work.parent /\ (t.pc \in Reserving \/ (t.pc = "done" /\ t.fatal))

TargetOK(tg, p) ==
    /\ Option(tg[p].batch)
    /\ \A b \in tg[p].batch : b.entries # <<>>
    /\ tg[p].batch # {} => run[p].created /\ p \in routes
    /\ tg[p].batch # {} /\ tg[p].phase \in {"Running", "Ready"} => tg[p].settings
    /\ tg[p].phase = "Ready" =>
         /\ Terminal(p)
         /\ run[p].need = "malformed" /\ tg[p].supported => latest[tg[p].lane] # {p}
    /\ p \in cleanup => tg[p].phase = "Closed"
    /\ tg[p].phase = "Reserved" => \E t \in tasks : Holds(t, p)

TargetInv ==
    /\ \A p \in Responses : TargetOK(target, p)
    /\ \A t \in tasks : t.pc \in Reserving =>
         \A p \in t.work.parent : target[p].phase = "Reserved"
    /\ \A l \in Lanes : Option(latest[l])

Inv == TypeOK /\ LaneInv /\ TaskInv /\ RunInv /\ TargetInv

-----------------------------------------------------------------------------
(* What the operators return *)

(* The member of a non-empty Option.                                       *)
LEMMA TheMember == \A S : S # {} => The(S) \in S
BY DEF The

(* Every limit is a positive number.                                       *)
LEMMA Limits ==
    /\ MaxCreates \in Nat \ {0} /\ MaxOutstanding \in Nat \ {0} /\ MaxRoutes \in Nat \ {0}
    /\ MaxControls \in Nat \ {0} /\ MaxEchoes \in Nat \ {0}
    /\ MaxOutcomes \in Nat \ {0}
<1>1. {MaxCreates, MaxOutstanding, MaxRoutes, MaxControls, MaxEchoes} \subseteq Nat \ {0}
  BY ConstantsAssumption DEF ConstantsOK
<1>2. /\ MaxCreates \in Nat \ {0} /\ MaxOutstanding \in Nat \ {0} /\ MaxRoutes \in Nat \ {0}
      /\ MaxControls \in Nat \ {0} /\ MaxEchoes \in Nat \ {0}
  BY <1>1
<1> QED BY <1>2 DEF MaxOutcomes

(* The state a response's target and run start in is well typed.           *)
LEMMA NoTargetType == NoTarget \in Target /\ NoRun \in Run
<1>1. (CHOOSE l \in Lanes : TRUE) \in Lanes
  BY ConstantsAssumption DEF ConstantsOK
<1>2. <<>> \in Seq(Steers)
  OBVIOUS
<1> QED BY <1>1, <1>2 DEF NoTarget, NoRun, Target, Run

(* What becomes of a run is a run.                                         *)
LEMMA RunUpdate ==
    ASSUME TypeOK, NEW r \in Responses
    PROVE  /\ \A e \in {"gated", "running", "committed", "failed", "aborted"} :
                /\ [run EXCEPT ![r].exec = e] \in [Responses -> Run]
                /\ \A c \in Seq(Steers) :
                     [run EXCEPT ![r].exec = e, ![r].carries = c] \in [Responses -> Run]
           /\ [run EXCEPT ![r].created = TRUE] \in [Responses -> Run]
           /\ [run EXCEPT ![r].relay = FALSE] \in [Responses -> Run]
<1>1. run \in [Responses -> Run] /\ run[r] \in Run
  BY DEF TypeOK
<1>2. \A v \in Run : [run EXCEPT ![r] = v] \in [Responses -> Run]
  BY ONLY <1>1
<1>3. ASSUME NEW e \in {"gated", "running", "committed", "failed", "aborted"}
      PROVE  /\ [run EXCEPT ![r].exec = e] \in [Responses -> Run]
             /\ \A c \in Seq(Steers) :
                  [run EXCEPT ![r].exec = e, ![r].carries = c] \in [Responses -> Run]
  <2>1. [run[r] EXCEPT !.exec = e] \in Run
    BY ONLY <1>1 DEF Run
  <2>2. ASSUME NEW c \in Seq(Steers)
        PROVE  [run EXCEPT ![r].exec = e, ![r].carries = c] \in [Responses -> Run]
    <3>1. [[run[r] EXCEPT !.exec = e] EXCEPT !.carries = c] \in Run
      BY ONLY <2>1 DEF Run
    <3>2. [run EXCEPT ![r].exec = e, ![r].carries = c] =
            [run EXCEPT ![r] = [[run[r] EXCEPT !.exec = e] EXCEPT !.carries = c]]
      BY ONLY <1>1
    <3> QED BY ONLY <1>2, <3>1, <3>2
  <2> QED BY ONLY <1>2, <2>1, <2>2
<1>4. [run[r] EXCEPT !.created = TRUE] \in Run /\ [run[r] EXCEPT !.relay = FALSE] \in Run
  BY ONLY <1>1 DEF Run
<1> QED BY ONLY <1>2, <1>3, <1>4

(* release_inactive_settings only takes settings from targets without a    *)
(* batch.                                                                  *)
LEMMA ReleaseFacts ==
    ASSUME NEW tg \in [Responses -> Target]
    PROVE  /\ ReleaseInactive(tg) \in [Responses -> Target]
           /\ \A r \in Responses :
                /\ ReleaseInactive(tg)[r].lane = tg[r].lane
                /\ ReleaseInactive(tg)[r].phase = tg[r].phase
                /\ ReleaseInactive(tg)[r].supported = tg[r].supported
                /\ ReleaseInactive(tg)[r].batch = tg[r].batch
                /\ ReleaseInactive(tg)[r].settings => tg[r].settings
                /\ tg[r].batch # {} => ReleaseInactive(tg)[r] = tg[r]
<1>1. ASSUME NEW r \in Responses
      PROVE  /\ ReleaseInactive(tg)[r] = tg[r] \/
                  ReleaseInactive(tg)[r] = [tg[r] EXCEPT !.settings = FALSE]
             /\ tg[r].batch # {} => ReleaseInactive(tg)[r] = tg[r]
  BY DEF ReleaseInactive
<1>2. ASSUME NEW r \in Responses PROVE [tg[r] EXCEPT !.settings = FALSE] \in Target
  BY DEF Target
<1>3. ReleaseInactive(tg) = [r \in Responses |-> ReleaseInactive(tg)[r]]
  BY DEF ReleaseInactive
<1>4. ASSUME NEW r \in Responses
      PROVE  /\ ReleaseInactive(tg)[r] \in Target
             /\ ReleaseInactive(tg)[r].lane = tg[r].lane
             /\ ReleaseInactive(tg)[r].phase = tg[r].phase
             /\ ReleaseInactive(tg)[r].supported = tg[r].supported
             /\ ReleaseInactive(tg)[r].batch = tg[r].batch
             /\ ReleaseInactive(tg)[r].settings => tg[r].settings
  BY <1>1, <1>2 DEF Target
<1> QED BY <1>1, <1>3, <1>4

(* What is closed owns nothing.                                            *)
LEMMA ClosedFacts ==
    ASSUME NEW tg \in Target
    PROVE  /\ Closed(tg) \in Target /\ Closed(tg).lane = tg.lane
           /\ Closed(tg).phase = "Closed" /\ Closed(tg).batch = {}
           /\ Closed(tg).supported = tg.supported
BY DEF Closed, Target

(* The entries of a target are those of its one batch.                     *)
LEMMA EntriesType ==
    ASSUME NEW tg \in Target
    PROVE  /\ Entries(tg) \in Seq(Steers)
           /\ \A b \in tg.batch : Option(tg.batch) => Entries(tg) = b.entries
<1>1. <<>> \in Seq(Steers)
  OBVIOUS
<1>2. \A b \in tg.batch : b.entries \in Seq(Steers)
  BY DEF Target, Batch
<1> QED BY <1>1, <1>2, TheMember DEF Entries, Option

(* One outcome per entry, in their order.                                  *)
LEMMA EventsType ==
    ASSUME NEW kind \in {"accepted", "pending", "failed", "rejected"}, NEW e \in Seq(Steers)
    PROVE  /\ Events(kind, e) \in Seq(Event) /\ Len(Events(kind, e)) = Len(e)
           /\ \A i \in 1 .. Len(e) : Events(kind, e)[i] = [kind |-> kind, steer |-> {e[i]}]
<1>1. \A i \in 1 .. Len(e) : [kind |-> kind, steer |-> {e[i]}] \in Event
  BY DEF Event
<1> QED BY <1>1 DEF Events

(* What fail_successor sends is a sequence of outcomes.                    *)
LEMMA FailuresType ==
    ASSUME NEW tg \in Target
    PROVE  Failures(tg) \in Seq(Event)
<1>1. Events("failed", Entries(tg)) \in Seq(Event)
  BY EntriesType, EventsType
<1>2. Barrier \in Event
  BY DEF Barrier, Event
<1>3. <<>> \in Seq(Event)
  OBVIOUS
<1> QED BY <1>1, <1>2, <1>3 DEF Failures

(* Steering is attached only to work that names no parent yet.             *)
LEMMA AttachFacts ==
    ASSUME TypeOK, NEW w \in Work
    PROVE  /\ Attach(w) \in Work /\ Attach(w).lane = w.lane /\ Attach(w).prev = w.prev
           /\ Attach(w).auto = w.auto
           /\ w.parent # {} => Attach(w) = w
           /\ w.parent = {} => Attach(w).parent = Attached(w)
           /\ \A p \in Attached(w) : /\ p \in w.prev /\ p \in routes /\ p \in Responses
                                     /\ target[p].lane = w.lane /\ target[p].batch # {}
<1>1. \A p \in Attached(w) : /\ p \in w.prev /\ p \in routes
                             /\ target[p].lane = w.lane /\ target[p].batch # {}
  BY DEF Attached
<1>2. routes \subseteq Responses
  BY DEF TypeOK
<1>3. Attached(w) \subseteq Responses
  BY <1>1, <1>2
<1> QED BY <1>1, <1>2, <1>3 DEF Attach, Work

(* Work that is spawned becomes a task.                                    *)
LEMMA SpawnedType ==
    ASSUME TypeOK, NEW w \in Work
    PROVE  Spawned(w) \in Task
<1>1. Attach(w) \in Work /\ <<>> \in Seq(Steers)
  BY AttachFacts
<1> QED BY <1>1 DEF Spawned, Task, Steps

(* An automatic successor is work for the lane of its parent.              *)
LEMMA AutoType ==
    ASSUME TypeOK, NEW r \in Responses
    PROVE  AutoWork(r) \in Work
BY DEF TypeOK, AutoWork, Work, Target

(* A target that accepts has a legible obligation.                         *)
LEMMA AcceptedType ==
    ASSUME TypeOK, NEW tg \in [Responses -> Target], NEW r \in Responses, NEW s \in Steers,
           run[r].need # "malformed" \/ tg[r].batch # {} \/ tg[r].phase = "Running"
    PROVE  Accepted(tg, r, s) \subseteq Batch
<1>1. tg[r].batch \subseteq Batch /\ run[r].need \in {"free", "input", "malformed"}
  BY DEF Target, TypeOK, Run
<1>2. \A b \in Batch : [b EXCEPT !.entries = Append(@, s)] \in Batch
  BY DEF Batch
<1>3. <<s>> \in Seq(Steers)
  OBVIOUS
<1>4. tg[r].batch = {} =>
        [entries |-> <<s>>, queued |-> TRUE,
         pin |-> IF tg[r].phase = "Running" THEN "none" ELSE run[r].need] \in Batch
  BY <1>1, <1>3 DEF Batch
<1> QED BY <1>1, <1>2, <1>4 DEF Accepted

-----------------------------------------------------------------------------
(* Types *)

(* The parent and the response of a task, where it has one.                *)
LEMMA TaskHas ==
    ASSUME TypeOK, TaskInv, NEW t \in tasks
    PROVE  /\ t \in Task /\ t.work \in Work /\ TaskOK(t)
           /\ t.pc \in {"prepare", "preparing", "flush", "publish", "cancelled"} \/ t.work.auto
                \/ t.work.parent # {} =>
                /\ The(t.work.parent) \in Responses /\ t.work.parent = {The(t.work.parent)}
           /\ t.pc \in Reserving \cup {"join", "finish", "check"} \/ t.resp # {} =>
                The(t.resp) \in Responses /\ t.resp = {The(t.resp)}
<1>1. t \in Task /\ t.work \in Work
  BY DEF TypeOK, Task
<1>2. TaskOK(t)
  BY DEF TaskInv
<1>3. t.work.parent \subseteq Responses /\ t.resp \subseteq Responses
  BY <1>1 DEF Task, Work
<1>4. \A S : S # {} /\ Option(S) => The(S) \in S /\ S = {The(S)}
  BY TheMember DEF Option
<1>5. Option(t.work.parent) /\ Option(t.resp) /\ (t.work.auto => t.work.parent # {})
  BY <1>2 DEF TaskOK, WorkOK
<1>6. t.pc \in {"prepare", "preparing", "flush", "publish", "cancelled"} => t.work.parent # {}
  BY <1>2 DEF TaskOK
<1>7. t.pc \in Reserving \cup {"join", "finish", "check"} => t.resp # {}
  BY <1>2 DEF TaskOK
<1> QED BY <1>1, <1>2, <1>3, <1>4, <1>5, <1>6, <1>7

(* A task that only moves on stays a task.                                 *)
LEMMA GotoType ==
    ASSUME TypeOK, NEW t \in tasks, NEW pc \in Steps, Goto(t, pc)
    PROVE  tasks' \subseteq Task
<1>1. t \in Task
  BY DEF TypeOK
<1>2. [t EXCEPT !.pc = pc] \in Task
  BY <1>1 DEF Task
<1> QED BY <1>2 DEF Goto, Become, TypeOK

(* fail_successor keeps the shapes of targets and outboxes.                *)
LEMMA FailType ==
    ASSUME TypeOK, NEW r \in Responses, FailSuccessor(r)
    PROVE  target' \in [Responses -> Target] /\ outbox' \in [Responses -> Seq(Event)]
<1>1. Closed(target[r]) \in Target /\ Failures(target[r]) \in Seq(Event)
  BY ClosedFacts, FailuresType DEF TypeOK
<1>2. target' = [target EXCEPT ![r] = Closed(target[r])]
      /\ outbox' = [outbox EXCEPT ![r] = outbox[r] \o Failures(target[r])]
  BY DEF FailSuccessor, TypeOK
<1>3. outbox[r] \o Failures(target[r]) \in Seq(Event)
  BY <1>1 DEF TypeOK
<1> QED BY <1>1, <1>2, <1>3 DEF TypeOK

(* So does a task that ends with an error.                                 *)
LEMMA ErrorsType ==
    ASSUME TypeOK, TaskInv, NEW t \in tasks, NEW fatal \in BOOLEAN, Errors(t, fatal)
    PROVE  /\ target' \in [Responses -> Target] /\ outbox' \in [Responses -> Seq(Event)]
           /\ tasks' \subseteq Task
<1>1. CASE t.work.auto
  <2>1. FailSuccessor(The(t.work.parent)) /\ The(t.work.parent) \in Responses
    BY <1>1, TaskHas DEF Errors
  <2>2. [t EXCEPT !.pc = "failing", !.wait = t.work.parent, !.fatal = TRUE] \in Task
    BY TaskHas DEF Task, Work, Steps
  <2>3. tasks' \subseteq Task
    BY <1>1, <2>2 DEF Errors, Become, TypeOK
  <2> QED BY <2>1, <2>3, FailType
<1>2. CASE ~t.work.auto
  <2>1. [t EXCEPT !.pc = "done", !.fatal = fatal] \in Task
    BY TaskHas DEF Task, Steps
  <2> QED BY <1>2, <2>1 DEF Errors, Become, TypeOK
<1> QED BY <1>1, <1>2

(* Starting a gated execution keeps the shapes of runs and tasks.          *)
LEMMA StartType ==
    ASSUME TypeOK, TaskInv, NEW t \in tasks, NEW pc \in Steps, NEW e \in Seq(Steers),
           StartGated(t, pc, e)
    PROVE  run' \in [Responses -> Run] /\ tasks' \subseteq Task
<1>1. PICK r \in Responses :
        /\ run' = [run EXCEPT ![r].exec = "gated", ![r].carries = e]
        /\ Become(t, [t EXCEPT !.pc = pc, !.resp = {r}])
  BY DEF StartGated
<1>2. [t EXCEPT !.pc = pc, !.resp = {r}] \in Task
  BY TaskHas DEF Task
<1>3. run' \in [Responses -> Run]
  BY <1>1, RunUpdate
<1> QED BY <1>1, <1>2, <1>3 DEF Become, TypeOK

(* Evicting a cached parent keeps the shape of the lanes' checkpoints.     *)
LEMMA EvictType ==
    ASSUME TypeOK, NEW l, NEW S, Evict(l, S)
    PROVE  latest' \in [Lanes -> SUBSET Responses]
BY DEF TypeOK, Evict

(* Everything a closed connection leaves behind is well typed.             *)
LEMMA CloseType == ASSUME Close PROVE TypeOK'
<1>1. NoWork \in [Lanes -> Seq(Work)]
  <2>1. <<>> \in Seq(Work)
    OBVIOUS
  <2> QED BY <2>1 DEF NoWork
<1>2. [r \in Responses |-> <<>>] \in [Responses -> Seq(Event)]
  <2>1. <<>> \in Seq(Event)
    OBVIOUS
  <2> QED BY <2>1
<1>3. 0 \in 0 .. MaxCreates
  BY Limits
<1>4. /\ [l \in Lanes |-> {}] \in [Lanes -> SUBSET Responses]
      /\ [r \in Responses |-> NoTarget] \in [Responses -> Target]
      /\ [r \in Responses |-> NoRun] \in [Responses -> Run]
  BY NoTargetType
<1>5. /\ [s \in Steers |-> "nothing"] \in [Steers -> {"nothing", "accepted", "failed",
           "rejected", "barrier"}]
      /\ [s \in Steers |-> "unsent"] \in [Steers -> {"unsent", "refused", "owned"}]
  OBVIOUS
<1>6. conn' = "closed" /\ expired' = FALSE /\ active' = {} /\ tasks' = {} /\
        routes' = {} /\ cleanup' = {}
  BY DEF Close
<1>7. queue' = NoWork /\ creates' = 0 /\ latest' = [l \in Lanes |-> {}]
  BY DEF Close
<1>8. target' = [r \in Responses |-> NoTarget] /\ run' = [r \in Responses |-> NoRun]
  BY DEF Close
<1>9. /\ outbox' = [r \in Responses |-> <<>>] /\ told' = [s \in Steers |-> "nothing"]
      /\ fate' = [s \in Steers |-> "unsent"]
  BY DEF Close
<1> QED BY <1>1, <1>2, <1>3, <1>4, <1>5, <1>6, <1>7, <1>8, <1>9 DEF TypeOK

(* The steps of a task but its end.                                        *)
LEMMA TaskType ==
    ASSUME TypeOK, TaskInv, NEW t \in tasks, TaskStep(t), ~Finish(t)
    PROVE  TypeOK'
<1> DEFINE p == The(t.work.parent)
           r == The(t.resp)
<1> HIDE DEF p, r
<1>h. t \in Task /\ t.work \in Work /\ t.snap \in Seq(Steers) /\ t.work.lane \in Lanes
  BY TaskHas DEF Task, Work
<1>e. <<>> \in Seq(Steers)
  OBVIOUS
<1>s. {"done", "fresh", "prepare", "preparing", "register", "flush", "join", "publish",
       "cancelled", "finish", "check", "failing"} \subseteq Steps
  BY DEF Steps
<1>1. CASE Dispatch(t)
  <2>1. tasks' \subseteq Task
    BY <1>1, <1>s, GotoType DEF Dispatch
  <2>2. latest' \in [Lanes -> SUBSET Responses]
    BY <1>1, EvictType DEF Dispatch, TypeOK
  <2> QED BY <1>1, <2>1, <2>2 DEF Dispatch, TypeOK
<1>2. CASE PrepareFresh(t)
  <2>1. CASE StartGated(t, "register", <<>>) /\ UNCHANGED <<target, outbox, latest>>
    BY <1>2, <2>1, <1>e, <1>s, StartType DEF PrepareFresh, TypeOK
  <2>2. CASE Errors(t, FALSE) /\ Evict(t.work.lane, t.work.prev) /\ UNCHANGED run
    BY <1>2, <2>2, ErrorsType, EvictType DEF PrepareFresh, TypeOK
  <2> QED BY <1>2, <2>1, <2>2 DEF PrepareFresh
<1>3. CASE PrepareSuccessor(t)
  <2>1. p \in Responses /\ target[p] \in Target /\ Entries(target[p]) \in Seq(Steers)
    BY <1>3, TaskHas, EntriesType DEF PrepareSuccessor, TypeOK, p
  <2>2. CASE /\ Become(t, [t EXCEPT !.pc = "preparing", !.snap = Entries(target[p])])
             /\ UNCHANGED <<target, outbox>>
    <3>1. [t EXCEPT !.pc = "preparing", !.snap = Entries(target[p])] \in Task
      BY <1>h, <1>s, <2>1 DEF Task
    <3> QED BY <1>3, <2>2, <3>1 DEF PrepareSuccessor, TypeOK, Become
  <2>3. ASSUME NEW f \in BOOLEAN, Errors(t, f) PROVE TypeOK'
    BY <1>3, <2>3, ErrorsType DEF PrepareSuccessor, TypeOK
  <2>4. (target[p].phase = "Ready" /\ \A b \in target[p].batch : b.pin # "none") \in BOOLEAN
    OBVIOUS
  <2> QED BY <1>3, <2>2, <2>3, <2>4 DEF PrepareSuccessor, p
<1>4. CASE ReserveSuccessor(t)
  <2>1. p \in Responses /\ target[p] \in Target
    BY <1>4, TaskHas DEF ReserveSuccessor, TypeOK, p
  <2>2. CASE Errors(t, FALSE) /\ UNCHANGED run
    BY <1>4, <2>2, ErrorsType DEF ReserveSuccessor, TypeOK
  <2>3. CASE Goto(t, "prepare") /\ UNCHANGED <<target, outbox, run>>
    BY <1>4, <2>3, <1>s, GotoType DEF ReserveSuccessor, TypeOK
  <2>4. CASE /\ target' = [target EXCEPT ![p].phase = "Reserved",
                             ![p].batch = {[b EXCEPT !.queued = FALSE] : b \in @}]
             /\ outbox' = [outbox EXCEPT ![p] = Append(@, Barrier)]
             /\ StartGated(t, "flush", t.snap)
    <3>1. {[b EXCEPT !.queued = FALSE] : b \in target[p].batch} \subseteq Batch
      <4>1. \A b \in Batch : [b EXCEPT !.queued = FALSE] \in Batch
        BY ONLY DEF Batch
      <4>2. target[p].batch \subseteq Batch
        BY ONLY <2>1 DEF Target
      <4> QED BY ONLY <4>1, <4>2
    <3>2. target' \in [Responses -> Target]
      BY <2>1, <2>4, <3>1 DEF TypeOK, Target
    <3>3. outbox' \in [Responses -> Seq(Event)]
      <4>1. outbox[p] \in Seq(Event) /\ Barrier \in Event
        BY <2>1 DEF TypeOK, Barrier, Event
      <4>2. Append(outbox[p], Barrier) \in Seq(Event)
        BY <4>1
      <4> QED BY <2>1, <2>4, <4>2 DEF TypeOK
    <3> QED BY <1>4, <1>h, <1>s, <2>4, <3>2, <3>3, StartType DEF ReserveSuccessor, TypeOK
  <2> QED BY <1>4, <2>2, <2>3, <2>4 DEF ReserveSuccessor, p
<1>5. CASE FlushOutcomes(t)
  <2>1. CASE Goto(t, "register") /\ UNCHANGED <<target, run, outbox>>
    BY <1>5, <2>1, <1>s, GotoType DEF FlushOutcomes, TypeOK
  <2>2. CASE run' = [run EXCEPT ![The(t.resp)].exec = "failed"] /\ Errors(t, TRUE)
    <3>1. The(t.resp) \in Responses
      BY <1>5, TaskHas DEF FlushOutcomes, Reserving
    <3>2. run' \in [Responses -> Run]
      BY <2>2, <3>1, RunUpdate
    <3> QED BY <1>5, <2>2, <3>2, ErrorsType DEF FlushOutcomes, TypeOK
  <2> QED BY <1>5, <2>1, <2>2 DEF FlushOutcomes
<1>6. CASE Register(t)
  <2>1. CASE Close
    BY <2>1, CloseType
  <2>2. ASSUME NEW rs, NEW config \in Settings, rs \subseteq Responses,
               routes' = rs \cup {r},
               target' = [ReleaseInactive(target) EXCEPT ![r].lane = t.work.lane,
                            ![r].supported = config # "unsupported",
                            ![r].settings = config = "steerable"],
               run' = [run EXCEPT ![r].exec = "running"],
               Goto(t, IF t.work.parent = {} THEN "join" ELSE "publish"),
               UNCHANGED <<conn, expired, active, queue, creates, latest, cleanup, outbox,
                 told, fate>>
        PROVE  TypeOK'
    <3>1. r \in Responses
      BY <1>6, TaskHas DEF Register, Reserving, r
    <3>2. target' \in [Responses -> Target]
      <4> DEFINE tg == ReleaseInactive(target)
      <4>1. tg \in [Responses -> Target]
        BY ReleaseFacts DEF TypeOK
      <4> HIDE DEF tg
      <4>2. [[[tg[r] EXCEPT !.lane = t.work.lane] EXCEPT !.supported = config # "unsupported"]
              EXCEPT !.settings = config = "steerable"] \in Target
        BY <3>1, <4>1, <1>h DEF Target
      <4>3. target' = [[[tg EXCEPT ![r].lane = t.work.lane] EXCEPT ![r].supported =
              config # "unsupported"]
              EXCEPT ![r].settings = config = "steerable"]
        BY <2>2 DEF tg
      <4>4. target' = [tg EXCEPT ![r] = [[[tg[r] EXCEPT !.lane = t.work.lane]
                                            EXCEPT !.supported = config # "unsupported"]
              EXCEPT !.settings = config = "steerable"]]
        BY <3>1, <4>1, <4>3
      <4> QED BY <3>1, <4>1, <4>2, <4>4
    <3>3. run' \in [Responses -> Run]
      BY <2>2, <3>1, RunUpdate
    <3>4. tasks' \subseteq Task
      BY <2>2, <1>s, GotoType
    <3> QED BY <2>2, <3>1, <3>2, <3>3, <3>4 DEF TypeOK
  <2> DEFINE old  == {q \in routes : Terminal(q) /\ target[q].batch = {}}
             kept == IF Cardinality(routes) < MaxRoutes THEN {routes}
                       ELSE {routes \ {q} : q \in old}
  <2>3. \A rs \in kept : rs \subseteq Responses
    BY DEF TypeOK
  <2> HIDE DEF kept
  <2>4. CASE kept = {}
    BY <1>6, <2>1, <2>4 DEF Register, kept
  <2>5. CASE kept # {}
    <3>1. PICK rs \in kept, config \in Settings :
            /\ routes' = rs \cup {r}
            /\ target' = [ReleaseInactive(target) EXCEPT ![r].lane = t.work.lane,
                            ![r].supported = config # "unsupported",
                            ![r].settings = config = "steerable"]
            /\ run' = [run EXCEPT ![r].exec = "running"]
            /\ Goto(t, IF t.work.parent = {} THEN "join" ELSE "publish")
            /\ UNCHANGED <<conn, expired, active, queue, creates, latest, cleanup, outbox,
                 told, fate>>
      BY <1>6, <2>5 DEF Register, kept, r
    <3> QED BY <2>2, <2>3, <3>1
  <2> QED BY <2>4, <2>5
<1>7. CASE AwaitCreated(t)
  <2>1. p \in Responses
    BY <1>7, TaskHas DEF AwaitCreated, p
  <2>2. CASE CommitSuccessor(p) /\ Goto(t, "join") /\ UNCHANGED outbox
    <3>1. target' \in [Responses -> Target]
      BY <2>1, <2>2, ClosedFacts DEF TypeOK, CommitSuccessor
    <3> QED BY <1>7, <1>s, <2>2, <3>1, GotoType DEF AwaitCreated, TypeOK
  <2>3. CASE Errors(t, FALSE)
    BY <1>7, <2>3, ErrorsType DEF AwaitCreated, TypeOK
  <2>4. CASE Goto(t, "cancelled") /\ UNCHANGED <<target, outbox>>
    BY <1>7, <1>s, <2>4, GotoType DEF AwaitCreated, TypeOK
  <2> QED BY <1>7, <2>2, <2>3, <2>4 DEF AwaitCreated, p
<1>8. CASE JoinCancelled(t)
  <2>1. p \in Responses
    BY <1>8, TaskHas DEF JoinCancelled, p
  <2>2. CASE CommitSuccessor(p) /\ Goto(t, "finish") /\ UNCHANGED outbox
    <3>1. target' \in [Responses -> Target]
      BY <2>1, <2>2, ClosedFacts DEF TypeOK, CommitSuccessor
    <3> QED BY <1>8, <1>s, <2>2, <3>1, GotoType DEF JoinCancelled, TypeOK
  <2>3. CASE /\ FailSuccessor(p)
             /\ Become(t, [t EXCEPT !.pc = "failing", !.wait = {p}, !.fatal = ~t.work.auto])
    <3>1. [t EXCEPT !.pc = "failing", !.wait = {p}, !.fatal = ~t.work.auto] \in Task
      BY <1>h, <1>s, <2>1 DEF Task, Work
    <3> QED BY <1>8, <2>1, <2>3, <3>1, FailType DEF JoinCancelled, Become, TypeOK
  <2> QED BY <1>8, <2>2, <2>3 DEF JoinCancelled, p
<1>9. CASE JoinRun(t)
  <2>1. CASE Errors(t, run[r].exec = "aborted")
    BY <1>9, <2>1, ErrorsType DEF JoinRun, TypeOK
  <2>2. CASE Goto(t, "finish") /\ UNCHANGED <<target, outbox>>
    BY <1>9, <1>s, <2>2, GotoType DEF JoinRun, TypeOK
  <2> QED BY <1>9, <2>1, <2>2 DEF JoinRun, r
<1>10. CASE MarkReady(t)
  <2> DEFINE pin == IF latest[target[r].lane] = {r} THEN run[r].need ELSE "none"
             box == outbox[r] \o (IF pin = "input" THEN Events("pending",
                      Entries(target[r])) ELSE <<>>)
             new == [target EXCEPT ![r].phase = "Ready"]
             cut == IF Len(box) <= MaxOutcomes THEN box ELSE SubSeq(box, 1, MaxOutcomes)
  <2>1. r \in Responses /\ target[r] \in Target /\ Entries(target[r]) \in Seq(Steers)
    BY <1>10, TaskHas, EntriesType DEF MarkReady, TypeOK, r
  <2>2. pin \in {"none", "free", "input", "malformed"}
    BY <2>1 DEF TypeOK, Run
  <2>3. box \in Seq(Event) /\ MaxOutcomes \in Nat
    <3>1. Events("pending", Entries(target[r])) \in Seq(Event) /\ <<>> \in Seq(Event)
      BY <2>1, EventsType
    <3>2. outbox[r] \in Seq(Event)
      BY <2>1 DEF TypeOK
    <3>3. box \in Seq(Event)
      BY <3>1, <3>2
    <3> QED BY <3>3, Limits
  <2>4. cut \in Seq(Event)
    <3> HIDE DEF box
    <3>1. CASE Len(box) > MaxOutcomes
      <4>1. Len(box) \in Nat /\ 1 \in Nat
        BY <2>3
      <4>2. SubSeq(box, 1, MaxOutcomes) \in Seq(Event)
        BY <2>3, <3>1, <4>1
      <4> QED BY <3>1, <4>2
    <3> QED BY <2>3, <3>1
  <2>5. [t EXCEPT !.pc = "done", !.fatal = ~t.work.auto] \in Task
    BY <1>h, <1>s DEF Task, Work
  <2>6. CASE Goto(t, "check") /\ UNCHANGED <<target, outbox>>
    BY <1>10, <1>s, <2>6, GotoType DEF MarkReady, TypeOK
  <2>7. CASE target' = [new EXCEPT ![r].supported = FALSE] /\ Goto(t, "check") /\
               UNCHANGED outbox
    <3>1. target' \in [Responses -> Target]
      BY <2>1, <2>7 DEF TypeOK, Target
    <3> QED BY <1>10, <1>s, <2>7, <3>1, GotoType DEF MarkReady, TypeOK
  <2>8. CASE /\ ~Malformed(pin)
             /\ target' = [new EXCEPT ![r].batch = {[b EXCEPT !.pin = pin] : b \in @}]
             /\ outbox' = [outbox EXCEPT ![r] = cut]
             /\ IF Len(box) <= MaxOutcomes THEN Goto(t, "check")
                ELSE Become(t, [t EXCEPT !.pc = "done", !.fatal = ~t.work.auto])
    <3>1. {[b EXCEPT !.pin = pin] : b \in target[r].batch} \subseteq Batch
      BY <2>1, <2>2, <2>8 DEF Target, Batch, Malformed
    <3>2. target' \in [Responses -> Target]
      BY <2>1, <2>8, <3>1 DEF TypeOK, Target
    <3>3. outbox' \in [Responses -> Seq(Event)]
      BY <2>1, <2>4, <2>8 DEF TypeOK
    <3>4. tasks' \subseteq Task
      BY <2>5, <2>8, <1>s, GotoType DEF Become, TypeOK
    <3> QED BY <1>10, <3>2, <3>3, <3>4 DEF MarkReady, TypeOK
  <2> QED BY <1>10, <2>6, <2>7, <2>8 DEF MarkReady, r
<1>11. CASE CheckParent(t)
  <2>1. r \in Responses
    BY <1>11, TaskHas DEF CheckParent, r
  <2>2. CASE /\ FailSuccessor(r)
             /\ Become(t, [t EXCEPT !.pc = "failing", !.wait = {r}, !.fatal = ~t.work.auto])
    <3>1. [t EXCEPT !.pc = "failing", !.wait = {r}, !.fatal = ~t.work.auto] \in Task
      BY <1>h, <1>s, <2>1 DEF Task, Work
    <3> QED BY <1>11, <2>1, <2>2, <3>1, FailType DEF CheckParent, Become, TypeOK
  <2>3. CASE Goto(t, "done") /\ UNCHANGED <<target, outbox>>
    BY <1>11, <1>s, <2>3, GotoType DEF CheckParent, TypeOK
  <2> QED BY <1>11, <2>2, <2>3 DEF CheckParent, r
<1>12. CASE Failed(t)
  <2>1. [t EXCEPT !.pc = "done", !.fatal = FALSE] \in Task
    BY <1>h, <1>s DEF Task
  <2>2. tasks' \subseteq Task
    BY <1>12, <1>s, <2>1, GotoType DEF Failed, Become, TypeOK
  <2> QED BY <1>12, <2>2 DEF Failed, TypeOK
<1> QED BY <1>1, <1>2, <1>3, <1>4, <1>5, <1>6, <1>7, <1>8, <1>9, <1>10, <1>11, <1>12
        DEF TaskStep

(* Admission: a lane's queue, or a task of its own.                        *)
LEMMA ScheduleType ==
    ASSUME TypeOK, NEW w \in Work, Schedule(w)
    PROVE  tasks' \subseteq Task /\ active' \subseteq Lanes /\ queue' \in [Lanes -> Seq(Work)]
<1>1. w.lane \in Lanes /\ Spawned(w) \in Task
  BY SpawnedType DEF Work
<1>2. queue[w.lane] \in Seq(Work)
  BY <1>1 DEF TypeOK
<1>3. Append(queue[w.lane], w) \in Seq(Work)
  BY <1>2
<1>4. [queue EXCEPT ![w.lane] = Append(queue[w.lane], w)] \in [Lanes -> Seq(Work)]
  BY <1>1, <1>3 DEF TypeOK
<1>5. tasks \cup {Spawned(w)} \subseteq Task /\ active \cup {w.lane} \subseteq Lanes
  BY <1>1 DEF TypeOK
<1> HIDE DEF Spawned
<1> QED BY <1>4, <1>5 DEF Schedule, TypeOK

(* A refused automatic admission keeps the shapes of targets and workers.  *)
LEMMA FailAutomaticType ==
    ASSUME TypeOK, NEW tg \in [Responses -> Target], NEW r \in Responses, FailAutomatic(tg, r)
    PROVE  target' \in [Responses -> Target] /\ cleanup' \subseteq Responses
<1>1. [tg[r] EXCEPT !.phase = "Closed"] \in Target
  BY DEF Target
<1>2. \A q \in Responses : (IF q = r THEN [tg[q] EXCEPT !.phase = "Closed"]
        ELSE tg[q]) \in Target
  BY <1>1
<1>3. target' \in [Responses -> Target]
  BY <1>2 DEF FailAutomatic
<1> QED BY <1>3 DEF FailAutomatic, TypeOK

(* The end of a task.                                                      *)
LEMMA FinishType ==
    ASSUME TypeOK, NEW t \in tasks, Finish(t)
    PROVE  TypeOK'
<1>1. CASE Close
  BY <1>1, CloseType
<1> DEFINE l == t.work.lane
           ts == tasks \ {t}
<1>2. l \in Lanes /\ ts \subseteq Task
  BY DEF TypeOK, Task, Work
<1> HIDE DEF l, ts
<1>3. CASE /\ tasks' = ts
           /\ UNCHANGED <<conn, expired, active, queue, creates, latest, routes, cleanup,
                target, run, outbox, told, fate>>
  BY <1>2, <1>3 DEF TypeOK
<1>4. CASE /\ queue[l] # <<>>
           /\ tasks' = ts \cup {Spawned(Head(queue[l]))}
           /\ queue' = [queue EXCEPT ![l] = Tail(@)]
           /\ UNCHANGED <<conn, expired, active, creates, latest, routes, cleanup, target,
                run, outbox, told, fate>>
  <2>1. Head(queue[l]) \in Work /\ Tail(queue[l]) \in Seq(Work)
    BY <1>2, <1>4 DEF TypeOK
  <2>2. Spawned(Head(queue[l])) \in Task
    BY <2>1, SpawnedType
  <2>3. tasks' \subseteq Task /\ queue' \in [Lanes -> Seq(Work)]
    BY <1>2, <1>4, <2>1, <2>2 DEF TypeOK
  <2> QED BY <1>4, <2>3 DEF TypeOK
<1>5. CASE /\ tasks' = ts
           /\ active' = active \ {l}
           /\ UNCHANGED <<conn, expired, queue, creates, latest, routes, cleanup, target,
                run, outbox, told, fate>>
  BY <1>2, <1>5 DEF TypeOK
<1>6. ASSUME NEW r \in AutoReady(target, l),
             IF HasCapacity(ts)
             THEN tasks' = ts \cup {Spawned(AutoWork(r))} /\
               UNCHANGED <<active, cleanup, target>>
             ELSE tasks' = ts /\ active' = active \ {l} /\ FailAutomatic(target, r),
             UNCHANGED <<conn, expired, queue, creates, latest, routes, run, outbox, told,
               fate>>
      PROVE  TypeOK'
  <2>1. r \in Responses
    BY DEF AutoReady, TypeOK
  <2>2. Spawned(AutoWork(r)) \in Task
    BY <2>1, AutoType, SpawnedType
  <2>3. tasks' \subseteq Task /\ active' \subseteq Lanes
    BY <1>2, <1>6, <2>2 DEF TypeOK
  <2>4. target' \in [Responses -> Target] /\ cleanup' \subseteq Responses
    BY <1>6, <2>1, FailAutomaticType DEF TypeOK
  <2> QED BY <1>6, <2>3, <2>4 DEF TypeOK
<1> QED BY <1>1, <1>3, <1>4, <1>5, <1>6 DEF Finish, ScheduleNext, l, ts

(* A request.                                                              *)
LEMMA CreateType ==
    ASSUME TypeOK, NEW l \in Lanes, NEW prev \in SUBSET Responses, NEW bad \in BOOLEAN,
           Create(l, prev, bad)
    PROVE  TypeOK'
<1>1. CASE Close
  BY <1>1, CloseType
<1> DEFINE w == [lane |-> l, prev |-> prev, parent |-> {}, auto |-> FALSE, bad |-> bad]
<1>2. w \in Work
  BY DEF Work
<1>3. Attach(w) \in Work
  BY <1>2, AttachFacts
<1> HIDE DEF w
<1>4. ASSUME NEW v \in Work, Schedule(v), creates' = creates + 1, creates < MaxCreates,
             UNCHANGED <<conn, expired, latest, routes, cleanup, target, run, outbox, told,
               fate>>
      PROVE  TypeOK'
  <2>1. creates' \in 0 .. MaxCreates
    BY <1>4, Limits DEF TypeOK
  <2>2. tasks' \subseteq Task /\ active' \subseteq Lanes /\ queue' \in [Lanes -> Seq(Work)]
    BY <1>4, ScheduleType
  <2> QED BY <1>4, <2>1, <2>2 DEF TypeOK
<1> QED BY <1>1, <1>2, <1>3, <1>4 DEF Create, w

(* The settings of an update, and the automatic successors it lets start.  *)
LEMMA ScheduleReadyType ==
    ASSUME TypeOK, NEW tg \in [Responses -> Target], NEW box \in [Responses -> Seq(Event)],
           NEW told1 \in [Steers -> {"nothing", "accepted", "failed", "rejected", "barrier"}],
           NEW fate1 \in [Steers -> {"unsent", "refused", "owned"}],
           ScheduleReady(tg, box, told1, fate1)
    PROVE  TypeOK'
<1>1. CASE Close
  BY <1>1, CloseType
<1> DEFINE ready == {l \in Lanes \ active : AutoReady(tg, l) # {}}
           free  == MaxOutstanding - (Cardinality(tasks) + Queued)
<1>2. CASE ~Close
  <2>1. PICK pick \in [ready -> routes] :
          /\ outbox' = box /\ told' = told1 /\ fate' = fate1
          /\ \E fit \in SUBSET ready :
               /\ IF Cardinality(ready) <= free
                  THEN fit = ready /\ target' = tg /\ UNCHANGED cleanup
                  ELSE \E l \in ready \ fit : FailAutomatic(tg, pick[l])
               /\ active' = active \cup fit
               /\ tasks' = tasks \cup {Spawned(AutoWork(pick[l])) : l \in fit}
          /\ UNCHANGED <<conn, expired, queue, creates, latest, routes, run>>
    BY <1>2 DEF ScheduleReady
  <2> HIDE DEF free
  <2>2. PICK fit \in SUBSET ready :
          /\ IF Cardinality(ready) <= free
             THEN fit = ready /\ target' = tg /\ UNCHANGED cleanup
             ELSE \E l \in ready \ fit : FailAutomatic(tg, pick[l])
          /\ active' = active \cup fit
          /\ tasks' = tasks \cup {Spawned(AutoWork(pick[l])) : l \in fit}
    BY <2>1
  <2>3. \A l \in ready : pick[l] \in Responses /\ l \in Lanes
    BY <2>1 DEF TypeOK
  <2>4. \A l \in fit : Spawned(AutoWork(pick[l])) \in Task
    BY <2>3, AutoType, SpawnedType
  <2>5. tasks' \subseteq Task /\ active' \subseteq Lanes
    BY <2>2, <2>3, <2>4 DEF TypeOK
  <2>6. target' \in [Responses -> Target] /\ cleanup' \subseteq Responses
    <3>1. \A l \in ready : FailAutomatic(tg, pick[l]) =>
            target' \in [Responses -> Target] /\ cleanup' \subseteq Responses
      BY <2>3, FailAutomaticType
    <3> QED BY <2>2, <3>1 DEF TypeOK
  <2> HIDE DEF ready
  <2> QED BY <2>1, <2>5, <2>6 DEF TypeOK
<1> QED BY <1>1, <1>2

(* A target that accepts has a legible obligation.                         *)
LEMMA AcceptsLegible ==
    ASSUME TypeOK, TargetInv, NEW r \in Responses, Accepts(ReleaseInactive(target), r)
    PROVE  run[r].need # "malformed" \/ target[r].batch # {} \/ target[r].phase = "Running"
<1>1. /\ ReleaseInactive(target)[r].lane = target[r].lane
      /\ ReleaseInactive(target)[r].phase = target[r].phase
      /\ ReleaseInactive(target)[r].supported = target[r].supported
      /\ ReleaseInactive(target)[r].batch = target[r].batch
  BY ReleaseFacts DEF TypeOK
<1> QED BY <1>1 DEF Accepts, TargetInv, TargetOK

(* A steer, accepted or refused, with the admissions that follow it, is    *)
(* type correct.                                                           *)
LEMMA SteerType ==
    ASSUME TypeOK, TargetInv, NEW s \in Steers, NEW r \in Responses, Steer(s, r)
    PROVE  TypeOK'
<1>1. CASE Close
  BY <1>1, CloseType
<1> DEFINE tg     == ReleaseInactive(target)
           ok     == r \in routes /\ Accepts(tg, r)
           new    == [tg EXCEPT ![r].batch = Accepted(tg, r, s)]
           notify == IF ~ok THEN Events("rejected", <<s>>)
                     ELSE IF \E b \in new[r].batch : b.pin = "input"
                     THEN Events("accepted", <<s>>) \o Events("pending", <<s>>)
                     ELSE Events("accepted", <<s>>)
           box    == [outbox EXCEPT ![r] = @ \o notify]
<1>2. tg \in [Responses -> Target] /\ tg[r].phase = target[r].phase /\
        tg[r].batch = target[r].batch
  BY ReleaseFacts DEF TypeOK
<1> HIDE DEF tg
<1>3. ok => new \in [Responses -> Target]
  <2> SUFFICES ASSUME ok PROVE new \in [Responses -> Target]
    OBVIOUS
  <2>1. Accepted(tg, r, s) \subseteq Batch
    BY <1>2, AcceptsLegible, AcceptedType DEF tg
  <2> QED BY <1>2, <2>1 DEF Target
<1>4. notify \in Seq(Event)
  <2>1. <<s>> \in Seq(Steers)
    OBVIOUS
  <2>2. /\ Events("rejected", <<s>>) \in Seq(Event) /\ Events("accepted", <<s>>) \in Seq(Event)
        /\ Events("pending", <<s>>) \in Seq(Event)
    BY <2>1, EventsType
  <2> HIDE DEF new, ok
  <2> QED BY <2>2
<1> HIDE DEF notify, new, ok
<1>5. box \in [Responses -> Seq(Event)]
  BY <1>4 DEF TypeOK
<1>6. /\ [told EXCEPT ![s] = "rejected"] \in [Steers -> {"nothing", "accepted", "failed",
           "rejected", "barrier"}]
      /\ \A f \in {"refused", "owned"} : [fate EXCEPT ![s] = f] \in [Steers -> {"unsent",
           "refused", "owned"}]
  BY DEF TypeOK
<1>7. CASE ScheduleReady(tg, outbox, [told EXCEPT ![s] = "rejected"],
             [fate EXCEPT ![s] = "refused"])
  BY <1>2, <1>6, <1>7, ScheduleReadyType DEF TypeOK
<1>8. CASE ScheduleReady(IF ok THEN new ELSE tg, box, told,
             [fate EXCEPT ![s] = IF ok THEN "owned" ELSE "refused"])
  <2>1. (IF ok THEN new ELSE tg) \in [Responses -> Target]
    BY <1>2, <1>3
  <2>2. [fate EXCEPT ![s] = IF ok THEN "owned" ELSE "refused"] \in [Steers -> {"unsent",
          "refused", "owned"}]
    BY <1>6
  <2> QED BY <1>5, <1>8, <2>1, <2>2, ScheduleReadyType DEF TypeOK
<1> QED BY <1>1, <1>7, <1>8 DEF Steer, tg, ok, new, notify, box

(* Executions and workers.                                                 *)
LEMMA RunType ==
    ASSUME TypeOK, NEW r \in Responses,
           PublishCreated(r) \/ EndRun(r) \/ LoseRelay(r) \/ Emit(r) \/ CleanUp(r)
    PROVE  TypeOK'
<1>1. CASE PublishCreated(r)
  <2>1. run' \in [Responses -> Run]
    BY <1>1, RunUpdate DEF PublishCreated
  <2> QED BY <1>1, <2>1 DEF PublishCreated, TypeOK, laneVars, steerVars
<1>2. CASE EndRun(r)
  <2>1. target[r].lane \in Lanes /\ run[r] \in Run
    BY DEF TypeOK, Target
  <2>2. run' \in [Responses -> Run]
    <3>1. \A e \in {"failed", "aborted"} : [run[r] EXCEPT !.exec = e] \in Run
      BY <2>1 DEF Run
    <3>2. \A need \in {"free", "input", "malformed"} :
            [[run[r] EXCEPT !.exec = "committed"] EXCEPT !.need = need] \in Run
      BY <2>1 DEF Run
    <3>3. CASE \E e \in {"failed", "aborted"} : run' = [run EXCEPT ![r].exec = e]
      BY <3>1, <3>3 DEF TypeOK
    <3>4. CASE \E need \in {"free", "input", "malformed"} :
                 run' = [run EXCEPT ![r].exec = "committed", ![r].need = need]
      <4>1. PICK need \in {"free", "input", "malformed"} :
              run' = [run EXCEPT ![r].exec = "committed", ![r].need = need]
        BY <3>4
      <4>2. run' = [run EXCEPT ![r] =
                      [[run[r] EXCEPT !.exec = "committed"] EXCEPT !.need = need]]
        BY <4>1 DEF TypeOK
      <4> QED BY <3>2, <4>2 DEF TypeOK
    <3> QED BY <1>2, <3>3, <3>4 DEF EndRun
  <2>3. latest' \in [Lanes -> SUBSET Responses]
    <3>1. latest[target[r].lane] \subseteq Responses
      BY <2>1 DEF TypeOK
    <3>2. \A kept \in {{}, {r}, latest[target[r].lane]} :
            [latest EXCEPT ![target[r].lane] = kept] \in [Lanes -> SUBSET Responses]
      BY <2>1, <3>1 DEF TypeOK
    <3>3. latest' = latest \/ \E kept \in {{}, {r}, latest[target[r].lane]} :
                                latest' = [latest EXCEPT ![target[r].lane] = kept]
      BY <1>2 DEF EndRun
    <3> QED BY <3>2, <3>3 DEF TypeOK
  <2> QED BY <1>2, <2>2, <2>3 DEF EndRun, TypeOK, laneVars, steerVars
<1>3. CASE LoseRelay(r)
  <2>1. run' \in [Responses -> Run]
    BY <1>3, RunUpdate DEF LoseRelay
  <2> QED BY <1>3, <2>1 DEF LoseRelay, TypeOK, laneVars, steerVars
<1>4. CASE Emit(r)
  <2>1. outbox[r] \in Seq(Event) /\ outbox[r] # <<>>
    BY <1>4 DEF Emit, TypeOK
  <2>2. Head(outbox[r]) \in Event /\ Tail(outbox[r]) \in Seq(Event)
    BY <2>1
  <2>3. told' \in [Steers -> {"nothing", "accepted", "failed", "rejected", "barrier"}]
    BY <1>4, <2>2 DEF Emit, TypeOK, Event
  <2>4. outbox' \in [Responses -> Seq(Event)]
    BY <1>4, <2>2 DEF Emit, TypeOK
  <2> QED BY <1>4, <2>3, <2>4 DEF Emit, TypeOK, laneVars
<1>5. CASE CleanUp(r)
  <2>1. target' \in [Responses -> Target] /\ outbox' \in [Responses -> Seq(Event)]
    BY <1>5, FailType DEF CleanUp, TypeOK
  <2> QED BY <1>5, <2>1 DEF CleanUp, TypeOK, laneVars, steerVars
<1> QED BY <1>1, <1>2, <1>3, <1>4, <1>5

(* Every step keeps the types.                                             *)
LEMMA TypeStep == TypeOK /\ TaskInv /\ TargetInv /\ [Next]_vars => TypeOK'
<1> SUFFICES ASSUME TypeOK, TaskInv, TargetInv, [Next]_vars PROVE TypeOK'
  OBVIOUS
<1>1. ASSUME NEW l \in Lanes, NEW prev \in SUBSET Responses, NEW bad \in BOOLEAN, Create(l,
               prev, bad)
      PROVE  TypeOK'
  BY <1>1, CreateType
<1>2. ASSUME NEW s \in Steers, NEW r \in Responses, Steer(s, r) PROVE TypeOK'
  BY <1>2, SteerType
<1>3. ASSUME NEW t \in tasks, TaskStep(t) PROVE TypeOK'
  BY <1>3, TaskType, FinishType
<1>4. ASSUME NEW r \in Responses,
             PublishCreated(r) \/ EndRun(r) \/ LoseRelay(r) \/ Emit(r) \/ CleanUp(r)
      PROVE  TypeOK'
  BY <1>4, RunType
<1>5. CASE ExpireRoutes
  <2>1. target' \in [Responses -> Target] /\ routes' \subseteq Responses
    BY <1>5, ReleaseFacts DEF ExpireRoutes, TypeOK
  <2> QED BY <1>5, <2>1 DEF ExpireRoutes, TypeOK, laneVars, steerVars
<1>6. CASE Expire
  BY <1>6 DEF Expire, TypeOK
<1>7. CASE Disconnect \/ RelayFailed \/ Drained
  BY <1>7, CloseType DEF Disconnect, RelayFailed, Drained
<1>8. CASE BeginDraining
  <2>1. <<>> \in Seq(Work)
    OBVIOUS
  <2>2. NoWork \in [Lanes -> Seq(Work)]
    BY <2>1 DEF NoWork
  <2> QED BY <1>8, <2>2 DEF BeginDraining, TypeOK
<1>9. CASE UNCHANGED vars
  BY <1>9 DEF vars, TypeOK
<1> QED BY <1>1, <1>2, <1>3, <1>4, <1>5, <1>6, <1>7, <1>8, <1>9 DEF Next

-----------------------------------------------------------------------------
(* Lanes *)

(* The queued work, lane by lane, within the limit.                        *)
Slots(q) == {x \in Lanes \X (1 .. MaxOutstanding) : x[2] <= Len(q[x[1]])}

(* There are finitely many queued slots.                                   *)
LEMMA SlotsFinite ==
    ASSUME NEW q
    PROVE  IsFiniteSet(Slots(q)) /\ Cardinality(Slots(q)) \in Nat
<1>1. IsFiniteSet(Lanes) /\ IsFiniteSet(1 .. MaxOutstanding)
  <2>1. MaxOutstanding \in Int /\ 1 \in Int
    BY Limits
  <2>2. IsFiniteSet(1 .. MaxOutstanding)
    BY <2>1, FS_Interval
  <2> QED BY <2>2, ConstantsAssumption DEF ConstantsOK
<1>2. IsFiniteSet(Lanes \X (1 .. MaxOutstanding))
  BY <1>1, FS_Product
<1>3. Slots(q) \in SUBSET (Lanes \X (1 .. MaxOutstanding))
  BY DEF Slots
<1> QED BY <1>2, <1>3, FS_Subset, FS_CardinalityType

(* One more piece of work in a queue that has room takes one more slot.    *)
LEMMA SlotsAppend ==
    ASSUME NEW q \in [Lanes -> Seq(Work)], NEW l \in Lanes, NEW w \in Work,
           Len(q[l]) < MaxOutstanding
    PROVE  Cardinality(Slots([q EXCEPT ![l] = Append(@, w)])) = Cardinality(Slots(q)) + 1
<1> DEFINE q1 == [q EXCEPT ![l] = Append(q[l], w)]
           new == <<l, Len(q[l]) + 1>>
<1>1. Len(q[l]) \in Nat /\
        \A k \in Lanes : Len(q1[k]) = IF k = l THEN Len(q[l]) + 1 ELSE Len(q[k])
  OBVIOUS
<1> HIDE DEF q1
<1>2. ASSUME NEW x \in Lanes \X (1 .. MaxOutstanding)
      PROVE  x[2] <= Len(q1[x[1]]) <=> x[2] <= Len(q[x[1]]) \/ x = new
  <2>1. PICK k \in Lanes, i \in 1 .. MaxOutstanding : x = <<k, i>>
    OBVIOUS
  <2>2. Len(q[k]) \in Nat /\ i \in Int
    OBVIOUS
  <2>3. i <= Len(q1[k]) <=> i <= Len(q[k]) \/ (k = l /\ i = Len(q[k]) + 1)
    BY <1>1, <2>2
  <2> QED BY <2>1, <2>3
<1>3. new \in Lanes \X (1 .. MaxOutstanding)
  BY <1>1, Limits
<1>4. Slots(q1) = Slots(q) \cup {new}
  BY <1>2, <1>3 DEF Slots
<1>5. new \notin Slots(q)
  BY <1>1 DEF Slots
<1>6. IsFiniteSet(Slots(q))
  BY SlotsFinite
<1>7. Cardinality(Slots(q) \cup {new}) = Cardinality(Slots(q)) + 1
  BY ONLY <1>5, <1>6, FS_AddElement
<1> QED BY ONLY <1>4, <1>7 DEF q1

(* One piece less frees one slot.                                          *)
LEMMA SlotsTail ==
    ASSUME NEW q \in [Lanes -> Seq(Work)], NEW l \in Lanes, q[l] # <<>>,
           Len(q[l]) <= MaxOutstanding
    PROVE  Cardinality(Slots([q EXCEPT ![l] = Tail(@)])) = Cardinality(Slots(q)) - 1
<1> DEFINE q1 == [q EXCEPT ![l] = Tail(q[l])]
           old == <<l, Len(q[l])>>
<1>1. /\ Len(q[l]) \in Nat \ {0}
      /\ \A k \in Lanes : Len(q1[k]) = IF k = l THEN Len(q[l]) - 1 ELSE Len(q[k])
  OBVIOUS
<1> HIDE DEF q1
<1>2. ASSUME NEW x \in Lanes \X (1 .. MaxOutstanding)
      PROVE  x[2] <= Len(q1[x[1]]) <=> x[2] <= Len(q[x[1]]) /\ x # old
  <2>1. PICK k \in Lanes, i \in 1 .. MaxOutstanding : x = <<k, i>>
    OBVIOUS
  <2>2. Len(q[k]) \in Nat /\ i \in Int
    OBVIOUS
  <2>3. i <= Len(q1[k]) <=> i <= Len(q[k]) /\ ~(k = l /\ i = Len(q[k]))
    BY <1>1, <2>2
  <2> QED BY <2>1, <2>3
<1>3. old \in Slots(q)
  BY <1>1, Limits DEF Slots
<1>4. Slots(q1) = Slots(q) \ {old}
  BY <1>2, <1>3 DEF Slots
<1>5. IsFiniteSet(Slots(q))
  BY SlotsFinite
<1>6. Cardinality(Slots(q) \ {old}) = Cardinality(Slots(q)) - 1
  BY ONLY <1>3, <1>5, FS_RemoveElement
<1> QED BY ONLY <1>4, <1>6 DEF q1

(* A queue is no longer than everything that is queued.                    *)
LEMMA SlotsBound ==
    ASSUME NEW q \in [Lanes -> Seq(Work)], NEW l \in Lanes, Len(q[l]) <= MaxOutstanding
    PROVE  Len(q[l]) <= Cardinality(Slots(q))
<1> DEFINE n == Len(q[l])
<1>1. n \in Nat
  OBVIOUS
<1> HIDE DEF n
<1>2. IsFiniteSet(1 .. n) /\ Cardinality(1 .. n) = n
  BY <1>1, FS_Interval
<1>3. IsFiniteSet({l}) /\ Cardinality({l}) = 1
  BY FS_Singleton
<1>4. Cardinality({l} \X (1 .. n)) = n
  <2>1. Cardinality({l} \X (1 .. n)) = Cardinality({l}) * Cardinality(1 .. n)
    BY <1>2, <1>3, FS_Product
  <2> QED BY <1>1, <1>2, <1>3, <2>1
<1>5. {l} \X (1 .. n) \in SUBSET Slots(q)
  BY <1>1, Limits DEF Slots, n
<1> QED BY <1>4, <1>5, SlotsFinite, FS_Subset DEF n

(* Empty queues have no slot.                                              *)
LEMMA SlotsEmpty == Cardinality(Slots(NoWork)) = 0
<1>1. \A l \in Lanes : Len(NoWork[l]) = 0
  BY DEF NoWork
<1>2. Slots(NoWork) = {}
  BY <1>1, Limits DEF Slots
<1> QED BY <1>2, FS_EmptySet

(* Queued counts the slots, before and after a step.                       *)
LEMMA QueuedSlots == Queued = Cardinality(Slots(queue)) /\ Queued' = Cardinality(Slots(queue'))
BY DEF Queued, Slots

(* A task that goes on stays the one task of its lane.                     *)
LEMMA LaneBecome ==
    ASSUME LaneInv, NEW t \in tasks, NEW u, Become(t, u), u.work = t.work,
           UNCHANGED <<conn, active, queue>>
    PROVE  LaneInv'
<1>1. /\ IsFiniteSet(tasks')
      /\ Cardinality(tasks') <= Cardinality(tasks) /\ Cardinality(tasks') \in Nat
      /\ Cardinality(tasks) \in Nat
  <2>1. IsFiniteSet(tasks \ {t}) /\ Cardinality(tasks \ {t}) = Cardinality(tasks) - 1
    BY FS_RemoveElement DEF LaneInv
  <2>2. /\ IsFiniteSet((tasks \ {t}) \cup {u})
        /\ Cardinality((tasks \ {t}) \cup {u}) <= Cardinality(tasks \ {t}) + 1
    <3>1. Cardinality(tasks \ {t}) \in Nat
      BY <2>1, FS_CardinalityType
    <3>2. IsFiniteSet(tasks \ {t})
      BY <2>1
    <3>3. LET T == tasks \ {t}
          IN  /\ IsFiniteSet(T \cup {u})
              /\ Cardinality(T \cup {u}) = IF u \in T THEN Cardinality(T) ELSE Cardinality(T) + 1
      BY ONLY <3>2, FS_AddElement
    <3> QED BY ONLY <3>1, <3>3
  <2> QED BY <2>1, <2>2, FS_CardinalityType DEF Become, LaneInv
<1>2. LaneSerial'
  <2>1. \A v \in tasks' : v = u \/ (v \in tasks /\ v # t)
    BY DEF Become
  <2>2. u \in tasks'
    BY DEF Become
  <2>3. {v.work.lane : v \in tasks'} = {v.work.lane : v \in tasks}
    BY DEF Become
  <2> QED BY <2>1, <2>3 DEF LaneInv, LaneSerial
<1>3. Queued' = Queued /\ Queued \in Nat
  BY QueuedSlots, SlotsFinite
<1> QED BY <1>1, <1>2, <1>3, Limits DEF LaneInv, OutstandingBounded

(* The limit and the lanes of tasks depend on nothing else.                *)
LEMMA LaneSame ==
    ASSUME LaneInv, UNCHANGED <<conn, active, queue, tasks>>
    PROVE  LaneInv'
BY DEF LaneInv, LaneSerial, OutstandingBounded, Queued

(* A closed connection has no work left.                                   *)
LEMMA LaneClose ==
    ASSUME Close
    PROVE  LaneInv'
<1>1. tasks' = {} /\ queue' = NoWork /\ conn' = "closed"
  BY DEF Close
<1>2. Queued' = 0
  BY <1>1, QueuedSlots, SlotsEmpty
<1>3. \A l \in Lanes : Len(NoWork[l]) = 0 /\ 1 .. Len(NoWork[l]) = {}
  BY DEF NoWork
<1> QED BY <1>1, <1>2, <1>3, Limits, FS_EmptySet DEF LaneInv, LaneSerial, OutstandingBounded

(* Whatever a task does but end, it closes the connection or goes on as    *)
(* the task of its lane.                                                   *)
LEMMA TaskGoesOn ==
    ASSUME TypeOK, TaskInv, NEW t \in tasks, TaskStep(t), ~Finish(t)
    PROVE  Close \/ (/\ \E u : u.work = t.work /\ Become(t, u)
                     /\ UNCHANGED <<conn, expired, active, queue, creates>>)
<1>t. t \in Task
  BY DEF TypeOK
<1>1. ASSUME NEW pc, Goto(t, pc) PROVE \E u : u.work = t.work /\ Become(t, u)
  BY <1>t, <1>1 DEF Goto, Task
<1>2. ASSUME NEW f, Errors(t, f) PROVE \E u : u.work = t.work /\ Become(t, u)
  BY <1>t, <1>2 DEF Errors, Task
<1>3. ASSUME NEW pc, NEW e, StartGated(t, pc, e) PROVE \E u : u.work = t.work /\ Become(t, u)
  BY <1>t, <1>3 DEF StartGated, Task
<1>4. ASSUME NEW pc, NEW snap, NEW wait, NEW fatal,
             \/ Become(t, [t EXCEPT !.pc = pc, !.snap = snap])
             \/ Become(t, [t EXCEPT !.pc = pc, !.fatal = fatal])
             \/ Become(t, [t EXCEPT !.pc = pc, !.wait = wait, !.fatal = fatal])
      PROVE  \E u : u.work = t.work /\ Become(t, u)
  BY <1>t, <1>4 DEF Task
<1>5. CASE Dispatch(t)
  BY <1>1, <1>5 DEF Dispatch
<1>6. CASE PrepareFresh(t)
  BY <1>2, <1>3, <1>6 DEF PrepareFresh
<1>7. CASE PrepareSuccessor(t)
  BY <1>2, <1>4, <1>7 DEF PrepareSuccessor
<1>8. CASE ReserveSuccessor(t)
  BY <1>1, <1>2, <1>3, <1>8 DEF ReserveSuccessor
<1>9. CASE FlushOutcomes(t)
  BY <1>1, <1>2, <1>9 DEF FlushOutcomes
<1>10. CASE Register(t)
  BY <1>1, <1>10 DEF Register
<1>11. CASE AwaitCreated(t)
  BY <1>1, <1>2, <1>11 DEF AwaitCreated
<1>12. CASE JoinCancelled(t)
  BY <1>1, <1>4, <1>12 DEF JoinCancelled, Goto
<1>13. CASE JoinRun(t)
  BY <1>1, <1>2, <1>13 DEF JoinRun
<1>14. CASE MarkReady(t)
  BY <1>1, <1>4, <1>14 DEF MarkReady
<1>15. CASE CheckParent(t)
  BY <1>1, <1>4, <1>15 DEF CheckParent, Goto
<1>16. CASE Failed(t)
  BY <1>1, <1>4, <1>16 DEF Failed
<1> QED BY <1>5, <1>6, <1>7, <1>8, <1>9, <1>10, <1>11, <1>12, <1>13, <1>14, <1>15, <1>16
        DEF TaskStep

(* A spawned task is one of the work's lane.                               *)
LEMMA SpawnedFacts ==
    ASSUME TypeOK, NEW w \in Work
    PROVE  /\ Spawned(w) \in Task /\ Spawned(w).work = Attach(w) /\
                Spawned(w).work.lane = w.lane
           /\ Spawned(w).pc = "spawned" /\ Spawned(w).resp = {}
BY SpawnedType, AttachFacts DEF Spawned

(* Admission, and queueing behind a running task, keep lanes serial and    *)
(* within the limit.                                                       *)
LEMMA ScheduleLane ==
    ASSUME TypeOK, LaneInv, NEW w \in Work, Schedule(w), conn = "open", UNCHANGED conn
    PROVE  LaneInv'
<1> DEFINE new == Spawned(w)
<1>1. new.work.lane = w.lane /\ w.lane \in Lanes
  BY SpawnedFacts DEF Work
<1>2. /\ Cardinality(tasks) \in Nat /\ Queued \in Nat
      /\ queue \in [Lanes -> Seq(Work)] /\ Len(queue[w.lane]) \in Nat
  BY <1>1, FS_CardinalityType, QueuedSlots, SlotsFinite DEF LaneInv, TypeOK
<1>3. CASE UNCHANGED <<active, queue, tasks>>
  BY <1>3, LaneSame
<1>4. CASE /\ HasCapacity(tasks) /\ w.lane \in active
           /\ queue' = [queue EXCEPT ![w.lane] = Append(@, w)] /\ UNCHANGED <<active, tasks>>
  <2>1. Len(queue[w.lane]) < MaxOutstanding
    <3>1. Len(queue[w.lane]) <= Queued
      BY <1>1, <1>2, SlotsBound, QueuedSlots DEF LaneInv
    <3> QED BY <1>2, <1>4, <3>1, Limits DEF HasCapacity
  <2>2. Queued' = Queued + 1
    BY <1>1, <1>2, <1>4, <2>1, SlotsAppend, QueuedSlots
  <2>3. \A l \in Lanes : /\ Len(queue'[l]) <= MaxOutstanding
                         /\ \A i \in 1 .. Len(queue'[l]) : queue'[l][i].lane = l
    <3> SUFFICES ASSUME NEW l \in Lanes
                 PROVE  /\ Len(queue'[l]) <= MaxOutstanding
                        /\ \A i \in 1 .. Len(queue'[l]) : queue'[l][i].lane = l
      OBVIOUS
    <3>1. CASE l # w.lane
      BY <1>2, <1>4, <3>1 DEF LaneInv
    <3>2. CASE l = w.lane
      <4>1. queue'[l] = Append(queue[l], w)
        BY <1>2, <1>4, <3>2
      <4>2. queue[l] \in Seq(Work) /\ \A i \in 1 .. Len(queue[l]) : queue[l][i].lane = l
        BY <1>2 DEF LaneInv
      <4> QED BY <2>1, <3>2, <4>1, <4>2, Limits
    <3> QED BY <3>1, <3>2
  <2> QED BY <1>2, <1>4, <2>2, <2>3, Limits DEF LaneInv, LaneSerial, OutstandingBounded,
             HasCapacity
<1>5. CASE /\ HasCapacity(tasks) /\ w.lane \notin active
           /\ active' = active \cup {w.lane} /\ tasks' = tasks \cup {new} /\ UNCHANGED queue
  <2> HIDE DEF new
  <2>1. IsFiniteSet(tasks') /\ Cardinality(tasks') \in Nat /\
          Cardinality(tasks') <= Cardinality(tasks) + 1
    <3>1. IsFiniteSet(tasks \cup {new}) /\
            Cardinality(tasks \cup {new}) <= Cardinality(tasks) + 1
      <4>1. IsFiniteSet(tasks) /\ Cardinality(tasks) \in Nat
        BY <1>2 DEF LaneInv
      <4>2. IsFiniteSet(tasks \cup {new})
            /\ Cardinality(tasks \cup {new}) =
                 IF new \in tasks THEN Cardinality(tasks) ELSE Cardinality(tasks) + 1
        BY <4>1, FS_AddElement
      <4> QED BY <4>1, <4>2
    <3> QED BY <1>5, <3>1, FS_CardinalityType
  <2>2. Queued' = Queued
    BY <1>5, QueuedSlots
  <2>3. LaneSerial'
    BY <1>1, <1>5 DEF LaneInv, LaneSerial
  <2> QED BY <1>2, <1>5, <2>1, <2>2, <2>3, Limits DEF LaneInv, OutstandingBounded, HasCapacity
<1> HIDE DEF new
<1> QED BY <1>3, <1>4, <1>5 DEF Schedule, new

(* A lane's task ends: the next one starts in its place, or the lane idles.*)
LEMMA FinishLane ==
    ASSUME TypeOK, LaneInv, NEW t \in tasks, Finish(t)
    PROVE  LaneInv'
<1>1. CASE Close
  BY <1>1, LaneClose
<1> DEFINE l  == t.work.lane
           ts == tasks \ {t}
<1>2. l \in Lanes /\ queue \in [Lanes -> Seq(Work)]
  BY DEF TypeOK, Task, Work
<1>3. IsFiniteSet(ts) /\ Cardinality(ts) = Cardinality(tasks) - 1 /\ Cardinality(tasks) \in Nat
  BY FS_RemoveElement, FS_CardinalityType DEF LaneInv
<1>4. Queued \in Nat
  BY QueuedSlots, SlotsFinite
<1>s. /\ \A u \in ts : u \in tasks /\ u.work.lane # l
      /\ conn = "open" => active \ {l} = {u.work.lane : u \in ts} /\ l \in active
  BY DEF LaneInv, LaneSerial
<1> HIDE DEF ts
<1>5. CASE tasks' = ts /\ UNCHANGED <<conn, active, queue>> /\ conn = "draining"
  <2>1. Queued' = Queued
    BY <1>5, QueuedSlots
  <2>2. LaneSerial'
    BY <1>5, <1>s DEF LaneInv, LaneSerial
  <2> QED BY <1>3, <1>4, <1>5, <2>1, <2>2, Limits DEF LaneInv, OutstandingBounded
<1>6. CASE tasks' = ts /\ active' = active \ {l} /\ UNCHANGED <<conn, queue>>
  <2>1. Queued' = Queued
    BY <1>6, QueuedSlots
  <2>2. LaneSerial'
    BY <1>6, <1>s DEF LaneInv, LaneSerial
  <2> QED BY <1>3, <1>4, <1>6, <2>1, <2>2, Limits DEF LaneInv, OutstandingBounded
<1>7. ASSUME NEW u, u.work.lane = l, tasks' = ts \cup {u}, UNCHANGED <<conn, active>>
      PROVE  /\ LaneSerial' /\ IsFiniteSet(tasks') /\ Cardinality(tasks') \in Nat
             /\ Cardinality(tasks') <= Cardinality(tasks)
  <2>1. IsFiniteSet(tasks') /\ Cardinality(tasks') <= Cardinality(tasks)
    BY <1>3, <1>7, FS_AddElement
  <2>2. \A v \in tasks' : v = u \/ v \in ts
    BY <1>7
  <2>3. {v.work.lane : v \in tasks'} = {v.work.lane : v \in ts} \cup {l}
    BY <1>7
  <2>4. LaneSerial'
    BY <1>7, <1>s, <2>2, <2>3 DEF LaneInv, LaneSerial
  <2> QED BY <2>1, <2>4, FS_CardinalityType
<1>8. CASE /\ queue[l] # <<>>
           /\ tasks' = ts \cup {Spawned(Head(queue[l]))}
           /\ queue' = [queue EXCEPT ![l] = Tail(@)] /\ UNCHANGED <<conn, active>>
  <2>1. queue[l] \in Seq(Work) /\ Len(queue[l]) \in Nat \ {0} /\ Head(queue[l]) = queue[l][1]
    BY <1>2, <1>8
  <2>2. Head(queue[l]) \in Work /\ Head(queue[l]).lane = l
    BY <1>2, <2>1 DEF LaneInv
  <2>3. Spawned(Head(queue[l])).work.lane = l
    BY <2>2, SpawnedFacts
  <2>4. Queued' = Queued - 1
    BY <1>2, <1>8, SlotsTail, QueuedSlots DEF LaneInv
  <2>5. \A k \in Lanes : /\ Len(queue'[k]) <= MaxOutstanding
                         /\ \A i \in 1 .. Len(queue'[k]) : queue'[k][i].lane = k
    <3> SUFFICES ASSUME NEW k \in Lanes
                 PROVE  /\ Len(queue'[k]) <= MaxOutstanding
                        /\ \A i \in 1 .. Len(queue'[k]) : queue'[k][i].lane = k
      OBVIOUS
    <3>1. CASE k # l
      BY <1>2, <1>8, <3>1 DEF LaneInv
    <3>2. CASE k = l
      <4>1. queue'[k] = Tail(queue[k])
        BY <1>2, <1>8, <3>2
      <4>2. \A i \in 1 .. Len(queue[k]) : queue[k][i].lane = k
        BY DEF LaneInv
      <4>3. Len(queue[k]) <= MaxOutstanding
        BY DEF LaneInv
      <4> QED BY <2>1, <3>2, <4>1, <4>2, <4>3, Limits
    <3> QED BY <3>1, <3>2
  <2>6. /\ LaneSerial' /\ IsFiniteSet(tasks') /\ Cardinality(tasks') \in Nat
        /\ Cardinality(tasks') <= Cardinality(tasks)
    BY <1>7, <1>8, <2>3
  <2> QED BY <1>3, <1>4, <2>4, <2>5, <2>6, Limits DEF LaneInv, OutstandingBounded
<1>9. ASSUME NEW r \in AutoReady(target, l), tasks' = ts \cup {Spawned(AutoWork(r))},
             UNCHANGED <<conn, active, queue>>
      PROVE  LaneInv'
  <2>1. r \in Responses /\ target[r].lane = l
    BY DEF AutoReady, TypeOK
  <2>2. AutoWork(r) \in Work /\ AutoWork(r).lane = l
    BY <2>1, AutoType DEF AutoWork
  <2>3. /\ LaneSerial' /\ IsFiniteSet(tasks') /\ Cardinality(tasks') \in Nat
        /\ Cardinality(tasks') <= Cardinality(tasks)
    BY <1>7, <1>9, <2>2, SpawnedFacts
  <2>4. Queued' = Queued
    BY <1>9, QueuedSlots
  <2> QED BY <1>3, <1>4, <1>9, <2>3, <2>4, Limits DEF LaneInv, OutstandingBounded
<1> HIDE DEF l
<1> QED BY <1>1, <1>5, <1>6, <1>8, <1>9 DEF Finish, ScheduleNext, l, ts

(* So does the admission of automatic successors on idle lanes.            *)
LEMMA ReadyLane ==
    ASSUME TypeOK, LaneInv, conn = "open", NEW tg, NEW box, NEW told1, NEW fate1,
           \A r \in Responses : tg[r].lane = target[r].lane,
           ScheduleReady(tg, box, told1, fate1)
    PROVE  LaneInv'
<1>1. CASE Close
  BY <1>1, LaneClose
<1> DEFINE ready == {l \in Lanes \ active : AutoReady(tg, l) # {}}
           free  == MaxOutstanding - (Cardinality(tasks) + Queued)
<1>2. CASE ~Close
  <2>1. PICK pick \in [ready -> routes] :
          /\ \A l \in ready : pick[l] \in AutoReady(tg, l)
          /\ \E fit \in SUBSET ready :
               /\ (Cardinality(ready) <= free /\ fit = ready) \/ Cardinality(fit) = free
               /\ active' = active \cup fit
               /\ tasks' = tasks \cup {Spawned(AutoWork(pick[l])) : l \in fit}
          /\ UNCHANGED <<conn, queue>>
    BY <1>2 DEF ScheduleReady
  <2>2. PICK fit \in SUBSET ready :
          /\ (Cardinality(ready) <= free /\ fit = ready) \/ Cardinality(fit) = free
          /\ active' = active \cup fit
          /\ tasks' = tasks \cup {Spawned(AutoWork(pick[l])) : l \in fit}
    BY <2>1
  <2> DEFINE new(l) == Spawned(AutoWork(pick[l]))
             added  == {new(l) : l \in fit}
  <2>3. fit \subseteq Lanes \ active
    OBVIOUS
  <2>4. \A l \in fit : new(l).work.lane = l
    <3> SUFFICES ASSUME NEW l \in fit PROVE new(l).work.lane = l
      OBVIOUS
    <3>1. pick[l] \in Responses /\ target[pick[l]].lane = l
      BY <2>1 DEF AutoReady, TypeOK
    <3>2. AutoWork(pick[l]) \in Work /\ AutoWork(pick[l]).lane = l
      BY <3>1, AutoType DEF AutoWork
    <3> QED BY <3>2, SpawnedFacts
  <2> HIDE DEF new, ready
  <2>5. /\ Cardinality(tasks) \in Nat /\ Queued \in Nat /\ free \in Nat
        /\ free = MaxOutstanding - (Cardinality(tasks) + Queued)
    BY FS_CardinalityType, QueuedSlots, SlotsFinite, Limits DEF LaneInv, OutstandingBounded
  <2> HIDE DEF free
  <2>6. IsFiniteSet(fit) /\ Cardinality(fit) <= free
    <3>1. IsFiniteSet(fit)
      BY <2>3, ConstantsAssumption, FS_Subset DEF ConstantsOK
    <3> QED BY <2>2, <2>5, <3>1
  <2>7. IsFiniteSet(added) /\ Cardinality(added) <= free /\ Cardinality(added) \in Nat
    <3>1. IsFiniteSet(added) /\ Cardinality(added) <= Cardinality(fit)
      <4> DEFINE f == [l \in fit |-> new(l)]
      <4>1. f \in Surjection(fit, added)
        BY DEF Surjection
      <4> QED BY <2>6, <4>1, FS_Surjection
    <3> QED BY <2>5, <2>6, <3>1, FS_CardinalityType
  <2>8. tasks' = tasks \cup added
    BY <2>2 DEF new
  <2>9. /\ IsFiniteSet(tasks') /\ Cardinality(tasks') \in Nat
        /\ Cardinality(tasks') + Queued <= MaxOutstanding
    <3>1. IsFiniteSet(tasks \cup added)
          /\ Cardinality(tasks \cup added)
               = Cardinality(tasks) + Cardinality(added) - Cardinality(tasks \cap added)
      BY <2>7, FS_Union DEF LaneInv
    <3>2. Cardinality(tasks \cap added) \in Nat
      BY <2>7, FS_Intersection, FS_CardinalityType
    <3>3. Cardinality(tasks \cup added) \in Nat
      BY <3>1, FS_CardinalityType
    <3> HIDE DEF added
    <3> QED BY <2>5, <2>7, <2>8, <3>1, <3>2, <3>3, Limits
  <2>10. LaneSerial'
    <3>1. \A t \in tasks' : \/ t \in tasks /\ t.work.lane \in active
                            \/ \E l \in fit : t = new(l) /\ t.work.lane = l /\ l \notin active
      BY <2>3, <2>4, <2>8 DEF LaneInv, LaneSerial
    <3>2. \A t, u \in tasks' : t.work.lane = u.work.lane => t = u
      BY <3>1 DEF LaneInv, LaneSerial
    <3>3. {t.work.lane : t \in tasks'} = {t.work.lane : t \in tasks} \cup
            {new(l).work.lane : l \in fit}
      BY <2>8
    <3>4. {new(l).work.lane : l \in fit} = fit
      BY <2>4
    <3> QED BY <2>2, <3>2, <3>3, <3>4 DEF LaneInv, LaneSerial
  <2>11. Queued' = Queued
    BY <2>1, QueuedSlots
  <2> QED BY <2>1, <2>9, <2>10, <2>11 DEF LaneInv, OutstandingBounded
<1> QED BY <1>1, <1>2

(* Every step keeps lanes serial and within the limit.                     *)
LEMMA LaneStep == TypeOK /\ TaskInv /\ LaneInv /\ [Next]_vars => LaneInv'
<1> SUFFICES ASSUME TypeOK, TaskInv, LaneInv, [Next]_vars PROVE LaneInv'
  OBVIOUS
<1>1. ASSUME NEW l \in Lanes, NEW prev \in SUBSET Responses, NEW bad \in BOOLEAN, Create(l,
               prev, bad)
      PROVE  LaneInv'
  <2> DEFINE w == [lane |-> l, prev |-> prev, parent |-> {}, auto |-> FALSE, bad |-> bad]
  <2>1. CASE Close
    BY <2>1, LaneClose
  <2>2. w \in Work /\ Attach(w) \in Work
    <3>1. w \in Work
      BY DEF Work
    <3> HIDE DEF w
    <3> QED BY <3>1, AttachFacts
  <2> HIDE DEF w
  <2>3. ASSUME NEW v \in Work, Schedule(v), UNCHANGED conn PROVE LaneInv'
    BY <1>1, <2>3, ScheduleLane DEF Create
  <2> QED BY <1>1, <2>1, <2>2, <2>3 DEF Create, w
<1>2. ASSUME NEW s \in Steers, NEW r \in Responses, Steer(s, r) PROVE LaneInv'
  <2> DEFINE tg     == ReleaseInactive(target)
             ok     == r \in routes /\ Accepts(tg, r)
             new    == [tg EXCEPT ![r].batch = Accepted(tg, r, s)]
  <2>1. CASE Close
    BY <2>1, LaneClose
  <2>2. /\ \A q \in Responses : tg[q].lane = target[q].lane
        /\ tg \in [Responses -> Target]
    BY ReleaseFacts DEF TypeOK
  <2> HIDE DEF tg
  <2>3. \A q \in Responses : new[q].lane = target[q].lane
    BY <2>2 DEF Target
  <2> HIDE DEF new, ok
  <2>4. CASE \E box, told1, fate1 : ScheduleReady(tg, box, told1, fate1)
    BY <1>2, <2>2, <2>4, ReadyLane DEF Steer
  <2>5. CASE \E box, told1, fate1 : ScheduleReady(IF ok THEN new ELSE tg, box, told1, fate1)
    BY <1>2, <2>2, <2>3, <2>5, ReadyLane DEF Steer
  <2> QED BY <1>2, <2>1, <2>4, <2>5 DEF Steer, tg, ok, new
<1>3. ASSUME NEW t \in tasks, TaskStep(t) PROVE LaneInv'
  <2>1. CASE Finish(t)
    BY <2>1, FinishLane
  <2>2. CASE ~Finish(t)
    BY <1>3, <2>2, TaskGoesOn, LaneBecome, LaneClose
  <2> QED BY <2>1, <2>2
<1>4. ASSUME NEW r \in Responses,
             PublishCreated(r) \/ EndRun(r) \/ LoseRelay(r) \/ Emit(r) \/ CleanUp(r)
      PROVE  LaneInv'
  BY <1>4, LaneSame DEF PublishCreated, EndRun, LoseRelay, Emit, CleanUp, laneVars
<1>5. CASE ExpireRoutes \/ Expire \/ UNCHANGED vars
  BY <1>5, LaneSame DEF ExpireRoutes, Expire, vars, laneVars
<1>6. CASE Disconnect \/ RelayFailed \/ Drained
  BY <1>6, LaneClose DEF Disconnect, RelayFailed, Drained
<1>7. CASE BeginDraining
  <2>1. tasks' = tasks /\ queue' = NoWork /\ conn' = "draining"
    BY <1>7 DEF BeginDraining
  <2>2. Queued' = 0 /\ Queued \in Nat
    BY <2>1, QueuedSlots, SlotsEmpty, SlotsFinite
  <2>3. \A l \in Lanes : Len(NoWork[l]) = 0 /\ 1 .. Len(NoWork[l]) = {}
    BY DEF NoWork
  <2>4. Cardinality(tasks) \in Nat
    BY FS_CardinalityType DEF LaneInv
  <2> QED BY <2>1, <2>2, <2>3, <2>4, Limits DEF LaneInv, LaneSerial, OutstandingBounded
<1> QED BY <1>1, <1>2, <1>3, <1>4, <1>5, <1>6, <1>7 DEF Next

-----------------------------------------------------------------------------
(* What a step leaves of a response *)

(* No step takes back that a response was created, or ended.               *)
Older(q) ==
    /\ run[q].created => run'[q].created /\ target'[q].lane = target[q].lane
    /\ run[q].exec # "none" => run'[q].exec # "none"
    /\ Terminal(q) => Terminal(q)' /\ run'[q].need = run[q].need

(* The response does not start, and its route is not registered.           *)
Steady(q) ==
    /\ target'[q].lane = target[q].lane
    /\ run[q].exec = "gated" <=> run'[q].exec = "gated"

(* The target keeps its phase and its batch, and what the batch needs.     *)
Whole(p) ==
    /\ target'[p].lane = target[p].lane /\ target'[p].phase = target[p].phase
    /\ target'[p].batch = target[p].batch /\ target'[p].supported = target[p].supported
    /\ target[p].batch # {} => /\ target'[p].settings = target[p].settings
                               /\ p \in routes => p \in routes'
    /\ Terminal(p) /\ latest'[target[p].lane] = {p} => latest[target[p].lane] = {p}
    /\ p \in cleanup' => p \in cleanup

(* Work stays sound as long as its parents keep lane and creation.         *)
LEMMA WorkFrame ==
    ASSUME NEW w, WorkOK(w), \A p \in w.parent : Older(p)
    PROVE  WorkOK(w)'
BY DEF WorkOK, Older

(* A task stays sound as long as its response's execution does not move.   *)
LEMMA TaskFrame ==
    ASSUME NEW t, TaskOK(t), \A p \in t.work.parent : Older(p),
           \A r \in t.resp : Older(r) /\ Steady(r)
    PROVE  TaskOK(t)'
<1>1. WorkOK(t.work)'
  BY WorkFrame DEF TaskOK
<1>2. \A r \in t.resp :
        /\ run'[r].exec # "none"
        /\ run'[r].exec = "gated" <=> run[r].exec = "gated"
        /\ target'[r].lane = target[r].lane
        /\ Terminal(r) => Terminal(r)'
  BY DEF TaskOK, Older, Steady
<1> QED BY <1>1, <1>2 DEF TaskOK

(* A target stays sound as long as whoever holds its reservation does.     *)
LEMMA TargetFrame ==
    ASSUME NEW p, TargetOK(target, p), Older(p), Whole(p),
           \A t \in tasks : Holds(t, p) => \E u \in tasks' : Holds(u, p)
    PROVE  TargetOK(target, p)'
<1>1. target[p].phase = "Ready" => Terminal(p)
  BY DEF TargetOK
<1>2. Terminal(p) => Terminal(p)' /\ run'[p].need = run[p].need
  BY DEF Older
<1>3. target'[p].phase = "Reserved" => \E u \in tasks' : Holds(u, p)
  BY DEF TargetOK, Whole
<1>4. \A t : Holds(t, p)' <=> Holds(t, p)
  BY DEF Holds
<1>5. target'[p].batch # {} => run'[p].created /\ p \in routes' /\
        target'[p].settings = target[p].settings
  BY DEF TargetOK, Whole, Older
<1>6. /\ Option(target'[p].batch)
      /\ \A b \in target'[p].batch : b.entries # <<>>
  BY DEF TargetOK, Whole
<1>7. target'[p].phase = "Ready" =>
        /\ Terminal(p)'
        /\ run'[p].need = "malformed" /\ target'[p].supported => latest'[target'[p].lane] # {p}
  BY <1>1, <1>2 DEF TargetOK, Whole
<1>8. p \in cleanup' => target'[p].phase = "Closed"
  BY DEF TargetOK, Whole
<1>9. target'[p].batch # {} /\ target'[p].phase \in {"Running", "Ready"} => target'[p].settings
  BY <1>5 DEF TargetOK, Whole
<1> QED BY <1>3, <1>4, <1>5, <1>6, <1>7, <1>8, <1>9 DEF TargetOK, Terminal, Option

(* A closed target that owns nothing is as it should be.                   *)
LEMMA ClosedOK ==
    ASSUME NEW p, target'[p].phase = "Closed", target'[p].batch = {}
    PROVE  TargetOK(target, p)'
BY DEF TargetOK, Option

(* Only a task of the target's lane can hold its reservation.              *)
LEMMA HolderLane ==
    ASSUME LaneInv, TaskInv, NEW t \in tasks, NEW u \in tasks, NEW p, Holds(u, p),
           target[p].lane = t.work.lane \/ ~run[p].created
    PROVE  t = u
BY DEF Holds, TaskInv, TaskOK, WorkOK, LaneInv, LaneSerial

(* A step of one task that touches the targets X.                          *)
LEMMA TaskSteps ==
    ASSUME TypeOK, LaneInv, TaskInv, RunInv, TargetInv, NEW t \in tasks, NEW u,
           Become(t, u), u.work = t.work, UNCHANGED <<queue, cleanup>>, TaskOK(u)',
           u.resp = t.resp \/ \E r \in Responses : run[r].exec = "none" /\ u.resp = {r},
           NEW X \in SUBSET Responses,
           \A x \in X : /\ target[x].lane = t.work.lane \/ ~run[x].created
                        /\ TargetOK(target, x)',
           \A q \in Responses : /\ Older(q) /\ (q \notin u.resp => Steady(q))
                                /\ run'[q].exec \in {"none", "gated"} => ~run'[q].created,
           \A q \in Responses \ X : Whole(q) /\ (Holds(t, q) => Holds(u, q)),
           u.pc \in Reserving => \A p \in u.work.parent : target'[p].phase = "Reserved",
           \A l \in Lanes : Option(latest'[l])
    PROVE  TaskInv' /\ RunInv' /\ TargetInv'
<1>1. RunInv'
  BY DEF RunInv
<1>2. \A v \in tasks' : v = u \/ (v \in tasks /\ v # t)
  BY DEF Become
<1>3. ASSUME NEW v \in tasks, v # t
      PROVE  v.resp \cap u.resp = {} /\ v.resp \subseteq Responses /\
               v.work.parent \subseteq Responses
             /\ TaskOK(v)
  <2>1. v \in Task /\ TaskOK(v)
    BY DEF TypeOK, TaskInv
  <2>2. v.resp \cap t.resp = {}
    BY <1>3 DEF TaskInv
  <2>3. \A r \in v.resp : run[r].exec # "none"
    BY <2>1 DEF TaskOK
  <2> QED BY <2>1, <2>2, <2>3 DEF Task, Work
<1>4. \A v \in tasks' : TaskOK(v)'
  BY <1>2, <1>3, TaskFrame
<1>5. \A v, x \in tasks' : v.resp \cap x.resp # {} => v = x
  BY <1>2, <1>3 DEF TaskInv
<1>6. (\A l \in Lanes : \A i \in 1 .. Len(queue[l]) : WorkOK(queue[l][i]))'
  <2>1. ASSUME NEW l \in Lanes, NEW i \in 1 .. Len(queue[l]), NEW w,
                 w = queue[l][i] PROVE WorkOK(w)'
    <3>1. w \in Work /\ WorkOK(w)
      BY <2>1 DEF TypeOK, TaskInv
    <3>2. w.parent \subseteq Responses
      BY <3>1 DEF Work
    <3> QED BY <3>1, <3>2, WorkFrame
  <2> QED BY <2>1 DEF WorkOK
<1>7. TaskInv'
  BY <1>4, <1>5, <1>6 DEF TaskInv
<1>8. ASSUME NEW p \in Responses PROVE TargetOK(target, p)'
  <2>1. CASE p \in X
    BY <2>1
  <2>2. CASE p \notin X
    <3>1. \A v \in tasks : Holds(v, p) => \E x \in tasks' : Holds(x, p)
      BY <2>2 DEF Become
    <3> QED BY <2>2, <3>1, TargetFrame DEF TargetInv
  <2> QED BY <2>1, <2>2
<1>9. ASSUME NEW v \in tasks', v.pc \in Reserving, NEW p \in v.work.parent
      PROVE  target'[p].phase = "Reserved"
  <2>1. CASE v = u
    BY <1>9, <2>1
  <2>2. CASE v \in tasks /\ v # t
    <3>1. target[p].phase = "Reserved" /\ p \in Responses /\ Holds(v, p)
      BY <1>3, <1>9, <2>2 DEF TargetInv, Holds
    <3>2. p \notin X
      BY <2>2, <3>1, HolderLane
    <3> QED BY <3>1, <3>2 DEF Whole
  <2> QED BY <1>2, <2>1, <2>2
<1>10. TargetInv'
  BY <1>8, <1>9 DEF TargetInv
<1> QED BY <1>1, <1>7, <1>10

(* No execution moves when no run changes.                                 *)
LEMMA SameRun ==
    ASSUME NEW q, run' = run, target'[q].lane = target[q].lane
    PROVE  Older(q) /\ Steady(q)
BY DEF Older, Steady, Terminal

(* A sound task stays sound when it ends, whatever its response became.    *)
LEMMA EndsOK ==
    ASSUME NEW t, TaskOK(t), NEW u, u.work = t.work, u.resp = t.resp, u.pc \in {"done",
             "failing"},
           \A p \in t.work.parent : Older(p), \A r \in t.resp : Older(r)
    PROVE  TaskOK(u)'
<1>1. WorkOK(u.work)'
  BY WorkFrame DEF TaskOK
<1>2. \A r \in u.resp : run'[r].exec # "none"
  BY DEF TaskOK, Older
<1> QED BY <1>1, <1>2 DEF TaskOK, Reserving

(* Sessions that only forget.                                              *)
Forgets == \A l \in Lanes : latest'[l] \subseteq latest[l]

(* A lane's checkpoint that is only forgotten still names at most one      *)
(* response.                                                               *)
LEMMA ForgetsFacts ==
    ASSUME TypeOK, TargetInv, Forgets
    PROVE  /\ \A l \in Lanes : Option(latest'[l])
           /\ \A l \in Lanes, p \in Responses : latest'[l] = {p} => latest[l] = {p}
<1>1. \A l \in Lanes : Option(latest[l])
  BY DEF TargetInv
<1> QED BY <1>1 DEF Forgets, Option

(* A step of one task that changes neither a target nor a run.             *)
LEMMA TaskQuiet ==
    ASSUME TypeOK, LaneInv, TaskInv, RunInv, TargetInv, NEW t \in tasks, NEW u,
           Become(t, u), u.work = t.work, u.resp = t.resp, TaskOK(u)', Forgets,
           UNCHANGED <<queue, cleanup, target, run, routes>>,
           \A q \in Responses : Holds(t, q) => Holds(u, q),
           u.pc \in Reserving => \A p \in u.work.parent : target[p].phase = "Reserved"
    PROVE  TaskInv' /\ RunInv' /\ TargetInv'
<1>1. \A q \in Responses : Older(q) /\ Steady(q)
  BY SameRun
<1>2. \A q \in Responses : run'[q].exec \in {"none", "gated"} => ~run'[q].created
  BY DEF RunInv
<1>3. \A q \in Responses : target[q].lane \in Lanes
  BY DEF TypeOK, Target
<1>4. \A q \in Responses : Whole(q)
  BY <1>3, ForgetsFacts DEF Whole
<1>5. \A l \in Lanes : Option(latest'[l])
  BY ForgetsFacts
<1>6. PICK X \in SUBSET Responses : X = {}
  OBVIOUS
<1>7. \A x \in X : target[x].lane = t.work.lane /\ TargetOK(target, x)'
  BY <1>6
<1>8. \A q \in Responses \ X : Whole(q) /\ (Holds(t, q) => Holds(u, q))
  BY <1>4
<1>9. u.pc \in Reserving => \A q \in u.work.parent : target'[q].phase = "Reserved"
  OBVIOUS
<1> QED BY ONLY TypeOK, LaneInv, TaskInv, RunInv, TargetInv, t \in tasks, Become(t, u),
                u.work = t.work, u.resp = t.resp, TaskOK(u)', UNCHANGED <<queue, cleanup>>,
                <1>1, <1>2, <1>5, <1>7, <1>8, <1>9, TaskSteps

(* The target of the lane's task closes: its input was committed or failed.*)
LEMMA TaskCloses ==
    ASSUME TypeOK, LaneInv, TaskInv, RunInv, TargetInv, NEW t \in tasks, NEW u,
           Become(t, u), u.work = t.work, u.resp = t.resp, TaskOK(u)', Forgets,
           UNCHANGED <<queue, cleanup, routes>>,
           NEW p \in Responses, target[p].lane = t.work.lane,
           target' = [target EXCEPT ![p] = Closed(target[p])],
           \A q \in Responses : /\ Older(q) /\ (q \notin t.resp => Steady(q))
                                /\ run'[q].exec \in {"none", "gated"} => ~run'[q].created,
           \A q \in Responses : Holds(t, q) => q = p,
           u.pc \notin Reserving
    PROVE  TaskInv' /\ RunInv' /\ TargetInv'
<1>1. \A q \in Responses : target[q].lane \in Lanes
  BY DEF TypeOK, Target
<1>2. \A q \in Responses \ {p} : target'[q] = target[q]
  BY DEF TypeOK
<1>3. \A q \in Responses \ {p} : Whole(q) /\ (Holds(t, q) => Holds(u, q))
  BY <1>1, <1>2, ForgetsFacts DEF Whole
<1>4. target'[p].phase = "Closed" /\ target'[p].batch = {}
  BY ClosedFacts DEF TypeOK
<1>5. TargetOK(target, p)'
  BY <1>4, ClosedOK
<1>6. \A l \in Lanes : Option(latest'[l])
  BY ForgetsFacts
<1>7. PICK X \in SUBSET Responses : X = {p}
  OBVIOUS
<1>8. \A x \in X : target[x].lane = t.work.lane /\ TargetOK(target, x)'
  BY <1>5, <1>7
<1>9. \A q \in Responses \ X : Whole(q) /\ (Holds(t, q) => Holds(u, q))
  BY <1>3, <1>7
<1>10. \A q \in Responses : q \notin u.resp => Steady(q)
  OBVIOUS
<1>11. \A q \in Responses : /\ Older(q)
                            /\ run'[q].exec \in {"none", "gated"} => ~run'[q].created
  OBVIOUS
<1> QED BY ONLY TypeOK, LaneInv, TaskInv, RunInv, TargetInv, t \in tasks, Become(t, u),
                u.work = t.work, u.resp = t.resp, TaskOK(u)', UNCHANGED <<queue, cleanup>>,
                u.pc \notin Reserving, <1>6, <1>8, <1>9, <1>10, <1>11, TaskSteps

(* An error of the task's body: an automatic one closes its target, an     *)
(* explicit one leaves it, still reserved only if the error is fatal.      *)
LEMMA ErrorsInv ==
    ASSUME TypeOK, LaneInv, TaskInv, RunInv, TargetInv, NEW t \in tasks, NEW f \in BOOLEAN,
           Errors(t, f), Forgets, UNCHANGED <<queue, cleanup, routes>>,
           \/ run' = run
           \/ \E r \in t.resp : run[r].exec = "gated" /\
                run' = [run EXCEPT ![r].exec = "failed"],
           t.pc # "done", t.pc \in Reserving => f
    PROVE  TaskInv' /\ RunInv' /\ TargetInv'
<1>1. t \in Task /\ TaskOK(t) /\ t.resp \subseteq Responses /\
        t.work.parent \subseteq Responses
  BY TaskHas DEF Task, Work
<1>2. \A q \in Responses : target'[q].lane = target[q].lane
  <2>1. CASE t.work.auto
    <3>1. The(t.work.parent) \in Responses
      BY <2>1, TaskHas
    <3>2. target' = [target EXCEPT ![The(t.work.parent)] = Closed(@)]
      BY <2>1 DEF Errors, FailSuccessor
    <3>3. Closed(target[The(t.work.parent)]).lane = target[The(t.work.parent)].lane
      BY <3>1, ClosedFacts DEF TypeOK
    <3> QED BY <3>1, <3>2, <3>3 DEF TypeOK
  <2>2. CASE ~t.work.auto
    BY <2>2 DEF Errors
  <2> QED BY <2>1, <2>2
<1>3. \A q \in Responses : /\ Older(q) /\ (q \notin t.resp => Steady(q))
                           /\ run'[q].exec \in {"none", "gated"} => ~run'[q].created
  <2>1. CASE run' = run
    BY <1>2, <2>1, SameRun DEF RunInv
  <2>2. CASE \E r \in t.resp : run[r].exec = "gated" /\
               run' = [run EXCEPT ![r].exec = "failed"]
    <3>1. PICK r \in t.resp : run[r].exec = "gated" /\ run' = [run EXCEPT ![r].exec = "failed"]
      BY <2>2
    <3>2. r \in Responses /\ run[r] \in Run /\ ~run[r].created
      BY <1>1, <3>1 DEF TypeOK, RunInv
    <3>3. run'[r].exec = "failed"
      BY <3>1, <3>2 DEF TypeOK, Run
    <3>4. \A q \in Responses \ {r} : run'[q] = run[q]
      BY <3>1 DEF TypeOK
    <3> QED BY <1>2, <3>1, <3>2, <3>3, <3>4 DEF Older, Steady, Terminal, RunInv
  <2> QED BY <2>1, <2>2
<1>4. CASE t.work.auto
  <2> DEFINE p == The(t.work.parent)
             u == [t EXCEPT !.pc = "failing", !.wait = t.work.parent, !.fatal = TRUE]
  <2>1. p \in Responses /\ t.work.parent = {p}
    BY <1>4, TaskHas
  <2>2. u.work = t.work /\ u.resp = t.resp /\ u.pc = "failing"
    BY <1>1 DEF Task
  <2>3. Become(t, u) /\ target' = [target EXCEPT ![p] = Closed(target[p])]
    BY <1>4 DEF Errors, FailSuccessor, TypeOK
  <2>4. target[p].lane = t.work.lane
    BY <1>1, <2>1 DEF TaskOK, WorkOK
  <2> HIDE DEF u, p
  <2>5. TaskOK(u)'
    BY <1>1, <1>3, <2>2, EndsOK
  <2>6. \A q \in Responses : Holds(t, q) => q = p
    BY <2>1 DEF Holds
  <2>7. u.pc \notin Reserving
    BY <2>2 DEF Reserving
  <2> QED BY <1>3, <2>1, <2>2, <2>3, <2>4, <2>5, <2>6, <2>7, TaskCloses
<1>5. CASE ~t.work.auto
  <2> DEFINE u == [t EXCEPT !.pc = "done", !.fatal = f]
  <2>1. /\ u.work = t.work /\ u.resp = t.resp /\ u.pc = "done" /\ u.fatal = f
        /\ Become(t, u) /\ target' = target
    BY <1>1, <1>5 DEF Task, Errors
  <2> HIDE DEF u
  <2>2. TaskOK(u)'
    BY <1>1, <1>3, <2>1, EndsOK
  <2>3. \A q \in Responses : Holds(t, q) => Holds(u, q)
    BY <2>1 DEF Holds
  <2>4. u.pc \notin Reserving
    BY <2>1 DEF Reserving
  <2>5. \A q \in Responses : target[q].lane \in Lanes
    BY DEF TypeOK, Target
  <2>6. \A q \in Responses : Whole(q) /\ (Holds(t, q) => Holds(u, q))
    BY <2>1, <2>3, <2>5, ForgetsFacts DEF Whole
  <2>7. \A l \in Lanes : Option(latest'[l])
    BY ForgetsFacts
  <2>8. PICK X \in SUBSET Responses : X = {}
    OBVIOUS
  <2>9. /\ \A x \in X : target[x].lane = t.work.lane /\ TargetOK(target, x)'
        /\ \A q \in Responses \ X : Whole(q) /\ (Holds(t, q) => Holds(u, q))
    BY <2>6, <2>8
  <2> QED BY ONLY TypeOK, LaneInv, TaskInv, RunInv, TargetInv, t \in tasks,
                  UNCHANGED <<queue, cleanup>>, <1>3, <2>1, <2>2, <2>4, <2>7, <2>9, TaskSteps
<1> QED BY <1>4, <1>5

(* The task t goes on as u, with the gated execution of response r.        *)
Started(t, pc, r, u) ==
    /\ run[r].exec = "none" /\ u = [t EXCEPT !.pc = pc, !.resp = {r}] /\ Become(t, u)
    /\ u.work = t.work /\ u.pc = pc /\ u.resp = {r} /\ run'[r].exec = "gated"
    /\ \A q \in Responses : /\ Older(q) /\ (q # r => Steady(q))
                            /\ run'[q].exec \in {"none", "gated"} => ~run'[q].created

(* The start of a gated execution uses a response nobody has.              *)
LEMMA StartFacts ==
    ASSUME TypeOK, RunInv, NEW t \in tasks, NEW pc, NEW e, StartGated(t, pc, e),
           \A q \in Responses : target'[q].lane = target[q].lane
    PROVE  \E r \in Responses : \E u : Started(t, pc, r, u)
<1>1. PICK r \in Responses :
        /\ NextResponse(r)
        /\ run' = [run EXCEPT ![r].exec = "gated", ![r].carries = e]
        /\ Become(t, [t EXCEPT !.pc = pc, !.resp = {r}])
  BY DEF StartGated
<1>2. run[r].exec = "none" /\ ~run[r].created
  BY <1>1 DEF NextResponse, RunInv
<1>3. run'[r] = [run[r] EXCEPT !.exec = "gated", !.carries = e]
  BY <1>1 DEF TypeOK
<1>4. run'[r].exec = "gated" /\ run'[r].created = run[r].created
  BY <1>3 DEF TypeOK, Run
<1>5. \A q \in Responses \ {r} : run'[q] = run[q]
  BY <1>1 DEF TypeOK
<1>6. \A q \in Responses : /\ Older(q) /\ (q # r => Steady(q))
                           /\ run'[q].exec \in {"none", "gated"} => ~run'[q].created
  BY <1>2, <1>4, <1>5 DEF Older, Steady, Terminal, RunInv
<1>7. t \in Task
  BY DEF TypeOK
<1>8. /\ [t EXCEPT !.pc = pc, !.resp = {r}].work = t.work
      /\ [t EXCEPT !.pc = pc, !.resp = {r}].pc = pc
      /\ [t EXCEPT !.pc = pc, !.resp = {r}].resp = {r}
  BY <1>7 DEF Task
<1> QED BY <1>1, <1>2, <1>4, <1>6, <1>8 DEF Started

(* Evicting forgets a checkpoint or keeps it.                              *)
LEMMA EvictForgets ==
    ASSUME TypeOK, NEW l \in Lanes, NEW S
    PROVE  (UNCHANGED latest => Forgets) /\ (Evict(l, S) => Forgets)
BY DEF TypeOK, Evict, Forgets

(* A spawned task is dispatched, refused, or fails.                        *)
LEMMA DispatchInv ==
    ASSUME TypeOK, LaneInv, TaskInv, RunInv, TargetInv, NEW t \in tasks, Dispatch(t)
    PROVE  TaskInv' /\ RunInv' /\ TargetInv'
<1>1. t \in Task /\ TaskOK(t) /\ t.work.lane \in Lanes /\ t.resp = {}
      /\ t.work.parent \subseteq Responses
  BY TaskHas DEF Task, Work, TaskOK, Dispatch
<1>2. Forgets
  BY <1>1, EvictForgets DEF Dispatch
<1>3. PICK pc \in {"done", "fresh", "prepare"} :
        /\ Goto(t, pc)
        /\ pc = "fresh" => t.work.parent = {}
        /\ pc = "prepare" => t.work.parent # {}
  BY DEF Dispatch
<1> DEFINE u == [t EXCEPT !.pc = pc]
<1>4. u.work = t.work /\ u.resp = {} /\ u.pc = pc /\ Become(t, u)
  BY <1>1, <1>3 DEF Task, Goto
<1> HIDE DEF u
<1>5. run' = run /\ target' = target /\ UNCHANGED <<queue, cleanup, target, run, routes>>
  BY DEF Dispatch
<1>6. WorkOK(u.work)'
  BY <1>1, <1>4, <1>5, SameRun, WorkFrame DEF TaskOK
<1>7. TaskOK(u)'
  BY <1>3, <1>4, <1>6 DEF TaskOK, Option, Reserving
<1>8. u.pc \notin Reserving /\ \A q \in Responses : ~Holds(t, q)
  BY <1>3, <1>4 DEF Reserving, Holds, Dispatch
<1> QED BY <1>1, <1>2, <1>4, <1>5, <1>7, <1>8, TaskQuiet

(* A request without a steering parent starts its execution.               *)
LEMMA FreshInv ==
    ASSUME TypeOK, LaneInv, TaskInv, RunInv, TargetInv, NEW t \in tasks, PrepareFresh(t)
    PROVE  TaskInv' /\ RunInv' /\ TargetInv'
<1>1. t \in Task /\ TaskOK(t) /\ t.work.lane \in Lanes /\ t.work.parent = {} /\ t.pc = "fresh"
  BY TaskHas DEF Task, Work, TaskOK, PrepareFresh
<1>2. CASE Errors(t, FALSE) /\ Evict(t.work.lane, t.work.prev) /\ UNCHANGED run
  <2>1. Forgets /\ t.pc \notin Reserving
    BY <1>1, <1>2, EvictForgets DEF Reserving
  <2> QED BY <1>1, <1>2, <2>1, ErrorsInv DEF PrepareFresh
<1>3. CASE StartGated(t, "register", <<>>) /\ UNCHANGED <<target, outbox, latest>>
  <2>a. \A q \in Responses : target'[q].lane = target[q].lane
    BY <1>3
  <2>b. PICK e : StartGated(t, "register", e)
    BY <1>3
  <2>c. PICK r \in Responses : \E u : Started(t, "register", r, u)
    BY <2>a, <2>b, StartFacts
  <2>d. PICK u : Started(t, "register", r, u)
    BY <2>c
  <2>1. /\ run[r].exec = "none" /\ Become(t, u)
        /\ u.work = t.work /\ u.pc = "register" /\ u.resp = {r} /\ run'[r].exec = "gated"
        /\ \A q \in Responses : /\ Older(q) /\ (q # r => Steady(q))
                                /\ run'[q].exec \in {"none", "gated"} => ~run'[q].created
    BY <2>d DEF Started
  <2>2. WorkOK(u.work)'
    BY <1>1, <2>1, WorkFrame DEF TaskOK
  <2>3. TaskOK(u)'
    BY <1>1, <2>1, <2>2 DEF TaskOK, Option, Reserving
  <2>4. UNCHANGED <<queue, cleanup, routes, latest, target>>
    BY <1>3 DEF PrepareFresh
  <2>5. \A q \in Responses : Whole(q) /\ ~Holds(t, q)
    BY <1>1, <2>4 DEF Whole, Holds
  <2>6. \A l \in Lanes : Option(latest'[l])
    BY <2>4 DEF TargetInv
  <2>7. PICK X \in SUBSET Responses : X = {}
    OBVIOUS
  <2>8. /\ \A x \in X : target[x].lane = t.work.lane /\ TargetOK(target, x)'
        /\ \A q \in Responses \ X : Whole(q) /\ (Holds(t, q) => Holds(u, q))
    BY <2>5, <2>7
  <2>9. \A q \in Responses : q \notin u.resp => Steady(q)
    BY <2>1
  <2>10. \A p \in u.work.parent : target'[p].phase = "Reserved"
    BY <1>1, <2>1
  <2> QED BY ONLY TypeOK, LaneInv, TaskInv, RunInv, TargetInv, t \in tasks, r \in Responses,
                  <2>1, <2>3, <2>4, <2>6, <2>8, <2>9, <2>10, TaskSteps
<1> QED BY <1>2, <1>3 DEF PrepareFresh

(* A successor is prepared with a snapshot of its parent's input.          *)
LEMMA PrepareInv ==
    ASSUME TypeOK, LaneInv, TaskInv, RunInv, TargetInv, NEW t \in tasks, PrepareSuccessor(t)
    PROVE  TaskInv' /\ RunInv' /\ TargetInv'
<1>1. /\ t \in Task /\ TaskOK(t) /\ t.work.lane \in Lanes /\ t.resp = {} /\ t.pc = "prepare"
      /\ t.work.parent # {} /\ t.work.parent \subseteq Responses
  BY TaskHas DEF Task, Work, TaskOK, PrepareSuccessor
<1>2. Forgets
  BY <1>1, EvictForgets DEF PrepareSuccessor
<1>3. t.pc \notin Reserving /\ t.pc # "done"
  BY <1>1 DEF Reserving
<1>4. CASE \E f \in BOOLEAN : Errors(t, f)
  BY <1>2, <1>3, <1>4, ErrorsInv DEF PrepareSuccessor
<1>5. CASE \E snap : Become(t, [t EXCEPT !.pc = "preparing", !.snap = snap]) /\
             UNCHANGED <<target, outbox>>
  <2>1. PICK snap : Become(t, [t EXCEPT !.pc = "preparing", !.snap = snap]) /\
          UNCHANGED <<target, outbox>>
    BY <1>5
  <2> DEFINE u == [t EXCEPT !.pc = "preparing", !.snap = snap]
  <2>2. u.work = t.work /\ u.resp = {} /\ u.pc = "preparing" /\ Become(t, u)
    BY <1>1, <2>1 DEF Task
  <2> HIDE DEF u
  <2>3. UNCHANGED <<queue, cleanup, target, run, routes>>
    BY <2>1 DEF PrepareSuccessor
  <2>4. WorkOK(u.work)'
    BY <1>1, <2>2, <2>3, SameRun, WorkFrame DEF TaskOK
  <2>5. TaskOK(u)'
    BY <1>1, <2>2, <2>4 DEF TaskOK, Option, Reserving
  <2>6. u.pc \notin Reserving /\ \A q \in Responses : ~Holds(t, q)
    BY <1>1, <2>2 DEF Reserving, Holds
  <2> QED BY <1>1, <1>2, <2>2, <2>3, <2>5, <2>6, TaskQuiet
<1>6. \A x, y : (x /\ y) \in BOOLEAN
  OBVIOUS
<1> QED BY <1>4, <1>5, <1>6 DEF PrepareSuccessor

(* A task at rest on its target: what its parent's lane and response are.  *)
LEMMA TaskFacts ==
    ASSUME TypeOK, TaskInv, NEW t \in tasks
    PROVE  /\ t \in Task /\ TaskOK(t) /\ t.work.lane \in Lanes
           /\ t.work.parent \subseteq Responses /\ t.resp \subseteq Responses
           /\ \A p \in t.work.parent : target[p].lane = t.work.lane /\ run[p].created
           /\ \A l \in Lanes : \A S : (UNCHANGED latest => Forgets) /\ (Evict(l, S) => Forgets)
<1>1. t \in Task /\ TaskOK(t) /\ t.work \in Work
  BY TaskHas
<1> QED BY <1>1, EvictForgets DEF Task, Work, TaskOK, WorkOK

(* Reserving the parent's target seals its batch for this task alone.      *)
LEMMA ReserveInv ==
    ASSUME TypeOK, LaneInv, TaskInv, RunInv, TargetInv, NEW t \in tasks, ReserveSuccessor(t)
    PROVE  TaskInv' /\ RunInv' /\ TargetInv'
<1> DEFINE p == The(t.work.parent)
<1>1. /\ t.resp = {} /\ t.pc = "preparing" /\ p \in Responses /\ t.work.parent = {p}
      /\ UNCHANGED <<queue, cleanup, routes, latest>>
  BY TaskHas DEF TaskOK, ReserveSuccessor
<1>2. Forgets
  BY <1>1, TaskFacts
<1>3. t.pc \notin Reserving /\ t.pc # "done" /\ \A q \in Responses : ~Holds(t, q)
  BY <1>1 DEF Reserving, Holds
<1> HIDE DEF p
<1>4. CASE Errors(t, FALSE) /\ UNCHANGED run
  BY <1>1, <1>2, <1>3, <1>4, ErrorsInv
<1>5. CASE Goto(t, "prepare") /\ UNCHANGED <<target, outbox, run>>
  <2> DEFINE u == [t EXCEPT !.pc = "prepare"]
  <2>1. u.work = t.work /\ u.resp = {} /\ u.pc = "prepare" /\ Become(t, u)
    BY <1>1, <1>5, TaskFacts DEF Task, Goto
  <2> HIDE DEF u
  <2>2. WorkOK(u.work)'
    BY <1>5, <2>1, TaskFacts, SameRun, WorkFrame DEF TaskOK
  <2>3. TaskOK(u)'
    BY <1>1, <2>1, <2>2 DEF TaskOK, Option, Reserving
  <2>4. u.pc \notin Reserving
    BY <2>1 DEF Reserving
  <2> QED BY <1>1, <1>2, <1>3, <1>5, <2>1, <2>3, <2>4, TaskQuiet
<1>6. CASE /\ target[p].phase = "Ready"
           /\ target' = [target EXCEPT ![p].phase = "Reserved",
                           ![p].batch = {[b EXCEPT !.queued = FALSE] : b \in @}]
           /\ StartGated(t, "flush", t.snap)
  <2> DEFINE sealed == {[b EXCEPT !.queued = FALSE] : b \in target[p].batch}
  <2>1. target[p] \in Target /\ TargetOK(target, p)
    BY <1>1 DEF TypeOK, TargetInv
  <2>2. /\ target'[p].phase = "Reserved" /\ target'[p].batch = sealed
        /\ target'[p].lane = target[p].lane
        /\ \A q \in Responses \ {p} : target'[q] = target[q]
    BY <1>1, <1>6, <2>1 DEF TypeOK, Target
  <2>3. \A q \in Responses : target'[q].lane = target[q].lane
    BY <2>2
  <2>4. PICK e : StartGated(t, "flush", e)
    BY <1>6
  <2>5. PICK r \in Responses : \E u : Started(t, "flush", r, u)
    BY <2>3, <2>4, StartFacts
  <2>6. PICK u : Started(t, "flush", r, u)
    BY <2>5
  <2>7. /\ run[r].exec = "none" /\ Become(t, u)
        /\ u.work = t.work /\ u.pc = "flush" /\ u.resp = {r} /\ run'[r].exec = "gated"
        /\ \A q \in Responses : /\ Older(q) /\ (q # r => Steady(q))
                                /\ run'[q].exec \in {"none", "gated"} => ~run'[q].created
    BY <2>6 DEF Started
  <2>8. WorkOK(u.work)'
    BY <2>7, TaskFacts, WorkFrame DEF TaskOK
  <2>9. TaskOK(u)'
    BY <1>1, <2>7, <2>8 DEF TaskOK, Option, Reserving
  <2>10. TargetOK(target, p)'
    <3>1. \A b \in target[p].batch : b \in Batch /\ b.entries # <<>>
      BY <2>1 DEF Target, TargetOK
    <3>2. \A b \in sealed : b.entries # <<>>
      BY <3>1 DEF Batch
    <3>3. Option(sealed) /\ (sealed # {} => target[p].batch # {})
      BY <2>1 DEF TargetOK, Option
    <3>4. sealed # {} => run'[p].created /\ p \in routes'
      BY <1>1, <2>1, <2>7, <3>3 DEF TargetOK, Older
    <3>5. p \notin cleanup'
      BY <1>1, <1>6, <2>1 DEF TargetOK
    <3>6. u \in tasks' /\ Holds(u, p)
      BY <1>1, <2>7 DEF Become, Holds, Reserving
    <3> HIDE DEF sealed
    <3> QED BY <2>2, <3>2, <3>3, <3>4, <3>5, <3>6 DEF TargetOK, Holds, Option
  <2>11. PICK X \in SUBSET Responses : X = {p}
    BY <1>1
  <2>12. \A x \in X : target[x].lane = t.work.lane /\ TargetOK(target, x)'
    BY <1>1, <2>10, <2>11, TaskFacts
  <2>13. \A q \in Responses \ X : Whole(q) /\ (Holds(t, q) => Holds(u, q))
    BY <1>1, <1>3, <2>2, <2>11 DEF Whole
  <2>14. \A q \in Responses : q \notin u.resp => Steady(q)
    BY <2>7
  <2>15. \A q \in u.work.parent : target'[q].phase = "Reserved"
    BY <1>1, <2>2, <2>7
  <2>16. \A l \in Lanes : Option(latest'[l])
    BY <1>1 DEF TargetInv
  <2> QED BY ONLY TypeOK, LaneInv, TaskInv, RunInv, TargetInv, t \in tasks, r \in Responses,
                  <1>1, <2>7, <2>9, <2>12, <2>13, <2>14, <2>15, <2>16, TaskSteps
<1> QED BY <1>4, <1>5, <1>6 DEF ReserveSuccessor, p

(* A task that waits for outcomes keeps its reservation.                   *)
LEMMA FlushInv ==
    ASSUME TypeOK, LaneInv, TaskInv, RunInv, TargetInv, NEW t \in tasks, FlushOutcomes(t)
    PROVE  TaskInv' /\ RunInv' /\ TargetInv'
<1> DEFINE p == The(t.work.parent)
           r == The(t.resp)
<1>1. /\ t.pc = "flush" /\ p \in Responses /\ t.work.parent = {p}
      /\ r \in Responses /\ t.resp = {r} /\ run[r].exec = "gated"
      /\ UNCHANGED <<queue, cleanup, routes, latest>>
  BY TaskHas DEF TaskOK, FlushOutcomes, Reserving
<1>2. Forgets
  BY <1>1, TaskFacts
<1> HIDE DEF p, r
<1>3. CASE run' = [run EXCEPT ![r].exec = "failed"] /\ Errors(t, TRUE)
  BY <1>1, <1>2, <1>3, ErrorsInv
<1>4. CASE Goto(t, "register") /\ UNCHANGED <<target, run, outbox>>
  <2> DEFINE u == [t EXCEPT !.pc = "register"]
  <2>1. u.work = t.work /\ u.resp = t.resp /\ u.pc = "register" /\ Become(t, u)
    BY <1>1, <1>4, TaskFacts DEF Task, Goto
  <2> HIDE DEF u
  <2>2. WorkOK(u.work)'
    BY <1>4, <2>1, TaskFacts, SameRun, WorkFrame DEF TaskOK
  <2>3. TaskOK(u)'
    BY <1>1, <1>4, <2>1, <2>2 DEF TaskOK, Option, Reserving
  <2>4. \A q \in Responses : Holds(t, q) => Holds(u, q)
    BY <2>1 DEF Holds, Reserving
  <2>5. \A q \in u.work.parent : target[q].phase = "Reserved"
    BY <1>1, <2>1 DEF TargetInv, Reserving
  <2> QED BY <1>1, <1>2, <1>4, <2>1, <2>3, <2>4, <2>5, TaskQuiet
<1> QED BY <1>3, <1>4 DEF FlushOutcomes, r

(* Commit_successor and fail_successor by the task that waits for it.      *)
LEMMA CommitInv ==
    ASSUME TypeOK, LaneInv, TaskInv, RunInv, TargetInv, NEW t \in tasks,
           NEW p \in Responses, t.work.parent = {p} \/ t.pc = "check",
           target[p].lane = t.work.lane,
           t.pc # "done", t.pc \in Reserving => t.work.parent = {p},
           target' = [target EXCEPT ![p] = Closed(@)], NEW u, Become(t, u),
           u.work = t.work, u.resp = t.resp, u.pc \in {"join", "finish", "failing"},
           u.pc # "failing" => t.resp # {},
           \A r \in t.resp : /\ u.pc = "join" => run[r].exec # "gated" /\
                                  target[r].lane = t.work.lane
                             /\ u.pc = "finish" => Terminal(r) /\ target[r].lane = t.work.lane,
           UNCHANGED <<queue, cleanup, routes, latest, run>>
    PROVE  TaskInv' /\ RunInv' /\ TargetInv'
<1>1. \A q \in Responses : target'[q].lane = target[q].lane
  <2>1. Closed(target[p]).lane = target[p].lane
    BY ClosedFacts DEF TypeOK
  <2> QED BY <2>1 DEF TypeOK
<1>2. \A q \in Responses : /\ Older(q) /\ Steady(q)
                           /\ run'[q].exec \in {"none", "gated"} => ~run'[q].created
  BY <1>1, SameRun DEF RunInv
<1>3. WorkOK(u.work)'
  BY <1>2, TaskFacts, WorkFrame DEF TaskOK
<1>4. TaskOK(u)'
  <2>1. \A r \in t.resp : r \in Responses /\ run'[r].exec # "none" /\
          target'[r].lane = target[r].lane
    BY <1>1, TaskFacts DEF TaskOK
  <2>2. Option(u.resp)
    BY TaskFacts DEF TaskOK
  <2>3. \A r \in t.resp : u.pc = "finish" => run'[r].exec # "gated" /\ Terminal(r)'
    BY DEF Terminal
  <2> QED BY <1>3, <2>1, <2>2, <2>3 DEF TaskOK, Reserving
<1>5. \A q \in Responses : Holds(t, q) => q = p
  BY DEF Holds, Reserving
<1>6. u.pc \notin Reserving
  BY DEF Reserving
<1>7. Forgets
  BY TaskFacts
<1> QED BY <1>2, <1>4, <1>5, <1>6, <1>7, TaskCloses

(* A created successor takes the batch of its parent; a waiter that gives  *)
(* up does not.                                                            *)
LEMMA AwaitInv ==
    ASSUME TypeOK, LaneInv, TaskInv, RunInv, TargetInv, NEW t \in tasks, AwaitCreated(t)
    PROVE  TaskInv' /\ RunInv' /\ TargetInv'
<1> DEFINE p == The(t.work.parent)
           r == The(t.resp)
<1>1. /\ t.pc = "publish" /\ p \in Responses /\ t.work.parent = {p} /\
           target[p].lane = t.work.lane
      /\ r \in Responses /\ t.resp = {r} /\ run[r].exec # "gated" /\
           target[r].lane = t.work.lane
      /\ UNCHANGED <<queue, cleanup, routes, latest, run>>
  BY TaskHas DEF TaskOK, WorkOK, AwaitCreated, Reserving
<1>2. target[p].phase = "Reserved"
  BY <1>1 DEF TargetInv, Reserving
<1> HIDE DEF p, r
<1>3. CASE CommitSuccessor(p) /\ Goto(t, "join")
  <2> DEFINE u == [t EXCEPT !.pc = "join"]
  <2>1. u.work = t.work /\ u.resp = t.resp /\ u.pc = "join" /\ Become(t, u)
    BY <1>1, <1>3, TaskFacts DEF Task, Goto
  <2> HIDE DEF u
  <2>2. target' = [target EXCEPT ![p] = Closed(@)]
    BY <1>3 DEF CommitSuccessor
  <2> QED BY <1>1, <2>1, <2>2, CommitInv
<1>4. CASE Goto(t, "cancelled") /\ UNCHANGED <<target, outbox>>
  <2> DEFINE u == [t EXCEPT !.pc = "cancelled"]
  <2>1. u.work = t.work /\ u.resp = t.resp /\ u.pc = "cancelled" /\ Become(t, u)
    BY <1>1, <1>4, TaskFacts DEF Task, Goto
  <2> HIDE DEF u
  <2>2. WorkOK(u.work)'
    BY <1>1, <1>4, <2>1, TaskFacts, SameRun, WorkFrame DEF TaskOK
  <2>3. \A q \in t.resp : run'[q].exec # "none"
    BY <1>1, TaskFacts DEF TaskOK
  <2>4. TaskOK(u)'
    BY <1>1, <1>4, <2>1, <2>2, <2>3 DEF TaskOK, Option, Reserving
  <2>5. \A q \in Responses : Holds(t, q) => Holds(u, q)
    BY <2>1 DEF Holds, Reserving
  <2>6. \A q \in u.work.parent : target[q].phase = "Reserved"
    BY <1>1, <1>2, <2>1
  <2>7. Forgets
    BY <1>1, TaskFacts
  <2> QED BY <1>1, <1>4, <2>1, <2>4, <2>5, <2>6, <2>7, TaskQuiet
<1> QED BY <1>2, <1>3, <1>4 DEF AwaitCreated, p

(* The receipt decides what a cancelled successor's parent keeps.          *)
LEMMA JoinCancelledInv ==
    ASSUME TypeOK, LaneInv, TaskInv, RunInv, TargetInv, NEW t \in tasks, JoinCancelled(t)
    PROVE  TaskInv' /\ RunInv' /\ TargetInv'
<1> DEFINE p == The(t.work.parent)
           r == The(t.resp)
<1>1. /\ t.pc = "cancelled" /\ p \in Responses /\ t.work.parent = {p} /\
           target[p].lane = t.work.lane
      /\ r \in Responses /\ t.resp = {r} /\ Terminal(r) /\ target[r].lane = t.work.lane
      /\ UNCHANGED <<queue, cleanup, routes, latest, run>>
  BY TaskHas DEF TaskOK, WorkOK, JoinCancelled, Reserving
<1> HIDE DEF p, r
<1>2. CASE CommitSuccessor(p) /\ Goto(t, "finish")
  <2> DEFINE u == [t EXCEPT !.pc = "finish"]
  <2>1. u.work = t.work /\ u.resp = t.resp /\ u.pc = "finish" /\ Become(t, u)
    BY <1>1, <1>2, TaskFacts DEF Task, Goto
  <2> HIDE DEF u
  <2>2. target' = [target EXCEPT ![p] = Closed(@)]
    BY <1>2 DEF CommitSuccessor
  <2> QED BY <1>1, <2>1, <2>2, CommitInv
<1>3. CASE /\ FailSuccessor(p)
           /\ Become(t, [t EXCEPT !.pc = "failing", !.wait = {p}, !.fatal = ~t.work.auto])
  <2> DEFINE u == [t EXCEPT !.pc = "failing", !.wait = {p}, !.fatal = ~t.work.auto]
  <2>1. u.work = t.work /\ u.resp = t.resp /\ u.pc = "failing" /\ Become(t, u)
    BY <1>1, <1>3, TaskFacts DEF Task
  <2> HIDE DEF u
  <2>2. target' = [target EXCEPT ![p] = Closed(@)]
    BY <1>3 DEF FailSuccessor
  <2> QED BY <1>1, <2>1, <2>2, CommitInv
<1> QED BY <1>2, <1>3 DEF JoinCancelled, p

(* Registering a route opens its target and ungates the execution.         *)
LEMMA RegisterInv ==
    ASSUME TypeOK, LaneInv, TaskInv, RunInv, TargetInv, NEW t \in tasks, Register(t), ~Close
    PROVE  TaskInv' /\ RunInv' /\ TargetInv'
<1> DEFINE r    == The(t.resp)
           tg   == ReleaseInactive(target)
           old  == {q \in routes : Terminal(q) /\ target[q].batch = {}}
           kept == IF Cardinality(routes) < MaxRoutes THEN {routes}
                     ELSE {routes \ {q} : q \in old}
           pc   == IF t.work.parent = {} THEN "join" ELSE "publish"
           u    == [t EXCEPT !.pc = pc]
<1>1. /\ t.pc = "register" /\ r \in Responses /\ t.resp = {r} /\ run[r].exec = "gated"
      /\ ~run[r].created
  BY TaskHas DEF TaskOK, Register, Reserving, RunInv
<1>2. \A rs \in kept : \A q \in routes : target[q].batch # {} => q \in rs
  OBVIOUS
<1> HIDE DEF kept, r
<1>3. PICK rs \in kept, config \in Settings :
        /\ routes' = rs \cup {r}
        /\ target' = [tg EXCEPT ![r].lane = t.work.lane,
                        ![r].supported = config # "unsupported",
                        ![r].settings = config = "steerable"]
        /\ run' = [run EXCEPT ![r].exec = "running"]
        /\ Goto(t, pc)
        /\ UNCHANGED <<conn, expired, active, queue, creates, latest, cleanup, outbox,
             told, fate>>
  BY DEF Register, kept, r
<1>4. tg \in [Responses -> Target]
      /\ \A q \in Responses : /\ tg[q].lane = target[q].lane /\ tg[q].phase = target[q].phase
                              /\ tg[q].supported = target[q].supported
                              /\ tg[q].batch = target[q].batch
                              /\ tg[q].batch # {} => tg[q].settings = target[q].settings
  BY ReleaseFacts DEF TypeOK
<1> HIDE DEF tg
<1>5. /\ \A q \in Responses \ {r} : target'[q] = tg[q]
      /\ target'[r].lane = t.work.lane /\ target'[r].phase = tg[r].phase /\
           target'[r].batch = tg[r].batch
  <2>1. tg[r] \in Target
    BY <1>1, <1>4
  <2>2. /\ \A q \in Responses \ {r} : target'[q] = tg[q]
        /\ target'[r] = [tg[r] EXCEPT !.lane = t.work.lane,
             !.supported = config # "unsupported",
                           !.settings = config = "steerable"]
    BY <1>1, <1>3, <1>4
  <2> QED BY <2>1, <2>2 DEF Target
<1>6. /\ \A q \in Responses \ {r} : run'[q] = run[q]
      /\ run'[r].exec = "running"
  BY <1>1, <1>3 DEF TypeOK, Run
<1>7. \A q \in Responses : /\ Older(q) /\ (q # r => Steady(q))
                           /\ run'[q].exec \in {"none", "gated"} => ~run'[q].created
  BY <1>1, <1>4, <1>5, <1>6 DEF Older, Steady, Terminal, RunInv
<1>8. \A q \in Responses \ {r} : Whole(q)
  BY <1>2, <1>3, <1>4, <1>5 DEF Whole
<1>9. TargetOK(target, r) /\ target[r].batch = {} /\
        target[r].phase \notin {"Ready", "Reserved"}
  <2>1. TargetOK(target, r)
    BY <1>1 DEF TargetInv
  <2>2. ASSUME target[r].phase = "Reserved" PROVE FALSE
    <3>1. PICK x \in tasks : Holds(x, r)
      BY <2>1, <2>2 DEF TargetOK
    <3> QED BY <1>1, <3>1, TaskFacts DEF Holds
  <2> QED BY <1>1, <2>1, <2>2 DEF TargetOK, Terminal
<1>10. TargetOK(target, r)'
  <2>1. target'[r].batch = {} /\ target'[r].phase \notin {"Ready", "Reserved"}
    BY <1>1, <1>4, <1>5, <1>9
  <2>2. r \in cleanup' => target'[r].phase = "Closed"
    BY <1>1, <1>3, <1>4, <1>5, <1>9 DEF TargetOK
  <2> QED BY <2>1, <2>2 DEF TargetOK, Option
<1>11. u.work = t.work /\ u.resp = t.resp /\ u.pc = pc /\ Become(t, u)
  BY <1>3, TaskFacts DEF Task, Goto
<1> HIDE DEF u
<1>12. WorkOK(u.work)'
  BY <1>7, <1>11, TaskFacts, WorkFrame DEF TaskOK
<1>13. TaskOK(u)'
  BY <1>1, <1>5, <1>6, <1>11, <1>12 DEF TaskOK, Option, Reserving
<1>14. \A q \in u.work.parent : target'[q].phase = "Reserved" /\ target[q].phase = "Reserved"
  <2>1. \A q \in t.work.parent : q \in Responses \ {r} /\ target[q].phase = "Reserved"
    BY <1>1, TaskFacts DEF TargetInv, Reserving
  <2> QED BY <1>4, <1>5, <1>11, <2>1
<1>15. PICK X \in SUBSET Responses : X = {r}
  BY <1>1
<1>16. \A x \in X : ~run[x].created /\ TargetOK(target, x)'
  BY <1>1, <1>10, <1>15
<1>17. \A q \in Responses \ X : Whole(q) /\ (Holds(t, q) => Holds(u, q))
  BY <1>8, <1>11, <1>15 DEF Holds, Reserving
<1>18. \A q \in Responses : q \notin u.resp => Steady(q)
  BY <1>1, <1>7, <1>11
<1>19. \A l \in Lanes : Option(latest'[l])
  BY <1>3 DEF TargetInv
<1>20. UNCHANGED <<queue, cleanup>>
  BY <1>3
<1> QED BY ONLY TypeOK, LaneInv, TaskInv, RunInv, TargetInv, t \in tasks, <1>7, <1>11, <1>13,
                <1>14, <1>16, <1>17, <1>18, <1>19, <1>20, TaskSteps

(* A task that joins its execution finds it ended.                         *)
LEMMA JoinRunInv ==
    ASSUME TypeOK, LaneInv, TaskInv, RunInv, TargetInv, NEW t \in tasks, JoinRun(t)
    PROVE  TaskInv' /\ RunInv' /\ TargetInv'
<1> DEFINE r == The(t.resp)
<1>1. /\ t.pc = "join" /\ r \in Responses /\ t.resp = {r} /\ Terminal(r)
      /\ target[r].lane = t.work.lane
      /\ UNCHANGED <<queue, cleanup, routes, latest, run>>
  BY TaskHas DEF TaskOK, JoinRun, Reserving
<1>2. Forgets /\ t.pc \notin Reserving
  BY <1>1, TaskFacts DEF Reserving
<1>3. CASE \E f \in BOOLEAN : Errors(t, f)
  BY <1>1, <1>2, <1>3, ErrorsInv
<1>4. CASE Goto(t, "finish") /\ UNCHANGED <<target, outbox>>
  <2> DEFINE u == [t EXCEPT !.pc = "finish"]
  <2>1. u.work = t.work /\ u.resp = t.resp /\ u.pc = "finish" /\ Become(t, u)
    BY <1>4, TaskFacts DEF Task, Goto
  <2> HIDE DEF u, r
  <2>2. WorkOK(u.work)'
    BY <1>1, <1>4, <2>1, TaskFacts, SameRun, WorkFrame DEF TaskOK
  <2>3. run'[r].exec \notin {"none", "gated"} /\ Terminal(r)'
    BY <1>1 DEF Terminal
  <2>4. TaskOK(u)'
    BY <1>1, <1>4, <2>1, <2>2, <2>3 DEF TaskOK, Option, Reserving
  <2>5. u.pc \notin Reserving /\ \A q \in Responses : ~Holds(t, q)
    BY <1>1, <2>1 DEF Holds, Reserving
  <2> QED BY <1>1, <1>2, <1>4, <2>1, <2>4, <2>5, TaskQuiet
<1> QED BY <1>3, <1>4 DEF JoinRun, r

(* A batch without a parent checkpoint is failed.                          *)
LEMMA CheckInv ==
    ASSUME TypeOK, LaneInv, TaskInv, RunInv, TargetInv, NEW t \in tasks, CheckParent(t)
    PROVE  TaskInv' /\ RunInv' /\ TargetInv'
<1> DEFINE r == The(t.resp)
<1>1. /\ t.pc = "check" /\ r \in Responses /\ t.resp = {r} /\ target[r].lane = t.work.lane
      /\ UNCHANGED <<queue, cleanup, routes, latest, run>>
  BY TaskHas DEF TaskOK, CheckParent, Reserving
<1>2. Forgets /\ t.pc \notin Reserving
  BY <1>1, TaskFacts DEF Reserving
<1> HIDE DEF r
<1>3. CASE /\ FailSuccessor(r)
           /\ Become(t, [t EXCEPT !.pc = "failing", !.wait = {r}, !.fatal = ~t.work.auto])
  <2> DEFINE u == [t EXCEPT !.pc = "failing", !.wait = {r}, !.fatal = ~t.work.auto]
  <2>1. u.work = t.work /\ u.resp = t.resp /\ u.pc = "failing" /\ Become(t, u)
    BY <1>3, TaskFacts DEF Task
  <2> HIDE DEF u
  <2>2. target' = [target EXCEPT ![r] = Closed(@)]
    BY <1>3 DEF FailSuccessor
  <2> QED BY <1>1, <1>2, <2>1, <2>2, CommitInv
<1>4. CASE Goto(t, "done") /\ UNCHANGED <<target, outbox>>
  <2> DEFINE u == [t EXCEPT !.pc = "done"]
  <2>1. u.work = t.work /\ u.resp = t.resp /\ u.pc = "done" /\ Become(t, u)
    BY <1>4, TaskFacts DEF Task, Goto
  <2> HIDE DEF u
  <2>2. TaskOK(u)'
    BY <1>1, <1>4, <2>1, TaskFacts, SameRun, EndsOK
  <2>3. u.pc \notin Reserving /\ \A q \in Responses : ~Holds(t, q)
    BY <1>1, <2>1 DEF Holds, Reserving
  <2> QED BY <1>1, <1>2, <1>4, <2>1, <2>2, <2>3, TaskQuiet
<1> QED BY <1>3, <1>4 DEF CheckParent, r

(* fail_successor returns.                                                 *)
LEMMA FailedInv ==
    ASSUME TypeOK, LaneInv, TaskInv, RunInv, TargetInv, NEW t \in tasks, Failed(t)
    PROVE  TaskInv' /\ RunInv' /\ TargetInv'
<1>1. t.pc = "failing" /\ UNCHANGED <<queue, cleanup, routes, latest, run, target>>
  BY DEF Failed
<1>2. Forgets
  BY <1>1, TaskFacts
<1>3. PICK f : Become(t, [t EXCEPT !.pc = "done", !.fatal = f])
  <2>1. [t EXCEPT !.pc = "done"] = [t EXCEPT !.pc = "done", !.fatal = t.fatal]
    BY TaskFacts DEF Task
  <2> QED BY <2>1 DEF Failed, Goto
<1> DEFINE u == [t EXCEPT !.pc = "done", !.fatal = f]
<1>4. u.work = t.work /\ u.resp = t.resp /\ u.pc = "done" /\ Become(t, u)
  BY <1>3, TaskFacts DEF Task
<1> HIDE DEF u
<1>5. TaskOK(u)'
  BY <1>1, <1>4, TaskFacts, SameRun, EndsOK
<1>6. u.pc \notin Reserving /\ \A q \in Responses : ~Holds(t, q)
  BY <1>1, <1>4 DEF Holds, Reserving
<1> QED BY <1>1, <1>2, <1>4, <1>5, <1>6, TaskQuiet

(* A completed target becomes ready, closes, or fails its batch.           *)
LEMMA MarkReadyInv ==
    ASSUME TypeOK, LaneInv, TaskInv, RunInv, TargetInv, NEW t \in tasks, MarkReady(t)
    PROVE  TaskInv' /\ RunInv' /\ TargetInv'
<1> DEFINE r   == The(t.resp)
           pin == IF latest[target[r].lane] = {r} THEN run[r].need ELSE "none"
           new == [target EXCEPT ![r].phase = "Ready"]
<1>1. /\ t.pc = "finish" /\ r \in Responses /\ t.resp = {r} /\ target[r].lane = t.work.lane
      /\ Terminal(r) /\ TargetOK(target, r)
      /\ UNCHANGED <<queue, cleanup, routes, latest, run>>
  BY TaskHas DEF TaskOK, MarkReady, Reserving, TargetInv
<1>2. Forgets /\ t.pc \notin Reserving /\ \A q \in Responses : ~Holds(t, q)
  BY <1>1, TaskFacts DEF Reserving, Holds
<1>3. target[r] \in Target /\ target \in [Responses -> Target]
  BY <1>1 DEF TypeOK
<1>n. new \in [Responses -> Target] /\ new[r] = [target[r] EXCEPT !.phase = "Ready"]
  BY <1>1, <1>3 DEF Target
<1> HIDE DEF r
<1>4. ASSUME NEW u, u.work = t.work, u.resp = t.resp, u.pc \in {"check", "done"}, Become(t, u),
             target[r].phase = "Running",
             target'[r].phase = "Ready", target'[r].lane = target[r].lane,
             target'[r].settings = target[r].settings,
             \A q \in Responses \ {r} : target'[q] = target[q],
             Option(target'[r].batch), \A b \in target'[r].batch : b.entries # <<>>,
             target'[r].batch # {} => target[r].batch # {},
             run[r].need = "malformed" /\ target'[r].supported => latest[target[r].lane] # {r}
      PROVE  TaskInv' /\ RunInv' /\ TargetInv'
  <2>1. \A q \in Responses : target'[q].lane = target[q].lane
    BY <1>4
  <2>2. \A q \in Responses : /\ Older(q) /\ Steady(q)
                             /\ run'[q].exec \in {"none", "gated"} => ~run'[q].created
    BY <1>1, <2>1, SameRun DEF RunInv
  <2>3. WorkOK(u.work)'
    BY <1>4, <2>2, TaskFacts, WorkFrame DEF TaskOK
  <2>4. run'[r].exec \notin {"none", "gated"} /\ Terminal(r)'
    BY <1>1 DEF Terminal
  <2>5. TaskOK(u)'
    BY <1>1, <1>4, <2>3, <2>4 DEF TaskOK, Option, Reserving
  <2>6. r \notin cleanup'
    BY <1>1, <1>4 DEF TargetOK
  <2>7. target'[r].batch # {} => run'[r].created /\ r \in routes' /\ target'[r].settings
    BY <1>1, <1>4 DEF TargetOK
  <2>8. TargetOK(target, r)'
    BY <1>1, <1>4, <2>4, <2>6, <2>7 DEF TargetOK, Option
  <2>9. PICK X \in SUBSET Responses : X = {r}
    BY <1>1
  <2>10. \A x \in X : target[x].lane = t.work.lane /\ TargetOK(target, x)'
    BY <1>1, <2>8, <2>9
  <2>11. \A q \in Responses \ X : Whole(q) /\ (Holds(t, q) => Holds(u, q))
    BY <1>1, <1>2, <1>4, <2>9 DEF Whole
  <2>12. u.pc \notin Reserving /\ u.work = t.work /\ u.resp = t.resp /\ Become(t, u)
    BY <1>4 DEF Reserving
  <2>13. \A l \in Lanes : Option(latest'[l])
    BY <1>1 DEF TargetInv
  <2> QED BY ONLY TypeOK, LaneInv, TaskInv, RunInv, TargetInv, t \in tasks, <1>1, <2>2, <2>5,
                  <2>10, <2>11, <2>12, <2>13, TaskSteps
<1>5. ASSUME NEW pc \in {"check", "done"}
      PROVE  [t EXCEPT !.pc = pc] = [t EXCEPT !.pc = pc, !.fatal = t.fatal]
  BY TaskFacts DEF Task
<1>6. ASSUME NEW pc, NEW f
      PROVE  /\ [t EXCEPT !.pc = pc, !.fatal = f].work = t.work
             /\ [t EXCEPT !.pc = pc, !.fatal = f].resp = t.resp
             /\ [t EXCEPT !.pc = pc, !.fatal = f].pc = pc
  BY TaskFacts DEF Task
<1>7. CASE Goto(t, "check") /\ UNCHANGED <<target, outbox>> /\ target[r].phase # "Running"
  <2> DEFINE u == [t EXCEPT !.pc = "check", !.fatal = t.fatal]
  <2>1. u.work = t.work /\ u.resp = t.resp /\ u.pc = "check" /\ Become(t, u)
    BY <1>5, <1>6, <1>7 DEF Goto
  <2> HIDE DEF u
  <2>2. WorkOK(u.work)'
    BY <1>1, <1>7, <2>1, TaskFacts, SameRun, WorkFrame DEF TaskOK
  <2>3. run'[r].exec \notin {"none", "gated"} /\ Terminal(r)'
    BY <1>1 DEF Terminal
  <2>4. TaskOK(u)'
    BY <1>1, <1>7, <2>1, <2>2, <2>3 DEF TaskOK, Option, Reserving
  <2>5. u.pc \notin Reserving
    BY <2>1 DEF Reserving
  <2> QED BY <1>1, <1>2, <1>7, <2>1, <2>4, <2>5, TaskQuiet
<1>8. CASE /\ target[r].phase = "Running"
           /\ target' = [new EXCEPT ![r].supported = FALSE] /\ Goto(t, "check")
  <2> DEFINE u == [t EXCEPT !.pc = "check", !.fatal = t.fatal]
  <2>1. u.work = t.work /\ u.resp = t.resp /\ u.pc = "check" /\ Become(t, u)
    BY <1>5, <1>6, <1>8 DEF Goto
  <2> HIDE DEF u
  <2>2. /\ target'[r] = [new[r] EXCEPT !.supported = FALSE]
        /\ \A q \in Responses \ {r} : target'[q] = target[q]
    BY <1>1, <1>3, <1>8, <1>n
  <2>3. /\ target'[r].phase = "Ready" /\ target'[r].lane = target[r].lane
        /\ target'[r].settings = target[r].settings /\ target'[r].batch = target[r].batch
        /\ ~target'[r].supported
    BY <1>3, <1>n, <2>2 DEF Target
  <2>4. Option(target[r].batch) /\ \A b \in target[r].batch : b.entries # <<>>
    BY <1>1 DEF TargetOK
  <2> QED BY <1>4, <1>8, <2>1, <2>2, <2>3, <2>4
<1>9. CASE /\ target[r].phase = "Running" /\ pin # "malformed"
           /\ target' = [new EXCEPT ![r].batch = {[b EXCEPT !.pin = pin] : b \in @}]
           /\ \E f : \E pc \in {"check", "done"} : Become(t, [t EXCEPT !.pc = pc, !.fatal = f])
  <2>1. PICK f : \E pc \in {"check", "done"} : Become(t, [t EXCEPT !.pc = pc, !.fatal = f])
    BY <1>9
  <2>2. PICK pc \in {"check", "done"} : Become(t, [t EXCEPT !.pc = pc, !.fatal = f])
    BY <2>1
  <2> DEFINE u == [t EXCEPT !.pc = pc, !.fatal = f]
             pinned == {[b EXCEPT !.pin = pin] : b \in target[r].batch}
  <2>3. u.work = t.work /\ u.resp = t.resp /\ u.pc \in {"check", "done"} /\ Become(t, u)
    BY <1>6, <2>2
  <2> HIDE DEF u
  <2>4. new[r].batch = target[r].batch
    BY <1>3, <1>n DEF Target
  <2>5. /\ target'[r] = [new[r] EXCEPT !.batch = pinned]
        /\ \A q \in Responses \ {r} : target'[q] = target[q]
    BY <1>1, <1>3, <1>9, <1>n, <2>4
  <2>6. Option(pinned) /\ \A b \in pinned : b.entries # <<>>
    <3>1. \A b \in target[r].batch : b \in Batch /\ b.entries # <<>>
      BY <1>1, <1>3 DEF Target, TargetOK
    <3>2. \A b \in pinned : b.entries # <<>>
      BY <3>1 DEF Batch
    <3> QED BY <1>1, <3>2 DEF TargetOK, Option
  <2>7. pinned # {} => target[r].batch # {}
    OBVIOUS
  <2>8. run[r].need = "malformed" => latest[target[r].lane] # {r}
    BY <1>9
  <2> HIDE DEF pinned, pin
  <2>9. /\ target'[r].phase = "Ready" /\ target'[r].lane = target[r].lane
        /\ target'[r].settings = target[r].settings /\ target'[r].batch = pinned
    BY <1>3, <1>n, <2>5 DEF Target
  <2> QED BY <1>4, <1>9, <2>3, <2>5, <2>6, <2>7, <2>8, <2>9
<1>10. \A pc \in {"check", "done"} : Goto(t, pc) =>
         Become(t, [t EXCEPT !.pc = pc, !.fatal = t.fatal])
  BY <1>5 DEF Goto
<1> HIDE DEF new, pin
<1>11. \/ target[r].phase # "Running" /\ Goto(t, "check") /\ UNCHANGED <<target, outbox>>
       \/ target[r].phase = "Running" /\ target' = [new EXCEPT ![r].supported = FALSE] /\
            Goto(t, "check")
       \/ /\ target[r].phase = "Running" /\ ~Malformed(pin)
          /\ target' = [new EXCEPT ![r].batch = {[b EXCEPT !.pin = pin] : b \in @}]
          /\ Goto(t, "check") \/ Become(t, [t EXCEPT !.pc = "done", !.fatal = ~t.work.auto])
  BY DEF MarkReady, r, pin, new
<1> QED BY <1>7, <1>8, <1>9, <1>10, <1>11 DEF Malformed

(* Whatever a task does but end.                                           *)
LEMMA TaskStepInv ==
    ASSUME TypeOK, LaneInv, TaskInv, RunInv, TargetInv, NEW t \in tasks, TaskStep(t),
             ~Finish(t), ~Close
    PROVE  TaskInv' /\ RunInv' /\ TargetInv'
BY DispatchInv, FreshInv, PrepareInv, ReserveInv, FlushInv, RegisterInv, AwaitInv,
   JoinCancelledInv,
   JoinRunInv, MarkReadyInv, CheckInv, FailedInv DEF TaskStep

-----------------------------------------------------------------------------
(* The connection's own steps *)

LEMMA CloseInv ==
    ASSUME Close
    PROVE  TaskInv' /\ RunInv' /\ TargetInv'
<1>1. /\ tasks' = {} /\ queue' = NoWork /\ cleanup' = {} /\ latest' = [l \in Lanes |-> {}]
      /\ \A r \in Responses : run'[r] = NoRun /\ target'[r] = NoTarget
  BY DEF Close
<1>2. \A l \in Lanes : 1 .. Len(NoWork[l]) = {}
  BY DEF NoWork
<1>3. TaskInv'
  BY <1>1, <1>2 DEF TaskInv
<1>4. RunInv'
  BY <1>1 DEF RunInv, NoRun
<1>5. TargetInv'
  <2>1. \A p \in Responses : target'[p].phase = "Running" /\ target'[p].batch = {}
    <3>1. NoTarget.phase = "Running" /\ NoTarget.batch = {}
      BY DEF NoTarget
    <3> QED BY <1>1, <3>1
  <2>2. \A p \in Responses : TargetOK(target, p)'
    BY <1>1, <2>1 DEF TargetOK, Option
  <2>3. \A l \in Lanes : Option(latest'[l])
    BY <1>1 DEF Option
  <2> QED BY <1>1, <2>2, <2>3 DEF TargetInv
<1> QED BY <1>3, <1>4, <1>5

(* A step of the connection, an execution or a worker: tasks only start,   *)
(* or end holding nothing, and queued work is still in order.              *)
LEMMA ConnSteps ==
    ASSUME TypeOK, TaskInv, RunInv, TargetInv,
           \A u \in tasks' : u \in tasks \/ (TaskOK(u)' /\ u.resp = {} /\ u.pc = "spawned"),
           \A t \in tasks : t \in tasks' \/ \A p \in Responses : ~Holds(t, p),
           (\A l \in Lanes : \A i \in 1 .. Len(queue[l]) : WorkOK(queue[l][i]))',
           NEW X \in SUBSET Responses,
           \A x \in X : /\ TargetOK(target, x)'
                        /\ target[x].phase = "Reserved" => target'[x].phase = "Reserved",
           \A q \in Responses : /\ Older(q) /\ Steady(q)
                                /\ run'[q].exec \in {"none", "gated"} => ~run'[q].created,
           \A q \in Responses \ X : Whole(q),
           \A l \in Lanes : Option(latest'[l])
    PROVE  TaskInv' /\ RunInv' /\ TargetInv'
<1>1. RunInv'
  BY DEF RunInv
<1>2. \A u \in tasks' : TaskOK(u)'
  BY TaskFacts, TaskFrame
<1>3. \A u, v \in tasks' : u.resp \cap v.resp # {} => u = v
  BY DEF TaskInv
<1>4. TaskInv'
  BY <1>2, <1>3 DEF TaskInv
<1>5. ASSUME NEW p \in Responses PROVE TargetOK(target, p)'
  <2>1. CASE p \in X
    BY <2>1
  <2>2. CASE p \notin X
    BY <2>2, TargetFrame DEF TargetInv
  <2> QED BY <2>1, <2>2
<1>6. ASSUME NEW u \in tasks', u.pc \in Reserving, NEW p \in u.work.parent
      PROVE  target'[p].phase = "Reserved"
  <2>1. u \in tasks
    BY <1>6 DEF Reserving
  <2>2. target[p].phase = "Reserved" /\ p \in Responses
    BY <1>6, <2>1, TaskFacts DEF TargetInv
  <2> QED BY <2>2 DEF Whole
<1>7. TargetInv'
  BY <1>5, <1>6 DEF TargetInv
<1> QED BY <1>1, <1>4, <1>7

(* Work in a queue stays sound.                                            *)
LEMMA QueueWork ==
    ASSUME TypeOK, TaskInv, \A q \in Responses : Older(q)
    PROVE  \A l \in Lanes : \A j \in 1 .. Len(queue[l]) : \A w : w = queue[l][j] => WorkOK(w)'
<1> SUFFICES ASSUME NEW l \in Lanes, NEW j \in 1 .. Len(queue[l]), NEW w, w = queue[l][j]
             PROVE  WorkOK(w)'
  OBVIOUS
<1>1. w \in Work /\ WorkOK(w)
  BY DEF TypeOK, TaskInv
<1>2. w.parent \subseteq Responses
  BY <1>1 DEF Work
<1> QED BY <1>1, <1>2, WorkFrame

(* Queued work that only moves up stays sound.                             *)
LEMMA QueueKept ==
    ASSUME TypeOK, TaskInv, \A q \in Responses : Older(q),
           \A l \in Lanes : \A i \in 1 .. Len(queue'[l]) :
             \E j \in 1 .. Len(queue[l]) : queue'[l][i] = queue[l][j]
    PROVE  (\A l \in Lanes : \A i \in 1 .. Len(queue[l]) : WorkOK(queue[l][i]))'
<1>1. \A l \in Lanes : \A j \in 1 .. Len(queue[l]) : \A w : w = queue[l][j] => WorkOK(w)'
  BY QueueWork
<1>2. ASSUME NEW l \in Lanes, NEW i \in 1 .. Len(queue'[l]), NEW w,
               w = queue'[l][i] PROVE WorkOK(w)'
  BY <1>1, <1>2
<1> QED BY <1>2 DEF WorkOK

(* Queued work that stays, or is dropped, stays sound.                     *)
LEMMA QueueSame ==
    ASSUME TypeOK, TaskInv, \A q \in Responses : Older(q), queue' = queue \/ queue' = NoWork
    PROVE  (\A l \in Lanes : \A i \in 1 .. Len(queue[l]) : WorkOK(queue[l][i]))'
<1>1. \A l \in Lanes : 1 .. Len(NoWork[l]) = {}
  BY DEF NoWork
<1>2. \A l \in Lanes : \A i \in 1 .. Len(queue'[l]) :
        \E j \in 1 .. Len(queue[l]) : queue'[l][i] = queue[l][j]
  BY <1>1
<1> QED BY <1>2, QueueKept

(* A step that touches no task.                                            *)
LEMMA WorldSteps ==
    ASSUME TypeOK, TaskInv, RunInv, TargetInv, tasks' = tasks, queue' = queue \/
             queue' = NoWork,
           NEW X \in SUBSET Responses,
           \A x \in X : /\ TargetOK(target, x)'
                        /\ target[x].phase = "Reserved" => target'[x].phase = "Reserved",
           \A q \in Responses : /\ Older(q) /\ Steady(q)
                                /\ run'[q].exec \in {"none", "gated"} => ~run'[q].created,
           \A q \in Responses \ X : Whole(q),
           \A l \in Lanes : Option(latest'[l])
    PROVE  TaskInv' /\ RunInv' /\ TargetInv'
<1>1. (\A l \in Lanes : \A i \in 1 .. Len(queue[l]) : WorkOK(queue[l][i]))'
  BY QueueSame
<1> QED BY <1>1, ConnSteps

(* A step that touches neither a task nor a target.                        *)
LEMMA WorldQuiet ==
    ASSUME TypeOK, TaskInv, RunInv, TargetInv, tasks' = tasks, queue' = queue \/
             queue' = NoWork,
           \A q \in Responses : /\ Older(q) /\ Steady(q)
                                /\ run'[q].exec \in {"none", "gated"} => ~run'[q].created,
           \A q \in Responses : Whole(q),
           \A l \in Lanes : Option(latest'[l])
    PROVE  TaskInv' /\ RunInv' /\ TargetInv'
<1>1. PICK X \in SUBSET Responses : X = {}
  OBVIOUS
<1>2. \A x \in X : /\ TargetOK(target, x)'
                   /\ target[x].phase = "Reserved" => target'[x].phase = "Reserved"
  BY <1>1
<1>3. \A q \in Responses \ X : Whole(q)
  OBVIOUS
<1> QED BY <1>2, <1>3, WorldSteps

(* Publishing response.created.                                            *)
LEMMA PublishInv ==
    ASSUME TypeOK, TaskInv, RunInv, TargetInv, NEW r \in Responses, PublishCreated(r)
    PROVE  TaskInv' /\ RunInv' /\ TargetInv'
<1>1. UNCHANGED <<tasks, queue, latest, routes, cleanup, target>> /\ run[r].exec = "running"
  BY DEF PublishCreated, laneVars
<1>2. /\ \A q \in Responses \ {r} : run'[q] = run[q]
      /\ run'[r] = [run[r] EXCEPT !.created = TRUE]
  BY DEF PublishCreated, TypeOK
<1>3. run'[r].exec = run[r].exec /\ run'[r].created /\ run'[r].need = run[r].need
  BY <1>2 DEF TypeOK, Run
<1>4. \A q \in Responses : /\ Older(q) /\ Steady(q) /\ Whole(q)
                           /\ run'[q].exec \in {"none", "gated"} => ~run'[q].created
  BY <1>1, <1>2, <1>3 DEF Older, Steady, Whole, Terminal, RunInv
<1>5. \A l \in Lanes : Option(latest'[l])
  BY <1>1 DEF TargetInv
<1> QED BY <1>1, <1>4, <1>5, WorldQuiet

(* An execution ends; what it cached names at most its own response.       *)
LEMMA EndInv ==
    ASSUME TypeOK, TaskInv, RunInv, TargetInv, NEW r \in Responses, EndRun(r)
    PROVE  TaskInv' /\ RunInv' /\ TargetInv'
<1> DEFINE l == target[r].lane
<1>1. /\ UNCHANGED <<tasks, queue, routes, cleanup, target>> /\ run[r].exec = "running"
      /\ l \in Lanes /\ latest \in [Lanes -> SUBSET Responses]
  BY DEF EndRun, laneVars, TypeOK, Target
<1>2. PICK e \in {"committed", "failed", "aborted"}, n \in {"free", "input", "malformed"} :
        run' = [run EXCEPT ![r].exec = e, ![r].need = n]
  <2>1. ASSUME NEW e, run' = [run EXCEPT ![r].exec = e]
        PROVE  run' = [run EXCEPT ![r].exec = e, ![r].need = run[r].need]
    BY <2>1 DEF TypeOK, Run
  <2>2. run[r].need \in {"free", "input", "malformed"}
    BY DEF TypeOK, Run
  <2> QED BY <2>1, <2>2 DEF EndRun
<1>3. /\ \A q \in Responses \ {r} : run'[q] = run[q]
      /\ run'[r] = [run[r] EXCEPT !.exec = e, !.need = n]
  BY <1>2 DEF TypeOK
<1>4. run'[r].exec = e /\ run'[r].created = run[r].created
  BY <1>3 DEF TypeOK, Run
<1>5. PICK kept \in {{}, {r}, latest[l]} : latest' = [latest EXCEPT ![l] = kept]
  <2>1. latest' = latest => latest' = [latest EXCEPT ![l] = latest[l]]
    BY <1>1
  <2> QED BY <2>1 DEF EndRun
<1>6. \A k \in Lanes : latest'[k] = IF k = l THEN kept ELSE latest[k]
  BY <1>1, <1>5
<1>7. \A q \in Responses : /\ Older(q) /\ Steady(q)
                           /\ run'[q].exec \in {"none", "gated"} => ~run'[q].created
  BY <1>1, <1>3, <1>4 DEF Older, Steady, Terminal, RunInv
<1>8. \A q \in Responses : Terminal(q) => q # r
  BY <1>1 DEF Terminal
<1>9. \A k \in Lanes : Option(latest'[k])
  BY <1>6 DEF TargetInv, Option
<1>10. \A q \in Responses : target[q].lane \in Lanes
  BY DEF TypeOK, Target
<1> HIDE DEF l
<1>11. \A q \in Responses : Whole(q)
  BY <1>1, <1>6, <1>8, <1>10 DEF Whole
<1> QED BY <1>1, <1>7, <1>9, <1>11, WorldQuiet

(* Relays, outcome workers and deferred failures.                          *)
LEMMA WorkerInv ==
    ASSUME TypeOK, TaskInv, RunInv, TargetInv, NEW r \in Responses,
           LoseRelay(r) \/ Emit(r) \/ CleanUp(r)
    PROVE  TaskInv' /\ RunInv' /\ TargetInv'
<1>1. CASE LoseRelay(r)
  <2>1. UNCHANGED <<tasks, queue, latest, routes, cleanup, target>>
    BY <1>1 DEF LoseRelay, laneVars
  <2>2. \A q \in Responses : /\ run'[q].exec = run[q].exec /\ run'[q].created = run[q].created
                             /\ run'[q].need = run[q].need
    BY <1>1 DEF LoseRelay, TypeOK, Run
  <2>3. \A q \in Responses : /\ Older(q) /\ Steady(q) /\ Whole(q)
                             /\ run'[q].exec \in {"none", "gated"} => ~run'[q].created
    BY <2>1, <2>2 DEF Older, Steady, Whole, Terminal, RunInv
  <2>4. \A l \in Lanes : Option(latest'[l])
    BY <2>1 DEF TargetInv
  <2> QED BY <2>1, <2>3, <2>4, WorldQuiet
<1>2. CASE Emit(r)
  <2>1. UNCHANGED <<tasks, queue, latest, routes, cleanup, target, run>>
    BY <1>2 DEF Emit, laneVars
  <2>2. \A q \in Responses : /\ Older(q) /\ Steady(q) /\ Whole(q)
                             /\ run'[q].exec \in {"none", "gated"} => ~run'[q].created
    BY <2>1, SameRun DEF Whole, RunInv
  <2>3. \A l \in Lanes : Option(latest'[l])
    BY <2>1 DEF TargetInv
  <2> QED BY <2>1, <2>2, <2>3, WorldQuiet
<1>3. CASE CleanUp(r)
  <2>1. UNCHANGED <<tasks, queue, latest, routes, run>> /\ r \in cleanup
    BY <1>3 DEF CleanUp, laneVars
  <2>2. target[r].phase = "Closed"
    BY <2>1 DEF TargetInv, TargetOK
  <2>3. \A l \in Lanes : Option(latest'[l])
    BY <2>1 DEF TargetInv
  <2>4. CASE FailSuccessor(r) /\ UNCHANGED cleanup
    <3>1. \A q \in Responses \ {r} : target'[q] = target[q]
      BY <2>4 DEF FailSuccessor, TypeOK
    <3>2. target'[r] = Closed(target[r])
      BY <2>4 DEF FailSuccessor, TypeOK
    <3>3. target'[r].phase = "Closed" /\ target'[r].batch = {} /\
            target'[r].lane = target[r].lane
      BY <3>2, ClosedFacts DEF TypeOK
    <3>4. \A q \in Responses : /\ Older(q) /\ Steady(q)
                               /\ run'[q].exec \in {"none", "gated"} => ~run'[q].created
      BY <2>1, <3>1, <3>3, SameRun DEF RunInv
    <3>5. PICK X \in SUBSET Responses : X = {r}
      OBVIOUS
    <3>6. \A x \in X : /\ TargetOK(target, x)'
                       /\ target[x].phase = "Reserved" => target'[x].phase = "Reserved"
      BY <2>2, <3>3, <3>5, ClosedOK
    <3>7. \A q \in Responses \ X : Whole(q)
      BY <2>1, <2>4, <3>1, <3>5 DEF Whole
    <3> QED BY <2>1, <2>3, <3>4, <3>6, <3>7, WorldSteps
  <2>5. CASE cleanup' = cleanup \ {r} /\ UNCHANGED <<target, outbox>>
    <3>1. \A q \in Responses : /\ Older(q) /\ Steady(q) /\ Whole(q)
                               /\ run'[q].exec \in {"none", "gated"} => ~run'[q].created
      BY <2>1, <2>5, SameRun DEF Whole, RunInv
    <3> QED BY <2>1, <2>3, <3>1, WorldQuiet
  <2> QED BY <1>3, <2>4, <2>5 DEF CleanUp
<1> QED BY <1>1, <1>2, <1>3

(* Route expiry keeps every route whose target owns input.                 *)
LEMMA ExpiryInv ==
    ASSUME TypeOK, TaskInv, RunInv, TargetInv, ExpireRoutes \/ Expire \/ BeginDraining \/
             UNCHANGED vars
    PROVE  TaskInv' /\ RunInv' /\ TargetInv'
<1>1. /\ UNCHANGED <<tasks, latest, run, cleanup>>
      /\ queue' = queue \/ queue' = NoWork
  BY DEF ExpireRoutes, Expire, BeginDraining, vars, laneVars
<1>2. \A l \in Lanes : Option(latest'[l])
  BY <1>1 DEF TargetInv
<1>3. \A q \in Responses :
        /\ target'[q].lane = target[q].lane /\ target'[q].phase = target[q].phase
        /\ target'[q].batch = target[q].batch /\ target'[q].supported = target[q].supported
        /\ target[q].batch # {} => target'[q].settings = target[q].settings
  <2>1. target' = target \/ target' = ReleaseInactive(target)
    BY DEF ExpireRoutes, Expire, BeginDraining, vars
  <2>2. target \in [Responses -> Target]
    BY DEF TypeOK
  <2>3. CASE target' = ReleaseInactive(target)
    <3>1. \A q \in Responses : /\ target[q].batch # {} =>
                                    ReleaseInactive(target)[q] = target[q]
      BY <2>2, ReleaseFacts
    <3>2. \A q \in Responses :
            /\ ReleaseInactive(target)[q].lane = target[q].lane
            /\ ReleaseInactive(target)[q].phase = target[q].phase
            /\ ReleaseInactive(target)[q].supported = target[q].supported
            /\ ReleaseInactive(target)[q].batch = target[q].batch
      BY <2>2, ReleaseFacts
    <3> QED BY <2>3, <3>1, <3>2
  <2> QED BY <2>1, <2>3
<1>4. \A q \in Responses : target[q].batch # {} /\ q \in routes => q \in routes'
  BY DEF ExpireRoutes, Expire, BeginDraining, vars
<1>5. \A q \in Responses : /\ Older(q) /\ Steady(q) /\ Whole(q)
                           /\ run'[q].exec \in {"none", "gated"} => ~run'[q].created
  BY <1>1, <1>3, <1>4, SameRun DEF Whole, RunInv
<1> QED BY <1>1, <1>2, <1>5, WorldQuiet

(* Work that steering is attached to is sound.                             *)
LEMMA AttachOK ==
    ASSUME TypeOK, TargetInv, NEW w \in Work, WorkOK(w)
    PROVE  WorkOK(Attach(w))
<1>1. \A p \in Attached(w) : p \in w.prev /\ target[p].lane = w.lane /\
        target[p].batch # {} /\ p \in Responses
  BY AttachFacts
<1>2. \A p \in Attached(w) : run[p].created
  BY <1>1 DEF TargetInv, TargetOK
<1>3. Option(Attached(w))
  BY <1>1 DEF WorkOK, Option
<1>4. /\ Attach(w).lane = w.lane /\ Attach(w).prev = w.prev /\ Attach(w).auto = w.auto
      /\ Attach(w).parent = (IF w.parent # {} THEN w.parent ELSE Attached(w))
  BY AttachFacts
<1> QED BY <1>1, <1>2, <1>3, <1>4 DEF WorkOK

(* So is the task it is spawned as.                                        *)
LEMMA SpawnedOK ==
    ASSUME TypeOK, TargetInv, NEW w \in Work, WorkOK(w), NEW u, u = Spawned(w),
           \A q \in Responses : Older(q)
    PROVE  TaskOK(u)' /\ u.resp = {} /\ u.pc = "spawned"
<1>1. Attach(w) \in Work /\ WorkOK(Attach(w))
  BY AttachFacts, AttachOK
<1>2. u.work = Attach(w) /\ u.resp = {} /\ u.pc = "spawned"
  BY SpawnedFacts
<1>3. u.work.parent \subseteq Responses
  BY <1>1, <1>2 DEF Work
<1>4. WorkOK(u.work)
  BY <1>1, <1>2
<1>5. TaskOK(u)
  BY <1>2, <1>4 DEF TaskOK, Option, Reserving
<1> QED BY <1>2, <1>3, <1>5, TaskFrame

(* At most one response can be named.                                      *)
LEMMA NamesOne ==
    ASSUME NEW prev \in SUBSET Responses, Cardinality(prev) <= 1
    PROVE  Option(prev)
<1>1. IsFiniteSet(Responses)
  <2>1. Cardinality(Steers) \in Nat /\ MaxCreates \in Nat
    BY Limits, ConstantsAssumption, FS_CardinalityType DEF ConstantsOK
  <2>2. 1 \in Int /\ MaxCreates + Cardinality(Steers) \in Int
    BY <2>1
  <2> QED BY <2>2, FS_Interval DEF Responses
<1>2. IsFiniteSet(prev) /\ Cardinality(prev) \in Nat
  BY <1>1, FS_Subset, FS_CardinalityType
<1>3. CASE Cardinality(prev) = 0
  BY <1>2, <1>3, FS_EmptySet DEF Option
<1>4. CASE Cardinality(prev) = 1
  BY <1>2, <1>4, FS_Singleton DEF Option
<1> QED BY <1>2, <1>3, <1>4

(* A response.create is admitted, queued, or refused.                      *)
LEMMA CreateInv ==
    ASSUME TypeOK, LaneInv, TaskInv, RunInv, TargetInv, NEW l \in Lanes,
           NEW prev \in SUBSET Responses, NEW bad \in BOOLEAN, Create(l, prev, bad), ~Close
    PROVE  TaskInv' /\ RunInv' /\ TargetInv'
<1> DEFINE w == [lane |-> l, prev |-> prev, parent |-> {}, auto |-> FALSE, bad |-> bad]
<1>1. UNCHANGED <<latest, routes, cleanup, target, run>>
  BY DEF Create
<1>2. Option(prev)
  BY NamesOne DEF Create
<1>3. w \in Work /\ WorkOK(w)
  BY <1>2 DEF Work, WorkOK, Option
<1>4. PICK v : v = IF bad THEN w ELSE Attach(w)
  OBVIOUS
<1>5. Schedule(v)
  BY <1>4 DEF Create
<1> HIDE DEF w
<1>6. v \in Work /\ WorkOK(v)
  BY <1>3, <1>4, AttachFacts, AttachOK
<1>7. \A q \in Responses : /\ Older(q) /\ Steady(q) /\ Whole(q)
                           /\ run'[q].exec \in {"none", "gated"} => ~run'[q].created
  BY <1>1, SameRun DEF Whole, RunInv
<1>8. PICK new : new = Spawned(v)
  OBVIOUS
<1>9. TaskOK(new)' /\ new.resp = {} /\ new.pc = "spawned"
  BY <1>6, <1>7, <1>8, SpawnedOK
<1>10. \A u \in tasks' : u \in tasks \/ u = new
  BY <1>5, <1>8 DEF Schedule
<1>11. \A t \in tasks : t \in tasks'
  BY <1>5 DEF Schedule
<1>13. WorkOK(v)'
  <2>1. v.parent \subseteq Responses
    BY <1>6 DEF Work
  <2> QED BY <1>6, <1>7, <2>1, WorkFrame
<1>14. \A k \in Lanes : \A i \in 1 .. Len(queue'[k]) :
         queue'[k][i] = v \/ \E j \in 1 .. Len(queue[k]) : queue'[k][i] = queue[k][j]
  <2>1. CASE queue' = queue
    BY <2>1
  <2>2. CASE queue' = [queue EXCEPT ![v.lane] = Append(@, v)]
    <3> SUFFICES ASSUME NEW k \in Lanes, NEW i \in 1 .. Len(queue'[k])
                 PROVE  queue'[k][i] = v \/
                          \E j \in 1 .. Len(queue[k]) : queue'[k][i] = queue[k][j]
      OBVIOUS
    <3>1. queue \in [Lanes -> Seq(Work)] /\ queue[k] \in Seq(Work)
      BY DEF TypeOK
    <3>2. CASE k = v.lane
      <4>1. queue'[k] = Append(queue[k], v)
        BY <2>2, <3>1, <3>2
      <4> QED BY <3>1, <4>1
    <3>3. CASE k # v.lane
      <4>1. queue'[k] = queue[k]
        BY <2>2, <3>1, <3>3
      <4> QED BY <4>1
    <3> QED BY <3>2, <3>3
  <2> QED BY <1>5, <2>1, <2>2 DEF Schedule
<1>15. (\A k \in Lanes : \A i \in 1 .. Len(queue[k]) : WorkOK(queue[k][i]))'
  <2>1. \A k \in Lanes : \A j \in 1 .. Len(queue[k]) : \A x : x = queue[k][j] => WorkOK(x)'
    BY <1>7, QueueWork
  <2>2. ASSUME NEW k \in Lanes, NEW i \in 1 .. Len(queue'[k]), NEW x, x = queue'[k][i]
        PROVE  WorkOK(x)'
    <3>1. CASE x = v
      BY <1>13, <3>1
    <3>2. CASE x # v
      <4>1. PICK j \in 1 .. Len(queue[k]) : x = queue[k][j]
        BY <1>14, <2>2, <3>2
      <4> QED BY <2>1, <4>1
    <3> QED BY <3>1, <3>2
  <2> QED BY <2>2 DEF WorkOK
<1>16. \A k \in Lanes : Option(latest'[k])
  BY <1>1 DEF TargetInv
<1>17. PICK X \in SUBSET Responses : X = {}
  OBVIOUS
<1>18. \A x \in X : /\ TargetOK(target, x)'
                    /\ target[x].phase = "Reserved" => target'[x].phase = "Reserved"
  BY <1>17
<1>19. \A u \in tasks' : u \in tasks \/ (TaskOK(u)' /\ u.resp = {} /\ u.pc = "spawned")
  BY <1>9, <1>10
<1>20. \A t \in tasks : t \in tasks' \/ \A p \in Responses : ~Holds(t, p)
  BY <1>11
<1>21. \A q \in Responses \ X : Whole(q)
  BY <1>7
<1> QED BY ONLY TypeOK, TaskInv, RunInv, TargetInv, <1>7, <1>15, <1>16, <1>18, <1>19,
           <1>20, <1>21,
                ConnSteps

(* A ready target keeps what it owns while the connection admits work, or  *)
(* closes for its deferred failure.                                        *)
LEMMA ReadyOK ==
    ASSUME NEW tg, NEW x, TargetOK(tg, x), UNCHANGED <<run, latest, routes>>,
           \A t \in tasks : Holds(t, x) => t \in tasks',
           \/ target'[x] = tg[x] /\ (x \in cleanup' => x \in cleanup)
           \/ /\ tg[x].phase = "Ready" /\ target'[x].phase = "Closed" /\
                   target'[x].batch = tg[x].batch
    PROVE  TargetOK(target, x)'
<1>1. CASE target'[x] = tg[x] /\ (x \in cleanup' => x \in cleanup)
  <2>1. tg[x].phase = "Reserved" => \E t \in tasks' : Holds(t, x)
    BY DEF TargetOK
  <2> QED BY <1>1, <2>1 DEF TargetOK, Terminal, Holds, Option
<1>2. CASE /\ tg[x].phase = "Ready" /\ target'[x].phase = "Closed" /\
                target'[x].batch = tg[x].batch
  BY <1>2 DEF TargetOK, Terminal, Holds, Option
<1> QED BY <1>1, <1>2

(* A parent that is ready to continue by itself.                           *)
LEMMA AutoOK ==
    ASSUME TypeOK, TargetInv, NEW tg, NEW l, NEW r \in AutoReady(tg, l), TargetOK(tg, r),
           tg[r].lane = target[r].lane
    PROVE  AutoWork(r) \in Work /\ WorkOK(AutoWork(r)) /\ r \in Responses
<1>1. r \in Responses /\ run[r].created
  BY DEF AutoReady, TypeOK, TargetOK
<1>2. AutoWork(r) \in Work
  BY <1>1, AutoType
<1> QED BY <1>1, <1>2 DEF AutoWork, WorkOK, Option

(* Idle lanes admit their automatic successors; one that does not fit      *)
(* closes its target.                                                      *)
LEMMA ReadyInv ==
    ASSUME TypeOK, TaskInv, RunInv, TargetInv, NEW tg, NEW box, NEW told1, NEW fate1,
           tg \in [Responses -> Target],
           \A p \in Responses : /\ TargetOK(tg, p) /\ tg[p].lane = target[p].lane
                                /\ tg[p].phase = target[p].phase,
           ScheduleReady(tg, box, told1, fate1), ~Close
    PROVE  TaskInv' /\ RunInv' /\ TargetInv'
<1> DEFINE ready == {l \in Lanes \ active : AutoReady(tg, l) # {}}
<1>1. PICK pick \in [ready -> routes] :
        /\ \A l \in ready : pick[l] \in AutoReady(tg, l)
        /\ \E fit \in SUBSET ready :
             /\ \/ target' = tg /\ UNCHANGED cleanup
                \/ \E l \in ready \ fit : FailAutomatic(tg, pick[l])
             /\ tasks' = tasks \cup {Spawned(AutoWork(pick[l])) : l \in fit}
        /\ UNCHANGED <<conn, expired, queue, creates, latest, routes, run>>
  BY DEF ScheduleReady
<1>2. PICK fit \in SUBSET ready :
        /\ \/ target' = tg /\ UNCHANGED cleanup
           \/ \E l \in ready \ fit : FailAutomatic(tg, pick[l])
        /\ tasks' = tasks \cup {Spawned(AutoWork(pick[l])) : l \in fit}
  BY <1>1
<1> HIDE DEF ready
<1>3. \A l \in ready : pick[l] \in AutoReady(tg, l) /\ pick[l] \in Responses /\
        tg[pick[l]].phase = "Ready"
  BY <1>1 DEF AutoReady, TypeOK
<1>4. \A x \in Responses :
        \/ target'[x] = tg[x] /\ (x \in cleanup' => x \in cleanup)
        \/ tg[x].phase = "Ready" /\ target'[x] = [tg[x] EXCEPT !.phase = "Closed"]
  <2>1. CASE target' = tg /\ UNCHANGED cleanup
    BY <2>1
  <2>2. CASE \E l \in ready \ fit : FailAutomatic(tg, pick[l])
    BY <1>3, <2>2 DEF FailAutomatic
  <2> QED BY <1>2, <2>1, <2>2
<1>5. \A x \in Responses :
        \/ target'[x] = tg[x] /\ (x \in cleanup' => x \in cleanup)
        \/ /\ tg[x].phase = "Ready" /\ target'[x].phase = "Closed" /\
                target'[x].batch = tg[x].batch
           /\ target'[x].lane = tg[x].lane
  <2>1. \A x \in Responses : tg[x] \in Target
    OBVIOUS
  <2>2. ASSUME NEW c \in Target
        PROVE  /\ [c EXCEPT !.phase = "Closed"].phase = "Closed" /\
                    [c EXCEPT !.phase = "Closed"].batch = c.batch
               /\ [c EXCEPT !.phase = "Closed"].lane = c.lane
    BY DEF Target
  <2>3. ASSUME NEW x \in Responses, target'[x] = [tg[x] EXCEPT !.phase = "Closed"]
        PROVE  target'[x].phase = "Closed" /\ target'[x].batch = tg[x].batch /\
                 target'[x].lane = tg[x].lane
    BY <2>1, <2>2, <2>3
  <2> QED BY <1>4, <2>3
<1>6. \A x \in Responses : /\ target'[x].lane = target[x].lane
                           /\ target[x].phase = "Reserved" => target'[x].phase = "Reserved"
  BY <1>5
<1>7. \A q \in Responses : /\ Older(q) /\ Steady(q)
                           /\ run'[q].exec \in {"none", "gated"} => ~run'[q].created
  BY <1>1, <1>6, SameRun DEF RunInv
<1>8. \A t \in tasks : t \in tasks'
  BY <1>2
<1>9. \A x \in Responses : TargetOK(target, x)'
  BY <1>1, <1>5, <1>8, ReadyOK
<1>10. \A u \in tasks' : u \in tasks \/ (TaskOK(u)' /\ u.resp = {} /\ u.pc = "spawned")
  <2> SUFFICES ASSUME NEW l \in fit, NEW u, u = Spawned(AutoWork(pick[l]))
               PROVE  TaskOK(u)' /\ u.resp = {} /\ u.pc = "spawned"
    BY <1>2
  <2>1. pick[l] \in AutoReady(tg, l) /\ TargetOK(tg, pick[l]) /\
          tg[pick[l]].lane = target[pick[l]].lane
    BY <1>3
  <2>2. AutoWork(pick[l]) \in Work /\ WorkOK(AutoWork(pick[l]))
    BY <2>1, AutoOK
  <2> QED BY <1>7, <2>2, SpawnedOK
<1>11. (\A l \in Lanes : \A i \in 1 .. Len(queue[l]) : WorkOK(queue[l][i]))'
  BY <1>1, <1>7, QueueSame
<1>12. \A l \in Lanes : Option(latest'[l])
  BY <1>1 DEF TargetInv
<1>13. PICK X \in SUBSET Responses : X = Responses
  OBVIOUS
<1>14. /\ \A x \in X : /\ TargetOK(target, x)'
                       /\ target[x].phase = "Reserved" => target'[x].phase = "Reserved"
       /\ \A q \in Responses \ X : Whole(q)
  BY <1>6, <1>9, <1>13
<1>15. \A t \in tasks : t \in tasks' \/ \A p \in Responses : ~Holds(t, p)
  BY <1>8
<1> QED BY ONLY TypeOK, TaskInv, RunInv, TargetInv, <1>7, <1>10, <1>11, <1>12, <1>14,
           <1>15, ConnSteps

(* A steer is accepted by a target that has its route and settings, or     *)
(* refused.                                                                *)
LEMMA SteerInv ==
    ASSUME TypeOK, TaskInv, RunInv, TargetInv, NEW s \in Steers, NEW r \in Responses,
             Steer(s, r), ~Close
    PROVE  TaskInv' /\ RunInv' /\ TargetInv'
<1> DEFINE tg  == ReleaseInactive(target)
           ok  == r \in routes /\ Accepts(tg, r)
           new == [tg EXCEPT ![r].batch = Accepted(tg, r, s)]
<1>1. /\ tg \in [Responses -> Target]
      /\ \A q \in Responses : /\ tg[q].lane = target[q].lane /\ tg[q].phase = target[q].phase
                              /\ tg[q].supported = target[q].supported
                              /\ tg[q].batch = target[q].batch
                              /\ tg[q].settings => target[q].settings
                              /\ tg[q].batch # {} => tg[q] = target[q]
  <2>1. target \in [Responses -> Target]
    BY DEF TypeOK
  <2> QED BY ONLY <2>1, ReleaseFacts DEF tg
<1>l. ok => run[r].need # "malformed" \/ target[r].batch # {} \/ target[r].phase = "Running"
  BY AcceptsLegible
<1> HIDE DEF tg
<1>2. \A p \in Responses : TargetOK(tg, p)
  BY <1>1 DEF TargetInv, TargetOK
<1>3. \E box, told1, fate1 : ScheduleReady(tg, box, told1, fate1)
                             \/ ScheduleReady(IF ok THEN new ELSE tg, box, told1, fate1)
  BY DEF Steer, tg
<1>4. CASE \E box, told1, fate1 : ScheduleReady(tg, box, told1, fate1)
  BY <1>1, <1>2, <1>4, ReadyInv
<1>5. CASE ok /\ \E box, told1, fate1 : ScheduleReady(new, box, told1, fate1)
  <2> HIDE DEF new
  <2>1. /\ \A q \in Responses \ {r} : new[q] = tg[q]
        /\ new[r] = [tg[r] EXCEPT !.batch = Accepted(tg, r, s)]
    BY <1>1 DEF new
  <2>2. Accepted(tg, r, s) \subseteq Batch
    BY <1>1, <1>5, <1>l, AcceptedType
  <2>3. /\ new \in [Responses -> Target]
        /\ new[r].batch = Accepted(tg, r, s) /\ new[r].phase = tg[r].phase /\
             new[r].lane = tg[r].lane
        /\ new[r].settings = tg[r].settings /\ new[r].supported = tg[r].supported
    <3>1. [tg[r] EXCEPT !.batch = Accepted(tg, r, s)] \in Target
      BY <1>1, <2>2 DEF Target
    <3> QED BY <1>1, <2>1, <3>1 DEF Target, new
  <2>4. Option(Accepted(tg, r, s)) /\ \A b \in Accepted(tg, r, s) : b.entries # <<>>
    <3>1. CASE tg[r].batch # {}
      <4>1. /\ Option(tg[r].batch)
            /\ \A b \in tg[r].batch : b.entries \in Seq(Steers) /\ b \in Batch
        BY <1>1, <1>2 DEF TargetOK, Target, Batch
      <4>2. \A b \in tg[r].batch :
              [b EXCEPT !.entries = Append(@, s)].entries = Append(b.entries, s)
        BY <4>1 DEF Batch
      <4>3. \A b \in tg[r].batch : Append(b.entries, s) # <<>>
        BY <4>1
      <4>4. Accepted(tg, r, s) = {[b EXCEPT !.entries = Append(@, s)] : b \in tg[r].batch}
        BY <3>1 DEF Accepted
      <4> QED BY <4>1, <4>2, <4>3, <4>4 DEF Option
    <3>2. CASE tg[r].batch = {}
      BY <3>2 DEF Accepted, Option
    <3> QED BY <3>1, <3>2
  <2>5. TargetOK(new, r)
    <3>1. TargetOK(tg, r)
      BY <1>2
    <3>2. run[r].created /\ tg[r].settings /\ tg[r].phase \in {"Running", "Ready"} /\
            r \in routes
      BY <1>5 DEF Accepts
    <3>3. r \notin cleanup
      BY <3>1, <3>2 DEF TargetOK
    <3>4. new[r].phase = "Ready" =>
            /\ Terminal(r)
            /\ run[r].need = "malformed" /\ new[r].supported => latest[new[r].lane] # {r}
      BY <2>3, <3>1 DEF TargetOK
    <3> QED BY <2>3, <2>4, <3>2, <3>3, <3>4 DEF TargetOK
  <2>6. \A p \in Responses : /\ TargetOK(new, p) /\ new[p].lane = target[p].lane
                             /\ new[p].phase = target[p].phase
    <3> SUFFICES ASSUME NEW p \in Responses
                 PROVE  /\ TargetOK(new, p) /\ new[p].lane = target[p].lane
                        /\ new[p].phase = target[p].phase
      OBVIOUS
    <3>1. CASE p = r
      BY <1>1, <2>3, <2>5, <3>1
    <3>2. CASE p # r
      <4>1. new[p] = tg[p] /\ TargetOK(tg, p)
        BY <1>2, <2>1, <3>2
      <4>2. TargetOK(new, p)
        BY <4>1 DEF TargetOK
      <4> QED BY <1>1, <4>1, <4>2
    <3> QED BY <3>1, <3>2
  <2> QED BY <1>5, <2>3, <2>6, ReadyInv
<1> HIDE DEF ok, new
<1> QED BY <1>3, <1>4, <1>5

(* A lane's task ended: queued work, an automatic successor, or an idle    *)
(* lane follows.                                                           *)
LEMMA FinishInv ==
    ASSUME TypeOK, LaneInv, TaskInv, RunInv, TargetInv, NEW t \in tasks, Finish(t), ~Close
    PROVE  TaskInv' /\ RunInv' /\ TargetInv'
<1> DEFINE l  == t.work.lane
           ts == tasks \ {t}
<1>1. t.pc = "done" /\ ~t.fatal /\ UNCHANGED <<latest, routes, run>> /\ l \in Lanes
  BY TaskFacts DEF Finish, ScheduleNext
<1>2. \A p \in Responses : ~Holds(t, p)
  BY <1>1 DEF Holds, Reserving
<1>3. queue \in [Lanes -> Seq(Work)]
  BY DEF TypeOK
<1>4. \A k \in Lanes : Option(latest'[k])
  BY <1>1 DEF TargetInv
<1> HIDE DEF ts
<1>5. ASSUME \A u \in tasks' : u \in ts \/ (TaskOK(u)' /\ u.resp = {} /\ u.pc = "spawned"),
             \A u \in ts : u \in tasks',
             (\A k \in Lanes : \A i \in 1 .. Len(queue[k]) : WorkOK(queue[k][i]))',
             \A x \in Responses :
                 \/ target'[x] = target[x] /\ (x \in cleanup' => x \in cleanup)
                 \/ /\ target[x].phase = "Ready"
                    /\ target'[x] = [target[x] EXCEPT !.phase = "Closed"]
      PROVE  TaskInv' /\ RunInv' /\ TargetInv'
  <2>1. \A x \in Responses :
          \/ target'[x] = target[x] /\ (x \in cleanup' => x \in cleanup)
          \/ /\ target[x].phase = "Ready" /\ target'[x].phase = "Closed"
             /\ target'[x].batch = target[x].batch /\ target'[x].lane = target[x].lane
    <3>1. ASSUME NEW x \in Responses, target'[x] = [target[x] EXCEPT !.phase = "Closed"]
          PROVE  target'[x].phase = "Closed" /\ target'[x].batch = target[x].batch
                 /\ target'[x].lane = target[x].lane
      BY <3>1 DEF TypeOK, Target
    <3> QED BY <1>5, <3>1
  <2>2. \A x \in Responses : /\ target'[x].lane = target[x].lane
                             /\ target[x].phase = "Reserved" => target'[x].phase = "Reserved"
    BY <2>1
  <2>3. \A q \in Responses : /\ Older(q) /\ Steady(q)
                             /\ run'[q].exec \in {"none", "gated"} => ~run'[q].created
    BY <1>1, <2>2, SameRun DEF RunInv
  <2>4. \A x \in Responses : \A u \in tasks : Holds(u, x) => u \in tasks'
    BY <1>2, <1>5 DEF ts
  <2>5. \A x \in Responses : TargetOK(target, x)'
    BY <1>1, <2>1, <2>4, ReadyOK DEF TargetInv
  <2>6. \A u \in tasks' : u \in tasks \/ (TaskOK(u)' /\ u.resp = {} /\ u.pc = "spawned")
    BY <1>5 DEF ts
  <2>7. \A u \in tasks : u \in tasks' \/ \A p \in Responses : ~Holds(u, p)
    BY <1>2, <1>5 DEF ts
  <2>8. PICK X \in SUBSET Responses : X = Responses
    OBVIOUS
  <2>9. /\ \A x \in X : /\ TargetOK(target, x)'
                        /\ target[x].phase = "Reserved" => target'[x].phase = "Reserved"
        /\ \A q \in Responses \ X : Whole(q)
    BY <2>2, <2>5, <2>8
  <2> QED BY ONLY TypeOK, TaskInv, RunInv, TargetInv, <1>4, <1>5, <2>3, <2>6, <2>7, <2>9,
             ConnSteps
<1>6. target' = target => \A q \in Responses : Older(q)
  BY <1>1, SameRun
<1>7. CASE tasks' = ts /\ UNCHANGED <<queue, target, cleanup>>
  <2>1. (\A k \in Lanes : \A i \in 1 .. Len(queue[k]) : WorkOK(queue[k][i]))'
    BY <1>6, <1>7, QueueSame
  <2> QED BY <1>5, <1>7, <2>1
<1>8. CASE /\ queue[l] # <<>> /\ UNCHANGED <<target, cleanup>>
           /\ tasks' = ts \cup {Spawned(Head(queue[l]))}
           /\ queue' = [queue EXCEPT ![l] = Tail(@)]
  <2>1. queue[l] \in Seq(Work) /\ Len(queue[l]) \in Nat \ {0} /\ Head(queue[l]) = queue[l][1]
        /\ Head(queue[l]) \in Work
    BY <1>1, <1>3, <1>8
  <2>2. PICK w : w = queue[l][1]
    OBVIOUS
  <2>3. w \in Work /\ WorkOK(w)
    <3>1. 1 \in 1 .. Len(queue[l])
      BY <2>1
    <3>2. WorkOK(queue[l][1])
      BY <1>1, <3>1 DEF TaskInv
    <3> QED BY <2>1, <2>2, <3>2
  <2>4. PICK new : new = Spawned(w)
    OBVIOUS
  <2>5. TaskOK(new)' /\ new.resp = {} /\ new.pc = "spawned"
    BY <1>6, <1>8, <2>3, <2>4, SpawnedOK
  <2>6. tasks' = ts \cup {new}
    BY <1>8, <2>1, <2>2, <2>4
  <2>9. \A k \in Lanes : \A i \in 1 .. Len(queue'[k]) :
          \E j \in 1 .. Len(queue[k]) : queue'[k][i] = queue[k][j]
    <3> SUFFICES ASSUME NEW k \in Lanes, NEW i \in 1 .. Len(queue'[k])
                 PROVE  \E j \in 1 .. Len(queue[k]) : queue'[k][i] = queue[k][j]
      OBVIOUS
    <3>1. CASE k = l
      <4>1. queue'[k] = Tail(queue[k])
        BY <1>3, <1>8, <3>1
      <4>2. i + 1 \in 1 .. Len(queue[k]) /\ queue'[k][i] = queue[k][i + 1]
        BY <2>1, <3>1, <4>1
      <4> QED BY <4>2
    <3>2. CASE k # l
      <4>1. queue'[k] = queue[k]
        BY <1>3, <1>8, <3>2
      <4> QED BY <4>1
    <3> QED BY <3>1, <3>2
  <2>10. (\A k \in Lanes : \A i \in 1 .. Len(queue[k]) : WorkOK(queue[k][i]))'
    <3>1. \A q \in Responses : Older(q)
      BY <1>6, <1>8
    <3> QED BY <2>9, <3>1, QueueKept
  <2> QED BY <1>5, <1>8, <2>5, <2>6, <2>10
<1>9. ASSUME NEW r \in AutoReady(target, l), UNCHANGED queue,
             IF HasCapacity(ts)
             THEN tasks' = ts \cup {Spawned(AutoWork(r))} /\ UNCHANGED <<cleanup, target>>
             ELSE tasks' = ts /\ FailAutomatic(target, r)
      PROVE  TaskInv' /\ RunInv' /\ TargetInv'
  <2>1. r \in Responses /\ TargetOK(target, r) /\ target[r].phase = "Ready"
    BY DEF AutoReady, TypeOK, TargetInv
  <2>2. \A x \in Responses : \/ target'[x] = target[x] /\ (x \in cleanup' => x \in cleanup)
                             \/ /\ target[x].phase = "Ready"
                                /\ target'[x] = [target[x] EXCEPT !.phase = "Closed"]
    BY <1>9, <2>1 DEF FailAutomatic
  <2>3. ASSUME NEW x \in Responses PROVE target'[x].lane = target[x].lane
    <3>1. target[x] \in Target
      BY DEF TypeOK
    <3> QED BY ONLY <2>2, <3>1 DEF Target
  <2>4. \A q \in Responses : Older(q)
    BY <1>1, <2>3, SameRun
  <2>5. (\A k \in Lanes : \A i \in 1 .. Len(queue[k]) : WorkOK(queue[k][i]))'
    BY <1>9, <2>4, QueueSame
  <2>6. CASE HasCapacity(ts)
    <3>1. AutoWork(r) \in Work /\ WorkOK(AutoWork(r))
      BY <2>1, AutoOK
    <3>2. PICK new : new = Spawned(AutoWork(r))
      OBVIOUS
    <3>3. TaskOK(new)' /\ new.resp = {} /\ new.pc = "spawned"
      BY <2>4, <3>1, <3>2, SpawnedOK
    <3>4. tasks' = ts \cup {new}
      BY <1>9, <2>6, <3>2
    <3> QED BY <1>5, <2>2, <2>5, <3>3, <3>4
  <2>7. CASE ~HasCapacity(ts)
    <3>1. tasks' = ts
      BY <1>9, <2>7
    <3> QED BY <1>5, <2>2, <2>5, <3>1
  <2> QED BY <2>6, <2>7
<1>10. \/ tasks' = ts /\ UNCHANGED <<queue, target, cleanup>>
       \/ /\ queue[l] # <<>> /\ UNCHANGED <<target, cleanup>>
          /\ tasks' = ts \cup {Spawned(Head(queue[l]))}
          /\ queue' = [queue EXCEPT ![l] = Tail(@)]
       \/ \E r \in AutoReady(target, l) :
            /\ UNCHANGED queue
            /\ IF HasCapacity(ts)
               THEN tasks' = ts \cup {Spawned(AutoWork(r))} /\ UNCHANGED <<cleanup, target>>
               ELSE tasks' = ts /\ FailAutomatic(target, r)
  BY DEF Finish, ScheduleNext, ts
<1> HIDE DEF l
<1> QED BY <1>7, <1>8, <1>9, <1>10

-----------------------------------------------------------------------------
(* Every step keeps the invariant *)

LEMMA InvStep == Inv /\ [Next]_vars => Inv'
<1> SUFFICES ASSUME TypeOK, LaneInv, TaskInv, RunInv, TargetInv, [Next]_vars
             PROVE  TypeOK' /\ LaneInv' /\ TaskInv' /\ RunInv' /\ TargetInv'
  BY DEF Inv
<1>1. TypeOK' /\ LaneInv'
  BY TypeStep, LaneStep
<1>2. TaskInv' /\ RunInv' /\ TargetInv'
  <2>1. CASE Close
    BY <2>1, CloseInv
  <2>2. CASE ~Close
    <3>1. ASSUME NEW l \in Lanes, NEW prev \in SUBSET Responses, NEW bad \in BOOLEAN,
                   Create(l, prev, bad)
          PROVE  TaskInv' /\ RunInv' /\ TargetInv'
      BY <2>2, <3>1, CreateInv
    <3>2. ASSUME NEW s \in Steers, NEW r \in Responses, Steer(s, r)
          PROVE  TaskInv' /\ RunInv' /\ TargetInv'
      BY <2>2, <3>2, SteerInv
    <3>3. ASSUME NEW t \in tasks, TaskStep(t) PROVE TaskInv' /\ RunInv' /\ TargetInv'
      BY <2>2, <3>3, TaskStepInv, FinishInv
    <3>4. ASSUME NEW r \in Responses,
                 PublishCreated(r) \/ EndRun(r) \/ LoseRelay(r) \/ Emit(r) \/ CleanUp(r)
          PROVE  TaskInv' /\ RunInv' /\ TargetInv'
      BY <3>4, PublishInv, EndInv, WorkerInv
    <3>5. CASE ExpireRoutes \/ Expire \/ BeginDraining \/ UNCHANGED vars
      BY <3>5, ExpiryInv
    <3>6. ~(Disconnect \/ RelayFailed \/ Drained)
      BY <2>2 DEF Disconnect, RelayFailed, Drained
    <3> QED BY <3>1, <3>2, <3>3, <3>4, <3>5, <3>6 DEF Next
  <2> QED BY <2>1, <2>2
<1> QED BY <1>1, <1>2

(* A new connection satisfies the invariant.                               *)
LEMMA InitInv == Init => Inv
<1> SUFFICES ASSUME Init PROVE Inv
  OBVIOUS
<1>1. NoTarget.phase = "Running" /\ NoTarget.batch = {} /\ NoRun.exec = "none" /\
        ~NoRun.created
  BY DEF NoTarget, NoRun
<1>2. TypeOK
  <2>1. <<>> \in Seq(Work) /\ <<>> \in Seq(Event)
    OBVIOUS
  <2>2. NoWork \in [Lanes -> Seq(Work)] /\
          [r \in Responses |-> <<>>] \in [Responses -> Seq(Event)]
    BY <2>1 DEF NoWork
  <2>3. /\ [r \in Responses |-> NoTarget] \in [Responses -> Target]
        /\ [r \in Responses |-> NoRun] \in [Responses -> Run]
    BY NoTargetType
  <2>4. 0 \in 0 .. MaxCreates
    BY Limits
  <2>5. /\ conn = "open" /\ expired = FALSE /\ active = {} /\ tasks = {} /\
             routes = {} /\ cleanup = {}
        /\ queue = NoWork /\ creates = 0 /\ latest = [l \in Lanes |-> {}]
        /\ told = [s \in Steers |-> "nothing"] /\ fate = [s \in Steers |-> "unsent"]
    BY DEF Init
  <2>6. outbox = [r \in Responses |-> <<>>] /\ target = [r \in Responses |-> NoTarget]
        /\ run = [r \in Responses |-> NoRun]
    BY DEF Init
  <2> QED BY <2>2, <2>3, <2>4, <2>5, <2>6 DEF TypeOK
<1>3. \A l \in Lanes : Len(NoWork[l]) = 0 /\ 1 .. Len(NoWork[l]) = {}
  BY DEF NoWork
<1>4. LaneInv
  <2>1. queue = NoWork /\ tasks = {} /\ active = {}
    BY DEF Init
  <2>2. Queued = 0
    BY <2>1, QueuedSlots, SlotsEmpty
  <2> QED BY <1>3, <2>1, <2>2, Limits, FS_EmptySet DEF LaneInv, LaneSerial, OutstandingBounded
<1>5. TaskInv
  BY <1>3 DEF Init, TaskInv
<1>6. RunInv
  BY <1>1 DEF Init, RunInv
<1>7. TargetInv
  <2>1. \A p \in Responses : target[p].phase = "Running" /\ target[p].batch = {} /\
          p \notin cleanup
    BY <1>1 DEF Init
  <2>2. \A p \in Responses : TargetOK(target, p)
    BY <2>1 DEF TargetOK, Option
  <2>3. tasks = {} /\ \A l \in Lanes : Option(latest[l])
    BY DEF Init, Option
  <2> QED BY <2>2, <2>3 DEF TargetInv
<1> QED BY <1>2, <1>4, <1>5, <1>6, <1>7 DEF Inv

(* The inductive invariant holds in every state of every connection.       *)
LEMMA InvHolds == Spec => []Inv
<1>1. Init => Inv
  BY InitInv
<1>2. Inv /\ [Next]_vars => Inv'
  BY InvStep
<1> QED BY <1>1, <1>2, PTL DEF Spec

(* Every variable keeps the shape its Rust counterpart has (TypeOK).       *)
THEOREM SteeringTypeCorrect == Spec => []TypeOK
<1>1. Inv => TypeOK
  BY DEF Inv
<1> QED BY InvHolds, <1>1, PTL

(* LanesServed, whatever the number of lanes, requests and steers: the     *)
(* tasks of a lane run one at a time, running and queued requests stay     *)
(* within WS_MAX_OUTSTANDING_REQUESTS with automatic successors counted    *)
(* (WsMultiplexer), and a target that owns accepted input keeps its route  *)
(* and settings until a successor reserved it (Controls::expire,           *)
(* release_inactive_settings).                                             *)
THEOREM LanesAlwaysServed == Spec => []LanesServed
<1>1. Inv => LanesServed
  <2> SUFFICES ASSUME Inv PROVE LanesServed
    OBVIOUS
  <2>1. LaneSerial /\ OutstandingBounded
    BY DEF Inv, LaneInv
  <2>2. OwnersStayUsable
    BY DEF Inv, TargetInv, TargetOK, OwnersStayUsable
  <2> QED BY <2>1, <2>2 DEF LanesServed
<1> QED BY InvHolds, <1>1, PTL
=============================================================================
