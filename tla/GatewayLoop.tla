----------------------------- MODULE GatewayLoop -----------------------------
(***************************************************************************)
(* One streamed response of the executor: inference rounds whose output    *)
(* items arrive as interleaved upstream frames, the relay that hides calls *)
(* the gateway executes itself and defers what follows them, the scheduler *)
(* that admits, runs and publishes those calls, and the policy that ends   *)
(* or continues the loop.                                                  *)
(*                                                                         *)
(* An item is known by its tag <<round, index, part>>: part 0 is the item  *)
(* itself, part 1 the follow-up item a hosted search publishes after it.   *)
(***************************************************************************)
EXTENDS Integers, Sequences, FiniteSets, FiniteSetsExt, SequencesExt

CONSTANTS
    Kinds,          \* kinds of item the model may produce
    Serial,         \* gateway kinds whose handler refuses to overlap itself
    Outcomes,       \* how an executed call may end: "ok", "failed", "fatal"
    MaxRounds,      \* inference rounds of one response
    MaxItems,       \* items of one round
    TotalItems,     \* bound on the items of all rounds together
    MaxNotes,       \* bound on the index-less frames of one round
    MaxDeferred,    \* frames the relay may defer
    MaxToolCalls,   \* the response's max_tool_calls
    Slots,          \* calls one round may run at a time
    Materializations, \* permits shared with every other response
    MaxOthers,      \* bound on the permits other responses hold
    Steers,         \* whether a steer may be requested
    Listed,         \* tool listings the registry discovered before round 0
    Unnamed,        \* whether a call may open before its name is known
    EndsUnnamed     \* whether a stream may end with such a call still open

Gateway == {"web", "mcp", "search", "unbound"}
SyncClient == {"function", "custom"}
Calls == Gateway \cup SyncClient \cup {"async"}

ConstantsOK ==
    /\ Kinds \subseteq Calls \cup {"message"}
    /\ Serial \subseteq {"web", "mcp"}
    /\ Outcomes \subseteq {"ok", "failed", "fatal"}
    /\ MaxRounds \in Nat \ {0} /\ MaxItems \in Nat \ {0} /\ TotalItems \in Nat
    /\ MaxNotes \in Nat /\ MaxDeferred \in Nat /\ MaxToolCalls \in Nat \ {0}
    /\ Slots \in Nat \ {0} /\ Materializations \in Nat \ {0} /\ Listed \in Nat
    /\ MaxOthers \in 0 .. Materializations /\ Steers \in BOOLEAN
    /\ Unnamed \in BOOLEAN /\ EndsUnnamed \in BOOLEAN

VARIABLES
    phase,      \* "open", "stream", "exec", "decide", "finish", "ended"
    round,      \* AgentTurn.next_round - 1
    items,      \* the round's items as the accumulator knows them
    status,     \* how the round's upstream stream ended
    firstGw,    \* TranslationDispatcher.first_gateway_output_index
    notes,      \* index-less frames received this round
    window,     \* DeferredFrames.window
    deferred,   \* DeferredFrames.frames
    wire,       \* what the client was sent, in order
    started,    \* GatewayStreamAccumulator.emitted_in_progress
    budget,     \* BuiltInToolCallBudget
    before,     \* the budget this round's admission started from
    calls,      \* where each planned call stands
    announced,  \* calls whose start was emitted
    taken,      \* results the consumer has received
    relayed,    \* whether the round has deferred frames to relay
    failed,     \* the consumer stopped on an error
    others,     \* materialization permits other responses hold
    ran,        \* tags of the calls a handler was given
    output,     \* the response's public output so far
    input,      \* calls and outputs appended to the model's input
    trail,      \* why each earlier round continued
    asyncRun,   \* AsyncContinuations
    steering,   \* a steer was requested
    outcome     \* how the response ended

stream == <<items, status, firstGw, notes>>
relay  == <<window, deferred, wire, started>>
sched  == <<calls, announced, taken, relayed, failed>>
result == <<output, input, trail, asyncRun, outcome>>
vars   == <<phase, round, stream, relay, budget, before, sched, others, ran,
            result, steering>>

NoIndex  == MaxItems        \* the position of a frame without output_index
NoWindow == MaxItems + 1    \* no call is hidden: nothing is at or after it
None     == -1              \* no index on the wire

Tag(i)   == <<round, i, 0>>
Extra(i) == <<round, i, 1>>
Local    == 0 .. Len(items) - 1
Item(i)  == items[i + 1]

\* What the registry makes of an item: a call that never got a name is no tool
\* of the gateway's, so it is the client's.
Kind(i)  == IF Item(i).named THEN Item(i).kind ELSE "function"

Init ==
    /\ phase = "open" /\ round = 0
    /\ items = <<>> /\ status = "none" /\ firstGw = NoWindow /\ notes = 0
    /\ window = NoWindow /\ deferred = <<>> /\ wire = <<>> /\ started = FALSE
    /\ budget = [dispatched |-> 0, shown |-> FALSE]
    /\ before = budget
    /\ calls = <<>> /\ announced = 0 /\ taken = 0
    /\ relayed = FALSE /\ failed = FALSE
    /\ others = 0 /\ ran = {}
    /\ output = [n \in 1 .. Listed |-> [tag |-> <<-1, n - 1, 0>>, as |-> "item"]]
    /\ input = <<>> /\ trail = <<>> /\ asyncRun = 0
    /\ steering = FALSE /\ outcome = "none"

-----------------------------------------------------------------------------
(* The relay *)

\* A frame as the client sees it; an output index is rebased onto the round.
Presented(ev, tag, at) == [ev |-> ev, tag |-> tag, idx |-> Len(output) + at]

AsFrame(f) ==
    IF f.item = NoIndex THEN [ev |-> f.ev, tag |-> Tag(f.item), idx |-> None]
                        ELSE Presented(f.ev, Tag(f.item), f.item)

\* Queued by output index, index-less frames last, each in arrival order.
Queued(queue, f) ==
    SelectSeq(queue, LAMBDA g : g.item <= f.item) \o <<f>>
        \o SelectSeq(queue, LAMBDA g : g.item > f.item)

\* The window ingestion asks for: the first hidden call, or the first call
\* that may turn out to be one.
DeferFrom(its, first) ==
    Min({first} \cup {i \in 0 .. Len(its) - 1 : ~its[i + 1].named})

\* One translation: frames at or after the window are deferred, and a window
\* that moved releases what it no longer hides.
Accept(frames, to) ==
    LET held  == SelectSeq(frames, LAMBDA f : f.item >= to)
        shown == SelectSeq(frames, LAMBDA f : f.item < to)
        queue == FoldLeft(Queued, deferred, held)
        admitted(f) == window # to /\ f.item < to
    IN  /\ window' = to
        /\ wire' = wire \o [n \in DOMAIN shown |-> AsFrame(shown[n])]
                        \o [n \in DOMAIN SelectSeq(queue, admitted) |->
                                AsFrame(SelectSeq(queue, admitted)[n])]
        /\ deferred' = SelectSeq(queue, LAMBDA f : ~admitted(f))

-----------------------------------------------------------------------------
(* Ingestion of one round's upstream stream *)

\* A round starts clean or fails; the response start reaches the client once,
\* and with it the discovered tool listings.
ResponseStart ==
    LET listing(n) == <<-1, n - 1, 0>>
    IN  /\ phase = "open"
        /\ IF deferred = <<>>
             THEN /\ phase' = "stream" /\ window' = NoWindow /\ started' = TRUE
                  /\ wire' = IF started THEN wire
                             ELSE wire \o [n \in 1 .. Listed |->
                                              [ev |-> "added", tag |-> listing(n), idx |-> n - 1]]
                                       \o [n \in 1 .. Listed |->
                                              [ev |-> "done", tag |-> listing(n), idx |-> n - 1]]
                  /\ UNCHANGED outcome
             ELSE /\ phase' = "ended" /\ outcome' = "error"
                  /\ UNCHANGED <<window, wire, started>>
        /\ UNCHANGED <<round, stream, deferred, budget, before, sched, others, ran,
                       output, input, trail, asyncRun, steering>>

Frames(i, evs) == [n \in DOMAIN evs |-> [item |-> i, ev |-> evs[n]]]

\* Frames of a call the gateway executes are never relayed.
Visible(kind, i, evs) == IF kind \in Gateway THEN <<>> ELSE Frames(i, evs)

FirstHidden(kind, i) ==
    IF kind \in Gateway THEN Min({firstGw, i}) ELSE firstGw

\* Ingest an event that leaves the items as its and yields these frames.
Ingest(its, first, frames) ==
    /\ items' = its /\ firstGw' = first
    /\ IF Len(deferred) + Len(frames) > MaxDeferred /\ \E n \in DOMAIN frames :
                                        frames[n].item >= DeferFrom(its, first)
         THEN /\ phase' = "ended" /\ outcome' = "error"
              /\ UNCHANGED <<window, deferred, wire>>
         ELSE /\ Accept(frames, DeferFrom(its, first))
              /\ UNCHANGED <<phase, outcome>>
    /\ UNCHANGED <<round, status, started, budget, before, sched, others, ran, output,
                   input, trail, asyncRun, steering>>

Used == Cardinality({output[n].tag : n \in DOMAIN output}) + Len(items)

ItemAdded ==
    /\ phase = "stream" /\ Len(items) < MaxItems /\ Used < TotalItems + Listed
    /\ \E kind \in Kinds, named \in BOOLEAN :
          /\ named \/ (Unnamed /\ kind \in Calls)
          /\ LET i == Len(items)
                 its == Append(items, [kind |-> kind, named |-> named, done |-> FALSE])
             IN  IF named
                   THEN Ingest(its, FirstHidden(kind, i), Visible(kind, i, <<"added">>))
                   ELSE Ingest(its, firstGw, <<>>)
    /\ UNCHANGED notes

\* The arguments are complete: an unnamed call gets its name, and the frames
\* buffered for it are translated.
ArgumentsDone ==
    /\ phase = "stream"
    /\ \E i \in Local :
          /\ ~Item(i).named
          /\ Ingest([items EXCEPT ![i + 1].named = TRUE], FirstHidden(Item(i).kind, i),
                    Visible(Item(i).kind, i, <<"added">>))
    /\ UNCHANGED notes

ItemDone ==
    /\ phase = "stream"
    /\ \E i \in Local :
          /\ ~Item(i).done
          /\ Ingest([items EXCEPT ![i + 1].named = TRUE, ![i + 1].done = TRUE],
                    FirstHidden(Item(i).kind, i),
                    Visible(Item(i).kind, i,
                            IF Item(i).named THEN <<"done">> ELSE <<"added", "done">>))
    /\ UNCHANGED notes

\* A frame that belongs to no item, such as an upstream diagnostic.
IndexlessFrame ==
    /\ phase = "stream" /\ notes < MaxNotes /\ notes' = notes + 1
    /\ Ingest(items, firstGw, Frames(NoIndex, <<"note">>))

RequestSteering ==
    /\ phase \in {"stream", "exec", "decide"} /\ Steers /\ ~steering /\ steering' = TRUE
    /\ UNCHANGED <<phase, round, stream, relay, budget, before, sched, others, ran, result>>

-----------------------------------------------------------------------------
(* Planning the round's gateway calls *)

Planned == SetToSortSeq({i \in Local : Kind(i) \in Gateway},
                        LAMBDA a, b : a < b)
CallCount == Len(Planned)

\* Calls charged to max_tool_calls before item i: all but hosted searches.
ChargedBefore(i) ==
    before.dispatched
      + Cardinality({j \in 0 .. i - 1 : Kind(j) \in Gateway \ {"search"}})

Refused(i) ==
    Kind(i) \in Gateway \ {"search"} /\ ChargedBefore(i) >= MaxToolCalls

\* The first refused call with a public item is shown, and no other.
RefusalShown(i) ==
    /\ Refused(i) /\ Kind(i) = "web" /\ ~before.shown
    /\ \A j \in 0 .. i - 1 : ~(Refused(j) /\ Kind(j) = "web")

Omitted(i) ==
    \/ Refused(i) /\ ~RefusalShown(i)
    \/ Kind(i) = "unbound"

Expanded(i) == Kind(i) = "search"

\* Items omitted earlier have no position; earlier follow-ups take one more.
PublicIndex(i) ==
    i - Cardinality({j \in 0 .. i - 1 : Omitted(j)})
      + Cardinality({j \in 0 .. i - 1 : Expanded(j)})

ChargedBudget ==
    [dispatched |-> Min({ChargedBefore(Len(items)), MaxToolCalls}),
     shown      |-> before.shown \/ \E i \in Local : RefusalShown(i)]

\* A refused call, a call without handler and a hosted search are answered
\* without running; the others queue for their permits.
FirstState(i) ==
    CASE Refused(i) \/ Kind(i) \in {"search", "unbound"} -> "ok"
      [] Kind(i) \in Serial -> "exclusion"
      [] OTHER -> "slot"

-----------------------------------------------------------------------------
(* Publishing the calls *)

Starts(ks) ==
    LET open == SelectSeq(ks, LAMBDA k : ~Omitted(Planned[k]))
    IN  [n \in DOMAIN open |->
            Presented("added", Tag(Planned[open[n]]), PublicIndex(Planned[open[n]]))]

Interval(a, b) == [n \in 1 .. (IF b < a THEN 0 ELSE b - a + 1) |-> a + n - 1]

Completes(k) ==
    LET i == Planned[k]  at == PublicIndex(i)
    IN  (IF Omitted(i) THEN <<>> ELSE <<Presented("done", Tag(i), at)>>)
        \o (IF Expanded(i) THEN <<Presented("added", Extra(i), at + 1),
                                  Presented("done", Extra(i), at + 1)>>
            ELSE <<>>)

\* Mutant of StartRunEnd: all calls are announced at once.
StartRunAll(from) == CallCount

\* The last call that can be announced before a follow-up item takes an index.
StartRunEnd(from) ==
    Min({CallCount} \cup {k \in from .. CallCount : Expanded(Planned[k])})

\* Leading calls announced before they run although frames are deferred.
InitialEventRun ==
    IF CallCount = 0 \/ \E i \in 0 .. Planned[1] - 1 : Kind(i) = "custom"
      THEN 0
      ELSE Min({StartRunEnd(1),
                Max({k \in 1 .. CallCount :
                        \A m \in 1 .. k : Planned[m] = Planned[1] + m - 1})})

\* Deferred frames of the items lo .. hi, each at its item's public index.
Released(lo, hi) ==
    LET fs == SelectSeq(deferred, LAMBDA f : lo <= f.item /\ f.item <= hi)
    IN  [n \in DOMAIN fs |-> Presented(fs[n].ev, Tag(fs[n].item), PublicIndex(fs[n].item))]

Unreleased(hi) == SelectSeq(deferred, LAMBDA f : f.item > hi)

ItemOfCall(k) == IF k = 0 THEN -1 ELSE IF k > CallCount THEN Len(items) ELSE Planned[k]

\* In a relayed round, what goes out after call k and before the wait for the
\* next one: the items between them and the next call's start, or everything
\* that is left.
Between(k, run) ==
    LET next == ItemOfCall(k + 1)
    IN  IF k = CallCount
          THEN /\ wire' = wire \o (IF k = 0 THEN Starts(Interval(1, run)) ELSE Completes(k))
                               \o Released(0, Len(items) - 1)
                               \o [n \in DOMAIN Unreleased(Len(items) - 1) |->
                                      AsFrame(Unreleased(Len(items) - 1)[n])]
               /\ deferred' = <<>>
          ELSE /\ wire' = wire \o (IF k = 0 THEN Starts(Interval(1, run)) ELSE Completes(k))
                               \o Released(0, next - 1)
                               \o (IF k + 1 > run THEN Starts(<<k + 1>>) ELSE <<>>)
               /\ deferred' = Unreleased(next - 1)

\* The round's items are final: plan its calls and announce the first ones.
PlanRound(ended) ==
    /\ budget' = ChargedBudget
    /\ calls' = [k \in 1 .. CallCount |-> FirstState(Planned[k])]
    /\ relayed' = (deferred # <<>>)
    /\ IF deferred = <<>>
         THEN /\ announced' = StartRunEnd(1)
              /\ wire' = wire \o Starts(Interval(1, StartRunEnd(1)))
              /\ UNCHANGED deferred
         ELSE /\ announced' = InitialEventRun
              /\ Between(0, InitialEventRun)
    /\ phase' = IF CallCount = 0 THEN "decide" ELSE "exec"
    /\ status' = ended /\ taken' = 0 /\ failed' = FALSE
    /\ UNCHANGED <<round, items, firstGw, notes, window, started, before, others, ran,
                   result, steering>>

Raw == [n \in DOMAIN items |-> [tag |-> Tag(n - 1), as |-> "item"]]

\* A failed round runs nothing; its deferred frames still precede the end.
FailRound ==
    /\ wire' = wire \o [n \in DOMAIN deferred |-> AsFrame(deferred[n])]
    /\ deferred' = <<>> /\ output' = output \o Raw
    /\ phase' = "finish" /\ status' = "failed"
    /\ UNCHANGED <<round, items, firstGw, notes, window, started, budget, before, sched, others,
                   ran, input, trail, asyncRun, outcome, steering>>

Settled == \A i \in Local : Item(i).done

\* The upstream stream ends: with a terminal event, or at the end of the body,
\* which completes the response unless a steer waits for a safe boundary.
StreamEnds ==
    /\ phase = "stream"
    /\ EndsUnnamed \/ \A i \in Local : Item(i).named
    /\ \E ended \in {"completed", "incomplete", "failed", "eof"} :
          CASE ended = "failed" -> FailRound
            [] ended = "eof" /\ steering /\ items # <<>> /\ ~Settled ->
                 /\ phase' = "ended" /\ outcome' = "error"
                 /\ UNCHANGED <<round, stream, relay, budget, before, sched, others, ran,
                                output, input, trail, asyncRun, steering>>
            [] OTHER -> PlanRound(IF ended = "eof" THEN "completed" ELSE ended)

\* A steer cuts the stream once every observed item is complete.
SteeringCut ==
    /\ phase = "stream" /\ steering /\ items # <<>> /\ Settled
    /\ PlanRound("steered")

-----------------------------------------------------------------------------
(* Running the calls *)

InExec(k, state) == phase = "exec" /\ k \in DOMAIN calls /\ calls[k] = state
Holding(states) == Cardinality({k \in DOMAIN calls : calls[k] \in states})
SameTool(k, m) == Kind(Planned[k]) = Kind(Planned[m])

CallStep(k, to) ==
    /\ calls' = [calls EXCEPT ![k] = to]
    /\ UNCHANGED <<phase, round, stream, relay, budget, before, announced, taken, relayed,
                   failed, result, steering>>

\* Permits are taken in one order: the tool's own, the round's, the shared one.
AcquireExclusion(k) ==
    /\ InExec(k, "exclusion")
    /\ \A m \in DOMAIN calls \ {k} :
          SameTool(k, m) => calls[m] \notin {"slot", "permit", "running"}
    /\ CallStep(k, "slot") /\ UNCHANGED <<others, ran>>

AcquireSlot(k) ==
    /\ InExec(k, "slot") /\ Holding({"permit", "running"}) < Slots
    /\ CallStep(k, "permit") /\ UNCHANGED <<others, ran>>

AcquirePermit(k) ==
    /\ InExec(k, "permit") /\ Holding({"running"}) + others < Materializations
    /\ CallStep(k, "running") /\ ran' = ran \cup {Tag(Planned[k])}
    /\ UNCHANGED others

\* The handler answers, fails, runs into the timeout, or returns an error that
\* aborts the response; its permits are released either way.
CallReturns(k) ==
    /\ InExec(k, "running")
    /\ \E o \in Outcomes : CallStep(k, o)
    /\ UNCHANGED <<others, ran>>

OthersTake ==
    /\ phase = "exec" /\ Holding({"running"}) + others < Materializations
    /\ others < MaxOthers /\ others' = others + 1
    /\ UNCHANGED <<phase, round, stream, relay, budget, before, sched, ran, result, steering>>

OthersRelease ==
    /\ others > 0 /\ others' = others - 1
    /\ UNCHANGED <<phase, round, stream, relay, budget, before, sched, ran, result, steering>>

Finished(k) == calls[k] \in {"ok", "failed", "fatal"}

\* The consumer receives the next result in call order and publishes it; the
\* first error stops it while the other calls run on.
TakeResult ==
    LET k == taken + 1
        next == Max({announced, StartRunEnd(k + 1)})
    IN  /\ phase = "exec" /\ ~failed /\ k <= CallCount
        /\ \A m \in 1 .. k : Finished(m)
        /\ IF calls[k] = "fatal"
             THEN failed' = TRUE /\ UNCHANGED <<wire, deferred, taken, announced>>
             ELSE /\ taken' = k /\ UNCHANGED failed
                  /\ IF relayed
                       THEN Between(k, announced) /\ UNCHANGED announced
                       ELSE /\ announced' = next
                            /\ wire' = wire \o Completes(k)
                                            \o Starts(Interval(announced + 1, next))
                            /\ UNCHANGED deferred
        /\ UNCHANGED <<phase, round, stream, window, started, budget, before, calls, relayed,
                       others, ran, result, steering>>

\* Every call has returned: the round's results, or its first error, are in.
CallsDrained ==
    /\ phase = "exec" /\ \A k \in DOMAIN calls : Finished(k)
    /\ failed \/ taken = CallCount
    /\ IF failed THEN phase' = "ended" /\ outcome' = "error"
                 ELSE phase' = "decide" /\ UNCHANGED outcome
    /\ UNCHANGED <<round, stream, relay, budget, before, sched, others, ran, output, input,
                   trail, asyncRun, steering>>

-----------------------------------------------------------------------------
(* The end of a round *)

\* The public items of the round: omitted calls leave, and a hosted search is
\* followed by its output.
PublicForm(i) ==
    IF Omitted(i) THEN <<>>
    ELSE IF Expanded(i) THEN <<[tag |-> Tag(i), as |-> "item"], [tag |-> Extra(i), as |-> "item"]>>
    ELSE <<[tag |-> Tag(i), as |-> IF Refused(i) THEN "refused" ELSE "item"]>>

PublicOutput == FlattenSeq([n \in DOMAIN items |-> PublicForm(n - 1)])

Sync  == \E i \in Local : Kind(i) \in SyncClient
Async == \E i \in Local : Kind(i) = "async"

MaxAsync == 2     \* MAX_CONSECUTIVE_ASYNC_CONTINUATIONS

LastRound == round + 1 >= MaxRounds

\* Off by one in the asynchronous limit.
ClassifyLoose ==
    CASE Sync -> "client"
      [] ~Sync /\ CallCount > 0 -> IF LastRound THEN "exhausted" ELSE "continue"
      [] ~Sync /\ CallCount = 0 /\ Async /\ ~LastRound /\ asyncRun <= MaxAsync -> "continue"
      [] OTHER -> "done"

\* Synchronous client calls end the response; gateway results continue it
\* unless this was the last round; asynchronous calls continue it only so
\* often in a row.
Classify ==
    CASE Sync -> "client"
      [] ~Sync /\ CallCount > 0 -> IF LastRound THEN "exhausted" ELSE "continue"
      [] ~Sync /\ CallCount = 0 /\ Async /\ ~LastRound /\ asyncRun < MaxAsync -> "continue"
      [] OTHER -> "done"

\* Mutant of Decision: a steered round ends as steered whatever it holds.
DecisionDrops ==
    CASE status \in {"steered", "incomplete"} -> status
      [] status = "completed" /\ steering /\ ~Sync /\ (CallCount > 0 \/ Async) -> "steered"
      [] OTHER -> Classify

Decision ==
    CASE status = "steered" /\ steering /\ Sync -> "client"
      [] status \in {"steered", "incomplete"} /\ ~(status = "steered" /\ steering /\ Sync) -> status
      [] status = "completed" /\ steering /\ ~Sync /\ (CallCount > 0 \/ Async) -> "steered"
      [] OTHER -> Classify

Entry(ev, i) == [ev |-> ev, tag |-> Tag(i), kind |-> Kind(i)]

\* The calls of the round the model's next input holds, then their outputs. A
\* hosted search is recorded only as its pair.
Recorded ==
    LET mine  == SelectSeq([n \in DOMAIN items |-> n - 1],
                           LAMBDA i : Kind(i) \in Calls \ {"search"})
        outs(k) == IF Expanded(Planned[k])
                     THEN <<Entry("call", Planned[k]), Entry("output", Planned[k])>>
                     ELSE <<Entry("output", Planned[k])>>
    IN  (IF Decision = "continue"
           THEN [n \in DOMAIN mine |-> Entry("call", mine[n])] ELSE <<>>)
        \o FlattenSeq([k \in 1 .. CallCount |-> outs(k)])

\* The model may keep working on this response with the calls it made.
Decide ==
    /\ phase = "decide"
    /\ output' = output \o PublicOutput
    /\ input' = input \o Recorded
    /\ asyncRun' = IF Decision = "continue" /\ CallCount = 0 THEN asyncRun + 1 ELSE 0
    /\ IF Decision = "continue"
         THEN /\ phase' = "open" /\ round' = round + 1
              /\ trail' = Append(trail, IF CallCount > 0 THEN "gateway" ELSE "async")
              /\ items' = <<>> /\ status' = "none" /\ firstGw' = NoWindow /\ notes' = 0
              /\ calls' = <<>> /\ announced' = 0 /\ taken' = 0 /\ relayed' = FALSE
              /\ before' = budget /\ UNCHANGED failed
         ELSE /\ phase' = "finish" /\ status' = Decision
              /\ UNCHANGED <<round, trail, items, firstGw, notes, sched, before>>
    /\ UNCHANGED <<relay, budget, others, ran, outcome, steering>>

\* The response is stored before its terminal event is shown; if it cannot be
\* stored the stream ends with an error instead.
FinishStream ==
    /\ phase = "finish" /\ phase' = "ended"
    /\ outcome' \in {status, "error"}
    /\ UNCHANGED <<round, stream, relay, budget, before, sched, others, ran, output,
                   input, trail, asyncRun, steering>>

Done == phase = "ended" /\ others = 0 /\ UNCHANGED vars

Next ==
    \/ ResponseStart \/ ItemAdded \/ ArgumentsDone \/ ItemDone \/ IndexlessFrame
    \/ RequestSteering \/ StreamEnds \/ SteeringCut
    \/ \E k \in 1 .. MaxItems :
          AcquireExclusion(k) \/ AcquireSlot(k) \/ AcquirePermit(k) \/ CallReturns(k)
    \/ OthersTake \/ OthersRelease \/ TakeResult \/ CallsDrained
    \/ Decide \/ FinishStream \/ Done

Spec == Init /\ [][Next]_vars

\* The upstream stream ends (it has a timeout), a handler answers or times
\* out, other responses give their permits back, and the semaphore they share
\* queues fairly (a round's own calls contend only finitely often); a steer
\* is never owed.
FairSpec ==
    /\ Spec
    /\ WF_vars(ResponseStart) /\ WF_vars(StreamEnds \/ SteeringCut)
    /\ WF_vars(TakeResult) /\ WF_vars(CallsDrained) /\ WF_vars(Decide)
    /\ WF_vars(FinishStream) /\ WF_vars(OthersRelease)
    /\ \A k \in 1 .. MaxItems :
          /\ WF_vars(AcquireExclusion(k)) /\ WF_vars(AcquireSlot(k))
          /\ SF_vars(AcquirePermit(k)) /\ WF_vars(CallReturns(k))

-----------------------------------------------------------------------------
(* Properties *)

\* The state has the shapes the code's types give it.
TypeOK ==
    /\ phase \in {"open", "stream", "exec", "decide", "finish", "ended"}
    /\ round \in 0 .. MaxRounds - 1
    /\ \A n \in DOMAIN items : items[n].kind \in Kinds
    /\ Len(items) <= MaxItems /\ Len(deferred) <= MaxDeferred
    /\ budget.dispatched \in 0 .. MaxToolCalls
    /\ taken <= announced \/ relayed \/ failed \/ taken <= Len(calls)
    /\ asyncRun \in Nat /\ steering \in BOOLEAN

Adds == SelectSeq(wire, LAMBDA f : f.ev = "added")
Of(ev, idx) == {n \in DOMAIN wire : wire[n].ev = ev /\ wire[n].idx = idx}

\* An output index names one item for the client, which is opened once, before
\* it is completed once: neither deferral, refused calls that leave the output,
\* follow-up items nor the offset of a later round makes two items share an
\* index (relay.rs, gateway.rs, lifecycle.rs).
OneItemPerIndex ==
    /\ \A m, n \in DOMAIN wire :
          (wire[m].idx = wire[n].idx /\ wire[m].idx # None) => wire[m].tag = wire[n].tag
    /\ \A n \in DOMAIN wire :
          LET f == wire[n]
          IN  (f.ev # "note") =>
                /\ Cardinality(Of(f.ev, f.idx)) = 1
                /\ f.ev = "done" => \E m \in Of("added", f.idx) : m < n

\* The client sees output items open in the order of their indexes: a call
\* announced early never overtakes an item before it or a follow-up item
\* (gateway.rs initial_event_run_len, start_run_end).
OpenedInOrder ==
    \A n \in 1 .. Len(Adds) - 1 : Adds[n].idx < Adds[n + 1].idx

\* No gateway call is announced before a client-owned call that precedes it, as
\* the comment on initial_event_run_len says (gateway.rs).
ClientCallsNotOvertaken ==
    \A m, n \in 1 .. Len(Adds) :
       LET kind(f) == Kind(f.tag[2])
       IN  (/\ m < n /\ Adds[m].tag[1] = round /\ Adds[n].tag[1] = round
            /\ kind(Adds[m]) \in Gateway /\ kind(Adds[n]) \in SyncClient)
             => Adds[m].idx < Adds[n].idx

\* What was streamed is what the response holds: when a response ends without
\* an error, every streamed item is the stored item at that index, and unless
\* its last round failed upstream every stored item was streamed.
StreamedIsStored ==
    (phase = "finish") =>
        /\ \A n \in DOMAIN wire : wire[n].idx # None =>
              /\ wire[n].idx < Len(output)
              /\ output[wire[n].idx + 1].tag = wire[n].tag
        /\ status # "failed" =>
              \A k \in DOMAIN output : \E n \in DOMAIN wire :
                 wire[n].ev = "added" /\ wire[n].idx = k - 1

\* No frame stays hidden: when a round is over, whatever its calls were and
\* however it ended, the relay has sent everything it deferred, so the next
\* round is never refused (relay/deferred.rs begin_round).
NothingLeftDeferred ==
    /\ (phase \in {"open", "decide", "finish"}) => deferred = <<>>
    /\ (phase \in {"decide", "finish"}) =>
          Cardinality({n \in DOMAIN wire : wire[n].ev = "note" /\ wire[n].tag[1] = round})
            = notes

\* Over all its rounds a response hands at most max_tool_calls calls to
\* handlers and shows at most one refused call (gateway/admission.rs).
WithinToolBudget ==
    /\ Cardinality(ran) <= MaxToolCalls
    /\ Cardinality({n \in DOMAIN output : output[n].as = "refused"}) <= 1

CallsIn(tag)   == {n \in DOMAIN input : input[n].ev = "call" /\ input[n].tag = tag}
OutputsOf(tag) == {n \in DOMAIN input : input[n].ev = "output" /\ input[n].tag = tag}

\* A round starts only when every gateway call made so far has exactly one
\* output after it in the model's input, whether it ran, was refused, failed or
\* had no handler, and never behind a synchronous client call, which would be
\* lost to the client (agent_turn.rs append_round_input, record_gateway_results,
\* round_decision).
AnsweredOnce ==
    (phase = "open") =>
        \A n \in DOMAIN input :
           LET e == input[n]
           IN  /\ e.kind \notin SyncClient
               /\ Cardinality(CallsIn(e.tag)) = 1
               /\ Cardinality(OutputsOf(e.tag)) = IF e.kind \in Gateway THEN 1 ELSE 0
               /\ \A o \in OutputsOf(e.tag) : \E c \in CallsIn(e.tag) : c < o

\* A model that only starts asynchronous jobs is stopped after two rounds in a
\* row, whatever rounds came before (round_policy.rs classify_round).
AsyncRoundsBounded ==
    ~ \E n \in 1 .. Len(trail) - MaxAsync :
        \A m \in n .. n + MaxAsync : trail[m] = "async"

\* Calls that may not overlap take one slot of the round between them, so those
\* that wait for their turn never keep an unrelated tool from a slot
\* (gateway/policy.rs acquire_execution_permits).
WaitersHoldNoSlot ==
    \A k, m \in DOMAIN calls :
       (k # m /\ SameTool(k, m) /\ Kind(Planned[k]) \in Serial) =>
          ~({calls[k], calls[m]} \subseteq {"permit", "running"})

\* A steer never takes a client call from the client: a response it cuts short
\* is not reported steered when its last round holds a synchronous call
\* (agent_turn.rs round_decision).
SteerKeepsClientCalls == (phase = "finish" /\ status = "steered") => ~Sync

\* Once a steer is requested the response starts no further round, however the
\* round in progress ends (agent_turn.rs round_decision).
StopsOnSteer == phase = "decide" /\ steering => phase' # "open"

SteeringStops == [][StopsOnSteer]_vars

\* A response ends: its calls all return, with or without an error of one of
\* them, and the loop stops within its rounds (engine.rs run, lifecycle.rs
\* drive_in_order).
Ends == <>(phase = "ended")
============================================================================
