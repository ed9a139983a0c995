---------------------------- MODULE MessagesLoop ----------------------------
(***************************************************************************)
(* The Messages API tool loop that streams to its client                   *)
(* (executor/messages_stream.rs and its submodules): several upstream      *)
(* inference rounds become one client-visible message.  Calls the gateway  *)
(* owns are executed between rounds and hidden from the client, except the *)
(* calls of the native server tools it declared, which are shown with      *)
(* their results when, and only when, their round runs them.               *)
(*                                                                         *)
(* A content block is [kind, id, arg, frags, closed]: kind is what the     *)
(* request makes of it -- "text" (every block that is no call), "client"   *)
(* (a call the client runs), "alias" (a hidden call of the gateway's web   *)
(* search), "search" and "fetch" (native calls) -- arg is what its input   *)
(* parses to and frags counts its deltas.  The client is a parser of the   *)
(* frames it is sent: a frame the protocol does not allow makes client.ok  *)
(* FALSE.                                                                  *)
(***************************************************************************)
EXTENDS Integers, Sequences, FiniteSets, SequencesExt

CONSTANTS
    Kinds,          \* the kinds of block the model may produce
    Inputs,         \* what the inputs of gateway calls may parse to
    Ids,            \* tool call identifiers
    MaxRounds,      \* MAX_GATEWAY_TOOL_ROUNDS
    MaxBlocks,      \* bound: blocks of a round
    MaxFrags,       \* bound: deltas of a block
    MaxReports,     \* bound: usage reports (message_start, message_delta) of a round
    Stops,          \* stop reasons an upstream message_delta may carry
    ToolChoices,    \* tool_choice of the request: "auto", "any" or a tool's kind
    Budgets,        \* max_uses a request may declare, for searches and for fetches
    Threads,        \* whether the request continues a thread
    Reports,        \* usage objects the upstream may report: [Counters -> value or none]
    UniqueIds       \* whether the upstream never reuses an identifier in the turn

Counters == {"output_tokens", "web_search_requests"}
NoReport == [c \in Counters |-> {}]
Gateway == {"alias", "search", "fetch"}
Native == {"search", "fetch"}
Calls == Gateway \cup {"client"}
NoStop == "none"

ConstantsOK ==
    /\ Kinds \subseteq {"text"} \cup Calls
    /\ MaxRounds \in Nat \ {0} /\ MaxBlocks \in Nat /\ MaxFrags \in Nat /\ MaxReports \in Nat
    /\ Reports \subseteq [Counters -> {{}} \cup {{n} : n \in 0..9}]

VARIABLES
    phase,      \* "open", "reading", "decide", "terminal", "execute", "done"
    acc,        \* MessagesStreamAccumulator
    ctx,        \* MessagesRequestContext: the conversation, tool choice and budgets
    thread,     \* the thread turn: "none", "claimed", "published", "discarded", "lost"
    client,     \* the client: what it has been shown
    told        \* ghost: every usage object reported, per round

vars == <<phase, acc, ctx, thread, client, told>>

(* ---------------------------------------------------- what the client sees *)
\* A block as the client is shown it; the content of a call is its identifier.
Shown(what, b) == [what |-> what, id |-> b.id, frags |-> b.frags]

ClientSees(c, frame) ==
    LET at == frame.at + 1
        live == c.ok /\ c.ended = "no"
        open == at \in DOMAIN c.blocks /\ c.blocks[at].open
        settled == \A i \in DOMAIN c.blocks : ~c.blocks[i].open
    IN  CASE frame.f = "message_start" ->
               [c EXCEPT !.ok = live /\ ~c.started, !.started = TRUE]
          [] frame.f = "start" ->
               [c EXCEPT !.ok = live /\ c.started /\ at = Len(c.blocks) + 1,
                         !.blocks = Append(@, [what |-> frame.what, id |-> frame.id,
                                               frags |-> 0, open |-> TRUE])]
          [] frame.f = "delta" ->
               [c EXCEPT !.ok = live /\ open,
                         !.blocks = IF open THEN [@ EXCEPT ![at].frags = @ + 1] ELSE @]
          [] frame.f = "stop" ->
               [c EXCEPT !.ok = live /\ open,
                         !.blocks = IF open THEN [@ EXCEPT ![at].open = FALSE] ELSE @]
          [] frame.f = "message_delta" ->
               [c EXCEPT !.ok = live /\ settled /\ c.stop = NoStop,
                         !.stop = frame.what, !.usage = frame.usage]
          [] frame.f = "message_stop" ->
               [c EXCEPT !.ok = live /\ settled /\ c.started, !.ended = "stop"]
          [] frame.f = "error" -> [c EXCEPT !.ok = live, !.ended = "error"]

Sees(c, frames) == FoldLeft(ClientSees, c, frames)

Frame(f, at) == [f |-> f, at |-> at]
StartFrame(at, what, id) == [f |-> "start", at |-> at, what |-> what, id |-> id]
ErrorFrame == Frame("error", 0)

(* ------------------------------------------------------- the accumulator *)

NewRound(a) ==
    [a EXCEPT !.roundStarted = FALSE, !.indexMap = <<>>, !.blocks = <<>>,
              !.held = <<>>, !.delta = <<>>, !.state = "Active"]

NewAccumulator ==
    [messageStarted |-> FALSE, roundStarted |-> FALSE, nextIndex |-> 0,
     indexMap |-> <<>>, blocks |-> <<>>, held |-> <<>>, delta |-> <<>>,
     state |-> "Active",
     usage |-> [committed |-> NoReport, rounds |-> 0, round |-> NoReport, gateway |-> 0]]

\* Upstream block indices are the positions of acc.blocks, from 1; indexMap
\* gives an index the client's index, or -1 while the client has none.
Mapped(a, i) == i \in DOMAIN a.indexMap /\ a.indexMap[i] # -1
Suppressed(a, i) == a.blocks[i].kind \in Gateway

ToolIds(a) == {a.blocks[i].id : i \in {j \in DOMAIN a.blocks : a.blocks[j].kind \in Calls}}
HasClientCall(a) == \E i \in DOMAIN a.blocks : a.blocks[i].kind = "client"

\* forward: one upstream block event with its client index; <<acc, frames>>.
Forward(a, e) ==
    IF e.f = "start"
    THEN <<[a EXCEPT !.nextIndex = @ + 1, !.indexMap[e.at] = a.nextIndex],
           <<StartFrame(a.nextIndex, a.blocks[e.at].kind, a.blocks[e.at].id)>> >>
    ELSE IF Mapped(a, e.at)
         THEN <<a, <<Frame(e.f, a.indexMap[e.at])>> >>
         ELSE <<a, <<>> >>

Hold(a, e) == <<[a EXCEPT !.held = Append(@, e)], <<>> >>

ForwardOrHold(a, e) ==
    IF Mapped(a, e.at) THEN Forward(a, e)
    ELSE IF a.held # <<>> THEN Hold(a, e)
    ELSE <<a, <<>> >>

(* Mutant of OnBlockStart. *)
OnBlockStartLive(a, b) ==
    LET i == Len(a.blocks) + 1
        e == Frame("start", i)
        buffered == [a EXCEPT !.blocks = Append(@, b), !.indexMap = Append(@, -1)]
    IN  IF b.kind \in Native THEN Hold(buffered, e)
        ELSE IF b.kind \in Gateway THEN <<buffered, <<>> >>
        ELSE Forward(buffered, e)

OnBlockStart(a, b) ==
    LET i == Len(a.blocks) + 1
        e == Frame("start", i)
        buffered == [a EXCEPT !.blocks = Append(@, b), !.indexMap = Append(@, -1)]
    IN  IF b.kind \in Native THEN Hold(buffered, e)
        ELSE IF b.kind \in Gateway THEN <<buffered, <<>> >>
        ELSE IF a.held # <<>> THEN Hold(buffered, e)
        ELSE Forward(buffered, e)

OnBlockDelta(a, i) ==
    LET buffered == [a EXCEPT !.blocks[i].frags = @ + 1]
    IN  IF Suppressed(a, i) THEN <<buffered, <<>> >>
        ELSE ForwardOrHold(buffered, Frame("delta", i))

OnBlockStop(a, i) ==
    LET closed == [a EXCEPT !.blocks[i].closed = TRUE]
    IN  IF Suppressed(a, i) THEN <<closed, <<>> >>
        ELSE ForwardOrHold(closed, Frame("stop", i))

\* server_tool_use_frames: a native call as a complete block.
ServerToolUseFrames(at, id) ==
    <<StartFrame(at, "server_tool_use", id), Frame("delta", at), Frame("stop", at)>>

\* release_held: the held events in arrival order, a native call's only when
\* its round runs it.
ReleaseHeld(a, showNative) ==
    LET Release(out, e) ==
            IF Suppressed(out[1], e.at)
            THEN IF showNative
                 THEN <<[out[1] EXCEPT !.nextIndex = @ + 1],
                        out[2] \o ServerToolUseFrames(out[1].nextIndex,
                                                      out[1].blocks[e.at].id)>>
                 ELSE out
            ELSE LET f == Forward(out[1], e) IN <<f[1], out[2] \o f[2]>>
    IN  FoldLeft(Release, <<[a EXCEPT !.held = <<>>], <<>> >>, a.held)

(* ---------------------------------------------------------------- usage *)
AddCounters(total, round) ==
    [c \in Counters |-> IF round[c] = {} THEN total[c]
                        ELSE {IF total[c] = {} THEN n ELSE n + (CHOOSE t \in total[c] : TRUE)
                              : n \in round[c]}]

Overlay(current, reported) ==
    [c \in Counters |-> IF reported[c] # {} THEN reported[c] ELSE current[c]]

Observe(u, reported) == [u EXCEPT !.round = Overlay(@, reported)]

Commit(u) ==
    [u EXCEPT !.committed = AddCounters(@, u.round), !.round = NoReport, !.rounds = @ + 1]

\* finish: the usage the terminal message_delta carries.
FinalUsage(u, carried) ==
    LET folded == Commit(Observe(u, carried))
        server == [c \in Counters |-> IF c = "web_search_requests" /\ u.gateway > 0
                                      THEN {u.gateway} ELSE {}]
        totals == AddCounters(folded.committed, server)
    IN  IF folded.rounds < 2 THEN carried ELSE Overlay(carried, totals)

(* ------------------------------------------------- decisions and execution *)
StopReason(a) == IF a.delta = <<>> THEN NoStop ELSE a.delta[1].stop

\* is_tool_call_stop and decide_round; the choice of a named tool is its kind.
IsToolCallStop(stop, kinds) ==
    stop = "tool_use" \/ (stop = "end_turn" /\ ctx.choice \in kinds)

Decision(a) ==
    LET gateway == {a.blocks[i].kind : i \in DOMAIN a.blocks} \cap Gateway
    IN  IF a.state # "Completed" THEN "Finish"
        ELSE IF HasClientCall(a) THEN "ReturnClient"
        ELSE IF gateway # {} /\ IsToolCallStop(StopReason(a), gateway) THEN "ContinueGateway"
        ELSE "Finish"

VisibleStopReason(decision, stop) ==
    IF decision = "ReturnClient" /\ stop = "end_turn" THEN "tool_use" ELSE stop

\* What a call's input asks for: requested_searches, or one page for a fetch
\* whose arguments name a URL.  "bad" is an input that is no object, "malformed"
\* one whose arguments do not parse.
Uses(call) ==
    CASE call.arg \in {"bad", "malformed"} -> 0
      [] call.arg = "batch" -> 2
      [] OTHER -> 1

\* url_in_prior_context: a "linked" URL is one a search of an earlier round returned.
UrlInPriorContext(call) ==
    call.arg = "linked" => \E r \in DOMAIN ctx.history :
        \E n \in DOMAIN ctx.history[r].results :
            /\ ctx.history[r].results[n].tool # "fetch"
            /\ ctx.history[r].results[n].outcome = "ok"

(* Mutant of Admit. *)
AdmitPerCall(s, call) ==
    LET budget == IF call.kind = "fetch" THEN "fetch" ELSE "search"
    IN  IF call.arg = "bad" \/ (call.arg = "malformed" /\ call.kind = "search")
        THEN [s EXCEPT !.verdicts = Append(@, "invalid")]
        ELSE IF s.left[budget] < 1 THEN [s EXCEPT !.verdicts = Append(@, "max_uses")]
        ELSE [left |-> [s.left EXCEPT ![budget] = @ - 1],
              verdicts |-> Append(s.verdicts,
                  IF call.kind = "fetch" /\ call.arg # "malformed" /\ ~UrlInPriorContext(call)
                  THEN "not_in_context" ELSE "run")]

\* admit: sequential, in call order, against the request's budgets.  The state is
\* [left, verdicts].
Admit(s, call) ==
    LET budget == IF call.kind = "fetch" THEN "fetch" ELSE "search"
        refused == \/ call.arg = "bad"
                   \/ call.arg = "malformed" /\ call.kind = "search"
        covered == Uses(call) <= s.left[budget]
        Verdict(v) == [s EXCEPT !.verdicts = Append(@, v)]
    IN  IF refused THEN Verdict("invalid")
        ELSE IF ~covered THEN Verdict("max_uses")
        ELSE [left |-> [s.left EXCEPT ![budget] = @ - Uses(call)],
              verdicts |-> Append(s.verdicts,
                  IF call.kind = "fetch" /\ call.arg # "malformed" /\ ~UrlInPriorContext(call)
                  THEN "not_in_context" ELSE "run")]

\* run: a call that was not admitted is answered without running; one that runs
\* answers, fails or times out, and malformed arguments always fail.
Outcomes(call, verdict) ==
    IF verdict # "run" THEN {verdict}
    ELSE IF call.arg = "malformed" THEN {"failed"} ELSE {"ok", "failed"}

\* The searches a native call performed for the client, counted in its usage.
SearchesDone(call, outcome) ==
    IF call.kind = "search" /\ outcome = "ok" THEN Uses(call) ELSE 0

GatewayCalls(a) == SelectSeq(a.blocks, LAMBDA b : b.kind \in Gateway)

\* record_executed: a native call's result is one complete block.
ResultFrames(at, calls) ==
    LET native == SelectSeq(calls, LAMBDA b : b.kind \in Native)
    IN  FlattenSeq([n \in DOMAIN native |->
            <<StartFrame(at + n - 1, "result", native[n].id), Frame("stop", at + n - 1)>>])

\* append_round: a forced choice is fulfilled by its result.
ChoiceAfter(calls) ==
    IF \/ ctx.choice = "any"
       \/ \E n \in DOMAIN calls : calls[n].kind = ctx.choice
    THEN "auto" ELSE ctx.choice

(* ----------------------------------------------------------------- actions *)
Init ==
    /\ phase = "open"
    /\ acc = NewAccumulator
    /\ \E choice \in ToolChoices, budget \in Budgets :
          ctx = [history |-> <<>>, choice |-> choice, granted |-> budget, left |-> budget]
    /\ \E t \in Threads : thread = IF t THEN "claimed" ELSE "none"
    /\ client = [started |-> FALSE, blocks |-> <<>>, stop |-> NoStop, usage |-> NoReport,
                 ended |-> "no", ok |-> TRUE]
    /\ told = <<>>

Rounds == Len(ctx.history)

\* open_round: send the next upstream request, or give up.  The first failure
\* is an HTTP error of its own: no stream was opened.
OpenRound ==
    /\ phase = "open" /\ Rounds < MaxRounds
    /\ \/ /\ phase' = "reading"
          /\ acc' = NewRound(acc)
          /\ told' = Append(told, <<>>)
          /\ UNCHANGED client
       \/ /\ phase' = "done"
          /\ client' = IF Rounds = 0 THEN [client EXCEPT !.ended = "refused"]
                       ELSE Sees(client, <<ErrorFrame>>)
          /\ UNCHANGED <<acc, told>>
    /\ UNCHANGED <<ctx, thread>>

RoundsExhausted ==
    /\ phase = "open" /\ Rounds = MaxRounds
    /\ phase' = "done"
    /\ client' = Sees(client, <<ErrorFrame>>)
    /\ UNCHANGED <<acc, ctx, thread, told>>

\* A pushed line that yields a new accumulator and the frames it forwards.
Push(out) ==
    /\ acc' = out[1]
    /\ client' = Sees(client, out[2])
    /\ UNCHANGED <<phase, ctx, thread, told>>

\* A line the accumulator refuses, an upstream error event, or a transport
\* error: one error frame and the stream ends.
FailRound ==
    /\ phase = "reading"
    /\ acc' = [acc EXCEPT !.state = "Failed"]
    /\ client' = Sees(client, <<ErrorFrame>>)
    /\ phase' = "done"
    /\ UNCHANGED <<ctx, thread, told>>

MessageStart(report) ==
    /\ phase = "reading"
    /\ ~acc.roundStarted
    /\ acc' = [acc EXCEPT !.roundStarted = TRUE, !.messageStarted = TRUE,
                          !.usage = Observe(@, report)]
    /\ client' = IF acc.messageStarted THEN client
                 ELSE Sees(client, <<Frame("message_start", 0)>>)
    /\ told' = [told EXCEPT ![Len(told)] = Append(@, report)]
    /\ UNCHANGED <<phase, ctx, thread>>

\* Bound: the upstream opens its blocks at ascending indices.
BlockStart(kind, id, arg) ==
    /\ phase = "reading" /\ acc.roundStarted /\ acc.delta = <<>>
    /\ Len(acc.blocks) < MaxBlocks
    /\ kind \in Calls => id \notin ToolIds(acc)
    /\ UniqueIds /\ kind \in Calls =>
          \A r \in DOMAIN ctx.history : \A i \in DOMAIN ctx.history[r].content :
              ctx.history[r].content[i].kind \in Calls => ctx.history[r].content[i].id # id
    /\ Push(OnBlockStart(acc, [kind |-> kind, id |-> id, arg |-> arg,
                               frags |-> 0, closed |-> FALSE]))

BlockDelta(i) ==
    /\ phase = "reading"
    /\ ~acc.blocks[i].closed /\ acc.blocks[i].frags < MaxFrags
    /\ Push(OnBlockDelta(acc, i))

BlockStop(i) ==
    /\ phase = "reading"
    /\ ~acc.blocks[i].closed
    /\ Push(OnBlockStop(acc, i))

\* A message_delta is buffered; a later one replaces it.
MessageDelta(stop, report) ==
    /\ phase = "reading" /\ acc.roundStarted
    /\ Len(told[Len(told)]) < MaxReports
    /\ acc' = [acc EXCEPT !.delta = <<[stop |-> stop, usage |-> report]>>,
                          !.usage = Observe(@, report)]
    /\ told' = [told EXCEPT ![Len(told)] = Append(@, report)]
    /\ UNCHANGED <<phase, ctx, thread, client>>

\* message_stop completes the round; with a block open, or in a thread without a
\* stop reason, it is refused.
MessageStop ==
    /\ phase = "reading" /\ acc.roundStarted
    /\ \A i \in DOMAIN acc.blocks : acc.blocks[i].closed
    /\ thread # "none" => StopReason(acc) # NoStop
    /\ acc' = [acc EXCEPT !.state = "Completed"]
    /\ phase' = "decide"
    /\ UNCHANGED <<ctx, thread, client, told>>

\* The upstream body ends without message_stop.
EndOfBody ==
    /\ phase = "reading"
    /\ phase' = "decide"
    /\ UNCHANGED <<acc, ctx, thread, client, told>>

\* ThreadRetention::for_response on the stop reason the client is shown.
Retained(stop) ==
    \/ stop \in {"pause_turn", "end_turn", "stop_sequence", "tool_use"}
    \/ stop = "max_tokens" /\ \A i \in DOMAIN acc.blocks : acc.blocks[i].kind \notin Calls

\* complete_round: publish the thread before the terminal frames, or fail.
CompleteRound ==
    /\ phase = "decide" /\ Decision(acc) # "ContinueGateway"
    /\ \/ /\ thread = "none"
          /\ phase' = "terminal"
          /\ UNCHANGED <<thread, client>>
       \/ /\ thread = "claimed" /\ acc.state = "Completed"
          /\ thread' = IF Retained(VisibleStopReason(Decision(acc), StopReason(acc)))
                       THEN "published" ELSE "discarded"
          /\ phase' = "terminal"
          /\ UNCHANGED client
       \/ /\ thread = "claimed"         \* not completed, or storage failed
          /\ thread' = "lost"
          /\ phase' = "done"
          /\ client' = Sees(client, <<ErrorFrame>>)
    /\ UNCHANGED <<acc, ctx, told>>

\* finish, after the held blocks: an error unless the round completed.
Finish(a, decision) ==
    IF a.state # "Completed" THEN <<ErrorFrame>>
    ELSE (IF a.delta = <<>> THEN <<>>
          ELSE << [f |-> "message_delta", at |-> 0,
                   what |-> VisibleStopReason(decision, a.delta[1].stop),
                   usage |-> FinalUsage(a.usage, a.delta[1].usage)] >>)
         \o <<Frame("message_stop", 0)>>

TerminalFrames ==
    /\ phase = "terminal"
    /\ LET out == ReleaseHeld(acc, FALSE)
       IN  /\ acc' = out[1]
           /\ client' = Sees(client, out[2] \o Finish(out[1], Decision(acc)))
    /\ phase' = "done"
    /\ UNCHANGED <<ctx, thread, told>>

\* The round runs its calls: they are shown before they execute.
ShowCalls ==
    /\ phase = "decide" /\ Decision(acc) = "ContinueGateway"
    /\ LET out == ReleaseHeld(acc, TRUE)
       IN  acc' = out[1] /\ client' = Sees(client, out[2])
    /\ phase' = "execute"
    /\ UNCHANGED <<ctx, thread, told>>

\* execute_round: admission in call order, then every call at once; results
\* in call order, whatever order the calls end in.
ExecuteRound ==
    /\ phase = "execute"
    /\ LET calls == GatewayCalls(acc)
           admitted == FoldLeft(Admit, [left |-> ctx.left, verdicts |-> <<>>], calls)
       IN  \E outcome \in [DOMAIN calls -> {"ok", "failed", "invalid", "max_uses", "not_in_context"}] :
            /\ \A n \in DOMAIN calls : outcome[n] \in Outcomes(calls[n], admitted.verdicts[n])
            /\ LET shown == Cardinality({n \in DOMAIN calls : calls[n].kind \in Native})
                   done == FoldLeft(LAMBDA s, n : s + SearchesDone(calls[n], outcome[n]), 0,
                                    [n \in DOMAIN calls |-> n])
                   committed == Commit(acc.usage)
               IN  /\ acc' = [acc EXCEPT !.nextIndex = @ + shown, !.blocks = <<>>,
                                         !.usage = [committed EXCEPT !.gateway = @ + done]]
                   /\ client' = Sees(client, ResultFrames(acc.nextIndex, calls))
                   /\ ctx' = [ctx EXCEPT
                        !.left = admitted.left,
                        !.choice = ChoiceAfter(calls),
                        !.history = Append(@, [content |-> acc.blocks,
                            results |-> [n \in DOMAIN calls |->
                                [id |-> calls[n].id, tool |-> calls[n].kind,
                                 outcome |-> outcome[n]]]])]
    /\ phase' = "open"
    /\ UNCHANGED <<thread, told>>

\* The client disconnects: the stream is dropped wherever it is.
Disconnect ==
    /\ phase # "done"
    /\ phase' = "done"
    /\ client' = [client EXCEPT !.ended = "gone"]
    /\ thread' = IF thread = "claimed" THEN "lost" ELSE thread
    /\ UNCHANGED <<acc, ctx, told>>

Done == phase = "done" /\ UNCHANGED vars

Args(kind) ==
    CASE kind \in {"text", "client"} -> {"none"}
      [] kind = "fetch" -> Inputs \cap {"bad", "malformed", "linked", "given"}
      [] kind \in {"alias", "search"} -> Inputs \cap {"bad", "malformed", "one", "batch"}

IdsOf(kind) == IF kind = "text" THEN {NoStop} ELSE Ids

Next ==
    \/ OpenRound \/ RoundsExhausted
    \/ \E report \in Reports : MessageStart(report)
    \/ \E kind \in Kinds : \E id \in IdsOf(kind), arg \in Args(kind) : BlockStart(kind, id, arg)
    \/ \E i \in DOMAIN acc.blocks : BlockDelta(i) \/ BlockStop(i)
    \/ \E stop \in Stops, report \in Reports : MessageDelta(stop, report)
    \/ MessageStop \/ EndOfBody \/ FailRound
    \/ CompleteRound \/ TerminalFrames \/ ShowCalls \/ ExecuteRound
    \/ Disconnect \/ Done

Spec == Init /\ [][Next]_vars

(* ---------------------------------------------------- reference definitions *)
\* executed_round: what the non-streaming loop shows of an executed round.
ExecutedRound(round) ==
    LET Show(b) == IF b.kind \in Native
                   THEN <<[what |-> "server_tool_use", id |-> b.id, frags |-> 1]>>
                   ELSE IF b.kind \in Gateway THEN <<>>
                   ELSE <<Shown(b.kind, b)>>
        native == SelectSeq(round.results, LAMBDA r : r.tool \in Native)
    IN  FlattenSeq([i \in DOMAIN round.content |-> Show(round.content[i])])
        \o [n \in DOMAIN native |-> [what |-> "result", id |-> native[n].id, frags |-> 0]]

\* strip_gateway_tool_use: the terminal round without its unexecuted calls.
StripGatewayToolUse(content) ==
    LET kept == SelectSeq(content, LAMBDA b : b.kind \notin Gateway)
    IN  [i \in DOMAIN kept |-> Shown(kept[i].kind, kept[i])]

\* deliver: the content of the message the non-streaming loop returns.
Deliver(history, content) ==
    FlattenSeq([r \in DOMAIN history |-> ExecutedRound(history[r])])
        \o StripGatewayToolUse(content)

\* Replay::assistant_turn: the turn the client returns, split back into rounds.
\* seen holds every call id of the turn, open those without a result so far.
EndRound(s) ==
    IF s.results = <<>> THEN s
    ELSE [s EXCEPT !.rounds = Append(@, [content |-> s.content, results |-> s.results]),
                   !.content = <<>>, !.results = <<>>]

(* Mutant of ReplayBlock. *)
ReplayBlockMerging(s, b) ==
    CASE b.what = "server_tool_use" ->
           [s EXCEPT !.ok = @ /\ b.id \notin s.seen, !.seen = @ \cup {b.id},
                     !.open = @ \cup {b.id}, !.content = Append(@, b)]
      [] b.what = "result" ->
           [s EXCEPT !.ok = @ /\ b.id \in s.open, !.open = @ \ {b.id},
                     !.results = Append(@, b.id)]
      [] OTHER -> [EndRound(s) EXCEPT !.content = Append(@, b)]

ReplayBlock(s, b) ==
    CASE b.what = "server_tool_use" ->
           LET e == EndRound(s)
           IN  [e EXCEPT !.ok = @ /\ b.id \notin e.seen, !.seen = @ \cup {b.id},
                         !.open = @ \cup {b.id}, !.content = Append(@, b)]
      [] b.what = "result" ->
           [s EXCEPT !.ok = @ /\ b.id \in s.open, !.open = @ \ {b.id},
                     !.results = Append(@, b.id)]
      [] OTHER -> [EndRound(s) EXCEPT !.content = Append(@, b)]

Replay(blocks) ==
    LET s == EndRound(FoldLeft(ReplayBlock,
                 [rounds |-> <<>>, content |-> <<>>, results |-> <<>>,
                  open |-> {}, seen |-> {}, ok |-> TRUE], blocks))
    IN  [s EXCEPT !.ok = @ /\ s.open = {}]

(* --------------------------------------------------------------- properties *)
ClientBlocks == [i \in DOMAIN client.blocks |->
    [what |-> client.blocks[i].what, id |-> client.blocks[i].id,
     frags |-> client.blocks[i].frags]]

Completed == client.ended = "stop"

TypeOK ==
    /\ phase \in {"open", "reading", "decide", "terminal", "execute", "done"}
    /\ acc.state \in {"Active", "Completed", "Failed"}
    /\ acc.nextIndex \in Nat /\ DOMAIN acc.indexMap = 1..Len(acc.indexMap)
    /\ phase \in {"reading", "decide", "terminal"} => Len(acc.indexMap) = Len(acc.blocks)
    /\ Len(acc.blocks) <= MaxBlocks /\ Len(ctx.history) <= MaxRounds
    /\ thread \in {"none", "claimed", "published", "discarded", "lost"}
    /\ client.ended \in {"no", "stop", "error", "refused", "gone"}

\* Whatever the upstream sends, and wherever the stream is cut, the frames the
\* client receives are one well-formed message: one message_start, contiguous
\* block indices, deltas and stops only for open blocks, and one terminal, after
\* every block is closed.  Live events, released events and results all number
\* their blocks from one counter (ingestion.rs:254, server_tools.rs:22).
ClientStreamLegal == client.ok

\* A completed stream shows exactly what the non-streaming loop returns for the
\* same rounds: the same blocks, complete and in the same order, no hidden or
\* unexecuted call among them (messages_loop.rs:295, server_tools.rs:44).
StreamShowsTurn ==
    Completed => ClientBlocks = Deliver(ctx.history, acc.blocks)

\* A server tool call is shown exactly when its round ran it, and its result is
\* shown with it: at every moment but while the calls run, the calls and the
\* results in the client's stream are those of the executed rounds, in call
\* order (server_tools.rs:22, messages_stream.rs:243).
CallsShownRan ==
    (phase # "execute" /\ client.ended # "gone") =>
        \A what \in {"server_tool_use", "result"} :
            LET seen == SelectSeq(client.blocks, LAMBDA b : b.what = what)
                ran == SelectSeq(FlattenSeq([r \in DOMAIN ctx.history |-> ctx.history[r].results]),
                                 LAMBDA r : r.tool \in Native)
            IN  /\ Len(seen) = Len(ran)
                /\ \A n \in DOMAIN ran : seen[n].id = ran[n].id

\* Every round the next inference is sent pairs each tool call of the model with
\* one result, in order; a round with a call only the client can answer is never
\* continued (messages_round.rs:25, messages_context.rs:371).
HistoryPaired ==
    \A r \in DOMAIN ctx.history :
        LET calls == SelectSeq(ctx.history[r].content, LAMBDA b : b.kind \in Calls)
            results == ctx.history[r].results
        IN  /\ Len(calls) = Len(results)
            /\ \A n \in DOMAIN calls : calls[n].id = results[n].id

\* The calls that ran, over all rounds and whatever each came to, stay within
\* the max_uses the request declared (messages_tools.rs:155).
Ran(outcome) == outcome \in {"ok", "failed"}
Spent(budget) ==
    LET SpentIn(round) ==
            LET calls == SelectSeq(round.content, LAMBDA b : b.kind \in Gateway)
            IN  FoldLeft(LAMBDA s, n : s +
                    IF /\ (calls[n].kind = "fetch") = (budget = "fetch")
                       /\ Ran(round.results[n].outcome)
                    THEN Uses(calls[n]) ELSE 0, 0, [n \in DOMAIN calls |-> n])
    IN  FoldLeft(LAMBDA s, round : s + SpentIn(round), 0, ctx.history)

BudgetKept == \A budget \in {"search", "fetch"} : Spent(budget) <= ctx.granted[budget]

\* A fetch of a URL the model got from a search ran in a later round than a
\* search that returned results: never in the search's own round, whose results
\* did not exist when the fetch was admitted (messages_tools.rs:213).
FetchFollowsSearch ==
    \A r \in DOMAIN ctx.history : \A i \in DOMAIN ctx.history[r].content :
        LET b == ctx.history[r].content[i]
            fetched == \E n \in DOMAIN ctx.history[r].results :
                          /\ ctx.history[r].results[n].id = b.id
                          /\ Ran(ctx.history[r].results[n].outcome)
        IN  (b.kind = "fetch" /\ b.arg = "linked" /\ fetched) =>
                \E q \in 1..(r - 1) : \E n \in DOMAIN ctx.history[q].results :
                    /\ ctx.history[q].results[n].tool # "fetch"
                    /\ ctx.history[q].results[n].outcome = "ok"

\* The usage of a turn of several rounds is the sum of what each round reported
\* last, plus the searches run for the client: a repeated cumulative report is
\* not counted twice and no hidden round is dropped (messages_usage.rs:144).
LastReported(round, c) ==
    LET given == SelectSeq(told[round], LAMBDA u : u[c] # {})
    IN  IF given = <<>> THEN {} ELSE given[Len(given)][c]

SearchesRun ==
    LET In(round) == LET calls == SelectSeq(round.content, LAMBDA b : b.kind \in Gateway)
                     IN  FoldLeft(LAMBDA s, n : s + SearchesDone(calls[n], round.results[n].outcome),
                                  0, [n \in DOMAIN calls |-> n])
    IN  FoldLeft(LAMBDA s, round : s + In(round), 0, ctx.history)

UsageIsTotal ==
    (Completed /\ client.stop # NoStop /\ Len(told) > 1) =>
        \A c \in Counters :
            LET known == {r \in DOMAIN told : LastReported(r, c) # {}}
                sum == FoldLeft(LAMBDA s, r : s + IF r \in known
                                    THEN CHOOSE n \in LastReported(r, c) : TRUE ELSE 0,
                                0, [r \in DOMAIN told |-> r])
                own == IF c = "web_search_requests" THEN SearchesRun ELSE 0
            IN  client.usage[c] = IF known = {} /\ own = 0 THEN {} ELSE {sum + own}

\* A client that saw its message complete can continue its thread: the turn was
\* settled before the terminal, and a turn cut off inside a call is never kept
\* as one to continue (messages_stream.rs:271, messages_threads.rs:286).
ThreadSettledFirst ==
    /\ (Completed /\ thread # "none") => thread \in {"published", "discarded"}
    /\ thread = "published" =>
          /\ acc.state = "Completed"
          /\ StopReason(acc) = "max_tokens" =>
                \A i \in DOMAIN acc.blocks : acc.blocks[i].kind \notin Calls

\* Returned to the gateway, a completed turn whose calls were all shown is split
\* into exactly the rounds the upstream saw (replay.rs:146).
NothingHidden == \A r \in DOMAIN ctx.history :
    \A i \in DOMAIN ctx.history[r].content : ctx.history[r].content[i].kind # "alias"

ReplayRestoresRounds ==
    (Completed /\ NothingHidden) =>
        LET replayed == Replay(ClientBlocks)
            Ids1(content) == [i \in DOMAIN content |-> content[i].id]
        IN  /\ replayed.ok
            /\ Len(replayed.rounds) = Len(ctx.history)
            /\ \A r \in DOMAIN ctx.history :
                  /\ Ids1(replayed.rounds[r].content) = Ids1(ctx.history[r].content)
                  /\ replayed.rounds[r].results = Ids1(ctx.history[r].results)
            /\ replayed.content = StripGatewayToolUse(acc.blocks)

\* The turn a client was sent can be returned to the gateway: "the ids and the
\* projected tool_result texts are the ones the live rounds used"
\* (replay.rs:8), and ingestion accepts an id again in a later round
\* (ingestion.rs:279).
OwnTurnAccepted == Completed => Replay(ClientBlocks).ok
============================================================================
