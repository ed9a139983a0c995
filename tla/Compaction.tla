----------------------------- MODULE Compaction -----------------------------
(***************************************************************************)
(* The history of one chain of responses across turns and compactions.     *)
(*                                                                         *)
(* A turn continues the latest response: from storage over HTTP            *)
(* (executor/rehydrate.rs from_response), or in a WebSocket session from   *)
(* the retained checkpoint, with storage as the fallback                   *)
(* (from_session_response).  The turn's items join the history, every      *)
(* synchronous call must be answered, and the turn runs rounds of          *)
(* inference; before each round the history may be compacted               *)
(* (executor/compaction.rs).  A compaction_trigger item and the            *)
(* /v1/responses/compact endpoint compact and nothing else.  Persistence   *)
(* appends the turn's items to the stored chain and publishes the          *)
(* session's next checkpoint (executor/persist.rs, session/checkpoint.rs). *)
(*                                                                         *)
(* Summaries are opaque; a summary that fails ends the turn.  Thresholds,  *)
(* token estimates and byte limits are choices.  One chain, one turn at a  *)
(* time: module ResponseSession has the leases, ResponseStore the forks.   *)
(***************************************************************************)
EXTENDS CompactionWindow, SequencesExt

CONSTANTS Session,     \* TRUE: turns run in a WebSocket session
          MaxTurns,    \* bound: turns that are persisted
          MaxRounds,   \* bound: inference rounds of a turn
          MaxAnswers,  \* bound: outputs in one request
          SentStatus   \* whether the client's messages carry a completed status and an id

VARIABLES
    chain,     \* items of the latest response's stored chain
    stored,    \* the latest response is in storage
    kept,      \* history of the session's retained checkpoint
    cached,    \* the session retains that checkpoint
    turn,      \* the running turn, or NoTurn
    window,    \* the window the compact endpoint last returned
    turns,     \* turns persisted so far; also numbers the user messages
    said,      \* user messages of the chain's persisted turns
    issued,    \* calls of the chain's persisted turns
    answered   \* those of them with an output

client == <<said, issued, answered>>
vars == <<chain, stored, kept, cached, turn, window, turns, said, issued, answered>>

NoTurn == [phase |-> "idle"]

UserIds(items) == {items[i].id : i \in {j \in Indices(items) : items[j].t = "user"}}

-----------------------------------------------------------------------------
(* The client's requests. *)

Answers(S) == LET calls == SetToSeq(S) IN [i \in Indices(calls) |-> Out(calls[i])]

\* Items a client may send: a message, outputs for calls it was given, an
\* async call of its own with or without its output, and mistakes.
Requests ==
    LET say     == {<<>>} \cup {<<User(turns + 1, done)>> : done \in SentStatus}
        answers == UNION {[1..n -> {Out(c) : c \in issued}] : n \in 0..MaxAnswers}
        own     == {<<Call(c)>> : c \in AsyncCalls \ issued}
                       \cup {<<Call(c), Out(c)>> : c \in AsyncCalls \ issued}
        wrong   == {<<WrongOut(c)>> : c \in issued} \cup {<<Out(c)>> : c \in Calls \ issued}
    IN {a \o s : a \in answers, s \in say} \cup own \cup wrong

-----------------------------------------------------------------------------
(* Rehydration. *)

\* the parent a session turn continues
SessionParent == IF cached THEN kept ELSE RetainWindow(chain)

\* set_model_input(): the continued history and the request's own items
Continued(own) == IF Session THEN RetainWindow(SessionParent \o own) ELSE chain \o own

Admits(items) == Scans(items) /\ RequireAnswered(items)

\* a turn without a parent: a new chain
NewTurn(own, store) ==
    [phase |-> IF Trigger \in ToSet(own) THEN "trigger" ELSE "round",
     own |-> own, input |-> own, output |-> <<>>, sent |-> own,
     parent |-> <<>>, parentStored |-> TRUE, base |-> <<>>, store |-> store,
     replaced |-> FALSE, absorbed |-> 0, rounds |-> 0, restart |-> FALSE]

\* The registry lists the MCP server unless the history says it was listed.
Discovered(t) ==
    IF t.phase = "round" /\ Listed \notin ToSet(t.input) THEN [t EXCEPT !.output = <<Listed>>] ELSE t

CanBegin == turn = NoTurn /\ turns < MaxTurns

\* The first request of a chain.
Start(store) ==
    /\ CanBegin
    /\ turns = 0
    /\ Session \/ store
    /\ turn' = Discovered(NewTurn(<<User(1, FALSE)>>, store))
    /\ UNCHANGED <<chain, stored, kept, cached, window, turns, client>>

\* A turn that continues the latest response.
Begin(own, store) ==
    /\ CanBegin
    /\ turns > 0
    /\ own # <<>>
    /\ IF Session THEN cached \/ (stored /\ store) ELSE stored /\ store
    /\ LET input == Continued(own)
       IN IF Admits(input)
          THEN /\ turn' = Discovered([NewTurn(own, store) EXCEPT
                              !.input = input,
                              !.parent = IF Session THEN SessionParent ELSE <<>>,
                              !.parentStored = stored,
                              !.base = chain])
               /\ UNCHANGED cached
          \* refused: the dropped lease evicts the session's parent
          ELSE cached' = FALSE /\ UNCHANGED turn
    /\ UNCHANGED <<chain, stored, kept, window, turns, client>>

\* The client starts over from the window the compact endpoint returned.
Replay ==
    /\ CanBegin
    /\ window # <<>>
    /\ turn' = Discovered([NewTurn(Append(window, User(turns + 1, FALSE)), TRUE) EXCEPT !.restart = TRUE])
    /\ UNCHANGED <<chain, stored, kept, cached, window, turns, client>>

-----------------------------------------------------------------------------
(* The rounds of a turn. *)

\* maybe_compact_context(): the threshold is exceeded and the summary usable
Compact ==
    /\ turn.phase = "round"
    /\ CanCompact(turn.input)
    /\ turn' = [turn EXCEPT
           !.phase = "infer",
           !.input = CompactedWindow(turn.input) \o OpenCalls(turn.input),
           !.own = StoredWindow(turn.input, turn.own),
           !.replaced = Session,
           !.absorbed = IF Session THEN Len(turn.output) ELSE 0]
    /\ UNCHANGED <<chain, stored, kept, cached, window, turns, client>>

SkipCompaction ==
    /\ turn.phase = "round"
    /\ turn' = [turn EXCEPT !.phase = "infer"]
    /\ UNCHANGED <<chain, stored, kept, cached, window, turns, client>>

\* run_compaction_trigger(): the turn only compacts
RunTrigger ==
    /\ turn.phase = "trigger"
    /\ CanCompact(turn.input)
    /\ turn' = [turn EXCEPT
           !.phase = "persist",
           !.own = StoredInputs(turn.input, turn.own),
           !.output = <<Compacted>>,
           !.replaced = Session]
    /\ UNCHANGED <<chain, stored, kept, cached, window, turns, client>>

\* The model answered with `items'.  Unless it was the last round, one more
\* follows when `works': tools ran, or every client call is async.
Infer(items, works) ==
    LET goesOn == works /\ turn.rounds + 1 < MaxRounds
    IN /\ turn.phase = "infer"
       /\ turn' = [turn EXCEPT
              !.phase = IF goesOn THEN "round" ELSE "persist",
              !.output = @ \o items,
              !.input = IF goesOn THEN @ \o items ELSE @,
              !.rounds = @ + 1]
       /\ UNCHANGED <<chain, stored, kept, cached, window, turns, client>>

Fresh == Calls \ (issued \cup CallIds(turn.sent) \cup CallIds(turn.output))

ModelAnswers ==
    /\ turn.phase = "infer"
    /\ \/ Infer(<<Reply>>, FALSE)
       \/ Infer(<<Tool>>, TRUE)
       \/ \E c \in Fresh \cap AsyncCalls :
             \/ Infer(<<Call(c)>>, TRUE)
             \/ \E d \in Fresh \cap SyncCalls : Infer(<<Call(c), Call(d)>>, FALSE)
       \/ \E d \in Fresh \cap SyncCalls : Infer(<<Call(d)>>, FALSE)

\* The summary or an inference call fails: nothing is stored, and the
\* dropped lease evicts the parent.
Fail ==
    /\ turn # NoTurn
    /\ turn.phase # "persist"
    /\ turn' = NoTurn
    /\ cached' = FALSE
    /\ UNCHANGED <<chain, stored, kept, window, turns, client>>

-----------------------------------------------------------------------------
(* Persistence. *)

\* parent_items(): what the turn keeps of its parent's history
ParentItems(t) ==
    IF t.replaced
    THEN KeepAt(t.parent, {i \in Indices(t.parent) : t.parent[i] = Listed} \cup AsyncRecords(t.parent))
    ELSE t.parent

\* retains_output(): a session does not store the outputs its summary absorbed
RetainsOutput(t, i) == i > t.absorbed \/ t.output[i] = Listed \/ IsAsyncCall(t.output[i])

TurnItems(t) == t.own \o KeepAt(t.output, {i \in Indices(t.output) : RetainsOutput(t, i)})

\* A stored child of a transient parent stores the parent's items as well.
StoredItems(t) == (IF t.parentStored THEN t.base ELSE ParentItems(t)) \o TurnItems(t)

\* What the client has sent and received once the running turn counts.
Earlier(S)  == IF turn.restart THEN {} ELSE S
Said        == Earlier(said) \cup UserIds(turn.sent)
AllIssued   == Earlier(issued) \cup CallIds(turn.sent) \cup CallIds(turn.output)
AllAnswered == Earlier(answered) \cup OutputIds(turn.sent)

Persist ==
    /\ turn.phase = "persist"
    /\ chain' = IF turn.store THEN StoredItems(turn) ELSE <<>>
    /\ stored' = turn.store
    /\ kept' = IF Session THEN RetainWindow(ParentItems(turn) \o TurnItems(turn)) ELSE <<>>
    /\ cached' = Session
    /\ turns' = turns + 1
    /\ said' = Said
    /\ issued' = AllIssued
    /\ answered' = AllAnswered
    /\ turn' = NoTurn
    /\ UNCHANGED window

\* compact_response(): POST /v1/responses/compact on a stored response
CompactResponse(own) ==
    /\ CanBegin
    /\ turns > 0
    /\ ~Session
    /\ LET items == chain \o own
       IN /\ Admits(items)
          /\ CanCompact(items)
          /\ chain' = chain \o StoredWindow(items, own)
          /\ window' = CompactedWindow(items) \o OpenCalls(items)
    /\ turns' = turns + 1
    /\ said' = said \cup UserIds(own)
    /\ issued' = issued \cup CallIds(own)
    /\ answered' = answered \cup OutputIds(own)
    /\ UNCHANGED <<stored, kept, cached, turn>>

\* The connection closes; the next one continues the stored response.
Reconnect ==
    /\ turn = NoTurn
    /\ cached
    /\ cached' = FALSE
    /\ UNCHANGED <<chain, stored, kept, turn, window, turns, client>>

-----------------------------------------------------------------------------

Init ==
    /\ chain = <<>> /\ stored = FALSE
    /\ kept = <<>> /\ cached = FALSE
    /\ turn = NoTurn
    /\ window = <<>>
    /\ turns = 0
    /\ said = {} /\ issued = {} /\ answered = {}

Next ==
    \/ \E store \in BOOLEAN :
          \/ Start(store)
          \/ \E own \in Requests : Begin(own, store) \/ Begin(Append(own, Trigger), store)
    \/ Replay \/ Compact \/ SkipCompaction \/ RunTrigger \/ ModelAnswers \/ Fail
    \/ Persist
    \/ \E own \in Requests : CompactResponse(own)
    \/ Reconnect

Spec == Init /\ [][Next]_vars

-----------------------------------------------------------------------------
(* Properties. *)

ItemTypes == {"user", "call", "out", "wrong", "compaction", "trigger", "reply", "tool", "listed"}

IsHistory(items) == \A i \in Indices(items) : items[i].t \in ItemTypes

\* The histories hold items, a turn stays within its rounds, and only a
\* session caches a checkpoint.
TypeOK ==
    /\ IsHistory(chain) /\ IsHistory(kept) /\ IsHistory(window)
    /\ stored \in BOOLEAN /\ cached \in BOOLEAN
    /\ cached => Session
    /\ turns \in 0..MaxTurns
    /\ answered \subseteq issued /\ issued \subseteq Calls
    /\ turn # NoTurn =>
          /\ turn.phase \in {"round", "infer", "trigger", "persist"}
          /\ turn.rounds <= MaxRounds
          /\ IsHistory(turn.input) /\ IsHistory(turn.own) /\ IsHistory(turn.output)

\* The client can continue the latest response the way it has so far.
Continuable == turn = NoTurn /\ turns > 0 /\ (stored \/ (Session /\ cached))

\* synchronous calls the client still has to answer
Owed == (issued \cap SyncCalls) \ answered

\* However often the history was compacted, a request that answers what the
\* client owes is admitted, and so is one that brings an output for any async
\* call it was ever given: the output finds its call and nothing is left to
\* answer (pending_calls.rs scan and require_answered over what
\* CompactionCarryOver, async_records and retain_window kept).
AnswersFindCalls ==
    Continuable =>
        \A late \in SUBSET (issued \cap AsyncCalls) :
            Cardinality(late) <= 1 => Admits(Continued(Answers(late \cup Owed)))

\* the outputs of `items' whose call does not come before them
Orphans(items) ==
    {items[i].id : i \in {j \in Indices(items) :
        IsOutput(items[j]) /\ Call(items[j].id) \notin ToSet(SubSeq(items, 1, j - 1))}}

\* No inference request leaves a synchronous call without its output, or
\* holds an output without its call before it, unless the client repeats the
\* output of a synchronous call (model_items, set_model_input).
ModelPaired ==
    turn.phase = "infer" =>
        LET seen == ModelItems(turn.input)
        IN RequireAnswered(seen) /\ Orphans(seen) \subseteq answered \cap SyncCalls

\* The same without the exception: what the comment of model_items promises.
\* The exception is real: CallLedger::scan accepts a repeated output for any
\* call, and model_items brings back async calls only.
OutputHasCall == turn.phase = "infer" => Orphans(ModelItems(turn.input)) = {}

InModel(item) == item \in ToSet(ModelItems(turn.input))

\* An async call without an output is in every inference request until its
\* output arrives, whatever compacted in between (open_async_call_ids,
\* retains_output, own_open_calls).
OpenCallsShown ==
    turn.phase = "infer" => \A c \in (AllIssued \cap AsyncCalls) \ AllAnswered : InModel(Call(c))

\* A call whose output was accepted is never shown to the model as pending:
\* call and output leave the window together (StoredCarryOver::insert_into).
AnsweredNotPending ==
    turn.phase = "infer" => \A c \in AllAnswered : InModel(Call(c)) => InModel(Out(c))

\* Every message the user sent in the chain is in every inference request:
\* a compaction summarizes the rest only (retained_user_window).
UsersKept == turn.phase = "infer" => Said \subseteq UserIds(ModelItems(turn.input))

Once(items, item) == Cardinality({i \in Indices(items) : items[i] = item}) <= 1

\* No history and no inference request holds a call twice: a compaction
\* stores again only what the histories it leaves behind do not keep
\* (CompactionCarryOver).
CallOnce ==
    /\ turn.phase = "infer" => \A c \in Calls : Once(ModelItems(turn.input), Call(c))
    /\ \A c \in Calls : Once(chain, Call(c)) /\ Once(kept, Call(c))

\* An MCP server is listed once per chain: compactions keep the discovery
\* record where the next turn's registry looks for it (parent_items,
\* canonical_session_history).
ListedOnce == Once(chain, Listed) /\ Once(kept, Listed)

\* a user message and its retained copy read the same
Text(items) == [i \in Indices(items) |-> IF items[i].t = "user" THEN User(items[i].id, FALSE) ELSE items[i]]

\* The model sees the same context whether a session continues its retained
\* checkpoint or, after a reconnect, the stored chain.
SessionAgrees ==
    Session /\ turn = NoTurn /\ cached /\ stored => Text(ModelItems(kept)) = Text(ModelItems(chain))

\* Repeated outputs of an async call do not pile up in a session's
\* checkpoint: the part a compaction superseded has one for each call
\* (async_records).
OneOutput ==
    cached => \A c \in AsyncCalls : Once(SubSeq(kept, 1, LatestIndex(kept) - 1), Out(c))

\* A stored response can be continued over HTTP with the outputs it still
\* awaits.  It holds for chains that HTTP turns wrote; a session can store a
\* chain that holds an output without its call.
StoredGoesOn == turn = NoTurn /\ stored => Admits(chain \o Answers(Owed))
============================================================================
