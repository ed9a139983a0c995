-------------------------- MODULE CompactionWindow --------------------------
(***************************************************************************)
(* What a history of items means to the gateway: which calls it leaves     *)
(* open (executor/pending_calls.rs), which of its items the latest         *)
(* checkpoint leaves in the model's context (types/io/input/window.rs) and *)
(* which ones a compaction carries over (executor/compaction.rs and        *)
(* compaction/carry_over.rs).  Pure operators over sequences of items; the *)
(* turns that apply them are in module Compaction.                         *)
(*                                                                         *)
(* An item is kept to what these functions read: its type, the call or     *)
(* message it stands for, the kind a call and its output must agree on,    *)
(* and whether a user message is a completed one with an id.               *)
(***************************************************************************)
EXTENDS Integers, Sequences, FiniteSets

CONSTANTS AsyncCalls,   \* call ids of async tools (`async: true' on the call item)
          SyncCalls     \* call ids of ordinary client tools

CallsDisjoint == AsyncCalls \cap SyncCalls = {}

Calls == AsyncCalls \cup SyncCalls

-----------------------------------------------------------------------------
(* Items. *)

User(n, done) == [t |-> "user", id |-> n, done |-> done]
Call(c)       == [t |-> "call", id |-> c]
Out(c)        == [t |-> "out", id |-> c]
\* an output item whose type is not the one of the call it names
WrongOut(c)   == [t |-> "wrong", id |-> c]
Compacted     == [t |-> "compaction"]
Trigger       == [t |-> "trigger"]
Reply         == [t |-> "reply"]
\* a gateway tool's public record, which holds its own result
Tool          == [t |-> "tool"]
\* mcp_list_tools: an MCP server was listed
Listed        == [t |-> "listed"]

IsCall(item)      == item.t = "call"
IsOutput(item)    == item.t \in {"out", "wrong"}
IsAsyncCall(item) == item.t = "call" /\ item.id \in AsyncCalls

IsModelVisible(item) == item.t \notin {"listed", "trigger"}

\* web_search_call and mcp_call records are not counted as context
HasMeaningfulContext(item) == item.t \notin {"listed", "trigger", "tool"}

Indices(items) == 1..Len(items)

CallIds(items)   == {items[i].id : i \in {j \in Indices(items) : IsCall(items[j])}}
OutputIds(items) == {items[i].id : i \in {j \in Indices(items) : IsOutput(items[j])}}

\* The items at the positions in `at', in order.
KeepAt(items, at) ==
    LET kept[i \in 0..Len(items)] ==
            IF i = 0 THEN <<>>
            ELSE IF i \in at THEN Append(kept[i - 1], items[i]) ELSE kept[i - 1]
    IN kept[Len(items)]

-----------------------------------------------------------------------------
(* CallLedger: the calls of a sequence and whether an output resolved them. *)

\* scan() accepts: every output follows a call of its id and kind
Scans(items) ==
    \A i \in Indices(items) :
        /\ items[i].t # "wrong"
        /\ items[i].t = "out" => \E j \in 1..(i - 1) : items[j] = Call(items[i].id)

\* pending(): the calls of a scanned sequence that no output resolved.  A
\* repeated call adds nothing, so one output for its id is enough.
Pending(items) == CallIds(items) \ OutputIds(items)

AwaitsOutput(items) == Pending(items) \cap SyncCalls # {}

RequireAnswered(items) == ~AwaitsOutput(items)

-----------------------------------------------------------------------------
(* The window of the latest checkpoint. *)

Checkpoints(items) == {i \in Indices(items) : items[i] = Compacted}

Largest(S) == CHOOSE n \in S : \A m \in S : m <= n

\* position of the latest compaction item, 0 for none
LatestIndex(items) == IF Checkpoints(items) = {} THEN 0 ELSE Largest(Checkpoints(items))

\* user messages before this position are not retained any more
RetainedStart(items) ==
    LET earlier == Checkpoints(items) \ {LatestIndex(items)}
    IN IF earlier = {} THEN 1 ELSE Largest(earlier) + 1

RetainsUserItem(items, i) ==
    /\ i >= RetainedStart(items)
    /\ i < LatestIndex(items)
    /\ items[i].t = "user"
    /\ items[i].done

OpenAsyncCallIds(items) ==
    {c \in AsyncCalls :
        \E i \in Indices(items) :
            /\ items[i] = Call(c)
            /\ \A j \in (i + 1)..Len(items) : ~(IsOutput(items[j]) /\ items[j].id = c)}

RetainedAsyncCall(item, ids) == IsAsyncCall(item) /\ item.id \in ids

\* Positions of the async calls and of the last output for each.
AsyncRecords(items) ==
    {i \in Indices(items) :
        \/ IsAsyncCall(items[i])
        \/ /\ IsOutput(items[i])
           /\ items[i].id \in CallIds(items) \cap AsyncCalls
           /\ \A j \in (i + 1)..Len(items) : ~(IsOutput(items[j]) /\ items[j].id = items[i].id)}

\* What the model receives of `items'.
ModelItems(items) ==
    LET latest == LatestIndex(items)
        open   == OpenAsyncCallIds(SubSeq(items, 1, latest - 1))
                      \cup OutputIds(SubSeq(items, latest, Len(items)))
    IN KeepAt(items,
              {i \in Indices(items) :
                  /\ IsModelVisible(items[i])
                  /\ \/ latest = 0
                     \/ i >= latest
                     \/ RetainsUserItem(items, i)
                     \/ RetainedAsyncCall(items[i], open)})

\* canonical_session_history(): what a session retains of `items'.
RetainWindow(items) ==
    LET latest  == LatestIndex(items)
        records == AsyncRecords(SubSeq(items, 1, latest - 1))
    IN IF latest = 0 THEN items
       ELSE KeepAt(items,
                   {i \in Indices(items) :
                       \/ i >= latest
                       \/ RetainsUserItem(items, i)
                       \/ i \in records
                       \/ items[i] = Listed})

-----------------------------------------------------------------------------
(* Compaction of a sequence. *)

\* retained_user_window(): the window's user messages as completed copies
RetainedUserWindow(items) ==
    LET latest == LatestIndex(items)
        kept   == KeepAt(items,
                         {i \in Indices(items) :
                             /\ items[i].t = "user"
                             /\ i < latest => RetainsUserItem(items, i)})
    IN [i \in Indices(kept) |-> User(kept[i].id, TRUE)]

CanCompact(items) == \E i \in Indices(items) : HasMeaningfulContext(items[i])

\* summarize_items(), once a usable summary has arrived
CompactedWindow(items) == Append(RetainedUserWindow(items), Compacted)

\* CompactionCarryOver::open_calls
OpenCalls(items) ==
    KeepAt(items, {i \in Indices(items) : RetainedAsyncCall(items[i], OpenAsyncCallIds(items))})

ToolRecords(own) == SelectSeq(own, LAMBDA item : IsCall(item) \/ IsOutput(item))

(* Mutant of CarriedAnswers. *)
CarriesOwnRecordsOnly(items, own) ==
    LET records == ToolRecords(own)
        open    == OpenAsyncCallIds(items)
    IN KeepAt(records, {i \in AsyncRecords(records) : ~RetainedAsyncCall(records[i], open)})

\* StoredCarryOver::answered: late outputs, and answered async calls of the
\* request with the last output of each
CarriedAnswers(items, own) ==
    LET records == ToolRecords(own)
        async   == AsyncRecords(records)
        open    == OpenAsyncCallIds(items)
    IN KeepAt(records,
              {i \in Indices(records) :
                  \/ IsOutput(records[i]) /\ records[i].id \notin CallIds(records)
                  \/ i \in async /\ ~RetainedAsyncCall(records[i], open)})

\* StoredCarryOver::own_open_calls
CarriedOpenCalls(items, own) ==
    LET records == ToolRecords(own)
    IN SelectSeq(records, LAMBDA item : RetainedAsyncCall(item, OpenAsyncCallIds(items)))

\* insert_into(): the window a compaction stores in place of the request's items
StoredWindow(items, own) ==
    RetainedUserWindow(items) \o CarriedAnswers(items, own)
        \o <<Compacted>> \o CarriedOpenCalls(items, own)

\* into_inputs(): the same before the compaction item that a
\* compaction_trigger turn returns as its output
StoredInputs(items, own) ==
    RetainedUserWindow(items) \o CarriedAnswers(items, own) \o CarriedOpenCalls(items, own)

=============================================================================
