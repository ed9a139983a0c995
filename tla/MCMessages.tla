----------------------------- MODULE MCMessages -----------------------------
(***************************************************************************)
(* The Messages API for TLC: the thread store shared by replicas           *)
(* (MessageThreads, an implementation of ThreadLog), and the loop of       *)
(* inference rounds and server tools of one message (MessagesLoop).  A     *)
(* behaviour checks one part, chosen at the start; the variables of the    *)
(* other module rest:                                                      *)
(*   threads  three turns on two replicas with different clocks            *)
(*   stream   interleaved blocks with their deltas                         *)
(*   shown    rounds that mix visible, hidden and client calls             *)
(*   uses     inputs, budgets and the thread of a message                  *)
(*   usage    usage reported by several rounds                             *)
(*   replay   the finished turn, returned by the client                    *)
(* The constants of MessageThreads, for threads, are in the cfg.           *)
(***************************************************************************)
EXTENDS MessageThreads, TLC

CONSTANTS x1, x2, x3, y1, y2, i1    \* turns, replicas, and ids of tool calls

VARIABLES
    part,    \* the part this behaviour checks
    phase, acc, ctx, thread, client, told

Plenty == [search |-> 9, fetch |-> 9]
Tight == [search |-> 2, fetch |-> 1]
Silence == [c \in {"output_tokens", "web_search_requests"} |-> {}]
Tokens(n) == [Silence EXCEPT !["output_tokens"] = {n}]
Searches == [c \in {"output_tokens", "web_search_requests"} |-> {2}]

Stream == INSTANCE MessagesLoop WITH
    Kinds <- {"text", "search"}, Inputs <- {"one"}, Ids <- {y1, y2},
    MaxRounds <- 2, MaxBlocks <- 2, MaxFrags <- 1, MaxReports <- 2,
    Stops <- {"tool_use"}, ToolChoices <- {"auto"}, Budgets <- {Plenty},
    Threads <- {FALSE}, Reports <- {Silence}, UniqueIds <- FALSE

Mixed == INSTANCE MessagesLoop WITH
    Kinds <- {"text", "client", "search"}, Inputs <- {"one"}, Ids <- {y1, y2},
    MaxRounds <- 2, MaxBlocks <- 3, MaxFrags <- 0, MaxReports <- 2,
    Stops <- {"tool_use", "end_turn"}, ToolChoices <- {"search"}, Budgets <- {Plenty},
    Threads <- {FALSE}, Reports <- {Silence}, UniqueIds <- FALSE

Limited == INSTANCE MessagesLoop WITH
    Kinds <- {"alias", "search", "fetch"}, Inputs <- {"malformed", "batch", "linked"}, Ids <- {y1, y2},
    MaxRounds <- 2, MaxBlocks <- 2, MaxFrags <- 0, MaxReports <- 2,
    Stops <- {"tool_use", "max_tokens"}, ToolChoices <- {"alias"}, Budgets <- {Tight},
    Threads <- {TRUE}, Reports <- {Silence}, UniqueIds <- FALSE

Metered == INSTANCE MessagesLoop WITH
    Kinds <- {"text", "search"}, Inputs <- {"one"}, Ids <- {i1},
    MaxRounds <- 2, MaxBlocks <- 1, MaxFrags <- 0, MaxReports <- 2,
    Stops <- {"tool_use", "end_turn"}, ToolChoices <- {"auto"}, Budgets <- {Plenty},
    Threads <- {FALSE}, Reports <- {Silence, Tokens(1), Tokens(3), Searches}, UniqueIds <- FALSE

Returned == INSTANCE MessagesLoop WITH
    Kinds <- {"text", "search", "fetch"}, Inputs <- {"one", "given"}, Ids <- {x1, x2, x3},
    MaxRounds <- 3, MaxBlocks <- 2, MaxFrags <- 0, MaxReports <- 2,
    Stops <- {"tool_use", "end_turn"}, ToolChoices <- {"auto"}, Budgets <- {Plenty},
    Threads <- {FALSE}, Reports <- {Silence}, UniqueIds <- TRUE

ASSUME /\ Stream!ConstantsOK /\ Mixed!ConstantsOK /\ Limited!ConstantsOK
       /\ Metered!ConstantsOK /\ Returned!ConstantsOK

Symmetry == Permutations(Turns) \cup Permutations(Replicas)

loopVars == <<phase, acc, ctx, thread, client, told>>

MCInit ==
    /\ part \in {"threads", "stream", "shown", "uses", "usage", "replay"}
    /\ Init /\ (part # "threads" => skew = [r \in Replicas |-> 0])
    /\ CASE part = "shown"   -> Mixed!Init
         [] part = "uses"    -> Limited!Init
         [] part = "usage"   -> Metered!Init
         [] part = "replay"  -> Returned!Init
         [] OTHER            -> Stream!Init

MCNext ==
    /\ UNCHANGED part
    /\ \/ part = "threads" /\ Next /\ UNCHANGED loopVars
       \/ /\ \/ part = "stream"  /\ Stream!Next
             \/ part = "shown"   /\ Mixed!Next
             \/ part = "uses"    /\ Limited!Next
             \/ part = "usage"   /\ Metered!Next
             \/ part = "replay"  /\ Returned!Next
          /\ UNCHANGED vars
       \* requests may stop coming; the loop may not stop
       \/ part = "threads" /\ UNCHANGED <<vars, loopVars>>

MCSpec == MCInit /\ [][MCNext]_<<part, vars, loopVars>>

-----------------------------------------------------------------------------
(* The properties of the parts beside threads. *)

(* Accumulator, thread and client of a message stay in their ranges.       *)
LoopTypeOK ==
    CASE part = "shown"  -> Mixed!TypeOK
      [] part = "uses"   -> Limited!TypeOK
      [] part = "usage"  -> Metered!TypeOK
      [] part = "replay" -> Returned!TypeOK
      [] OTHER           -> Stream!TypeOK

(* Whatever the upstream sends, and wherever the stream is cut, the client *)
(* receives one well-formed message (ingestion.rs, server_tools.rs).       *)
ClientStreamLegal == Stream!ClientStreamLegal

(* A completed stream shows exactly what the non-streaming loop returns    *)
(* for the same rounds (messages_loop.rs deliver).                         *)
StreamShowsTurn ==
    (part = "stream" => Stream!StreamShowsTurn) /\ (part = "shown" => Mixed!StreamShowsTurn)

(* A server tool call is shown exactly when its round ran it, and its      *)
(* result is shown with it (server_tools.rs, messages_stream.rs).          *)
CallsShownRan ==
    (part = "stream" => Stream!CallsShownRan) /\ (part = "shown" => Mixed!CallsShownRan)

(* Every round the next inference is sent pairs each call of the model     *)
(* with one result, in order (messages_round.rs, messages_context.rs).     *)
HistoryPaired ==
    (part = "shown" => Mixed!HistoryPaired) /\ (part = "uses" => Limited!HistoryPaired)

(* The calls that ran, over all rounds and whatever each came to, stay     *)
(* within the max_uses the request declared (messages_tools.rs).           *)
BudgetKept == part = "uses" => Limited!BudgetKept

(* A fetch of a URL the model got from a search runs in a later round than *)
(* a search that returned results (messages_tools.rs).                     *)
FetchFollowsSearch == part = "uses" => Limited!FetchFollowsSearch

(* A client that saw its message complete can continue its thread: the     *)
(* turn was settled before the terminal event (messages_stream.rs).        *)
ThreadSettledFirst == part = "uses" => Limited!ThreadSettledFirst

(* The usage of a turn is the sum of what each round reported last, plus   *)
(* the searches run for the client (messages_usage.rs).                    *)
UsageIsTotal == part = "usage" => Metered!UsageIsTotal

(* Returned to the gateway, a completed turn is split into exactly the     *)
(* rounds the upstream saw (replay.rs assistant_turn).                     *)
ReplayRestoresRounds == part = "replay" => Returned!ReplayRestoresRounds

(* A client that streams receives one legal message, and it is the message *)
(* that the non-streaming loop would return.                               *)
StreamIsTurn == LoopTypeOK /\ ClientStreamLegal /\ StreamShowsTurn /\ CallsShownRan

(* The rounds of a message are paired, within the declared uses, accounted *)
(* for, and settled in their thread before the client sees the end.        *)
RoundsSound ==
    HistoryPaired /\ BudgetKept /\ FetchFollowsSearch /\ ThreadSettledFirst /\ UsageIsTotal
=============================================================================
