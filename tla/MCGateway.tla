----------------------------- MODULE MCGateway ------------------------------
(***************************************************************************)
(* One response of the gateway for TLC: the rounds of inference and tools  *)
(* with the frames the client is sent (GatewayLoop), and the items an      *)
(* upstream stream is accumulated into (ItemSlots).  A behaviour checks    *)
(* one part, chosen at the start; the variables of the other module rest:  *)
(*   wire     one round of deferred, refused, hidden and unnamed calls     *)
(*   rounds   two rounds of every kind of call, with failures              *)
(*   steered  a steer during two rounds                                    *)
(*   jobs     rounds that start asynchronous jobs                          *)
(*   permits  calls that compete for their tool, the round's slots and the *)
(*            permits every response shares                                *)
(*   honest   an upstream that names its items one way or another          *)
(*   strict   an upstream that may say anything, validated strictly        *)
(*   loose    the same under lenient validation, with attributions         *)
(***************************************************************************)
EXTENDS Integers, TLC

CONSTANTS a, b, x    \* item ids, an attribution

VARIABLES
    part,    \* the part this behaviour checks
    phase, round, items, status, firstGw, notes, window, deferred, wire, started, budget,
    before, calls, announced, taken, relayed, failed, others, ran, output, input, trail,
    asyncRun, steering, outcome,
    lifecycle, slots, byId, uncertain, seen, drained, reported, state, asked, style, kindOf,
    upstream, shown, heard

Wire == INSTANCE GatewayLoop WITH
    Kinds <- {"message", "custom", "web", "search", "unbound"},
    Serial <- {}, Outcomes <- {"ok"}, MaxRounds <- 1, MaxItems <- 3, TotalItems <- 3, MaxNotes <- 1,
    MaxDeferred <- 3, MaxToolCalls <- 1, Slots <- 3, Materializations <- 3, MaxOthers <- 0,
    Steers <- FALSE, Listed <- 0, Unnamed <- TRUE, EndsUnnamed <- FALSE

Rounds == INSTANCE GatewayLoop WITH
    Kinds <- {"message", "function", "async", "web", "mcp", "search"},
    Serial <- {}, Outcomes <- {"ok", "failed"}, MaxRounds <- 2, MaxItems <- 2, TotalItems <- 3, MaxNotes <- 0,
    MaxDeferred <- 8, MaxToolCalls <- 1, Slots <- 2, Materializations <- 2, MaxOthers <- 0,
    Steers <- FALSE, Listed <- 1, Unnamed <- FALSE, EndsUnnamed <- FALSE

Steered == INSTANCE GatewayLoop WITH
    Kinds <- {"message", "function", "async", "web", "mcp", "search"},
    Serial <- {}, Outcomes <- {"ok"}, MaxRounds <- 2, MaxItems <- 2, TotalItems <- 3, MaxNotes <- 0,
    MaxDeferred <- 8, MaxToolCalls <- 1, Slots <- 2, Materializations <- 2, MaxOthers <- 0,
    Steers <- TRUE, Listed <- 0, Unnamed <- FALSE, EndsUnnamed <- FALSE

Jobs == INSTANCE GatewayLoop WITH
    Kinds <- {"async", "web"},
    Serial <- {}, Outcomes <- {"ok"}, MaxRounds <- 6, MaxItems <- 1, TotalItems <- 6, MaxNotes <- 0,
    MaxDeferred <- 8, MaxToolCalls <- 1, Slots <- 1, Materializations <- 1, MaxOthers <- 0,
    Steers <- FALSE, Listed <- 0, Unnamed <- FALSE, EndsUnnamed <- FALSE

Permits == INSTANCE GatewayLoop WITH
    Kinds <- {"web", "mcp"},
    Serial <- {"mcp"}, Outcomes <- {"ok", "fatal"}, MaxRounds <- 1, MaxItems <- 3, TotalItems <- 3, MaxNotes <- 0,
    MaxDeferred <- 8, MaxToolCalls <- 3, Slots <- 2, Materializations <- 2, MaxOthers <- 1,
    Steers <- FALSE, Listed <- 0, Unnamed <- FALSE, EndsUnnamed <- FALSE

Honest == INSTANCE ItemSlots WITH
    Strict <- FALSE, Loose <- FALSE, MaxIndex <- 1, Ids <- {"p", "q"},
    IdOf <- (0 :> "p" @@ 1 :> "q"), Calls <- {}, Agents <- {},
    Kinds <- {"message", "hosted", "foreign"}, MaxText <- 1, MaxOutput <- 2,
    output <- drained, status <- reported, steering <- asked

Checked == INSTANCE ItemSlots WITH
    Strict <- TRUE, Loose <- TRUE, MaxIndex <- 1, Ids <- {a}, IdOf <- <<>>, Calls <- {"c", "d"}, Agents <- {x},
    Kinds <- {"message", "function"}, MaxText <- 1, MaxOutput <- 2,
    output <- drained, status <- reported, steering <- asked

Lenient == INSTANCE ItemSlots WITH
    Strict <- FALSE, Loose <- TRUE, MaxIndex <- 1, Ids <- {a, b}, IdOf <- <<>>, Calls <- {}, Agents <- {},
    Kinds <- {"function"}, MaxText <- 1, MaxOutput <- 0,
    output <- drained, status <- reported, steering <- asked

ASSUME /\ Wire!ConstantsOK /\ Rounds!ConstantsOK /\ Steered!ConstantsOK /\ Jobs!ConstantsOK
       /\ Permits!ConstantsOK
       /\ Honest!ConstantsOK /\ Checked!ConstantsOK /\ Lenient!ConstantsOK

loopVars ==
    <<phase, round, items, status, firstGw, notes, window, deferred, wire, started, budget,
      before, calls, announced, taken, relayed, failed, others, ran, output, input, trail,
      asyncRun, steering, outcome>>
slotVars ==
    <<lifecycle, slots, byId, uncertain, seen, drained, reported, state, asked, style, kindOf,
      upstream, shown, heard>>

Symmetry == Permutations({a, b})

Loops == {"wire", "rounds", "steered", "jobs", "permits"}

\* Where the slots rest, they do so in the one initial state of Lenient.
Init ==
    /\ part \in {"wire", "rounds", "steered", "jobs", "permits", "honest", "strict", "loose"}
    /\ CASE part = "rounds"  -> Rounds!Init
         [] part = "steered" -> Steered!Init
         [] part = "jobs"    -> Jobs!Init
         [] part = "permits" -> Permits!Init
         [] OTHER            -> Wire!Init
    /\ CASE part = "honest"  -> Honest!Init
         [] part = "strict"  -> Checked!Init
         [] OTHER            -> Lenient!Init

Next ==
    /\ UNCHANGED part
    /\ \/ /\ \/ part = "wire"    /\ Wire!Next
             \/ part = "rounds"  /\ Rounds!Next
             \/ part = "steered" /\ Steered!Next
             \/ part = "jobs"    /\ Jobs!Next
             \/ part = "permits" /\ Permits!Next
          /\ UNCHANGED slotVars
       \/ /\ \/ part = "honest"  /\ Honest!Next
             \/ part = "strict"  /\ Checked!Next
             \/ part = "loose"   /\ Lenient!Next
          /\ UNCHANGED loopVars
       \* a stream may stop anywhere; the loop may not
       \/ part \notin Loops /\ UNCHANGED <<loopVars, slotVars>>

Spec == Init /\ [][Next]_<<part, loopVars, slotVars>>

-----------------------------------------------------------------------------
(* The properties of the two modules, of the parts that exercise them. *)

(* The state of the loop and of the slots has the shapes the code's types  *)
(* give it.                                                                *)
TypeOK ==
    CASE part = "wire"    -> Wire!TypeOK
      [] part = "rounds"  -> Rounds!TypeOK
      [] part = "steered" -> Steered!TypeOK
      [] part = "jobs"    -> Jobs!TypeOK
      [] part = "permits" -> Permits!TypeOK
      [] part = "honest"  -> Honest!TypeOK
      [] part = "strict"  -> Checked!TypeOK
      [] part = "loose"   -> Lenient!TypeOK

(* An output index names one item for the client, opened once before it is *)
(* completed once, whatever was deferred, refused, hidden or followed up   *)
(* (relay.rs, gateway.rs, lifecycle.rs).                                   *)
OneItemPerIndex ==
    (part = "wire" => Wire!OneItemPerIndex) /\ (part = "rounds" => Rounds!OneItemPerIndex)

(* Output items open in the order of their indexes: a call announced early *)
(* never overtakes an item before it (initial_event_run_len).              *)
OpenedInOrder ==
    (part = "wire" => Wire!OpenedInOrder) /\ (part = "rounds" => Rounds!OpenedInOrder)

(* When a round is over the relay has sent every frame it deferred, so the *)
(* next round is never refused (relay/deferred.rs begin_round).            *)
NothingLeftDeferred == part \in Loops => Wire!NothingLeftDeferred

(* A response that ends without an error holds what was streamed, at the   *)
(* same indexes.                                                           *)
StreamedIsStored ==
    (part = "rounds" => Rounds!StreamedIsStored) /\ (part = "steered" => Steered!StreamedIsStored)

(* Over all rounds at most max_tool_calls calls reach a handler, and at    *)
(* most one refused call is shown (gateway/admission.rs).                  *)
WithinToolBudget == part = "rounds" => Rounds!WithinToolBudget

(* A round starts only when every gateway call so far has one output after *)
(* it in the model's input, and never behind a synchronous client call     *)
(* (append_round_input, record_gateway_results, round_decision).           *)
AnsweredOnce ==
    (part = "rounds" => Rounds!AnsweredOnce) /\ (part = "steered" => Steered!AnsweredOnce)

(* A call that waits for its tool's exclusion holds neither one of the     *)
(* round's slots nor a shared permit (run_bounded_calls).                  *)
WaitersHoldNoSlot == part = "permits" => Permits!WaitersHoldNoSlot

(* Once a steer is requested the response starts no further round.         *)
SteeringStops == [][part = "steered" => Steered!StopsOnSteer]_<<part, loopVars>>

(* A model that only starts asynchronous jobs is stopped after two rounds  *)
(* in a row, whatever rounds came before (classify_round).                 *)
AsyncRoundsBounded == part = "jobs" => Jobs!AsyncRoundsBounded

(* An honest upstream that leaves out indexes or ids never has two of its  *)
(* items folded into one slot, or one item kept twice (slot/identity.rs).  *)
ItemsNotMixed == part = "honest" => Honest!ItemsNotMixed

(* A steer cuts the stream only when every item the upstream has started   *)
(* is one it has finished (finish_for_steering).                           *)
CutSettled == part = "honest" => Honest!CutSettled

(* A call the upstream finished is in the response's output once the       *)
(* stream is over, opened or not (slot.rs complete).                       *)
FinishedKept == part = "honest" => Honest!FinishedKept

(* A strict response that ends other than in failure holds completed items *)
(* only, each with the one call id its events announced (terminal.rs).     *)
StrictResult == part = "strict" => Checked!StrictResult

(* A client sees at each output index one opening, deltas, one completion  *)
(* and nothing more (EventDisposition).                                    *)
FramesInOrder == part = "strict" => Checked!FramesInOrder

(* Whatever mixture of indexes and ids the events carry, the id map and    *)
(* the slots name each other (bind_identity, insert).                      *)
BindingsAgree == part = "loose" => Lenient!BindingsAgree

(* A completed item keeps its content and call id, and an identity once    *)
(* bound is never rebound, whatever late or misdirected events say (slot). *)
CompletedKept == [][part = "loose" => Lenient!KeepsCompleted]_<<part, slotVars>>

(* What the client was streamed is a legal sequence of items, each in its  *)
(* place, and the response it can read later.                              *)
StreamIsResponse ==
    TypeOK /\ OneItemPerIndex /\ OpenedInOrder /\ NothingLeftDeferred /\ StreamedIsStored

(* Every gateway call is answered once for the model, within the budgets   *)
(* of calls and rounds, and no waiting call keeps others from running.     *)
CallsAnswered == AnsweredOnce /\ WithinToolBudget /\ AsyncRoundsBounded /\ WaitersHoldNoSlot

(* A steer stops the response between rounds and takes no client call.     *)
SteeringSafe ==
    /\ [](part = "steered" => Steered!SteerKeepsClientCalls)
    /\ SteeringStops

(* An upstream's events become items, whatever it leaves out or mixes up:  *)
(* none folded into another, none lost, none reopened (slot.rs).           *)
ItemsSound ==
    /\ [](ItemsNotMixed /\ CutSettled /\ FinishedKept /\ StrictResult /\ FramesInOrder
          /\ BindingsAgree)
    /\ CompletedKept
=============================================================================
