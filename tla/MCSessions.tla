----------------------------- MODULE MCSessions -----------------------------
(***************************************************************************)
(* The continuation of a response for TLC: the sessions of a WebSocket     *)
(* connection (ResponseSession), and one chain of responses with           *)
(* compactions (Compaction), over HTTP and in a session.                   *)
(*                                                                         *)
(* A behaviour checks one part, chosen at the start; the variables of the  *)
(* other parts rest.  The constants of ResponseSession are in the cfg.     *)
(***************************************************************************)
EXTENDS ResponseSession, TLC

CONSTANTS a1, a2, c1    \* calls of async tools, a call of an ordinary tool

VARIABLES
    part,    \* the part this behaviour checks
    chain, rows, kept, cached, current, window, turns, said, issued, answered

Http == INSTANCE Compaction WITH
    AsyncCalls <- {a1, a2}, SyncCalls <- {c1}, Session <- FALSE,
    MaxTurns <- 3, MaxRounds <- 2, MaxAnswers <- 1, SentStatus <- {FALSE},
    stored <- rows, turn <- current

Socket == INSTANCE Compaction WITH
    AsyncCalls <- {a1, a2}, SyncCalls <- {c1}, Session <- TRUE,
    MaxTurns <- 3, MaxRounds <- 1, MaxAnswers <- 1, SentStatus <- {FALSE},
    stored <- rows, turn <- current

ASSUME Http!CallsDisjoint

Symmetry == Permutations(Sessions) \cup Permutations(Turns)

\* a1 and a2 are alike: a1 is the one that is issued first.
AllCalls ==
    issued \cup IF current = Http!NoTurn THEN {}
                ELSE Http!CallIds(current.sent) \cup Http!CallIds(current.output)
Renamed == a2 \in AllCalls' => a1 \in AllCalls'

chainVars == <<chain, rows, kept, cached, current, window, turns, said, issued, answered>>

MCInit ==
    /\ Init
    /\ Http!Init
    /\ part \in {"group", "http", "socket"}

MCNext ==
    /\ UNCHANGED part
    /\ \/ part = "group"  /\ Next        /\ UNCHANGED chainVars
       \/ part = "http"   /\ Http!Next   /\ Renamed /\ UNCHANGED vars
       \/ part = "socket" /\ Socket!Next /\ Renamed /\ UNCHANGED vars

MCSpec == MCInit /\ [][MCNext]_<<part, vars, chainVars>>

-----------------------------------------------------------------------------
(* The properties of Compaction, of the part they are about. *)

(* In both parts: histories hold items of the known types, and a turn      *)
(* stays within its rounds.                                                *)
ChainTypeOK == (part = "http" => Http!TypeOK) /\ (part = "socket" => Socket!TypeOK)

(* A client can go on from every response: the outputs it still owes find  *)
(* their calls in the history a next request continues (CallLedger::scan). *)
AnswersFindCalls ==
    (part = "http" => Http!AnswersFindCalls) /\ (part = "socket" => Socket!AnswersFindCalls)

(* Over HTTP no inference request leaves a synchronous call unanswered or  *)
(* holds an output without its call, but for a repeated output of a        *)
(* synchronous call (model_items).                                         *)
ModelPaired == part = "http" => Http!ModelPaired

(* Open calls of async tools stay in the model's context across            *)
(* compactions, or their outputs would come without a call.                *)
OpenCallsShown ==
    (part = "http" => Http!OpenCallsShown) /\ (part = "socket" => Socket!OpenCallsShown)

(* A call that was answered does not come back as an open one when a       *)
(* checkpoint carries records over.                                        *)
AnsweredNotPending ==
    (part = "http" => Http!AnsweredNotPending) /\ (part = "socket" => Socket!AnsweredNotPending)

(* Compaction keeps what the user said: every message of the chain is      *)
(* still in the model's context (retained_user_window).                    *)
UsersKept == part = "http" => Http!UsersKept

(* A call is once in the stored chain; carrying it over does not copy it.  *)
CallOnce == part = "http" => Http!CallOnce

(* The retained checkpoint of a session and the stored chain show the      *)
(* model the same context, whichever of the two the next turn resolves.    *)
SessionAgrees == part = "socket" => Socket!SessionAgrees

(* The records a session keeps for async calls do not pile up: one output  *)
(* per call survives retain_window.                                        *)
OneOutput == part = "socket" => Socket!OneOutput

(* A listing of an MCP server is stored once: discovery is not repeated    *)
(* after a compaction absorbed it, and not stored twice.                   *)
ListedOnce == part = "socket" => Socket!ListedOnce

(* A client can continue every response, and its model is shown a paired   *)
(* context, however often and wherever compaction replaced the history     *)
(* (compaction.rs, all of the above).                                      *)
CompactionSound ==
    /\ ChainTypeOK
    /\ AnswersFindCalls /\ ModelPaired /\ OpenCallsShown /\ AnsweredNotPending
    /\ UsersKept /\ CallOnce /\ SessionAgrees /\ OneOutput /\ ListedOnce
=============================================================================
