------------------------------ MODULE MCTools -------------------------------
(***************************************************************************)
(* Tool execution for TLC: the code interpreter's workers (CodeWorkers)    *)
(* and the MCP servers that requests share (McpServers).  A behaviour      *)
(* checks one part, chosen at the start; the variables of the other module *)
(* rest:                                                                   *)
(*   workers  two calls of the code interpreter that compete for a permit  *)
(*   sources  two requests that build their tools from any source          *)
(*   names    two requests with filters and rebuilt registries             *)
(*   cell     three parallel calls on a deferred handler                   *)
(* The constants of CodeWorkers are in the cfg.  "dot" and "under" are     *)
(* tools whose names sanitise to the same function name and whose first    *)
(* hashed names collide as well; "ghost" is a tool no server lists.        *)
(***************************************************************************)
EXTENDS CodeWorkers, TLC

CONSTANTS c1, c2, c3, NoFilter, NoListing, NoConn, NoCall

VARIABLES
    part,    \* the part this behaviour checks
    clients, discovered, opened, started, published, request, call

Names == [dot |-> <<"file", "file_1">>, under |-> <<"file", "file_1", "file_2">>,
          other |-> <<"other">>, ghost |-> <<"ghost">>]

\* A configured server with two pages, a declared one with a single page.
TwoPages ==
  [cfg |-> <<[tools |-> <<"dot">>, next |-> 2], [tools |-> <<"under", "other">>, next |-> 0]>>,
   own |-> <<[tools |-> <<"dot", "under">>, next |-> 0]>>]

Sources == INSTANCE McpServers WITH
    Requests <- {c1, c2}, Calls <- {c3}, Labels <- {"cfg", "own"}, Configured <- {"cfg"},
    Tools <- DOMAIN Names, CandidateNames <- Names, Pages <- TwoPages,
    OperatorAllowed <- [cfg |-> {"dot", "under"}],
    Filters <- {NoFilter, {"under", "other"}},
    Listings <- {<<"under", "other", "ghost">>, <<"other">>}, Echoes <- FALSE,
    MaxPages <- 2, MaxConns <- 2, MaxBuilds <- 2, req <- request

Naming == INSTANCE McpServers WITH
    Requests <- {c1, c2}, Calls <- {}, Labels <- {"cfg", "own"}, Configured <- {"cfg"},
    Tools <- DOMAIN Names, CandidateNames <- Names, Pages <- TwoPages,
    OperatorAllowed <- [cfg |-> {"dot", "under"}],
    Filters <- {NoFilter, {"under"}, {"under", "other"}},
    Listings <- {}, Echoes <- FALSE,
    MaxPages <- 2, MaxConns <- 2, MaxBuilds <- 2, req <- request

Opening == INSTANCE McpServers WITH
    Requests <- {"r"}, Calls <- {c1, c2, c3}, Labels <- {"cfg", "own"}, Configured <- {"cfg"},
    Tools <- DOMAIN Names, CandidateNames <- Names, Pages <- TwoPages,
    OperatorAllowed <- [cfg |-> {"dot", "under"}],
    Filters <- {NoFilter, {"under"}, {"under", "other"}},
    Listings <- {<<"under", "other", "ghost">>, <<"other">>}, Echoes <- FALSE,
    MaxPages <- 2, MaxConns <- 2, MaxBuilds <- 2, req <- request

ASSUME Sources!ConstantsOK /\ Naming!ConstantsOK /\ Opening!ConstantsOK

Symmetry == Permutations(Calls)

serverVars == <<clients, discovered, opened, started, published, request, call>>

MCInit ==
    /\ part \in {"workers", "sources", "names", "cell"}
    /\ Init
    /\ CASE part = "names" -> Naming!Init
         [] part = "cell"  -> Opening!Init
         [] OTHER          -> Sources!Init
    /\ part = "workers" => started = [l \in {"cfg", "own"} |-> FALSE]

MCNext ==
    /\ UNCHANGED part
    /\ \/ part = "workers" /\ Next /\ UNCHANGED serverVars
       \/ /\ \/ part = "sources" /\ Sources!Next
             \/ part = "names"   /\ Naming!Next
             \/ part = "cell"    /\ Opening!Next
          /\ UNCHANGED vars
       \* requests may stop coming; a code interpreter call may not stop
       \/ part # "workers" /\ UNCHANGED <<vars, serverVars>>

MCSpec == MCInit /\ [][MCNext]_<<part, vars, serverVars>>

-----------------------------------------------------------------------------
(* The properties of the MCP servers. *)

(* Every request is idle or carries a build; what it calls by is well      *)
(* formed.                                                                 *)
ServersTypeOK ==
    CASE part = "names" -> Naming!TypeOK
      [] part = "cell"  -> Opening!TypeOK
      [] OTHER          -> Sources!TypeOK

(* A running call is of a tool that the operator allows on that server and *)
(* the request allows itself, whichever source its handler came from and   *)
(* whatever listing the client brought (executors.rs:335, handler.rs:170). *)
CallsAuthorized == part = "sources" => Sources!CallsAuthorized

(* The shared handlers are what the server itself lists, whole, filtered   *)
(* by the operator alone (executors.rs:335 "client-supplied history        *)
(* remains request-scoped").                                               *)
SharedIsDiscovery == part = "sources" => Sources!SharedIsDiscovery

(* Every tool a response can call is in a listing its client has: one in   *)
(* the history it sent, or one the response shows it (mcp_listing.rs:34).  *)
CallableIsListed == part = "sources" => Sources!CallableIsListed

(* The name of a tool is the one the server's whole catalog gives it, in   *)
(* every request, before and after its registry is rebuilt (handler.rs:168 *)
(* "Authorization must not change aliases assigned by the original         *)
(* discovery order").                                                      *)
AliasesFixed == part = "names" => Naming!AliasesFixed

(* A request that asks a server for its tools after the server began to    *)
(* list them gets every tool both filters permit (executors.rs:381).       *)
StartedServerSeen ==
    (part = "sources" => Sources!StartedServerSeen) /\ (part = "names" => Naming!StartedServerSeen)

(* However many calls start at once on a deferred handler, and however     *)
(* often the server refuses, at most one connection is opened for it.      *)
OneConnectionPerCell == part = "cell" => Opening!OneConnectionPerCell

(* What requests share of a server is the server's own answer: its whole   *)
(* discovery, once it has started, over one connection per handler.        *)
ServersShared ==
    ServersTypeOK /\ SharedIsDiscovery /\ StartedServerSeen /\ OneConnectionPerCell

(* A request calls what it is allowed to, by the names its client and its  *)
(* model know.                                                             *)
CallsPermitted == CallsAuthorized /\ CallableIsListed /\ AliasesFixed
=============================================================================
