----------------------------- MODULE McpServers -----------------------------
(***************************************************************************)
(* MCP servers as the gateway's requests share them (tool/executors.rs,    *)
(* tool/mcp/).  Each request that declares a server builds its tools from  *)
(* one of four sources: the discovery another request left in the shared   *)
(* cache, a listing retained in its own history, the tools an earlier      *)
(* build of the same response recorded, or a discovery of its own over a   *)
(* shared or a new connection.  Requests interleave at every await; the    *)
(* two caches are read and written under locks that are released between.  *)
(*                                                                         *)
(* A handler is the tool it calls, the function name the model calls it by *)
(* and the connection it uses: one that is open, or its request's cell,    *)
(* which is opened by the first call that needs it.                        *)
(***************************************************************************)
EXTENDS Naturals, FiniteSets, Sequences, SequencesExt

CONSTANTS
  Requests,        \* requests, each declaring one server
  Calls,           \* the tool calls one request may run at a time
  Labels,          \* server labels
  Configured,      \* the labels the operator configured
  Tools,           \* tool names, listed and unknown
  CandidateNames,  \* per tool: the function names tried for it, in order
  Pages,           \* per label: the pages its tools/list answers, each with
                   \* the tools on it and the page its cursor leads to
  OperatorAllowed, \* per configured label: the operator's allowed_tools
  Filters,         \* the allowed_tools a request may declare
  Listings,        \* the listings a client may bring in its history
  Echoes,          \* whether clients also bring back listings they were given
  MaxPages,        \* MAX_LIST_TOOLS_PAGES
  MaxConns,        \* bound: connections opened
  MaxBuilds,       \* bound: registries one request builds
  NoFilter, NoListing, NoConn, NoCall

VARIABLES
  clients,     \* mcp_clients: label -> the shared connection
  discovered,  \* mcp_discovered: label -> the shared handlers
  opened,      \* connections opened so far
  started,     \* label -> whether the server has begun to list its tools
  published,   \* label -> the listings responses have carried
  req,         \* request -> its declaration and its build
  call         \* request -> call -> the handler it runs and how far it is

vars == <<clients, discovered, opened, started, published, req, call>>

ConstantsOK ==
  /\ Configured \subseteq Labels
  /\ MaxPages \in Nat \ {0} /\ MaxConns \in Nat /\ MaxBuilds \in Nat

Conns == 1..MaxConns
Cell == 0     \* a handler of the request's deferred connection

Permits(filter, t) == filter = NoFilter \/ t \in filter

\* The tools of a listing's pages in the order the pages are read.
Catalog(l) == FlattenSeq([i \in 1..Len(Pages[l]) |-> Pages[l][i].tools])

-----------------------------------------------------------------------------
(* Names and handlers                                                      *)

\* The first candidate name that no other tool of the server has taken.
FreeName(t, used) ==
  LET free == {i \in 1..Len(CandidateNames[t]) :
                 \A u \in DOMAIN used : used[u] = CandidateNames[t][i] => u = t}
  IN CandidateNames[t][CHOOSE i \in free : \A j \in free : i <= j]

InternalNames(tools) ==
  FoldLeft(LAMBDA used, t :
             [u \in DOMAIN used \cup {t} |-> IF u = t THEN FreeName(t, used) ELSE used[u]],
           [u \in {} |-> ""], tools)

(* Mutant of HandlersFromTools. *)
HandlersFilteredFirst(tools, filter, via) ==
  LET kept == SelectSeq(tools, LAMBDA t : Permits(filter, t))
      names == InternalNames(kept)
  IN [i \in 1..Len(kept) |-> [tool |-> kept[i], name |-> names[kept[i]], via |-> via]]

\* Every tool is named; the ones the filter permits become handlers.
HandlersFromTools(tools, filter, via) ==
  LET names == InternalNames(tools)
      kept == SelectSeq(tools, LAMBDA t : Permits(filter, t))
  IN [i \in 1..Len(kept) |-> [tool |-> kept[i], name |-> names[kept[i]], via |-> via]]

FilterAllowed(handlers, filter) == SelectSeq(handlers, LAMBDA h : Permits(filter, h.tool))

ToolsOf(handlers) == [i \in 1..Len(handlers) |-> handlers[i].tool]

\* The latest listing of history, when it covers an explicit allowed set.
ReusableListing(history, filter) ==
  IF /\ history # NoListing
     /\ filter # NoFilter
     /\ filter \subseteq Range(history)
    THEN history ELSE NoListing

-----------------------------------------------------------------------------
Idle == [pc |-> "idle", builds |-> 0]
NotCalling == [pc |-> "none"]

Init ==
  /\ clients = [l \in Configured |-> NoConn]
  /\ discovered = [l \in Configured |-> NoListing]
  /\ opened = 0
  /\ started \in [Labels -> BOOLEAN]
  /\ published = [l \in Labels |-> {}]
  /\ req = [r \in Requests |-> Idle]
  /\ call = [r \in Requests |-> [c \in Calls |-> NotCalling]]

\* A request with one MCP declaration and the listing its history holds.
Declare(r, l, filter, history) ==
  /\ req[r] = Idle
  /\ history \in Listings \cup {NoListing} \cup (IF Echoes THEN published[l] ELSE {})
  /\ req' = [req EXCEPT ![r] =
       [pc |-> "cache", builds |-> 1, label |-> l, filter |-> filter, history |-> history,
        listing |-> ReusableListing(history, filter), carried |-> <<>>,
        conn |-> NoConn, page |-> 1, read |-> 0, tools |-> <<>>,
        handlers |-> <<>>, known |-> {}, cell |-> NoConn, opener |-> NoCall,
        cells |-> 0, began |-> started[l], failed |-> FALSE]]
  /\ UNCHANGED <<clients, discovered, opened, started, published, call>>

\* A build ends: the handlers the request may call, and the listing item,
\* which is shown unless history already holds an equal one.
Built(r, handlers, item) ==
  LET q == req[r]
      shown == IF item = q.history THEN Range(item) ELSE
                 Range(item) \cup (IF q.history = NoListing THEN {} ELSE Range(q.history))
  IN /\ req' = [req EXCEPT ![r].pc = "ready", ![r].handlers = handlers,
                           ![r].known = q.known \cup shown, ![r].conn = NoConn]
     /\ published' = IF Echoes THEN [published EXCEPT ![q.label] = @ \cup {item}] ELSE published

\* A listing that failed ends the response, unless its history holds one
\* that succeeded: then the response goes on without the server's tools.
BuildFails(r) ==
  /\ req' = [req EXCEPT ![r].pc = IF req[r].history = NoListing THEN "failed" ELSE "ready",
                        ![r].handlers = <<>>, ![r].failed = TRUE, ![r].conn = NoConn]
  /\ UNCHANGED published

\* The operator's part of the filter; the request's own for its own server.
Authorized(q) == IF q.label \in Configured THEN OperatorAllowed[q.label] ELSE q.filter

\* The handlers of the shared cache serve the request, whatever it brought.
FromCache(r) ==
  LET q == req[r]
      handlers == FilterAllowed(discovered[q.label], q.filter)
  IN /\ q.pc = "cache" /\ q.label \in Configured
     /\ discovered[q.label] # NoListing
     /\ Built(r, handlers, IF q.listing # NoListing THEN q.listing ELSE ToolsOf(handlers))
     /\ UNCHANGED <<clients, discovered, opened, started, call>>

Uncached(q) == q.label \in Configured => discovered[q.label] = NoListing

\* A retained listing or recorded tools: handlers now, a connection only when
\* one is called, and nothing of it in the shared cache.
FromRetained(r) ==
  LET q == req[r]
      all == IF q.carried # <<>> THEN q.carried
             ELSE HandlersFromTools(q.listing, NoFilter, Cell)
      handlers == FilterAllowed(FilterAllowed(all, Authorized(q)), q.filter)
  IN /\ q.pc = "cache" /\ Uncached(q)
     /\ q.listing # NoListing \/ q.carried # <<>>
     /\ Built(r, [i \in 1..Len(handlers) |-> [handlers[i] EXCEPT !.via = Cell]],
              IF q.listing # NoListing THEN q.listing ELSE ToolsOf(handlers))
     /\ UNCHANGED <<clients, discovered, opened, started, call>>

\* Otherwise a discovery, over the shared connection when there is one.
Discover(r) ==
  LET q == req[r]
      shared == IF q.label \in Configured THEN clients[q.label] ELSE NoConn
  IN /\ q.pc = "cache" /\ Uncached(q)
     /\ q.listing = NoListing /\ q.carried = <<>>
     /\ req' = [req EXCEPT ![r].conn = shared,
                           ![r].pc = IF shared = NoConn THEN "connect" ELSE "list"]
     /\ UNCHANGED <<clients, discovered, opened, started, published, call>>

\* The connection opens; a configured server's becomes the shared one.
Connect(r) ==
  LET q == req[r]
  IN /\ q.pc = "connect" /\ opened < MaxConns
     /\ opened' = opened + 1
     /\ clients' = IF q.label \in Configured
                     THEN [clients EXCEPT ![q.label] = opened + 1] ELSE clients
     /\ req' = [req EXCEPT ![r].conn = opened + 1, ![r].pc = "list"]
     /\ UNCHANGED <<discovered, started, published, call>>

ConnectFails(r) ==
  /\ req[r].pc = "connect"
  /\ BuildFails(r)
  /\ UNCHANGED <<clients, discovered, opened, started, call>>

(* Mutant of ListPage. *)
ListPageUnbounded(r) ==
  LET q == req[r]
      page == IF started[q.label] THEN Pages[q.label][q.page] ELSE [tools |-> <<>>, next |-> 0]
      tools == q.tools \o page.tools
  IN /\ q.pc = "list"
     /\ IF page.next = 0
          THEN req' = [req EXCEPT ![r].tools = tools, ![r].pc = "store"] /\ UNCHANGED published
          ELSE IF page.next = q.page /\ q.read > 0
            THEN BuildFails(r)
            ELSE /\ req' = [req EXCEPT ![r].page = page.next, ![r].read = 1]
                 /\ UNCHANGED published
     /\ UNCHANGED <<clients, discovered, opened, started, call>>

\* One page of tools/list: a server still starting answers one empty page.
\* A cursor equal to the one asked for, or one page too many, is an error.
ListPage(r) ==
  LET q == req[r]
      page == IF started[q.label] THEN Pages[q.label][q.page] ELSE [tools |-> <<>>, next |-> 0]
      tools == q.tools \o page.tools
  IN /\ q.pc = "list" /\ q.read < MaxPages
     /\ IF page.next = 0
          THEN req' = [req EXCEPT ![r].tools = tools, ![r].pc = "store"] /\ UNCHANGED published
          ELSE IF (page.next = q.page /\ q.read > 0) \/ q.read + 1 = MaxPages
            THEN BuildFails(r)
            ELSE /\ req' = [req EXCEPT ![r].tools = tools, ![r].page = page.next, ![r].read = @ + 1]
                 /\ UNCHANGED published
     /\ UNCHANGED <<clients, discovered, opened, started, call>>

\* The server refuses a page, or the timeout drops the pages read so far.
ListFails(r) ==
  /\ req[r].pc = "list"
  /\ BuildFails(r)
  /\ UNCHANGED <<clients, discovered, opened, started, call>>

\* What the shared cache takes of a discovery: an empty one is not kept.
Cached(l, handlers) ==
  IF l \in Configured /\ handlers # <<>>
    THEN [discovered EXCEPT ![l] = handlers] ELSE discovered

(* Mutant of Store. *)
StoreNarrowed(r) ==
  LET q == req[r]
      found == HandlersFromTools(q.tools, Authorized(q), q.conn)
      handlers == FilterAllowed(found, q.filter)
  IN /\ q.pc = "store"
     /\ discovered' = Cached(q.label, handlers)
     /\ Built(r, handlers, ToolsOf(handlers))
     /\ UNCHANGED <<clients, opened, started, call>>

\* The discovery is complete: a configured server's is shared, the request
\* sees the part of it that it allows.
Store(r) ==
  LET q == req[r]
      found == HandlersFromTools(q.tools, Authorized(q), q.conn)
      handlers == FilterAllowed(found, q.filter)
  IN /\ q.pc = "store"
     /\ discovered' = Cached(q.label, found)
     /\ Built(r, handlers, ToolsOf(handlers))
     /\ UNCHANGED <<clients, opened, started, call>>

\* refresh_tools: the registry is built again in the same response, with the
\* tools the first build recorded in the declaration and a new cell.
Refresh(r) ==
  LET q == req[r]
  IN /\ q.pc = "ready" /\ q.builds < MaxBuilds
     /\ \A c \in Calls : call[r][c] = NotCalling
     /\ req' = [req EXCEPT ![r] = [q EXCEPT !.pc = "cache", !.builds = @ + 1, !.carried = q.handlers,
                  !.cell = NoConn, !.cells = 0, !.page = 1, !.read = 0, !.tools = <<>>,
                  !.failed = FALSE, !.began = started[q.label]]]
     /\ UNCHANGED <<clients, discovered, opened, started, published, call>>

\* The server begins to list its tools.
ServerStarts(l) ==
  /\ ~started[l]
  /\ started' = [started EXCEPT ![l] = TRUE]
  /\ UNCHANGED <<clients, discovered, opened, published, req, call>>

-----------------------------------------------------------------------------
(* Calls: those of one round run in parallel, on the request's handlers.   *)

StartCall(r, c, h) ==
  /\ req[r].pc = "ready" /\ h \in Range(req[r].handlers)
  /\ call[r][c] = NotCalling
  /\ call' = [call EXCEPT ![r][c] =
       [pc |-> IF h.via = Cell /\ req[r].cell = NoConn THEN "connect" ELSE "run", tool |-> h.tool]]
  /\ UNCHANGED <<clients, discovered, opened, started, published, req>>

\* get_or_try_init: one call opens the cell, the others wait for it.
MayOpen(r, c) == req[r].cell = NoConn /\ req[r].opener = NoCall

OpenCell(r, c) ==
  /\ call[r][c].pc = "connect" /\ MayOpen(r, c)
  /\ req' = [req EXCEPT ![r].opener = c]
  /\ call' = [call EXCEPT ![r][c].pc = "open"]
  /\ UNCHANGED <<clients, discovered, opened, started, published>>

CellOpens(r, c) ==
  /\ call[r][c].pc = "open" /\ opened < MaxConns
  /\ opened' = opened + 1
  /\ req' = [req EXCEPT ![r].cell = opened + 1, ![r].opener = NoCall, ![r].cells = @ + 1]
  /\ call' = [call EXCEPT ![r][c].pc = "run"]
  /\ UNCHANGED <<clients, discovered, started, published>>

\* A failed attempt fails its own call; the next waiting call tries again.
CellFails(r, c) ==
  /\ call[r][c].pc = "open"
  /\ req' = [req EXCEPT ![r].opener = NoCall]
  /\ call' = [call EXCEPT ![r][c] = NotCalling]
  /\ UNCHANGED <<clients, discovered, opened, started, published>>

\* A call that waited finds the cell open.
CellIsOpen(r, c) ==
  /\ call[r][c].pc = "connect" /\ req[r].cell # NoConn
  /\ call' = [call EXCEPT ![r][c].pc = "run"]
  /\ UNCHANGED <<clients, discovered, opened, started, published, req>>

\* The call's result, its error or its timeout comes back.
CallEnds(r, c) ==
  /\ call[r][c].pc = "run"
  /\ call' = [call EXCEPT ![r][c] = NotCalling]
  /\ UNCHANGED <<clients, discovered, opened, started, published, req>>

Builds(r) ==
  \/ \E l \in Labels, f \in Filters :
       \E h \in Listings \cup {NoListing} \cup published[l] : Declare(r, l, f, h)
  \/ FromCache(r) \/ FromRetained(r) \/ Discover(r) \/ Connect(r) \/ ConnectFails(r)
  \/ ListPage(r) \/ ListFails(r) \/ Store(r) \/ Refresh(r)

RunsCalls(r) ==
  \E c \in Calls :
    \/ \E h \in (IF req[r].pc = "ready" THEN Range(req[r].handlers) ELSE {}) : StartCall(r, c, h)
    \/ OpenCell(r, c) \/ CellOpens(r, c) \/ CellFails(r, c) \/ CellIsOpen(r, c) \/ CallEnds(r, c)

Next == (\E r \in Requests : Builds(r) \/ RunsCalls(r)) \/ \E l \in Labels : ServerStarts(l)

Spec == Init /\ [][Next]_vars

\* The runtime polls a build that can go on; a page request answers, fails
\* or times out.
FairSpec ==
  /\ Spec
  /\ \A r \in Requests :
       WF_vars(FromCache(r) \/ FromRetained(r) \/ Discover(r) \/ Connect(r) \/ ConnectFails(r)
               \/ ListPage(r) \/ Store(r))

-----------------------------------------------------------------------------
(* Properties                                                              *)

\* Every request is idle or carries a build; what it calls by is well formed.
TypeOK ==
  /\ opened \in 0..MaxConns
  /\ \A l \in Configured : clients[l] \in Conns \cup {NoConn}
  /\ \A r \in Requests : req[r] # Idle =>
       /\ req[r].pc \in {"cache", "connect", "list", "store", "ready", "failed"}
       /\ req[r].read < MaxPages
       /\ \A h \in Range(req[r].handlers) : h.tool \in Tools /\ h.via \in Conns \cup {Cell}
       /\ req[r].opener = NoCall \/ call[r][req[r].opener].pc = "open"

\* A running call is of a tool that the operator allows on that server and
\* the request allows itself, whichever source its handler came from and
\* whatever listing the client brought (executors.rs:335, handler.rs:170).
CallsAuthorized ==
  \A r \in Requests, c \in Calls :
    call[r][c].pc = "run" =>
      /\ Permits(req[r].filter, call[r][c].tool)
      /\ req[r].label \in Configured => Permits(OperatorAllowed[req[r].label], call[r][c].tool)

\* The shared handlers are what the server itself lists, whole, filtered by
\* the operator alone and named by the server's own order: no client's
\* listing, no request's filter and no partial page ever reaches the other
\* requests (executors.rs:335 "client-supplied history remains request-scoped").
SharedIsDiscovery ==
  \A l \in Configured : discovered[l] # NoListing =>
    /\ \A h \in Range(discovered[l]) : h.via \in Conns
    /\ [i \in 1..Len(discovered[l]) |-> [discovered[l][i] EXCEPT !.via = Cell]]
         = HandlersFromTools(Catalog(l), OperatorAllowed[l], Cell)

\* A request that asks a server for its tools after the server began to list
\* them gets every tool both filters permit: an empty or partial answer given
\* to an earlier request is never what it sees (executors.rs:381).
StartedServerSeen ==
  \A r \in Requests :
    req[r].pc = "ready" /\ req[r].began /\ req[r].listing = NoListing
      /\ req[r].carried = <<>> /\ ~req[r].failed
    => LET q == req[r]
           both == SelectSeq(Catalog(q.label), LAMBDA t : Permits(q.filter, t) /\ Permits(Authorized(q), t))
       IN ToolsOf(q.handlers) = both

\* Names are injective and no filter changes them: the name of a tool is the
\* one the server's whole catalog gives it, in every request, before and after
\* its registry is rebuilt (handler.rs:168 "Authorization must not change
\* aliases assigned by the original discovery order").
AliasesFixed ==
  \A r \in Requests : req[r].pc = "ready" =>
    LET names == InternalNames(Catalog(req[r].label))
    IN \A h \in Range(req[r].handlers) : h.tool \in DOMAIN names => h.name = names[h.tool]

\* Every tool a response can call is in a listing its client has: one in the
\* history it sent, or one the response shows it (mcp_listing.rs:34).
CallableIsListed ==
  \A r \in Requests :
    req[r].pc = "ready" => \A h \in Range(req[r].handlers) : h.tool \in req[r].known

\* However many calls start at once on a deferred handler, and however often
\* the server refuses, at most one connection is opened for it.
OneConnectionPerCell == \A r \in Requests : req[r] # Idle => req[r].cells <= 1

\* A build always ends, whatever cursors the server answers with.
BuildsEnd ==
  \A r \in Requests : (req[r].pc # "idle") ~> (req[r].pc \in {"ready", "failed"})
============================================================================
