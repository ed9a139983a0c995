------------------------------ MODULE ItemSlots ------------------------------
(***************************************************************************)
(* The stream accumulator of one upstream round.  The engine server's      *)
(* events name an output item by its output index, by its item id, by both *)
(* or, from a sloppy server, by neither; the accumulator binds each event  *)
(* to a slot, keeps the slot's lifecycle (active, done), merges the        *)
(* completion snapshot with what was streamed and decides when the stream  *)
(* may be cut for a steering message.  Validation is fixed for a stream:   *)
(* strict rejects what it cannot attribute, lenient recovers or ignores.   *)
(*                                                                         *)
(* Content is counted in fragments: 0 is the empty text.  A slot's `args`  *)
(* is the content a part or an arguments event has completed, `text` the   *)
(* streamed buffer.  The kinds stand for the classes the code tells apart: *)
(* a message, a function or custom call (with a call id), a hosted call    *)
(* that has no item until its completion, a collaboration item, and a kind *)
(* no upstream stream can open.                                            *)
(***************************************************************************)
EXTENDS Integers, FiniteSets, Sequences, SequencesExt

CONSTANTS
  Strict,      \* the validation policy: strict or lenient
  Loose,       \* TRUE: an upstream that may name any item in any event
  MaxIndex,    \* bound: output indexes 0..MaxIndex
  Ids,         \* the item ids an upstream uses
  IdOf,        \* the id an honest upstream gives each of its items
  Calls,       \* the call ids it uses
  Agents,      \* the attributions it uses
  Kinds,       \* the item kinds it sends
  MaxText,     \* bound: fragments of content per item
  MaxOutput    \* bound: drained items beyond which nothing more is read

ConstantsOK ==
  /\ Strict \in BOOLEAN /\ Loose \in BOOLEAN
  /\ MaxIndex \in Nat /\ MaxText \in Nat \ {0} /\ MaxOutput \in Nat
  /\ Kinds \subseteq {"message", "function", "hosted", "collab", "foreign"}
  /\ "" \notin Ids /\ "" \notin Calls /\ "" \notin Agents
  /\ ~Loose => /\ IdOf \in [0..MaxIndex -> Ids]
               /\ \A u, v \in 0..MaxIndex : IdOf[u] = IdOf[v] => u = v

Indexes == 0..MaxIndex
NoIndex == -1
Failed == -2
Ignored == -3

VARIABLES
  lifecycle,   \* stream_lifecycle
  slots,       \* output index -> slot, over the indexes in use
  byId,        \* indexes_by_id
  uncertain,   \* completion_uncertain
  seen,        \* strict_call_ids: index -> [first, changed]
  output,      \* the drained output items
  status,      \* the response's status
  state,       \* "open", "failed", "ended" or "steered"
  steering,    \* a steering message waits for a boundary
  \* history
  style,       \* how this upstream names its items
  kindOf,      \* the kind of each upstream item
  upstream,    \* each upstream item: "new", "open" or "finished"
  shown,       \* the item frames passed on, per index, runs of deltas merged
  heard        \* the call ids events announced, per index

vars == <<lifecycle, slots, byId, uncertain, seen, output, status, state,
          steering, style, kindOf, upstream, shown, heard>>
history == <<style, kindOf, upstream>>

With(f, x, v) == [y \in DOMAIN f \cup {x} |-> IF y = x THEN v ELSE f[y]]

Init ==
  /\ lifecycle = "AwaitingCreated"
  /\ slots = << >> /\ byId = << >> /\ uncertain = FALSE /\ seen = << >>
  /\ output = << >> /\ status = "in_progress" /\ state = "open" /\ steering = FALSE
  /\ style \in IF Loose THEN {"any"} ELSE {"index", "id", "both"}
  /\ kindOf \in [Indexes -> IF Loose THEN {"message"} ELSE Kinds]
  /\ upstream = [u \in Indexes |-> "new"]
  /\ shown = [i \in Indexes |-> << >>]
  /\ heard = [i \in Indexes |-> {}]

----------------------------------------------------------------------------
(* Identity *)

\* The identities an event about upstream item u may carry.
Identities(u, kind) ==
  LET agents == IF Loose THEN Agents \cup {""} ELSE {""}
      any == [index: Indexes \cup {NoIndex}, id: Ids \cup {""}, kind: {kind}, agent: agents]
  IN {n \in any :
        \/ style = "any"
        \/ style = "index" /\ n.index = u /\ n.id \in {IdOf[u], ""}
        \/ style = "id" /\ n.index = NoIndex /\ n.id \in {IdOf[u], ""}
        \/ style = "both" /\ n.index = u /\ n.id = IdOf[u]}

HasActive == \E i \in DOMAIN slots : ~slots[i].done

AtSteeringBoundary ==
  /\ lifecycle # "Terminal"
  /\ DOMAIN slots # {} /\ ~HasActive /\ ~uncertain

UnusedIndex ==
  LET free == Indexes \ DOMAIN slots
  IN IF free = {} THEN Failed ELSE CHOOSE i \in free : \A j \in free : i <= j

\* Mutant of IndexOf: an event without an index is matched to an anonymous slot of its kind.
IndexOfAdopts(n, action) ==
  LET known == IF n.id \in DOMAIN byId THEN byId[n.id] ELSE NoIndex
      alike == {i \in DOMAIN slots : slots[i].kind = n.kind /\ slots[i].id = ""}
  IN IF n.index # NoIndex /\ known # NoIndex /\ n.index # known THEN Failed
     ELSE IF n.index # NoIndex THEN n.index
     ELSE IF known # NoIndex THEN known
     ELSE IF alike # {} /\ action # "open" THEN CHOOSE i \in alike : TRUE
     ELSE IF action = "mutate" THEN Ignored
     ELSE UnusedIndex

\* The index an identity means when the event names none or names one.
IndexOf(n, action) ==
  LET known == IF n.id \in DOMAIN byId THEN byId[n.id] ELSE NoIndex
  IN IF n.index # NoIndex /\ known # NoIndex /\ n.index # known THEN Failed
     ELSE IF n.index # NoIndex THEN n.index
     ELSE IF known # NoIndex THEN known
     ELSE IF action # "open"
             /\ \E s \in Range(slots) : s.kind = n.kind /\ (s.id = "" \/ n.id = "")
          THEN Failed
     ELSE IF action = "mutate" THEN Ignored
     ELSE UnusedIndex

\* A shared content event carries no kind and fits message items only.
KindMatches(s, n, action) ==
  IF n.kind = "" THEN action = "mutate" /\ s.kind \in {"message", "collab"}
  ELSE s.kind = n.kind

\* resolve: the slot an event is about, or that it is ignored or refused.
Resolve(n, action) ==
  LET i == IndexOf(n, action) IN
  IF Strict /\ (n.index = NoIndex \/ n.id = "") THEN Failed
  ELSE IF i < 0 THEN i
  ELSE IF i \notin DOMAIN slots
       THEN IF action = "open" \/ (action = "complete" /\ ~Strict) THEN i
            ELSE IF Strict THEN Failed ELSE Ignored
  ELSE LET s == slots[i] IN
       IF action = "open" THEN Failed
       ELSE IF s.id # "" /\ n.id # "" /\ s.id # n.id THEN Failed
       ELSE IF s.agent # "" /\ n.agent # "" /\ s.agent # n.agent THEN Failed
       ELSE IF ~KindMatches(s, n, action)
            THEN IF action = "mutate" /\ ~Strict THEN Ignored ELSE Failed
       ELSE IF s.done /\ (action # "complete" \/ Strict)
            THEN IF Strict THEN Failed ELSE Ignored
       ELSE i

\* bind_identity: an anonymous slot takes the event's id and attribution.
Bound(s, n) == [s EXCEPT !.id = IF @ = "" THEN n.id ELSE @,
                         !.agent = IF @ = "" THEN n.agent ELSE @]

BindId(i, s, n) == IF s.id = "" /\ n.id # "" THEN With(byId, n.id, i) ELSE byId

\* CallIdObservation::observe
Observe(i, call) ==
  LET o == IF i \in DOMAIN seen THEN seen[i] ELSE [first |-> "", changed |-> FALSE]
  IN With(seen, i, [first |-> IF o.first = "" THEN call ELSE o.first,
                    changed |-> o.changed \/ (call # "" /\ o.first # "" /\ call # o.first)])
Observed(i, call) == IF Strict THEN Observe(i, call) ELSE seen

----------------------------------------------------------------------------
(* What the history records; nothing of a lenient stream with loose names *)

Recorded == Strict \/ ~Loose
Show(i, frame) ==
  shown' = IF ~Recorded THEN shown
           ELSE IF shown[i] # << >> /\ shown[i][Len(shown[i])] = "delta" /\ frame = "delta"
           THEN shown ELSE [shown EXCEPT ![i] = Append(@, frame)]
Hear(i, call) ==
  heard' = IF call = "" \/ ~Recorded THEN heard ELSE [heard EXCEPT ![i] = @ \cup {call}]
Sent(u, phase) ==
  upstream' = IF Loose \/ upstream[u] = "finished" THEN upstream ELSE [upstream EXCEPT ![u] = phase]
Sources(u) == IF Loose THEN {} ELSE {u}

\* The engine reads no line while a cut is due; a strict stream that is not
\* between its in_progress and terminal events carries no item event.
Reading == state = "open" /\ ~(AtSteeringBoundary /\ steering) /\ Len(output) <= MaxOutput
ItemEvent == Reading /\ (~Loose => lifecycle = "InProgress")

Fail == /\ state' = "failed"
        /\ UNCHANGED <<lifecycle, slots, byId, uncertain, seen, output, status, steering, shown, heard>>
Ignore == UNCHANGED <<lifecycle, slots, byId, seen, output, status, state, steering, shown, heard>>
KeepStream == UNCHANGED <<lifecycle, output, status, state, steering, style, kindOf>>
StrictRefuses == Strict /\ lifecycle # "InProgress"

----------------------------------------------------------------------------
(* Item events *)

NewSlot(n, u, call) ==
  [id |-> n.id, agent |-> n.agent, kind |-> n.kind, done |-> FALSE, call |-> call,
   args |-> 0, text |-> 0, of |-> Sources(u)]

CarriesCall(kind) == IF kind \in {"function", "collab"} THEN Calls \cup {""} ELSE {""}

\* response.output_item.added
ItemAdded(u, n, call) ==
  /\ ItemEvent
  /\ ~Loose => upstream[u] = "new"
  /\ Sent(u, "open")
  /\ UNCHANGED <<style, kindOf>>
  /\ LET i == Resolve(n, "open") IN
     \/ (StrictRefuses \/ i = Failed) /\ Fail
     \/ /\ ~StrictRefuses /\ i >= 0
        /\ IF n.kind = "foreign" THEN Ignore /\ uncertain' = TRUE
           ELSE /\ slots' = With(slots, i, NewSlot(n, u, call))
                /\ byId' = IF n.id = "" THEN byId ELSE With(byId, n.id, i)
                /\ seen' = Observed(i, call)
                /\ Show(i, "added") /\ Hear(i, call)
                /\ UNCHANGED <<uncertain, lifecycle, output, status, state, steering>>

\* A delta of a message's text, a call's arguments or a part's content.
\* A completed message part takes no more text.
ItemDelta(u, n, call) ==
  /\ ItemEvent
  /\ ~Loose => upstream[u] = "open"
  /\ UNCHANGED history
  /\ LET i == Resolve(n, "mutate") IN
     \/ (StrictRefuses \/ i = Failed) /\ Fail
     \/ ~StrictRefuses /\ i = Ignored /\ Ignore /\ UNCHANGED uncertain
     \/ /\ ~StrictRefuses /\ i >= 0
        /\ LET s == slots[i] IN
           IF s.kind = "message" /\ s.args # 0 THEN Fail
           ELSE /\ s.text < MaxText
                /\ slots' = [slots EXCEPT ![i] =
                     Bound([s EXCEPT !.text = @ + 1, !.of = @ \cup Sources(u)], n)]
                /\ byId' = BindId(i, s, n)
                /\ uncertain' = (uncertain \/ (call # "" /\ s.call # "" /\ call # s.call))
                /\ seen' = Observed(i, call)
                /\ Show(i, "delta") /\ Hear(i, call)
                /\ UNCHANGED <<lifecycle, output, status, state, steering>>

\* content_part.done or function_call_arguments.done with its content, which
\* an arguments event may leave empty: the streamed buffer then moves over.
ContentDone(u, n, content, call) ==
  /\ ItemEvent
  /\ ~Loose => upstream[u] = "open"
  /\ UNCHANGED history
  /\ LET i == Resolve(n, "mutate") IN
     \/ (StrictRefuses \/ i = Failed) /\ Fail
     \/ ~StrictRefuses /\ i = Ignored /\ Ignore /\ UNCHANGED uncertain
     \/ /\ ~StrictRefuses /\ i >= 0
        /\ LET s == slots[i]
               full == IF content = 0 THEN s.text ELSE content IN
           IF s.kind # "function" /\ (s.args # 0 \/ (s.text # 0 /\ s.text # content)) THEN Fail
           ELSE /\ slots' = [slots EXCEPT ![i] =
                     Bound([s EXCEPT !.args = full, !.text = 0, !.of = @ \cup Sources(u),
                                     !.call = IF call = "" THEN @ ELSE call], n)]
                /\ byId' = BindId(i, s, n)
                /\ uncertain' = (uncertain \/ (call # "" /\ s.call # "" /\ call # s.call))
                /\ seen' = Observed(i, call)
                /\ Show(i, "delta") /\ Hear(i, call)
                /\ UNCHANGED <<lifecycle, output, status, state, steering>>

\* The content a slot is finalized with.
Content(s) == IF s.args # 0 THEN s.args ELSE s.text

\* A done snapshot: whether it parses, whether it states a final status and
\* its content in full, its content and its call id.
Snapshots(kind) == [parses: BOOLEAN, final: BOOLEAN, content: 0..MaxText, call: CarriesCall(kind)]

\* validate_completion's refusals
Contradicts(s, d) ==
  \/ s.kind \in {"message", "collab"} /\ d.parses /\ s.args # 0 /\ d.content # s.args
  \/ s.kind = "collab" /\ (~d.parses \/ d.call # s.call)

\* completion_candidate: the completed slot, or none for a hosted call whose
\* snapshot the schema rejects
HasCandidate(s, d) == s.kind # "hosted" \/ d.parses \/ s.done
Candidate(s, d) ==
  LET merged == IF ~d.parses THEN Content(s)
                ELSE IF s.kind = "function" /\ d.content = 0 THEN Content(s) ELSE d.content
      call == IF d.parses /\ d.call # "" THEN d.call ELSE s.call
  IN [s EXCEPT !.done = TRUE, !.args = merged, !.text = 0, !.call = call]

\* The completion proves the item finished: it parses, is final, keeps the
\* call id and leaves nothing to recover from the stream.
Authoritative(s, d) ==
  /\ d.parses /\ d.final /\ s.kind # "collab"
  /\ s.call # "" => d.call = s.call
  /\ s.kind = "function" => d.call # "" /\ d.content = Candidate(s, d).args

\* The kinds a completion without an opening is recovered for
Recoverable(kind) == kind \notin {"message", "foreign"}

\* response.output_item.done
ItemDone(u, n, d) ==
  /\ ItemEvent
  /\ Sent(u, IF d.parses /\ d.final THEN "finished" ELSE "open")
  /\ UNCHANGED <<style, kindOf>>
  /\ LET i == Resolve(n, "complete")
         known == i \in DOMAIN slots
         s == slots[i] IN
     \/ (StrictRefuses \/ i = Failed \/ (Strict /\ ~d.parses)) /\ Fail
     \/ ~StrictRefuses /\ i >= 0 /\ ~known
        /\ uncertain' = TRUE
        /\ IF d.parses /\ Recoverable(n.kind)
           THEN /\ slots' = With(slots, i, Candidate(NewSlot(n, u, d.call), d))
                /\ byId' = IF n.id = "" THEN byId ELSE With(byId, n.id, i)
                /\ Show(i, "done") /\ Hear(i, d.call)
                /\ UNCHANGED <<seen, lifecycle, output, status, state, steering>>
           ELSE Ignore
     \/ /\ ~StrictRefuses /\ known /\ s.done
        /\ uncertain' = (uncertain \/ (s.call # "" /\ ~(d.parses /\ d.call = s.call)))
        /\ IF Candidate(s, d).args = s.args /\ Candidate(s, d).call = s.call
           THEN /\ slots' = [slots EXCEPT ![i] = Bound(s, n)]
                /\ byId' = BindId(i, s, n)
                /\ UNCHANGED <<seen, lifecycle, output, status, state, steering, shown, heard>>
           ELSE /\ state' = "failed"
                /\ UNCHANGED <<lifecycle, slots, byId, seen, output, status, steering, shown, heard>>
     \/ /\ ~StrictRefuses /\ known /\ ~s.done /\ (Strict => d.parses)
        /\ IF Contradicts(s, d) THEN Fail
           ELSE /\ uncertain' = (uncertain \/ ~Authoritative(s, d))
                /\ IF HasCandidate(s, d)
                   THEN LET c == Candidate(s, d) IN
                        /\ slots' = [slots EXCEPT ![i] = Bound([c EXCEPT !.of = @ \cup Sources(u)], n)]
                        /\ byId' = BindId(i, s, n)
                        /\ seen' = Observed(i, c.call)
                        /\ Show(i, "done") /\ Hear(i, d.call)
                        /\ UNCHANGED <<lifecycle, output, status, state, steering>>
                   ELSE Ignore

----------------------------------------------------------------------------
(* Response events *)

\* drain_output_with_budget: unfinished items are finalized from what was
\* streamed, a hosted call without a completion vanishes, and unfinished
\* collaboration work is an error.
Drainable == \A i \in DOMAIN slots : slots[i].kind = "collab" => slots[i].done
Item(i) == [index |-> i, kind |-> slots[i].kind, content |-> Content(slots[i]),
            call |-> slots[i].call, id |-> slots[i].id, done |-> slots[i].done,
            of |-> slots[i].of]
Kept == {i \in DOMAIN slots : slots[i].kind # "hosted" \/ slots[i].done}
Drained == LET q == SetToSortSeq(Kept, <) IN [k \in DOMAIN q |-> Item(q[k])]

Drain == /\ output' = output \o Drained
         /\ slots' = << >> /\ byId' = << >>

\* response.created and response.in_progress; `same` says whether the event
\* repeats the response id the stream was created with.
Created ==
  /\ Reading
  /\ ~Loose => lifecycle = "AwaitingCreated"
  /\ UNCHANGED history
  /\ IF Strict /\ lifecycle # "AwaitingCreated" THEN Fail
     ELSE /\ lifecycle' = "Created"
          /\ UNCHANGED <<slots, byId, uncertain, seen, output, status, state, steering, shown, heard>>

InProgress(same) ==
  /\ Reading
  /\ ~Loose => lifecycle = "Created" /\ same
  /\ UNCHANGED history
  /\ IF Strict /\ (lifecycle # "Created" \/ ~same) THEN Fail
     ELSE /\ lifecycle' = "InProgress"
          /\ UNCHANGED <<slots, byId, uncertain, seen, output, status, state, steering, shown, heard>>

Unstable(o) == \E i \in DOMAIN o : o[i].changed

\* The terminal event's own output list, when it has one: item ids, kinds and
\* call ids in output order.
NoOutput == [given |-> FALSE, items |-> << >>]
Listed == {[given |-> TRUE, items |-> q] : q \in
             UNION {[1..k -> {x \in [id: Ids, kind: Kinds, call: Calls \cup {""}] :
                               x.call \in CarriesCall(x.kind)}] : k \in 0..Cardinality(Indexes)}}

\* validate_terminal_output: the list agrees with the completed slots, and
\* every call id ever observed at an index is the same one.
SeenWith(list) ==
  [i \in DOMAIN seen \cup {k - 1 : k \in DOMAIN list.items} |->
     IF i + 1 \in DOMAIN list.items THEN Observe(i, list.items[i + 1].call)[i] ELSE seen[i]]
ListAgrees(list) ==
  list.given =>
    /\ Len(list.items) = Cardinality(DOMAIN slots)
    /\ \A j, k \in DOMAIN list.items : list.items[j].id = list.items[k].id => j = k
    /\ \A k \in DOMAIN list.items :
         /\ k - 1 \in DOMAIN slots /\ slots[k - 1].done
         /\ slots[k - 1].kind = list.items[k].kind

\* response.completed, response.failed or response.incomplete
Terminal(kind, same, list) ==
  /\ Reading
  /\ ~Loose => lifecycle = "InProgress" /\ same
  /\ UNCHANGED <<history, steering, shown, uncertain>>
  /\ IF \/ Strict /\ (lifecycle # "InProgress" \/ ~same \/ HasActive)
        \/ Strict /\ (~ListAgrees(list) \/ (kind # "error" /\ Unstable(SeenWith(list))))
        \/ ~Drainable
     THEN Fail
     ELSE /\ Drain
          /\ seen' = IF Strict THEN SeenWith(list) ELSE seen
          /\ heard' = [i \in Indexes |-> heard[i] \cup
                         (IF i + 1 \in DOMAIN list.items THEN {list.items[i + 1].call} \ {""} ELSE {})]
          /\ status' = kind /\ lifecycle' = "Terminal"
          /\ UNCHANGED state

\* A steering message is queued for this round.
RequestSteering ==
  /\ state = "open" /\ ~steering /\ steering' = TRUE
  /\ UNCHANGED <<lifecycle, slots, byId, uncertain, seen, output, status, state, history, shown, heard>>

\* finish_for_steering at the top of the read loop, then finish.
SteeringCut ==
  /\ state = "open" /\ steering /\ AtSteeringBoundary
  /\ UNCHANGED <<history, steering, shown, heard, uncertain, seen>>
  /\ IF Strict /\ Unstable(seen)
     THEN state' = "failed" /\ UNCHANGED <<lifecycle, slots, byId, output, status>>
     ELSE /\ status' = "incomplete" /\ lifecycle' = "Terminal" /\ state' = "steered"
          /\ Drain

\* The upstream closes the stream: finish.
StreamEnds ==
  /\ state = "open"
  /\ UNCHANGED <<history, steering, shown, heard, uncertain, seen>>
  /\ IF \/ steering /\ lifecycle # "Terminal" /\ DOMAIN slots # {} /\ ~AtSteeringBoundary
        \/ Strict /\ lifecycle # "Terminal"
        \/ ~Drainable
     THEN state' = "failed" /\ UNCHANGED <<lifecycle, slots, byId, output, status>>
     ELSE /\ Drain /\ lifecycle' = "Terminal" /\ state' = "ended"
          /\ status' = IF status = "in_progress" THEN "completed" ELSE status

----------------------------------------------------------------------------
KindsOf(u) == IF Loose THEN Kinds ELSE {kindOf[u]}
Senders == IF Loose THEN {0} ELSE Indexes

ItemEvents ==
  \E u \in Senders : \E kind \in KindsOf(u) :
    \/ \E n \in Identities(u, kind), call \in CarriesCall(kind) : ItemAdded(u, n, call)
    \/ kind \in {"message", "function"} /\
       \E n \in Identities(u, kind), call \in CarriesCall(kind) : ItemDelta(u, n, call)
    \/ kind = "function" /\
       \E n \in Identities(u, kind), c \in 0..MaxText, call \in CarriesCall(kind) : ContentDone(u, n, c, call)
    \/ kind \in {"message", "collab"} /\
       \E n \in Identities(u, ""), c \in 1..MaxText : ContentDone(u, n, c, "")
    \/ \E n \in Identities(u, kind), d \in Snapshots(kind) : ItemDone(u, n, d)

ResponseEvents ==
  \/ Created
  \/ \E same \in BOOLEAN : InProgress(same)
  \/ \E kind \in {"completed", "error", "incomplete"}, same \in BOOLEAN :
       \E list \in {NoOutput} \cup (IF Strict /\ same /\ ~HasActive THEN Listed ELSE {}) : Terminal(kind, same, list)

Next == ItemEvents \/ ResponseEvents \/ RequestSteering \/ SteeringCut \/ StreamEnds

Spec == Init /\ [][Next]_vars
----------------------------------------------------------------------------
(* Properties *)

TypeOK ==
  /\ lifecycle \in {"AwaitingCreated", "Created", "InProgress", "Terminal"}
  /\ DOMAIN slots \subseteq Indexes
  /\ \A i \in DOMAIN slots :
       /\ slots[i].id \in Ids \cup {""} /\ slots[i].agent \in Agents \cup {""}
       /\ slots[i].kind \in Kinds /\ slots[i].done \in BOOLEAN
       /\ slots[i].call \in Calls \cup {""} /\ slots[i].of \subseteq Indexes
       /\ slots[i].args \in 0..MaxText /\ slots[i].text \in 0..MaxText
  /\ DOMAIN byId \subseteq Ids /\ \A x \in DOMAIN byId : byId[x] \in Indexes
  /\ uncertain \in BOOLEAN /\ steering \in BOOLEAN
  /\ status \in {"in_progress", "completed", "error", "incomplete"}
  /\ state \in {"open", "failed", "ended", "steered"}

\* slot.rs, bind_identity and insert: whatever mixture of indexes and ids the
\* events carry, the id map and the slots name each other, so two slots never
\* share an id and no id outlives its slot.
BindingsAgree ==
  /\ \A x \in DOMAIN byId : byId[x] \in DOMAIN slots /\ slots[byId[x]].id = x
  /\ \A i \in DOMAIN slots : slots[i].id # "" =>
       slots[i].id \in DOMAIN byId /\ byId[slots[i].id] = i

\* slot.rs, SlotState: until the slots are drained a completed item keeps its
\* content and its call id, whatever late, repeated or misdirected events say,
\* and an identity or attribution once bound is never rebound.
KeepsCompleted ==
  \A i \in DOMAIN slots \cap DOMAIN slots' :
    /\ slots[i].done => /\ slots'[i].done
                        /\ slots'[i].args = slots[i].args /\ slots'[i].call = slots[i].call
    /\ slots[i].id # "" => slots'[i].id = slots[i].id
    /\ slots[i].agent # "" => slots'[i].agent = slots[i].agent

CompletedKept == [][KeepsCompleted]_vars

\* slot/identity.rs, resolve: an honest upstream that leaves out indexes or ids
\* never has two of its items folded into one slot or one item kept twice.
ItemsNotMixed ==
  /\ \A i \in DOMAIN slots : Cardinality(slots[i].of) <= 1
  /\ \A i, j \in DOMAIN slots : slots[i].of \cap slots[j].of # {} => i = j
  /\ \A j, k \in DOMAIN output : output[j].of \cap output[k].of # {} => j = k

\* terminal.rs, finish_for_steering: the stream is cut only when every item
\* the upstream has started is one it has also finished, never on the strength
\* of a recovered or unfinished item.
CutSettled ==
  state = "steered" =>
    /\ \A u \in Indexes : upstream[u] # "open"
    /\ \A k \in DOMAIN output : output[k].done

\* slot.rs, complete: a call the upstream finished is in the response's output
\* once the stream is over, opened or not.
FinishedKept ==
  state \in {"ended", "steered"} =>
    \A u \in Indexes : upstream[u] = "finished" /\ kindOf[u] \in {"function", "hosted"} =>
      \E k \in DOMAIN output : output[k].of = {u} /\ output[k].done

\* mod.rs, EventDisposition: a client sees at each output index one opening,
\* then deltas, then one completion, and nothing after it; a completion without
\* an opening only under lenient validation.
FramesInOrder ==
  \A i \in Indexes :
    shown[i] \in {<< >>, <<"added">>, <<"added", "delta">>, <<"added", "done">>,
                  <<"added", "delta", "done">>}
                 \cup (IF Strict THEN {} ELSE {<<"done">>})

\* terminal.rs, validate_terminal_output: a strict response that ends other than
\* in failure holds completed items only, and no event about an item announced
\* a call id other than the one the item is kept with.
StrictResult ==
  Strict /\ lifecycle = "Terminal" /\ status # "error" =>
    \A k \in DOMAIN output :
      /\ output[k].done
      /\ Cardinality(heard[output[k].index]) <= 1
      /\ output[k].call # "" => heard[output[k].index] \subseteq {output[k].call}
============================================================================
