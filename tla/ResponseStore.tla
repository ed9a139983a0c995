---------------------------- MODULE ResponseStore ----------------------------
(***************************************************************************)
(* Durable response chains: the responses table, turns that continue a     *)
(* stored response by previous_response_id, and DELETE /v1/responses/{id}. *)
(*                                                                         *)
(* A response row keeps the ids of its whole history.  A turn reads that   *)
(* history three times, each a statement of its own: the rehydrate that    *)
(* feeds the model, the read at the head of persist, and the foreign-key   *)
(* check of the insert.  Each transaction is one step, as SQLite's single  *)
(* writer and stale-snapshot check make it.                                *)
(*                                                                         *)
(* A turn is named by the response id it produces, and the items it adds   *)
(* by that name: deletion keeps or removes them together.                  *)
(***************************************************************************)
EXTENDS Naturals, Sequences, FiniteSets, SequencesExt

CONSTANT Turns

ConstantsOK == IsFiniteSet(Turns)

VARIABLES
    row,       \* responses: the row of each response, when it exists
    turn,      \* progress of every turn
    deleted,   \* responses whose row was deleted
    lineage    \* the chain of responses each turn asked to continue

vars == <<row, turn, deleted, lineage>>

(* previous_response_id and history_item_ids.  An Option is a set with at  *)
(* most one element.                                                       *)
Row == [prev : SUBSET Turns, history : Seq(Turns)]

(* "read" is inside persist, after it read the parent's row.               *)
Phases == {"new", "run", "read", "done"}

(* input is the history the model was given, base the one persist read.    *)
Turn == [phase : Phases, prev : SUBSET Turns, input : Seq(Turns),
         base : Seq(Turns)]

Exists(t) == row[t] # {}
HistoryOf(t) == (CHOOSE r \in row[t] : TRUE).history

Init ==
    /\ row = [t \in Turns |-> {}]
    /\ turn = [t \in Turns |->
                 [phase |-> "new", prev |-> {}, input |-> <<>>, base |-> <<>>]]
    /\ deleted = {}
    /\ lineage = [t \in Turns |-> <<>>]

-----------------------------------------------------------------------------
(* Turns *)

(* A request without previous_response_id.                                 *)
FromResponses(t) ==
    /\ turn[t].phase = "new"
    /\ turn' = [turn EXCEPT ![t].phase = "run"]
    /\ lineage' = [lineage EXCEPT ![t] = <<t>>]
    /\ UNCHANGED <<row, deleted>>

(* from_response: load the stored response p with its full history.        *)
FromResponse(t, p) ==
    /\ turn[t].phase = "new"
    /\ Exists(p)
    /\ turn' = [turn EXCEPT ![t].phase = "run", ![t].prev = {p},
                           ![t].input = HistoryOf(p)]
    /\ lineage' = [lineage EXCEPT ![t] = Append(lineage[p], t)]
    /\ UNCHANGED <<row, deleted>>

(* The history a turn extends, as the parent's row has it now.             *)
ParentHistory(t) ==
    IF turn[t].prev = {} THEN <<>> ELSE HistoryOf(CHOOSE p \in turn[t].prev : TRUE)

(* ResponseStore::persist, the read before its transaction.                *)
ReadParent(t) ==
    /\ turn[t].phase = "run"
    /\ \A p \in turn[t].prev : Exists(p)
    /\ turn' = [turn EXCEPT ![t].phase = "read", ![t].base = ParentHistory(t)]
    /\ UNCHANGED <<row, deleted, lineage>>

(* The foreign key on previous_response_id.                                *)
ParentsExist(t) == \A p \in turn[t].prev : Exists(p)

(* ResponseStore::persist, its transaction: the new items and the row.     *)
Insert(t) ==
    /\ turn[t].phase = "read"
    /\ ParentsExist(t)
    /\ row' = [row EXCEPT ![t] = {[prev |-> turn[t].prev,
                                   history |-> Append(turn[t].base, t)]}]
    /\ turn' = [turn EXCEPT ![t].phase = "done"]
    /\ UNCHANGED <<deleted, lineage>>

(* The turn ends unstored: it failed, was cancelled, or its parent is gone.*)
Fail(t) ==
    /\ turn[t].phase \in {"run", "read"}
    /\ turn' = [turn EXCEPT ![t].phase = "done"]
    /\ UNCHANGED <<row, deleted, lineage>>

-----------------------------------------------------------------------------
(* Deletion *)

Children(S) == {t \in Turns : \E r \in row[t] : r.prev \cap S # {}}

(* The rows the walk of delete_in_tx visits below d.                       *)
Descendants(d) ==
    LET Reach[n \in 0 .. Cardinality(Turns)] ==
          IF n = 0 THEN Children({d}) ELSE Reach[n - 1] \cup Children(Reach[n - 1])
    IN Reach[Cardinality(Turns)]

(* A descendant's history without everything the deleted row holds.        *)
Scrub(h, d) == SelectSeq(h, LAMBDA i : i \notin ToSet(HistoryOf(d)))

(* Mutant: only direct children are visited.                               *)
DeleteShallow(d) ==
    /\ Exists(d)
    /\ row' = [t \in Turns |->
                 IF t = d THEN {}
                 ELSE {[prev |-> r.prev \ {d},
                        history |-> IF d \in r.prev THEN Scrub(r.history, d)
                                    ELSE r.history] : r \in row[t]}]
    /\ deleted' = deleted \cup {d}
    /\ UNCHANGED <<turn, lineage>>

(* ResponseStore::delete: scrub every descendant, then delete the row; the *)
(* foreign key clears previous_response_id of the children.                *)
Delete(d) ==
    /\ Exists(d)
    /\ row' = [t \in Turns |->
                 IF t = d THEN {}
                 ELSE {[prev |-> r.prev \ {d},
                        history |-> IF t \in Descendants(d) THEN Scrub(r.history, d)
                                    ELSE r.history] : r \in row[t]}]
    /\ deleted' = deleted \cup {d}
    /\ UNCHANGED <<turn, lineage>>

-----------------------------------------------------------------------------

TurnStep(t) ==
    \/ FromResponses(t)
    \/ \E p \in Turns : FromResponse(t, p)
    \/ ReadParent(t)
    \/ Insert(t)
    \/ Fail(t)

Next ==
    \/ \E t \in Turns : TurnStep(t)
    \/ \E d \in Turns : Delete(d)

Spec == Init /\ [][Next]_vars

-----------------------------------------------------------------------------
(* Properties *)

(* Types; a row's history ends with the items of its own turn.             *)
TypeOK ==
    /\ row \in [Turns -> SUBSET Row]
    /\ \A t \in Turns : \A r \in row[t] : r.history # <<>> /\ Last(r.history) = t
    /\ turn \in [Turns -> Turn]
    /\ deleted \subseteq Turns
    /\ lineage \in [Turns -> Seq(Turns)]

(* The chain of a response after its last deleted member.                  *)
LiveSuffix(t) ==
    LET chain == lineage[t]
        gone == {i \in 1 .. Len(chain) : chain[i] \in deleted}
        last == IF gone = {} THEN 0 ELSE CHOOSE i \in gone : \A j \in gone : j <= i
    IN SubSeq(chain, last + 1, Len(chain))

(* Deleting a response never costs a descendant anything but the deleted   *)
(* context: a row always ends with all the turns of its chain after the    *)
(* last deleted one, in their order.                                       *)
LiveContextKept ==
    \A t \in Turns : Exists(t) => IsSuffix(LiveSuffix(t), HistoryOf(t))

(* A response remembers only what its model was given: every item of its   *)
(* row was in its input or is its own, though persist read the parent's    *)
(* row again after generation.                                             *)
HistoryWasSeen ==
    \A t \in Turns : Exists(t) =>
      ToSet(HistoryOf(t)) \subseteq ToSet(turn[t].input) \cup {t}

(* previous_response_id never dangles, and a row keeps all its parent has, *)
(* in the parent's order, whatever was deleted above them and when.        *)
ChainExtendsParent ==
    \A t \in Turns : \A r \in row[t] : \A p \in r.prev :
      /\ Exists(p)
      /\ SelectSeq(r.history, LAMBDA i : i \in ToSet(HistoryOf(p))) = HistoryOf(p)

(* What the API documentation says of deletion: no response that descends  *)
(* from a deleted one keeps its context.                                   *)
NoDeletedContext ==
    \A t \in Turns : Exists(t) => HistoryOf(t) = LiveSuffix(t)

(* Deletions that meet no turn between its read and its insert, the window *)
(* that persist leaves open by reading outside its transaction.            *)
QuietDelete ==
    deleted' # deleted => \A t \in Turns : turn[t].phase # "read"

QuietSpec == Init /\ [][Next /\ QuietDelete]_vars

(* A stored response lists what its turn saw and added: its parent's       *)
(* history first, and nothing of it lost while the chain lives (persist).  *)
ChainSound == TypeOK /\ LiveContextKept /\ HistoryWasSeen /\ ChainExtendsParent
=============================================================================
