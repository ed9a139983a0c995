-------------------------- MODULE ConversationStore --------------------------
(***************************************************************************)
(* One conversation of the Conversations API: its row, its item rows and   *)
(* the response rows of its turns, changed by Responses turns, by the      *)
(* /v1/conversations operations and by DELETE /v1/responses/{id}.          *)
(*                                                                         *)
(* A turn rehydrates, runs for as long as the model takes, and persists in *)
(* a transaction that locks the conversation row, checks the checkpoint,   *)
(* allocates sequence numbers and commits.  The statements of a locked     *)
(* transaction are separate steps, so the lock is what keeps two of them   *)
(* apart; an operation of one statement, or whose locked statements cannot *)
(* be told apart from outside, is one step that needs the lock free.       *)
(*                                                                         *)
(* Item rows are named for what added them: the turn, or an item of the    *)
(* API.  An Option is a set with at most one element.                      *)
(***************************************************************************)
EXTENDS Naturals, Sequences, FiniteSets, SequencesExt

CONSTANTS
    Turns,      \* turns, named by their response ids
    ApiItems    \* items created through the Conversations API

ConstantsOK ==
    IsFiniteSet(Turns) /\ IsFiniteSet(ApiItems) /\ Turns \cap ApiItems = {}

Items == Turns \cup ApiItems

VARIABLES
    conv,       \* the conversation's row: none yet, a tenant's, anonymous, deleted
    latest,     \* conversations.latest_response_id
    lock,       \* transactions holding the conversation's row lock
    items,      \* item rows that exist
    seq,        \* items.seq of the items in the conversation
    row,        \* history_item_ids of each response row that exists
    turn,       \* progress of every turn
    since       \* turns stored in the conversation since each turn's snapshot

vars == <<conv, latest, lock, items, seq, row, turn, since>>

(* "begin" has issued neither of the two reads of from_conversation, "got" *)
(* and "snap" one of them; "locked" and "allocated" are inside persist.    *)
Phases == {"new", "begin", "got", "snap", "run", "locked", "allocated",
           "stored", "unstored"}

(* base and seen are the checkpoint's response_id and history_item_ids.    *)
Turn == [phase : Phases, store : BOOLEAN, requires : BOOLEAN,
         base : SUBSET Turns, seen : Seq(Items), next : Nat]

Fresh == [phase |-> "new", store |-> FALSE, requires |-> FALSE, base |-> {},
          seen |-> <<>>, next |-> 0]

Init ==
    /\ conv = "never"
    /\ latest = {}
    /\ lock = {}
    /\ items = {}
    /\ seq = [i \in Items |-> {}]
    /\ row = [t \in Turns |-> {}]
    /\ turn = [t \in Turns |-> Fresh]
    /\ since = [t \in Turns |-> {}]

Attached == {i \in Items : seq[i] # {}}

Place(i) == CHOOSE n \in seq[i] : TRUE

(* COALESCE(MAX(seq), -1) + 1 over the conversation's items.               *)
NextSeq == IF Attached = {} THEN 0
           ELSE 1 + (CHOOSE n \in {Place(i) : i \in Attached} :
                       \A i \in Attached : Place(i) <= n)

(* The conversation's items in sequence order.                             *)
History == SetToSortSeq(Attached, LAMBDA i, j : Place(i) < Place(j))

Present == conv \in {"owned", "anonymous"}

Unlocked == lock = {}

-----------------------------------------------------------------------------
(* The Conversations API *)

(* ConversationStore::create with at most one initial item, under an id    *)
(* nobody used before.                                                     *)
Create(initial) ==
    /\ conv = "never"
    /\ \A t \in Turns : turn[t].phase = "new"
    /\ Cardinality(initial) <= 1
    /\ conv' = "owned"
    /\ items' = items \cup initial
    /\ seq' = [i \in Items |-> IF i \in initial THEN {0} ELSE {}]
    /\ UNCHANGED <<latest, lock, row, turn, since>>

(* ConversationStore::create_items.                                        *)
CreateItem(i) ==
    /\ conv = "owned"
    /\ Unlocked
    /\ i \in ApiItems \ items
    /\ items' = items \cup {i}
    /\ seq' = [seq EXCEPT ![i] = {NextSeq}]
    /\ UNCHANGED <<conv, latest, lock, row, turn, since>>

(* ConversationStore::delete_item: the row stays for stored responses.     *)
DeleteItem(i) ==
    /\ conv = "owned"
    /\ Unlocked
    /\ i \in Attached
    /\ seq' = [seq EXCEPT ![i] = {}]
    /\ UNCHANGED <<conv, latest, lock, items, row, turn, since>>

(* detach_from_conversation_in_tx takes every item out of the conversation *)
(* before its row is deleted, so the cascading foreign key finds none.     *)
DetachedItems == items

(* ConversationStore::delete.  Only an owned conversation can be deleted.  *)
DeleteConversation ==
    /\ conv = "owned"
    /\ Unlocked
    /\ conv' = "deleted"
    /\ latest' = {}
    /\ items' = DetachedItems
    /\ seq' = [i \in Items |-> {}]
    /\ since' = [t \in Turns |-> {}]
    /\ UNCHANGED <<lock, row, turn>>

(* ResponseStore::delete of a conversation turn: the foreign key clears    *)
(* the conversation's pointer, which needs the row lock.                   *)
DeleteResponse(t) ==
    /\ row[t] # {}
    /\ t \in latest => Unlocked
    /\ row' = [row EXCEPT ![t] = {}]
    /\ latest' = latest \ {t}
    /\ UNCHANGED <<conv, lock, items, seq, turn, since>>

-----------------------------------------------------------------------------
(* Turns *)

(* from_conversation starts its two reads, which run concurrently.         *)
Start(t, store) ==
    /\ turn[t].phase = "new"
    /\ turn' = [turn EXCEPT ![t].phase = "begin", ![t].store = store]
    /\ UNCHANGED <<conv, latest, lock, items, seq, row, since>>

(* get_or_create for a stored turn, whose upsert writes the row; get       *)
(* otherwise.                                                              *)
GetConversation(t) ==
    /\ turn[t].phase \in {"begin", "snap"}
    /\ IF turn[t].store THEN Unlocked ELSE Present
    /\ conv' = IF Present THEN conv ELSE "anonymous"
    /\ turn' = [turn EXCEPT ![t].phase = IF @ = "begin" THEN "got" ELSE "run"]
    /\ UNCHANGED <<latest, lock, items, seq, row, since>>

(* ConversationStore::rehydrate, one statement: the latest turn and the    *)
(* items; an absent conversation gives the empty snapshot.  The checkpoint *)
(* requires the latest turn when the history leaves a call unanswered or   *)
(* the turn is multi-agent.                                                *)
Rehydrate(t, requires) ==
    /\ turn[t].phase \in {"begin", "got"}
    /\ turn' = [turn EXCEPT ![t].phase = IF @ = "begin" THEN "snap" ELSE "run",
                           ![t].requires = requires,
                           ![t].base = latest,
                           ![t].seen = History]
    /\ since' = [since EXCEPT ![t] = {}]
    /\ UNCHANGED <<conv, latest, lock, items, seq, row>>

(* Mutant: two transactions hold the row lock together.                    *)
LockShared(t) == Present

(* lock_in_tx: waits for the row lock, fails without a conversation.       *)
LockInTx(t) == Present /\ Unlocked

(* The conflict check of ConversationStore::persist.                       *)
Admitted(t) == turn[t].requires => latest = turn[t].base

(* persist: lock the conversation and check the checkpoint.                *)
PersistLock(t) ==
    /\ turn[t].phase = "run"
    /\ turn[t].store
    /\ LockInTx(t)
    /\ Admitted(t)
    /\ lock' = lock \cup {t}
    /\ turn' = [turn EXCEPT ![t].phase = "locked"]
    /\ UNCHANGED <<conv, latest, items, seq, row, since>>

(* persist: the insert computes the next sequence number from what is      *)
(* committed.                                                              *)
PersistAllocate(t) ==
    /\ turn[t].phase = "locked"
    /\ turn' = [turn EXCEPT ![t].phase = "allocated", ![t].next = NextSeq]
    /\ UNCHANGED <<conv, latest, lock, items, seq, row, since>>

(* The response keeps the history the turn continued, and its own items.   *)
Recorded(t) == Append(turn[t].seen, t)

(* set_latest_response_in_tx.                                              *)
SetLatest(t) == {t}

(* persist: items, response and latest pointer become visible together.    *)
PersistCommit(t) ==
    /\ turn[t].phase = "allocated"
    /\ items' = items \cup {t}
    /\ seq' = [seq EXCEPT ![t] = {turn[t].next}]
    /\ row' = [row EXCEPT ![t] = {Recorded(t)}]
    /\ latest' = SetLatest(t)
    /\ lock' = lock \ {t}
    /\ turn' = [turn EXCEPT ![t].phase = "stored"]
    /\ since' = [u \in Turns |->
                   IF turn[u].phase \in {"snap", "run"} THEN since[u] \cup {t}
                   ELSE since[u]]
    /\ UNCHANGED conv

(* The turn ends unstored: store is false, it failed or was cancelled, the *)
(* conversation is missing, the check refused it, or an item it supplied   *)
(* is already in the conversation.  A transaction rolls back.              *)
Fail(t) ==
    /\ turn[t].phase \in {"begin", "got", "snap", "run", "locked", "allocated"}
    /\ lock' = lock \ {t}
    /\ turn' = [turn EXCEPT ![t] = [Fresh EXCEPT !.phase = "unstored"]]
    /\ since' = [since EXCEPT ![t] = {}]
    /\ UNCHANGED <<conv, latest, items, seq, row>>

-----------------------------------------------------------------------------

TurnStep(t) ==
    \/ \E store \in BOOLEAN : Start(t, store)
    \/ GetConversation(t)
    \/ \E requires \in BOOLEAN : Rehydrate(t, requires)
    \/ PersistLock(t)
    \/ PersistAllocate(t)
    \/ PersistCommit(t)
    \/ Fail(t)

Next ==
    \/ \E initial \in SUBSET ApiItems : Create(initial)
    \/ \E i \in ApiItems : CreateItem(i)
    \/ \E i \in Items : DeleteItem(i)
    \/ DeleteConversation
    \/ \E t \in Turns : DeleteResponse(t) \/ TurnStep(t)

Spec == Init /\ [][Next]_vars

-----------------------------------------------------------------------------
(* Properties *)

(* Types; a conversation points at no more than one latest turn.           *)
TypeOK ==
    /\ conv \in {"never", "owned", "anonymous", "deleted"}
    /\ latest \subseteq Turns /\ Cardinality(latest) <= 1
    /\ lock \subseteq Turns
    /\ items \subseteq Items
    /\ seq \in [Items -> SUBSET Nat]
    /\ row \in [Turns -> SUBSET Seq(Items)]
    /\ turn \in [Turns -> Turn]
    /\ since \in [Turns -> SUBSET Turns]

(* Every item id a stored response lists has an item row, whatever became  *)
(* of the conversation: get_input_items and rehydrate can load it.         *)
HistoryResolvable ==
    \A t \in Turns : \A h \in row[t] : ToSet(h) \subseteq items

(* A response records the context its model was given and nothing that was *)
(* added to the conversation while it ran.                                 *)
RecordsWhatItSaw ==
    \A t \in Turns : \A h \in row[t] : ToSet(h) \subseteq ToSet(turn[t].seen) \cup {t}

(* An item is always added strictly after every item that is already there *)
(* and stays, so no two share a sequence number and the conversation reads *)
(* in commit order, whatever turns and API operations of several gateway   *)
(* replicas run together.                                                  *)
AppendsAtEnd ==
    \A i \in Items, j \in Attached :
      seq[i] = {} /\ seq'[i] # {} /\ seq'[j] # {} => \A n \in seq'[i] : Place(j) < n

AppendsAfter == [][AppendsAtEnd]_vars

(* The comment on persist: a turn that requires the latest turn is refused *)
(* when another turn was stored since its checkpoint.                      *)
NothingStoredSince ==
    \A t \in Turns : turn[t].phase = "stored" /\ turn[t].requires => since[t] = {}

(* What the check does guarantee: a turn that requires the latest turn and *)
(* rehydrated one is stored right after it.                                *)
StoredRightAfterBase ==
    \A t \in Turns :
      turn[t].phase = "stored" /\ turn[t].requires /\ turn[t].base # {} => since[t] = {}

=============================================================================
