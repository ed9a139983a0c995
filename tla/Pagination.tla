----------------------------- MODULE Pagination -----------------------------
(***************************************************************************)
(* Keyset pagination of files, vector stores and attachments: a page is    *)
(* the rows past a cursor row in (created_at, id) order, one more than the *)
(* limit telling has_more; with `before' the query runs backwards and the  *)
(* page is reversed.  A client walks page by page while rows come and go.  *)
(***************************************************************************)
EXTENDS Integers, Sequences, FiniteSets, SequencesExt

CONSTANTS
    Ids,         \* row ids, compared as integers
    MaxTime,     \* bound: created_at of the last row
    Limit        \* page size

VARIABLES
    table,       \* rows present: [at, id]
    used,        \* ids that were given out
    clock,
    walk,        \* the client: order, direction, cursor, phase
    seen,        \* rows it was given, in list order
    stable       \* rows present since the walk began

vars == <<table, used, clock, walk, seen, stable>>

Rows == [at : 0 .. MaxTime, id : Ids]
NoRow == [at |-> -1, id |-> 0]
Less(a, b) == a.at < b.at \/ (a.at = b.at /\ a.id < b.id)

Walks == [asc : BOOLEAN, back : BOOLEAN, cursor : Rows \cup {NoRow}, from : Rows \cup {NoRow},
          phase : {"walking", "done", "refused"}]

Init ==
    /\ table = {} /\ used = {} /\ clock = 0
    /\ walk = [asc |-> TRUE, back |-> FALSE, cursor |-> NoRow, from |-> NoRow, phase |-> "done"]
    /\ seen = <<>> /\ stable = {}

Insert(id) ==
    /\ id \notin used
    /\ table' = table \cup {[at |-> clock, id |-> id]}
    /\ used' = used \cup {id}
    /\ UNCHANGED <<clock, walk, seen, stable>>

Delete(r) ==
    /\ r \in table
    /\ table' = table \ {r}
    /\ stable' = stable \ {r}
    /\ UNCHANGED <<used, clock, walk, seen>>

Tick ==
    /\ clock < MaxTime
    /\ clock' = clock + 1
    /\ UNCHANGED <<table, used, walk, seen, stable>>

(* A client starts listing, forward from the first row or, with a cursor, *)
(* backward from a row it knows.                                          *)
StartWalk(asc, back, r) ==
    /\ walk.phase = "done" /\ seen = <<>>
    /\ back => r \in table
    /\ ~back => r = NoRow
    /\ walk' = [asc |-> asc, back |-> back, cursor |-> r, from |-> r, phase |-> "walking"]
    /\ stable' = table
    /\ UNCHANGED <<table, used, clock, seen>>

(* list: the comparison and the order of the query. *)
Ascending(asc, back) == asc = ~back

Past(r, cursor, up) ==
    \/ cursor = NoRow
    \/ IF up THEN Less(cursor, r) ELSE Less(r, cursor)

Fetched(w) ==
    LET up == Ascending(w.asc, w.back)
        rows == SetToSortSeq({r \in table : Past(r, w.cursor, up)},
                             LAMBDA a, b : IF up THEN Less(a, b) ELSE Less(b, a)) IN
    SubSeq(rows, 1, IF Len(rows) > Limit + 1 THEN Limit + 1 ELSE Len(rows))

(* Mutant of Page. *)
PageForward(rows, back) ==
    SubSeq(rows, 1, IF Len(rows) > Limit THEN Limit ELSE Len(rows))

(* page: truncated to the limit, in list order. *)
Page(rows, back) ==
    LET cut == SubSeq(rows, 1, IF Len(rows) > Limit THEN Limit ELSE Len(rows)) IN
    IF back THEN Reverse(cut) ELSE cut

HasMore(rows) == Len(rows) > Limit

(* One request: an unknown cursor is refused; the client goes on from the *)
(* page's last id (first id, backwards) while has_more.                   *)
NextPage ==
    /\ walk.phase = "walking"
    /\ IF walk.cursor # NoRow /\ walk.cursor \notin table
       THEN /\ walk' = [walk EXCEPT !.phase = "refused"]
            /\ UNCHANGED seen
       ELSE LET rows == Fetched(walk)
                page == Page(rows, walk.back) IN
            /\ seen' = IF walk.back THEN page \o seen ELSE seen \o page
            /\ walk' = [walk EXCEPT
                          !.phase = IF HasMore(rows) THEN "walking" ELSE "done",
                          !.cursor = IF page = <<>> THEN walk.cursor
                                     ELSE IF walk.back THEN Head(page) ELSE Last(page)]
    /\ UNCHANGED <<table, used, clock, stable>>

Next ==
    \/ \E id \in Ids : Insert(id)
    \/ \E r \in table : Delete(r)
    \/ Tick
    \/ \E asc, back \in BOOLEAN, r \in table \cup {NoRow} : StartWalk(asc, back, r)
    \/ NextPage

Spec == Init /\ [][Next]_vars

----------------------------------------------------------------------------
(* Every variable stays in its range. *)
TypeOK ==
    /\ table \subseteq Rows /\ used \subseteq Ids /\ clock \in 0 .. MaxTime
    /\ walk \in Walks /\ seen \in Seq(Rows) /\ stable \subseteq table

(* The pages put together are in list order, without repetition, however   *)
(* rows come and go between two requests and in either direction.          *)
InOrder ==
    \A i, j \in DOMAIN seen :
        i < j => IF walk.asc THEN Less(seen[i], seen[j]) ELSE Less(seen[j], seen[i])

(* A walk that reached its end saw every row that was there throughout     *)
(* (going backwards: every such row before its first cursor).              *)
NothingSkipped ==
    walk.phase = "done" =>
        \A r \in stable : Past(r, walk.from, Ascending(walk.asc, walk.back)) => r \in ToSet(seen)

============================================================================
