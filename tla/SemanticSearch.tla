--------------------------- MODULE SemanticSearch ---------------------------
(***************************************************************************)
(* Semantic retrieval through sqlite-vec.  The index answers "the k nearest*)
(* rows"; results are unique per file and text, so k is doubled until the  *)
(* wanted number of distinct results is settled, and past the extension's  *)
(* largest k the exact ranking over the whole corpus is used instead.  The *)
(* native path has to give the exact path's answer.                        *)
(*                                                                         *)
(* A score is a small natural (a cosine clamped to 0..1), a key stands for *)
(* a (file, text) pair, rows are the chunks of the selected stores.        *)
(***************************************************************************)
EXTENDS Integers, FiniteSets, FiniteSetsExt

CONSTANTS
    Rows,        \* indexed chunks
    Keys,        \* (file_id, text) pairs
    Queries,     \* the request's queries, 1 .. n
    MaxScore,
    Targets,     \* max_num_results
    Thresholds,  \* score_threshold
    MaxKs        \* values of SQLITE_VEC_MAX_K, relative to the rows indexed

VARIABLES
    key,         \* row |-> key
    score,       \* query |-> row |-> score
    target, threshold, maxK,
    query,       \* the query being answered
    k,           \* rows asked for
    best,        \* SemanticCandidateAccumulator: key |-> best score, 0 = absent
    path         \* "native", "exact" or "done"

vars == <<key, score, target, threshold, maxK, query, k, best, path>>

Scores == 0 .. MaxScore
IndexRows == Cardinality(Rows)
FirstK(t) == IF t + 1 < IndexRows THEN t + 1 ELSE IndexRows

Init ==
    /\ key \in [Rows -> Keys]
    /\ score \in [Queries -> [Rows -> Scores]]
    /\ target \in Targets
    /\ threshold \in Thresholds
    /\ maxK \in MaxKs
    /\ query = 1
    /\ k = FirstK(target)
    /\ best = [x \in Keys |-> 0]
    /\ path = "native"

(* nearest_rows: any k rows none of which is farther than one left out. *)
Nearest(q, n) ==
    {R \in kSubset(n, Rows) : \A r \in R, s \in Rows \ R : score[q][r] >= score[q][s]}

BestOf(q, R, x) == Max({0} \cup {score[q][r] : r \in {s \in R : key[s] = x}})

(* The target-th distinct score of the fetched rows beats the last row's, *)
(* so no row left out can enter the answer or tie with it.                *)
Settled(q, R) ==
    LET last == Min({score[q][r] : r \in R}) IN
    Cardinality({x \in Keys : \E r \in R : key[r] = x /\ score[q][r] > last}) >= target

(* extend: results at or under zero, or under the threshold, are dropped. *)
Extended(b, q, R) ==
    [x \in Keys |-> LET s == BestOf(q, R, x) IN
                    IF s > 0 /\ s >= threshold /\ s > b[x] THEN s ELSE b[x]]

NextK(n) == IF 2 * n < IndexRows THEN 2 * n ELSE IndexRows

(* fetch_candidates, one round of its loop. *)
Fetch ==
    /\ path = "native" /\ query \in Queries
    /\ IF k > maxK
       THEN /\ path' = "exact"
            /\ UNCHANGED <<query, k, best>>
       ELSE \E R \in Nearest(query, k) :
              IF k = IndexRows \/ Settled(query, R)
              THEN /\ best' = Extended(best, query, R)
                   /\ query' = query + 1
                   /\ k' = FirstK(target)
                   /\ UNCHANGED path
              ELSE /\ k' = NextK(k)
                   /\ UNCHANGED <<query, best, path>>
    /\ UNCHANGED <<key, score, target, threshold, maxK>>

FinishNative ==
    /\ path = "native" /\ query \notin Queries
    /\ path' = "done"
    /\ UNCHANGED <<key, score, target, threshold, maxK, query, k, best>>

(* ranking::rank: every row against every query, the best score per key. *)
Ranked(x) ==
    Max({0} \cup {s \in {score[q][r] : q \in Queries, r \in {r \in Rows : key[r] = x}} :
                    s > 0 /\ s >= threshold})

FinishExact ==
    /\ path = "exact"
    /\ best' = [x \in Keys |-> Ranked(x)]
    /\ path' = "done"
    /\ UNCHANGED <<key, score, target, threshold, maxK, query, k>>

Next == Fetch \/ FinishNative \/ FinishExact

Spec == Init /\ [][Next]_vars /\ WF_vars(Next)

----------------------------------------------------------------------------
(* The native search answers like the exact one: whatever rows the index  *)
(* returned among equals, every result that belongs among the best        *)
(* max_num_results, ties included, is there with its exact score, and no  *)
(* result has a better score than it deserves.                            *)
SameAnswer ==
    path = "done" =>
        \A x \in Keys :
            /\ best[x] <= Ranked(x)
            /\ Cardinality({y \in Keys : Ranked(y) > Ranked(x)}) < target => best[x] = Ranked(x)

(* The doubling of k ends: every search answers.                          *)
Answers == <>(path = "done")
============================================================================
