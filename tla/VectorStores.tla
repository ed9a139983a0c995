---------------------------- MODULE VectorStores ----------------------------
(***************************************************************************)
(* Vector stores: ingestion reads the store and the file, spends seconds   *)
(* extracting and embedding with no lock, and publishes the attachment and *)
(* its chunks in one transaction; with sqlite-vec the index rows are staged*)
(* in the same transaction and removed in a later one.  Requests of several*)
(* workers, with embedding configurations that may differ, interleave with *)
(* detachments, deletions and restarts.                                    *)
(*                                                                         *)
(* A chunk is its position; the byte and chunk limits are one capacity,    *)
(* counted in chunks.  Dimension 0 is a store without embeddings.          *)
(***************************************************************************)
EXTENDS Integers, FiniteSets

CONSTANTS
    Stores,       \* vector store ids; each is created at most once
    Files,        \* files uploaded before
    Workers,      \* concurrent ingestion requests
    Embedders,    \* embedding configurations
    Dimensions,   \* vector lengths an embedding endpoint answers with
    MaxChunks,    \* chunks of one file
    Capacity,     \* validate_capacity: chunks of one store
    Indexed,      \* TRUE: SqliteVecRepository; FALSE: the portable SQL repository
    MaxIngests    \* bound: ingestions begun

ConstantsOK ==
    /\ Dimensions \subseteq Nat \ {0}
    /\ MaxChunks \in Nat \ {0}
    /\ Capacity \in Nat
    /\ Indexed \in BOOLEAN
    /\ MaxIngests \in Nat

Keyword == "keyword"                 \* the identity without embeddings
Identities == Embedders \cup {Keyword}
None == "none"

VARIABLES
    files,     \* file_search_files
    store,     \* file_search_stores: identity and embedding_dimensions
    attached,  \* file_search_attachments with their chunks: count and dimension
    mapped,    \* file_search_vec_map: <<store, file, chunk>>
    vectors,   \* the vec0 table of each store: <<file, chunk, dimension>>
    work,      \* worker |-> the ingestion it prepares
    cleaning,  \* deletions whose index rows are still to be removed
    ingests    \* ingestions so far

vars == <<files, store, attached, mapped, vectors, work, cleaning, ingests>>

NoStore == [state |-> "absent", identity |-> None, dim |-> 0]
NoFile == [chunks |-> 0, dim |-> 0]
Idle == [phase |-> "idle", store |-> None, files |-> {}, identity |-> None,
         expected |-> 0, dim |-> 0, chunks |-> 0]

Init ==
    /\ files = Files
    /\ store = [s \in Stores |-> NoStore]
    /\ attached = [s \in Stores |-> [f \in Files |-> NoFile]]
    /\ mapped = {}
    /\ vectors = [s \in Stores |-> {}]
    /\ work = [w \in Workers |-> Idle]
    /\ cleaning = {}
    /\ ingests = 0

Live(s) == store[s].state = "live"
Attached(s, f) == attached[s][f].chunks > 0
Chunks(s) == {<<f, i>> \in Files \X (1 .. MaxChunks) : i <= attached[s][f].chunks}
Used(s) == Cardinality(Chunks(s))

----------------------------------------------------------------------------
(* Ingestion *)

(* create_vector_store, up to its transaction: request checks, then each    *)
(* file prepared in turn, the first one's dimension expected of the others. *)
BeginCreate(w, s, id, fs) ==
    /\ work[w].phase = "idle" /\ ingests < MaxIngests
    /\ store[s].state = "absent"
    /\ \A v \in Workers : work[v].store # s
    /\ \E n \in 1 .. MaxChunks, d \in IF id = Keyword \/ fs = {} THEN {0} ELSE Dimensions :
         work' = [work EXCEPT ![w] =
                    [phase |-> "creating", store |-> s, files |-> fs, identity |-> id,
                     expected |-> d, dim |-> d, chunks |-> n]]
    /\ ingests' = ingests + 1
    /\ UNCHANGED <<files, store, attached, mapped, vectors, cleaning>>

(* attach_file reads the store: its identity must be this configuration's, *)
(* the file not attached yet; its dimension is what embed will accept.      *)
BeginAttach(w, s, id, f) ==
    /\ work[w].phase = "idle" /\ ingests < MaxIngests
    /\ Live(s) /\ store[s].identity = id
    /\ ~Attached(s, f)
    /\ work' = [work EXCEPT ![w] =
                  [phase |-> "reading", store |-> s, files |-> {f}, identity |-> id,
                   expected |-> store[s].dim, dim |-> 0, chunks |-> 0]]
    /\ ingests' = ingests + 1
    /\ UNCHANGED <<files, store, attached, mapped, vectors, cleaning>>

(* Embeddings::embed and validate_response: the vector lengths an ingestion *)
(* can get; vectors of another length than the one expected are refused.   *)
EmbeddedAs(id, expected) ==
    IF id = Keyword THEN {0} ELSE IF expected # 0 THEN {expected} ELSE Dimensions

(* prepare: the file is read, chunked and embedded, without any lock. *)
Prepare(w) ==
    /\ work[w].phase = "reading"
    /\ work[w].files \subseteq files
    /\ \E n \in 1 .. MaxChunks, d \in EmbeddedAs(work[w].identity, work[w].expected) :
         work' = [work EXCEPT ![w].phase = "attaching", ![w].dim = d, ![w].chunks = n]
    /\ UNCHANGED <<files, store, attached, mapped, vectors, cleaning, ingests>>

(* Mutant of Fits: any dimension is written over the store's own.          *)
FitsUnset(s, id, d) == Live(s) /\ store[s].identity = id

(* The conditional UPDATE of the store's dimension. *)
Fits(s, id, d) ==
    /\ Live(s)
    /\ store[s].identity = id
    /\ store[s].dim \in {0, d}

(* The capacity left, the primary key and the foreign key of an attachment. *)
Insertable(s, f, n) ==
    /\ Used(s) + n <= Capacity
    /\ ~Attached(s, f)
    /\ f \in files

(* SqliteVecIndex::stage: nothing without dimensions; a row another        *)
(* publication left is reused, its vector replaced.                        *)
Staged(s, fs, n, d) ==
    LET new == fs \X (1 .. n) IN
    IF d = 0 \/ ~Indexed THEN vectors[s]
    ELSE {v \in vectors[s] : <<v[1], v[2]>> \notin new} \cup {<<c[1], c[2], d>> : c \in new}

(* vec0 tables hold one vector length: the first one's. *)
Storable(s, d) == d # 0 => \A v \in vectors[s] : v[3] = d

(* attach: one transaction; on any refusal it rolls back. *)
PublishAttach(w) ==
    LET k == work[w]
        s == k.store
        f == CHOOSE x \in k.files : TRUE IN
    /\ k.phase = "attaching"
    /\ IF Storable(s, k.dim) /\ Fits(s, k.identity, k.dim) /\ Insertable(s, f, k.chunks)
       THEN /\ store' = [store EXCEPT ![s].dim = k.dim]
            /\ attached' = [attached EXCEPT ![s][f] = [chunks |-> k.chunks, dim |-> k.dim]]
            /\ vectors' = [vectors EXCEPT ![s] = Staged(s, {f}, k.chunks, k.dim)]
            /\ mapped' = mapped \cup {<<s, v[1], v[2]>> : v \in vectors'[s]}
       ELSE UNCHANGED <<store, attached, vectors, mapped>>
    /\ work' = [work EXCEPT ![w] = Idle]
    /\ UNCHANGED <<files, cleaning, ingests>>

(* create_store: the store and every attachment in one transaction. *)
PublishCreate(w) ==
    LET k == work[w]
        s == k.store IN
    /\ k.phase = "creating"
    /\ IF Cardinality(k.files) * k.chunks <= Capacity /\ k.files \subseteq files
       THEN /\ store' = [store EXCEPT ![s] = [state |-> "live", identity |-> k.identity, dim |-> k.dim]]
            /\ attached' = [attached EXCEPT ![s] =
                              [f \in Files |-> IF f \in k.files THEN [chunks |-> k.chunks, dim |-> k.dim]
                                               ELSE NoFile]]
            /\ vectors' = [vectors EXCEPT ![s] = Staged(s, k.files, k.chunks, k.dim)]
            /\ mapped' = mapped \cup {<<s, v[1], v[2]>> : v \in vectors'[s]}
       ELSE UNCHANGED <<store, attached, vectors, mapped>>
    /\ work' = [work EXCEPT ![w] = Idle]
    /\ UNCHANGED <<files, cleaning, ingests>>

(* The request fails or its caller goes away before the transaction. *)
GiveUp(w) ==
    /\ work[w].phase \in {"creating", "reading", "attaching"}
    /\ work' = [work EXCEPT ![w] = Idle]
    /\ UNCHANGED <<files, store, attached, mapped, vectors, cleaning, ingests>>

----------------------------------------------------------------------------
(* Deletion: the metadata transaction is the visibility gate, the index    *)
(* follows in a transaction of its own that may fail.                      *)

Detach(s, f) ==
    /\ Attached(s, f)
    /\ attached' = [attached EXCEPT ![s][f] = NoFile]
    /\ cleaning' = IF Indexed THEN cleaning \cup {[store |-> {s}, file |-> {f}]} ELSE cleaning
    /\ UNCHANGED <<files, store, mapped, vectors, work, ingests>>

DeleteFile(f) ==
    /\ f \in files
    /\ files' = files \ {f}
    /\ attached' = [s \in Stores |-> [attached[s] EXCEPT ![f] = NoFile]]
    /\ cleaning' = IF Indexed THEN cleaning \cup {[store |-> Stores, file |-> {f}]} ELSE cleaning
    /\ UNCHANGED <<store, mapped, vectors, work, ingests>>

DeleteStore(s) ==
    /\ Live(s)
    /\ store' = [store EXCEPT ![s].state = "deleted"]
    /\ attached' = [attached EXCEPT ![s] = [f \in Files |-> NoFile]]
    /\ cleaning' = IF Indexed THEN cleaning \cup {[store |-> {s}, file |-> Files]} ELSE cleaning
    /\ UNCHANGED <<files, mapped, vectors, work, ingests>>

(* Index rows whose chunk is published stay. *)
Orphans(ss, fs) ==
    {r \in mapped : r[1] \in ss /\ r[2] \in fs /\ <<r[2], r[3]>> \notin Chunks(r[1])}

Unindexed(gone) ==
    [s \in Stores |-> {v \in vectors[s] : <<s, v[1], v[2]>> \notin gone}]

(* remove_index_rows; a deleted store's table is dropped with its rows. *)
RemoveIndexRows(c) ==
    /\ c \in cleaning
    /\ LET gone == Orphans(c.store, c.file) IN
       /\ mapped' = mapped \ gone
       /\ vectors' = Unindexed(gone)
    /\ cleaning' = cleaning \ {c}
    /\ UNCHANGED <<files, store, attached, work, ingests>>

(* The cleanup transaction fails (only logged), or the process stops. *)
CleanupLost(c) ==
    /\ c \in cleaning
    /\ cleaning' = cleaning \ {c}
    /\ UNCHANGED <<files, store, attached, mapped, vectors, work, ingests>>

(* SqliteVecRepository::open on the next start: recover_orphans. *)
Restart ==
    /\ work' = [w \in Workers |-> Idle]
    /\ cleaning' = {}
    /\ LET gone == Orphans(Stores, Files) IN
       /\ mapped' = mapped \ gone
       /\ vectors' = Unindexed(gone)
    /\ UNCHANGED <<files, store, attached, ingests>>

Next ==
    \/ \E w \in Workers, s \in Stores, id \in Identities :
         \/ \E fs \in SUBSET Files : BeginCreate(w, s, id, fs)
         \/ \E f \in Files : BeginAttach(w, s, id, f)
    \/ \E w \in Workers : Prepare(w) \/ PublishAttach(w) \/ PublishCreate(w) \/ GiveUp(w)
    \/ \E s \in Stores : DeleteStore(s) \/ \E f \in Files : Detach(s, f)
    \/ \E f \in Files : DeleteFile(f)
    \/ \E c \in cleaning : RemoveIndexRows(c) \/ CleanupLost(c)
    \/ Restart

Spec == Init /\ [][Next]_vars

----------------------------------------------------------------------------
(* Every variable stays in its range. *)
TypeOK ==
    /\ files \subseteq Files
    /\ store \in [Stores -> [state : {"absent", "live", "deleted"},
                             identity : Identities \cup {None}, dim : Dimensions \cup {0}]]
    /\ attached \in [Stores -> [Files -> [chunks : 0 .. MaxChunks, dim : Dimensions \cup {0}]]]
    /\ mapped \subseteq Stores \X Files \X (1 .. MaxChunks)
    /\ vectors \in [Stores -> SUBSET (Files \X (1 .. MaxChunks) \X Dimensions)]
    /\ ingests \in 0 .. MaxIngests

(* Ingestions that raced with different answers of the endpoint leave one  *)
(* dimension in a store: every published chunk has the store's own.        *)
OneDimension ==
    \A s \in Stores, f \in Files :
        Attached(s, f) => Live(s) /\ attached[s][f].dim = store[s].dim

(* No race of ingestions passes the capacity of a store.                   *)
WithinCapacity == \A s \in Stores : Used(s) <= Capacity

(* Published chunks belong to a file and a store that exist.               *)
NothingDangling ==
    \A s \in Stores, f \in Files : Attached(s, f) => f \in files /\ Live(s)

(* What validate_index_rows demands of every searched store: each chunk of *)
(* a store with embeddings has its index row, whatever cleanup ran, failed *)
(* or raced with a re-attachment; and map and vec0 table agree.            *)
IndexComplete ==
    \A s \in Stores :
        /\ Indexed /\ store[s].dim # 0 => \A c \in Chunks(s) : <<s, c[1], c[2]>> \in mapped
        /\ {<<s, v[1], v[2]>> : v \in vectors[s]} = {r \in mapped : r[1] = s}
============================================================================
