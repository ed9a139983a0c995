------------------------------ MODULE MCStores ------------------------------
(***************************************************************************)
(* The stores for TLC: the chains of responses (ResponseStore), a          *)
(* conversation (ConversationStore), lists with cursors (Pagination), and  *)
(* of file search the vector stores (VectorStores, portable and with the   *)
(* sqlite-vec index) and the files' bytes (FileBlobs).                     *)
(*                                                                         *)
(* A behaviour checks one part, chosen at the start; the variables of the  *)
(* other parts rest.  The constants of FileBlobs are in the cfg.           *)
(***************************************************************************)
EXTENDS FileBlobs, TLC

\* x1 .. x4 are interchangeable; they have another role in each part, so
\* that one small symmetry group serves all of them.
CONSTANTS x1, x2, x3, x4,
          i1,                         \* an item of a conversation
          s1, s2, e1, e2,             \* vector stores and embedders
          f1, k1, k2, k3, k4, k5, k6, k7    \* a file, owner tokens

VARIABLES
    part,    \* the part this behaviour checks
    chainRow, chainTurn, deleted, lineage,
    conv, latest, lock, items, seq, convRow, convTurn, since,
    table, used, clock, walk, seen, stable,
    files, store, attached, mapped, vectors, work, cleaning, ingests

Chains == INSTANCE ResponseStore WITH
    Turns <- {x1, x2, x3, x4}, row <- chainRow, turn <- chainTurn

Shared == INSTANCE ConversationStore WITH
    Turns <- {x1, x2, x3}, ApiItems <- {}, row <- convRow, turn <- convTurn

Edited == INSTANCE ConversationStore WITH
    Turns <- {x1, x2}, ApiItems <- {i1}, row <- convRow, turn <- convTurn

Lists == INSTANCE Pagination WITH Ids <- 1..4, MaxTime <- 1, Limit <- 2

Portable == INSTANCE VectorStores WITH
    Stores <- {s1, s2}, Files <- {x1, x2}, Workers <- {x3, x4}, Embedders <- {e1, e2},
    Dimensions <- {2, 3}, MaxChunks <- 2, Capacity <- 3, Indexed <- FALSE, MaxIngests <- 3

Indexed == INSTANCE VectorStores WITH
    Stores <- {s1}, Files <- {x1, x2}, Workers <- {x3, x4}, Embedders <- {e1, e2},
    Dimensions <- {2, 3}, MaxChunks <- 2, Capacity <- 3, Indexed <- TRUE, MaxIngests <- 4

ASSUME
    /\ Chains!ConstantsOK /\ Shared!ConstantsOK /\ Edited!ConstantsOK
    /\ Portable!ConstantsOK /\ Indexed!ConstantsOK

Symmetry == Permutations({x1, x2, x3, x4})

chainVars == <<chainRow, chainTurn, deleted, lineage>>
convVars == <<conv, latest, lock, items, seq, convRow, convTurn, since>>
listVars == <<table, used, clock, walk, seen, stable>>
vectorVars == <<files, store, attached, mapped, vectors, work, cleaning, ingests>>

MCInit ==
    /\ part \in {"chain", "quiet", "shared", "edited", "lists", "portable", "indexed", "blobs"}
    /\ Init /\ Chains!Init /\ Lists!Init
    /\ IF part = "edited" THEN Edited!Init ELSE Shared!Init
    /\ IF part = "indexed" THEN Indexed!Init ELSE Portable!Init

MCNext ==
    /\ UNCHANGED part
    /\ \/ /\ \/ part = "chain" /\ Chains!Next
             \/ part = "quiet" /\ Chains!Next /\ Chains!QuietDelete
          /\ UNCHANGED <<vars, convVars, listVars, vectorVars>>
       \/ /\ \/ part = "shared" /\ Shared!Next
             \/ part = "edited" /\ Edited!Next
          /\ UNCHANGED <<vars, chainVars, listVars, vectorVars>>
       \/ part = "lists" /\ Lists!Next /\ UNCHANGED <<vars, chainVars, convVars, vectorVars>>
       \/ /\ \/ part = "portable" /\ Portable!Next
             \/ part = "indexed" /\ Indexed!Next
          /\ UNCHANGED <<vars, chainVars, convVars, listVars>>
       \/ part = "blobs" /\ Next /\ UNCHANGED <<chainVars, convVars, listVars, vectorVars>>

MCSpec == MCInit /\ [][MCNext]_<<part, vars, chainVars, convVars, listVars, vectorVars>>

-----------------------------------------------------------------------------
(* The properties of the other modules, of the part they are about. *)

(* While no deletion falls between a turn's read of its parent and its     *)
(* insert, a stored response keeps nothing of a deleted one (persist,      *)
(* delete_in_tx).                                                          *)
DeletedContextGone == part = "quiet" => Chains!NoDeletedContext

(* A stored response lists what its turn saw and added: its parent's       *)
(* history first, nothing of it lost while the chain lives, and nothing    *)
(* left of what was deleted (persist, delete_in_tx).                       *)
ChainSound == Chains!ChainSound /\ DeletedContextGone

(* Every item id a stored response lists has an item row, whatever became  *)
(* of the conversation: get_input_items and rehydrate can load it.         *)
HistoryResolvable == IF part = "edited" THEN Edited!HistoryResolvable ELSE Shared!HistoryResolvable

(* A response records the context its model was given, and nothing that    *)
(* was added to the conversation while it ran.                             *)
RecordsWhatItSaw == IF part = "edited" THEN Edited!RecordsWhatItSaw ELSE Shared!RecordsWhatItSaw

(* A turn that requires the latest turn and rehydrated one is stored right *)
(* after it (persist's comparison under the conversation's row lock).      *)
StoredRightAfterBase == IF part = "edited" THEN Edited!StoredRightAfterBase ELSE Shared!StoredRightAfterBase

(* An item joins a conversation strictly after every item that stays in    *)
(* it, whatever turns and API operations of several replicas run together. *)
AppendsAfter ==
    [][IF part = "edited" THEN Edited!AppendsAtEnd ELSE Shared!AppendsAtEnd]_convVars

(* The pages of a walk, put together, are in list order without repetition *)
(* while rows come and go between two requests (storage pagination).       *)
InOrder == Lists!InOrder

(* A walk that reached its end saw every row that was there throughout.    *)
NothingSkipped == Lists!NothingSkipped

(* Ingestions that raced with different answers of the embedding endpoint  *)
(* leave one dimension in a store (publication.rs).                        *)
OneDimension == IF part = "indexed" THEN Indexed!OneDimension ELSE Portable!OneDimension

(* No race of ingestions passes the capacity of a store.                   *)
WithinCapacity == IF part = "indexed" THEN Indexed!WithinCapacity ELSE Portable!WithinCapacity

(* Published chunks belong to a file and a store that exist.               *)
NothingDangling == IF part = "indexed" THEN Indexed!NothingDangling ELSE Portable!NothingDangling

(* Each chunk of a store with embeddings has its index row, whatever       *)
(* cleanup ran, failed or raced with a re-attachment (validate_index_rows). *)
IndexComplete == part = "indexed" => Indexed!IndexComplete

(* A conversation can be loaded, grows at its end only, and each response  *)
(* records the context it ran with (conversation and response stores).     *)
ConversationSound ==
    /\ [](/\ IF part = "edited" THEN Edited!TypeOK ELSE Shared!TypeOK
          /\ HistoryResolvable /\ RecordsWhatItSaw /\ StoredRightAfterBase)
    /\ AppendsAfter

(* A walk over a list that changes is in order, once, and complete for the *)
(* rows that stay.                                                         *)
WalksComplete == Lists!TypeOK /\ InOrder /\ NothingSkipped

(* File search never holds a chunk without its file, store and index row,  *)
(* and each store keeps one dimension and its capacity (file_search).      *)
FilesSound ==
    /\ IF part = "indexed" THEN Indexed!TypeOK ELSE Portable!TypeOK
    /\ OneDimension /\ WithinCapacity /\ NothingDangling /\ IndexComplete
=============================================================================
