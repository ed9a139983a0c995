----------------------------- MODULE FileBlobs -----------------------------
(***************************************************************************)
(* Uploaded files: a metadata row in SQL and the bytes in a blob store,    *)
(* two stores no transaction spans.  A durable cleanup marker is written   *)
(* before any bytes; the metadata row is published, and the marker removed,*)
(* in one transaction fenced by the marker's owner token; a deletion turns *)
(* the row back into a marker in one transaction.  Every replica sweeps    *)
(* expired markers and removes the bytes no row owns.                      *)
(*                                                                         *)
(* Several replicas run uploads, deletions and sweeps at once; any of them *)
(* may stop between two steps.  Time is relative: a marker keeps how far   *)
(* its lease is from expiry, a sweep how long ago it read its `now'.       *)
(***************************************************************************)
EXTENDS Integers, FiniteSets

CONSTANTS
    Files,        \* file ids; one upload mints each of them
    Replicas,     \* servers over one database and one blob directory
    Deleters,     \* concurrent DELETE /files/{id} requests
    Tokens,       \* owner tokens (UUIDs): enough that a fresh one always exists
    Lease,        \* UPLOAD_LEASE_SECONDS, in ticks
    MaxAge,       \* bound: ticks a sweep may take
    MaxFaults     \* bound: crashes, refused removals and lost commit answers

ConstantsOK ==
    /\ Lease \in Nat \ {0}
    /\ MaxAge \in Nat
    /\ MaxFaults \in Nat
    /\ IsFiniteSet(Files) /\ IsFiniteSet(Deleters) /\ IsFiniteSet(Replicas) /\ IsFiniteSet(Tokens)
    /\ Cardinality(Tokens) > 2 * Cardinality(Files) + Cardinality(Deleters) + Cardinality(Replicas)

ASSUME ConstantsAssumption == ConstantsOK

None == "none"
DeleteToken == "delete"

VARIABLES
    row,       \* file_search_files: file |-> TRUE once published
    marker,    \* file_search_blob_cleanup: file |-> None or the intent
    disk,      \* file |-> what the blob directory holds: "temp", "blob"
    up,        \* file |-> its upload task
    del,       \* deleter |-> its delete task
    sweep,     \* replica |-> its reconciliation pass
    faults     \* faults so far

vars == <<row, marker, disk, up, del, sweep, faults>>

Long == -MaxAge                     \* a lease that expired before any running sweep began

Intents == {"upload", "abandoned", "delete", "recovery"}
NoMarker == [intent |-> None, token |-> None, left |-> 0]
Markers == [intent : Intents, token : Tokens \cup {DeleteToken}, left : Long .. Lease]
UpPhases == {"new", "publishing", "linked", "published", "removing", "removed", "done", "dead"}
Uploads == [phase : UpPhases, at : Replicas \cup {None}, token : Tokens \cup {None},
            cancelled : BOOLEAN, expired : BOOLEAN]
DelPhases == {"idle", "live", "gone", "missing", "remove", "complete"}
Deletes == [phase : DelPhases, at : Replicas \cup {None}, file : Files \cup {None},
            token : Tokens \cup {DeleteToken, None}]
SweepPhases == {"idle", "batch", "claimed", "remove", "complete"}
Sweeps == [phase : SweepPhases, age : 0 .. MaxAge, batch : SUBSET Files,
           file : Files \cup {None}, token : Tokens \cup {None}]

IdleDelete == [phase |-> "idle", at |-> None, file |-> None, token |-> None]
IdleSweep == [phase |-> "idle", age |-> 0, batch |-> {}, file |-> None, token |-> None]

Init ==
    /\ row = [f \in Files |-> FALSE]
    /\ marker = [f \in Files |-> NoMarker]
    /\ disk = [f \in Files |-> {}]
    /\ up = [f \in Files |-> [phase |-> "new", at |-> None, token |-> None,
                              cancelled |-> FALSE, expired |-> FALSE]]
    /\ del = [d \in Deleters |-> IdleDelete]
    /\ sweep = [r \in Replicas |-> IdleSweep]
    /\ faults = 0

(* uuid::Uuid::now_v7: a token nobody holds. *)
UsedTokens ==
    {marker[f].token : f \in {g \in Files : marker[g] # NoMarker}}
      \cup {up[f].token : f \in Files}
      \cup {del[d].token : d \in Deleters}
      \cup {sweep[r].token : r \in Replicas}

FreshToken == CHOOSE t \in Tokens : t \notin UsedTokens

Owns(f, token) == marker[f] # NoMarker /\ marker[f].token = token

(* complete_blob_cleanup: a claimed upload keeps its tombstone. *)
Completed(f, token) ==
    IF Owns(f, token) /\ marker[f].intent # "abandoned"
    THEN [marker EXCEPT ![f] = NoMarker]
    ELSE marker

(***************************************************************************)
(* Upload: one task per file id, joined by the caller; the caller's going  *)
(* away only sets the cancellation token.                                  *)
(***************************************************************************)

(* The durable intent is staged before any byte is written. *)
StageUpload(r, f) ==
    /\ up[f].phase = "new"
    /\ LET t == FreshToken IN
       /\ up' = [up EXCEPT ![f] = [phase |-> "publishing", at |-> r, token |-> t,
                                   cancelled |-> FALSE, expired |-> FALSE]]
       /\ marker' = [marker EXCEPT ![f] = [intent |-> "upload", token |-> t, left |-> Lease]]
    /\ UNCHANGED <<row, disk, del, sweep, faults>>

(* The renewal tick of the select loop: another replica may own the intent. *)
RenewUpload(f) ==
    /\ up[f].phase \in {"publishing", "linked"}
    /\ ~up[f].expired
    /\ IF Owns(f, up[f].token) /\ marker[f].intent = "upload"
       THEN /\ marker' = [marker EXCEPT ![f].left = Lease]
            /\ UNCHANGED up
       ELSE /\ up' = [up EXCEPT ![f].cancelled = TRUE, ![f].expired = TRUE]
            /\ UNCHANGED marker
    /\ UNCHANGED <<row, disk, del, sweep, faults>>

(* The caller disconnects: the drop guard cancels the token. *)
CallerGone(f) ==
    /\ up[f].phase \in {"publishing", "linked", "published"}
    /\ ~up[f].cancelled
    /\ up' = [up EXCEPT ![f].cancelled = TRUE]
    /\ UNCHANGED <<row, marker, disk, del, sweep, faults>>

(* LocalFiles::publish, first half: the bytes go to a temporary name. *)
WriteTemporary(f) ==
    /\ up[f].phase = "publishing"
    /\ "temp" \notin disk[f]
    /\ disk' = [disk EXCEPT ![f] = @ \cup {"temp"}]
    /\ UNCHANGED <<row, marker, up, del, sweep, faults>>

(* Second half: a hard link creates the blob, then the temporary goes. *)
LinkBlob(f) ==
    /\ up[f].phase = "publishing"
    /\ ~up[f].cancelled
    /\ "temp" \in disk[f]
    /\ disk' = [disk EXCEPT ![f] = {"blob", "temp"}]
    /\ up' = [up EXCEPT ![f].phase = "linked"]
    /\ UNCHANGED <<row, marker, del, sweep, faults>>

(* publish returns.  An I/O error or a cancellation drops what it wrote,  *)
(* before or after the link; a lost lease turns a success into an error.  *)
PublishReturns(f) ==
    \/ /\ up[f].phase = "linked"
       /\ disk' = [disk EXCEPT ![f] = @ \ {"temp"}]
       /\ up' = [up EXCEPT ![f].phase = IF up[f].expired THEN "removing" ELSE "published"]
       /\ UNCHANGED <<row, marker, del, sweep, faults>>
    \/ /\ up[f].phase = "linked"
       /\ disk' = [disk EXCEPT ![f] = {}]
       /\ up' = [up EXCEPT ![f].phase = "removing"]
       /\ UNCHANGED <<row, marker, del, sweep, faults>>
    \/ /\ up[f].phase = "publishing"
       /\ disk' = [disk EXCEPT ![f] = @ \ {"temp"}]
       /\ up' = [up EXCEPT ![f].phase = "removing"]
       /\ UNCHANGED <<row, marker, del, sweep, faults>>

(* Mutant of PublishMetadata. *)
PublishUnfenced(f) ==
    /\ up[f].phase = "published"
    /\ IF ~up[f].cancelled
       THEN /\ row' = [row EXCEPT ![f] = TRUE]
            /\ marker' = [marker EXCEPT ![f] = NoMarker]
            /\ up' = [up EXCEPT ![f].phase = "done", ![f].token = None]
       ELSE /\ up' = [up EXCEPT ![f].phase = "removing"]
            /\ UNCHANGED <<row, marker>>
    /\ UNCHANGED <<disk, del, sweep, faults>>

(* FileSearchStorage::upload, one transaction: the intent is locked, the  *)
(* row inserted and the intent cleared, or nothing happens.               *)
PublishMetadata(f) ==
    /\ up[f].phase = "published"
    /\ IF ~up[f].cancelled /\ Owns(f, up[f].token) /\ marker[f].intent = "upload"
       THEN /\ row' = [row EXCEPT ![f] = TRUE]
            /\ marker' = [marker EXCEPT ![f] = NoMarker]
            /\ up' = [up EXCEPT ![f].phase = "done", ![f].token = None]
       ELSE /\ up' = [up EXCEPT ![f].phase = "removing"]
            /\ UNCHANGED <<row, marker>>
    /\ UNCHANGED <<disk, del, sweep, faults>>

(* The COMMIT is lost before it took effect: its answer is indeterminate, *)
(* so the task leaves the blob and the intent to the sweep.               *)
CommitLost(f) ==
    /\ up[f].phase = "published"
    /\ faults < MaxFaults
    /\ faults' = faults + 1
    /\ up' = [up EXCEPT ![f].phase = "dead", ![f].token = None]
    /\ UNCHANGED <<row, marker, disk, del, sweep>>

(* The failure path: the bytes first, then the intent. *)
RemoveFailedUpload(f) ==
    \/ /\ up[f].phase = "removing"
       /\ disk' = [disk EXCEPT ![f] = {}]
       /\ up' = [up EXCEPT ![f].phase = "removed"]
       /\ UNCHANGED <<row, marker, del, sweep, faults>>
    \/ /\ up[f].phase = "removed"
       /\ marker' = Completed(f, up[f].token)
       /\ up' = [up EXCEPT ![f].phase = "dead", ![f].token = None]
       /\ UNCHANGED <<row, disk, del, sweep, faults>>

(***************************************************************************)
(* Deletion: an owned task that outlives the caller.                       *)
(***************************************************************************)

(* The file is looked up. *)
StartDelete(d, r, f) ==
    /\ del[d].phase = "idle"
    /\ up[f].phase # "new"
    /\ del' = [del EXCEPT ![d] = [phase |-> IF row[f] THEN "live" ELSE "missing",
                                  at |-> r, file |-> f, token |-> None]]
    /\ UNCHANGED <<row, marker, disk, up, sweep, faults>>

(* Mutant of DeleteRow. *)
DeleteWithoutIntent(d) ==
    LET f == del[d].file IN
    /\ del[d].phase = "live"
    /\ row' = [row EXCEPT ![f] = FALSE]
    /\ del' = [del EXCEPT ![d] = IF row[f] THEN [@ EXCEPT !.phase = "gone"] ELSE IdleDelete]
    /\ UNCHANGED <<disk, up, sweep, faults, marker>>

(* FileSearchStorage::delete, one transaction: the row becomes a marker. *)
DeleteRow(d) ==
    LET f == del[d].file IN
    /\ del[d].phase = "live"
    /\ IF row[f]
       THEN /\ row' = [row EXCEPT ![f] = FALSE]
            /\ marker' = [marker EXCEPT ![f] =
                            [intent |-> "delete", token |-> DeleteToken, left |-> Long]]
            /\ del' = [del EXCEPT ![d].phase = "gone"]
       ELSE /\ del' = [del EXCEPT ![d] = IdleDelete]
            /\ UNCHANGED <<row, marker>>
    /\ UNCHANGED <<disk, up, sweep, faults>>

(* pending_blob_cleanup: a deletion already under way, or none.  Only the *)
(* task that deleted the row goes on without a marker.                    *)
ReadPending(d) ==
    LET f == del[d].file
        pending == marker[f] # NoMarker /\ marker[f].intent \in {"delete", "recovery"} IN
    /\ del[d].phase \in {"gone", "missing"}
    /\ del' = [del EXCEPT ![d] =
                 IF pending THEN [@ EXCEPT !.phase = "remove", !.token = marker[f].token]
                 ELSE IF del[d].phase = "gone" THEN [@ EXCEPT !.phase = "remove"]
                 ELSE IdleDelete]
    /\ UNCHANGED <<row, marker, disk, up, sweep, faults>>

(* The blob goes, then the marker the task read. *)
FinishDelete(d) ==
    \/ /\ del[d].phase = "remove"
       /\ disk' = [disk EXCEPT ![del[d].file] = {}]
       /\ del' = [del EXCEPT ![d].phase = "complete"]
       /\ UNCHANGED <<row, marker, up, sweep, faults>>
    \/ /\ del[d].phase = "complete"
       /\ marker' = Completed(del[d].file, del[d].token)
       /\ del' = [del EXCEPT ![d] = IdleDelete]
       /\ UNCHANGED <<row, disk, up, sweep, faults>>

(***************************************************************************)
(* reconcile_blob_cleanup: each replica's periodic pass.                   *)
(***************************************************************************)

(* lease_expires_at <= now, for the `now' the pass read age ticks ago. *)
Expired(f, age) == marker[f] # NoMarker /\ marker[f].left <= -age

(* A batch is every expired intent (LIMIT 100 is never reached here); the *)
(* pass ends when there is none.                                          *)
FetchBatch(r) ==
    LET found == {f \in Files : Expired(f, sweep[r].age)} IN
    /\ sweep[r].phase \in {"idle", "batch"}
    /\ sweep[r].batch = {}
    /\ sweep[r].phase = "idle" => found # {}
    /\ sweep' = [sweep EXCEPT ![r] =
                   IF found = {} THEN IdleSweep ELSE [@ EXCEPT !.phase = "batch", !.batch = found]]
    /\ UNCHANGED <<row, marker, disk, up, del, faults>>

(* claim_blob_cleanup fences the old owner; an id another replica claimed *)
(* since the batch was read is skipped.                                   *)
Claim(r, f) ==
    /\ sweep[r].phase = "batch"
    /\ f \in sweep[r].batch
    /\ IF Expired(f, sweep[r].age)
       THEN LET t == FreshToken
                left == IF marker[f].intent \in {"upload", "abandoned"} THEN "abandoned" ELSE "recovery" IN
            /\ marker' = [marker EXCEPT ![f] = [intent |-> left, token |-> t, left |-> Lease]]
            /\ sweep' = [sweep EXCEPT ![r].phase = "claimed", ![r].file = f, ![r].token = t,
                                      ![r].batch = @ \ {f}]
       ELSE /\ sweep' = [sweep EXCEPT ![r].batch = @ \ {f}]
            /\ UNCHANGED marker
    /\ UNCHANGED <<row, disk, up, del, faults>>

(* A live row owns its blob; otherwise the bytes go; then the intent. *)
SweepFile(r) ==
    LET f == sweep[r].file IN
    \/ /\ sweep[r].phase = "claimed"
       /\ sweep' = [sweep EXCEPT ![r].phase = IF row[f] THEN "complete" ELSE "remove"]
       /\ UNCHANGED <<row, marker, disk, up, del, faults>>
    \/ /\ sweep[r].phase = "remove"
       /\ disk' = [disk EXCEPT ![f] = {}]
       /\ sweep' = [sweep EXCEPT ![r].phase = "complete"]
       /\ UNCHANGED <<row, marker, up, del, faults>>
    \/ /\ sweep[r].phase = "complete"
       /\ marker' = Completed(f, sweep[r].token)
       /\ sweep' = [sweep EXCEPT ![r].phase = "batch", ![r].file = None, ![r].token = None]
       /\ UNCHANGED <<row, disk, up, del, faults>>

(***************************************************************************)
(* Faults and time                                                         *)
(***************************************************************************)

(* FileBlobStore::remove is refused: the task returns the error and the   *)
(* intent stays for a later pass.                                          *)
RemoveRefused ==
    /\ faults < MaxFaults
    /\ faults' = faults + 1
    /\ \/ \E f \in Files :
            /\ up[f].phase = "removing"
            /\ up' = [up EXCEPT ![f].phase = "dead", ![f].token = None]
            /\ UNCHANGED <<del, sweep>>
       \/ \E d \in Deleters :
            /\ del[d].phase = "remove"
            /\ del' = [del EXCEPT ![d] = IdleDelete]
            /\ UNCHANGED <<up, sweep>>
       \/ \E r \in Replicas :
            /\ sweep[r].phase = "remove"
            /\ sweep' = [sweep EXCEPT ![r] = IdleSweep]
            /\ UNCHANGED <<up, del>>
    /\ UNCHANGED <<row, marker, disk>>

(* A replica stops: all its tasks end where they are; the database and the *)
(* blob directory stay.                                                    *)
Crash(r) ==
    /\ faults < MaxFaults
    /\ faults' = faults + 1
    /\ up' = [f \in Files |-> IF up[f].at = r /\ up[f].phase # "done"
                              THEN [up[f] EXCEPT !.phase = "dead", !.token = None] ELSE up[f]]
    /\ del' = [d \in Deleters |-> IF del[d].at = r THEN IdleDelete ELSE del[d]]
    /\ sweep' = [sweep EXCEPT ![r] = IdleSweep]
    /\ UNCHANGED <<row, marker, disk>>

Tick ==
    /\ \A r \in Replicas : sweep[r].phase # "idle" => sweep[r].age < MaxAge
    /\ \/ \E r \in Replicas : sweep[r].phase # "idle"
       \/ \E f \in Files : marker[f] # NoMarker /\ marker[f].left > Long
    /\ marker' = [f \in Files |->
                    IF marker[f] = NoMarker THEN NoMarker
                    ELSE [marker[f] EXCEPT !.left = IF @ = Long THEN Long ELSE @ - 1]]
    /\ sweep' = [r \in Replicas |->
                   IF sweep[r].phase = "idle" THEN sweep[r] ELSE [sweep[r] EXCEPT !.age = @ + 1]]
    /\ UNCHANGED <<row, disk, up, del, faults>>

UploadSteps(f) ==
    \/ RenewUpload(f) \/ WriteTemporary(f) \/ LinkBlob(f) \/ PublishReturns(f)
    \/ PublishMetadata(f) \/ CommitLost(f) \/ RemoveFailedUpload(f)

DeleteSteps(d) == DeleteRow(d) \/ ReadPending(d) \/ FinishDelete(d)

SweepSteps(r) == FetchBatch(r) \/ (\E f \in Files : Claim(r, f)) \/ SweepFile(r)

Next ==
    \/ \E r \in Replicas, f \in Files : StageUpload(r, f)
    \/ \E f \in Files : UploadSteps(f) \/ CallerGone(f)
    \/ \E d \in Deleters, r \in Replicas, f \in Files : StartDelete(d, r, f)
    \/ \E d \in Deleters : DeleteSteps(d)
    \/ \E r \in Replicas : SweepSteps(r) \/ Crash(r)
    \/ RemoveRefused
    \/ Tick

(* The server's cleanup interval keeps starting passes, time passes, and a *)
(* spawned task runs to its end unless its process stops.                  *)
Fairness ==
    /\ \A r \in Replicas : WF_vars(SweepSteps(r))
    /\ WF_vars(Tick)

Spec == Init /\ [][Next]_vars
FairSpec == Spec /\ Fairness

----------------------------------------------------------------------------
(* Every variable stays in its range. *)
TypeOK ==
    /\ row \in [Files -> BOOLEAN]
    /\ marker \in [Files -> Markers \cup {NoMarker}]
    /\ disk \in [Files -> SUBSET {"temp", "blob"}]
    /\ up \in [Files -> Uploads]
    /\ del \in [Deleters -> Deletes]
    /\ sweep \in [Replicas -> Sweeps]
    /\ faults \in 0 .. MaxFaults

(* A file the API lists can be read: no sweep, failed upload or deletion of *)
(* any replica removes the bytes of a published row.                        *)
RowHasBlob == \A f \in Files : row[f] => "blob" \in disk[f]

(* Bytes are never orphaned: whatever stops where, a row or a durable       *)
(* intent still names them.                                                 *)
BytesAccounted == \A f \in Files : disk[f] # {} => row[f] \/ marker[f] # NoMarker

(* A published file can be read, and no bytes are orphaned (blob_cleanup). *)
BlobsSound == TypeOK /\ RowHasBlob /\ BytesAccounted

(* Bytes without a row do not stay: an upload that failed, was abandoned or *)
(* lost its process, or a deletion cut short, is swept.  (An upload whose   *)
(* publisher still runs may be republishing them.)                          *)
OrphansSwept ==
    \A f \in Files :
        (disk[f] # {} /\ ~row[f] /\ up[f].phase \in {"done", "dead"}) ~> (disk[f] = {})
============================================================================
