-------------------------- MODULE FileBlobsProofs ---------------------------
(***************************************************************************)
(* Proofs about FileBlobs for every set of files, replicas and deletion    *)
(* requests, every lease and every number of faults: a listed file has its *)
(* bytes, and no bytes are without a row or a durable intent.              *)
(***************************************************************************)
EXTENDS FileBlobs, FiniteSetTheorems, TLAPS

-----------------------------------------------------------------------------
(* The inductive invariant *)

(* The file's row will never be published (again): its only upload ended   *)
(* with the row, or the intent that upload needs was taken from it.        *)
Buried(f) == ~row[f] /\ (up[f].phase = "done" \/ marker[f].intent = "abandoned")

(* An upload that has staged its intent and may still touch the bytes.     *)
Uploading == {"publishing", "linked", "published", "removing", "removed"}

(* A published row has its bytes and no intent; an upload in progress and  *)
(* what it left on the disk are named by one.                              *)
FileOK(f) ==
    /\ row[f] => "blob" \in disk[f] /\ up[f].phase = "done" /\ marker[f] = NoMarker
    /\ disk[f] # {} => row[f] \/ marker[f] # NoMarker
    /\ up[f].phase = "new" => marker[f] = NoMarker
    /\ up[f].phase \in Uploading => marker[f] # NoMarker
    /\ up[f].phase \in {"linked", "published"} =>
         "blob" \in disk[f] \/ marker[f].intent = "abandoned"
    /\ up[f].phase = "removed" => disk[f] = {}
    /\ marker[f].intent \in {"delete", "recovery"} => up[f].phase = "done"

(* A deletion removes the bytes only of a file that had its row and lost   *)
(* it, and its marker only when the bytes are gone.                        *)
DeleteOK(d) ==
    /\ del[d].phase # "idle" => del[d].file \in Files
    /\ del[d].phase \in {"gone", "remove", "complete"} =>
         ~row[del[d].file] /\ up[del[d].file].phase = "done"
    /\ del[d].phase = "complete" => disk[del[d].file] = {}

(* A pass that claimed a file has fenced its upload off, and gives up the  *)
(* intent of a file that was published only when the bytes are gone.       *)
SweepOK(r) ==
    /\ sweep[r].phase \in {"claimed", "remove", "complete"} =>
         sweep[r].file \in Files /\ Buried(sweep[r].file)
    /\ sweep[r].phase = "complete" =>
         marker[sweep[r].file].intent = "abandoned" \/ disk[sweep[r].file] = {}

IInv ==
    /\ TypeOK
    /\ \A f \in Files : FileOK(f)
    /\ \A d \in Deleters : DeleteOK(d)
    /\ \A r \in Replicas : SweepOK(r)

-----------------------------------------------------------------------------
(* Types *)

(* The union of two finite sets has at most as many members as both.       *)
LEMMA Together ==
    ASSUME NEW S, NEW T, IsFiniteSet(S), IsFiniteSet(T)
    PROVE  /\ IsFiniteSet(S \cup T)
           /\ Cardinality(S \cup T) <= Cardinality(S) + Cardinality(T)
<1>1. IsFiniteSet(S \cup T) /\ IsFiniteSet(S \cap T)
  BY FS_Union, FS_Intersection
<1>2. Cardinality(S \cup T) = Cardinality(S) + Cardinality(T) - Cardinality(S \cap T)
  BY FS_Union
<1>3. {Cardinality(S), Cardinality(T), Cardinality(S \cap T),
        Cardinality(S \cup T)} \subseteq Nat
  BY <1>1, FS_CardinalityType
<1> QED BY <1>1, <1>2, <1>3

(* There are always more tokens than the tasks and intents hold.           *)
LEMMA FreshExists == FreshToken \in Tokens
<1> DEFINE A == {f \in Files : marker[f] # NoMarker}
           TA == {marker[f].token : f \in A}
           TU == {up[f].token : f \in Files}
           TD == {del[d].token : d \in Deleters}
           TS == {sweep[r].token : r \in Replicas}
<1>1. IsFiniteSet(Files) /\ IsFiniteSet(Deleters) /\ IsFiniteSet(Replicas) /\
        IsFiniteSet(Tokens)
  BY ConstantsAssumption DEF ConstantsOK
<1>2. IsFiniteSet(A) /\ Cardinality(A) <= Cardinality(Files)
  BY <1>1, FS_Subset
<1>3. IsFiniteSet(TA) /\ Cardinality(TA) <= Cardinality(A)
  <2> DEFINE g == [f \in A |-> marker[f].token]
  <2>1. g \in Surjection(A, TA)
    BY DEF Surjection
  <2> QED BY <1>2, <2>1, FS_Surjection
<1>4. IsFiniteSet(TU) /\ Cardinality(TU) <= Cardinality(Files)
  <2> DEFINE g == [f \in Files |-> up[f].token]
  <2>1. g \in Surjection(Files, TU)
    BY DEF Surjection
  <2> QED BY <1>1, <2>1, FS_Surjection
<1>5. IsFiniteSet(TD) /\ Cardinality(TD) <= Cardinality(Deleters)
  <2> DEFINE g == [d \in Deleters |-> del[d].token]
  <2>1. g \in Surjection(Deleters, TD)
    BY DEF Surjection
  <2> QED BY <1>1, <2>1, FS_Surjection
<1>6. IsFiniteSet(TS) /\ Cardinality(TS) <= Cardinality(Replicas)
  <2> DEFINE g == [r \in Replicas |-> sweep[r].token]
  <2>1. g \in Surjection(Replicas, TS)
    BY DEF Surjection
  <2> QED BY <1>1, <2>1, FS_Surjection
<1>7. UsedTokens = TA \cup TU \cup TD \cup TS
  BY DEF UsedTokens
<1> HIDE DEF A, TA, TU, TD, TS
<1>8. /\ IsFiniteSet(TA \cup TU)
      /\ Cardinality(TA \cup TU) <= Cardinality(TA) + Cardinality(TU)
  BY <1>3, <1>4, Together
<1>9. /\ IsFiniteSet((TA \cup TU) \cup TD)
      /\ Cardinality((TA \cup TU) \cup TD) <= Cardinality(TA \cup TU) + Cardinality(TD)
  BY <1>5, <1>8, Together
<1>10. /\ IsFiniteSet(UsedTokens)
       /\ Cardinality(UsedTokens) <= Cardinality((TA \cup TU) \cup TD) + Cardinality(TS)
  BY <1>6, <1>7, <1>9, Together
<1>11. {Cardinality(A), Cardinality(TA), Cardinality(TU), Cardinality(TD), Cardinality(TS),
        Cardinality(TA \cup TU), Cardinality((TA \cup TU) \cup TD), Cardinality(UsedTokens),
        Cardinality(Files), Cardinality(Deleters), Cardinality(Replicas),
        Cardinality(Tokens)} \subseteq Nat
  BY <1>1, <1>2, <1>3, <1>4, <1>5, <1>6, <1>8, <1>9, <1>10, FS_CardinalityType
<1>12. Cardinality(UsedTokens) <=
         2 * Cardinality(Files) + Cardinality(Deleters) + Cardinality(Replicas)
  BY <1>2, <1>3, <1>4, <1>5, <1>6, <1>8, <1>9, <1>10, <1>11
<1>13. ~(Tokens \subseteq UsedTokens)
  <2> SUFFICES ASSUME Tokens \subseteq UsedTokens PROVE FALSE
    OBVIOUS
  <2>1. Cardinality(Tokens) <= Cardinality(UsedTokens)
    BY <1>10, FS_Subset
  <2> QED BY <1>11, <1>12, <2>1, ConstantsAssumption DEF ConstantsOK
<1> QED BY <1>13 DEF FreshToken

(* How tasks move on.                                                      *)
UpTo(f, ph) == [up EXCEPT ![f].phase = ph]
UpEnds(f, ph) == [up EXCEPT ![f].phase = ph, ![f].token = None]
DelTo(d, ph) == [del EXCEPT ![d].phase = ph]
DelTakes(d, ph, t) == [del EXCEPT ![d].phase = ph, ![d].token = t]
SweepTo(r, ph) == [sweep EXCEPT ![r].phase = ph]
SweepLeaves(r, ph, S) == [sweep EXCEPT ![r].phase = ph, ![r].batch = S]
SweepTakes(r, ph, S, g, t) ==
    [sweep EXCEPT ![r].phase = ph, ![r].batch = S, ![r].file = g, ![r].token = t]

(* Every step keeps every variable in its range.                           *)
LEMMA TypeStep == IInv /\ [Next]_vars => TypeOK'
<1> SUFFICES ASSUME TypeOK, \A d \in Deleters : DeleteOK(d), [Next]_vars PROVE TypeOK'
  BY DEF IInv
<1>k. /\ FreshToken \in Tokens /\ Lease \in Nat \ {0} /\ MaxAge \in Nat /\ MaxFaults \in Nat
      /\ Lease \in Long .. Lease /\ Long \in Long .. Lease
  BY FreshExists, ConstantsAssumption DEF ConstantsOK, Long
<1>n. NoMarker.intent = "none" /\ NoMarker \notin Markers
  BY DEF NoMarker, Markers, Intents, None
<1>i. IdleDelete \in Deletes /\ IdleSweep \in Sweeps
  BY <1>k DEF IdleDelete, IdleSweep, Deletes, Sweeps, DelPhases, SweepPhases, None
<1>e. ASSUME NEW f, NEW t
      PROVE  Completed(f, t) \in [Files -> Markers \cup {NoMarker}]
  BY DEF Completed, TypeOK
<1>1. ASSUME NEW r \in Replicas, NEW f \in Files, StageUpload(r, f) PROVE TypeOK'
  BY <1>1, <1>k DEF StageUpload, TypeOK, Uploads, Markers, Intents, UpPhases, None
<1>2. ASSUME NEW f \in Files, RenewUpload(f) PROVE TypeOK'
  <2>1. up[f] \in Uploads /\ up \in [Files -> Uploads]
    BY DEF TypeOK
  <2>2. [up[f] EXCEPT !.cancelled = TRUE, !.expired = TRUE] \in Uploads
    BY <2>1 DEF Uploads
  <2>3. up' = up \/ up' = [up EXCEPT ![f] = [up[f] EXCEPT !.cancelled = TRUE,
          !.expired = TRUE]]
    BY <1>2, <2>1 DEF RenewUpload
  <2>4. up' \in [Files -> Uploads]
    BY <2>1, <2>2, <2>3
  <2>5. marker' \in [Files -> Markers \cup {NoMarker}]
    <3>1. CASE Owns(f, up[f].token) /\ marker[f].intent = "upload"
      <4>1. marker[f] \in Markers
        BY <3>1 DEF Owns, TypeOK
      <4>2. [marker[f] EXCEPT !.left = Lease] \in Markers
        BY <1>k, <4>1 DEF Markers
      <4>3. marker' = [marker EXCEPT ![f] = [marker[f] EXCEPT !.left = Lease]]
        BY <1>2, <3>1 DEF RenewUpload
      <4> QED BY <4>2, <4>3 DEF TypeOK
    <3>2. CASE ~(Owns(f, up[f].token) /\ marker[f].intent = "upload")
      BY <1>2, <3>2 DEF RenewUpload, TypeOK
    <3> QED BY <3>1, <3>2
  <2> QED BY <1>2, <2>4, <2>5 DEF RenewUpload, TypeOK
<1>3. ASSUME NEW f \in Files, CallerGone(f) PROVE TypeOK'
  <2>1. up[f] \in Uploads /\ up \in [Files -> Uploads]
    BY DEF TypeOK
  <2>2. [up[f] EXCEPT !.cancelled = TRUE] \in Uploads
    BY <2>1 DEF Uploads
  <2>3. up' = [up EXCEPT ![f] = [up[f] EXCEPT !.cancelled = TRUE]]
    BY <1>3, <2>1 DEF CallerGone
  <2> QED BY <1>3, <2>1, <2>2, <2>3 DEF CallerGone, TypeOK
<1>u. ASSUME NEW f \in Files, NEW ph \in UpPhases
      PROVE  /\ UpTo(f, ph) \in [Files -> Uploads]
             /\ UpEnds(f, ph) \in [Files -> Uploads]
  <2>1. up[f] \in Uploads /\ up \in [Files -> Uploads]
    BY DEF TypeOK
  <2>2. /\ [up[f] EXCEPT !.phase = ph] \in Uploads
        /\ [up[f] EXCEPT !.phase = ph, !.token = None] \in Uploads
    BY <2>1 DEF Uploads
  <2>3. /\ UpTo(f, ph) = [up EXCEPT ![f] = [up[f] EXCEPT !.phase = ph]]
        /\ UpEnds(f, ph) = [up EXCEPT ![f] = [up[f] EXCEPT !.phase = ph, !.token = None]]
    BY <2>1 DEF UpTo, UpEnds
  <2> QED BY <2>1, <2>2, <2>3
<1>f. faults < MaxFaults => faults + 1 \in 0 .. MaxFaults
  BY <1>k DEF TypeOK
<1>d. ASSUME NEW f \in Files, NEW D \in SUBSET {"temp", "blob"}
      PROVE  [disk EXCEPT ![f] = D] \in [Files -> SUBSET {"temp", "blob"}]
  BY DEF TypeOK
<1>c. disk \in [Files -> SUBSET {"temp", "blob"}] /\ up \in [Files -> Uploads]
  BY DEF TypeOK
<1>4. ASSUME NEW f \in Files, WriteTemporary(f) \/ LinkBlob(f) \/ PublishReturns(f)
      PROVE  TypeOK'
  <2>1. /\ {"publishing", "linked", "published", "removing"} \subseteq UpPhases
        /\ disk[f] \cup {"temp"} \in SUBSET {"temp", "blob"}
        /\ disk[f] \ {"temp"} \in SUBSET {"temp", "blob"}
        /\ {"blob", "temp"} \in SUBSET {"temp", "blob"} /\ {} \in SUBSET {"temp", "blob"}
    BY <1>c DEF UpPhases
  <2>2. disk' \in [Files -> SUBSET {"temp", "blob"}] /\ up' \in [Files -> Uploads]
    <3>1. CASE WriteTemporary(f)
      BY <1>c, <1>d, <2>1, <3>1 DEF WriteTemporary
    <3>2. CASE LinkBlob(f)
      <4>1. up' = UpTo(f, "linked") /\ disk' = [disk EXCEPT ![f] = {"blob", "temp"}]
        BY <3>2 DEF LinkBlob, UpTo
      <4> QED BY <1>d, <1>u, <2>1, <4>1
    <3>3. CASE PublishReturns(f)
      <4>1. \E D \in SUBSET {"temp", "blob"} : disk' = [disk EXCEPT ![f] = D]
        BY <2>1, <3>3 DEF PublishReturns
      <4>2. \/ up' = UpTo(f, "removing")
            \/ up' = UpTo(f, "published")
        BY <3>3 DEF PublishReturns, UpTo
      <4>3. up' \in [Files -> Uploads]
        BY <1>u, <2>1, <4>2
      <4> QED BY <1>d, <4>1, <4>3
    <3> QED BY <1>4, <3>1, <3>2, <3>3
  <2>3. UNCHANGED <<row, marker, del, sweep, faults>>
    BY <1>4 DEF WriteTemporary, LinkBlob, PublishReturns
  <2> QED BY <2>2, <2>3 DEF TypeOK
<1>5. ASSUME NEW f \in Files, PublishMetadata(f) \/ CommitLost(f) PROVE TypeOK'
  <2>1. {"removing", "done", "dead"} \subseteq UpPhases
    BY DEF UpPhases
  <2>2. up' \in [Files -> Uploads]
    <3>1. \/ up' = UpEnds(f, "done")
          \/ up' = UpEnds(f, "dead")
          \/ up' = UpTo(f, "removing")
      BY <1>5 DEF PublishMetadata, CommitLost, UpTo, UpEnds
    <3> QED BY <1>u, <2>1, <3>1
  <2>3. row' \in [Files -> BOOLEAN] /\ marker' \in [Files -> Markers \cup {NoMarker}]
    <3>1. /\ row' = row \/ row' = [row EXCEPT ![f] = TRUE]
          /\ marker' = marker \/ marker' = [marker EXCEPT ![f] = NoMarker]
      BY <1>5 DEF PublishMetadata, CommitLost
    <3> QED BY <3>1 DEF TypeOK
  <2>5. faults' \in 0 .. MaxFaults
    BY <1>5, <1>f DEF PublishMetadata, CommitLost, TypeOK
  <2>4. UNCHANGED <<disk, del, sweep>>
    BY <1>5 DEF PublishMetadata, CommitLost
  <2> QED BY <2>2, <2>3, <2>4, <2>5 DEF TypeOK
<1>6. ASSUME NEW f \in Files, RemoveFailedUpload(f) PROVE TypeOK'
  <2>1. {"removed", "dead"} \subseteq UpPhases /\ {} \in SUBSET {"temp", "blob"}
    BY DEF UpPhases
  <2>2. up' \in [Files -> Uploads]
    <3>1. \/ up' = UpTo(f, "removed")
          \/ up' = UpEnds(f, "dead")
      BY <1>6 DEF RemoveFailedUpload, UpTo, UpEnds
    <3> QED BY <1>u, <2>1, <3>1
  <2>3. /\ disk' \in [Files -> SUBSET {"temp", "blob"}]
        /\ marker' \in [Files -> Markers \cup {NoMarker}]
    BY <1>6, <1>c, <1>d, <1>e, <2>1 DEF RemoveFailedUpload, TypeOK
  <2>4. UNCHANGED <<row, del, sweep, faults>>
    BY <1>6 DEF RemoveFailedUpload
  <2> QED BY <2>2, <2>3, <2>4 DEF TypeOK
<1>7. ASSUME NEW d \in Deleters, NEW r \in Replicas, NEW f \in Files, StartDelete(d, r, f)
      PROVE  TypeOK'
  BY <1>7 DEF StartDelete, TypeOK, Deletes, DelPhases
<1>8. ASSUME NEW d \in Deleters, DeleteSteps(d) PROVE TypeOK'
  <2>p. {"gone", "remove", "complete"} \subseteq DelPhases /\ del \in [Deleters -> Deletes]
    BY DEF DelPhases, TypeOK
  <2>q. [del EXCEPT ![d] = IdleDelete] \in [Deleters -> Deletes]
    BY <1>i DEF TypeOK
  <2>r. ASSUME NEW ph \in DelPhases, NEW t \in Tokens \cup {DeleteToken, None}
        PROVE  DelTo(d, ph) \in [Deleters -> Deletes] /\
                 DelTakes(d, ph, t) \in [Deleters -> Deletes]
    <3>1. del[d] \in Deletes
      BY <2>p
    <3>2. /\ [del[d] EXCEPT !.phase = ph] \in Deletes
          /\ [del[d] EXCEPT !.phase = ph, !.token = t] \in Deletes
      BY <3>1 DEF Deletes
    <3>3. /\ DelTo(d, ph) = [del EXCEPT ![d] = [del[d] EXCEPT !.phase = ph]]
          /\ DelTakes(d, ph, t) = [del EXCEPT ![d] = [del[d] EXCEPT !.phase = ph, !.token = t]]
      BY <2>p DEF DelTo, DelTakes
    <3> QED BY <2>p, <3>2, <3>3
  <2>1. CASE DeleteRow(d)
    <3>1. [intent |-> "delete", token |-> DeleteToken, left |-> Long] \in Markers
      BY <1>k DEF Markers, Intents
    <3>2. row' \in [Files -> BOOLEAN] /\ marker' \in [Files -> Markers \cup {NoMarker}]
      BY <2>1, <3>1 DEF DeleteRow, TypeOK
    <3>3. del' \in [Deleters -> Deletes]
      <4>1. \/ del' = DelTo(d, "gone")
            \/ del' = [del EXCEPT ![d] = IdleDelete]
        BY <2>1 DEF DeleteRow, DelTo
      <4> QED BY <2>p, <2>q, <2>r, <4>1
    <3> QED BY <2>1, <3>2, <3>3 DEF DeleteRow, TypeOK
  <2>2. CASE ReadPending(d)
    <3> DEFINE m == marker[del[d].file]
    <3>0. del[d].file \in Files
      BY <2>2 DEF ReadPending, DeleteOK
    <3>1. m # NoMarker => m.token \in Tokens \cup {DeleteToken, None}
      BY <3>0 DEF TypeOK, Markers
    <3>2. del' \in [Deleters -> Deletes]
      <4>1. \/ m # NoMarker /\ del' = DelTakes(d, "remove", m.token)
            \/ del' = DelTo(d, "remove")
            \/ del' = [del EXCEPT ![d] = IdleDelete]
        BY <2>2, <2>p DEF ReadPending, DelTakes, DelTo
      <4>2. CASE del' = DelTo(d, "remove") \/ del' = [del EXCEPT ![d] = IdleDelete]
        BY <2>p, <2>q, <2>r, <4>2
      <4>3. CASE m # NoMarker /\ del' = DelTakes(d, "remove", m.token)
        <5>1. "remove" \in DelPhases /\ m.token \in Tokens \cup {DeleteToken, None}
          BY <2>p, <3>1, <4>3
        <5> HIDE DEF m
        <5> QED BY <2>r, <4>3, <5>1
      <4> QED BY <4>1, <4>2, <4>3
    <3> QED BY <2>2, <3>2 DEF ReadPending, TypeOK
  <2>3. CASE FinishDelete(d)
    <3>1. del' \in [Deleters -> Deletes]
      <4>1. del' = DelTo(d, "complete") \/ del' = [del EXCEPT ![d] = IdleDelete]
        BY <2>3 DEF FinishDelete, DelTo
      <4> QED BY <2>p, <2>q, <2>r, <4>1
    <3>2. disk' \in [Files -> SUBSET {"temp", "blob"}]
      BY <2>3, <1>c DEF FinishDelete
    <3>3. marker' \in [Files -> Markers \cup {NoMarker}]
      BY <2>3, <1>e DEF FinishDelete, TypeOK
    <3> QED BY <2>3, <3>1, <3>2, <3>3 DEF FinishDelete, TypeOK
  <2> QED BY <1>8, <2>1, <2>2, <2>3 DEF DeleteSteps
<1>9. ASSUME NEW r \in Replicas, SweepSteps(r) PROVE TypeOK'
  <2>p. /\ {"idle", "batch", "claimed", "remove", "complete"} = SweepPhases
        /\ sweep \in [Replicas -> Sweeps] /\ sweep[r] \in Sweeps
    BY DEF SweepPhases, TypeOK
  <2>r. ASSUME NEW ph \in SweepPhases, NEW S \in SUBSET Files, NEW g \in Files \cup {None},
               NEW t \in Tokens \cup {None}
        PROVE  /\ SweepTo(r, ph) \in [Replicas -> Sweeps]
               /\ SweepLeaves(r, ph, S) \in [Replicas -> Sweeps]
               /\ SweepTakes(r, ph, S, g, t) \in [Replicas -> Sweeps]
    BY <2>p DEF Sweeps, SweepTo, SweepLeaves, SweepTakes
  <2>1. CASE FetchBatch(r)
    <3> DEFINE S == {f \in Files : Expired(f, sweep[r].age)}
    <3>1. sweep' \in [Replicas -> Sweeps]
      <4>1. sweep' = [sweep EXCEPT ![r] = IdleSweep] \/ sweep' = SweepLeaves(r, "batch", S)
        BY <2>1, <2>p DEF FetchBatch, SweepLeaves
      <4>2. CASE sweep' = SweepLeaves(r, "batch", S)
        <5>1. "batch" \in SweepPhases /\ S \in SUBSET Files
          BY <2>p
        <5> HIDE DEF S
        <5> QED BY <2>r, <4>2, <5>1
      <4>3. CASE sweep' = [sweep EXCEPT ![r] = IdleSweep]
        BY <1>i, <2>p, <4>3
      <4> QED BY <4>1, <4>2, <4>3
    <3> QED BY <2>1, <3>1 DEF FetchBatch, TypeOK
  <2>2. ASSUME NEW f \in Files, Claim(r, f) PROVE TypeOK'
    <3>1. ASSUME NEW i \in {"abandoned", "recovery"}
          PROVE  [intent |-> i, token |-> FreshToken, left |-> Lease] \in Markers
      BY <1>k DEF Markers, Intents
    <3>2. marker' \in [Files -> Markers \cup {NoMarker}]
      BY <2>2, <3>1 DEF Claim, TypeOK
    <3>3. sweep[r].batch \ {f} \in SUBSET Files /\ f \in Files \cup {None}
      BY <2>p DEF Sweeps
    <3>4. sweep' \in [Replicas -> Sweeps]
      <4> DEFINE S == sweep[r].batch \ {f}
      <4>1. \/ sweep' = SweepTakes(r, "claimed", S, f, FreshToken)
            \/ sweep' = SweepLeaves(r, "batch", S)
        <5>1. CASE Expired(f, sweep[r].age)
          <6>1. sweep' = [sweep EXCEPT ![r].phase = "claimed", ![r].file = f,
                                       ![r].token = FreshToken, ![r].batch = S]
            BY <2>2, <2>p, <5>1 DEF Claim
          <6> HIDE DEF S
          <6> QED BY <2>p, <6>1 DEF SweepTakes
        <5>2. CASE ~Expired(f, sweep[r].age)
          BY <2>2, <2>p, <5>2 DEF Claim, SweepLeaves
        <5> QED BY <5>1, <5>2
      <4>2. {"claimed", "batch"} \subseteq SweepPhases /\ FreshToken \in Tokens \cup {None}
        BY <1>k, <2>p
      <4>3. S \in SUBSET Files
        BY <3>3
      <4> HIDE DEF S
      <4>4. /\ SweepTakes(r, "claimed", S, f, FreshToken) \in [Replicas -> Sweeps]
            /\ SweepLeaves(r, "batch", S) \in [Replicas -> Sweeps]
        BY <2>r, <3>3, <4>2, <4>3
      <4> QED BY <4>1, <4>4
    <3> QED BY <2>2, <3>2, <3>4 DEF Claim, TypeOK
  <2>3. CASE SweepFile(r)
    <3>1. sweep' \in [Replicas -> Sweeps]
      <4>1. \/ sweep' = SweepTo(r, "remove")
            \/ sweep' = SweepTo(r, "complete")
            \/ sweep' = SweepTakes(r, "batch", sweep[r].batch, None, None)
        <5>1. SweepTakes(r, "batch", sweep[r].batch, None, None) =
                [sweep EXCEPT ![r].phase = "batch", ![r].file = None, ![r].token = None]
          BY <2>p DEF SweepTakes, Sweeps
        <5> QED BY <2>3, <5>1 DEF SweepFile, SweepTo
      <4>2. {"remove", "complete", "batch"} \subseteq SweepPhases /\
              sweep[r].batch \in SUBSET Files
        BY <2>p DEF Sweeps
      <4>3. SweepTakes(r, "batch", sweep[r].batch, None, None) \in [Replicas -> Sweeps]
        BY <2>r, <4>2
      <4> QED BY <2>r, <4>1, <4>2, <4>3
    <3>2. disk' \in [Files -> SUBSET {"temp", "blob"}]
      BY <2>3, <1>c DEF SweepFile
    <3>3. marker' \in [Files -> Markers \cup {NoMarker}]
      BY <2>3, <1>e DEF SweepFile, TypeOK
    <3> QED BY <2>3, <3>1, <3>2, <3>3 DEF SweepFile, TypeOK
  <2> QED BY <1>9, <2>1, <2>2, <2>3 DEF SweepSteps
<1>10. ASSUME NEW r \in Replicas, Crash(r) PROVE TypeOK'
  <2>1. ASSUME NEW f \in Files PROVE [up[f] EXCEPT !.phase = "dead",
                 !.token = None] \in Uploads
    <3>1. up[f] \in Uploads /\ "dead" \in UpPhases
      BY DEF TypeOK, UpPhases
    <3> QED BY <3>1 DEF Uploads
  <2>2. up' \in [Files -> Uploads]
    BY <1>10, <1>c, <2>1 DEF Crash
  <2>3. del' \in [Deleters -> Deletes] /\ sweep' \in [Replicas -> Sweeps]
    BY <1>10, <1>i DEF Crash, TypeOK
  <2>4. faults' \in 0 .. MaxFaults /\ UNCHANGED <<row, marker, disk>>
    BY <1>10, <1>f DEF Crash
  <2> QED BY <2>2, <2>3, <2>4 DEF TypeOK
<1>11. CASE RemoveRefused
  <2>0. "dead" \in UpPhases
    BY DEF UpPhases
  <2>1. up' \in [Files -> Uploads]
    <3>1. up' = up \/ \E f \in Files : up' = UpEnds(f, "dead")
      BY <1>11 DEF RemoveRefused, UpEnds
    <3> QED BY <1>c, <1>u, <2>0, <3>1
  <2>2. del' \in [Deleters -> Deletes] /\ sweep' \in [Replicas -> Sweeps]
    BY <1>11, <1>i DEF RemoveRefused, TypeOK
  <2>3. faults' \in 0 .. MaxFaults /\ UNCHANGED <<row, marker, disk>>
    BY <1>11, <1>f DEF RemoveRefused
  <2> QED BY <2>1, <2>2, <2>3 DEF TypeOK
<1>12. CASE Tick
  <2>1. ASSUME NEW f \in Files, marker[f] # NoMarker
        PROVE  [marker[f] EXCEPT !.left = IF @ = Long THEN Long ELSE @ - 1] \in Markers
    <3>1. marker[f] \in Markers
      BY <2>1 DEF TypeOK
    <3>2. (IF marker[f].left = Long THEN Long ELSE marker[f].left - 1) \in Long .. Lease
      BY <1>k, <3>1 DEF Markers, Long
    <3> QED BY <3>1, <3>2 DEF Markers
  <2>2. marker' \in [Files -> Markers \cup {NoMarker}]
    BY <1>12, <2>1 DEF Tick
  <2>3. ASSUME NEW r \in Replicas, sweep[r].phase # "idle"
        PROVE  [sweep[r] EXCEPT !.age = @ + 1] \in Sweeps
    <3>1. sweep[r] \in Sweeps /\ sweep[r].age < MaxAge
      BY <1>12, <2>3 DEF Tick, TypeOK
    <3>2. sweep[r].age + 1 \in 0 .. MaxAge
      BY <1>k, <3>1 DEF Sweeps
    <3> QED BY <3>1, <3>2 DEF Sweeps
  <2>4. sweep' \in [Replicas -> Sweeps]
    BY <1>12, <2>3 DEF Tick, TypeOK
  <2> QED BY <1>12, <2>2, <2>4 DEF Tick, TypeOK
<1>13. CASE UNCHANGED vars
  BY <1>13 DEF vars, TypeOK
<1> QED BY <1>1, <1>2, <1>3, <1>4, <1>5, <1>6, <1>7, <1>8, <1>9, <1>10, <1>11, <1>12, <1>13
        DEF Next, UploadSteps

-----------------------------------------------------------------------------
(* The invariant is inductive *)

Kept ==
    /\ \A f \in Files : FileOK(f)
    /\ \A d \in Deleters : DeleteOK(d)
    /\ \A r \in Replicas : SweepOK(r)

(* Each step of an upload changes the state of its own file only, and of   *)
(* that file only what its intent allows (file_search service upload).     *)
LEMMA UploadKeeps ==
    ASSUME TypeOK, Kept, NEW f \in Files,
           UploadSteps(f) \/ CallerGone(f) \/ \E r \in Replicas : StageUpload(r, f)
    PROVE  Kept'
<1>n. NoMarker.intent = "none" /\ NoMarker \notin Markers
  BY DEF NoMarker, Markers, Intents, None
<1>f. /\ row \in [Files -> BOOLEAN] /\ marker \in [Files -> Markers \cup {NoMarker}]
      /\ disk \in [Files -> SUBSET {"temp", "blob"}] /\ up \in [Files -> Uploads]
      /\ up[f] \in Uploads /\ FileOK(f)
  BY DEF TypeOK, Kept
<1>m. marker[f] # NoMarker => marker[f] \in Markers /\ marker[f].intent \in Intents
  BY <1>f DEF Markers
<1>1. ASSUME NEW q \in Replicas, StageUpload(q, f) PROVE Kept'
  <2>1. ASSUME NEW g \in Files PROVE FileOK(g)'
    BY <1>1, <1>n, <2>1 DEF StageUpload, TypeOK, Kept, FileOK, Uploading
  <2>2. ASSUME NEW d \in Deleters PROVE DeleteOK(d)'
    BY <1>1, <1>n, <2>2 DEF StageUpload, TypeOK, Kept, FileOK, DeleteOK, Uploading
  <2>3. ASSUME NEW r \in Replicas PROVE SweepOK(r)'
    BY <1>1, <1>n, <2>3 DEF StageUpload, TypeOK, Kept, FileOK, SweepOK, Buried, Uploading
  <2> QED BY <2>1, <2>2, <2>3 DEF Kept
<1>2. ASSUME RenewUpload(f) PROVE Kept'
  <2>1. ASSUME NEW g \in Files PROVE FileOK(g)'
    <3>1. CASE g # f
      BY <1>2, <2>1, <3>1 DEF RenewUpload, TypeOK, Kept, FileOK, Owns
    <3>2. CASE g = f
      <4>1. /\ row' = row /\ disk' = disk /\ up'[f].phase = up[f].phase
            /\ marker'[f].intent = marker[f].intent
            /\ marker[f] # NoMarker => marker'[f] # NoMarker
            /\ marker[f] = NoMarker => marker'[f] = NoMarker
        BY <1>2, <1>f, <1>m, <1>n DEF RenewUpload, Owns, Uploads, Markers
      <4> QED BY <1>f, <3>2, <4>1 DEF FileOK
    <3> QED BY <3>1, <3>2
  <2>2. ASSUME NEW d \in Deleters PROVE DeleteOK(d)'
    BY <1>2, <1>n, <2>2 DEF RenewUpload, TypeOK, Kept, FileOK, DeleteOK, Uploading
  <2>3. ASSUME NEW r \in Replicas PROVE SweepOK(r)'
    BY <1>2, <1>n, <2>3 DEF RenewUpload, TypeOK, Kept, FileOK, SweepOK, Buried, Uploading, Owns
  <2> QED BY <2>1, <2>2, <2>3 DEF Kept
<1>3. ASSUME CallerGone(f) PROVE Kept'
  <2>1. ASSUME NEW g \in Files PROVE FileOK(g)'
    BY <1>3, <1>n, <2>1 DEF CallerGone, TypeOK, Kept, FileOK, Uploading
  <2>2. ASSUME NEW d \in Deleters PROVE DeleteOK(d)'
    BY <1>3, <1>n, <2>2 DEF CallerGone, TypeOK, Kept, FileOK, DeleteOK, Uploading
  <2>3. ASSUME NEW r \in Replicas PROVE SweepOK(r)'
    BY <1>3, <1>n, <2>3 DEF CallerGone, TypeOK, Kept, FileOK, SweepOK, Buried, Uploading
  <2> QED BY <2>1, <2>2, <2>3 DEF Kept
<1>4. ASSUME WriteTemporary(f) PROVE Kept'
  <2>1. ASSUME NEW g \in Files PROVE FileOK(g)'
    BY <1>4, <1>n, <2>1 DEF WriteTemporary, TypeOK, Kept, FileOK, Uploading
  <2>2. ASSUME NEW d \in Deleters PROVE DeleteOK(d)'
    BY <1>4, <1>n, <2>2 DEF WriteTemporary, TypeOK, Kept, FileOK, DeleteOK, Uploading
  <2>3. ASSUME NEW r \in Replicas PROVE SweepOK(r)'
    BY <1>4, <1>n, <2>3 DEF WriteTemporary, TypeOK, Kept, FileOK, SweepOK, Buried, Uploading
  <2> QED BY <2>1, <2>2, <2>3 DEF Kept
<1>5. ASSUME LinkBlob(f) PROVE Kept'
  <2>1. ASSUME NEW g \in Files PROVE FileOK(g)'
    BY <1>5, <1>n, <2>1 DEF LinkBlob, TypeOK, Kept, FileOK, Uploading
  <2>2. ASSUME NEW d \in Deleters PROVE DeleteOK(d)'
    BY <1>5, <1>n, <2>2 DEF LinkBlob, TypeOK, Kept, FileOK, DeleteOK, Uploading
  <2>3. ASSUME NEW r \in Replicas PROVE SweepOK(r)'
    BY <1>5, <1>n, <2>3 DEF LinkBlob, TypeOK, Kept, FileOK, SweepOK, Buried, Uploading
  <2> QED BY <2>1, <2>2, <2>3 DEF Kept
<1>6. ASSUME PublishReturns(f) PROVE Kept'
  <2>1. ASSUME NEW g \in Files PROVE FileOK(g)'
    <3>1. CASE g # f
      BY <1>6, <2>1, <3>1 DEF PublishReturns, TypeOK, Kept, FileOK
    <3>2. CASE g = f
      <4>1. /\ row' = row /\ marker' = marker /\ up[f].phase \in {"publishing", "linked"}
            /\ \/ up'[f].phase = "removing"
               \/ /\ up[f].phase = "linked" /\ up'[f].phase = "published"
                  /\ disk'[f] = disk[f] \ {"temp"}
        BY <1>6, <1>f DEF PublishReturns, Uploads
      <4> QED BY <1>f, <1>m, <1>n, <3>2, <4>1 DEF FileOK, Uploading
    <3> QED BY <3>1, <3>2
  <2>2. ASSUME NEW d \in Deleters PROVE DeleteOK(d)'
    BY <1>6, <1>n, <2>2 DEF PublishReturns, TypeOK, Kept, FileOK, DeleteOK, Uploading
  <2>3. ASSUME NEW r \in Replicas PROVE SweepOK(r)'
    BY <1>6, <1>n, <2>3 DEF PublishReturns, TypeOK, Kept, FileOK, SweepOK, Buried, Uploading
  <2> QED BY <2>1, <2>2, <2>3 DEF Kept
<1>7. ASSUME PublishMetadata(f) PROVE Kept'
  <2>1. ASSUME NEW g \in Files PROVE FileOK(g)'
    <3>1. CASE g # f
      BY <1>7, <2>1, <3>1 DEF PublishMetadata, TypeOK, Kept, FileOK, Owns
    <3>2. CASE g = f
      <4> DEFINE fenced == ~up[f].cancelled /\ Owns(f, up[f].token) /\
            marker[f].intent = "upload"
      <4>1. CASE ~fenced
        <5>1. /\ row' = row /\ marker' = marker /\ disk' = disk
              /\ up[f].phase = "published" /\ up'[f].phase = "removing"
          BY <1>7, <1>f, <4>1 DEF PublishMetadata, Owns, Uploads
        <5> QED BY <1>f, <1>m, <1>n, <3>2, <4>1, <5>1 DEF FileOK, Uploading
      <4>2. CASE fenced
        <5>1. /\ marker[f].intent = "upload" /\ row'[f] /\ marker'[f] = NoMarker /\
                   disk' = disk
              /\ up[f].phase = "published" /\ up'[f].phase = "done"
          BY <1>7, <1>f, <4>2 DEF PublishMetadata, Owns, Uploads
        <5> QED BY <1>f, <1>m, <1>n, <3>2, <4>2, <5>1 DEF FileOK, Uploading
      <4> QED BY <4>1, <4>2, <1>7 DEF PublishMetadata
    <3> QED BY <3>1, <3>2
  <2>2. ASSUME NEW d \in Deleters PROVE DeleteOK(d)'
    BY <1>7, <1>n, <2>2 DEF PublishMetadata, TypeOK, Kept, FileOK, DeleteOK, Uploading
  <2>3. ASSUME NEW r \in Replicas PROVE SweepOK(r)'
    BY <1>7, <1>n, <2>3 DEF PublishMetadata, TypeOK, Kept, FileOK, SweepOK, Buried,
       Uploading, Owns
  <2> QED BY <2>1, <2>2, <2>3 DEF Kept
<1>8. ASSUME CommitLost(f) PROVE Kept'
  <2>1. ASSUME NEW g \in Files PROVE FileOK(g)'
    BY <1>8, <1>n, <2>1 DEF CommitLost, TypeOK, Kept, FileOK, Uploading
  <2>2. ASSUME NEW d \in Deleters PROVE DeleteOK(d)'
    BY <1>8, <1>n, <2>2 DEF CommitLost, TypeOK, Kept, FileOK, DeleteOK, Uploading
  <2>3. ASSUME NEW r \in Replicas PROVE SweepOK(r)'
    BY <1>8, <1>n, <2>3 DEF CommitLost, TypeOK, Kept, FileOK, SweepOK, Buried, Uploading
  <2> QED BY <2>1, <2>2, <2>3 DEF Kept
<1>9. ASSUME RemoveFailedUpload(f) PROVE Kept'
  <2>1. ASSUME NEW g \in Files PROVE FileOK(g)'
    <3>1. CASE g # f
      BY <1>9, <2>1, <3>1 DEF RemoveFailedUpload, TypeOK, Kept, FileOK, Owns, Completed
    <3>2. CASE g = f
      <4>1. CASE up[f].phase = "removing"
        <5>1. /\ row' = row /\ marker' = marker /\ disk'[f] = {}
              /\ up'[f].phase = "removed"
          BY <1>9, <1>f, <4>1 DEF RemoveFailedUpload, Owns, Completed, Uploads
        <5> QED BY <1>f, <1>m, <1>n, <3>2, <4>1, <5>1 DEF FileOK, Uploading
      <4>2. CASE up[f].phase = "removed"
        <5>1. /\ row' = row /\ marker'[f] \in {marker[f], NoMarker} /\ disk' = disk
              /\ up'[f].phase = "dead"
          BY <1>9, <1>f, <4>2 DEF RemoveFailedUpload, Owns, Completed, Uploads
        <5> QED BY <1>f, <1>m, <1>n, <3>2, <4>2, <5>1 DEF FileOK, Uploading
      <4> QED BY <4>1, <4>2, <1>9 DEF RemoveFailedUpload
    <3> QED BY <3>1, <3>2
  <2>2. ASSUME NEW d \in Deleters PROVE DeleteOK(d)'
    BY <1>9, <1>n, <2>2 DEF RemoveFailedUpload, TypeOK, Kept, FileOK, DeleteOK, Uploading
  <2>3. ASSUME NEW r \in Replicas PROVE SweepOK(r)'
    BY <1>9, <1>n, <2>3 DEF RemoveFailedUpload, TypeOK, Kept, FileOK, SweepOK, Buried,
       Uploading, Owns, Completed
  <2> QED BY <2>1, <2>2, <2>3 DEF Kept
<1> QED BY <1>1, <1>2, <1>3, <1>4, <1>5, <1>6, <1>7, <1>8, <1>9 DEF UploadSteps

(* A deletion turns a row into a marker, takes the bytes only when the row *)
(* is gone, and the marker only when the bytes are (files service delete). *)
LEMMA DeleteKeeps ==
    ASSUME TypeOK, Kept, NEW d \in Deleters,
           DeleteSteps(d) \/ \E r \in Replicas, f \in Files : StartDelete(d, r, f)
    PROVE  Kept'
<1> DEFINE f == del[d].file
<1>n. NoMarker.intent = "none" /\ NoMarker \notin Markers
  BY DEF NoMarker, Markers, Intents, None
<1>f. /\ row \in [Files -> BOOLEAN] /\ marker \in [Files -> Markers \cup {NoMarker}]
      /\ disk \in [Files -> SUBSET {"temp", "blob"}] /\ up \in [Files -> Uploads]
      /\ del \in [Deleters -> Deletes] /\ DeleteOK(d)
      /\ \A g \in Files : FileOK(g)
  BY DEF TypeOK, Kept
<1>1. ASSUME NEW r \in Replicas, NEW g \in Files, StartDelete(d, r, g) PROVE Kept'
  <2>1. ASSUME NEW c \in Deleters PROVE DeleteOK(c)'
    BY <1>1, <1>f, <2>1 DEF StartDelete, Kept, DeleteOK
  <2> QED BY <1>1, <2>1 DEF StartDelete, Kept, FileOK, SweepOK, Buried
<1>2. ASSUME DeleteRow(d) PROVE Kept'
  <2>f. f \in Files /\ FileOK(f)
    BY <1>2, <1>f DEF DeleteRow, DeleteOK
  <2>1. CASE ~row[f]
    <3>1. ASSUME NEW c \in Deleters PROVE DeleteOK(c)'
      BY <1>2, <1>f, <2>1, <3>1 DEF DeleteRow, Kept, DeleteOK, IdleDelete
    <3> QED BY <1>2, <2>1, <3>1 DEF DeleteRow, Kept, FileOK, SweepOK, Buried
  <2>2. CASE row[f]
    <3>1. /\ row' = [row EXCEPT ![f] = FALSE]
          /\ marker' = [marker EXCEPT ![f] = [intent |-> "delete", token |-> DeleteToken,
               left |-> Long]]
          /\ del' = [del EXCEPT ![d].phase = "gone"]
          /\ UNCHANGED <<disk, up, sweep>>
      BY <1>2, <2>2 DEF DeleteRow
    <3>2. ASSUME NEW g \in Files PROVE FileOK(g)'
      BY <1>f, <1>n, <2>2, <2>f, <3>1, <3>2 DEF FileOK, Uploading, NoMarker, None
    <3>3. ASSUME NEW c \in Deleters PROVE DeleteOK(c)'
      BY <1>f, <2>2, <2>f, <3>1, <3>3 DEF Kept, DeleteOK, FileOK
    <3>4. ASSUME NEW r \in Replicas PROVE SweepOK(r)'
      BY <1>f, <2>2, <2>f, <3>1, <3>4 DEF Kept, SweepOK, Buried
    <3> QED BY <3>2, <3>3, <3>4 DEF Kept
  <2> QED BY <2>1, <2>2
<1>3. ASSUME ReadPending(d) PROVE Kept'
  <2>f. f \in Files /\ FileOK(f)
    BY <1>3, <1>f DEF ReadPending, DeleteOK
  <2>1. /\ UNCHANGED <<row, marker, disk, up, sweep>>
        /\ \A c \in Deleters \ {d} : del'[c] = del[c]
        /\ \/ del'[d].phase = "idle"
           \/ /\ del'[d].phase = "remove" /\ del'[d].file = f
              /\ \/ del[d].phase = "gone"
                 \/ marker[f].intent \in {"delete", "recovery"}
    BY <1>3, <1>f DEF ReadPending, Deletes, IdleDelete
  <2>2. ASSUME NEW c \in Deleters PROVE DeleteOK(c)'
    BY <1>f, <1>n, <2>1, <2>2, <2>f DEF Kept, DeleteOK, FileOK
  <2> QED BY <2>1, <2>2 DEF Kept, FileOK, SweepOK, Buried
<1>4. ASSUME FinishDelete(d) PROVE Kept'
  <2>f. f \in Files /\ FileOK(f) /\ ~row[f] /\ up[f].phase = "done"
    BY <1>4, <1>f DEF FinishDelete, DeleteOK
  <2>1. CASE del[d].phase = "remove"
    <3>1. /\ disk' = [disk EXCEPT ![f] = {}] /\ UNCHANGED <<row, marker, up, sweep>>
          /\ del' = [del EXCEPT ![d].phase = "complete"]
      BY <1>4, <2>1 DEF FinishDelete
    <3>2. ASSUME NEW g \in Files PROVE FileOK(g)'
      BY <1>f, <2>f, <3>1, <3>2 DEF FileOK, Uploading
    <3>3. ASSUME NEW c \in Deleters PROVE DeleteOK(c)'
      BY <1>f, <2>1, <2>f, <3>1, <3>3 DEF Kept, DeleteOK
    <3>4. ASSUME NEW r \in Replicas PROVE SweepOK(r)'
      BY <1>f, <3>1, <3>4 DEF Kept, SweepOK, Buried
    <3> QED BY <3>2, <3>3, <3>4 DEF Kept
  <2>2. CASE del[d].phase = "complete"
    <3>1. /\ UNCHANGED <<row, disk, up, sweep>>
          /\ \A g \in Files \ {f} : marker'[g] = marker[g]
          /\ \/ marker'[f] = marker[f]
             \/ marker'[f] = NoMarker /\ marker[f].intent # "abandoned"
          /\ del' = [del EXCEPT ![d] = IdleDelete]
      BY <1>4, <1>f, <2>2, <2>f DEF FinishDelete, Completed
    <3>2. disk[f] = {}
      BY <1>f, <2>2 DEF DeleteOK
    <3>3. ASSUME NEW g \in Files PROVE FileOK(g)'
      BY <1>f, <1>n, <2>f, <3>1, <3>2, <3>3 DEF FileOK, Uploading
    <3>4. ASSUME NEW c \in Deleters PROVE DeleteOK(c)'
      BY <1>f, <3>1, <3>4 DEF Kept, DeleteOK, IdleDelete
    <3>5. ASSUME NEW r \in Replicas PROVE SweepOK(r)'
      BY <1>f, <2>f, <3>1, <3>2, <3>5 DEF Kept, SweepOK, Buried
    <3> QED BY <3>3, <3>4, <3>5 DEF Kept
  <2> QED BY <1>4, <2>1, <2>2 DEF FinishDelete
<1> QED BY <1>1, <1>2, <1>3, <1>4 DEF DeleteSteps

(* A claim takes the intent of an unfinished upload for good, and a pass   *)
(* gives up what it claimed only without its bytes (blob_cleanup).         *)
LEMMA SweepKeeps ==
    ASSUME TypeOK, Kept, NEW r \in Replicas, SweepSteps(r)
    PROVE  Kept'
<1>n. NoMarker.intent = "none" /\ NoMarker \notin Markers
  BY DEF NoMarker, Markers, Intents, None
<1>f. /\ row \in [Files -> BOOLEAN] /\ marker \in [Files -> Markers \cup {NoMarker}]
      /\ disk \in [Files -> SUBSET {"temp", "blob"}] /\ up \in [Files -> Uploads]
      /\ sweep \in [Replicas -> Sweeps] /\ SweepOK(r)
      /\ \A g \in Files : FileOK(g)
  BY DEF TypeOK, Kept
<1>1. ASSUME FetchBatch(r) PROVE Kept'
  <2>1. /\ UNCHANGED <<row, marker, disk, up, del>>
        /\ \A q \in Replicas \ {r} : sweep'[q] = sweep[q]
        /\ sweep'[r].phase \in {"idle", "batch"}
    BY <1>1, <1>f DEF FetchBatch, Sweeps, IdleSweep
  <2>2. ASSUME NEW q \in Replicas PROVE SweepOK(q)'
    BY <1>f, <2>1, <2>2 DEF Kept, SweepOK, Buried
  <2> QED BY <2>1, <2>2 DEF Kept, FileOK, DeleteOK
<1>2. ASSUME NEW f \in Files, Claim(r, f) PROVE Kept'
  <2>f. FileOK(f) /\ (marker[f] # NoMarker => marker[f].intent \in Intents)
    BY <1>f DEF Markers
  <2>1. CASE ~Expired(f, sweep[r].age)
    <3>1. /\ UNCHANGED <<row, marker, disk, up, del>>
          /\ \A q \in Replicas \ {r} : sweep'[q] = sweep[q]
          /\ sweep'[r].phase = "batch"
      BY <1>2, <1>f, <2>1 DEF Claim, Sweeps
    <3>2. ASSUME NEW q \in Replicas PROVE SweepOK(q)'
      BY <1>f, <3>1, <3>2 DEF Kept, SweepOK, Buried
    <3> QED BY <3>1, <3>2 DEF Kept, FileOK, DeleteOK
  <2>2. CASE Expired(f, sweep[r].age)
    <3>1. /\ UNCHANGED <<row, disk, up, del>>
          /\ marker[f] # NoMarker
          /\ \A g \in Files \ {f} : marker'[g] = marker[g]
          /\ marker'[f].intent = IF marker[f].intent \in {"upload", "abandoned"}
                                 THEN "abandoned" ELSE "recovery"
          /\ \A q \in Replicas \ {r} : sweep'[q] = sweep[q]
          /\ sweep'[r].phase = "claimed" /\ sweep'[r].file = f
      BY <1>2, <1>f, <2>2 DEF Claim, Sweeps, Expired
    <3>2. marker'[f] # NoMarker /\ ~row[f]
      BY <1>n, <2>f, <3>1 DEF FileOK
    <3>3. ASSUME NEW g \in Files PROVE FileOK(g)'
      BY <1>f, <1>n, <2>f, <3>1, <3>2, <3>3 DEF FileOK, Uploading, Intents
    <3>4. ASSUME NEW q \in Replicas PROVE SweepOK(q)'
      BY <1>f, <1>n, <2>f, <3>1, <3>2, <3>4 DEF Kept, SweepOK, Buried, FileOK, Intents
    <3> QED BY <3>1, <3>3, <3>4 DEF Kept, DeleteOK
  <2> QED BY <2>1, <2>2
<1>3. ASSUME SweepFile(r) PROVE Kept'
  <2> DEFINE f == sweep[r].file
  <2>f. f \in Files /\ FileOK(f) /\ Buried(f)
    BY <1>3, <1>f DEF SweepFile, SweepOK
  <2>1. CASE sweep[r].phase = "claimed"
    <3>1. /\ UNCHANGED <<row, marker, disk, up, del>>
          /\ sweep' = [sweep EXCEPT ![r].phase = "remove"]
      BY <1>3, <2>1, <2>f DEF SweepFile, Buried
    <3>2. ASSUME NEW q \in Replicas PROVE SweepOK(q)'
      BY <1>f, <2>1, <3>1, <3>2 DEF Kept, SweepOK, Buried
    <3> QED BY <3>1, <3>2 DEF Kept, FileOK, DeleteOK
  <2>2. CASE sweep[r].phase = "remove"
    <3>1. /\ UNCHANGED <<row, marker, up, del>> /\ disk' = [disk EXCEPT ![f] = {}]
          /\ sweep' = [sweep EXCEPT ![r].phase = "complete"]
      BY <1>3, <2>2 DEF SweepFile
    <3>2. ASSUME NEW g \in Files PROVE FileOK(g)'
      BY <1>f, <2>f, <3>1, <3>2 DEF FileOK, Uploading, Buried
    <3>3. ASSUME NEW d \in Deleters PROVE DeleteOK(d)'
      BY <1>f, <3>1, <3>3 DEF Kept, DeleteOK
    <3>4. ASSUME NEW q \in Replicas PROVE SweepOK(q)'
      BY <1>f, <2>2, <2>f, <3>1, <3>4 DEF Kept, SweepOK, Buried
    <3> QED BY <3>2, <3>3, <3>4 DEF Kept
  <2>3. CASE sweep[r].phase = "complete"
    <3>1. /\ UNCHANGED <<row, disk, up, del>>
          /\ \A g \in Files \ {f} : marker'[g] = marker[g]
          /\ \/ marker'[f] = marker[f]
             \/ marker'[f] = NoMarker /\ marker[f].intent # "abandoned"
          /\ \A q \in Replicas \ {r} : sweep'[q] = sweep[q]
          /\ sweep'[r].phase = "batch"
      BY <1>3, <1>f, <2>3, <2>f DEF SweepFile, Completed, Sweeps
    <3>2. marker'[f] = marker[f] \/ (disk[f] = {} /\ up[f].phase = "done")
      BY <1>f, <2>3, <2>f, <3>1 DEF SweepOK, Buried
    <3>3. ASSUME NEW g \in Files PROVE FileOK(g)'
      BY <1>f, <1>n, <2>f, <3>1, <3>2, <3>3 DEF FileOK, Uploading, Buried
    <3>4. ASSUME NEW q \in Replicas PROVE SweepOK(q)'
      BY <1>f, <2>f, <3>1, <3>2, <3>4 DEF Kept, SweepOK, Buried
    <3> QED BY <3>1, <3>3, <3>4 DEF Kept, DeleteOK
  <2> QED BY <1>3, <2>1, <2>2, <2>3 DEF SweepFile
<1> QED BY <1>1, <1>2, <1>3 DEF SweepSteps

(* What a fault or a tick leaves of each task and intent.                  *)
Fallen(f) == up'[f].phase = up[f].phase \/ (up'[f].phase = "dead" /\ up[f].phase # "done")
Dropped(d) == del'[d] = del[d] \/ del'[d].phase = "idle"
Given(r) ==
    \/ sweep'[r].phase = "idle"
    \/ sweep'[r].phase = sweep[r].phase /\ sweep'[r].file = sweep[r].file
Aged(f) ==
    /\ marker[f] = NoMarker <=> marker'[f] = NoMarker
    /\ marker'[f].intent = marker[f].intent

(* A crash, a refused removal and the passing of time touch neither a row, *)
(* its bytes nor an intent's kind.                                         *)
LEMMA FaultKeeps ==
    ASSUME TypeOK, Kept, (\E r \in Replicas : Crash(r)) \/ RemoveRefused \/ Tick
    PROVE  Kept'
<1>n. NoMarker.intent = "none" /\ NoMarker \notin Markers
  BY DEF NoMarker, Markers, Intents, None
<1>f. /\ marker \in [Files -> Markers \cup {NoMarker}] /\ up \in [Files -> Uploads]
      /\ del \in [Deleters -> Deletes] /\ sweep \in [Replicas -> Sweeps]
  BY DEF TypeOK
<1>1. /\ row' = row /\ disk' = disk
      /\ \A f \in Files : Fallen(f)
      /\ \A d \in Deleters : Dropped(d)
      /\ \A r \in Replicas : Given(r)
      /\ \A f \in Files : Aged(f)
  <2>1. CASE \E r \in Replicas : Crash(r)
    <3> PICK p \in Replicas : Crash(p)
      BY <2>1
    <3>1. ASSUME NEW f \in Files PROVE Fallen(f)
      BY <1>f, <3>1 DEF Crash, Uploads, Fallen
    <3>2. ASSUME NEW d \in Deleters PROVE Dropped(d)
      BY <1>f, <3>2 DEF Crash, IdleDelete, Dropped
    <3>3. ASSUME NEW r \in Replicas PROVE Given(r)
      BY <1>f, <3>3 DEF Crash, IdleSweep, Given
    <3> QED BY <3>1, <3>2, <3>3 DEF Crash, Aged
  <2>2. CASE RemoveRefused
    <3>1. ASSUME NEW f \in Files PROVE Fallen(f)
      <4>1. \/ up' = up
            \/ \E g \in Files : /\ up[g].phase = "removing"
                               /\ up' = [up EXCEPT ![g].phase = "dead", ![g].token = None]
        BY <2>2 DEF RemoveRefused
      <4>2. CASE up' = up
        BY <4>2 DEF Fallen
      <4>3. ASSUME NEW g \in Files, up[g].phase = "removing",
                   up' = [up EXCEPT ![g].phase = "dead", ![g].token = None]
            PROVE  Fallen(f)
        BY <1>f, <3>1, <4>3 DEF Uploads, Fallen
      <4> QED BY <4>1, <4>2, <4>3
    <3>2. ASSUME NEW d \in Deleters PROVE Dropped(d)
      <4>1. del' = del \/ \E c \in Deleters : del' = [del EXCEPT ![c] = IdleDelete]
        BY <2>2 DEF RemoveRefused
      <4> QED BY <1>f, <3>2, <4>1 DEF IdleDelete, Dropped
    <3>3. ASSUME NEW r \in Replicas PROVE Given(r)
      <4>1. sweep' = sweep \/ \E p \in Replicas : sweep' = [sweep EXCEPT ![p] = IdleSweep]
        BY <2>2 DEF RemoveRefused
      <4> QED BY <1>f, <3>3, <4>1 DEF IdleSweep, Given
    <3> QED BY <2>2, <3>1, <3>2, <3>3 DEF RemoveRefused, Aged
  <2>3. CASE Tick
    <3>1. ASSUME NEW r \in Replicas PROVE Given(r)
      BY <1>f, <2>3, <3>1 DEF Tick, Sweeps, Given
    <3>2. ASSUME NEW f \in Files PROVE Aged(f)
      <4>1. CASE marker[f] = NoMarker
        BY <2>3, <4>1 DEF Tick, Aged
      <4>2. CASE marker[f] # NoMarker
        <5>1. marker[f] \in Markers
          BY <1>f, <4>2
        <5>2. marker'[f] = [marker[f] EXCEPT !.left = IF @ = Long THEN Long ELSE @ - 1]
          BY <2>3, <4>2 DEF Tick
        <5>3. marker'[f].intent = marker[f].intent /\ marker[f].intent \in Intents
          BY <5>1, <5>2 DEF Markers
        <5>4. marker'[f] # NoMarker
          BY <1>n, <5>3 DEF Intents
        <5> QED BY <4>2, <5>3, <5>4 DEF Aged
      <4> QED BY <4>1, <4>2
    <3> QED BY <2>3, <3>1, <3>2 DEF Tick, Fallen, Dropped
  <2> QED BY <2>1, <2>2, <2>3
<1>2. ASSUME NEW f \in Files PROVE FileOK(f)'
  BY <1>1, <1>2 DEF Kept, FileOK, Uploading, Fallen, Aged
<1>3. ASSUME NEW d \in Deleters PROVE DeleteOK(d)'
  BY <1>1, <1>3 DEF Kept, DeleteOK, Fallen, Dropped
<1>4. ASSUME NEW r \in Replicas PROVE SweepOK(r)'
  BY <1>1, <1>4 DEF Kept, SweepOK, Buried, Fallen, Given, Aged
<1> QED BY <1>2, <1>3, <1>4 DEF Kept

-----------------------------------------------------------------------------
(* The results *)

(* At the start no file has a row, bytes or an intent.                     *)
LEMMA InitIInv == Init => IInv
<1> SUFFICES ASSUME Init PROVE IInv
  OBVIOUS
<1>1. /\ Long \in Int /\ MaxAge \in Nat /\ MaxFaults \in Nat
  BY ConstantsAssumption DEF ConstantsOK, Long
<1>2. TypeOK
  BY <1>1 DEF Init, TypeOK, Uploads, UpPhases, Deletes, DelPhases, Sweeps, SweepPhases,
              IdleDelete, IdleSweep
<1>3. Kept
  BY DEF Init, Kept, FileOK, DeleteOK, SweepOK, Uploading, IdleDelete, IdleSweep, NoMarker,
     None
<1> QED BY <1>2, <1>3 DEF IInv, Kept

(* The inductive invariant.                                                *)
THEOREM Invariance == Spec => []IInv
<1>1. IInv /\ [Next]_vars => IInv'
  <2> SUFFICES ASSUME IInv, [Next]_vars PROVE IInv'
    OBVIOUS
  <2>1. TypeOK /\ Kept /\ TypeOK'
    BY TypeStep DEF IInv, Kept
  <2>2. Kept'
    <3>1. CASE UNCHANGED vars
      BY <2>1, <3>1 DEF vars, Kept, FileOK, DeleteOK, SweepOK, Buried
    <3>2. CASE Next
      BY <2>1, <3>2, UploadKeeps, DeleteKeeps, SweepKeeps, FaultKeeps DEF Next
    <3> QED BY <3>1, <3>2
  <2> QED BY <2>1, <2>2 DEF IInv, Kept
<1> QED BY InitIInv, <1>1, PTL DEF Spec

(* A published file always has its bytes, and bytes always a row or a      *)
(* durable intent, whatever uploads, deletions, sweeps and crashes meet    *)
(* (file_search storage, blob_cleanup, local_files).                       *)
THEOREM BlobsAreSound == Spec => []BlobsSound
<1>1. IInv => BlobsSound
  BY DEF IInv, BlobsSound, FileOK, RowHasBlob, BytesAccounted
<1> QED BY Invariance, <1>1, PTL

=============================================================================
