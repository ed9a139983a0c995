------------------------ MODULE MessageThreadsProofs ------------------------
(***************************************************************************)
(* Proofs about MessageThreads for every set of replicas and turns, every  *)
(* lease, lifetime and clock skew: its types, that a message is continued  *)
(* once, that a lease can be relied on and ends, and that the store        *)
(* implements ThreadLog.                                                   *)
(***************************************************************************)
EXTENDS MessageThreads, TLAPS

-----------------------------------------------------------------------------
(* The inductive invariant *)

(* A turn names a replica once it started, and a parent only if that       *)
(* parent's own turn committed.                                            *)
TurnInv ==
    \A t \in Turns :
      /\ turn[t].phase # "new" => turn[t].rep \in Replicas
      /\ turn[t].phase = "new" => turn[t].parent = None
      /\ turn[t].phase \in {"loaded", "reserved"} => turn[t].parent # None
      /\ turn[t].parent = None => turn[t].base = <<>>
      /\ turn[t].parent # None => turn[t].parent \in committed
      /\ t \in committed => turn[t].phase \in {"published", "done", "failed"}

(* Only a committed turn has a row, and a token in a row is one of a turn  *)
(* that continues the row's message and has not committed.                 *)
RowInv ==
    \A m \in Turns :
      /\ row[m].state # "absent" => m \in committed
      /\ row[m].state \in {"absent", "consumed"} => row[m].history = <<>>
      /\ row[m].state # "in_flight" => row[m].token = None
      /\ \A t \in Turns : row[m].token = t =>
           /\ turn[t].parent = m
           /\ turn[t].phase \notin {"new", "loaded"}
           /\ t \notin committed

(* A parent that can still be continued has the history that was loaded,   *)
(* and a parent that was continued can no longer be.                       *)
ParentInv ==
    \A t, p \in Turns : turn[t].parent = p =>
      /\ row[p].state \in {"ready", "in_flight"} => row[p].history = turn[t].base
      /\ t \in committed => row[p].state \notin {"ready", "in_flight"}

(* The tokens a replica knows are of its own requests.                     *)
TokenInv ==
    \A r \in Replicas, t \in Turns :
      /\ t \in active[r] => turn[t].rep = r /\ turn[t].phase \in {"active", "published"}
      /\ t \in renewing[r] => turn[t].rep = r /\ turn[t].phase \notin {"new", "loaded", "reserved"}
      /\ t \in cleanup[r] => turn[t].phase = "failed"

Inv == TypeOK /\ TurnInv /\ RowInv /\ ParentInv /\ TokenInv /\ ContinuedOnce

(* A lease runs at most a lease period beyond its request's last sign of   *)
(* life, and one more if a maintenance pass still has its token.           *)
Bounded(p, t) ==
    /\ turn[t].phase \in {"reserved", "active", "published"} =>
         row[p].until <= clock + skew[turn[t].rep] + Lease
    /\ turn[t].phase = "failed" /\ t \in renewing[turn[t].rep] =>
         row[p].until <= turn[t].left + skew[turn[t].rep] + Lease
    /\ turn[t].phase = "failed" =>
         row[p].until <= turn[t].left + skew[turn[t].rep] + 2 * Lease

UntilInv == \A p, t \in Turns : row[p].token = t => Bounded(p, t)

-----------------------------------------------------------------------------
(* Types *)

(* A replica's clock shows a natural number.                               *)
LEMMA NowType ==
    ASSUME TypeOK, NEW r \in Replicas
    PROVE  Now(r) \in Nat
  BY ConstantsAssumption DEF TypeOK, Now

(* Changing one field of a row leaves a row ...                            *)
LEMMA RowFields ==
    ASSUME NEW x \in Row
    PROVE  /\ \A v \in {"absent", "ready", "in_flight", "consumed"} : [x EXCEPT !.state = v] \in Row
           /\ \A v \in Turns \cup {None} : [x EXCEPT !.token = v] \in Row
           /\ \A v \in Nat : [x EXCEPT !.until = v] \in Row /\ [x EXCEPT !.expires = v] \in Row
           /\ \A v \in Seq(Turns) : [x EXCEPT !.history = v] \in Row
  BY DEF Row

(* ... and of a turn, a turn.                                              *)
LEMMA TurnFields ==
    ASSUME NEW f \in [Turns -> Turn], NEW t \in Turns
    PROVE  /\ \A v \in {"new", "loaded", "reserved", "active", "published", "done", "failed"} :
                [f EXCEPT ![t].phase = v] \in [Turns -> Turn]
           /\ \A v \in Replicas \cup {None} : [f EXCEPT ![t].rep = v] \in [Turns -> Turn]
           /\ \A v \in Turns \cup {None} : [f EXCEPT ![t].parent = v] \in [Turns -> Turn]
           /\ \A v \in Seq(Turns) : [f EXCEPT ![t].base = v] \in [Turns -> Turn]
           /\ \A v \in Nat : [f EXCEPT ![t].left = v] \in [Turns -> Turn]
  BY DEF Turn
(* A step keeps every variable in its type.                                *)
LEMMA TypeStep == TypeOK /\ TurnInv /\ [Next]_vars => TypeOK'
<1> SUFFICES ASSUME TypeOK, TurnInv, [Next]_vars PROVE TypeOK'
  OBVIOUS
<1> USE ConstantsAssumption
<1>r. ASSUME NEW m \in Turns, NEW v \in {"ready", "in_flight", "consumed"},
             NEW u \in Turns \cup {None}, NEW n \in Nat
      PROVE  [row[m] EXCEPT !.state = v, !.token = u, !.until = n] \in Row
  <2>1. [row[m] EXCEPT !.state = v] \in Row
    BY RowFields DEF TypeOK
  <2>2. [row[m] EXCEPT !.state = v, !.token = u] \in Row
    BY <2>1, RowFields
  <2> QED BY <2>2, RowFields
<1>t. ASSUME NEW t \in Turns,
             NEW v \in {"new", "loaded", "reserved", "active", "published", "done", "failed"}
      PROVE  [turn EXCEPT ![t].phase = v] \in [Turns -> Turn]
  BY TurnFields DEF TypeOK
<1>1. CASE Tick
  BY <1>1 DEF Tick, TypeOK
<1>2. ASSUME NEW r \in Replicas, MaintainBegin(r) PROVE TypeOK'
  BY <1>2 DEF MaintainBegin, TypeOK
<1>3. ASSUME NEW r \in Replicas, Expire(r) PROVE TypeOK'
  <2>1. NoRow \in Row
    BY DEF NoRow, Row
  <2>2. row' \in [Turns -> Row]
    BY <1>3, <2>1 DEF Expire, TypeOK
  <2> QED BY <1>3, <2>2 DEF Expire, TypeOK
<1>4. ASSUME NEW r \in Replicas, Crash(r) PROVE TypeOK'
  <2>1. ASSUME NEW x \in Turn PROVE [x EXCEPT !.phase = "failed", !.left = clock] \in Turn
    <3>1. [x EXCEPT !.phase = "failed"] \in Turn
      BY DEF Turn
    <3>2. \A y \in Turn : [y EXCEPT !.left = clock] \in Turn
      BY DEF TypeOK, Turn
    <3> QED BY <3>1, <3>2
  <2>2. \A t \in Turns : [turn[t] EXCEPT !.phase = "failed", !.left = clock] \in Turn
    BY <2>1 DEF TypeOK
  <2>3. turn' \in [Turns -> Turn]
    BY <1>4, <2>2 DEF Crash, TypeOK
  <2> QED BY <1>4, <2>3 DEF Crash, TypeOK
<1>5. ASSUME NEW r \in Replicas, NEW t \in Turns, PrepareCreate(t, r) PROVE TypeOK'
  <2>1. turn' \in [Turns -> Turn]
    BY <1>5, <1>t, TurnFields DEF PrepareCreate
  <2> QED BY <1>5, <2>1 DEF PrepareCreate, TypeOK
<1>6. ASSUME NEW r \in Replicas, NEW t \in Turns, Release(r, t) PROVE TypeOK'
  <2>1. Released(t) \in [Turns -> Row]
    BY <1>r DEF Released, TypeOK
  <2> QED BY <1>6, <2>1 DEF Release, TypeOK
<1>7. ASSUME NEW r \in Replicas, NEW t \in Turns, Renew(r, t) PROVE TypeOK'
  <2> DEFINE p == turn[t].parent
  <2>1. Now(r) + Lease \in Nat
    BY NowType
  <2>2. ASSUME p # None PROVE [row EXCEPT ![p].until = Now(r) + Lease] \in [Turns -> Row]
    <3>1. p \in Turns
      BY <2>2 DEF TypeOK, Turn
    <3>2. [row[p] EXCEPT !.until = Now(r) + Lease] \in Row
      BY <2>1, <3>1, RowFields DEF TypeOK
    <3> QED BY <3>1, <3>2 DEF TypeOK
  <2>3. row' \in [Turns -> Row]
    BY <1>7, <2>2 DEF Renew, TypeOK
  <2> QED BY <1>7, <2>3 DEF Renew, TypeOK
<1>8. ASSUME NEW r \in Replicas, NEW t \in Turns, NEW p \in Turns, Load(t, r, p) PROVE TypeOK'
  <2>1. row[p].history \in Seq(Turns)
    BY DEF TypeOK, Row
  <2>2. [turn EXCEPT ![t].phase = "loaded", ![t].rep = r] \in [Turns -> Turn]
    BY <1>t, TurnFields
  <2>3. [turn EXCEPT ![t].phase = "loaded", ![t].rep = r, ![t].parent = p] \in [Turns -> Turn]
    BY <2>2, TurnFields
  <2>4. turn' \in [Turns -> Turn]
    BY <1>8, <2>1, <2>3, TurnFields DEF Load
  <2> QED BY <1>8, <2>4 DEF Load, TypeOK
<1>9. ASSUME NEW t \in Turns, Reserve(t) PROVE TypeOK'
  <2> DEFINE p == turn[t].parent
             until == Now(turn[t].rep) + Lease
  <2>1. until \in Nat
    BY <1>9, NowType DEF Reserve, TurnInv
  <2>2. p \in Turns
    BY <1>9 DEF Reserve, TurnInv, TypeOK, Turn
  <2>3. row' = [row EXCEPT ![p] = [row[p] EXCEPT !.state = "in_flight", !.token = t,
                                                 !.until = until]]
    BY <1>9, <2>2 DEF Reserve, TypeOK
  <2>4. row' \in [Turns -> Row]
    <3> HIDE DEF until, p
    <3> QED BY <1>r, <2>1, <2>2, <2>3 DEF TypeOK
  <2> QED BY <1>9, <1>t, <2>4 DEF Reserve, TypeOK
<1>10. ASSUME NEW t \in Turns, Refuse(t) PROVE TypeOK'
  <2>1. turn' \in [Turns -> Turn]
    BY <1>10, <1>t, TurnFields DEF Refuse, Fail, TypeOK
  <2> QED BY <1>10, <2>1 DEF Refuse, TypeOK
<1>11. ASSUME NEW t \in Turns, Activate(t) PROVE TypeOK'
  <2>1. turn[t].rep \in Replicas
    BY <1>11 DEF Activate, TurnInv
  <2>2. turn' \in [Turns -> Turn]
    BY <1>11, <1>t DEF Activate
  <2> QED BY <1>11, <2>1, <2>2 DEF Activate, TypeOK
<1>12. ASSUME NEW t \in Turns, Finish(t) PROVE TypeOK'
  BY <1>12, <1>t DEF Finish, TypeOK
<1>13. ASSUME NEW t \in Turns, Abandon(t) PROVE TypeOK'
  <2>1. turn' \in [Turns -> Turn]
    BY <1>13, <1>t, TurnFields DEF Abandon, Fail, TypeOK
  <2>2. active' \in [Replicas -> SUBSET Turns] /\ cleanup' \in [Replicas -> SUBSET Turns]
    BY <1>13 DEF Abandon, Dropped, TypeOK
  <2> QED BY <1>13, <2>1, <2>2 DEF Abandon, TypeOK
<1>14. ASSUME NEW t \in Turns, NEW keep \in BOOLEAN, Publish(t, keep) PROVE TypeOK'
  <2> DEFINE p == turn[t].parent
             now == Now(turn[t].rep)
  <2>1. now + Ttl \in Nat
    BY <1>14, NowType DEF Publish, TurnInv
  <2>2. Child(t, now) \in Row
    <3>1. turn[t].base \in Seq(Turns)
      BY DEF TypeOK, Turn
    <3>2. Append(turn[t].base, t) \in Seq(Turns)
      BY <3>1
    <3>3. [NoRow EXCEPT !.state = "ready"] \in Row
      <4>1. NoRow \in Row
        BY DEF NoRow, Row
      <4> QED BY <4>1, RowFields
    <3>4. [NoRow EXCEPT !.state = "ready", !.expires = now + Ttl] \in Row
      BY <2>1, <3>3, RowFields
    <3> QED BY <3>2, <3>4, RowFields DEF Child
  <2>3. \A m \in Turns : Consumed(m) \in Row
    <3>1. \A m \in Turns :
            [row[m] EXCEPT !.state = "consumed", !.token = None, !.until = 0] \in Row
      BY <1>r
    <3>2. \A x \in Row : [x EXCEPT !.history = <<>>] \in Row
      <4>1. <<>> \in Seq(Turns)
        OBVIOUS
      <4> QED BY <4>1, RowFields
    <3> QED BY <3>1, <3>2 DEF Consumed
  <2>4. row' \in [Turns -> Row]
    <3>1. row' = [m \in Turns |-> IF m = p THEN Consumed(p)
                                  ELSE IF m = t /\ keep THEN Child(t, now) ELSE row[m]]
      BY <1>14 DEF Publish
    <3>2. \A m \in Turns : row[m] \in Row
      BY DEF TypeOK
    <3> HIDE DEF p, now
    <3> QED BY <2>2, <2>3, <3>1, <3>2
  <2> QED BY <1>14, <1>t, <2>4 DEF Publish, TypeOK
<1>15. CASE UNCHANGED vars
  BY <1>15 DEF vars, TypeOK
<1> QED BY <1>1, <1>2, <1>3, <1>4, <1>5, <1>6, <1>7, <1>8, <1>9, <1>10, <1>11, <1>12,
           <1>13, <1>14, <1>15 DEF Next

-----------------------------------------------------------------------------
(* The other parts of the invariant *)

Rest == TurnInv /\ RowInv /\ ParentInv /\ TokenInv /\ ContinuedOnce

(* A step that leaves the table, the commits and every turn's parent and   *)
(* history alone keeps what is said of those.                              *)
LEMMA SameTable ==
    ASSUME Inv, UNCHANGED <<row, committed>>,
           \A u \in Turns : /\ turn'[u].parent = turn[u].parent
                            /\ turn'[u].base = turn[u].base
                            /\ turn'[u].rep = turn[u].rep
                            /\ turn[u].phase \notin {"new", "loaded"} =>
                                 turn'[u].phase \notin {"new", "loaded"}
    PROVE  RowInv' /\ ParentInv' /\ ContinuedOnce'
<1>1. RowInv'
  BY DEF Inv, RowInv
<1>2. ParentInv'
  BY DEF Inv, ParentInv
<1>3. ContinuedOnce'
  BY DEF Inv, TypeOK, ContinuedOnce
<1> QED BY <1>1, <1>2, <1>3

(* A step that leaves all turns alone keeps what is said of those.         *)
LEMMA SameTurns ==
    ASSUME Inv, UNCHANGED <<turn, committed, active>>,
           \A r \in Replicas : cleanup'[r] \subseteq cleanup[r] /\ renewing'[r] \subseteq renewing[r] \cup active[r]
    PROVE  TurnInv' /\ TokenInv' /\ ContinuedOnce'
<1>1. TurnInv'
  BY DEF Inv, TurnInv
<1>2. TokenInv'
  BY DEF Inv, TokenInv
<1>3. ContinuedOnce'
  BY DEF Inv, ContinuedOnce
<1> QED BY <1>1, <1>2, <1>3

(* A request starts a thread.                                              *)
LEMMA PrepareCreateRest ==
    ASSUME Inv, NEW r \in Replicas, NEW t \in Turns, PrepareCreate(t, r)
    PROVE  Rest'
<1>1. TurnInv'
  BY DEF Inv, PrepareCreate, TypeOK, Turn, TurnInv
<1>2. RowInv'
  BY DEF Inv, PrepareCreate, TypeOK, Turn, RowInv
<1>3. ParentInv'
  BY DEF Inv, PrepareCreate, TypeOK, Turn, ParentInv
<1>4. TokenInv'
  BY DEF Inv, PrepareCreate, TypeOK, Turn, TokenInv
<1>5. ContinuedOnce'
  BY DEF Inv, PrepareCreate, TypeOK, Turn, ContinuedOnce
<1> QED BY <1>1, <1>2, <1>3, <1>4, <1>5 DEF Rest

(* A request loads the message it continues: that message was committed.   *)
LEMMA LoadRest ==
    ASSUME Inv, NEW r \in Replicas, NEW t \in Turns, NEW p \in Turns, Load(t, r, p)
    PROVE  Rest'
<1>1. /\ turn'[t].phase = "loaded" /\ turn'[t].rep = r /\ turn'[t].parent = p
      /\ turn'[t].base = row[p].history
      /\ \A u \in Turns : u # t => turn'[u] = turn[u]
      /\ turn[t].phase = "new"
  BY DEF Inv, Load, TypeOK, Turn
<1>2. t \notin committed
  BY <1>1 DEF Inv, TurnInv
<1>3. UNCHANGED <<row, active, cleanup, renewing, committed>>
  BY DEF Load
<1>4. TurnInv'
  BY ConstantsAssumption DEF Inv, Load, Loadable, TypeOK, Turn, TurnInv, RowInv
<1>5. RowInv'
  BY ConstantsAssumption DEF Inv, Load, TypeOK, Turn, RowInv, TurnInv
<1>6. ParentInv'
  BY <1>1, <1>2, <1>3 DEF Inv, ParentInv
<1>7. TokenInv'
  BY <1>1, <1>3 DEF Inv, TokenInv
<1>8. ContinuedOnce'
  BY DEF Inv, Load, TypeOK, Turn, ContinuedOnce, TurnInv
<1> QED BY <1>4, <1>5, <1>6, <1>7, <1>8 DEF Rest

(* A request reserves its parent, or takes an expired lease over.          *)
LEMMA ReserveRest ==
    ASSUME Inv, NEW t \in Turns, Reserve(t)
    PROVE  Rest'
<1> DEFINE p == turn[t].parent
<1>1. /\ turn'[t].phase = "reserved" /\ turn'[t].rep = turn[t].rep
      /\ turn'[t].parent = p /\ turn[t].parent = p
      /\ turn'[t].base = turn[t].base
      /\ \A u \in Turns : u # t => turn'[u] = turn[u]
      /\ turn[t].phase = "loaded"
  BY DEF Inv, Reserve, TypeOK, Turn
<1>2. /\ p \in Turns
      /\ row[p].state \in {"ready", "in_flight"}
      /\ row'[p].state = "in_flight" /\ row'[p].token = t /\ row'[p].history = row[p].history
      /\ \A m \in Turns : m # p => row'[m] = row[m]
  BY DEF Inv, Reserve, TypeOK, Turn, Row, TurnInv, Reservable
<1>3. UNCHANGED <<active, cleanup, renewing, committed>>
  BY DEF Reserve
<1>4. t \notin committed
  BY <1>1 DEF Inv, TurnInv
<1>5. TurnInv'
  BY DEF Inv, Reserve, TypeOK, Turn, TurnInv
<1>6. TokenInv'
  BY DEF Inv, Reserve, TypeOK, Turn, TokenInv
<1>7. ContinuedOnce'
  BY DEF Inv, Reserve, TypeOK, Turn, ContinuedOnce, TurnInv
<1> HIDE DEF p
<1>8. RowInv'
  BY <1>1, <1>2, <1>3, <1>4 DEF Inv, RowInv
<1>9. ParentInv'
  BY <1>1, <1>2, <1>3 DEF Inv, ParentInv
<1> QED BY <1>5, <1>6, <1>7, <1>8, <1>9 DEF Rest

(* A request that ends without a guard, and what becomes of a guard.       *)
LEMMA PhaseRest ==
    ASSUME Inv, NEW t \in Turns, Refuse(t) \/ Activate(t) \/ Finish(t) \/ Abandon(t)
    PROVE  Rest'
<1>1. /\ turn'[t].rep = turn[t].rep /\ turn'[t].parent = turn[t].parent
      /\ turn'[t].base = turn[t].base
      /\ \A u \in Turns : u # t => turn'[u] = turn[u]
      /\ UNCHANGED <<row, renewing, committed>>
  BY DEF Inv, TypeOK, Turn, Refuse, Fail, Activate, Finish, Abandon
<1>2. \/ turn[t].phase \in {"loaded", "reserved"} /\ turn'[t].phase = "failed"
         /\ UNCHANGED <<active, cleanup>>
      \/ turn[t].phase = "reserved" /\ turn'[t].phase = "active"
         /\ active' = [active EXCEPT ![turn[t].rep] = @ \cup {t}] /\ cleanup' = cleanup
      \/ turn[t].phase = "published" /\ turn'[t].phase = "done"
         /\ active' = [active EXCEPT ![turn[t].rep] = @ \ {t}] /\ cleanup' = cleanup
      \/ /\ turn[t].phase \in {"active", "published"} /\ turn'[t].phase = "failed"
         /\ active' = [active EXCEPT ![turn[t].rep] = @ \ {t}]
         /\ cleanup' \in {cleanup, [cleanup EXCEPT ![turn[t].rep] = @ \cup {t}]}
  BY DEF Inv, TypeOK, Turn, Refuse, Fail, Activate, Finish, Abandon, Dropped
<1>3. TurnInv'
  BY <1>1, <1>2 DEF Inv, TurnInv
<1>4. TokenInv'
  <2>1. turn[t].rep \in Replicas
    BY <1>2 DEF Inv, TurnInv
  <2>2. \A q \in Replicas, u \in Turns :
          u \in active'[q] =>
            \/ u \in active[q] /\ (u # t \/ q # turn[t].rep \/ turn'[t].phase = turn[t].phase)
            \/ u = t /\ q = turn[t].rep /\ turn'[t].phase = "active"
            \/ u \in active[q] /\ turn[t].phase \in {"loaded", "reserved"}
    <3> DEFINE k == turn[t].rep
    <3>1. CASE UNCHANGED active /\ turn[t].phase \in {"loaded", "reserved"}
      BY <3>1
    <3>2. CASE active' = [active EXCEPT ![k] = @ \cup {t}] /\ turn'[t].phase = "active"
      <4> HIDE DEF k
      <4> QED BY <2>1, <3>2 DEF Inv, TypeOK, k
    <3>3. CASE active' = [active EXCEPT ![k] = @ \ {t}]
      <4>1. active \in [Replicas -> SUBSET Turns]
        BY DEF Inv, TypeOK
      <4>2. \A q \in Replicas : active'[q] = IF q = k THEN active[q] \ {t} ELSE active[q]
        BY <2>1, <3>3, <4>1
      <4> QED BY <4>2
    <3> QED BY <1>2, <3>1, <3>2, <3>3
  <2>3. \A q \in Replicas, u \in Turns :
          u \in cleanup'[q] => u \in cleanup[q] \/ (u = t /\ turn'[t].phase = "failed")
    <3> DEFINE k == turn[t].rep
    <3>1. CASE cleanup' = [cleanup EXCEPT ![k] = @ \cup {t}] /\ turn'[t].phase = "failed"
      <4>1. cleanup \in [Replicas -> SUBSET Turns]
        BY DEF Inv, TypeOK
      <4>2. \A q \in Replicas : cleanup'[q] = IF q = k THEN cleanup[q] \cup {t} ELSE cleanup[q]
        BY <2>1, <3>1, <4>1
      <4> QED BY <3>1, <4>2
    <3>2. CASE UNCHANGED cleanup
      BY <3>2
    <3> QED BY <1>2, <3>1, <3>2
  <2> QED BY <1>1, <1>2, <2>2, <2>3 DEF Inv, TokenInv
<1>5. RowInv' /\ ParentInv' /\ ContinuedOnce'
  BY <1>1, <1>2, SameTable
<1> QED BY <1>3, <1>4, <1>5 DEF Rest

(* A replica crashes.                                                      *)
LEMMA CrashRest ==
    ASSUME Inv, NEW r \in Replicas, Crash(r)
    PROVE  Rest'
<1>1. \A t \in Turns :
        /\ turn'[t].rep = turn[t].rep /\ turn'[t].parent = turn[t].parent
        /\ turn'[t].base = turn[t].base
        /\ \/ turn'[t].phase = turn[t].phase
           \/ turn[t].rep = r /\ turn[t].phase # "new" /\ turn'[t].phase = "failed"
  BY DEF Inv, TypeOK, Turn, Crash
<1>2. UNCHANGED <<row, committed>>
  BY DEF Crash
<1>3. \A q \in Replicas :
        /\ q = r => active'[q] = {} /\ cleanup'[q] = {} /\ renewing'[q] = {}
        /\ q # r => /\ active'[q] = active[q] /\ cleanup'[q] = cleanup[q]
                    /\ renewing'[q] = renewing[q]
  BY DEF Inv, TypeOK, Crash
<1>4. TurnInv'
  BY <1>1, <1>2 DEF Inv, TurnInv
<1>5. TokenInv'
  BY <1>1, <1>3 DEF Inv, TokenInv, TurnInv
<1>6. RowInv' /\ ParentInv' /\ ContinuedOnce'
  BY <1>1, <1>2, SameTable
<1> QED BY <1>4, <1>5, <1>6 DEF Rest

(* The transaction: the parent's row is held, so nobody else committed a   *)
(* continuation of it, and nobody will.                                    *)
LEMMA PublishRest ==
    ASSUME Inv, NEW t \in Turns, NEW keep \in BOOLEAN, Publish(t, keep)
    PROVE  Rest'
<1> DEFINE p == turn[t].parent
<1>1. /\ turn'[t].phase = "published" /\ turn'[t].rep = turn[t].rep
      /\ turn'[t].parent = p /\ turn[t].parent = p
      /\ turn'[t].base = turn[t].base
      /\ \A u \in Turns : u # t => turn'[u] = turn[u]
      /\ turn[t].phase = "active"
  BY DEF Inv, Publish, TypeOK, Turn
<1>2. /\ UNCHANGED <<active, cleanup, renewing>>
      /\ committed' = committed \cup {t}
  BY DEF Publish
<1>3. t \notin committed /\ row[t].state = "absent"
  BY <1>1 DEF Inv, TurnInv, RowInv
<1>4. p # None => /\ p \in Turns /\ p \in committed
                  /\ row[p].token = t /\ row[p].state = "in_flight"
  BY DEF Inv, TurnInv, TypeOK, Turn, Publish, Holds
<1>5. \A m \in Turns :
        /\ m = p => row'[m].state = "consumed" /\ row'[m].token = None /\ row'[m].history = <<>>
        /\ m = t /\ m # p =>
             \/ row'[m].state = "ready" /\ row'[m].token = None
             \/ row'[m] = row[m]
        /\ m # t /\ m # p => row'[m] = row[m]
  BY DEF Inv, TypeOK, Row, Publish, Consumed, Child, NoRow
<1>6. t # p
  BY <1>3, <1>4, ConstantsAssumption
<1>7. \A u \in Turns : turn[u].parent = t => FALSE
  BY <1>3, ConstantsAssumption DEF Inv, TurnInv
<1>8. TurnInv'
  BY <1>1, <1>2 DEF Inv, TurnInv
<1>9. TokenInv'
  BY <1>1, <1>2 DEF Inv, TokenInv
<1>10. ASSUME NEW u \in committed, turn[u].parent = p, p # None PROVE FALSE
  BY <1>4, <1>10 DEF Inv, ParentInv, TypeOK
<1> HIDE DEF p
<1>11. ContinuedOnce'
  BY <1>1, <1>2, <1>10 DEF Inv, ContinuedOnce, TypeOK
<1>12. RowInv'
  <2> SUFFICES ASSUME NEW m \in Turns
               PROVE  /\ row'[m].state # "absent" => m \in committed'
                      /\ row'[m].state \in {"absent", "consumed"} => row'[m].history = <<>>
                      /\ row'[m].state # "in_flight" => row'[m].token = None
                      /\ \A u \in Turns : row'[m].token = u =>
                           /\ turn'[u].parent = m
                           /\ turn'[u].phase \notin {"new", "loaded"}
                           /\ u \notin committed'
    BY DEF RowInv
  <2>1. CASE m = p
    BY <1>2, <1>4, <1>5, <2>1, ConstantsAssumption
  <2>2. CASE m = t
    BY <1>2, <1>3, <1>5, <1>6, <1>7, <2>2, ConstantsAssumption DEF Inv, RowInv
  <2>3. CASE m # p /\ m # t
    BY <1>1, <1>2, <1>5, <2>3 DEF Inv, RowInv
  <2> QED BY <2>1, <2>2, <2>3
<1>13. ParentInv'
  BY <1>1, <1>2, <1>5, <1>6, <1>7 DEF Inv, ParentInv
<1> QED BY <1>8, <1>9, <1>11, <1>12, <1>13 DEF Rest

(* Releases and renewals act on rows in flight and keep their histories.   *)
LEMMA LeaseRows ==
    ASSUME Inv, NEW r \in Replicas, NEW t \in Turns, Release(r, t) \/ Renew(r, t), NEW m \in Turns
    PROVE  \/ row'[m] = row[m]
           \/ /\ row[m].state = "in_flight" /\ row'[m].history = row[m].history
              /\ \/ row'[m].state = "ready" /\ row'[m].token = None
                 \/ row'[m].state = "in_flight" /\ row'[m].token = row[m].token
<1>1. CASE Release(r, t)
  <2>1. CASE row' = row
    BY <2>1
  <2>2. CASE row' = Released(t) /\ row[m].token = t /\ row[m].state = "in_flight"
    <3>1. row'[m] = [row[m] EXCEPT !.state = "ready", !.token = None, !.until = 0]
      BY <2>2 DEF Released
    <3>2. row[m] \in Row
      BY DEF Inv, TypeOK
    <3>3. /\ row'[m].state = "ready" /\ row'[m].token = None
          /\ row'[m].history = row[m].history
      BY <3>1, <3>2 DEF Row
    <3> QED BY <2>2, <3>3
  <2>3. CASE row' = Released(t) /\ ~(row[m].token = t /\ row[m].state = "in_flight")
    BY <2>3 DEF Released
  <2> QED BY <1>1, <2>1, <2>2, <2>3 DEF Release
<1>2. CASE Renew(r, t)
  <2> DEFINE p == turn[t].parent
  <2>1. CASE row' = row
    BY <2>1
  <2>2. CASE /\ p # None /\ Holds(t, p, Now(r))
             /\ row' = [row EXCEPT ![p].until = Now(r) + Lease]
    <3>1. p \in Turns /\ row[p].state = "in_flight"
      BY <2>2 DEF Inv, TypeOK, Turn, Holds
    <3>2. m # p => row'[m] = row[m]
      BY <2>2 DEF Inv, TypeOK
    <3>3. row[p] \in Row /\ row'[p] = [row[p] EXCEPT !.until = Now(r) + Lease]
      BY <2>2, <3>1 DEF Inv, TypeOK
    <3>4. /\ row'[p].state = row[p].state /\ row'[p].token = row[p].token
          /\ row'[p].history = row[p].history
      BY <3>3 DEF Row
    <3> QED BY <3>1, <3>2, <3>4
  <2> QED BY <1>2, <2>1, <2>2 DEF Renew
<1> QED BY <1>1, <1>2

(* Background work changes rows, never turns.                              *)
LEMMA BackgroundRest ==
    ASSUME Inv, NEW r \in Replicas,
           MaintainBegin(r) \/ Expire(r) \/ \E t \in Turns : Release(r, t) \/ Renew(r, t)
    PROVE  Rest'
<1>1. TurnInv' /\ TokenInv' /\ ContinuedOnce'
  <2>1. UNCHANGED <<turn, committed, active>>
    BY DEF MaintainBegin, Expire, Release, Renew
  <2>2. \A q \in Replicas : /\ cleanup'[q] \subseteq cleanup[q]
                            /\ renewing'[q] \subseteq renewing[q] \cup active[q]
    BY DEF Inv, TypeOK, MaintainBegin, Expire, Release, Renew
  <2> QED BY <2>1, <2>2, SameTurns
<1>2. \A m \in Turns :
        \/ row'[m] = row[m]
        \/ row'[m] = NoRow
        \/ /\ row[m].state = "in_flight" /\ row'[m].history = row[m].history
           /\ \/ row'[m].state = "ready" /\ row'[m].token = None
              \/ row'[m].state = "in_flight" /\ row'[m].token = row[m].token
  <2> DEFINE Kept(m) ==
        \/ row'[m] = row[m]
        \/ row'[m] = NoRow
        \/ /\ row[m].state = "in_flight" /\ row'[m].history = row[m].history
           /\ \/ row'[m].state = "ready" /\ row'[m].token = None
              \/ row'[m].state = "in_flight" /\ row'[m].token = row[m].token
  <2>1. CASE MaintainBegin(r)
    BY <2>1 DEF MaintainBegin
  <2>2. CASE Expire(r)
    BY <2>2 DEF Expire
  <2>3. ASSUME NEW t \in Turns, Release(r, t) \/ Renew(r, t), NEW m \in Turns PROVE Kept(m)
    BY <2>3, LeaseRows
  <2> QED BY <2>1, <2>2, <2>3
<1>3. UNCHANGED <<turn, committed>>
  BY DEF MaintainBegin, Expire, Release, Renew
<1>4. RowInv'
  BY <1>2, <1>3, ConstantsAssumption DEF Inv, RowInv, NoRow
<1>5. ParentInv'
  BY <1>2, <1>3 DEF Inv, ParentInv, NoRow
<1> QED BY <1>1, <1>4, <1>5 DEF Rest

(* Every step keeps the invariant.                                         *)
LEMMA InvStep == Inv /\ [Next]_vars => Inv'
<1> SUFFICES ASSUME Inv, [Next]_vars PROVE Inv'
  OBVIOUS
<1>1. TypeOK'
  BY TypeStep DEF Inv
<1>2. CASE Tick \/ UNCHANGED vars
  <2>1. UNCHANGED <<row, turn, committed, active, cleanup, renewing>>
    BY <1>2 DEF Tick, vars
  <2>2. TurnInv' /\ TokenInv' /\ ContinuedOnce'
    BY <2>1, SameTurns
  <2>3. RowInv' /\ ParentInv'
    BY <2>1, SameTable
  <2> QED BY <1>1, <2>2, <2>3 DEF Inv
<1>3. ASSUME Next, ~Tick PROVE Rest'
  BY <1>3, PrepareCreateRest, LoadRest, ReserveRest, PhaseRest, CrashRest, PublishRest,
     BackgroundRest DEF Next
<1> QED BY <1>1, <1>2, <1>3 DEF Inv, Rest

(* The invariant holds at the start.                                       *)
LEMMA InitInv == Init => Inv
<1> SUFFICES ASSUME Init PROVE Inv
  OBVIOUS
<1>1. TypeOK
  <2>1. NoRow \in Row
    BY DEF NoRow, Row
  <2>2. turn \in [Turns -> Turn]
    BY DEF Init, Turn
  <2>3. skew \in [Replicas -> 0..MaxSkew]
    BY DEF Init
  <2> QED BY <2>1, <2>2, <2>3 DEF Init, TypeOK
<1> QED BY <1>1, ConstantsAssumption
        DEF Init, Inv, NoRow, TurnInv, RowInv, ParentInv, TokenInv, ContinuedOnce

(* The invariant of MessageThreads.                                        *)
THEOREM Invariance == Spec => []Inv
<1>1. Init => Inv
  BY InitInv
<1>2. Inv /\ [Next]_vars => Inv'
  BY InvStep
<1> QED BY <1>1, <1>2, PTL DEF Spec

-----------------------------------------------------------------------------
(* A lease can be relied on *)

(* What one step may do to a lease whose request goes on.                  *)
LeaseKept ==
    \A p, t \in Turns :
      /\ row[p].state = "in_flight" /\ row[p].token = t
      /\ turn[t].phase \in {"reserved", "active"} /\ turn'[t] = turn[t]
      /\ row'[p].token # t
      => \E r \in Replicas : row[p].until <= Now(r)

(* Only a deletion or a takeover of an expired row takes a token away.     *)
LEMMA LeaseStep == Inv /\ Next => LeaseKept
<1> SUFFICES ASSUME Inv, Next, NEW p \in Turns, NEW t \in Turns,
                    row[p].state = "in_flight", row[p].token = t,
                    turn[t].phase \in {"reserved", "active"}, turn'[t] = turn[t],
                    row'[p].token # t
             PROVE  \E r \in Replicas : row[p].until <= Now(r)
  BY DEF LeaseKept
<1>1. CASE UNCHANGED row
  BY <1>1
<1>2. ASSUME NEW r \in Replicas, Expire(r) PROVE row[p].until <= Now(r)
  BY <1>2 DEF Expire, Expired
<1>3. ASSUME NEW r \in Replicas, NEW u \in Turns, Release(r, u) PROVE FALSE
  <2>1. u # t
    BY <1>3 DEF Release, Inv, TokenInv
  <2> QED BY <1>3, <2>1 DEF Release, Released
<1>4. ASSUME NEW r \in Replicas, NEW u \in Turns, Renew(r, u) PROVE FALSE
  <2>1. row[p] \in Row /\ row \in [Turns -> Row]
    BY DEF Inv, TypeOK
  <2>2. turn[u].parent \in Turns \cup {None}
    BY DEF Inv, TypeOK, Turn
  <2>3. row'[p] = row[p] \/ row'[p] = [row[p] EXCEPT !.until = Now(r) + Lease]
    BY <1>4, <2>1, <2>2 DEF Renew
  <2>4. row'[p].token = row[p].token
    BY <2>1, <2>3 DEF Row
  <2> QED BY <2>4
<1>5. ASSUME NEW u \in Turns, Reserve(u) PROVE \E r \in Replicas : row[p].until <= Now(r)
  <2>1. turn[u].rep \in Replicas /\ u # t
    BY <1>5 DEF Reserve, Inv, TurnInv
  <2>2. CASE turn[u].parent = p
    BY <1>5, <2>1, <2>2 DEF Reserve, Reservable
  <2>3. CASE turn[u].parent # p
    <3>1. row'[p] = row[p]
      BY <1>5, <2>3 DEF Reserve, Inv, TypeOK
    <3> QED BY <3>1
  <2> QED BY <2>2, <2>3
<1>6. ASSUME NEW u \in Turns, NEW keep \in BOOLEAN, Publish(u, keep) PROVE FALSE
  <2>1. turn'[u].phase = "published" /\ turn[u].phase = "active"
    BY <1>6 DEF Publish, Inv, TypeOK, Turn
  <2>2. u # t
    BY <2>1
  <2>3. p # turn[u].parent
    BY <1>6, <2>2, ConstantsAssumption DEF Publish, Holds
  <2>4. p # u
    BY <2>1 DEF Inv, TurnInv, RowInv
  <2>5. row'[p] = row[p]
    BY <1>6, <2>3, <2>4 DEF Publish
  <2> QED BY <2>5
<1>7. \/ UNCHANGED row
      \/ \E r \in Replicas : Expire(r)
      \/ \E r \in Replicas, u \in Turns : Release(r, u) \/ Renew(r, u)
      \/ \E u \in Turns : Reserve(u) \/ \E keep \in BOOLEAN : Publish(u, keep)
  BY DEF Next, Tick, MaintainBegin, Crash, PrepareCreate, Load, Refuse, Activate, Finish, Abandon
<1> QED BY <1>1, <1>2, <1>3, <1>4, <1>5, <1>6, <1>7

(* One continuation per message, and a lease its holder can rely on.       *)
THEOREM ThreadsAreSound == Spec => ThreadsSound
<1>1. Inv => TypeOK /\ ContinuedOnce
  BY DEF Inv
<1>2. Inv /\ [Next]_vars => [LeaseKept]_vars
  BY LeaseStep
<1>3. Spec => [](TypeOK /\ ContinuedOnce)
  BY <1>1, Invariance, PTL
<1>4. Spec => [][LeaseKept]_vars
  BY <1>2, Invariance, PTL DEF Spec
<1>5. Spec => LeaseRespected
  BY <1>4, PTL DEF LeaseRespected, LeaseKept
<1> QED BY <1>3, <1>5, PTL DEF ThreadsSound

-----------------------------------------------------------------------------
(* The store implements ThreadLog *)

(* What the store's state means to ThreadLog.                              *)
OpenRows == {m \in Turns : row[m].state \in {"ready", "in_flight"}}
Histories == [m \in Turns |-> row[m].history]
Parents == {turn[t].parent : t \in committed} \ {None}

(* A step that keeps every row's history and whether it may be continued,  *)
(* and commits nothing, is none of ThreadLog's.                            *)
LEMMA Stutters ==
    ASSUME Inv, committed' = committed,
           \A m \in Turns :
             /\ row'[m].state \in {"ready", "in_flight"} <=> row[m].state \in {"ready", "in_flight"}
             /\ row'[m].history = row[m].history,
           \A t \in committed : turn'[t].parent = turn[t].parent
    PROVE  UNCHANGED <<OpenRows, Histories, Parents>>
<1>1. UNCHANGED OpenRows
  BY DEF OpenRows
<1>2. UNCHANGED Histories
  BY DEF Histories
<1>3. UNCHANGED Parents
  BY DEF Parents
<1> QED BY <1>1, <1>2, <1>3

(* Requests change neither, but for the transaction.                       *)
LEMMA RequestStutters ==
    ASSUME Inv,
           \/ Tick
           \/ \E r \in Replicas : MaintainBegin(r) \/ Crash(r)
           \/ \E r \in Replicas, t \in Turns : PrepareCreate(t, r) \/ \E p \in Turns : Load(t, r, p)
           \/ \E t \in Turns : Refuse(t) \/ Activate(t) \/ Finish(t) \/ Abandon(t)
    PROVE  UNCHANGED <<OpenRows, Histories, Parents>>
<1>1. UNCHANGED <<row, committed>>
  BY DEF Tick, MaintainBegin, Crash, PrepareCreate, Load, Refuse, Activate, Finish, Abandon
<1>2. ASSUME NEW u \in committed PROVE turn'[u].parent = turn[u].parent
  <2>1. u \in Turns /\ turn[u].phase # "new"
    BY DEF Inv, TypeOK, TurnInv
  <2>2. turn[u] \in Turn /\ turn \in [Turns -> Turn]
    BY <2>1 DEF Inv, TypeOK
  <2>3. CASE Tick \/ \E r \in Replicas : MaintainBegin(r)
    BY <2>3 DEF Tick, MaintainBegin
  <2>4. ASSUME NEW r \in Replicas, Crash(r) PROVE turn'[u].parent = turn[u].parent
    <3>1. turn'[u] = turn[u] \/ turn'[u] = [turn[u] EXCEPT !.phase = "failed", !.left = clock]
      BY <2>1, <2>4 DEF Crash
    <3> QED BY <2>2, <3>1 DEF Turn
  <2>5. ASSUME NEW r \in Replicas, NEW t \in Turns,
               PrepareCreate(t, r) \/ \E p \in Turns : Load(t, r, p)
        PROVE  turn'[u].parent = turn[u].parent
    <3>1. u # t
      BY <2>1, <2>5 DEF PrepareCreate, Load
    <3>2. turn'[u] = turn[u]
      BY <2>1, <2>2, <2>5, <3>1 DEF PrepareCreate, Load
    <3> QED BY <3>2
  <2>6. ASSUME NEW t \in Turns, Refuse(t) \/ Activate(t) \/ Finish(t) \/ Abandon(t)
        PROVE  turn'[u].parent = turn[u].parent
    BY <2>1, <2>2, <2>6 DEF Turn, Refuse, Activate, Finish, Abandon, Fail
  <2> QED BY <2>3, <2>4, <2>5, <2>6
<1> QED BY <1>1, <1>2, Stutters

(* A reservation, its renewal and its release leave the message open.      *)
LEMMA LeaseStutters ==
    ASSUME Inv,
           \/ \E t \in Turns : Reserve(t)
           \/ \E r \in Replicas, t \in Turns : Release(r, t) \/ Renew(r, t)
    PROVE  UNCHANGED <<OpenRows, Histories, Parents>>
<1> DEFINE Kept(m) ==
        /\ row'[m].state \in {"ready", "in_flight"} <=> row[m].state \in {"ready", "in_flight"}
        /\ row'[m].history = row[m].history
<1>1. ASSUME NEW t \in Turns, Reserve(t), NEW m \in Turns PROVE Kept(m)
  <2>1. row[m] \in Row /\ row \in [Turns -> Row]
    BY DEF Inv, TypeOK
  <2>2. CASE m = turn[t].parent
    <3>1. row'[m] = [row[m] EXCEPT !.state = "in_flight", !.token = t,
                                   !.until = Now(turn[t].rep) + Lease]
      BY <1>1, <2>1, <2>2 DEF Reserve
    <3>2. row'[m].state = "in_flight" /\ row'[m].history = row[m].history
      BY <2>1, <3>1 DEF Row
    <3>3. row[m].state \in {"ready", "in_flight"}
      BY <1>1, <2>2 DEF Reserve, Reservable
    <3> QED BY <3>2, <3>3
  <2>3. CASE m # turn[t].parent
    <3>1. row'[m] = row[m]
      BY <1>1, <2>1, <2>3 DEF Reserve
    <3> QED BY <3>1
  <2> QED BY <2>2, <2>3
<1>2. ASSUME NEW r \in Replicas, NEW t \in Turns, Release(r, t) \/ Renew(r, t), NEW m \in Turns
      PROVE  Kept(m)
  BY <1>2, LeaseRows
<1>3. committed' = committed /\ \A t \in Turns : turn'[t].parent = turn[t].parent
  <2>1. ASSUME NEW u \in Turns, Reserve(u)
        PROVE  committed' = committed /\ \A t \in Turns : turn'[t].parent = turn[t].parent
    <3>1. turn \in [Turns -> Turn]
      BY DEF Inv, TypeOK
    <3>2. \A t \in Turns : turn'[t] = turn[t] \/ turn'[t] = [turn[t] EXCEPT !.phase = "reserved"]
      BY <2>1, <3>1 DEF Reserve
    <3>3. \A t \in Turns : turn'[t].parent = turn[t].parent
      BY <3>1, <3>2 DEF Turn
    <3> QED BY <2>1, <3>3 DEF Reserve
  <2>2. CASE \E r \in Replicas, t \in Turns : Release(r, t) \/ Renew(r, t)
    BY <2>2 DEF Release, Renew
  <2> QED BY <2>1, <2>2
<1>4. committed \subseteq Turns
  BY DEF Inv, TypeOK
<1> QED BY <1>1, <1>2, <1>3, <1>4, Stutters

(* The transaction is ThreadLog's one step.                                *)
LEMMA PublishImplements ==
    ASSUME Inv, NEW t \in Turns, NEW keep \in BOOLEAN, Publish(t, keep)
    PROVE  Log!Next \/ UNCHANGED <<OpenRows, Histories, Parents>>
<1> DEFINE p == turn[t].parent
<1>1. /\ committed' = committed \cup {t}
      /\ \A u \in Turns : turn'[u].parent = turn[u].parent
  BY DEF Publish, Inv, TypeOK, Turn
<1>2. Parents' = Parents \cup ({p} \ {None})
  BY <1>1 DEF Parents, Inv, TypeOK
<1>3. t \notin committed /\ row[t].state = "absent"
  BY DEF Publish, Inv, TurnInv, RowInv
<1>4. t \notin OpenRows \cup Parents
  BY <1>3 DEF OpenRows, Parents, Inv, TypeOK, TurnInv
<1>5. p \in Turns \cup {None} /\ p # t
  BY <1>3, ConstantsAssumption DEF Inv, TypeOK, Turn, TurnInv
<1>6. \A m \in Turns :
        row'[m] = IF m = p THEN Consumed(p)
                  ELSE IF m = t /\ keep THEN Child(t, Now(turn[t].rep)) ELSE row[m]
  BY DEF Publish
<1>7. /\ Child(t, Now(turn[t].rep)).state = "ready"
      /\ Child(t, Now(turn[t].rep)).history = Append(turn[t].base, t)
  BY DEF Child, NoRow
<1>8. p # None => /\ p \in OpenRows /\ Histories[p] = turn[t].base
                  /\ Consumed(p).state = "consumed" /\ Consumed(p).history = <<>>
  BY <1>5 DEF Publish, Holds, OpenRows, Histories, Consumed, Inv, TypeOK, Row, ParentInv
<1>9. CASE p = None /\ ~keep
  <2>1. \A m \in Turns : row'[m] = row[m]
    BY <1>6, <1>9, ConstantsAssumption
  <2> QED BY <1>2, <1>9, <2>1 DEF OpenRows, Histories
<1>10. CASE p = None /\ keep
  <2>1. \A m \in Turns : m # t => row'[m] = row[m]
    BY <1>6, <1>10, ConstantsAssumption
  <2>2. row'[t].state = "ready" /\ row'[t].history = <<t>>
    BY <1>5, <1>6, <1>7, <1>10 DEF Inv, TurnInv
  <2>3. OpenRows' = OpenRows \cup {t}
    BY <2>1, <2>2 DEF OpenRows
  <2>4. Histories' = [Histories EXCEPT ![t] = <<t>>]
    BY <2>1, <2>2 DEF Histories
  <2>5. Log!Begin(t)
    BY <1>2, <1>4, <1>10, <2>3, <2>4 DEF Log!Begin, OpenRows, Histories, Parents
  <2> QED BY <2>5 DEF Log!Next
<1>11. CASE p # None /\ ~keep
  <2>1. \A m \in Turns : m # p => row'[m] = row[m]
    BY <1>6, <1>11
  <2>2. row'[p].state = "consumed" /\ row'[p].history = <<>>
    BY <1>5, <1>6, <1>8, <1>11
  <2>3. OpenRows' = OpenRows \ {p}
    BY <2>1, <2>2 DEF OpenRows
  <2>4. Histories' = [Histories EXCEPT ![p] = <<>>]
    BY <2>1, <2>2 DEF Histories
  <2>5. PICK q \in Turns : q = p
    BY <1>5, <1>11
  <2>6. q \in OpenRows /\ Parents' = Parents \cup {q}
    BY <1>2, <1>8, <1>11, <2>5
  <2>7. OpenRows' = OpenRows \ {q} /\ Histories' = [Histories EXCEPT ![q] = <<>>]
    BY <2>3, <2>4, <2>5
  <2>8. Log!Discard(q)
    BY <2>6, <2>7 DEF Log!Discard, OpenRows, Histories, Parents
  <2> QED BY <2>8 DEF Log!Next
<1>12. CASE p # None /\ keep
  <2>1. \A m \in Turns : m # p /\ m # t => row'[m] = row[m]
    BY <1>6, <1>12
  <2>2. row'[p].state = "consumed" /\ row'[p].history = <<>>
    BY <1>5, <1>6, <1>8, <1>12
  <2>3. row'[t].state = "ready" /\ row'[t].history = Append(Histories[p], t)
    BY <1>5, <1>6, <1>7, <1>8, <1>12
  <2>4. OpenRows' = (OpenRows \ {p}) \cup {t}
    BY <1>5, <2>1, <2>2, <2>3 DEF OpenRows
  <2>5. Histories' = [Histories EXCEPT ![t] = Append(Histories[p], t), ![p] = <<>>]
    BY <1>5, <2>1, <2>2, <2>3 DEF Histories
  <2>6. Log!Continue(p, t)
    <3>1. /\ p \in OpenRows /\ t \notin OpenRows \cup Parents
          /\ Parents' = Parents \cup {p}
      BY <1>2, <1>4, <1>8, <1>12
    <3> HIDE DEF p
    <3> QED BY <2>4, <2>5, <3>1 DEF Log!Continue, OpenRows, Histories, Parents
  <2>7. PICK q \in Turns : q = p
    BY <1>5, <1>12
  <2>8. Log!Continue(q, t)
    BY <2>6, <2>7
  <2> QED BY <2>8 DEF Log!Next
<1> QED BY <1>9, <1>10, <1>11, <1>12

(* Expiry forgets the open messages among what it deletes.                 *)
LEMMA ExpireImplements ==
    ASSUME Inv, NEW r \in Replicas, Expire(r)
    PROVE  Log!Next \/ UNCHANGED <<OpenRows, Histories, Parents>>
<1> DEFINE S == Expired(Now(r)) \cap OpenRows
<1>1. UNCHANGED Parents
  BY DEF Expire, Parents
<1>2. \A m \in Turns : row'[m] = IF m \in Expired(Now(r)) THEN NoRow ELSE row[m]
  BY DEF Expire
<1>3. NoRow.state = "absent" /\ NoRow.history = <<>>
  BY DEF NoRow
<1>4. OpenRows' = OpenRows \ S
  BY <1>2, <1>3 DEF OpenRows
<1>5. \A m \in Turns : m \notin OpenRows => row[m].history = <<>>
  BY DEF OpenRows, Inv, TypeOK, Row, RowInv
<1>6. Histories' = [m \in Turns |-> IF m \in S THEN <<>> ELSE Histories[m]]
  BY <1>2, <1>3, <1>5 DEF Histories
<1>7. CASE S = {}
  BY <1>1, <1>4, <1>6, <1>7 DEF Histories
<1>8. CASE S # {}
  <2>1. PICK X \in SUBSET Turns : X = S
    BY DEF OpenRows
  <2>2. X # {} /\ X \subseteq OpenRows /\ OpenRows' = OpenRows \ X
    BY <1>4, <1>8, <2>1
  <2>3. Histories' = [m \in Turns |-> IF m \in X THEN <<>> ELSE Histories[m]]
    BY <1>6, <2>1
  <2>4. Log!Forget(X)
    BY <1>1, <2>2, <2>3 DEF Log!Forget, OpenRows, Histories, Parents
  <2> QED BY <2>4 DEF Log!Next
<1> QED BY <1>7, <1>8

(* See Log: every behaviour of the store is one of ThreadLog.              *)
THEOREM StoreImplementsLog == Spec => ImplementsThreadLog
<1>1. Init => Log!Init
  BY ConstantsAssumption DEF Init, NoRow, Log!Init
<1>2. Inv /\ [Next]_vars => [Log!Next]_(Log!vars)
  <2> SUFFICES ASSUME Inv, [Next]_vars PROVE Log!Next \/ UNCHANGED Log!vars
    OBVIOUS
  <2>1. Log!Next \/ UNCHANGED <<OpenRows, Histories, Parents>>
    <3>1. CASE UNCHANGED vars
      BY <3>1 DEF vars, OpenRows, Histories, Parents
    <3> QED BY <3>1, RequestStutters, LeaseStutters, PublishImplements, ExpireImplements DEF Next
  <2> QED BY <2>1 DEF Log!vars, OpenRows, Histories, Parents
<1> QED BY <1>1, <1>2, Invariance, PTL DEF Spec, ImplementsThreadLog, Log!Spec

-----------------------------------------------------------------------------
(* An abandoned lease ends *)

(* The numbers of a lease.                                                 *)
LEMMA LeaseNumbers ==
    ASSUME Inv, NEW p \in Turns, NEW t \in Turns, row[p].token = t
    PROVE  /\ turn[t].rep \in Replicas /\ turn[t].phase \notin {"new", "loaded"}
           /\ {row[p].until, clock, skew[turn[t].rep], turn[t].left, Lease} \subseteq Nat
<1>1. turn[t].phase \notin {"new", "loaded"}
  BY DEF Inv, RowInv
<1>2. turn[t].rep \in Replicas
  BY <1>1 DEF Inv, TurnInv
<1>3. row[p].until \in Nat /\ turn[t].left \in Nat
  BY DEF Inv, TypeOK, Row, Turn
<1> QED BY <1>1, <1>2, <1>3, ConstantsAssumption DEF Inv, TypeOK

(* A lease and its request as they were, and no pass that took it up: the  *)
(* bounds stay.                                                            *)
LEMMA SameLease ==
    ASSUME Inv, UntilInv, NEW p \in Turns, NEW t \in Turns, row[p].token = t,
           row'[p] = row[p], turn'[t] = turn[t], skew' = skew,
           clock' \in {clock, clock + 1},
           t \in renewing'[turn[t].rep] => t \in renewing[turn[t].rep] \/ turn[t].phase # "failed"
    PROVE  Bounded(p, t)'
<1>1. Bounded(p, t)
  BY DEF UntilInv
<1> QED BY <1>1, LeaseNumbers DEF Bounded

(* The request of a lease fails: whatever it is renewed with later starts  *)
(* from here.                                                              *)
LEMMA LeaseFails ==
    ASSUME Inv, UntilInv, NEW p \in Turns, NEW t \in Turns, row[p].token = t,
           row'[p] = row[p], UNCHANGED <<skew, clock>>,
           turn[t].phase \notin {"done", "failed"}, turn'[t].rep = turn[t].rep,
           turn'[t].phase = "failed", turn'[t].left = clock
    PROVE  Bounded(p, t)'
<1>1. Bounded(p, t) /\ turn[t].phase \in {"reserved", "active", "published"}
  BY LeaseNumbers DEF UntilInv, Inv, TypeOK, Turn
<1> QED BY <1>1, LeaseNumbers, ConstantsAssumption DEF Bounded

(* The bounds hold after every step.                                       *)
LEMMA UntilStep == Inv /\ UntilInv /\ [Next]_vars => UntilInv'
<1> SUFFICES ASSUME Inv, UntilInv, [Next]_vars, NEW p \in Turns, NEW t \in Turns,
                    row'[p].token = t
             PROVE  Bounded(p, t)'
  BY DEF UntilInv
<1>n. t # None
  BY ConstantsAssumption
<1>1. CASE UNCHANGED vars \/ Tick
  BY <1>1, SameLease DEF vars, Tick
<1>2. ASSUME NEW r \in Replicas, MaintainBegin(r) PROVE Bounded(p, t)'
  <2>1. t \in renewing'[turn[t].rep] => t \in renewing[turn[t].rep] \/ turn[t].phase # "failed"
    BY <1>2 DEF MaintainBegin, Inv, TypeOK, TokenInv
  <2> QED BY <1>2, <2>1, SameLease DEF MaintainBegin
<1>3. ASSUME NEW r \in Replicas, Expire(r) PROVE Bounded(p, t)'
  <2>1. row'[p] = row[p]
    BY <1>3, <1>n DEF Expire, NoRow
  <2> QED BY <1>3, <2>1, SameLease DEF Expire
<1>4. ASSUME NEW r \in Replicas, Crash(r) PROVE Bounded(p, t)'
  <2>1. row' = row /\ UNCHANGED <<skew, clock>>
    BY <1>4 DEF Crash
  <2>2. CASE turn[t].rep = r /\ turn[t].phase \notin {"new", "done", "failed"}
    <3>1. turn[t] \in Turn
      BY DEF Inv, TypeOK
    <3>2. turn'[t] = [turn[t] EXCEPT !.phase = "failed", !.left = clock]
      BY <1>4, <2>2 DEF Crash
    <3>3. turn'[t].phase = "failed" /\ turn'[t].left = clock /\ turn'[t].rep = turn[t].rep
      BY <3>1, <3>2 DEF Turn
    <3> QED BY <2>1, <2>2, <3>3, LeaseFails
  <2>3. CASE ~(turn[t].rep = r /\ turn[t].phase \notin {"new", "done", "failed"})
    <3>1. turn'[t] = turn[t]
      BY <1>4, <2>3 DEF Crash
    <3>2. t \in renewing'[turn[t].rep] => t \in renewing[turn[t].rep]
      BY <1>4, LeaseNumbers, <2>1 DEF Crash, Inv, TypeOK
    <3> QED BY <2>1, <3>1, <3>2, SameLease
  <2> QED BY <2>2, <2>3
<1>5. ASSUME NEW r \in Replicas, NEW u \in Turns,
             PrepareCreate(u, r) \/ \E q \in Turns : Load(u, r, q)
      PROVE  Bounded(p, t)'
  <2>1. UNCHANGED <<row, renewing, skew, clock>> /\ turn[u].phase = "new"
    BY <1>5 DEF PrepareCreate, Load
  <2>2. t # u
    BY <2>1, LeaseNumbers
  <2>3. turn'[t] = turn[t]
    BY <1>5, <2>2 DEF PrepareCreate, Load, Inv, TypeOK
  <2> QED BY <2>1, <2>3, SameLease
<1>6. ASSUME NEW r \in Replicas, NEW u \in Turns, Release(r, u) PROVE Bounded(p, t)'
  <2>1. row'[p] = row[p]
    <3>1. row[p] \in Row
      BY DEF Inv, TypeOK
    <3>2. [row[p] EXCEPT !.state = "ready", !.token = None, !.until = 0].token = None
      BY <3>1 DEF Row
    <3> QED BY <1>6, <1>n, <3>2 DEF Release, Released
  <2> QED BY <1>6, <2>1, SameLease DEF Release
<1>7. ASSUME NEW r \in Replicas, NEW u \in Turns, Renew(r, u) PROVE Bounded(p, t)'
  <2>1. UNCHANGED <<skew, clock, turn>>
    BY <1>7 DEF Renew
  <2>2. \A q \in Replicas : renewing'[q] \subseteq renewing[q]
    BY <1>7 DEF Renew, Inv, TypeOK
  <2>3. CASE row'[p] = row[p]
    BY <2>1, <2>2, <2>3, LeaseNumbers, SameLease
  <2>4. CASE row'[p] # row[p]
    <3>1. /\ turn[u].parent = p /\ Holds(u, p, Now(r))
          /\ row' = [row EXCEPT ![p].until = Now(r) + Lease]
          /\ u \in renewing[r] /\ renewing' = [renewing EXCEPT ![r] = @ \ {u}]
      BY <1>7, <2>4 DEF Renew, Inv, TypeOK
    <3>2. row[p] \in Row /\ row'[p] = [row[p] EXCEPT !.until = Now(r) + Lease]
      BY <3>1 DEF Inv, TypeOK
    <3>3. row'[p].until = Now(r) + Lease /\ row'[p].token = row[p].token
      BY <3>2 DEF Row
    <3>4. t = u /\ row[p].token = t /\ row[p].until > Now(r)
      BY <3>1, <3>3 DEF Holds
    <3>5. turn[t].rep = r
      BY <3>1, <3>4 DEF Inv, TokenInv
    <3>6. t \notin renewing'[r]
      BY <3>1, <3>4 DEF Inv, TypeOK
    <3>7. Bounded(p, t)
      BY <3>4 DEF UntilInv
    <3> QED BY <2>1, <3>1, <3>3, <3>4, <3>5, <3>6, <3>7, LeaseNumbers DEF Bounded, Now
  <2> QED BY <2>3, <2>4
<1>8. ASSUME NEW u \in Turns, Reserve(u) PROVE Bounded(p, t)'
  <2>1. /\ turn'[u].phase = "reserved" /\ turn'[u].rep = turn[u].rep /\ turn[u].rep \in Replicas
        /\ turn[u].phase = "loaded" /\ \A v \in Turns : v # u => turn'[v] = turn[v]
        /\ UNCHANGED <<renewing, skew, clock>>
    BY <1>8 DEF Reserve, Inv, TypeOK, Turn, TurnInv
  <2>2. CASE turn[u].parent = p
    <3>1. row'[p] = [row[p] EXCEPT !.state = "in_flight", !.token = u,
                                   !.until = Now(turn[u].rep) + Lease]
      BY <1>8, <2>2 DEF Reserve, Inv, TypeOK
    <3>2. row[p] \in Row
      BY DEF Inv, TypeOK
    <3>3. row'[p].token = u /\ row'[p].until = Now(turn[u].rep) + Lease
      BY <3>1, <3>2 DEF Row
    <3>4. clock \in Nat /\ skew[turn[u].rep] \in Nat /\ Lease \in Nat
      BY <2>1, ConstantsAssumption DEF Inv, TypeOK
    <3> QED BY <2>1, <3>3, <3>4 DEF Bounded, Now
  <2>3. CASE turn[u].parent # p
    <3>1. row'[p] = row[p]
      BY <1>8, <2>3 DEF Reserve, Inv, TypeOK
    <3>2. t # u
      BY <2>3, <3>1 DEF Inv, RowInv
    <3> QED BY <2>1, <3>1, <3>2, SameLease
  <2> QED BY <2>2, <2>3
<1>9. ASSUME NEW u \in Turns, Refuse(u) \/ Activate(u) \/ Finish(u) \/ Abandon(u)
      PROVE  Bounded(p, t)'
  <2>1. UNCHANGED <<row, renewing, skew, clock>>
    BY <1>9 DEF Refuse, Activate, Finish, Abandon
  <2>2. CASE t # u
    <3>1. turn'[t] = turn[t]
      BY <1>9, <2>2 DEF Refuse, Fail, Activate, Finish, Abandon, Inv, TypeOK
    <3> QED BY <2>1, <3>1, SameLease
  <2>3. CASE t = u /\ (Refuse(u) \/ Abandon(u))
    <3>1. /\ turn'[t].phase = "failed" /\ turn'[t].left = clock /\ turn'[t].rep = turn[t].rep
          /\ turn[t].phase \notin {"done", "failed"}
      BY <2>3 DEF Refuse, Fail, Abandon, Inv, TypeOK, Turn
    <3> QED BY <2>1, <3>1, LeaseFails
  <2>4. CASE t = u /\ (Activate(u) \/ Finish(u))
    <3>1. /\ turn'[t].rep = turn[t].rep
          /\ turn[t].phase \in {"reserved", "published"} /\ turn'[t].phase \in {"active", "done"}
      BY <2>4 DEF Activate, Finish, Inv, TypeOK, Turn
    <3>2. Bounded(p, t)
      BY <2>1 DEF UntilInv
    <3> QED BY <2>1, <3>1, <3>2 DEF Bounded
  <2> QED BY <1>9, <2>2, <2>3, <2>4
<1>10. ASSUME NEW u \in Turns, NEW keep \in BOOLEAN, Publish(u, keep) PROVE Bounded(p, t)'
  <2>1. /\ UNCHANGED <<renewing, skew, clock>>
        /\ \A v \in Turns : v # u => turn'[v] = turn[v]
    BY <1>10 DEF Publish, Inv, TypeOK
  <2>2. \A m \in Turns : Consumed(m).token = None
    BY DEF Consumed, Child, NoRow, Inv, TypeOK, Row
  <2>3. Child(u, Now(turn[u].rep)).token = None
    BY DEF Child, NoRow
  <2>4. row'[p] = row[p] /\ turn[u].parent # p
    BY <1>10, <1>n, <2>2, <2>3 DEF Publish
  <2>5. t # u
    BY <2>4 DEF Inv, RowInv
  <2> QED BY <2>1, <2>4, <2>5, SameLease
<1> QED BY <1>1, <1>2, <1>3, <1>4, <1>5, <1>6, <1>7, <1>8, <1>9, <1>10 DEF Next

(* A lease whose request is gone ends by itself: the crash of a replica or *)
(* a request that is dropped blocks its parent for two lease periods at    *)
(* most (storage/messages.rs maintain).                                    *)
THEOREM AbandonedLeasesEnd == Spec => []AbandonedExpires
<1>1. Init => UntilInv
  BY ConstantsAssumption DEF Init, NoRow, UntilInv
<1>2. Inv /\ UntilInv /\ [Next]_vars => UntilInv'
  BY UntilStep
<1>3. UntilInv => AbandonedExpires
  BY DEF UntilInv, Bounded, AbandonedExpires
<1>4. Spec => []UntilInv
  BY <1>1, <1>2, Invariance, PTL DEF Spec
<1> QED BY <1>3, <1>4, PTL

=============================================================================
