------------------------ MODULE ResponseSessionProofs ------------------------
(***************************************************************************)
(* Proofs about ResponseSession for every set of sessions and turns, every *)
(* checkpoint size and every limit: its types, budget, leases and closure, *)
(* then the histories its turns continue.                                  *)
(***************************************************************************)
EXTENDS ResponseSession, FiniteSetTheorems, TLAPS

-----------------------------------------------------------------------------
(* Types *)

(* TypeOK without the counter, whose type follows from the budget.         *)
TypeCore ==
    /\ groupClosed \in BOOLEAN
    /\ members \subseteq born
    /\ closing \subseteq born
    /\ born \subseteq Sessions
    /\ latest \in [Sessions -> SUBSET Checkpoint]
    /\ active \in [Sessions -> BOOLEAN]
    /\ closed \in [Sessions -> BOOLEAN]
    /\ turn \in [Turns -> Turn]
    /\ pins \subseteq Pin
    /\ stored \in [Turns -> SUBSET Seq(Turns)]
    /\ lineage \in [Turns -> Seq(Turns)]
    /\ waiting \in [Sessions -> WaitStates]

(* The items a turn inherits are a history.                                *)
LEMMA ParentItemsType ==
    ASSUME NEW t \in Turns, turn[t] \in Turn
    PROVE  ParentItems(t) \subseteq Seq(Turns)
<1>1. \A c \in turn[t].parent : c.history \in Seq(Turns)
  BY DEF Turn, Checkpoint
<1>2. <<>> \in Seq(Turns)
  OBVIOUS
<1> QED BY <1>1, <1>2 DEF ParentItems

(* Taking a lease keeps every variable in its type.                        *)
LEMMA TakeLeaseType ==
    ASSUME TypeCore, NEW t \in Turns, NEW s, NEW prev \in SUBSET Turns,
           NEW base \in Seq(Turns), NEW store \in BOOLEAN,
           NEW parent \in SUBSET Checkpoint, NEW phase \in Phases,
           TakeLease(t, s, prev, base, store, parent, phase)
    PROVE  TypeCore'
<1>1. s \in Sessions
  BY DEF TypeCore, TakeLease
<1>2. turn' \in [Turns -> Turn]
  <2> DEFINE new == [phase |-> phase, session |-> {s}, prev |-> prev,
                     store |-> store, parent |-> parent, built |-> {}]
  <2>1. new \in Turn
    BY <1>1 DEF Turn
  <2>2. turn' = [turn EXCEPT ![t] = new]
    BY DEF TakeLease
  <2> HIDE DEF new
  <2> QED BY <2>1, <2>2 DEF TypeCore
<1>3. lineage' \in [Turns -> Seq(Turns)]
  BY DEF TypeCore, TakeLease
<1> QED BY <1>1, <1>2, <1>3 DEF TypeCore, TakeLease, groupVars

(* A step keeps every variable except the counter in its type.             *)
LEMMA TypeCoreStep == TypeCore /\ [Next]_vars => TypeCore'
<1> SUFFICES ASSUME TypeCore, [Next]_vars PROVE TypeCore'
  OBVIOUS
<1> USE ConstantsAssumption
<1>1. CASE DropGroup
  BY <1>1 DEF TypeCore, DropGroup, sessionVars
<1>2. ASSUME NEW s \in Sessions, NewSession(s) PROVE TypeCore'
  BY <1>2 DEF TypeCore, NewSession, sessionVars
<1>3. ASSUME NEW s \in Sessions, CloseMember(s) PROVE TypeCore'
  BY <1>3 DEF TypeCore, CloseMember, CloseState
<1>4. ASSUME NEW s \in Sessions, DropSession(s) PROVE TypeCore'
  BY <1>4 DEF TypeCore, DropSession, CloseState
<1>5. ASSUME NEW s \in Sessions, PinResponse(s) PROVE TypeCore'
  <2>1. PICK c \in latest[s] : pins' = pins \cup {[owner |-> s, ckpt |-> c]}
    BY <1>5 DEF PinResponse
  <2>2. c \in Checkpoint
    BY <2>1 DEF TypeCore
  <2>3. pins' \subseteq Pin
    BY <2>1, <2>2 DEF TypeCore, Pin
  <2> QED BY <1>5, <2>3 DEF TypeCore, PinResponse, groupVars, sessionVars
<1>6. ASSUME NEW s \in Sessions, DiscardCachedResponse(s) PROVE TypeCore'
  BY <1>6 DEF TypeCore, DiscardCachedResponse, groupVars
<1>7. ASSUME NEW s \in Sessions, WaitStep(s) PROVE TypeCore'
  BY <1>7 DEF TypeCore, WaitStep, WaitEnable, WaitCheck, WaitPark, groupVars,
              sessionVars, WaitStates
<1>8. ASSUME NEW pin \in pins, Unpin(pin) PROVE TypeCore'
  BY <1>8 DEF TypeCore, Unpin, groupVars, sessionVars
<1>9. ASSUME NEW t \in Turns, NEW store \in BOOLEAN, NEW s \in Sessions,
             BeginFresh(t, s, store)
      PROVE TypeCore'
  <2>1. /\ {} \in SUBSET Turns /\ {} \in SUBSET Checkpoint
        /\ <<>> \in Seq(Turns) /\ "rehydrate" \in Phases
    BY DEF Phases
  <2>2. TakeLease(t, s, {}, <<>>, store, {}, "rehydrate")
    BY <1>9 DEF BeginFresh
  <2> QED BY <2>1, <2>2, TakeLeaseType
<1>10. ASSUME NEW t \in Turns, NEW store \in BOOLEAN, NEW s \in Sessions,
              NEW p \in Turns, Begin(t, s, p, store)
       PROVE TypeCore'
  <2> DEFINE own == {c \in latest[s] : c.rid = p}
             phase == IF own = {} THEN "fork" ELSE "rehydrate"
  <2>1. own \in SUBSET Checkpoint /\ phase \in Phases /\ lineage[p] \in Seq(Turns)
    BY DEF TypeCore, Phases
  <2>2. TakeLease(t, s, {p}, lineage[p], store, own, phase)
    BY <1>10 DEF Begin
  <2> HIDE DEF own, phase
  <2> QED BY <2>1, <2>2, TakeLeaseType
<1>11. ASSUME NEW t \in Turns, NEW store \in BOOLEAN, NEW pin \in pins,
              BeginPinned(t, pin, store)
       PROVE TypeCore'
  <2>1. pin.ckpt \in Checkpoint /\ pin.ckpt.rid \in Turns
    BY DEF TypeCore, Pin, Checkpoint
  <2>2. lineage[pin.ckpt.rid] \in Seq(Turns)
    BY <2>1 DEF TypeCore
  <2> QED BY <1>11, <2>1, <2>2, TakeLeaseType DEF BeginPinned, Phases
<1>12. ASSUME NEW t \in Turns, TurnStep(t) PROVE TypeCore'
  <2>0. turn[t] \in Turn
    BY DEF TypeCore
  <2>1. CASE ResolveFork(t)
    <3> DEFINE found == UNION {{c \in latest[m] : c.rid \in turn[t].prev} :
                          m \in {m \in members : m \notin turn[t].session /\ ~closed[m]}}
    <3>1. found \in SUBSET Checkpoint
      BY DEF TypeCore
    <3>2. turn' = [turn EXCEPT ![t].parent = found, ![t].phase = "rehydrate"]
      BY <2>1 DEF ResolveFork
    <3> HIDE DEF found
    <3>3. turn' \in [Turns -> Turn]
      BY <2>0, <3>1, <3>2 DEF TypeCore, Turn, Phases
    <3> QED BY <2>1, <3>3 DEF TypeCore, ResolveFork, groupVars, sessionVars
  <2>2. CASE Rehydrate(t)
    BY <2>0, <2>2 DEF TypeCore, Turn, Phases, Rehydrate, groupVars, sessionVars
  <2>3. ASSUME NEW bytes \in Sizes, RehydrateStored(t, bytes) PROVE TypeCore'
    <3>1. PICK p \in turn[t].prev, h \in UNION {stored[q] : q \in turn[t].prev} :
            turn' = [turn EXCEPT
                       ![t].phase = "run",
                       ![t].parent = {[rid |-> p, by |-> t, bytes |-> bytes,
                                       durable |-> TRUE, history |-> h]}]
      BY <2>3 DEF RehydrateStored
    <3> DEFINE c == [rid |-> p, by |-> t, bytes |-> bytes, durable |-> TRUE,
                     history |-> h]
    <3>2. c \in Checkpoint
      BY <2>0, <3>1 DEF TypeCore, Turn, Checkpoint
    <3>3. turn' = [turn EXCEPT ![t].phase = "run", ![t].parent = {c}]
      BY <3>1
    <3> HIDE DEF c
    <3>4. turn' \in [Turns -> Turn]
      BY <2>0, <3>2, <3>3 DEF TypeCore, Turn, Phases
    <3> QED BY <2>3, <3>4 DEF TypeCore, RehydrateStored, groupVars, sessionVars
  <2>4. ASSUME NEW bytes \in Sizes, BuildCheckpoint(t, bytes) PROVE TypeCore'
    <3>1. PICK h \in ParentItems(t) :
            turn' = [turn EXCEPT
                       ![t].phase = AfterBuild(t),
                       ![t].built = {[rid |-> t, by |-> t, bytes |-> bytes,
                                      durable |-> turn[t].store,
                                      history |-> Append(h, t)]}]
      BY <2>4 DEF BuildCheckpoint
    <3> DEFINE c == [rid |-> t, by |-> t, bytes |-> bytes,
                     durable |-> turn[t].store, history |-> Append(h, t)]
    <3>2. h \in Seq(Turns)
      BY <2>0, <3>1, ParentItemsType
    <3>3. c \in Checkpoint
      BY <2>0, <3>2 DEF Turn, Checkpoint
    <3>4. turn' = [turn EXCEPT ![t].phase = AfterBuild(t), ![t].built = {c}]
      BY <3>1
    <3> HIDE DEF c
    <3>5. turn' \in [Turns -> Turn]
      BY <2>0, <3>3, <3>4 DEF TypeCore, Turn, Phases, AfterBuild
    <3> QED BY <2>4, <3>5 DEF TypeCore, BuildCheckpoint, groupVars, sessionVars
  <2>5. CASE DurableWrite(t)
    <3>1. DurableHistory(t) \in SUBSET Seq(Turns)
      <4>1. \A h \in Seq(Turns) : Append(h, t) \in Seq(Turns)
        OBVIOUS
      <4>2. ParentItems(t) \subseteq Seq(Turns)
        BY <2>0, ParentItemsType
      <4>3. \A p \in turn[t].prev : stored[p] \subseteq Seq(Turns)
        BY <2>0 DEF TypeCore, Turn
      <4>4. <<t>> \in Seq(Turns)
        OBVIOUS
      <4> QED BY <4>1, <4>2, <4>3, <4>4 DEF DurableHistory
    <3>2. turn' \in [Turns -> Turn]
      BY <2>0, <2>5 DEF TypeCore, DurableWrite, Turn, Phases
    <3> QED BY <2>5, <3>1, <3>2 DEF TypeCore, DurableWrite, groupVars, sessionVars
  <2>6. CASE Publish(t)
    <3>1. turn' \in [Turns -> Turn]
      BY <2>0, <2>6 DEF TypeCore, Publish, EndLease, Turn, Phases
    <3>2. latest' \in [Sessions -> SUBSET Checkpoint] /\ active' \in [Sessions -> BOOLEAN]
      BY <2>0, <2>6 DEF TypeCore, Publish, Turn
    <3> QED BY <2>6, <3>1, <3>2 DEF TypeCore, Publish, groupVars
  <2>7. CASE Abandon(t)
    BY <2>0, <2>7 DEF TypeCore, Turn, Phases, Abandon, groupVars, sessionVars
  <2>8. CASE DropLease(t)
    <3>1. turn' \in [Turns -> Turn]
      BY <2>0, <2>8 DEF TypeCore, DropLease, EndLease, Turn, Phases
    <3>2. latest' \in [Sessions -> SUBSET Checkpoint] /\ active' \in [Sessions -> BOOLEAN]
      BY <2>0, <2>8 DEF TypeCore, DropLease, Turn
    <3> QED BY <2>8, <3>1, <3>2 DEF TypeCore, DropLease, groupVars
  <2>9. CASE NotifyIdle(t)
    <3>1. turn' \in [Turns -> Turn]
      BY <2>0, <2>9 DEF TypeCore, NotifyIdle, Turn, Phases
    <3>2. waiting' \in [Sessions -> WaitStates]
      BY <2>9 DEF TypeCore, NotifyIdle, Woken, WaitStates
    <3> QED BY <2>9, <3>1, <3>2 DEF TypeCore, NotifyIdle, groupVars, sessionVars
  <2> QED BY <1>12, <2>1, <2>2, <2>3, <2>4, <2>5, <2>6, <2>7, <2>8, <2>9 DEF TurnStep
<1>13. CASE UNCHANGED vars
  BY <1>13 DEF TypeCore, vars
<1> QED BY <1>1, <1>2, <1>3, <1>4, <1>5, <1>6, <1>7, <1>8, <1>9, <1>10, <1>11,
           <1>12, <1>13 DEF Next, WaitStep

-----------------------------------------------------------------------------
(* Leases *)

(* A turn that holds a lease, or has just ended it, names one session; a   *)
(* turn without a lease references no checkpoint; a replacement exists only*)
(* between its reservation and publication; the member scan of begin runs  *)
(* only for a turn without a parent.                                       *)
TurnInv ==
    \A t \in Turns :
      /\ HasLease(t) \/ turn[t].phase = "notify" => \E s \in Sessions : turn[t].session = {s}
      /\ ~HasLease(t) => turn[t].parent = {} /\ turn[t].built = {}
      /\ turn[t].built # {} => turn[t].phase \in {"write", "publish"}
      /\ turn[t].phase = "fork" => turn[t].parent = {}

LeaseInv == TurnInv /\ SerialLease

(* A turn takes the lease of a session that was free.                      *)
LEMMA TakeLeaseLease ==
    ASSUME TypeCore, LeaseInv, NEW t \in Turns, NEW s, NEW prev, NEW base,
           NEW store, NEW parent, NEW phase \in {"fork", "rehydrate"},
           phase = "fork" => parent = {},
           TakeLease(t, s, prev, base, store, parent, phase)
    PROVE  LeaseInv'
<1>1. s \in Sessions /\ turn[t].phase = "new" /\ ~active[s]
  BY DEF TypeCore, TakeLease, SlotFree
<1>2. /\ turn'[t].phase = phase /\ turn'[t].session = {s} /\ turn'[t].built = {}
      /\ turn'[t].parent = parent
      /\ \A u \in Turns \ {t} : turn'[u] = turn[u]
      /\ active'[s] = TRUE
      /\ \A r \in Sessions \ {s} : active'[r] = active[r]
  BY <1>1 DEF TypeCore, TakeLease
<1>3. TurnInv'
  BY <1>1, <1>2 DEF LeaseInv, TurnInv, HasLease, LeasePhases
<1>4. SerialLease'
  BY <1>1, <1>2 DEF LeaseInv, SerialLease, HasLease, LeasePhases
<1> QED BY <1>3, <1>4 DEF LeaseInv

(* A turn moves on while it keeps its lease.                               *)
LEMMA KeepLease ==
    ASSUME TypeCore, LeaseInv, NEW t \in Turns, HasLease(t), UNCHANGED active,
           turn'[t].phase \in LeasePhases, turn'[t].session = turn[t].session,
           turn'[t].built # {} => turn'[t].phase \in {"write", "publish"},
           turn'[t].phase # "fork",
           \A u \in Turns \ {t} : turn'[u] = turn[u]
    PROVE  LeaseInv'
<1>1. TurnInv'
  BY DEF LeaseInv, TurnInv, HasLease, LeasePhases
<1>2. SerialLease'
  BY DEF LeaseInv, SerialLease, HasLease
<1> QED BY <1>1, <1>2 DEF LeaseInv

(* A turn ends its lease and frees the session.                            *)
LEMMA EndLeaseLease ==
    ASSUME TypeCore, LeaseInv, NEW t \in Turns, HasLease(t), EndLease(t),
           NEW s \in turn[t].session, active' = [active EXCEPT ![s] = FALSE]
    PROVE  LeaseInv'
<1>1. turn[t] \in Turn /\ turn[t].session = {s} /\ s \in Sessions
  BY DEF TypeCore, LeaseInv, TurnInv, Turn
<1>2. /\ turn'[t].phase = "notify" /\ turn'[t].session = {s}
      /\ turn'[t].parent = {} /\ turn'[t].built = {}
      /\ \A u \in Turns \ {t} : turn'[u] = turn[u]
  BY <1>1 DEF TypeCore, EndLease, Turn
<1>3. /\ active'[s] = FALSE
      /\ \A r \in Sessions \ {s} : active'[r] = active[r]
  BY <1>1 DEF TypeCore
<1>4. TurnInv'
  BY <1>1, <1>2 DEF LeaseInv, TurnInv, HasLease, LeasePhases
<1>5. SerialLease'
  BY <1>1, <1>2, <1>3 DEF LeaseInv, SerialLease, HasLease, LeasePhases
<1> QED BY <1>4, <1>5 DEF LeaseInv

(* Leases stay exclusive across every step.                                *)
LEMMA LeaseStep == TypeCore /\ LeaseInv /\ [Next]_vars => LeaseInv'
<1> SUFFICES ASSUME TypeCore, LeaseInv, [Next]_vars PROVE LeaseInv'
  OBVIOUS
<1>1. ASSUME UNCHANGED <<turn, active>> PROVE LeaseInv'
  BY <1>1 DEF LeaseInv, TurnInv, SerialLease, HasLease
<1>2. CASE DropGroup
  BY <1>1, <1>2 DEF DropGroup, sessionVars
<1>3. ASSUME NEW s \in Sessions,
             NewSession(s) \/ CloseMember(s) \/ DropSession(s) \/ PinResponse(s)
             \/ DiscardCachedResponse(s) \/ WaitStep(s)
      PROVE  LeaseInv'
  BY <1>1, <1>3 DEF NewSession, CloseMember, DropSession, CloseState, PinResponse,
     DiscardCachedResponse, WaitStep, WaitEnable, WaitCheck, WaitPark, sessionVars
<1>4. ASSUME NEW pin \in pins, Unpin(pin) PROVE LeaseInv'
  BY <1>1, <1>4 DEF Unpin, sessionVars
<1>5. ASSUME NEW t \in Turns, NEW store \in BOOLEAN, NEW s \in Sessions,
             BeginFresh(t, s, store)
      PROVE  LeaseInv'
  BY <1>5, TakeLeaseLease DEF BeginFresh
<1>6. ASSUME NEW t \in Turns, NEW store \in BOOLEAN, NEW s \in Sessions,
             NEW p \in Turns, Begin(t, s, p, store)
      PROVE  LeaseInv'
  <2> DEFINE own == {c \in latest[s] : c.rid = p}
             phase == IF own = {} THEN "fork" ELSE "rehydrate"
  <2>1. phase \in {"fork", "rehydrate"} /\ (phase = "fork" => own = {})
    OBVIOUS
  <2>2. TakeLease(t, s, {p}, lineage[p], store, own, phase)
    BY <1>6 DEF Begin
  <2> HIDE DEF own, phase
  <2> QED BY <2>1, <2>2, TakeLeaseLease
<1>7. ASSUME NEW t \in Turns, NEW store \in BOOLEAN, NEW pin \in pins,
             BeginPinned(t, pin, store)
      PROVE  LeaseInv'
  BY <1>7, TakeLeaseLease DEF BeginPinned
<1>8. ASSUME NEW t \in Turns, TurnStep(t) PROVE LeaseInv'
  <2>0. turn[t] \in Turn
    BY DEF TypeCore
  <2>1. CASE ResolveFork(t)
    BY <2>0, <2>1, KeepLease
       DEF ResolveFork, TypeCore, Turn, HasLease, LeasePhases, sessionVars, LeaseInv, TurnInv
  <2>2. CASE Rehydrate(t)
    BY <2>0, <2>2, KeepLease
       DEF Rehydrate, TypeCore, Turn, HasLease, LeasePhases, sessionVars, LeaseInv, TurnInv
  <2>3. ASSUME NEW bytes \in Sizes, RehydrateStored(t, bytes) PROVE LeaseInv'
    <3>1. /\ turn[t].phase = "rehydrate" /\ UNCHANGED active
          /\ \E P : turn' = [turn EXCEPT ![t].phase = "run", ![t].parent = P]
      BY <2>3 DEF RehydrateStored, sessionVars
    <3>2. /\ turn'[t].phase = "run" /\ turn'[t].session = turn[t].session
          /\ turn'[t].built = turn[t].built
          /\ \A u \in Turns \ {t} : turn'[u] = turn[u]
      BY <2>0, <3>1 DEF TypeCore, Turn
    <3> QED BY <3>1, <3>2, KeepLease DEF HasLease, LeasePhases, LeaseInv, TurnInv
  <2>4. ASSUME NEW bytes \in Sizes, BuildCheckpoint(t, bytes) PROVE LeaseInv'
    <3>1. /\ turn[t].phase = "run" /\ UNCHANGED active
          /\ \E B : turn' = [turn EXCEPT ![t].phase = AfterBuild(t), ![t].built = B]
      BY <2>4 DEF BuildCheckpoint, sessionVars
    <3>2. /\ turn'[t].phase \in {"write", "publish"} /\ turn'[t].session = turn[t].session
          /\ \A u \in Turns \ {t} : turn'[u] = turn[u]
      BY <2>0, <3>1 DEF TypeCore, Turn, AfterBuild
    <3> QED BY <3>1, <3>2, KeepLease DEF HasLease, LeasePhases
  <2>5. CASE DurableWrite(t)
    BY <2>0, <2>5, KeepLease
       DEF DurableWrite, TypeCore, Turn, HasLease, LeasePhases, sessionVars
  <2>6. CASE Publish(t)
    <3>1. HasLease(t)
      BY <2>6 DEF Publish, HasLease, LeasePhases
    <3> QED BY <2>6, <3>1, EndLeaseLease DEF Publish
  <2>7. CASE Abandon(t)
    BY <2>0, <2>7, KeepLease
       DEF Abandon, TypeCore, Turn, HasLease, LeasePhases, sessionVars
  <2>8. CASE DropLease(t)
    <3>1. HasLease(t)
      BY <2>8 DEF DropLease, HasLease, LeasePhases
    <3> QED BY <2>8, <3>1, EndLeaseLease DEF DropLease
  <2>9. CASE NotifyIdle(t)
    <3>1. /\ turn[t].phase = "notify" /\ UNCHANGED active
          /\ turn'[t].phase = "done"
          /\ turn'[t].parent = turn[t].parent /\ turn'[t].built = turn[t].built
          /\ \A u \in Turns \ {t} : turn'[u] = turn[u]
      BY <2>0, <2>9 DEF NotifyIdle, TypeCore, Turn, sessionVars
    <3>2. TurnInv'
      BY <3>1 DEF LeaseInv, TurnInv, HasLease, LeasePhases
    <3>3. SerialLease'
      BY <3>1 DEF LeaseInv, SerialLease, HasLease, LeasePhases
    <3> QED BY <3>2, <3>3 DEF LeaseInv
  <2> QED BY <1>8, <2>1, <2>2, <2>3, <2>4, <2>5, <2>6, <2>7, <2>8, <2>9 DEF TurnStep
<1>9. CASE UNCHANGED vars
  BY <1>1, <1>9 DEF vars
<1> QED BY <1>2, <1>3, <1>4, <1>5, <1>6, <1>7, <1>8, <1>9 DEF Next, WaitStep

-----------------------------------------------------------------------------
(* Charges *)

(* A finite set of checkpoints has a finite charge.                        *)
LEMMA ChargeType ==
    ASSUME NEW S, IsFiniteSet(S)
    PROVE  IsFiniteSet(Cells(S)) /\ Charge(S) \in Nat
<1>1. IsFiniteSet(1 .. Limit)
  BY FS_Interval, ConstantsAssumption
<1>2. IsFiniteSet(S \X (1 .. Limit))
  BY <1>1, FS_Product
<1>3. Cells(S) \in SUBSET (S \X (1 .. Limit))
  BY DEF Cells
<1> QED BY <1>2, <1>3, FS_Subset, FS_CardinalityType DEF Charge

(* Charges of disjoint sets add up.                                        *)
LEMMA ChargeUnion ==
    ASSUME NEW S, NEW T, IsFiniteSet(S), IsFiniteSet(T), S \cap T = {}
    PROVE  Charge(S \cup T) = Charge(S) + Charge(T)
<1>1. Cells(S \cup T) = Cells(S) \cup Cells(T)
  BY DEF Cells
<1>2. Cells(S) \cap Cells(T) = {}
  <2> SUFFICES ASSUME NEW x \in Cells(S), x \in Cells(T) PROVE FALSE
    OBVIOUS
  <2>1. x[1] \in S /\ x[1] \in T
    BY DEF Cells
  <2> QED BY <2>1
<1>3. IsFiniteSet(Cells(S)) /\ IsFiniteSet(Cells(T))
  BY ChargeType
<1>4. Cardinality(Cells(S) \cup Cells(T))
        = Cardinality(Cells(S)) + Cardinality(Cells(T)) - Cardinality({})
  BY <1>2, <1>3, FS_Union
<1>5. Charge(S) \in Nat /\ Charge(T) \in Nat
  BY ChargeType
<1>6. Cardinality({}) = 0
  BY FS_EmptySet
<1>7. Charge(S \cup T) = Cardinality(Cells(S) \cup Cells(T))
  BY <1>1, Zenon DEF Charge
<1>8. Charge(S \cup T) = Charge(S) + Charge(T) - 0
  BY <1>4, <1>6, <1>7, Zenon DEF Charge
<1> QED BY <1>5, <1>8

(* A checkpoint that fits the limit is charged its size.                   *)
LEMMA ChargeOne ==
    ASSUME NEW c, c.bytes \in Nat, c.bytes <= Limit
    PROVE  Charge({c}) = c.bytes
<1> DEFINE f == [i \in 1 .. c.bytes |-> <<c, i>>]
<1>0. Limit \in Nat
  BY ConstantsAssumption
<1>1. \A i \in 1 .. c.bytes : f[i] \in Cells({c})
  BY <1>0 DEF Cells
<1>2. \A i, j \in 1 .. c.bytes : f[i] = f[j] => i = j
  OBVIOUS
<1>3. \A x \in Cells({c}) : \E i \in 1 .. c.bytes : f[i] = x
  <2> SUFFICES ASSUME NEW x \in Cells({c}) PROVE \E i \in 1 .. c.bytes : f[i] = x
    OBVIOUS
  <2>1. x = <<x[1], x[2]>> /\ x[1] = c /\ x[2] \in 1 .. Limit /\ x[2] <= c.bytes
    BY DEF Cells
  <2>2. x[2] \in 1 .. c.bytes
    BY <2>1, <1>0
  <2> QED BY <2>1, <2>2
<1>4. f \in [1 .. c.bytes -> Cells({c})]
  BY <1>1
<1>5. f \in Bijection(1 .. c.bytes, Cells({c}))
  BY <1>2, <1>3, <1>4 DEF Bijection, Injection, Surjection, IsInjective
<1>6. ExistsBijection(1 .. c.bytes, Cells({c}))
  BY <1>5 DEF ExistsBijection
<1>7. IsFiniteSet(1 .. c.bytes) /\ Cardinality(1 .. c.bytes) = c.bytes
  <2> HIDE DEF f
  <2>1. 1 \in Int /\ c.bytes \in Int
    OBVIOUS
  <2>2. /\ IsFiniteSet(1 .. c.bytes)
        /\ Cardinality(1 .. c.bytes) = IF 1 > c.bytes THEN 0 ELSE c.bytes - 1 + 1
    BY <2>1, FS_Interval, Zenon
  <2>3. (IF 1 > c.bytes THEN 0 ELSE c.bytes - 1 + 1) = c.bytes
    OBVIOUS
  <2> QED BY <2>2, <2>3
<1> QED BY <1>6, <1>7, FS_Bijection DEF Charge

-----------------------------------------------------------------------------
(* The budget *)

(* Every referenced checkpoint was allocated by a turn past rehydration,   *)
(* its own replacement by a turn past generation; parents are named only   *)
(* once their turn is past rehydration.  So an allocation is never already *)
(* referenced.                                                             *)
FreshInv ==
    /\ \A c \in Refs : /\ {c.by, c.rid} \subseteq Known
                       /\ c.rid = c.by => turn[c.by].phase # "run"
    /\ \A t \in Turns : turn[t].prev \subseteq Known

BudgetInv == IsFiniteSet(Refs) /\ used = Charge(Refs) /\ used <= Limit

(* References are unchanged, dropped with a refund, or one fresh checkpoint*)
(* is added within the limit.                                              *)
RefsUnchanged == Refs' = Refs /\ used' = used
RefsReleased == Refs' \subseteq Refs /\ used' = used - Charge(Refs \ Refs')
RefsCharged(c) ==
    /\ Refs' = Refs \cup {c}
    /\ c.bytes \in Nat /\ used + c.bytes <= Limit /\ used' = used + c.bytes
    /\ {c.by} \subseteq Turns /\ turn'[c.by].phase \notin {"new", "fork", "rehydrate"}
    /\ \/ turn[c.by].phase = "rehydrate" /\ c.rid \in turn[c.by].prev
       \/ turn[c.by].phase = "run" /\ c.rid = c.by /\ turn'[c.by].phase # "run"

(* References and the counter do not change when a turn takes a lease on a *)
(* checkpoint somebody references.                                         *)
LEMMA TakeLeaseRefs ==
    ASSUME TypeCore, LeaseInv, NEW t \in Turns, NEW s, NEW prev, NEW base,
           NEW store, NEW parent, NEW phase,
           parent \subseteq (UNION {latest[r] : r \in Sessions}) \cup {p.ckpt : p \in pins},
           TakeLease(t, s, prev, base, store, parent, phase)
    PROVE  RefsUnchanged
<1>1. turn[t].parent = {} /\ turn[t].built = {}
  BY DEF LeaseInv, TurnInv, HasLease, LeasePhases, TakeLease
<1>2. /\ turn'[t].parent = parent /\ turn'[t].built = {}
      /\ \A u \in Turns \ {t} : turn'[u] = turn[u]
      /\ latest' = latest /\ pins' = pins /\ used' = used
  BY DEF TypeCore, TakeLease
<1>3. Refs' = Refs
  BY <1>1, <1>2 DEF Refs
<1> QED BY <1>2, <1>3 DEF RefsUnchanged

(* Every step changes the references in one of the three ways.             *)
LEMMA RefsStep ==
    TypeCore /\ LeaseInv /\ Next =>
      RefsUnchanged \/ RefsReleased \/ \E c \in Checkpoint : RefsCharged(c)
<1> SUFFICES ASSUME TypeCore, LeaseInv, Next
             PROVE  RefsUnchanged \/ RefsReleased \/ \E c \in Checkpoint : RefsCharged(c)
  OBVIOUS
<1>1. ASSUME UNCHANGED <<latest, turn, pins, used>> PROVE RefsUnchanged
  BY <1>1 DEF RefsUnchanged, Refs
<1>2. CASE DropGroup
  BY <1>1, <1>2 DEF DropGroup, sessionVars
<1>3. ASSUME NEW s \in Sessions, NewSession(s) \/ WaitStep(s) PROVE RefsUnchanged
  BY <1>1, <1>3 DEF NewSession, WaitStep, WaitEnable, WaitCheck, WaitPark, sessionVars
<1>4. ASSUME NEW s \in Sessions, CloseMember(s) \/ DropSession(s) PROVE RefsReleased
  BY <1>4 DEF CloseMember, DropSession, CloseState, RefsReleased, Refund, Refs, TypeCore
<1>5. ASSUME NEW s \in Sessions, PinResponse(s) PROVE RefsUnchanged
  <2>1. PICK c \in latest[s] : pins' = pins \cup {[owner |-> s, ckpt |-> c]}
    BY <1>5 DEF PinResponse
  <2>2. latest' = latest /\ turn' = turn /\ used' = used
    BY <1>5 DEF PinResponse, sessionVars
  <2> DEFINE q == [owner |-> s, ckpt |-> c]
  <2>3. q.ckpt = c /\ pins' = pins \cup {q}
    BY <2>1
  <2> HIDE DEF q
  <2>4. {p.ckpt : p \in pins'} = {p.ckpt : p \in pins} \cup {c}
    BY <2>3
  <2> QED BY <2>1, <2>2, <2>4 DEF RefsUnchanged, Refs
<1>6. ASSUME NEW s \in Sessions, DiscardCachedResponse(s) PROVE RefsReleased
  BY <1>6 DEF DiscardCachedResponse, RefsReleased, Refund, Refs, TypeCore
<1>7. ASSUME NEW pin \in pins, Unpin(pin) PROVE RefsReleased
  BY <1>7 DEF Unpin, RefsReleased, Refund, Refs, sessionVars
<1>8. ASSUME NEW t \in Turns, NEW store \in BOOLEAN, NEW s \in Sessions,
             BeginFresh(t, s, store)
      PROVE  RefsUnchanged
  BY <1>8, TakeLeaseRefs DEF BeginFresh
<1>9. ASSUME NEW t \in Turns, NEW store \in BOOLEAN, NEW s \in Sessions,
             NEW p \in Turns, Begin(t, s, p, store)
      PROVE  RefsUnchanged
  <2> DEFINE own == {c \in latest[s] : c.rid = p}
             phase == IF own = {} THEN "fork" ELSE "rehydrate"
  <2>1. own \subseteq (UNION {latest[r] : r \in Sessions}) \cup {q.ckpt : q \in pins}
    OBVIOUS
  <2>2. TakeLease(t, s, {p}, lineage[p], store, own, phase)
    BY <1>9 DEF Begin
  <2> HIDE DEF own, phase
  <2> QED BY <2>1, <2>2, TakeLeaseRefs
<1>10. ASSUME NEW t \in Turns, NEW store \in BOOLEAN, NEW pin \in pins,
              BeginPinned(t, pin, store)
       PROVE  RefsUnchanged
  BY <1>10, TakeLeaseRefs DEF BeginPinned
<1>11. ASSUME NEW t \in Turns, TurnStep(t)
       PROVE  RefsUnchanged \/ RefsReleased \/ \E c \in Checkpoint : RefsCharged(c)
  <2>0. turn[t] \in Turn
    BY DEF TypeCore
  <2>1. CASE ResolveFork(t)
    <3> DEFINE found == UNION {{c \in latest[m] : c.rid \in turn[t].prev} :
                          m \in {m \in members : m \notin turn[t].session /\ ~closed[m]}}
    <3>1. found \subseteq UNION {latest[s] : s \in Sessions}
      BY DEF TypeCore
    <3>2. /\ turn'[t].parent = found /\ turn'[t].built = turn[t].built
          /\ turn[t].parent = {}
          /\ \A u \in Turns \ {t} : turn'[u] = turn[u]
          /\ latest' = latest /\ pins' = pins /\ used' = used
      BY <2>0, <2>1 DEF ResolveFork, TypeCore, Turn, LeaseInv, TurnInv, sessionVars
    <3> HIDE DEF found
    <3>3. Refs' = Refs
      BY <3>1, <3>2 DEF Refs
    <3> QED BY <3>2, <3>3 DEF RefsUnchanged
  <2>2. CASE Rehydrate(t) \/ DurableWrite(t) \/ NotifyIdle(t)
    <3>1. /\ \A u \in Turns : turn'[u].parent = turn[u].parent /\ turn'[u].built = turn[u].built
          /\ latest' = latest /\ pins' = pins /\ used' = used
      <4>1. CASE Rehydrate(t)
        BY <2>0, <4>1 DEF Rehydrate, TypeCore, Turn, sessionVars
      <4>2. CASE DurableWrite(t)
        BY <2>0, <4>2 DEF DurableWrite, TypeCore, Turn, sessionVars
      <4>3. CASE NotifyIdle(t)
        BY <2>0, <4>3 DEF NotifyIdle, TypeCore, Turn, sessionVars
      <4> QED BY <2>2, <4>1, <4>2, <4>3
    <3>2. Refs' = Refs
      BY <3>1 DEF Refs
    <3> QED BY <3>1, <3>2 DEF RefsUnchanged
  <2>3. ASSUME NEW bytes \in Sizes, RehydrateStored(t, bytes)
        PROVE  \E c \in Checkpoint : RefsCharged(c)
    <3>1. PICK p \in turn[t].prev, h \in UNION {stored[q] : q \in turn[t].prev} :
            turn' = [turn EXCEPT
                       ![t].phase = "run",
                       ![t].parent = {[rid |-> p, by |-> t, bytes |-> bytes,
                                       durable |-> TRUE, history |-> h]}]
      BY <2>3 DEF RehydrateStored
    <3> DEFINE c == [rid |-> p, by |-> t, bytes |-> bytes, durable |-> TRUE,
                     history |-> h]
    <3>2. /\ c \in Checkpoint /\ c.by = t /\ c.rid \in turn[t].prev /\ c.bytes = bytes
          /\ bytes \in Nat
      BY <2>0, <3>1, ConstantsAssumption DEF TypeCore, Turn, Checkpoint
    <3>3. turn' = [turn EXCEPT ![t].phase = "run", ![t].parent = {c}]
      BY <3>1
    <3> HIDE DEF c
    <3>4. /\ turn[t].phase = "rehydrate" /\ turn'[t].phase = "run"
          /\ turn[t].parent = {}
          /\ turn'[t].parent = {c} /\ turn'[t].built = turn[t].built
          /\ \A u \in Turns \ {t} : turn'[u] = turn[u]
          /\ latest' = latest /\ pins' = pins
          /\ used + bytes <= Limit /\ used' = used + bytes
      BY <2>0, <2>3, <3>3 DEF RehydrateStored, Reserve, TypeCore, Turn, sessionVars
    <3>5. Refs' = Refs \cup {c}
      BY <3>4 DEF Refs
    <3> QED BY <3>2, <3>4, <3>5 DEF RefsCharged
  <2>4. ASSUME NEW bytes \in Sizes, BuildCheckpoint(t, bytes)
        PROVE  \E c \in Checkpoint : RefsCharged(c)
    <3>1. PICK h \in ParentItems(t) :
            turn' = [turn EXCEPT
                       ![t].phase = AfterBuild(t),
                       ![t].built = {[rid |-> t, by |-> t, bytes |-> bytes,
                                      durable |-> turn[t].store,
                                      history |-> Append(h, t)]}]
      BY <2>4 DEF BuildCheckpoint
    <3> DEFINE c == [rid |-> t, by |-> t, bytes |-> bytes,
                     durable |-> turn[t].store, history |-> Append(h, t)]
    <3>2. /\ c \in Checkpoint /\ c.by = t /\ c.rid = t /\ c.bytes = bytes
          /\ bytes \in Nat
      BY <2>0, <3>1, ParentItemsType, ConstantsAssumption DEF Turn, Checkpoint
    <3>3. turn' = [turn EXCEPT ![t].phase = AfterBuild(t), ![t].built = {c}]
      BY <3>1
    <3> HIDE DEF c
    <3>4. /\ turn[t].phase = "run" /\ turn'[t].phase \in {"write", "publish"}
          /\ turn[t].built = {}
          /\ turn'[t].parent = turn[t].parent /\ turn'[t].built = {c}
          /\ \A u \in Turns \ {t} : turn'[u] = turn[u]
          /\ latest' = latest /\ pins' = pins
          /\ used + bytes <= Limit /\ used' = used + bytes
      BY <2>0, <2>4, <3>3
         DEF BuildCheckpoint, AfterBuild, Reserve, TypeCore, Turn, LeaseInv, TurnInv, sessionVars
    <3>5. Refs' = Refs \cup {c}
      BY <3>4 DEF Refs
    <3> QED BY <3>2, <3>4, <3>5 DEF RefsCharged
  <2>5. CASE Publish(t)
    <3>1. PICK s \in turn[t].session : latest' = [latest EXCEPT ![s] = turn[t].built]
      BY <2>5 DEF Publish
    <3>2. /\ turn'[t].parent = {} /\ turn'[t].built = {}
          /\ \A u \in Turns \ {t} : turn'[u] = turn[u]
          /\ pins' = pins
      BY <2>0, <2>5 DEF Publish, EndLease, TypeCore, Turn
    <3>3. \A r \in Sessions : latest'[r] \subseteq latest[r] \cup turn[t].built
      BY <2>0, <3>1 DEF TypeCore, Turn
    <3>4. Refs' \subseteq Refs
      BY <3>2, <3>3 DEF Refs
    <3> QED BY <2>5, <3>4 DEF Publish, Refund, RefsReleased
  <2>6. CASE Abandon(t)
    <3>1. /\ turn'[t].parent = turn[t].parent /\ turn'[t].built = {}
          /\ \A u \in Turns \ {t} : turn'[u] = turn[u]
          /\ latest' = latest /\ pins' = pins
      BY <2>0, <2>6 DEF Abandon, TypeCore, Turn, sessionVars
    <3>2. Refs' \subseteq Refs
      BY <3>1 DEF Refs
    <3> QED BY <2>6, <3>2 DEF Abandon, Refund, RefsReleased
  <2>7. CASE DropLease(t)
    <3>1. PICK s \in turn[t].session :
            latest' = [latest EXCEPT ![s] =
                         {c \in @ : \A p \in turn[t].parent : p.rid # c.rid}]
      BY <2>7 DEF DropLease
    <3>2. /\ turn'[t].parent = {} /\ turn'[t].built = {}
          /\ \A u \in Turns \ {t} : turn'[u] = turn[u]
          /\ pins' = pins
      BY <2>0, <2>7 DEF DropLease, EndLease, TypeCore, Turn
    <3>3. \A r \in Sessions : latest'[r] \subseteq latest[r]
      BY <2>0, <3>1 DEF TypeCore, Turn
    <3>4. Refs' \subseteq Refs
      BY <3>2, <3>3 DEF Refs
    <3> QED BY <2>7, <3>4 DEF DropLease, Refund, RefsReleased
  <2> QED BY <1>11, <2>1, <2>2, <2>3, <2>4, <2>5, <2>6, <2>7 DEF TurnStep
<1> QED BY <1>2, <1>3, <1>4, <1>5, <1>6, <1>7, <1>8, <1>9, <1>10, <1>11
        DEF Next, WaitStep

(* A turn that takes a lease was not known before, and names a known one.  *)
LEMMA TakeLeaseKnown ==
    ASSUME TypeCore, FreshInv, NEW t \in Turns, NEW s, NEW prev \in SUBSET Known,
           NEW base, NEW store, NEW parent, NEW phase,
           TakeLease(t, s, prev, base, store, parent, phase)
    PROVE  /\ \A u \in Known : u \in Known' /\ turn'[u].phase = turn[u].phase
           /\ \A u \in Turns : turn'[u].prev \subseteq Known'
<1>1. /\ t \notin Known
      /\ turn'[t].prev = prev
      /\ \A u \in Turns \ {t} : turn'[u] = turn[u]
  BY DEF TypeCore, TakeLease, Known
<1>2. \A u \in Known : u \in Known' /\ turn'[u].phase = turn[u].phase
  BY <1>1 DEF Known
<1> QED BY <1>1, <1>2 DEF FreshInv

(* Turns move forward: one that is past rehydration, or past generation,   *)
(* stays so.                                                               *)
LEMMA KnownStep ==
    ASSUME TypeCore, FreshInv, Next
    PROVE  /\ \A u \in Known : /\ u \in Known'
                               /\ turn[u].phase # "run" => turn'[u].phase # "run"
           /\ \A u \in Turns : turn'[u].prev \subseteq Known'
<1> DEFINE Goal == /\ \A u \in Known : /\ u \in Known'
                                       /\ turn[u].phase # "run" => turn'[u].phase # "run"
                   /\ \A u \in Turns : turn'[u].prev \subseteq Known'
<1> SUFFICES Goal
  OBVIOUS
<1>1. ASSUME UNCHANGED turn PROVE Goal
  BY <1>1 DEF Known, FreshInv
<1>2. CASE DropGroup
  BY <1>1, <1>2 DEF DropGroup
<1>3. ASSUME NEW s \in Sessions,
             NewSession(s) \/ CloseMember(s) \/ DropSession(s) \/ PinResponse(s)
             \/ DiscardCachedResponse(s) \/ WaitStep(s)
      PROVE  Goal
  BY <1>1, <1>3 DEF NewSession, CloseMember, DropSession, CloseState, PinResponse,
     DiscardCachedResponse, WaitStep, WaitEnable, WaitCheck, WaitPark
<1>4. ASSUME NEW pin \in pins, Unpin(pin) PROVE Goal
  BY <1>1, <1>4 DEF Unpin
<1>5. ASSUME NEW t \in Turns, NEW store \in BOOLEAN, NEW s \in Sessions,
             BeginFresh(t, s, store)
      PROVE  Goal
  BY <1>5, TakeLeaseKnown DEF BeginFresh
<1>6. ASSUME NEW t \in Turns, NEW store \in BOOLEAN, NEW s \in Sessions,
             NEW p \in Turns, Begin(t, s, p, store)
      PROVE  Goal
  <2> DEFINE own == {c \in latest[s] : c.rid = p}
             phase == IF own = {} THEN "fork" ELSE "rehydrate"
  <2>1. {p} \in SUBSET Known
    BY <1>6 DEF Begin
  <2>2. TakeLease(t, s, {p}, lineage[p], store, own, phase)
    BY <1>6 DEF Begin
  <2> HIDE DEF own, phase
  <2> QED BY <2>1, <2>2, TakeLeaseKnown
<1>7. ASSUME NEW t \in Turns, NEW store \in BOOLEAN, NEW pin \in pins,
             BeginPinned(t, pin, store)
      PROVE  Goal
  <2>1. pin.ckpt \in Refs
    BY DEF Refs
  <2>2. {pin.ckpt.rid} \in SUBSET Known
    BY <2>1 DEF FreshInv
  <2> QED BY <1>7, <2>2, TakeLeaseKnown DEF BeginPinned
<1>8. ASSUME NEW t \in Turns, TurnStep(t) PROVE Goal
  <2>0. turn[t] \in Turn
    BY DEF TypeCore
  <2>1. /\ turn'[t].prev \subseteq turn[t].prev
        /\ t \in Known => t \in Known'
        /\ turn'[t].phase = "run" => turn[t].phase = "rehydrate"
        /\ \A u \in Turns \ {t} : turn'[u] = turn[u]
    <3>1. CASE ResolveFork(t)
      BY <2>0, <3>1 DEF ResolveFork, TypeCore, Turn, Known
    <3>2. CASE Rehydrate(t)
      BY <2>0, <3>2 DEF Rehydrate, TypeCore, Turn, Known
    <3>3. CASE \E bytes \in Sizes : RehydrateStored(t, bytes)
      <4>1. \E P : /\ turn[t].phase = "rehydrate"
                  /\ turn' = [turn EXCEPT ![t].phase = "run", ![t].parent = P]
        BY <3>3 DEF RehydrateStored
      <4> QED BY <2>0, <4>1 DEF TypeCore, Turn, Known
    <3>4. CASE \E bytes \in Sizes : BuildCheckpoint(t, bytes)
      <4>1. \E B : turn' = [turn EXCEPT ![t].phase = AfterBuild(t), ![t].built = B]
        BY <3>4 DEF BuildCheckpoint
      <4> QED BY <2>0, <4>1 DEF TypeCore, Turn, Known, AfterBuild
    <3>5. CASE DurableWrite(t)
      BY <2>0, <3>5 DEF DurableWrite, TypeCore, Turn, Known
    <3>6. CASE Publish(t)
      BY <2>0, <3>6 DEF Publish, EndLease, TypeCore, Turn, Known
    <3>7. CASE Abandon(t)
      BY <2>0, <3>7 DEF Abandon, TypeCore, Turn, Known
    <3>8. CASE DropLease(t)
      BY <2>0, <3>8 DEF DropLease, EndLease, TypeCore, Turn, Known
    <3>9. CASE NotifyIdle(t)
      BY <2>0, <3>9 DEF NotifyIdle, TypeCore, Turn, Known
    <3> QED BY <1>8, <3>1, <3>2, <3>3, <3>4, <3>5, <3>6, <3>7, <3>8,
               <3>9 DEF TurnStep
  <2> QED BY <2>1 DEF Known, FreshInv
<1> QED BY <1>2, <1>3, <1>4, <1>5, <1>6, <1>7, <1>8 DEF Next, WaitStep

(* Allocations stay fresh.                                                 *)
LEMMA FreshStep == TypeCore /\ LeaseInv /\ FreshInv /\ [Next]_vars => FreshInv'
<1> SUFFICES ASSUME TypeCore, LeaseInv, FreshInv, [Next]_vars PROVE FreshInv'
  OBVIOUS
<1>1. CASE UNCHANGED vars
  BY <1>1 DEF vars, FreshInv, Refs, Known
<1>2. CASE Next
  <2>1. /\ \A u \in Known : /\ u \in Known'
                            /\ turn[u].phase # "run" => turn'[u].phase # "run"
        /\ \A u \in Turns : turn'[u].prev \subseteq Known'
    BY <1>2, KnownStep
  <2>2. \A c \in Refs : /\ {c.by, c.rid} \subseteq Known'
                        /\ c.rid = c.by => turn'[c.by].phase # "run"
    BY <2>1 DEF FreshInv
  <2>3. CASE RefsUnchanged \/ RefsReleased
    BY <2>1, <2>2, <2>3 DEF FreshInv, RefsUnchanged, RefsReleased
  <2>4. ASSUME NEW c \in Checkpoint, RefsCharged(c) PROVE FreshInv'
    <3>1. c.by \in Known' /\ c.rid \in Known'
      BY <2>1, <2>4 DEF RefsCharged, FreshInv, Known
    <3>2. c.rid = c.by => turn'[c.by].phase # "run"
      BY <2>4 DEF RefsCharged, FreshInv, Known
    <3> QED BY <2>1, <2>2, <2>4, <3>1, <3>2 DEF RefsCharged, FreshInv
  <2> QED BY <1>2, <2>3, <2>4, RefsStep
<1> QED BY <1>1, <1>2

(* The counter stays exact and within the limit.                           *)
LEMMA BudgetStep ==
    TypeCore /\ LeaseInv /\ FreshInv /\ BudgetInv /\ [Next]_vars => BudgetInv'
<1> SUFFICES ASSUME TypeCore, LeaseInv, FreshInv, BudgetInv, [Next]_vars
             PROVE  BudgetInv'
  OBVIOUS
<1>0. Limit \in Nat /\ used \in Nat
  BY ChargeType, ConstantsAssumption DEF BudgetInv
<1>1. CASE UNCHANGED vars \/ RefsUnchanged
  <2>1. Refs' = Refs /\ used' = used
    BY <1>1 DEF vars, Refs, RefsUnchanged
  <2> QED BY <2>1, Zenon DEF BudgetInv, Charge, Cells
<1>2. CASE RefsReleased
  <2> DEFINE kept == Refs'
             gone == Refs \ Refs'
  <2>1. kept \subseteq Refs /\ used' = used - Charge(gone)
    BY <1>2 DEF RefsReleased
  <2>2. IsFiniteSet(kept) /\ IsFiniteSet(gone)
    BY <2>1, FS_Subset DEF BudgetInv
  <2>3. Refs = kept \cup gone /\ kept \cap gone = {}
    BY <2>1
  <2>4. Charge(kept) \in Nat /\ Charge(gone) \in Nat
    BY <2>2, ChargeType
  <2> HIDE DEF kept, gone
  <2>5. Charge(kept \cup gone) = Charge(kept) + Charge(gone)
    BY <2>2, <2>3, ChargeUnion
  <2>6. used = Charge(kept \cup gone) /\ used <= Limit
    BY <2>3, Zenon DEF BudgetInv
  <2>7. used' = Charge(kept) /\ used' <= Limit
    BY <1>0, <2>1, <2>4, <2>5, <2>6
  <2> QED BY <2>2, <2>7 DEF BudgetInv, kept, Charge, Cells
<1>3. ASSUME NEW c \in Checkpoint, RefsCharged(c) PROVE BudgetInv'
  <2>1. c \notin Refs
    BY <1>3 DEF RefsCharged, FreshInv, Known
  <2>2. c.bytes \in Nat /\ c.bytes <= Limit /\ used' <= Limit /\ used' = used + c.bytes
    BY <1>0, <1>3 DEF RefsCharged
  <2>3. IsFiniteSet(Refs) /\ IsFiniteSet({c}) /\ Refs \cap {c} = {}
    BY <2>1, FS_Singleton DEF BudgetInv
  <2>4. Charge(Refs \cup {c}) = Charge(Refs) + Charge({c})
    BY <2>3, ChargeUnion
  <2>5. Charge({c}) = c.bytes
    BY <2>2, ChargeOne
  <2>6. used' = Charge(Refs \cup {c})
    BY <2>2, <2>4, <2>5 DEF BudgetInv
  <2>7. Refs' = Refs \cup {c} /\ IsFiniteSet(Refs \cup {c})
    BY <1>3, <2>3, FS_Union DEF RefsCharged
  <2> QED BY <2>2, <2>6, <2>7, Zenon DEF BudgetInv, Charge, Cells
<1> QED BY <1>1, <1>2, <1>3, RefsStep

-----------------------------------------------------------------------------
(* Closing *)

(* While the group is open it holds every session it created, so its Drop  *)
(* closes them all.                                                        *)
ClosedInv ==
    /\ ~groupClosed => members = born
    /\ ClosedCachesNothing

(* A turn's step leaves the closed flags alone and fills only the cache of *)
(* an open session.                                                        *)
LEMMA TurnStepCaches ==
    ASSUME TypeCore, LeaseInv, NEW t \in Turns, TurnStep(t)
    PROVE  /\ UNCHANGED <<groupVars, closed>>
           /\ \A s \in Sessions : latest'[s] \subseteq latest[s] \/ ~closed[s]
<1>0. turn[t].session \subseteq Sessions
  BY DEF TypeCore, Turn
<1>1. CASE ResolveFork(t) \/ Rehydrate(t) \/ DurableWrite(t) \/ Abandon(t) \/ NotifyIdle(t)
  BY <1>1 DEF ResolveFork, Rehydrate, DurableWrite, Abandon, NotifyIdle, sessionVars
<1>2. ASSUME NEW bytes \in Sizes, RehydrateStored(t, bytes) \/ BuildCheckpoint(t, bytes)
      PROVE  UNCHANGED <<groupVars, closed, latest>>
  BY <1>2 DEF RehydrateStored, BuildCheckpoint, sessionVars
<1>3. CASE Publish(t)
  <2>1. PICK s \in turn[t].session : latest' = [latest EXCEPT ![s] = turn[t].built]
    BY <1>3 DEF Publish
  <2>2. ~closed[s] /\ UNCHANGED <<groupVars, closed>>
    BY <1>3 DEF Publish, MayPublish
  <2> QED BY <1>0, <2>1, <2>2 DEF TypeCore
<1>4. CASE DropLease(t)
  <2>1. PICK s \in turn[t].session :
          latest' = [latest EXCEPT ![s] =
                       {c \in @ : \A p \in turn[t].parent : p.rid # c.rid}]
    BY <1>4 DEF DropLease
  <2>2. UNCHANGED <<groupVars, closed>>
    BY <1>4 DEF DropLease
  <2> QED BY <1>0, <2>1, <2>2 DEF TypeCore
<1> QED BY <1>1, <1>2, <1>3, <1>4 DEF TurnStep

(* Nothing is cached by a closed session after any step.                   *)
LEMMA ClosedStep == TypeCore /\ LeaseInv /\ ClosedInv /\ [Next]_vars => ClosedInv'
<1> SUFFICES ASSUME TypeCore, LeaseInv, ClosedInv, [Next]_vars PROVE ClosedInv'
  OBVIOUS
<1>1. ASSUME UNCHANGED <<groupVars, closed>>,
             \A s \in Sessions : latest'[s] \subseteq latest[s] \/ ~closed[s]
      PROVE  ClosedInv'
  BY <1>1 DEF ClosedInv, ClosedCachesNothing, groupVars
<1>2. CASE UNCHANGED vars
  BY <1>1, <1>2 DEF vars, groupVars
<1>3. CASE DropGroup
  BY <1>3 DEF DropGroup, sessionVars, ClosedInv, ClosedCachesNothing
<1>4. ASSUME NEW s \in Sessions, NewSession(s) PROVE ClosedInv'
  BY <1>4 DEF NewSession, sessionVars, ClosedInv, ClosedCachesNothing
<1>5. ASSUME NEW s \in Sessions, CloseMember(s) \/ DropSession(s) PROVE ClosedInv'
  <2>1. /\ closed'[s] = TRUE /\ latest'[s] = {}
        /\ \A r \in Sessions \ {s} : closed'[r] = closed[r] /\ latest'[r] = latest[r]
        /\ UNCHANGED <<groupClosed, members, born>>
        /\ closing \ {s} \subseteq closing'
    BY <1>5 DEF CloseMember, DropSession, CloseState, TypeCore
  <2> QED BY <2>1 DEF ClosedInv, ClosedCachesNothing, TypeCore
<1>6. ASSUME NEW s \in Sessions,
             PinResponse(s) \/ DiscardCachedResponse(s) \/ WaitStep(s)
      PROVE  ClosedInv'
  <2>1. UNCHANGED <<groupVars, closed>> /\ \A r \in Sessions : latest'[r] \subseteq latest[r]
    BY <1>6 DEF PinResponse, DiscardCachedResponse, WaitStep, WaitEnable, WaitCheck,
       WaitPark, sessionVars, TypeCore
  <2> QED BY <1>1, <2>1
<1>7. ASSUME NEW pin \in pins, Unpin(pin) PROVE ClosedInv'
  BY <1>1, <1>7 DEF Unpin, sessionVars
<1>8. ASSUME NEW t, NEW s, NEW prev, NEW base, NEW store, NEW parent, NEW phase,
             TakeLease(t, s, prev, base, store, parent, phase)
      PROVE  ClosedInv'
  BY <1>1, <1>8 DEF TakeLease
<1>9. ASSUME NEW t \in Turns, NEW store \in BOOLEAN, NEW s \in Sessions,
             BeginFresh(t, s, store) \/ \E p \in Turns : Begin(t, s, p, store)
      PROVE  ClosedInv'
  BY <1>8, <1>9 DEF BeginFresh, Begin
<1>10. ASSUME NEW t \in Turns, NEW store \in BOOLEAN, NEW pin \in pins,
              BeginPinned(t, pin, store)
       PROVE  ClosedInv'
  BY <1>8, <1>10 DEF BeginPinned
<1>11. ASSUME NEW t \in Turns, TurnStep(t) PROVE ClosedInv'
  BY <1>1, <1>11, TurnStepCaches
<1> QED BY <1>2, <1>3, <1>4, <1>5, <1>6, <1>7, <1>9, <1>10, <1>11 DEF Next, WaitStep

-----------------------------------------------------------------------------
(* The theorems *)

(* The inductive invariant.                                                *)
Inv == TypeCore /\ LeaseInv /\ FreshInv /\ BudgetInv /\ ClosedInv

(* Initially no session exists, nothing is referenced and nothing charged. *)
LEMMA InitInv == Init => Inv
<1> SUFFICES ASSUME Init PROVE Inv
  OBVIOUS
<1>1. TypeCore
  <2>1. turn \in [Turns -> Turn]
    BY DEF Init, Turn, Phases
  <2>2. <<>> \in Seq(Turns)
    OBVIOUS
  <2>3. /\ latest \in [Sessions -> SUBSET Checkpoint]
        /\ stored \in [Turns -> SUBSET Seq(Turns)]
        /\ lineage \in [Turns -> Seq(Turns)]
        /\ waiting \in [Sessions -> WaitStates]
    BY <2>2 DEF Init, WaitStates
  <2> QED BY <2>1, <2>3 DEF Init, TypeCore
<1>2. LeaseInv
  BY DEF Init, LeaseInv, TurnInv, SerialLease, HasLease, LeasePhases
<1>3. Refs = {}
  BY DEF Init, Refs
<1>4. FreshInv
  BY <1>3 DEF Init, FreshInv
<1>5. BudgetInv
  <2>1. Cells({}) = {}
    BY DEF Cells
  <2>2. Charge({}) = 0
    BY <2>1, FS_EmptySet DEF Charge
  <2>3. Charge(Refs) = 0
    BY <1>3, <2>2
  <2> QED BY <1>3, <2>3, FS_EmptySet, ConstantsAssumption DEF Init, BudgetInv
<1>6. ClosedInv
  BY DEF Init, ClosedInv, ClosedCachesNothing
<1> QED BY <1>1, <1>2, <1>4, <1>5, <1>6 DEF Inv

(* Every behaviour of the session group satisfies the inductive invariant. *)
THEOREM Invariance == Spec => []Inv
<1>1. Inv /\ [Next]_vars => Inv'
  BY TypeCoreStep, LeaseStep, FreshStep, BudgetStep, ClosedStep DEF Inv
<1> QED BY <1>1, InitInv, PTL DEF Spec

(* Types are right, and the byte counter never goes below zero.            *)
THEOREM TypeCorrect == Spec => []TypeOK
<1>1. Inv => TypeOK
  BY ChargeType, ConstantsAssumption DEF Inv, TypeCore, BudgetInv, TypeOK
<1> QED BY <1>1, Invariance, PTL

(* The retained-byte counter is exact and bounded whatever the limit, the  *)
(* sizes, the number of sessions and the interleaving of their turns.      *)
THEOREM BudgetIsExact == Spec => []BudgetExact
<1>1. Inv => BudgetExact
  BY DEF Inv, BudgetInv, BudgetExact
<1> QED BY <1>1, Invariance, PTL

(* At most one turn runs in a session, and the active flag says so.        *)
THEOREM LeasesAreSerial == Spec => []SerialLease
<1>1. Inv => SerialLease
  BY DEF Inv, LeaseInv
<1> QED BY <1>1, Invariance, PTL

(* Idle sessions keep no charge beyond caches and pins.                    *)
THEOREM IdleSessionsRelease == Spec => []IdleReleasesCharge
<1>1. Inv => IdleReleasesCharge
  <2> SUFFICES ASSUME Inv, \A s \in Sessions : ~active[s]
               PROVE  used = Charge((UNION {latest[s] : s \in Sessions})
                                    \cup {p.ckpt : p \in pins})
    BY DEF IdleReleasesCharge
  <2>1. \A t \in Turns : ~HasLease(t)
    <3> SUFFICES ASSUME NEW t \in Turns, HasLease(t) PROVE FALSE
      OBVIOUS
    <3>1. PICK s \in Sessions : turn[t].session = {s}
      BY DEF Inv, LeaseInv, TurnInv
    <3> QED BY <3>1 DEF Inv, LeaseInv, SerialLease
  <2>2. \A t \in Turns : turn[t].parent = {} /\ turn[t].built = {}
    BY <2>1 DEF Inv, LeaseInv, TurnInv
  <2>3. Refs = (UNION {latest[s] : s \in Sessions}) \cup {p.ckpt : p \in pins}
    BY <2>2 DEF Refs
  <2> QED BY <2>3, Zenon DEF Inv, BudgetInv
<1> QED BY <1>1, Invariance, PTL

(* The budget is exact at every point and given back when all is idle.     *)
THEOREM BudgetIsSound == Spec => []BudgetSound
<1>1. BudgetSound <=> BudgetExact /\ IdleReleasesCharge
  BY DEF BudgetSound
<1> QED BY <1>1, BudgetIsExact, IdleSessionsRelease, PTL

(* No completion is cached by a closed session or a dropped group.         *)
THEOREM ClosedSessionsCacheNothing == Spec => []ClosedCachesNothing
<1>1. Inv => ClosedCachesNothing
  BY DEF Inv, ClosedInv
<1> QED BY <1>1, Invariance, PTL

-----------------------------------------------------------------------------
(* What turns continue: the history every checkpoint and stored row holds, *)
(* and that a checkpoint which says it is durable has its row.  First the  *)
(* inductive invariant.                                                    *)

(* A checkpoint holds the history its response was asked to have.          *)
CheckpointInv == \A c \in Refs : c.history = lineage[c.rid]

(* So does a stored row, which only a turn past rehydration has.           *)
RowInv ==
    \A t \in Turns :
      /\ \A h \in stored[t] : h = lineage[t]
      /\ stored[t] # {} => t \in Known

(* A lease extends the one response its request named, or starts a chain;  *)
(* from generation on it holds the parent it extends.                      *)
Starts(t) == turn[t].prev = {} /\ turn[t].parent = {} /\ lineage[t] = <<t>>

Extends(t, p) ==
    /\ turn[t].prev = {p}
    /\ lineage[t] = Append(lineage[p], t)
    /\ \A c \in turn[t].parent : c.rid = p
    /\ turn[t].phase \in {"run", "write", "publish"} => turn[t].parent # {}

ChainInv == \A t \in Turns : HasLease(t) => Starts(t) \/ \E p \in Turns : Extends(t, p)

(* A replacement is for its own turn, and durable if that asked to be      *)
(* stored.                                                                 *)
BuiltInv ==
    \A t \in Turns : \A c \in turn[t].built : c.rid = t /\ c.durable = turn[t].store

(* What another turn can continue is durable only if its row is stored.    *)
DurableInv ==
    /\ DurableMeansStored
    /\ \A p \in pins : p.ckpt.durable => stored[p.ckpt.rid] # {}
    /\ \A t \in Turns : turn[t].phase = "publish" /\ turn[t].store => stored[t] # {}

HistoryInv == CheckpointInv /\ RowInv /\ ChainInv /\ BuiltInv /\ DurableInv

-----------------------------------------------------------------------------
(* What a step may do to the chains *)

(* Caches, leases and pins are given up or copied, and no turn, row or     *)
(* lineage changes.                                                        *)
CachesStep ==
    /\ UNCHANGED <<turn, stored, lineage>>
    /\ \A s \in Sessions : latest'[s] \subseteq latest[s]
    /\ \A p \in pins' : p \in pins \/ \E s \in Sessions : p.ckpt \in latest[s]

(* The steps outside the turns are steps of the caches.                    *)
LEMMA OutsideStep ==
    ASSUME TypeCore,
           \/ DropGroup
           \/ \E s \in Sessions :
                \/ NewSession(s) \/ CloseMember(s) \/ DropSession(s)
                \/ PinResponse(s) \/ DiscardCachedResponse(s) \/ WaitStep(s)
           \/ \E pin \in pins : Unpin(pin)
           \/ UNCHANGED vars
    PROVE  CachesStep
<1>1. ASSUME UNCHANGED <<turn, stored, lineage, latest, pins>> PROVE CachesStep
  BY <1>1 DEF CachesStep
<1>2. CASE DropGroup \/ UNCHANGED vars
  BY <1>1, <1>2 DEF DropGroup, vars, sessionVars
<1>3. ASSUME NEW s \in Sessions, NewSession(s) \/ WaitStep(s) PROVE CachesStep
  BY <1>1, <1>3 DEF NewSession, WaitStep, WaitEnable, WaitCheck, WaitPark, sessionVars
<1>4. ASSUME NEW s \in Sessions, CloseMember(s) \/ DropSession(s) PROVE CachesStep
  BY <1>4 DEF CloseMember, DropSession, CloseState, CachesStep, TypeCore
<1>5. ASSUME NEW s \in Sessions, PinResponse(s) PROVE CachesStep
  <2>1. PICK c \in latest[s] : pins' = pins \cup {[owner |-> s, ckpt |-> c]}
    BY <1>5 DEF PinResponse
  <2>2. \A p \in pins' : p \in pins \/ p.ckpt = c
    BY <2>1
  <2> QED BY <1>5, <2>1, <2>2 DEF PinResponse, CachesStep, sessionVars
<1>6. ASSUME NEW s \in Sessions, DiscardCachedResponse(s) PROVE CachesStep
  BY <1>6 DEF DiscardCachedResponse, CachesStep, TypeCore
<1>7. ASSUME NEW pin \in pins, Unpin(pin) PROVE CachesStep
  BY <1>7 DEF Unpin, CachesStep, sessionVars
<1> QED BY <1>2, <1>3, <1>4, <1>5, <1>6, <1>7

(* They keep the invariant: a copy of a checkpoint is as good as its       *)
(* original.                                                               *)
LEMMA CachesKeep ==
    ASSUME HistoryInv, CachesStep
    PROVE  HistoryInv'
<1>1. Refs' \subseteq Refs
  BY DEF CachesStep, Refs
<1>2. CheckpointInv'
  BY <1>1 DEF HistoryInv, CheckpointInv, CachesStep
<1>3. RowInv'
  BY DEF HistoryInv, RowInv, CachesStep, Known
<1>4. ChainInv'
  BY DEF HistoryInv, ChainInv, CachesStep, HasLease, Starts, Extends
<1>5. BuiltInv'
  BY DEF HistoryInv, BuiltInv, CachesStep
<1>6. DurableInv'
  <2>1. \A s \in Sessions : \A c \in latest'[s] : c.durable => stored[c.rid] # {}
    BY DEF HistoryInv, DurableInv, DurableMeansStored, CachesStep
  <2>2. \A p \in pins' : p.ckpt.durable => stored[p.ckpt.rid] # {}
    BY DEF HistoryInv, DurableInv, DurableMeansStored, CachesStep
  <2> QED BY <2>1, <2>2 DEF HistoryInv, DurableInv, DurableMeansStored, CachesStep
<1> QED BY <1>2, <1>3, <1>4, <1>5, <1>6 DEF HistoryInv

-----------------------------------------------------------------------------
(* Taking a lease *)

(* A turn takes a lease on nothing, or on checkpoints of a known response. *)
LEMMA TakeLeaseHistory ==
    ASSUME TypeCore, LeaseInv, FreshInv, HistoryInv,
           NEW t \in Turns, NEW s, NEW prev, NEW base, NEW store, NEW parent,
           NEW phase \in {"fork", "rehydrate"},
           \/ prev = {} /\ base = <<>> /\ parent = {}
           \/ \E p \in Known : /\ prev = {p} /\ base = lineage[p]
                               /\ \A c \in parent : c.rid = p,
           parent \subseteq (UNION {latest[r] : r \in Sessions}) \cup {q.ckpt : q \in pins},
           TakeLease(t, s, prev, base, store, parent, phase)
    PROVE  HistoryInv'
<1>1. /\ turn[t].phase = "new" /\ t \notin Known
      /\ turn'[t] = [phase |-> phase, session |-> {s}, prev |-> prev,
                     store |-> store, parent |-> parent, built |-> {}]
      /\ \A u \in Turns \ {t} : turn'[u] = turn[u]
      /\ lineage'[t] = Append(base, t)
      /\ \A u \in Turns \ {t} : lineage'[u] = lineage[u]
      /\ UNCHANGED <<latest, pins, stored>>
  BY DEF TypeCore, TakeLease, Known
<1>2. /\ turn'[t].phase = phase /\ turn'[t].prev = prev /\ turn'[t].parent = parent
      /\ turn'[t].built = {} /\ turn'[t].store = store
  BY <1>1
<1>3. \A u \in Known : u \in Turns /\ lineage'[u] = lineage[u]
  BY <1>1 DEF Known
<1>4. \A u \in Known : u \in Known'
  BY <1>1 DEF Known
<1>5. CheckpointInv'
  <2>1. Refs' = Refs
    BY TakeLeaseRefs DEF RefsUnchanged
  <2>2. \A c \in Refs : c.rid \in Known
    BY DEF FreshInv
  <2> QED BY <1>3, <2>1, <2>2 DEF HistoryInv, CheckpointInv
<1>6. RowInv'
  BY <1>1, <1>3, <1>4 DEF HistoryInv, RowInv
<1>7. ChainInv'
  <2>1. ASSUME NEW u \in Turns, u # t, HasLease(u)' PROVE (Starts(u) \/ \E p \in Turns : Extends(u, p))'
    <3>1. turn'[u] = turn[u] /\ HasLease(u) /\ lineage'[u] = lineage[u]
      BY <1>1, <2>1 DEF HasLease
    <3>2. CASE Starts(u)
      BY <3>1, <3>2 DEF Starts
    <3>3. ASSUME NEW p \in Turns, Extends(u, p) PROVE Extends(u, p)'
      <4>1. p \in Known
        BY <3>3 DEF FreshInv, Extends
      <4> QED BY <1>3, <3>1, <3>3, <4>1 DEF Extends
    <3> QED BY <3>1, <3>2, <3>3 DEF HistoryInv, ChainInv
  <2>2. (Starts(t) \/ \E p \in Turns : Extends(t, p))'
    <3>1. CASE prev = {} /\ base = <<>> /\ parent = {}
      BY <1>1, <1>2, <3>1 DEF Starts
    <3>2. ASSUME NEW p \in Known, prev = {p}, base = lineage[p], \A c \in parent : c.rid = p
          PROVE  p \in Turns /\ Extends(t, p)'
      BY <1>1, <1>2, <1>3, <3>2 DEF Extends
    <3> QED BY <3>1, <3>2
  <2> QED BY <2>1, <2>2 DEF ChainInv
<1>8. BuiltInv'
  BY <1>1, <1>2 DEF HistoryInv, BuiltInv
<1>9. DurableInv'
  <2>1. \A c \in parent : c.durable => stored[c.rid] # {}
    BY DEF HistoryInv, DurableInv, DurableMeansStored
  <2>2. DurableMeansStored'
    BY <1>1, <1>2, <2>1 DEF HistoryInv, DurableInv, DurableMeansStored
  <2> QED BY <1>1, <1>2, <2>2 DEF HistoryInv, DurableInv
<1> QED BY <1>5, <1>6, <1>7, <1>8, <1>9 DEF HistoryInv


-----------------------------------------------------------------------------
(* Running a turn *)

(* Turn t moves on: other turns, lineages and pins stay, what it refers to *)
(* and stores holds the right history, and it keeps to its parent.         *)
Moves(t) ==
    /\ UNCHANGED <<lineage, pins>>
    /\ \A u \in Turns \ {t} : turn'[u] = turn[u] /\ stored'[u] = stored[u]
    /\ turn'[t].phase \in Phases \ {"new", "fork"}
    /\ t \in Known => t \in Known'

MovesRefs == \A c \in Refs' : c \in Refs \/ c.history = lineage[c.rid]

MovesRow(t) ==
    /\ \A h \in stored'[t] : h = lineage[t]
    /\ stored'[t] # {} => t \in Known'
    /\ stored[t] # {} => stored'[t] # {}

MovesChain(t) ==
    HasLease(t)' =>
      /\ HasLease(t)
      /\ turn'[t].prev = turn[t].prev
      /\ turn[t].prev = {} => turn'[t].parent = {}
      /\ \A c \in turn'[t].parent : c.rid \in turn[t].prev
      /\ turn'[t].phase \in {"run", "write", "publish"} =>
           turn[t].prev = {} \/ turn'[t].parent # {}

MovesBuilt(t) == \A c \in turn'[t].built : c.rid = t /\ c.durable = turn'[t].store

MovesDurable(t) ==
    /\ \A s \in Sessions : \A c \in latest'[s] :
         c \in latest[s] \/ (c.durable => stored'[c.rid] # {})
    /\ \A c \in turn'[t].parent : c.durable => stored'[c.rid] # {}
    /\ turn'[t].phase = "publish" /\ turn'[t].store => stored'[t] # {}

(* A turn that moves this way keeps the invariant.                         *)
LEMMA MoveKeeps ==
    ASSUME TypeCore, FreshInv, HistoryInv, NEW t \in Turns, Moves(t), MovesRefs,
           MovesRow(t), MovesChain(t), MovesBuilt(t), MovesDurable(t)
    PROVE  HistoryInv'
<1>1. CheckpointInv'
  BY DEF HistoryInv, CheckpointInv, Moves, MovesRefs
<1>2. \A u \in Turns : stored[u] # {} => stored'[u] # {}
  BY DEF Moves, MovesRow
<1>3. RowInv'
  <2>1. ASSUME NEW u \in Turns, u # t
        PROVE  (\A h \in stored'[u] : h = lineage'[u]) /\ (stored'[u] # {} => u \in Known')
    BY <2>1 DEF HistoryInv, RowInv, Moves, Known
  <2> QED BY <2>1 DEF RowInv, Moves, MovesRow
<1>4. ChainInv'
  <2>1. ASSUME NEW u \in Turns, HasLease(u)'
        PROVE  (Starts(u) \/ \E p \in Turns : Extends(u, p))'
    <3>1. CASE u # t
      <4>1. HasLease(u) /\ turn'[u] = turn[u] /\ lineage' = lineage
        BY <2>1, <3>1 DEF Moves, HasLease
      <4> QED BY <4>1 DEF HistoryInv, ChainInv, Starts, Extends
    <3>2. CASE u = t
      <4>1. Starts(t) \/ \E p \in Turns : Extends(t, p)
        BY <2>1, <3>2 DEF MovesChain, HistoryInv, ChainInv
      <4>2. ASSUME Starts(t) PROVE Starts(t)'
        BY <2>1, <3>2, <4>2 DEF Starts, Moves, MovesChain
      <4>3. ASSUME NEW p \in Turns, Extends(t, p) PROVE Extends(t, p)'
        BY <2>1, <3>2, <4>3 DEF Extends, Moves, MovesChain
      <4> QED BY <3>2, <4>1, <4>2, <4>3
    <3> QED BY <3>1, <3>2
  <2> QED BY <2>1 DEF ChainInv
<1>5. BuiltInv'
  BY DEF HistoryInv, BuiltInv, Moves, MovesBuilt
<1>6. DurableInv'
  <2>0. Refs \subseteq Checkpoint
    BY DEF Refs, TypeCore, Turn, Pin
  <2>1. \A c \in Refs : c.rid \in Turns
    BY <2>0 DEF Checkpoint
  <2>2. \A s \in Sessions : \A c \in latest[s] : c.durable => stored'[c.rid] # {}
    <3> SUFFICES ASSUME NEW s \in Sessions, NEW c \in latest[s], c.durable
                 PROVE  stored'[c.rid] # {}
      OBVIOUS
    <3>1. c \in Refs
      BY DEF Refs
    <3> QED BY <1>2, <2>1, <3>1 DEF HistoryInv, DurableInv, DurableMeansStored
  <2>3. \A s \in Sessions : \A c \in latest'[s] : c.durable => stored'[c.rid] # {}
    BY <2>2 DEF MovesDurable
  <2>4. \A u \in Turns : \A c \in turn'[u].parent : c.durable => stored'[c.rid] # {}
    <3> SUFFICES ASSUME NEW u \in Turns, NEW c \in turn'[u].parent, c.durable
                 PROVE  stored'[c.rid] # {}
      OBVIOUS
    <3>1. CASE u = t
      BY <3>1 DEF MovesDurable
    <3>2. CASE u # t
      <4>1. c \in turn[u].parent
        BY <3>2 DEF Moves
      <4>2. c \in Refs
        BY <4>1 DEF Refs
      <4> QED BY <1>2, <2>1, <4>1, <4>2 DEF HistoryInv, DurableInv, DurableMeansStored
    <3> QED BY <3>1, <3>2
  <2>5. \A p \in pins' : p.ckpt.durable => stored'[p.ckpt.rid] # {}
    <3>1. \A p \in pins : p.ckpt \in Refs
      BY DEF Refs
    <3> QED BY <1>2, <2>1, <3>1 DEF HistoryInv, DurableInv, Moves
  <2>6. \A u \in Turns : turn'[u].phase = "publish" /\ turn'[u].store => stored'[u] # {}
    BY DEF HistoryInv, DurableInv, Moves, MovesDurable
  <2> QED BY <2>3, <2>4, <2>5, <2>6 DEF DurableInv, DurableMeansStored
<1> QED BY <1>1, <1>3, <1>4, <1>5, <1>6 DEF HistoryInv

(* A turn that only gives things up moves this way.                        *)
LEMMA GiveUpKeeps ==
    ASSUME TypeCore, LeaseInv, FreshInv, HistoryInv, NEW t \in Turns, Moves(t), t \in Known,
           stored' = stored, Refs' \subseteq Refs,
           \A s \in Sessions : latest'[s] \subseteq latest[s],
           turn'[t].built = {}, turn'[t].phase \in {"drop", "notify", "done"},
           HasLease(t)' => /\ HasLease(t) /\ turn'[t].prev = turn[t].prev
                           /\ turn'[t].parent = turn[t].parent,
           turn'[t].parent \subseteq turn[t].parent
    PROVE  HistoryInv'
<1>1. MovesRefs /\ MovesBuilt(t)
  BY DEF MovesRefs, MovesBuilt
<1>2. MovesRow(t)
  BY DEF MovesRow, HistoryInv, RowInv, Moves
<1>3. MovesChain(t)
  BY DEF MovesChain, HistoryInv, ChainInv, Starts, Extends
<1>4. MovesDurable(t)
  BY DEF MovesDurable, HistoryInv, DurableInv, DurableMeansStored
<1> QED BY <1>1, <1>2, <1>3, <1>4, MoveKeeps


(* What the chain of a turn that holds a lease says of its parent.         *)
LEMMA ParentOf ==
    ASSUME HistoryInv, NEW t \in Turns, HasLease(t)
    PROVE  /\ turn[t].prev = {} => turn[t].parent = {} /\ lineage[t] = <<t>>
           /\ \A p \in turn[t].prev : /\ p \in Turns
                                      /\ turn[t].prev = {p}
                                      /\ lineage[t] = Append(lineage[p], t)
           /\ \A c \in turn[t].parent : c.rid \in turn[t].prev
           /\ turn[t].phase \in {"run", "write", "publish"} =>
                turn[t].prev = {} \/ turn[t].parent # {}
BY DEF HistoryInv, ChainInv, Starts, Extends

(* The row a turn writes holds the history its request named, whether it   *)
(* copies a transient parent's or extends a stored one.                    *)
LEMMA DurableHistoryExact ==
    ASSUME HistoryInv, NEW t \in Turns, turn[t].phase = "write"
    PROVE  \A h \in DurableHistory(t) : h = lineage[t]
<1>0. HasLease(t)
  BY DEF HasLease, LeasePhases
<1>1. CASE \E c \in turn[t].parent : ~c.durable
  <2>1. turn[t].parent # {} /\ turn[t].parent \subseteq Refs
    BY <1>1 DEF Refs
  <2>2. \A h \in ParentItems(t) : \E c \in turn[t].parent : h = lineage[c.rid]
    BY <2>1 DEF ParentItems, HistoryInv, CheckpointInv
  <2>3. \A c \in turn[t].parent : lineage[t] = Append(lineage[c.rid], t)
    BY <1>0, ParentOf
  <2>4. DurableHistory(t) = {Append(h, t) : h \in ParentItems(t)}
    BY <1>1 DEF DurableHistory
  <2> QED BY <2>2, <2>3, <2>4
<1>2. CASE ~\E c \in turn[t].parent : ~c.durable
  <2>1. CASE turn[t].prev = {}
    <3>1. DurableHistory(t) = {<<t>>}
      BY <1>2, <2>1 DEF DurableHistory
    <3> QED BY <1>0, <2>1, <3>1, ParentOf
  <2>2. CASE turn[t].prev # {}
    <3>1. DurableHistory(t) = {Append(h, t) : h \in UNION {stored[p] : p \in turn[t].prev}}
      BY <1>2, <2>2 DEF DurableHistory
    <3>2. \A p \in turn[t].prev : lineage[t] = Append(lineage[p], t)
                                 /\ \A h \in stored[p] : h = lineage[p]
      BY <1>0, ParentOf DEF HistoryInv, RowInv
    <3> QED BY <3>1, <3>2
  <2> QED BY <2>1, <2>2
<1> QED BY <1>1, <1>2

(* Every step of a turn keeps the invariant.                               *)
LEMMA TurnHistory ==
    ASSUME TypeCore, LeaseInv, FreshInv, HistoryInv, NEW t \in Turns, TurnStep(t)
    PROVE  HistoryInv'
<1>0. turn[t] \in Turn
  BY DEF TypeCore
<1>1. CASE ResolveFork(t)
  <2> DEFINE found == UNION {{c \in latest[m] : c.rid \in turn[t].prev} :
                        m \in {m \in members : m \notin turn[t].session /\ ~closed[m]}}
  <2>1. \A c \in found : /\ c.rid \in turn[t].prev
                        /\ \E s \in Sessions : c \in latest[s]
    BY DEF TypeCore
  <2>2. turn' = [turn EXCEPT ![t].parent = found, ![t].phase = "rehydrate"]
    BY <1>1 DEF ResolveFork
  <2> HIDE DEF found
  <2>3. /\ turn[t].phase = "fork" /\ turn'[t].phase = "rehydrate"
        /\ turn'[t].parent = found /\ turn'[t].prev = turn[t].prev
        /\ turn'[t].built = turn[t].built /\ turn'[t].store = turn[t].store
        /\ \A u \in Turns \ {t} : turn'[u] = turn[u]
        /\ UNCHANGED <<latest, pins, stored, lineage>>
    BY <1>0, <1>1, <2>2 DEF ResolveFork, TypeCore, Turn, sessionVars
  <2>4. HasLease(t) /\ t \notin Known
    BY <2>3 DEF HasLease, LeasePhases, Known
  <2>5. Moves(t)
    BY <2>3, <2>4 DEF Moves, Phases
  <2>6. MovesRefs
    BY <2>1, <2>3 DEF MovesRefs, Refs
  <2>7. MovesRow(t) /\ MovesBuilt(t)
    BY <2>3, <2>4 DEF MovesRow, MovesBuilt, HistoryInv, RowInv, BuiltInv
  <2>8. MovesChain(t)
    BY <2>1, <2>3, <2>4 DEF MovesChain
  <2>9. MovesDurable(t)
    BY <2>1, <2>3 DEF MovesDurable, HistoryInv, DurableInv, DurableMeansStored
  <2> QED BY <2>5, <2>6, <2>7, <2>8, <2>9, MoveKeeps
<1>2. CASE Rehydrate(t)
  <2>1. /\ turn[t].phase = "rehydrate" /\ turn'[t].phase = "run"
        /\ turn[t].prev = {} \/ turn[t].parent # {}
        /\ turn'[t].parent = turn[t].parent /\ turn'[t].prev = turn[t].prev
        /\ turn'[t].built = turn[t].built /\ turn'[t].store = turn[t].store
        /\ \A u \in Turns \ {t} : turn'[u] = turn[u]
        /\ UNCHANGED <<latest, pins, stored, lineage>>
    BY <1>0, <1>2 DEF Rehydrate, TypeCore, Turn, sessionVars
  <2>2. HasLease(t) /\ t \notin Known
    BY <2>1 DEF HasLease, LeasePhases, Known
  <2>3. Moves(t)
    BY <2>1, <2>2 DEF Moves, Phases
  <2>4. MovesRefs
    BY <2>1 DEF MovesRefs, Refs
  <2>5. MovesRow(t) /\ MovesBuilt(t)
    BY <2>1, <2>2 DEF MovesRow, MovesBuilt, HistoryInv, RowInv, BuiltInv
  <2>6. MovesChain(t)
    BY <2>1, <2>2, ParentOf DEF MovesChain
  <2>7. MovesDurable(t)
    BY <2>1 DEF MovesDurable, HistoryInv, DurableInv, DurableMeansStored
  <2> QED BY <2>3, <2>4, <2>5, <2>6, <2>7, MoveKeeps
<1>3. ASSUME NEW bytes \in Sizes, RehydrateStored(t, bytes) PROVE HistoryInv'
  <2>1. PICK p \in turn[t].prev, h \in UNION {stored[q] : q \in turn[t].prev} :
          turn' = [turn EXCEPT
                     ![t].phase = "run",
                     ![t].parent = {[rid |-> p, by |-> t, bytes |-> bytes,
                                     durable |-> TRUE, history |-> h]}]
    BY <1>3 DEF RehydrateStored
  <2> DEFINE c == [rid |-> p, by |-> t, bytes |-> bytes, durable |-> TRUE,
                   history |-> h]
  <2>2. c.rid = p /\ c.history = h
    OBVIOUS
  <2>3. turn' = [turn EXCEPT ![t].phase = "run", ![t].parent = {c}]
    BY <2>1
  <2> HIDE DEF c
  <2>4. /\ turn[t].phase = "rehydrate" /\ turn'[t].phase = "run"
        /\ turn'[t].parent = {c} /\ turn'[t].prev = turn[t].prev
        /\ turn'[t].built = turn[t].built /\ turn'[t].store = turn[t].store
        /\ \A u \in Turns \ {t} : turn'[u] = turn[u]
        /\ UNCHANGED <<latest, pins, stored, lineage>>
    BY <1>0, <1>3, <2>3 DEF RehydrateStored, TypeCore, Turn, sessionVars
  <2>5. HasLease(t) /\ t \notin Known
    BY <2>4 DEF HasLease, LeasePhases, Known
  <2>6. /\ turn[t].prev = {p} /\ p \in Turns
    BY <2>1, <2>5, ParentOf
  <2>7. stored[p] # {} /\ h = lineage[p]
    BY <2>1, <2>6 DEF HistoryInv, RowInv
  <2>8. Moves(t)
    BY <2>4, <2>5 DEF Moves, Phases
  <2>9. MovesRefs
    <3>1. \A d \in Refs' : d \in Refs \/ d = c
      BY <2>4 DEF Refs
    <3> QED BY <2>2, <2>7, <3>1 DEF MovesRefs
  <2>10. MovesRow(t) /\ MovesBuilt(t)
    BY <2>4, <2>5 DEF MovesRow, MovesBuilt, HistoryInv, RowInv, BuiltInv
  <2>11. MovesChain(t)
    BY <2>2, <2>4, <2>5, <2>6 DEF MovesChain
  <2>12. MovesDurable(t)
    BY <2>2, <2>4, <2>7 DEF MovesDurable
  <2> QED BY <2>8, <2>9, <2>10, <2>11, <2>12, MoveKeeps
<1>4. ASSUME NEW bytes \in Sizes, BuildCheckpoint(t, bytes) PROVE HistoryInv'
  <2>1. PICK h \in ParentItems(t) :
          turn' = [turn EXCEPT
                     ![t].phase = AfterBuild(t),
                     ![t].built = {[rid |-> t, by |-> t, bytes |-> bytes,
                                    durable |-> turn[t].store,
                                    history |-> Append(h, t)]}]
    BY <1>4 DEF BuildCheckpoint
  <2> DEFINE c == [rid |-> t, by |-> t, bytes |-> bytes,
                   durable |-> turn[t].store, history |-> Append(h, t)]
  <2>2. c.rid = t /\ c.durable = turn[t].store /\ c.history = Append(h, t)
    OBVIOUS
  <2>3. turn' = [turn EXCEPT ![t].phase = AfterBuild(t), ![t].built = {c}]
    BY <2>1
  <2> HIDE DEF c
  <2>4. /\ turn[t].phase = "run"
        /\ turn'[t].phase \in {"write", "publish"}
        /\ turn'[t].phase = "publish" => ~turn[t].store
        /\ turn'[t].parent = turn[t].parent /\ turn'[t].prev = turn[t].prev
        /\ turn'[t].built = {c} /\ turn'[t].store = turn[t].store
        /\ \A u \in Turns \ {t} : turn'[u] = turn[u]
        /\ UNCHANGED <<latest, pins, stored, lineage>>
    BY <1>0, <1>4, <2>3 DEF BuildCheckpoint, AfterBuild, TypeCore, Turn, sessionVars
  <2>5. HasLease(t)
    BY <2>4 DEF HasLease, LeasePhases
  <2>6. Append(h, t) = lineage[t]
    <3>1. CASE turn[t].parent = {}
      <4>1. h = <<>>
        BY <2>1, <3>1 DEF ParentItems
      <4>2. turn[t].prev = {} /\ lineage[t] = <<t>>
        BY <2>4, <2>5, <3>1, ParentOf
      <4>3. Append(<<>>, t) = <<t>>
        OBVIOUS
      <4> QED BY <4>1, <4>2, <4>3
    <3>2. CASE turn[t].parent # {}
      <4>1. PICK d \in turn[t].parent : h = d.history
        BY <2>1, <3>2 DEF ParentItems
      <4>2. d \in Refs
        BY DEF Refs
      <4> QED BY <2>5, <4>1, <4>2, ParentOf DEF HistoryInv, CheckpointInv
    <3> QED BY <3>1, <3>2
  <2>7. Moves(t)
    BY <2>4 DEF Moves, Phases, Known
  <2>8. MovesRefs
    <3>1. \A d \in Refs' : d \in Refs \/ d = c
      BY <2>4 DEF Refs
    <3> QED BY <2>2, <2>6, <3>1 DEF MovesRefs
  <2>9. MovesRow(t) /\ MovesBuilt(t)
    BY <2>2, <2>4, <2>7 DEF MovesRow, MovesBuilt, Moves, HistoryInv, RowInv
  <2>10. MovesChain(t)
    BY <2>4, <2>5, ParentOf DEF MovesChain
  <2>11. MovesDurable(t)
    BY <2>4 DEF MovesDurable, HistoryInv, DurableInv, DurableMeansStored
  <2> QED BY <2>7, <2>8, <2>9, <2>10, <2>11, MoveKeeps
<1>5. CASE DurableWrite(t)
  <2>1. /\ turn[t].phase = "write" /\ turn'[t].phase = "publish"
        /\ turn'[t].parent = turn[t].parent /\ turn'[t].prev = turn[t].prev
        /\ turn'[t].built = turn[t].built /\ turn'[t].store = turn[t].store
        /\ \A u \in Turns \ {t} : turn'[u] = turn[u] /\ stored'[u] = stored[u]
        /\ stored'[t] = DurableHistory(t) /\ DurableHistory(t) # {}
        /\ UNCHANGED <<latest, pins, lineage>>
    BY <1>0, <1>5 DEF DurableWrite, TypeCore, Turn, sessionVars
  <2>2. HasLease(t) /\ t \in Known'
    BY <2>1 DEF HasLease, LeasePhases, Known
  <2>3. Moves(t)
    BY <2>1, <2>2 DEF Moves, Phases
  <2>4. MovesRefs
    BY <2>1 DEF MovesRefs, Refs
  <2>5. MovesRow(t) /\ MovesBuilt(t)
    BY <2>1, <2>2, DurableHistoryExact DEF MovesRow, MovesBuilt, HistoryInv, BuiltInv
  <2>6. MovesChain(t)
    BY <2>1, <2>2, ParentOf DEF MovesChain
  <2>7. MovesDurable(t)
    <3>1. \A c \in turn[t].parent : c.rid \in Turns
      BY <1>0 DEF Turn, Checkpoint
    <3> QED BY <2>1, <3>1 DEF MovesDurable, HistoryInv, DurableInv, DurableMeansStored
  <2> QED BY <2>3, <2>4, <2>5, <2>6, <2>7, MoveKeeps
<1>6. CASE Publish(t)
  <2>1. PICK s \in turn[t].session : latest' = [latest EXCEPT ![s] = turn[t].built]
    BY <1>6 DEF Publish
  <2>2. /\ turn[t].phase = "publish" /\ turn'[t].phase = "notify"
        /\ turn'[t].parent = {} /\ turn'[t].built = {}
        /\ \A u \in Turns \ {t} : turn'[u] = turn[u]
        /\ UNCHANGED <<pins, stored, lineage>>
    BY <1>0, <1>6 DEF Publish, EndLease, TypeCore, Turn
  <2>3. \A r \in Sessions : latest'[r] \subseteq latest[r] \cup turn[t].built
    BY <1>0, <2>1 DEF TypeCore, Turn
  <2>4. Moves(t)
    BY <2>2 DEF Moves, Phases, Known
  <2>5. MovesRefs
    BY <2>2, <2>3 DEF MovesRefs, Refs
  <2>6. MovesRow(t) /\ MovesBuilt(t)
    BY <2>2, <2>4 DEF MovesRow, MovesBuilt, Moves, HistoryInv, RowInv
  <2>7. MovesChain(t)
    BY <2>2 DEF MovesChain, HasLease, LeasePhases
  <2>8. MovesDurable(t)
    BY <2>2, <2>3 DEF MovesDurable, HistoryInv, BuiltInv, DurableInv
  <2> QED BY <2>4, <2>5, <2>6, <2>7, <2>8, MoveKeeps
<1>7. CASE Abandon(t)
  <2>1. /\ turn[t].phase \in {"rehydrate", "run", "write", "publish"}
        /\ turn'[t].phase = "drop" /\ turn'[t].parent = turn[t].parent
        /\ turn'[t].prev = turn[t].prev /\ turn'[t].built = {}
        /\ \A u \in Turns \ {t} : turn'[u] = turn[u]
        /\ UNCHANGED <<latest, pins, stored, lineage>>
    BY <1>0, <1>7 DEF Abandon, TypeCore, Turn, sessionVars
  <2>2. HasLease(t)
    BY <2>1 DEF HasLease, LeasePhases
  <2>3. Moves(t)
    BY <2>1 DEF Moves, Phases, Known
  <2>4. Refs' \subseteq Refs
    BY <2>1 DEF Refs
  <2>5. t \in Known'
    BY <2>1 DEF Known
  <2>6. MovesRefs /\ MovesBuilt(t)
    BY <2>1, <2>4 DEF MovesRefs, MovesBuilt
  <2>7. MovesRow(t)
    BY <2>1, <2>5 DEF MovesRow, HistoryInv, RowInv
  <2>8. MovesChain(t)
    BY <2>1, <2>2, ParentOf DEF MovesChain
  <2>9. MovesDurable(t)
    BY <2>1 DEF MovesDurable, HistoryInv, DurableInv, DurableMeansStored
  <2> QED BY <2>3, <2>6, <2>7, <2>8, <2>9, MoveKeeps
<1>8. CASE DropLease(t)
  <2>1. PICK s \in turn[t].session :
          latest' = [latest EXCEPT ![s] =
                       {c \in @ : \A p \in turn[t].parent : p.rid # c.rid}]
    BY <1>8 DEF DropLease
  <2>2. /\ turn[t].phase = "drop" /\ turn'[t].phase = "notify"
        /\ turn'[t].parent = {} /\ turn'[t].built = {}
        /\ \A u \in Turns \ {t} : turn'[u] = turn[u]
        /\ UNCHANGED <<pins, stored, lineage>>
    BY <1>0, <1>8 DEF DropLease, EndLease, TypeCore, Turn
  <2>3. \A r \in Sessions : latest'[r] \subseteq latest[r]
    BY <1>0, <2>1 DEF TypeCore, Turn
  <2>4. Refs' \subseteq Refs
    BY <2>2, <2>3 DEF Refs
  <2>5. Moves(t) /\ t \in Known /\ ~HasLease(t)'
    BY <2>2 DEF Moves, Phases, Known, HasLease, LeasePhases
  <2> QED BY <2>2, <2>3, <2>4, <2>5, GiveUpKeeps
<1>9. CASE NotifyIdle(t)
  <2>1. /\ turn[t].phase = "notify" /\ turn'[t].phase = "done"
        /\ turn'[t].parent = turn[t].parent /\ turn'[t].built = turn[t].built
        /\ \A u \in Turns \ {t} : turn'[u] = turn[u]
        /\ UNCHANGED <<latest, pins, stored, lineage>>
    BY <1>0, <1>9 DEF NotifyIdle, TypeCore, Turn, sessionVars
  <2>2. Moves(t) /\ t \in Known /\ ~HasLease(t) /\ ~HasLease(t)'
    BY <2>1 DEF Moves, Phases, Known, HasLease, LeasePhases
  <2>3. turn'[t].built = {}
    BY <2>1, <2>2 DEF LeaseInv, TurnInv
  <2>4. Refs' \subseteq Refs
    BY <2>1 DEF Refs
  <2> QED BY <2>1, <2>2, <2>3, <2>4, GiveUpKeeps
<1> QED BY <1>1, <1>2, <1>3, <1>4, <1>5, <1>6, <1>7, <1>8, <1>9 DEF TurnStep


-----------------------------------------------------------------------------
(* The theorems *)

(* Every step keeps the histories right.                                   *)
LEMMA HistoryStep == Inv /\ HistoryInv /\ [Next]_vars => HistoryInv'
<1> SUFFICES ASSUME TypeCore, LeaseInv, FreshInv, HistoryInv, [Next]_vars
             PROVE  HistoryInv'
  BY DEF Inv
<1>1. CASE \/ DropGroup
           \/ \E s \in Sessions :
                \/ NewSession(s) \/ CloseMember(s) \/ DropSession(s)
                \/ PinResponse(s) \/ DiscardCachedResponse(s) \/ WaitStep(s)
           \/ \E pin \in pins : Unpin(pin)
           \/ UNCHANGED vars
  BY <1>1, OutsideStep, CachesKeep
<1>2. ASSUME NEW t \in Turns, NEW store \in BOOLEAN, NEW s \in Sessions,
             BeginFresh(t, s, store)
      PROVE  HistoryInv'
  BY <1>2, TakeLeaseHistory DEF BeginFresh
<1>3. ASSUME NEW t \in Turns, NEW store \in BOOLEAN, NEW s \in Sessions,
             NEW p \in Turns, Begin(t, s, p, store)
      PROVE  HistoryInv'
  <2> DEFINE own == {c \in latest[s] : c.rid = p}
             phase == IF own = {} THEN "fork" ELSE "rehydrate"
  <2>1. /\ phase \in {"fork", "rehydrate"}
        /\ \A c \in own : c.rid = p
        /\ own \subseteq (UNION {latest[r] : r \in Sessions}) \cup {q.ckpt : q \in pins}
    OBVIOUS
  <2>2. p \in Known /\ TakeLease(t, s, {p}, lineage[p], store, own, phase)
    BY <1>3 DEF Begin
  <2> HIDE DEF own, phase
  <2> QED BY <2>1, <2>2, TakeLeaseHistory
<1>4. ASSUME NEW t \in Turns, NEW store \in BOOLEAN, NEW pin \in pins,
             BeginPinned(t, pin, store)
      PROVE  HistoryInv'
  <2>1. pin.ckpt \in Refs
    BY DEF Refs
  <2>2. pin.ckpt.rid \in Known
    BY <2>1 DEF FreshInv
  <2> QED BY <1>4, <2>2, TakeLeaseHistory DEF BeginPinned
<1>5. ASSUME NEW t \in Turns, TurnStep(t) PROVE HistoryInv'
  BY <1>5, TurnHistory
<1> QED BY <1>1, <1>2, <1>3, <1>4, <1>5 DEF Next, WaitStep

(* Initially there are no checkpoints, rows or leases.                     *)
LEMMA InitHistory == Init => HistoryInv
<1> SUFFICES ASSUME Init PROVE HistoryInv
  OBVIOUS
<1>1. Refs = {}
  BY DEF Init, Refs
<1>2. CheckpointInv /\ RowInv
  BY <1>1 DEF Init, CheckpointInv, RowInv
<1>3. ChainInv /\ BuiltInv /\ DurableInv
  BY DEF Init, ChainInv, BuiltInv, DurableInv, DurableMeansStored, HasLease, LeasePhases
<1> QED BY <1>2, <1>3 DEF HistoryInv

(* The histories are right in every behaviour.                             *)
LEMMA HistoryInvariance == Spec => []HistoryInv
BY InitHistory, HistoryStep, Invariance, PTL DEF Spec

(* Whatever forks, pins, evictions, storage fallbacks and disposals happen *)
(* on the way, every checkpoint and every stored row holds exactly the     *)
(* history of the chain its request named (from_session_response,          *)
(* ResponseContinuation::checkpoint, write_turn).                          *)
THEOREM HistoriesContinue == Spec => []HistoryContinuity
<1>1. HistoryInv => HistoryContinuity
  BY DEF HistoryInv, CheckpointInv, RowInv, HistoryContinuity
<1> QED BY <1>1, HistoryInvariance, PTL

(* A checkpoint another turn can continue says it is durable only if its   *)
(* row was stored (write_turn writes before it publishes).                 *)
THEOREM DurableIsStored == Spec => []DurableMeansStored
<1>1. HistoryInv => DurableMeansStored
  BY DEF HistoryInv, DurableInv
<1> QED BY <1>1, HistoryInvariance, PTL

=============================================================================
