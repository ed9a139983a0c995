-------------------------- MODULE CodeWorkersProofs --------------------------
(***************************************************************************)
(* Proofs about CodeWorkers for every set of calls and every number of     *)
(* permits: its types, and that guests are bounded in number and output,   *)
(* stop with their requests and are reported as they ended.                *)
(***************************************************************************)
EXTENDS CodeWorkers, FiniteSetTheorems, TLAPS

-----------------------------------------------------------------------------
(* The inductive invariant, call by call *)

(* A permit is held from admission to the answer, and a worker exists only *)
(* for a supervisor that has spawned and not yet dropped one.              *)
PermitInv(c) ==
    /\ c \in held <=> sup[c] \notin {"none", "done"}
    /\ sup[c] = "none" <=> req[c] \in {"new", "refused"}
    /\ sup[c] \in {"none", "group", "install", "check", "spawn"} => worker[c] = "none"
    /\ sup[c] \in {"reply", "done"} => worker[c] \in {"none", "reaped"}
    /\ sup[c] \in {"confirm", "accept", "send", "read", "wait"} => inGroup[c]

(* The cancel of a request is remembered until the callback is installed,  *)
(* and from then on the callback's flag says what happened.                *)
CancelInv(c) ==
    /\ cancelled[c] <=> req[c] = "dropped"
    /\ sup[c] \in {"none", "group", "install"} => ~installed[c]
    /\ sup[c] \in {"check", "spawn", "attach", "confirm", "accept", "send", "read", "wait"}
          => installed[c]
    /\ installed[c] => flag[c] = cancelled[c]

(* A request is sent only to a worker in its group, and a kill that has    *)
(* run since the supervisor checked has ended that worker.                 *)
KillInv(c) ==
    /\ worker[c] \in {"building", "guest", "wrote"} => sent[c]
    /\ sent[c] => sup[c] \in {"read", "wait", "drop", "reply", "done"}
    /\ sent[c] /\ worker[c] \in Alive => inGroup[c] /\ installed[c]
    /\ (sup[c] \in {"accept", "send"} \/ sent[c]) /\ cancelled[c] /\ ~killing[c]
          => worker[c] \notin Alive

(* What a worker answered was decided by its guest, and an outcome follows *)
(* from the answer or from how the worker ended.                           *)
AnswerInv(c) ==
    /\ worker[c] \in {"none", "booting", "connected", "building"} => ~armed[c]
    /\ worker[c] \in {"none", "booting", "connected", "building", "guest"} => resp[c] = "none"
    /\ exit[c] # "none" => worker[c] \in {"exited", "reaped"}
    /\ resp[c] = "completed" => ~exceeded[c]
    /\ outcome[c] = "completed" => resp[c] = "completed"
    /\ outcome[c] = "incomplete" =>
         late[c] \/ exit[c] = "oom" \/ resp[c] = "incomplete"
    /\ worker[c] = "guest" /\ exceeded[c] /\ armed[c] => stopping[c]

CallInv(c) == PermitInv(c) /\ CancelInv(c) /\ KillInv(c) /\ AnswerInv(c)

Inv == TypeOK /\ IsFiniteSet(held) /\ \A c \in Calls : CallInv(c)

(* A step on behalf of one call.                                           *)
Act(c) == Admit(c) \/ Refuse(c) \/ DropRequest(c) \/ KillGroup(c)
          \/ Supervise(c) \/ Deadline(c) \/ Work(c)

-----------------------------------------------------------------------------
(* Types *)

(* A step keeps every variable in its type, and no more permits are taken   *)
(* than there are.                                                         *)
LEMMA TypeStep ==
    ASSUME TypeOK, IsFiniteSet(held), NEW c \in Calls, Act(c)
    PROVE  TypeOK' /\ IsFiniteSet(held)'
<1> USE DEF Set, Goto, Return, Killed, cancellation, process
<1>1. CASE Admit(c)
  <2>1. IsFiniteSet(held') /\ Cardinality(held') <= Slots
    <3>1. held' = held \cup {c} /\ Cardinality(held) < Slots
      BY <1>1 DEF Admit
    <3>2. Cardinality(held) \in Nat
      BY FS_CardinalityType
    <3>3. IsFiniteSet(held') /\ Cardinality(held') \in {Cardinality(held), Cardinality(held) + 1}
      BY <3>1, FS_AddElement
    <3> QED BY <3>1, <3>2, <3>3, SlotsAssumption
  <2> QED BY <1>1, <2>1 DEF Admit, TypeOK
<1>2. CASE Refuse(c)
  BY <1>2 DEF Refuse, TypeOK, Alive, Results
<1>3. CASE DropRequest(c)
  BY <1>3 DEF DropRequest, TypeOK, Alive, Results
<1>4. CASE KillGroup(c)
  BY <1>4 DEF KillGroup, TypeOK, Alive, Results
<1>5. CASE MakeGroup(c)
  BY <1>5 DEF MakeGroup, TypeOK, Alive, Results
<1>6. CASE Install(c)
  BY <1>6 DEF Install, TypeOK, Alive, Results
<1>7. CASE CheckBeforeSpawn(c)
  BY <1>7 DEF CheckBeforeSpawn, TypeOK, Alive, Results
<1>8. CASE Spawn(c)
  BY <1>8 DEF Spawn, TypeOK, Alive, Results
<1>9. CASE Attach(c)
  <2>1. /\ inGroup' \in [Calls -> BOOLEAN]
        /\ UNCHANGED <<cancelled, installed, flag, killing, sent, exceeded, stopping, armed, late>>
    BY <1>9 DEF Attach, TypeOK
  <2>2. UNCHANGED <<req, held, worker, resp, exit>>
    BY <1>9 DEF Attach
  <2>3. sup' \in [Calls -> {"none", "group", "install", "check", "spawn", "attach", "confirm",
                           "accept", "send", "read", "wait", "drop", "reply", "done"}]
    BY <1>9 DEF Attach, TypeOK
  <2>4. outcome' \in [Calls -> Results \cup {"none"}]
    BY <1>9 DEF Attach, TypeOK, Results
  <2> QED BY <2>1, <2>2, <2>3, <2>4 DEF TypeOK
<1>10. CASE CheckAttached(c)
  BY <1>10 DEF CheckAttached, TypeOK, Alive, Results
<1>11. CASE AcceptChild(c)
  BY <1>11 DEF AcceptChild, TypeOK, Alive, Results
<1>12. CASE AcceptTimesOut(c)
  BY <1>12 DEF AcceptTimesOut, TypeOK, Alive, Results
<1>13. CASE Send(c)
  <2>1. /\ sent' \in [Calls -> BOOLEAN]
        /\ UNCHANGED <<cancelled, installed, flag, killing, inGroup, exceeded, stopping, armed, late>>
    BY <1>13 DEF Send, TypeOK
  <2>2. UNCHANGED <<req, held, worker, resp, exit>>
    BY <1>13 DEF Send
  <2>3. sup' \in [Calls -> {"none", "group", "install", "check", "spawn", "attach", "confirm",
                           "accept", "send", "read", "wait", "drop", "reply", "done"}]
    BY <1>13 DEF Send, TypeOK
  <2>4. outcome' \in [Calls -> Results \cup {"none"}]
    BY <1>13 DEF Send, TypeOK, Results
  <2> QED BY <2>1, <2>2, <2>3, <2>4 DEF TypeOK
<1>14. CASE ReadResponse(c)
  BY <1>14 DEF ReadResponse, TypeOK, Alive, Results
<1>15. CASE ReadTimesOut(c)
  BY <1>15 DEF ReadTimesOut, TypeOK, Alive, Results
<1>16. CASE WaitExit(c)
  BY <1>16 DEF WaitExit, TypeOK, Alive, Results
<1>17. CASE WaitTimesOut(c)
  BY <1>17 DEF WaitTimesOut, TypeOK, Alive, Results
<1>18. CASE DropWorker(c)
  BY <1>18 DEF DropWorker, TypeOK, Alive, Results
<1>19. CASE Reply(c)
  <2>1. IsFiniteSet(held') /\ Cardinality(held') <= Cardinality(held)
    BY <1>19, FS_Subset DEF Reply
  <2>2. Cardinality(held') <= Slots
    BY <2>1, FS_CardinalityType, SlotsAssumption DEF TypeOK
  <2> QED BY <1>19, <2>1, <2>2 DEF Reply, TypeOK
<1>20. CASE Connect(c)
  BY <1>20 DEF Connect, TypeOK, Alive, Results
<1>21. CASE Receive(c)
  BY <1>21 DEF Receive, TypeOK, Alive, Results
<1>22. CASE StartGuest(c)
  BY <1>22 DEF StartGuest, TypeOK, Alive, Results
<1>23. CASE Overflow(c)
  BY <1>23 DEF Overflow, TypeOK, Alive, Results
<1>24. CASE ArmGuest(c)
  BY <1>24 DEF ArmGuest, TypeOK, Alive, Results
<1>25. CASE GuestEnds(c)
  BY <1>25 DEF GuestEnds, TypeOK, Alive, Results
<1>26. CASE BuildFails(c)
  BY <1>26 DEF BuildFails, TypeOK, Alive, Results
<1>27. CASE Exit(c)
  BY <1>27 DEF Exit, TypeOK, Alive, Results
<1>28. CASE Crash(c)
  BY <1>28 DEF Crash, TypeOK, Alive, Results
<1> QED BY <1>1, <1>2, <1>3, <1>4, <1>5, <1>6, <1>7, <1>8, <1>9, <1>10, <1>11, <1>12, <1>13, <1>14, <1>15, <1>16, <1>17, <1>18, <1>19, <1>20, <1>21, <1>22, <1>23, <1>24, <1>25, <1>26, <1>27, <1>28 DEF Act, Supervise, Deadline, Work

-----------------------------------------------------------------------------
(* The invariant *)

(* A step on behalf of a call keeps what holds of that call ...             *)
LEMMA CallStep ==
    ASSUME Inv, NEW c \in Calls, Act(c)
    PROVE  CallInv(c)'
<1> USE DEF Set, Goto, Return, Killed, cancellation, process, Inv, TypeOK, CallInv, PermitInv, CancelInv, KillInv, AnswerInv, Alive, Results
<1>1. CASE Admit(c)
  BY <1>1 DEF Admit
<1>2. CASE Refuse(c)
  BY <1>2 DEF Refuse
<1>3. CASE DropRequest(c)
  <2>1. /\ req[c] = "waiting" /\ req'[c] = "dropped" /\ cancelled'[c] = TRUE
        /\ flag'[c] = installed[c] /\ killing'[c] = installed[c]
        /\ UNCHANGED <<held, sup, installed, process, outcome, late>>
    BY <1>3 DEF DropRequest
  <2>2. PermitInv(c)' /\ AnswerInv(c)'
    BY <2>1
  <2>3. CancelInv(c)'
    BY <2>1
  <2>4. KillInv(c)'
    BY <2>1
  <2> QED BY <2>2, <2>3, <2>4
<1>4. CASE KillGroup(c)
  BY <1>4 DEF KillGroup
<1>5. CASE MakeGroup(c)
  BY <1>5 DEF MakeGroup
<1>6. CASE Install(c)
  BY <1>6 DEF Install
<1>7. CASE CheckBeforeSpawn(c)
  BY <1>7 DEF CheckBeforeSpawn
<1>8. CASE Spawn(c)
  <2>1. /\ sup[c] = "spawn" /\ worker[c] = "none"
        /\ \/ worker'[c] = "booting" /\ sup'[c] = "attach" /\ outcome'[c] = outcome[c]
           \/ worker'[c] = "none" /\ sup'[c] = "drop" /\ outcome'[c] = "error"
        /\ UNCHANGED <<req, held, cancellation, inGroup, sent, exceeded, stopping, armed, resp,
                       exit, late>>
    BY <1>8 DEF Spawn
  <2>2. PermitInv(c)' /\ CancelInv(c)'
    BY <2>1
  <2>3. KillInv(c)'
    BY <2>1
  <2>4. AnswerInv(c)'
    BY <2>1
  <2> QED BY <2>2, <2>3, <2>4
<1>9. CASE Attach(c)
  BY <1>9 DEF Attach
<1>10. CASE CheckAttached(c)
  BY <1>10 DEF CheckAttached
<1>11. CASE AcceptChild(c)
  BY <1>11 DEF AcceptChild
<1>12. CASE AcceptTimesOut(c)
  BY <1>12 DEF AcceptTimesOut
<1>13. CASE Send(c)
  BY <1>13 DEF Send
<1>14. CASE ReadResponse(c)
  BY <1>14 DEF ReadResponse
<1>15. CASE ReadTimesOut(c)
  BY <1>15 DEF ReadTimesOut
<1>16. CASE WaitExit(c)
  BY <1>16 DEF WaitExit
<1>17. CASE WaitTimesOut(c)
  BY <1>17 DEF WaitTimesOut
<1>18. CASE DropWorker(c)
  BY <1>18 DEF DropWorker
<1>19. CASE Reply(c)
  BY <1>19 DEF Reply
<1>20. CASE Connect(c)
  BY <1>20 DEF Connect
<1>21. CASE Receive(c)
  BY <1>21 DEF Receive
<1>22. CASE StartGuest(c)
  BY <1>22 DEF StartGuest
<1>23. CASE Overflow(c)
  BY <1>23 DEF Overflow
<1>24. CASE ArmGuest(c)
  BY <1>24 DEF ArmGuest
<1>25. CASE GuestEnds(c)
  BY <1>25 DEF GuestEnds
<1>26. CASE BuildFails(c)
  BY <1>26 DEF BuildFails
<1>27. CASE Exit(c)
  BY <1>27 DEF Exit
<1>28. CASE Crash(c)
  BY <1>28 DEF Crash
<1> QED BY <1>1, <1>2, <1>3, <1>4, <1>5, <1>6, <1>7, <1>8, <1>9, <1>10, <1>11, <1>12, <1>13, <1>14, <1>15, <1>16, <1>17, <1>18, <1>19, <1>20, <1>21, <1>22, <1>23, <1>24, <1>25, <1>26, <1>27, <1>28 DEF Act, Supervise, Deadline, Work

(* ... and leaves every other call as it was.                              *)
LEMMA OtherCalls ==
    ASSUME Inv, NEW c \in Calls, Act(c), NEW d \in Calls, d # c
    PROVE  CallInv(d)'
<1> USE DEF Set, Goto, Return, Killed, cancellation, process, TypeOK, Inv
<1>1. /\ req'[d] = req[d] /\ sup'[d] = sup[d] /\ (d \in held' <=> d \in held)
      /\ cancelled'[d] = cancelled[d] /\ installed'[d] = installed[d]
      /\ flag'[d] = flag[d] /\ killing'[d] = killing[d]
  <2>1. CASE Admit(c) \/ Refuse(c) \/ DropRequest(c) \/ KillGroup(c)
    BY <2>1 DEF Admit, Refuse, DropRequest, KillGroup
  <2>2. CASE Supervise(c)
    BY <2>2 DEF Supervise, MakeGroup, Install, CheckBeforeSpawn, Spawn, Attach, CheckAttached,
                AcceptChild, Send, ReadResponse, WaitExit, DropWorker, Reply
  <2>3. CASE Deadline(c) \/ Work(c)
    BY <2>3 DEF Deadline, AcceptTimesOut, ReadTimesOut, WaitTimesOut, Work, Connect, Receive,
                StartGuest, Overflow, ArmGuest, GuestEnds, BuildFails, Exit, Crash
  <2> QED BY <2>1, <2>2, <2>3 DEF Act
<1>2. /\ worker'[d] = worker[d] /\ inGroup'[d] = inGroup[d] /\ sent'[d] = sent[d]
      /\ exceeded'[d] = exceeded[d] /\ stopping'[d] = stopping[d] /\ armed'[d] = armed[d]
      /\ resp'[d] = resp[d] /\ exit'[d] = exit[d] /\ late'[d] = late[d]
      /\ outcome'[d] = outcome[d]
  <2>1. CASE Admit(c) \/ Refuse(c) \/ DropRequest(c) \/ KillGroup(c)
    BY <2>1 DEF Admit, Refuse, DropRequest, KillGroup
  <2>2. CASE Supervise(c)
    BY <2>2 DEF Supervise, MakeGroup, Install, CheckBeforeSpawn, Spawn, Attach, CheckAttached,
                AcceptChild, Send, ReadResponse, WaitExit, DropWorker, Reply
  <2>3. CASE Deadline(c) \/ Work(c)
    BY <2>3 DEF Deadline, AcceptTimesOut, ReadTimesOut, WaitTimesOut, Work, Connect, Receive,
                StartGuest, Overflow, ArmGuest, GuestEnds, BuildFails, Exit, Crash
  <2> QED BY <2>1, <2>2, <2>3 DEF Act
<1>3. CallInv(d)
  OBVIOUS
<1>4. PermitInv(d)' /\ CancelInv(d)'
  BY <1>1, <1>2, <1>3 DEF CallInv, PermitInv, CancelInv
<1>5. KillInv(d)' /\ AnswerInv(d)'
  BY <1>1, <1>2, <1>3 DEF CallInv, KillInv, AnswerInv
<1> QED BY <1>4, <1>5 DEF CallInv

(* Every step keeps the invariant.                                         *)
LEMMA InvStep == Inv /\ [Next]_vars => Inv'
<1> SUFFICES ASSUME Inv, [Next]_vars PROVE Inv'
  OBVIOUS
<1>1. CASE UNCHANGED vars
  BY <1>1 DEF vars, cancellation, process, Inv, TypeOK, CallInv, PermitInv, CancelInv, KillInv,
              AnswerInv
<1>2. ASSUME NEW c \in Calls, Act(c) PROVE Inv'
  <2>1. TypeOK' /\ IsFiniteSet(held)'
    BY <1>2, TypeStep DEF Inv
  <2>2. ASSUME NEW d \in Calls PROVE CallInv(d)'
    BY <1>2, CallStep, OtherCalls
  <2> QED BY <2>1, <2>2 DEF Inv
<1> QED BY <1>1, <1>2 DEF Next, Over, Act

(* The invariant holds at the start.                                       *)
LEMMA InitInv == Init => Inv
<1> SUFFICES ASSUME Init PROVE Inv
  OBVIOUS
<1>1. IsFiniteSet(held) /\ Cardinality(held) <= Slots
  BY FS_EmptySet, SlotsAssumption DEF Init
<1>2. TypeOK
  BY <1>1 DEF Init, TypeOK, No, None, Results
<1>3. ASSUME NEW c \in Calls PROVE CallInv(c)
  BY DEF Init, No, None, CallInv, PermitInv, CancelInv, KillInv, AnswerInv, Alive
<1> QED BY <1>1, <1>2, <1>3 DEF Inv

(* The invariant of CodeWorkers.                                           *)
THEOREM Invariance == Spec => []Inv
<1>1. Init => Inv
  BY InitInv
<1>2. Inv /\ [Next]_vars => Inv'
  BY InvStep
<1> QED BY <1>1, <1>2, PTL DEF Spec

-----------------------------------------------------------------------------
(* Workers belong to permits: a call without one has no worker, so that    *)
(* there are no more workers than permits.                                 *)
LEMMA WorkersHold == Inv => ReapedBeforeRelease
<1> SUFFICES ASSUME Inv PROVE ReapedBeforeRelease
  OBVIOUS
<1>1. ASSUME NEW c \in Calls, c \notin held PROVE worker[c] \in {"none", "reaped"}
  BY <1>1 DEF Inv, CallInv, PermitInv
<1> DEFINE W == {c \in Calls : worker[c] \notin {"none", "reaped"}}
<1>2. W \subseteq held
  BY <1>1
<1>3. IsFiniteSet(held) /\ Cardinality(held) \in Nat /\ Cardinality(held) <= Slots
  BY FS_CardinalityType DEF Inv, TypeOK
<1>4. Cardinality(W) \in Nat /\ Cardinality(W) <= Cardinality(held)
  BY <1>2, <1>3, FS_Subset, FS_CardinalityType
<1>5. Cardinality(W) <= Slots
  BY <1>3, <1>4, SlotsAssumption
<1> QED BY <1>1, <1>5 DEF ReapedBeforeRelease

(* Guests are bounded in number and in output, stop with their requests,   *)
(* and are reported as they ended (code_interpreter).                      *)
THEOREM GuestsAreBounded == Spec => []GuestsBounded
<1>1. Inv => NoGuestAfterCancel
  BY DEF Inv, CallInv, KillInv, NoGuestAfterCancel, Alive
<1>2. Inv => OutcomeTrue /\ OverflowStops
  BY DEF Inv, CallInv, AnswerInv, OutcomeTrue, OverflowStops
<1>3. Inv => GuestsBounded
  BY <1>1, <1>2, WorkersHold DEF Inv, GuestsBounded
<1> QED BY <1>3, Invariance, PTL

=============================================================================
