------------------------- MODULE ServerLifecycleProofs --------------------------
(***************************************************************************)
(* Proofs about the start, drain and stop of the gateway for every number  *)
(* of clients and every drain timeout, with and without the launcher.      *)
(***************************************************************************)
EXTENDS ServerLifecycle, FiniteSetTheorems, TLAPS

-----------------------------------------------------------------------------
(* The inductive invariant *)

(* TypeOK without the count of the tracker, in two parts.                  *)
FlagsType ==
    /\ llmFailed \in BOOLEAN /\ signalled \in BOOLEAN /\ heard \in BOOLEAN
    /\ token \in BOOLEAN /\ listening \in BOOLEAN /\ notified \in BOOLEAN

TypeCore ==
    /\ FlagsType
    /\ launcher \in {"none", "wait", "harness", "cleanup", "over"}
    /\ harness \in {"none", "running", "gone"}
    /\ server \in {"discover", "exited", "killed"} \cup Running
    /\ result \in {"none", "ok", "llm_exited", "error"}
    /\ llm \in {"none", "loading", "ready", "gone"}
    /\ elapsed \in 0..DrainTimeout
    /\ gate \in {"none", "bind", "accept", "workers", "idle", "threads", "done", "dropped"}
    /\ worker \in {"none", "running", "gone"}
    /\ http \in [Clients -> HttpStates]
    /\ lease \in [Clients -> LeaseStates]
    /\ socket \in [Clients -> SocketStates]
    /\ waiter \in {"off", "armed", "asleep"}

(* The clients a tracked guard exists for: an upgrade under way, or an     *)
(* open WebSocket task.                                                    *)
Tracked ==
    {c \in Clients : http[c] = "upgrading" \/ socket[c] \in {"open", "busy", "leaving"}}

(* The tracker counts them.                                                *)
CountInv == active = Cardinality(Tracked)

(* A client without an HTTP connection, or a socket, that still runs or    *)
(* was cut.                                                                *)
NoConnection(c) == http[c] \notin {"running", "upgrading", "cut"}
NoSocket(c) == socket[c] \notin {"open", "busy", "leaving", "cut"}

(* run_with_llm: what it owes to the signal, to vLLM and to its result.    *)
RunInv ==
    /\ server = "discover" => llm = "none"
    /\ server = "exited" => llm \in {"none", "gone"}
    /\ llm = "gone" => llmFailed \/ server = "exited"
    /\ signalled \/ server = "draining" => heard
    /\ server \in {"reaping", "exited"} =>
         /\ result # "none"
         /\ result = "ok" => heard
         /\ result = "llm_exited" => llmFailed

(* serve_gateway: what each of its stages has already seen end.            *)
GateInv ==
    /\ server \in {"discover", "startup"} => gate = "none"
    /\ server = "reaping" => gate \in {"none", "done", "dropped"}
    /\ gate \in {"none", "bind"} =>
         /\ worker = "none"
         /\ \A c \in Clients : http[c] = "none" /\ lease[c] = "none" /\ socket[c] = "none"
    /\ gate \in {"workers", "idle", "threads", "done"} =>
         \A c \in Clients : NoConnection(c) /\ lease[c] # "held"
    /\ gate \in {"idle", "threads", "done"} => worker # "running"
    /\ gate \in {"threads", "done"} => \A c \in Clients : NoSocket(c)
    /\ gate = "done" => \A c \in Clients : lease[c] # "releasing"
    /\ waiter # "off" => gate = "idle"

(* A client's connection, lease and socket, and when they may be cut.      *)
ClientInv ==
    \A c \in Clients :
      /\ socket[c] # "none" => http[c] = "done"
      /\ lease[c] = "held" => http[c] \in {"running", "cut"}
      /\ server \notin {"exited", "killed"} => http[c] # "cut" /\ socket[c] # "cut"
      /\ server \in {"reaping", "exited"} /\ result = "ok" =>
           elapsed = DrainTimeout \/ (NoConnection(c) /\ NoSocket(c))

(* The inductive invariant.                                                *)
Inv == TypeCore /\ CountInv /\ RunInv /\ GateInv /\ ClientInv /\ NoLostWakeup

(* The parts are the types of the model.                                   *)
LEMMA TypeSplit == TypeOK <=> TypeCore /\ CountInv
BY DEF TypeOK, TypeCore, FlagsType, CountInv, Tracked

-----------------------------------------------------------------------------
(* Types *)

(* Every step keeps the flags Boolean.                                     *)
LEMMA FlagsStep == FlagsType /\ [Next]_vars => FlagsType'
<1> SUFFICES ASSUME FlagsType, [Next]_vars PROVE FlagsType'
  OBVIOUS
<1>1. CASE Discover
  BY <1>1, Zenon DEF FlagsType, Discover, proc, future, tracker
<1>2. CASE StartupSignal
  BY <1>2, Zenon DEF FlagsType, StartupSignal, Conclude, proc, future, tracker
<1>3. CASE StartupExit
  BY <1>3, Zenon DEF FlagsType, StartupExit, Conclude, proc, future, tracker
<1>4. CASE StartupReady
  BY <1>4, Zenon DEF FlagsType, StartupReady, Conclude, proc, future, tracker
<1>5. CASE Bind
  BY <1>5, Zenon DEF FlagsType, Bind, Conclude, proc, future, tracker
<1>6. CASE ServeSignal
  BY <1>6, Zenon DEF FlagsType, ServeSignal, proc, future, tracker
<1>7. CASE ServeChildExit
  BY <1>7, Zenon DEF FlagsType, ServeChildExit, Conclude, proc, future, tracker
<1>8. CASE DrainDone
  BY <1>8, Zenon DEF FlagsType, DrainDone, Conclude, proc, future, tracker
<1>9. CASE DrainTimesOut
  BY <1>9, Zenon DEF FlagsType, DrainTimesOut, Conclude, proc, future, tracker
<1>10. CASE Reap
  BY <1>10, Zenon DEF FlagsType, Reap, proc, future, tracker
<1>11. CASE StopListening
  BY <1>11, Zenon DEF FlagsType, StopListening, proc, future, tracker
<1>12. CASE ServeEnds
  BY <1>12, Zenon DEF FlagsType, ServeEnds, proc, future, tracker
<1>13. CASE JoinWorkers
  BY <1>13, Zenon DEF FlagsType, JoinWorkers, proc, future, tracker
<1>14. CASE WorkerStops
  BY <1>14, Zenon DEF FlagsType, WorkerStops, proc, future, tracker
<1>15. CASE Arm
  BY <1>15, Zenon DEF FlagsType, Arm, proc, future, tracker
<1>16. CASE CheckActive
  BY <1>16, Zenon DEF FlagsType, CheckActive, proc, future, tracker
<1>17. CASE Wake
  BY <1>17, Zenon DEF FlagsType, Wake, proc, future, tracker
<1>18. CASE JoinReleases
  BY <1>18, Zenon DEF FlagsType, JoinReleases, proc, future, tracker
<1>19. CASE Signal
  BY <1>19, Zenon DEF FlagsType, Signal, proc, future, tracker
<1>20. CASE LlmReady
  BY <1>20, Zenon DEF FlagsType, LlmReady, proc, future, tracker
<1>21. CASE LlmExits
  BY <1>21, Zenon DEF FlagsType, LlmExits, proc, future, tracker
<1>22. CASE Tick
  BY <1>22, Zenon DEF FlagsType, Tick, proc, future, tracker
<1>23. CASE SessionStarts
  BY <1>23, Zenon DEF FlagsType, SessionStarts, proc, future, tracker
<1>24. CASE HarnessExits
  BY <1>24, Zenon DEF FlagsType, HarnessExits, proc, future, tracker
<1>25. CASE Cleanup
  BY <1>25, Zenon DEF FlagsType, Cleanup, proc, future, tracker
<1>26. ASSUME NEW c \in Clients, ClientStep(c) PROVE FlagsType'
  BY <1>26, Zenon DEF FlagsType, ClientStep, Accept, HttpEnds, HttpDropped, LeaseReleased,
     Upgrade, SocketWork, SocketWorkEnds, SocketDrained, SocketDisconnected, SocketEnds,
       NotifyIdle, proc, future, tracker
<1>27. CASE UNCHANGED vars \/ Over
  BY <1>27, Zenon DEF FlagsType, Over, vars, proc, future, tracker
<1> QED BY <1>1, <1>2, <1>3, <1>4, <1>5, <1>6, <1>7, <1>8, <1>9, <1>10, <1>11, <1>12,
           <1>13, <1>14, <1>15, <1>16, <1>17, <1>18, <1>19, <1>20, <1>21, <1>22, <1>23,
             <1>24, <1>25, <1>26, <1>27
   DEF Next, ServerStep, GateStep

(* Every step keeps the types.                                             *)
LEMMA TypeStep == TypeCore /\ [Next]_vars => TypeCore'
<1> SUFFICES ASSUME TypeCore, [Next]_vars, FlagsType' PROVE TypeCore'
  BY FlagsStep DEF TypeCore
<1> USE DrainAssumption
<1>1. CASE Discover
  BY <1>1 DEF TypeCore, Discover, Running, HttpStates, SocketStates, proc, future, tracker
<1>2. CASE StartupSignal
  BY <1>2 DEF TypeCore, StartupSignal, Conclude, Running, HttpStates, SocketStates, proc,
     future, tracker
<1>3. CASE StartupExit
  BY <1>3 DEF TypeCore, StartupExit, Conclude, Running, HttpStates, SocketStates, proc,
     future, tracker
<1>4. CASE StartupReady
  BY <1>4 DEF TypeCore, StartupReady, Conclude, Running, HttpStates, SocketStates, proc,
     future, tracker
<1>5. CASE Bind
  BY <1>5 DEF TypeCore, Bind, Conclude, Running, HttpStates, SocketStates, proc, future,
     tracker
<1>6. CASE ServeSignal
  BY <1>6 DEF TypeCore, ServeSignal, Running, HttpStates, SocketStates, proc, future,
     tracker
<1>7. CASE ServeChildExit
  BY <1>7 DEF TypeCore, ServeChildExit, Conclude, Running, HttpStates, SocketStates, proc,
     future, tracker
<1>8. CASE DrainDone
  BY <1>8 DEF TypeCore, DrainDone, Conclude, Running, HttpStates, SocketStates, proc,
     future, tracker
<1>9. CASE DrainTimesOut
  BY <1>9 DEF TypeCore, DrainTimesOut, Conclude, Running, HttpStates, SocketStates, proc,
     future, tracker
<1>10. CASE Reap
  BY <1>10 DEF TypeCore, Reap, CutTasks, Running, HttpStates, SocketStates, proc, future,
     tracker
<1>11. CASE StopListening
  BY <1>11 DEF TypeCore, StopListening, Running, HttpStates, SocketStates, proc, future,
     tracker
<1>12. CASE ServeEnds
  BY <1>12 DEF TypeCore, ServeEnds, Running, HttpStates, SocketStates, proc, future, tracker
<1>13. CASE JoinWorkers
  BY <1>13 DEF TypeCore, JoinWorkers, Running, HttpStates, SocketStates, proc, future,
     tracker
<1>14. CASE WorkerStops
  BY <1>14 DEF TypeCore, WorkerStops, Running, HttpStates, SocketStates, proc, future,
     tracker
<1>15. CASE Arm
  BY <1>15 DEF TypeCore, Arm, Running, HttpStates, SocketStates, proc, future, tracker
<1>16. CASE CheckActive
  BY <1>16 DEF TypeCore, CheckActive, Running, HttpStates, SocketStates, proc, future,
     tracker
<1>17. CASE Wake
  BY <1>17 DEF TypeCore, Wake, Running, HttpStates, SocketStates, proc, future, tracker
<1>18. CASE JoinReleases
  BY <1>18 DEF TypeCore, JoinReleases, Running, HttpStates, SocketStates, proc, future,
     tracker
<1>19. CASE Signal
  BY <1>19 DEF TypeCore, Signal, Running, HttpStates, SocketStates, proc, future, tracker
<1>20. CASE LlmReady
  BY <1>20 DEF TypeCore, LlmReady, Running, HttpStates, SocketStates, proc, future, tracker
<1>21. CASE LlmExits
  BY <1>21 DEF TypeCore, LlmExits, Running, HttpStates, SocketStates, proc, future, tracker
<1>22. CASE Tick
  BY <1>22 DEF TypeCore, Tick, Running, HttpStates, SocketStates, proc, future, tracker
<1>23. CASE SessionStarts
  BY <1>23 DEF TypeCore, SessionStarts, Running, HttpStates, SocketStates, proc, future,
     tracker
<1>24. CASE HarnessExits
  BY <1>24 DEF TypeCore, HarnessExits, Running, HttpStates, SocketStates, proc, future,
     tracker
<1>25. CASE Cleanup
  BY <1>25 DEF TypeCore, Cleanup, CutTasks, Running, HttpStates, SocketStates, proc,
     future, tracker
<1>26. ASSUME NEW c \in Clients, Accept(c) PROVE TypeCore'
  BY <1>26 DEF TypeCore, Accept, HttpStates, LeaseStates, SocketStates, proc, future,
     tracker
<1>27. ASSUME NEW c \in Clients, HttpEnds(c) PROVE TypeCore'
  BY <1>27 DEF TypeCore, HttpEnds, HttpStates, LeaseStates, SocketStates, proc, future,
     tracker
<1>28. ASSUME NEW c \in Clients, HttpDropped(c) PROVE TypeCore'
  BY <1>28 DEF TypeCore, HttpDropped, HttpStates, LeaseStates, SocketStates, proc, future,
     tracker
<1>29. ASSUME NEW c \in Clients, LeaseReleased(c) PROVE TypeCore'
  BY <1>29 DEF TypeCore, LeaseReleased, HttpStates, LeaseStates, SocketStates, proc,
     future, tracker
<1>30. ASSUME NEW c \in Clients, Upgrade(c) PROVE TypeCore'
  BY <1>30 DEF TypeCore, Upgrade, HttpStates, LeaseStates, SocketStates, proc, future,
     tracker
<1>31. ASSUME NEW c \in Clients, SocketWork(c) PROVE TypeCore'
  BY <1>31 DEF TypeCore, SocketWork, HttpStates, LeaseStates, SocketStates, proc, future,
     tracker
<1>32. ASSUME NEW c \in Clients, SocketWorkEnds(c) PROVE TypeCore'
  BY <1>32 DEF TypeCore, SocketWorkEnds, HttpStates, LeaseStates, SocketStates, proc,
     future, tracker
<1>33. ASSUME NEW c \in Clients, SocketDrained(c) PROVE TypeCore'
  BY <1>33 DEF TypeCore, SocketDrained, HttpStates, LeaseStates, SocketStates, proc,
     future, tracker
<1>34. ASSUME NEW c \in Clients, SocketDisconnected(c) PROVE TypeCore'
  BY <1>34 DEF TypeCore, SocketDisconnected, HttpStates, LeaseStates, SocketStates, proc,
     future, tracker
<1>35. ASSUME NEW c \in Clients, SocketEnds(c) PROVE TypeCore'
  BY <1>35 DEF TypeCore, SocketEnds, HttpStates, LeaseStates, SocketStates, proc, future,
     tracker
<1>36. ASSUME NEW c \in Clients, NotifyIdle(c) PROVE TypeCore'
  BY <1>36 DEF TypeCore, NotifyIdle, HttpStates, LeaseStates, SocketStates, proc, future,
     tracker
<1>37. CASE UNCHANGED vars \/ Over
  BY <1>37 DEF TypeCore, Over, vars, proc, future, tracker
<1> QED BY <1>1, <1>2, <1>3, <1>4, <1>5, <1>6, <1>7, <1>8, <1>9, <1>10, <1>11, <1>12,
           <1>13, <1>14, <1>15, <1>16, <1>17, <1>18, <1>19, <1>20, <1>21, <1>22, <1>23,
             <1>24, <1>25, <1>26, <1>27, <1>28, <1>29, <1>30, <1>31, <1>32, <1>33, <1>34,
               <1>35, <1>36, <1>37
   DEF Next, ServerStep, GateStep, ClientStep

-----------------------------------------------------------------------------
(* The tracker *)

(* The counter is a number, and zero only without upgrades and sockets.    *)
LEMMA CountFacts ==
    ASSUME CountInv
    PROVE  /\ active \in Nat
           /\ active = 0 => \A c \in Clients : /\ http[c] # "upgrading"
                                              /\ socket[c] \notin {"open", "busy",
                                                "leaving"}
<1>1. IsFiniteSet(Tracked)
  BY ClientsAssumption, FS_Subset DEF Tracked
<1>2. active \in Nat
  BY <1>1, FS_CardinalityType DEF CountInv
<1>3. active = 0 => Tracked = {}
  BY <1>1, FS_EmptySet DEF CountInv
<1> QED BY <1>2, <1>3 DEF Tracked

(* The tracker's counter is the number of live upgrades and sockets.       *)
LEMMA CountStep == TypeCore /\ ClientInv /\ CountInv /\ [Next]_vars => CountInv'
<1> SUFFICES ASSUME TypeCore, ClientInv, CountInv, [Next]_vars PROVE CountInv'
  OBVIOUS
<1>0. IsFiniteSet(Tracked)
  BY ClientsAssumption, FS_Subset DEF Tracked
<1>1. ASSUME UNCHANGED <<http, socket, active>> PROVE CountInv'
  BY <1>1 DEF CountInv, Tracked
<1>2. ASSUME CutTasks PROVE CountInv'
  <2>1. active' = 0 /\ Tracked' = {}
    BY <1>2 DEF CutTasks, Tracked, TypeCore
  <2> QED BY <2>1, FS_EmptySet DEF CountInv
<1>3. ASSUME NEW c \in Clients, Accept(c) PROVE CountInv'
  <2>1. socket[c] = "none" /\ c \notin Tracked
    BY <1>3 DEF Accept, ClientInv, TypeCore, Tracked
  <2>2. CASE http' = [http EXCEPT ![c] = "running"] /\ UNCHANGED active
    <3>1. Tracked' = Tracked
      BY <1>3, <2>1, <2>2 DEF Accept, TypeCore, Tracked
    <3> QED BY <2>2, <3>1 DEF CountInv
  <2>3. CASE http' = [http EXCEPT ![c] = "upgrading"] /\ active' = active + 1
    <3>1. Tracked' = Tracked \cup {c}
      BY <1>3, <2>3 DEF Accept, TypeCore, Tracked
    <3> QED BY <1>0, <2>1, <2>3, <3>1, FS_AddElement DEF CountInv
  <2> QED BY <1>3, <2>2, <2>3 DEF Accept
<1>4. ASSUME NEW c \in Clients,
             HttpEnds(c) \/ HttpDropped(c) \/ LeaseReleased(c) \/ Upgrade(c)
             \/ SocketWork(c) \/ SocketWorkEnds(c) \/ SocketDrained(c)
             \/ SocketDisconnected(c) \/ NotifyIdle(c)
      PROVE  CountInv'
  <2>1. active' = active
    BY <1>4 DEF HttpEnds, HttpDropped, LeaseReleased, Upgrade, SocketWork,
       SocketWorkEnds, SocketDrained, SocketDisconnected, NotifyIdle, tracker
  <2>2. /\ \A d \in Clients \ {c} : http'[d] = http[d] /\ socket'[d] = socket[d]
        /\ c \in Tracked' <=> c \in Tracked
    <3>1. CASE HttpEnds(c) \/ HttpDropped(c) \/ LeaseReleased(c) \/ Upgrade(c)
      BY <3>1 DEF HttpEnds, HttpDropped, LeaseReleased, Upgrade, TypeCore, Tracked
    <3>2. CASE SocketWork(c) \/ SocketWorkEnds(c) \/ SocketDrained(c)
               \/ SocketDisconnected(c) \/ NotifyIdle(c)
      BY <3>2 DEF SocketWork, SocketWorkEnds, SocketDrained, SocketDisconnected,
         NotifyIdle, TypeCore, Tracked
    <3> QED BY <1>4, <3>1, <3>2
  <2>3. Tracked' = Tracked
    BY <2>2 DEF Tracked
  <2> QED BY <2>1, <2>3 DEF CountInv
<1>5. ASSUME NEW c \in Clients, SocketEnds(c) PROVE CountInv'
  <2>1. /\ socket[c] = "leaving" /\ http[c] # "upgrading"
        /\ socket'[c] \in {"notifying", "gone"} /\ http' = http
        /\ \A d \in Clients \ {c} : socket'[d] = socket[d]
        /\ active' = active - 1
    BY <1>5 DEF SocketEnds, ClientInv, TypeCore
  <2>2. c \in Tracked /\ Tracked' = Tracked \ {c}
    BY <2>1 DEF Tracked
  <2> QED BY <1>0, <2>1, <2>2, FS_RemoveElement DEF CountInv
<1>6. CASE ServerStep \/ GateStep
  BY <1>1, <1>2, <1>6 DEF ServerStep, GateStep, Discover, StartupSignal, StartupExit,
     StartupReady, Bind, ServeSignal, ServeChildExit, DrainDone, DrainTimesOut, Reap,
       StopListening, ServeEnds, JoinWorkers, WorkerStops, Arm, CheckActive, Wake,
         JoinReleases, future, tracker
<1>7. CASE Signal \/ LlmReady \/ LlmExits \/ Tick \/ SessionStarts \/ HarnessExits
           \/ Cleanup \/ Over
  BY <1>1, <1>2, <1>7 DEF Signal, LlmReady, LlmExits, Tick, SessionStarts, HarnessExits,
     Cleanup, Over, vars, tracker
<1> QED BY <1>1, <1>3, <1>4, <1>5, <1>6, <1>7 DEF Next, ClientStep, vars, tracker


-----------------------------------------------------------------------------
(* Steps *)

(* What the run owes to the signal and to vLLM stays true.                 *)
LEMMA RunStep == TypeCore /\ RunInv /\ [Next]_vars => RunInv'
<1> SUFFICES ASSUME TypeCore, RunInv, [Next]_vars PROVE RunInv'
  OBVIOUS
<1> USE DEF RunInv, TypeCore, Running, Alive
<1>1. CASE Discover
  BY <1>1 DEF Discover, proc, future, tracker
<1>2. CASE StartupSignal
  BY <1>2 DEF StartupSignal, Conclude, proc, future, tracker
<1>3. CASE StartupExit
  BY <1>3 DEF StartupExit, Conclude, proc, future, tracker
<1>4. CASE StartupReady
  BY <1>4 DEF StartupReady, Conclude, proc, future, tracker
<1>5. CASE Bind
  BY <1>5 DEF Bind, Conclude, proc, future, tracker
<1>6. CASE ServeSignal
  BY <1>6 DEF ServeSignal, proc, future, tracker
<1>7. CASE ServeChildExit
  BY <1>7 DEF ServeChildExit, Conclude, proc, future, tracker
<1>8. CASE DrainDone
  BY <1>8 DEF DrainDone, Conclude, proc, future, tracker
<1>9. CASE DrainTimesOut
  BY <1>9 DEF DrainTimesOut, Conclude, proc, future, tracker
<1>10. CASE Reap
  BY <1>10 DEF Reap, CutTasks, proc, future, tracker
<1>11. CASE StopListening
  BY <1>11 DEF StopListening, proc, future, tracker
<1>12. CASE ServeEnds
  BY <1>12 DEF ServeEnds, proc, future, tracker
<1>13. CASE JoinWorkers
  BY <1>13 DEF JoinWorkers, proc, future, tracker
<1>14. CASE WorkerStops
  BY <1>14 DEF WorkerStops, proc, future, tracker
<1>15. CASE Arm
  BY <1>15 DEF Arm, proc, future, tracker
<1>16. CASE CheckActive
  BY <1>16 DEF CheckActive, proc, future, tracker
<1>17. CASE Wake
  BY <1>17 DEF Wake, proc, future, tracker
<1>18. CASE JoinReleases
  BY <1>18 DEF JoinReleases, proc, future, tracker
<1>19. CASE Signal
  BY <1>19 DEF Signal, proc, future, tracker
<1>20. CASE LlmReady
  BY <1>20 DEF LlmReady, proc, future, tracker
<1>21. CASE LlmExits
  BY <1>21 DEF LlmExits, proc, future, tracker
<1>22. CASE Tick
  BY <1>22 DEF Tick, proc, future, tracker
<1>23. CASE SessionStarts
  BY <1>23 DEF SessionStarts, proc, future, tracker
<1>24. CASE HarnessExits
  BY <1>24 DEF HarnessExits, proc, future, tracker
<1>25. CASE Cleanup
  BY <1>25 DEF Cleanup, CutTasks, proc, future, tracker
<1>26. ASSUME NEW c \in Clients, Accept(c) PROVE RunInv'
  BY <1>26 DEF Accept, proc, future, tracker
<1>27. ASSUME NEW c \in Clients, HttpEnds(c) PROVE RunInv'
  BY <1>27 DEF HttpEnds, proc, future, tracker
<1>28. ASSUME NEW c \in Clients, HttpDropped(c) PROVE RunInv'
  BY <1>28 DEF HttpDropped, proc, future, tracker
<1>29. ASSUME NEW c \in Clients, LeaseReleased(c) PROVE RunInv'
  BY <1>29 DEF LeaseReleased, proc, future, tracker
<1>30. ASSUME NEW c \in Clients, Upgrade(c) PROVE RunInv'
  BY <1>30 DEF Upgrade, proc, future, tracker
<1>31. ASSUME NEW c \in Clients, SocketWork(c) PROVE RunInv'
  BY <1>31 DEF SocketWork, proc, future, tracker
<1>32. ASSUME NEW c \in Clients, SocketWorkEnds(c) PROVE RunInv'
  BY <1>32 DEF SocketWorkEnds, proc, future, tracker
<1>33. ASSUME NEW c \in Clients, SocketDrained(c) PROVE RunInv'
  BY <1>33 DEF SocketDrained, proc, future, tracker
<1>34. ASSUME NEW c \in Clients, SocketDisconnected(c) PROVE RunInv'
  BY <1>34 DEF SocketDisconnected, proc, future, tracker
<1>35. ASSUME NEW c \in Clients, SocketEnds(c) PROVE RunInv'
  BY <1>35 DEF SocketEnds, proc, future, tracker
<1>36. ASSUME NEW c \in Clients, NotifyIdle(c) PROVE RunInv'
  BY <1>36 DEF NotifyIdle, proc, future, tracker
<1>37. CASE UNCHANGED vars \/ Over
  BY <1>37 DEF Over, vars, proc, future, tracker
<1> QED BY <1>1, <1>2, <1>3, <1>4, <1>5, <1>6, <1>7, <1>8, <1>9, <1>10, <1>11, <1>12,
           <1>13, <1>14, <1>15, <1>16, <1>17, <1>18, <1>19, <1>20, <1>21, <1>22, <1>23,
             <1>24, <1>25, <1>26, <1>27, <1>28, <1>29, <1>30, <1>31, <1>32, <1>33, <1>34,
               <1>35, <1>36, <1>37
   DEF Next, ServerStep, GateStep, ClientStep

(* Every stage of the gateway starts after what it has to see has ended.   *)
LEMMA StagesStep == TypeCore /\ CountInv /\ GateInv /\ ClientInv /\ [Next]_vars => GateInv'
<1> SUFFICES ASSUME TypeCore, CountInv, GateInv, ClientInv, [Next]_vars PROVE GateInv'
  OBVIOUS
<1> USE DEF GateInv, ClientInv, TypeCore, Alive, Running, NoConnection, NoSocket
<1>1. CASE Discover
  BY <1>1 DEF Discover, proc, future, tracker
<1>2. CASE StartupSignal
  BY <1>2 DEF StartupSignal, Conclude, proc, future, tracker
<1>3. CASE StartupExit
  BY <1>3 DEF StartupExit, Conclude, proc, future, tracker
<1>4. CASE StartupReady
  BY <1>4 DEF StartupReady, Conclude, proc, future, tracker
<1>5. CASE Bind
  BY <1>5 DEF Bind, Conclude, proc, future, tracker
<1>6. CASE ServeSignal
  BY <1>6 DEF ServeSignal, proc, future, tracker
<1>7. CASE ServeChildExit
  BY <1>7 DEF ServeChildExit, Conclude, proc, future, tracker
<1>8. CASE DrainDone
  BY <1>8 DEF DrainDone, Conclude, proc, future, tracker
<1>9. CASE DrainTimesOut
  BY <1>9 DEF DrainTimesOut, Conclude, proc, future, tracker
<1>10. CASE Reap
  BY <1>10 DEF Reap, CutTasks, proc, future, tracker
<1>11. CASE StopListening
  BY <1>11 DEF StopListening, proc, future, tracker
<1>12. CASE ServeEnds
  BY <1>12 DEF ServeEnds, proc, future, tracker
<1>13. CASE JoinWorkers
  BY <1>13 DEF JoinWorkers, proc, future, tracker
<1>14. CASE WorkerStops
  BY <1>14 DEF WorkerStops, proc, future, tracker
<1>15. CASE Arm
  BY <1>15 DEF Arm, proc, future, tracker
<1>16. CASE CheckActive
  BY <1>16, CountFacts DEF CheckActive, proc, future, tracker
<1>17. CASE Wake
  BY <1>17 DEF Wake, proc, future, tracker
<1>18. CASE JoinReleases
  BY <1>18 DEF JoinReleases, proc, future, tracker
<1>19. CASE Signal
  BY <1>19 DEF Signal, proc, future, tracker
<1>20. CASE LlmReady
  BY <1>20 DEF LlmReady, proc, future, tracker
<1>21. CASE LlmExits
  BY <1>21 DEF LlmExits, proc, future, tracker
<1>22. CASE Tick
  BY <1>22 DEF Tick, proc, future, tracker
<1>23. CASE SessionStarts
  BY <1>23 DEF SessionStarts, proc, future, tracker
<1>24. CASE HarnessExits
  BY <1>24 DEF HarnessExits, proc, future, tracker
<1>25. CASE Cleanup
  BY <1>25 DEF Cleanup, CutTasks, proc, future, tracker
<1>26. ASSUME NEW c \in Clients, Accept(c) PROVE GateInv'
  BY <1>26 DEF Accept, proc, future, tracker
<1>27. ASSUME NEW c \in Clients, HttpEnds(c) PROVE GateInv'
  BY <1>27 DEF HttpEnds, proc, future, tracker
<1>28. ASSUME NEW c \in Clients, HttpDropped(c) PROVE GateInv'
  BY <1>28 DEF HttpDropped, proc, future, tracker
<1>29. ASSUME NEW c \in Clients, LeaseReleased(c) PROVE GateInv'
  BY <1>29 DEF LeaseReleased, proc, future, tracker
<1>30. ASSUME NEW c \in Clients, Upgrade(c) PROVE GateInv'
  BY <1>30 DEF Upgrade, proc, future, tracker
<1>31. ASSUME NEW c \in Clients, SocketWork(c) PROVE GateInv'
  BY <1>31 DEF SocketWork, proc, future, tracker
<1>32. ASSUME NEW c \in Clients, SocketWorkEnds(c) PROVE GateInv'
  BY <1>32 DEF SocketWorkEnds, proc, future, tracker
<1>33. ASSUME NEW c \in Clients, SocketDrained(c) PROVE GateInv'
  BY <1>33 DEF SocketDrained, proc, future, tracker
<1>34. ASSUME NEW c \in Clients, SocketDisconnected(c) PROVE GateInv'
  BY <1>34 DEF SocketDisconnected, proc, future, tracker
<1>35. ASSUME NEW c \in Clients, SocketEnds(c) PROVE GateInv'
  BY <1>35 DEF SocketEnds, proc, future, tracker
<1>36. ASSUME NEW c \in Clients, NotifyIdle(c) PROVE GateInv'
  BY <1>36 DEF NotifyIdle, proc, future, tracker
<1>37. CASE UNCHANGED vars \/ Over
  BY <1>37 DEF Over, vars, proc, future, tracker
<1> QED BY <1>1, <1>2, <1>3, <1>4, <1>5, <1>6, <1>7, <1>8, <1>9, <1>10, <1>11, <1>12,
           <1>13, <1>14, <1>15, <1>16, <1>17, <1>18, <1>19, <1>20, <1>21, <1>22, <1>23,
             <1>24, <1>25, <1>26, <1>27, <1>28, <1>29, <1>30, <1>31, <1>32, <1>33, <1>34,
               <1>35, <1>36, <1>37
   DEF Next, ServerStep, GateStep, ClientStep

(* Connections, leases and sockets stay in step, and are cut only late.    *)
LEMMA ClientsStep == TypeCore /\ RunInv /\ GateInv /\ ClientInv /\ [Next]_vars => ClientInv'
<1> SUFFICES ASSUME TypeCore, RunInv, GateInv, ClientInv, [Next]_vars PROVE ClientInv'
  OBVIOUS
<1> USE DrainAssumption DEF GateInv, ClientInv, TypeCore, Alive, Running, NoConnection,
                            NoSocket
<1>1. CASE Discover
  BY <1>1 DEF Discover, proc, future, tracker
<1>2. CASE StartupSignal
  BY <1>2 DEF StartupSignal, Conclude, proc, future, tracker
<1>3. CASE StartupExit
  BY <1>3 DEF StartupExit, Conclude, proc, future, tracker
<1>4. CASE StartupReady
  BY <1>4 DEF StartupReady, Conclude, proc, future, tracker
<1>5. CASE Bind
  BY <1>5 DEF Bind, Conclude, proc, future, tracker
<1>6. CASE ServeSignal
  BY <1>6 DEF ServeSignal, proc, future, tracker
<1>7. CASE ServeChildExit
  BY <1>7 DEF ServeChildExit, Conclude, proc, future, tracker
<1>8. CASE DrainDone
  BY <1>8 DEF DrainDone, Conclude, proc, future, tracker
<1>9. CASE DrainTimesOut
  BY <1>9 DEF DrainTimesOut, Conclude, proc, future, tracker
<1>10. CASE Reap
  BY <1>10 DEF Reap, CutTasks, proc, future, tracker
<1>11. CASE StopListening
  BY <1>11 DEF StopListening, proc, future, tracker
<1>12. CASE ServeEnds
  BY <1>12 DEF ServeEnds, proc, future, tracker
<1>13. CASE JoinWorkers
  BY <1>13 DEF JoinWorkers, proc, future, tracker
<1>14. CASE WorkerStops
  BY <1>14 DEF WorkerStops, proc, future, tracker
<1>15. CASE Arm
  BY <1>15 DEF Arm, proc, future, tracker
<1>16. CASE CheckActive
  BY <1>16 DEF CheckActive, proc, future, tracker
<1>17. CASE Wake
  BY <1>17 DEF Wake, proc, future, tracker
<1>18. CASE JoinReleases
  BY <1>18 DEF JoinReleases, proc, future, tracker
<1>19. CASE Signal
  BY <1>19 DEF Signal, proc, future, tracker
<1>20. CASE LlmReady
  BY <1>20 DEF LlmReady, proc, future, tracker
<1>21. CASE LlmExits
  BY <1>21 DEF LlmExits, proc, future, tracker
<1>22. CASE Tick
  BY <1>22 DEF Tick, proc, future, tracker
<1>23. CASE SessionStarts
  BY <1>23 DEF SessionStarts, proc, future, tracker
<1>24. CASE HarnessExits
  BY <1>24 DEF HarnessExits, proc, future, tracker
<1>25. CASE Cleanup
  BY <1>25 DEF Cleanup, CutTasks, proc, future, tracker
<1>26. ASSUME NEW c \in Clients, Accept(c) PROVE ClientInv'
  BY <1>26 DEF Accept, proc, future, tracker
<1>27. ASSUME NEW c \in Clients, HttpEnds(c) PROVE ClientInv'
  BY <1>27 DEF HttpEnds, proc, future, tracker
<1>28. ASSUME NEW c \in Clients, HttpDropped(c) PROVE ClientInv'
  BY <1>28 DEF HttpDropped, proc, future, tracker
<1>29. ASSUME NEW c \in Clients, LeaseReleased(c) PROVE ClientInv'
  BY <1>29 DEF LeaseReleased, proc, future, tracker
<1>30. ASSUME NEW c \in Clients, Upgrade(c) PROVE ClientInv'
  BY <1>30 DEF Upgrade, proc, future, tracker
<1>31. ASSUME NEW c \in Clients, SocketWork(c) PROVE ClientInv'
  BY <1>31 DEF SocketWork, proc, future, tracker
<1>32. ASSUME NEW c \in Clients, SocketWorkEnds(c) PROVE ClientInv'
  BY <1>32 DEF SocketWorkEnds, proc, future, tracker
<1>33. ASSUME NEW c \in Clients, SocketDrained(c) PROVE ClientInv'
  BY <1>33 DEF SocketDrained, proc, future, tracker
<1>34. ASSUME NEW c \in Clients, SocketDisconnected(c) PROVE ClientInv'
  BY <1>34 DEF SocketDisconnected, proc, future, tracker
<1>35. ASSUME NEW c \in Clients, SocketEnds(c) PROVE ClientInv'
  BY <1>35 DEF SocketEnds, proc, future, tracker
<1>36. ASSUME NEW c \in Clients, NotifyIdle(c) PROVE ClientInv'
  BY <1>36 DEF NotifyIdle, proc, future, tracker
<1>37. CASE UNCHANGED vars \/ Over
  BY <1>37 DEF Over, vars, proc, future, tracker
<1> QED BY <1>1, <1>2, <1>3, <1>4, <1>5, <1>6, <1>7, <1>8, <1>9, <1>10, <1>11, <1>12,
           <1>13, <1>14, <1>15, <1>16, <1>17, <1>18, <1>19, <1>20, <1>21, <1>22, <1>23,
             <1>24, <1>25, <1>26, <1>27, <1>28, <1>29, <1>30, <1>31, <1>32, <1>33, <1>34,
               <1>35, <1>36, <1>37
   DEF Next, ServerStep, GateStep, ClientStep

(* No wakeup is lost by a step.                                            *)
LEMMA WakeupStep ==
    TypeCore /\ CountInv /\ GateInv /\ NoLostWakeup /\ [Next]_vars => NoLostWakeup'
<1> SUFFICES ASSUME TypeCore, CountInv, GateInv, NoLostWakeup,
  [Next]_vars PROVE NoLostWakeup'
  OBVIOUS
<1> USE DEF GateInv, NoLostWakeup, TypeCore, Alive, Running
<1>1. CASE Discover
  BY <1>1 DEF Discover, proc, future, tracker
<1>2. CASE StartupSignal
  BY <1>2 DEF StartupSignal, Conclude, proc, future, tracker
<1>3. CASE StartupExit
  BY <1>3 DEF StartupExit, Conclude, proc, future, tracker
<1>4. CASE StartupReady
  BY <1>4 DEF StartupReady, Conclude, proc, future, tracker
<1>5. CASE Bind
  BY <1>5 DEF Bind, Conclude, proc, future, tracker
<1>6. CASE ServeSignal
  BY <1>6 DEF ServeSignal, proc, future, tracker
<1>7. CASE ServeChildExit
  BY <1>7 DEF ServeChildExit, Conclude, proc, future, tracker
<1>8. CASE DrainDone
  BY <1>8 DEF DrainDone, Conclude, proc, future, tracker
<1>9. CASE DrainTimesOut
  BY <1>9 DEF DrainTimesOut, Conclude, proc, future, tracker
<1>10. CASE Reap
  BY <1>10 DEF Reap, CutTasks, proc, future, tracker
<1>11. CASE StopListening
  BY <1>11 DEF StopListening, proc, future, tracker
<1>12. CASE ServeEnds
  BY <1>12 DEF ServeEnds, proc, future, tracker
<1>13. CASE JoinWorkers
  BY <1>13 DEF JoinWorkers, proc, future, tracker
<1>14. CASE WorkerStops
  BY <1>14 DEF WorkerStops, proc, future, tracker
<1>15. CASE Arm
  BY <1>15 DEF Arm, proc, future, tracker
<1>16. CASE CheckActive
  BY <1>16 DEF CheckActive, proc, future, tracker
<1>17. CASE Wake
  BY <1>17 DEF Wake, proc, future, tracker
<1>18. CASE JoinReleases
  BY <1>18 DEF JoinReleases, proc, future, tracker
<1>19. CASE Signal
  BY <1>19 DEF Signal, proc, future, tracker
<1>20. CASE LlmReady
  BY <1>20 DEF LlmReady, proc, future, tracker
<1>21. CASE LlmExits
  BY <1>21 DEF LlmExits, proc, future, tracker
<1>22. CASE Tick
  BY <1>22 DEF Tick, proc, future, tracker
<1>23. CASE SessionStarts
  BY <1>23 DEF SessionStarts, proc, future, tracker
<1>24. CASE HarnessExits
  BY <1>24 DEF HarnessExits, proc, future, tracker
<1>25. CASE Cleanup
  BY <1>25 DEF Cleanup, CutTasks, proc, future, tracker
<1>26. ASSUME NEW c \in Clients, Accept(c) PROVE NoLostWakeup'
  BY <1>26 DEF Accept, proc, future, tracker
<1>27. ASSUME NEW c \in Clients, HttpEnds(c) PROVE NoLostWakeup'
  BY <1>27 DEF HttpEnds, proc, future, tracker
<1>28. ASSUME NEW c \in Clients, HttpDropped(c) PROVE NoLostWakeup'
  BY <1>28 DEF HttpDropped, proc, future, tracker
<1>29. ASSUME NEW c \in Clients, LeaseReleased(c) PROVE NoLostWakeup'
  BY <1>29 DEF LeaseReleased, proc, future, tracker
<1>30. ASSUME NEW c \in Clients, Upgrade(c) PROVE NoLostWakeup'
  BY <1>30 DEF Upgrade, proc, future, tracker, NoConnection
<1>31. ASSUME NEW c \in Clients, SocketWork(c) PROVE NoLostWakeup'
  BY <1>31 DEF SocketWork, proc, future, tracker
<1>32. ASSUME NEW c \in Clients, SocketWorkEnds(c) PROVE NoLostWakeup'
  BY <1>32 DEF SocketWorkEnds, proc, future, tracker
<1>33. ASSUME NEW c \in Clients, SocketDrained(c) PROVE NoLostWakeup'
  BY <1>33 DEF SocketDrained, proc, future, tracker
<1>34. ASSUME NEW c \in Clients, SocketDisconnected(c) PROVE NoLostWakeup'
  BY <1>34 DEF SocketDisconnected, proc, future, tracker
<1>35. ASSUME NEW c \in Clients, SocketEnds(c) PROVE NoLostWakeup'
  <2>1. active' = 0 => socket'[c] = "notifying"
    BY <1>35, CountFacts DEF SocketEnds
  <2>2. \A d \in Clients : socket[d] = "notifying" => socket'[d] = "notifying"
    BY <1>35 DEF SocketEnds
  <2>3. UNCHANGED <<server, gate, waiter, notified>>
    BY <1>35 DEF SocketEnds, proc, future
  <2>4. active = 0 => active' # 0
    BY <1>35 DEF SocketEnds
  <2> QED BY <2>1, <2>2, <2>3, <2>4
<1>36. ASSUME NEW c \in Clients, NotifyIdle(c) PROVE NoLostWakeup'
  BY <1>36 DEF NotifyIdle, proc, future, tracker
<1>37. CASE UNCHANGED vars \/ Over
  BY <1>37 DEF Over, vars, proc, future, tracker
<1> QED BY <1>1, <1>2, <1>3, <1>4, <1>5, <1>6, <1>7, <1>8, <1>9, <1>10, <1>11, <1>12,
           <1>13, <1>14, <1>15, <1>16, <1>17, <1>18, <1>19, <1>20, <1>21, <1>22, <1>23,
             <1>24, <1>25, <1>26, <1>27, <1>28, <1>29, <1>30, <1>31, <1>32, <1>33, <1>34,
               <1>35, <1>36, <1>37
   DEF Next, ServerStep, GateStep, ClientStep

-----------------------------------------------------------------------------
(* The theorems *)

(* Initially the process has not started anything.                         *)
LEMMA InitInv == Init => Inv
<1> SUFFICES ASSUME Init PROVE Inv
  OBVIOUS
<1>1. TypeCore
  <2>1. FlagsType
    BY Zenon DEF Init, FlagsType
  <2> QED BY <2>1, DrainAssumption, LaunchedAssumption
      DEF Init, TypeCore, Running, HttpStates, LeaseStates, SocketStates
<1>2. CountInv
  <2>1. Tracked = {}
    BY DEF Init, Tracked
  <2> QED BY <2>1, FS_EmptySet DEF Init, CountInv
<1>3. RunInv /\ GateInv /\ ClientInv /\ NoLostWakeup
  BY DEF Init, RunInv, GateInv, ClientInv, NoLostWakeup, Alive, Running
<1> QED BY <1>1, <1>2, <1>3 DEF Inv

(* Every behaviour of the gateway satisfies the inductive invariant.       *)
THEOREM Invariance == Spec => []Inv
<1>1. Inv /\ [Next]_vars => Inv'
  BY TypeStep, CountStep, RunStep, StagesStep, ClientsStep, WakeupStep DEF Inv
<1> QED BY <1>1, InitInv, PTL DEF Spec

(* A drain loses no work it promised to wait for and no wakeup, the result *)
(* of the run says what happened, and no vLLM outlives it, for every       *)
(* number of clients and every drain timeout (server.rs serve_gateway,     *)
(* drain_gateway, run_with_llm; app.rs WebSocketTracker).                  *)
THEOREM ServerIsSound == Spec => []ServerSound
<1>1. Inv => ServerSound
  <2> SUFFICES ASSUME Inv PROVE ServerSound
    OBVIOUS
  <2>1. TypeOK /\ NoLostWakeup
    BY TypeSplit DEF Inv
  <2>2. QuietWhenDone
    BY DEF Inv, GateInv, NoConnection, NoSocket, QuietWhenDone
  <2>3. DrainHonoured
    BY DEF Inv, ClientInv, NoConnection, NoSocket, DrainHonoured
  <2>4. OutcomeTrue /\ ChildReaped
    BY DEF Inv, RunInv, OutcomeTrue, ChildReaped
  <2> QED BY <2>1, <2>2, <2>3, <2>4 DEF ServerSound
<1> QED BY <1>1, Invariance, PTL

=============================================================================
