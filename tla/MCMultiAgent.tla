---------------------------- MODULE MCMultiAgent ----------------------------
(***************************************************************************)
(* MultiAgent for TLC, in four parts; a behaviour checks one of them,      *)
(* chosen at the start:                                                    *)
(*   live      a subagent, two calls and outputs submitted while it runs   *)
(*   mail      two subagents that write to each other under a limit of one *)
(*   deep      a subagent of a subagent, all collaboration tools but one   *)
(*   continue  a tree that a second request continues                      *)
(***************************************************************************)
EXTENDS TLC

CONSTANTS root, a, b, c1, c2, s1, s2    \* agents, calls, submissions

VARIABLES
    part,    \* the part this behaviour checks
    tree, pc, runs, sub, queue

Live == INSTANCE MultiAgent WITH
    Root <- root, Subagents <- {a}, Parent <- (a :> root), Calls <- {c1, c2}, AsyncCalls <- {c2},
    Submissions <- {s1, s2}, Limit <- 1, MaxMail <- 3, MaxRounds <- 3, Slots <- 1, MaxRuns <- 1,
    MaxActs <- 1, Tools <- {"spawn", "wait"}, Large <- {a}

Mail == INSTANCE MultiAgent WITH
    Root <- root, Subagents <- {a, b}, Parent <- (a :> root @@ b :> root), Calls <- {}, AsyncCalls <- {},
    Submissions <- {}, Limit <- 1, MaxMail <- 2, MaxRounds <- 5, Slots <- 1, MaxRuns <- 1,
    MaxActs <- 1, Tools <- {"spawn", "send", "followup", "interrupt", "wait"}, Large <- {}

Deep == INSTANCE MultiAgent WITH
    Root <- root, Subagents <- {a, b}, Parent <- (a :> root @@ b :> a), Calls <- {}, AsyncCalls <- {},
    Submissions <- {}, Limit <- 2, MaxMail <- 2, MaxRounds <- 4, Slots <- 1, MaxRuns <- 1,
    MaxActs <- 1, Tools <- {"spawn", "fork", "send", "interrupt", "wait", "list"}, Large <- {}

Continued == INSTANCE MultiAgent WITH
    Root <- root, Subagents <- {a}, Parent <- (a :> root), Calls <- {c1, c2}, AsyncCalls <- {c2},
    Submissions <- {s1, s2}, Limit <- 1, MaxMail <- 3, MaxRounds <- 2, Slots <- 1, MaxRuns <- 2,
    MaxActs <- 1, Tools <- {"spawn"}, Large <- {}

ASSUME Live!ConstantsOK /\ Mail!ConstantsOK /\ Deep!ConstantsOK /\ Continued!ConstantsOK

Symmetry == Permutations({s1, s2})

InPart(live, mail, deep, continued) ==
    CASE part = "live" -> live [] part = "mail" -> mail
      [] part = "deep" -> deep [] part = "continue" -> continued

Init ==
    /\ part \in {"live", "mail", "deep", "continue"}
    /\ InPart(Live!Init, Mail!Init, Deep!Init, Continued!Init)

Next ==
    /\ UNCHANGED part
    /\ \/ part = "live"     /\ Live!Next
       \/ part = "mail"     /\ Mail!Next
       \/ part = "deep"     /\ Deep!Next
       \/ part = "continue" /\ Continued!Next

Spec == Init /\ [][Next]_<<part, Live!vars>>

-----------------------------------------------------------------------------
(* The properties of MultiAgent, in every part. *)

(* Every component of the coordinator keeps its type, and a mailbox its    *)
(* capacity.                                                               *)
TypeOK == InPart(Live!TypeOK, Mail!TypeOK, Deep!TypeOK, Continued!TypeOK)

(* A batch of outputs is applied as a whole, once, exactly when the client *)
(* is told so, whichever round or compaction was in flight                 *)
(* (accept_live_outputs).                                                  *)
OutputsAppliedOnce ==
    InPart(Live!OutputsAppliedOnce, Mail!OutputsAppliedOnce, Deep!OutputsAppliedOnce,
           Continued!OutputsAppliedOnce)

(* A synchronous call takes one output over the life of the tree, live or  *)
(* in a later request (validate_batch).                                    *)
AnsweredOnce ==
    InPart(Live!AnsweredOnce, Mail!AnsweredOnce, Deep!AnsweredOnce, Continued!AnsweredOnce)

(* An idle agent with an output it has not read waits only for a free      *)
(* subagent slot (resume_unread_agents).                                   *)
OutputWaitsOnlyForSlot ==
    InPart(Live!OutputWaitsOnlyForSlot, Mail!OutputWaitsOnlyForSlot, Deep!OutputWaitsOnlyForSlot,
           Continued!OutputWaitsOnlyForSlot)

(* The subagent limit holds through spawns, follow-ups and resumptions,    *)
(* and the inferring agents are those with a task (RunOwner).              *)
TasksWithinLimit ==
    InPart(Live!TasksWithinLimit, Mail!TasksWithinLimit, Deep!TasksWithinLimit,
           Continued!TasksWithinLimit)

(* The parent of a settled turn has its completion once, in its mailbox or *)
(* in its history, whatever replaced that history since (settle_turn).     *)
TurnsReported ==
    InPart(Live!TurnsReported, Mail!TurnsReported, Deep!TurnsReported, Continued!TurnsReported)

(* A response completes only when every active agent waits for something   *)
(* outside it, and no inactive agent sits on a task (drive).               *)
NothingStranded ==
    InPart(Live!NothingStranded, Mail!NothingStranded, Deep!NothingStranded,
           Continued!NothingStranded)

(* Closing the control queue leaves no admitted command without a decision *)
(* (finish).                                                               *)
EveryCommandDecided ==
    InPart(Live!EveryCommandDecided, Mail!EveryCommandDecided, Deep!EveryCommandDecided,
           Continued!EveryCommandDecided)

(* What the client submits is decided once, applied as a whole once, and   *)
(* no call is answered twice.                                              *)
OutputsOnce == TypeOK /\ OutputsAppliedOnce /\ AnsweredOnce /\ EveryCommandDecided

(* Subagents share the limit: it is never passed, and an agent that has an *)
(* unread output is held up by nothing else.                               *)
SlotsShared == TasksWithinLimit /\ OutputWaitsOnlyForSlot

(* No task and no settled turn is forgotten: parents get the completions,  *)
(* and a response completes only when all wait for something outside it.   *)
AllAccounted == TurnsReported /\ NothingStranded
=============================================================================
