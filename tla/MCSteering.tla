----------------------------- MODULE MCSteering -----------------------------
(***************************************************************************)
(* Steering for TLC.  The connections it can serve are cut into parts; a   *)
(* behaviour explores one of them, chosen at the start:                    *)
(*   faults   two steers of one response, and everything that may go wrong *)
(*   queue    two requests and two steers on one lane                      *)
(*   lanes    two lanes that share one outstanding request, and a shutdown *)
(***************************************************************************)
EXTENDS Steering, TLC

CONSTANTS l1, l2, s1, s2    \* lanes, steers

VARIABLE part               \* the part this behaviour checks

ASSUME Lanes = {l1, l2} /\ Steers = {s1, s2}

Symmetry == Permutations(Steers)

MCInit == Init /\ part \in {"faults", "queue", "lanes"}

(* One lane is used, and so many requests arrive.                          *)
OneLane(requests) == active' \subseteq {l1} /\ creates' <= requests

(* Every request registered qualifies for steering, no execution fails and *)
(* the principal does not expire.                                          *)
Steerable ==
    /\ \A r \in routes' \ routes : target'[r].settings /\ target'[r].supported
    /\ \A r \in Responses : run'[r].exec # "aborted" /\ run'[r].relay
    /\ ~expired'

(* One steer is sent, and the first request arrives on l1.                 *)
OneSteer ==
    /\ Cardinality({s \in Steers : fate'[s] # "unsent"}) <= 1
    /\ creates' = 1 => active' \subseteq {l1}

(* The same connection, with room for one outstanding request.             *)
Tight == INSTANCE Steering WITH MaxOutstanding <- 1

ASSUME Tight!ConstantsOK

MCNext ==
    /\ UNCHANGED part
    /\ \/ part = "faults" /\ Next /\ OneLane(1)
       \/ part = "queue"  /\ Next /\ OneLane(2) /\ Steerable /\ conn' # "draining"
       \/ part = "lanes"  /\ Tight!Next /\ Steerable /\ OneSteer

MCSpec == MCInit /\ [][MCNext]_<<vars, part>>
=============================================================================
