------------------------------ MODULE ThreadLog ------------------------------
(***************************************************************************)
(* What the Messages thread store promises, without replicas, leases or    *)
(* clocks: a message is continued at most once, the continuation extends   *)
(* exactly that message's history, and both happen in one step.            *)
(***************************************************************************)
EXTENDS Sequences

CONSTANT Messages

VARIABLES
    open,       \* messages that may still be continued
    history,    \* the turns whose content each open message carries
    continued   \* messages that have ever been continued

vars == <<open, history, continued>>

Init ==
    /\ open = {}
    /\ history = [m \in Messages |-> <<>>]
    /\ continued = {}

(* A new thread.                                                           *)
Begin(m) ==
    /\ m \notin open \cup continued
    /\ open' = open \cup {m}
    /\ history' = [history EXCEPT ![m] = <<m>>]
    /\ UNCHANGED continued

(* The one continuation of p, kept as the message m ...                    *)
Continue(p, m) ==
    /\ p \in open /\ m \notin open \cup continued
    /\ open' = (open \ {p}) \cup {m}
    /\ history' = [history EXCEPT ![m] = Append(history[p], m), ![p] = <<>>]
    /\ continued' = continued \cup {p}

(* ... or not kept, after a refusal.                                       *)
Discard(p) ==
    /\ p \in open
    /\ open' = open \ {p}
    /\ history' = [history EXCEPT ![p] = <<>>]
    /\ continued' = continued \cup {p}

(* Messages that outlived their time.                                      *)
Forget(S) ==
    /\ S # {} /\ S \subseteq open
    /\ open' = open \ S
    /\ history' = [m \in Messages |-> IF m \in S THEN <<>> ELSE history[m]]
    /\ UNCHANGED continued

Next ==
    \/ \E m \in Messages : Begin(m)
    \/ \E p, m \in Messages : Continue(p, m)
    \/ \E p \in Messages : Discard(p)
    \/ \E S \in SUBSET Messages : Forget(S)

Spec == Init /\ [][Next]_vars

=============================================================================
