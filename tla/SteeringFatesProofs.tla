------------------------ MODULE SteeringFatesProofs ------------------------
(***************************************************************************)
(* Proofs about the accepted input of one connection: what becomes of an   *)
(* update between its acceptance and the one successor that carries it, or *)
(* its failure, and what the client has been told meanwhile.               *)
(***************************************************************************)
EXTENDS SteeringProofs

-----------------------------------------------------------------------------
(* The inductive invariant *)

Held(p) == ToSet(Entries(target[p]))
Carried(r) == ToSet(run[r].carries)
Applies(r, s) == run[r].created /\ s \in Carried(r)

(* A task at one of these steps prepares r as the successor of p.          *)
Claim(p, r, pcs) == \E t \in tasks : t.pc \in pcs /\ p \in t.work.parent /\ r \in t.resp

Acknowledged == {"register", "publish", "cancelled"}
Late == {"publish", "cancelled"}

(* The i-th outcome that waits at r says this of the steer.                *)
Says(e, i, kind, s) == i \in DOMAIN e /\ e[i] = [kind |-> kind, steer |-> {s}]

Sent(r, i, kind, s) == Says(outbox[r], i, kind, s)

Kinds == {"accepted", "pending", "failed", "rejected"}

(* A successor being prepared carries exactly what its parent's target     *)
(* holds; whatever carries input was created, ended or is being prepared.  *)
CarryInv ==
    /\ \A p, r \in Responses : Claim(p, r, Reserving) => Carried(r) = Held(p)
    /\ \A r \in Responses : \A s \in Carried(r) :
         /\ fate[s] = "owned"
         /\ run[r].created \/ Terminal(r) \/ \E p \in Responses : Claim(p, r, Reserving)

(* One target holds an accepted update, which was not returned; a created  *)
(* successor that carries it is about to be committed.                     *)
HeldOK(p, s) ==
    /\ fate[s] = "owned" /\ ~Returned(s)
    /\ \A q \in Responses : s \in Held(q) => q = p
    /\ \A r \in Responses : Applies(r, s) => Claim(p, r, Late)

HeldInv == \A p \in Responses : \A s \in Held(p) : HeldOK(p, s)

(* Each update has one fate.                                               *)
AppliedInv ==
    \A s \in Steers :
      /\ \A r, q \in Responses : Applies(r, s) /\ Applies(q, s) => r = q
      /\ Returned(s) => \A r \in Responses : ~Applies(r, s)
      /\ fate[s] = "owned" => \/ \E r \in Responses : s \in Held(r)
                              \/ \E r \in Responses : Applies(r, s)
                              \/ Returned(s)

(* What waits to be emitted: each outcome is about one steer and agrees    *)
(* with its fate; acceptance is emitted once, and before the failure.      *)
OutboxInv ==
    /\ \A r \in Responses : \A i \in DOMAIN outbox[r] :
         \/ outbox[r][i] = Barrier
         \/ \E k \in Kinds, s \in Steers : Sent(r, i, k, s)
    /\ \A r \in Responses : \A i \in DOMAIN outbox[r] : \A k \in Kinds, s \in Steers :
         Sent(r, i, k, s) => fate[s] = IF k = "rejected" THEN "refused" ELSE "owned"
    /\ \A s \in Steers : told[s] # "nothing" =>
         fate[s] = IF told[s] = "rejected" THEN "refused" ELSE "owned"
    /\ \A s \in Steers, r \in Responses : \A i \in DOMAIN outbox[r] :
         Sent(r, i, "accepted", s) =>
           /\ told[s] = "nothing"
           /\ \A q \in Responses : \A j \in DOMAIN outbox[q] :
                Sent(q, j, "accepted", s) \/ Sent(q, j, "failed", s) => q = r /\ i <= j
    /\ \A r \in Responses : target[r].phase = "Running" => Len(outbox[r]) <= MaxOutcomes

(* The acceptance of what a target holds was emitted or waits there, in    *)
(* front of the barrier a reserved successor waits for.                    *)
AckOK(p, s) ==
    /\ told[s] = "accepted" \/ \E i \in DOMAIN outbox[p] : Sent(p, i, "accepted", s)
    /\ \A r \in Responses : Claim(p, r, {"flush"}) =>
         \/ told[s] = "accepted"
         \/ \E i, j \in DOMAIN outbox[p] :
              i < j /\ Sent(p, i, "accepted", s) /\ outbox[p][j] = Barrier
    /\ \A r \in Responses : Claim(p, r, Acknowledged) => told[s] = "accepted"

AckInv == \A p \in Responses : \A s \in Held(p) : AckOK(p, s)

FateInv == CarryInv /\ HeldInv /\ AppliedInv /\ OutboxInv /\ AckInv

-----------------------------------------------------------------------------
(* Kinds of steps *)

(* No reservation is taken up; one goes on only when its parent's outcomes *)
(* were emitted, and none that may have been published is given up.        *)
Advance(p) == \A r \in Responses :
    /\ Claim(p, r, {"flush"})' => Claim(p, r, {"flush"})
    /\ Claim(p, r, Acknowledged)' =>
         Claim(p, r, Acknowledged) \/ (Claim(p, r, {"flush"}) /\ Flushed(p))
    /\ Claim(p, r, Reserving) => Claim(p, r, Reserving)' \/ Terminal(r)'
    /\ Claim(p, r, Late) => Claim(p, r, Late)'

(* Executions only end, targets keep their input and stay completed.       *)
RunsKept == \A r \in Responses :
    /\ Carried(r)' = Carried(r)
    /\ run'[r].created <=> run[r].created
    /\ Terminal(r) => Terminal(r)'

(* A target keeps what it holds and was not reopened.                      *)
HeldKept(p) ==
    /\ Held(p)' = Held(p)
    /\ target'[p].phase = "Running" => target[p].phase = "Running"

(* A reservation waits for the parent's outcomes or has them acknowledged; *)
(* only an acknowledged one may have been published.                       *)
LEMMA ClaimStages ==
    \A p, r :
      /\ Claim(p, r, Reserving) <=> Claim(p, r, {"flush"}) \/ Claim(p, r, Acknowledged)
      /\ Claim(p, r, Reserving)' <=> Claim(p, r, {"flush"})' \/ Claim(p, r, Acknowledged)'
      /\ Claim(p, r, Late) => Claim(p, r, Acknowledged)
      /\ Claim(p, r, Late)' => Claim(p, r, Acknowledged)'
BY DEF Claim, Reserving, Acknowledged, Late

(* A target holds steers of the connection, and nothing without a batch.   *)
LEMMA HeldSteers ==
    ASSUME TypeOK, NEW p \in Responses
    PROVE  /\ Held(p) \subseteq Steers /\ Carried(p) \subseteq Steers
           /\ target[p].batch = {} => Held(p) = {}
           /\ \A b \in target[p].batch : Option(target[p].batch) => Held(p) = ToSet(b.entries)
<1>1. target[p] \in Target /\ run[p].carries \in Seq(Steers)
  BY DEF TypeOK, Run
<1>2. Entries(target[p]) \in Seq(Steers)
  BY <1>1, EntriesType
<1>3. \A e \in Seq(Steers) : ToSet(e) \subseteq Steers
  BY DEF ToSet
<1>4. target[p].batch = {} => Held(p) = {}
  BY DEF Held, Entries, ToSet
<1> QED BY <1>1, <1>2, <1>3, <1>4, EntriesType DEF Held, Carried

(* When the outcomes of a reserved parent were emitted, the client knows   *)
(* that everything the parent holds was accepted (flush_outcomes).         *)
LEMMA AckFlushed ==
    ASSUME FateInv, NEW p \in Responses, NEW r \in Responses, NEW s \in Held(p),
           Claim(p, r, {"flush"}), Flushed(p)
    PROVE  told[s] = "accepted"
<1>1. \A j \in DOMAIN outbox[p] : outbox[p][j] # Barrier
  BY DEF Flushed, ToSet
<1>2. \/ told[s] = "accepted"
      \/ \E i, j \in DOMAIN outbox[p] :
           i < j /\ Sent(p, i, "accepted", s) /\ outbox[p][j] = Barrier
  BY DEF FateInv, AckInv, AckOK
<1> QED BY <1>1, <1>2

(* One response's worker is given more to emit.                            *)
Grows(r, e) == outbox' = [outbox EXCEPT ![r] = @ \o e]

(* Appending keeps the entries in front and moves the others behind them.  *)
LEMMA Concat ==
    ASSUME NEW a \in Seq(Event), NEW b \in Seq(Event), NEW c, c = a \o b
    PROVE  /\ \A i \in DOMAIN a : i \in DOMAIN c /\ c[i] = a[i]
           /\ \A i \in DOMAIN c : i \notin DOMAIN a =>
                i - Len(a) \in DOMAIN b /\ c[i] = b[i - Len(a)] /\ \A j \in DOMAIN a : j < i
           /\ \A i \in DOMAIN b : /\ Len(a) + i \in DOMAIN c /\ c[Len(a) + i] = b[i]
                                  /\ \A j \in DOMAIN a : j < Len(a) + i
           /\ Len(c) = Len(a) + Len(b)
<1>1. PICK m \in Nat, n \in Nat : m = Len(a) /\ n = Len(b)
  OBVIOUS
<1>2. /\ DOMAIN a = 1 .. m /\ DOMAIN b = 1 .. n /\ DOMAIN c = 1 .. m + n /\ Len(c) = m + n
      /\ \A i \in 1 .. m + n : c[i] = IF i <= m THEN a[i] ELSE b[i - m]
  BY <1>1
<1>3. \A i \in 1 .. m + n : i \notin 1 .. m => i - m \in 1 .. n /\ i > m /\ ~(i <= m)
  BY ONLY <1>1
<1>4. \A i \in 1 .. n : m + i \in 1 .. m + n /\ m + i > m /\ (m + i) - m = i /\ ~(m + i <= m)
  BY ONLY <1>1
<1>5. \A i \in 1 .. m : i \in 1 .. m + n /\ i <= m
  BY ONLY <1>1
<1>6. \A i \in DOMAIN a : i \in DOMAIN c /\ c[i] = a[i]
  BY ONLY <1>2, <1>5
<1>7. \A i \in DOMAIN c : i \notin DOMAIN a =>
        i - m \in DOMAIN b /\ c[i] = b[i - m] /\ \A j \in DOMAIN a : j < i
  BY ONLY <1>2, <1>3, <1>1
<1>8. \A i \in DOMAIN b : /\ m + i \in DOMAIN c /\ c[m + i] = b[i]
                          /\ \A j \in DOMAIN a : j < m + i
  <2>1. ASSUME NEW i \in DOMAIN b PROVE m + i \in DOMAIN c /\ c[m + i] = b[i]
    BY ONLY <1>2, <1>4, <2>1
  <2>2. ASSUME NEW i \in DOMAIN b, NEW j \in DOMAIN a PROVE j < m + i
    BY ONLY <1>1, <1>2, <2>2
  <2> QED BY ONLY <2>1, <2>2
<1> QED BY ONLY <1>1, <1>2, <1>6, <1>7, <1>8

(* Outcomes are only appended, to one response's queue, behind what waits. *)
LEMMA Grown ==
    ASSUME TypeOK, NEW r \in Responses, NEW e \in Seq(Event), Grows(r, e)
    PROVE  /\ \A q \in Responses : \A i \in DOMAIN outbox[q] :
                i \in DOMAIN outbox'[q] /\ outbox'[q][i] = outbox[q][i]
           /\ \A q \in Responses : \A i \in DOMAIN outbox'[q] : i \notin DOMAIN outbox[q] =>
                /\ q = r /\ i - Len(outbox[r]) \in DOMAIN e
                /\ outbox'[q][i] = e[i - Len(outbox[r])]
                /\ \A j \in DOMAIN outbox[r] : j < i
           /\ \A i \in DOMAIN e : /\ Len(outbox[r]) + i \in DOMAIN outbox'[r]
                                  /\ outbox'[r][Len(outbox[r]) + i] = e[i]
                                  /\ \A j \in DOMAIN outbox[r] : j < Len(outbox[r]) + i
           /\ Len(outbox'[r]) = Len(outbox[r]) + Len(e)
           /\ \A q \in Responses : q # r => outbox'[q] = outbox[q]
<1>1. outbox[r] \in Seq(Event)
  BY DEF TypeOK
<1>2. outbox'[r] = outbox[r] \o e /\ \A q \in Responses : q # r => outbox'[q] = outbox[q]
  BY DEF Grows, TypeOK
<1>3. outbox'[r] = outbox[r] \o e /\ outbox[r] \in Seq(Event) /\ e \in Seq(Event)
  BY <1>1, <1>2
<1>4. PICK c : c = outbox'[r]
  OBVIOUS
<1>5. PICK d : d = outbox[r]
  OBVIOUS
<1>6. d \in Seq(Event) /\ e \in Seq(Event) /\ c = d \o e
  BY ONLY <1>3, <1>4, <1>5
<1>7. /\ \A i \in DOMAIN d : i \in DOMAIN c /\ c[i] = d[i]
      /\ \A i \in DOMAIN c : i \notin DOMAIN d =>
           i - Len(d) \in DOMAIN e /\ c[i] = e[i - Len(d)] /\ \A j \in DOMAIN d : j < i
      /\ \A i \in DOMAIN e : /\ Len(d) + i \in DOMAIN c /\ c[Len(d) + i] = e[i]
                             /\ \A j \in DOMAIN d : j < Len(d) + i
      /\ Len(c) = Len(d) + Len(e)
  BY ONLY <1>6, Concat
<1> QED BY ONLY <1>2, <1>4, <1>5, <1>7

(* What is said after an append was said before it or is said by what was  *)
(* appended.                                                               *)
LEMMA GrownSent ==
    ASSUME TypeOK, NEW r \in Responses, NEW e \in Seq(Event), Grows(r, e)
    PROVE  /\ \A q \in Responses : \A i, k, s : Sent(q, i, k, s) => Sent(q, i, k, s)'
           /\ \A q \in Responses : \A i, k, s : Sent(q, i, k, s)' =>
                \/ Sent(q, i, k, s)
                \/ /\ q = r /\ i - Len(outbox[r]) \in DOMAIN e
                   /\ Says(e, i - Len(outbox[r]), k, s)
                   /\ i \in DOMAIN outbox'[r] /\ i \notin DOMAIN outbox[r]
                   /\ \A j \in DOMAIN outbox[r] : j < i
           /\ \A q \in Responses : \A i, k, s : Sent(q, i, k, s)' =>
                Sent(q, i, k, s) \/ \E m \in DOMAIN e : Says(e, m, k, s)
           /\ \A i \in DOMAIN e : \A k, s : Says(e, i, k, s) =>
                \E m \in DOMAIN outbox'[r] : Sent(r, m, k, s)'
<1>1. \A q \in Responses : \A i, k, s : Sent(q, i, k, s) => Sent(q, i, k, s)'
  BY Grown DEF Sent, Says
<1>2. \A q \in Responses : \A i, k, s : Sent(q, i, k, s)' =>
        \/ Sent(q, i, k, s)
        \/ /\ q = r /\ i - Len(outbox[r]) \in DOMAIN e
           /\ Says(e, i - Len(outbox[r]), k, s)
           /\ i \in DOMAIN outbox'[r] /\ i \notin DOMAIN outbox[r]
           /\ \A j \in DOMAIN outbox[r] : j < i
  BY Grown DEF Sent, Says
<1>3. ASSUME NEW q \in Responses, NEW i, NEW k, NEW s, Sent(q, i, k, s)', ~Sent(q, i, k, s)
      PROVE  \E m \in DOMAIN e : Says(e, m, k, s)
  <2>1. PICK m : m = i - Len(outbox[r])
    OBVIOUS
  <2>2. m \in DOMAIN e /\ Says(e, m, k, s)
    BY <1>2, <1>3, <2>1
  <2> QED BY ONLY <2>2
<1>4. ASSUME NEW i \in DOMAIN e, NEW k, NEW s, Says(e, i, k, s)
      PROVE  \E m \in DOMAIN outbox'[r] : Sent(r, m, k, s)'
  <2>1. PICK m : m = Len(outbox[r]) + i
    OBVIOUS
  <2>2. m \in DOMAIN outbox'[r] /\ outbox'[r][m] = e[i]
    BY <2>1, Grown
  <2> QED BY <1>4, <2>2 DEF Sent, Says
<1> QED BY <1>1, <1>2, <1>3, <1>4

(* A failure was emitted or is one of the outcomes that wait.              *)
LEMMA ReturnedSent ==
    \A s : /\ Returned(s) <=>
                \/ told[s] = "failed"
                \/ \E r \in Responses : \E i \in DOMAIN outbox[r] : Sent(r, i, "failed", s)
           /\ Returned(s)' <=>
                \/ told'[s] = "failed"
                \/ \E r \in Responses : \E i \in DOMAIN outbox'[r] : Sent(r, i, "failed", s)'
BY DEF Returned, Sent, Says, ToSet

(* Appending outcomes takes no acceptance away and passes no barrier.      *)
LEMMA GrownAck ==
    ASSUME TypeOK, FateInv, NEW r \in Responses, NEW e \in Seq(Event), Grows(r, e),
           UNCHANGED told, NEW p \in Responses, Advance(p), NEW s \in Held(p)
    PROVE  AckOK(p, s)'
<1>1. AckOK(p, s)
  BY DEF FateInv, AckInv
<1>2. told'[s] = "accepted" \/ \E i \in DOMAIN outbox'[p] : Sent(p, i, "accepted", s)'
  BY <1>1, GrownSent, Grown DEF AckOK
<1>3. ASSUME NEW q \in Responses, Claim(p, q, {"flush"})'
      PROVE  \/ told'[s] = "accepted"
             \/ \E i, j \in DOMAIN outbox'[p] :
                  i < j /\ Sent(p, i, "accepted", s)' /\ outbox'[p][j] = Barrier
  <2>1. \/ told[s] = "accepted"
        \/ \E i, j \in DOMAIN outbox[p] :
             i < j /\ Sent(p, i, "accepted", s) /\ outbox[p][j] = Barrier
    BY <1>1, <1>3 DEF AckOK, Advance
  <2> QED BY <2>1, GrownSent, Grown
<1>4. ASSUME NEW q \in Responses, Claim(p, q, Acknowledged)' PROVE told'[s] = "accepted"
  BY <1>1, <1>4, AckFlushed DEF AckOK, Advance
<1> QED BY <1>2, <1>3, <1>4 DEF AckOK, Barrier

(* Nor does a step that leaves all outcomes where they are.                *)
LEMMA StayAck ==
    ASSUME TypeOK, FateInv, UNCHANGED <<outbox, told>>,
           NEW p \in Responses, Advance(p), NEW s \in Held(p)
    PROVE  AckOK(p, s)'
<1>1. <<>> \in Seq(Event) /\ outbox[p] \in Seq(Event)
  BY DEF TypeOK
<1>2. Grows(p, <<>>)
  BY <1>1 DEF Grows, TypeOK
<1> QED BY <1>1, <1>2, GrownAck

(* What fail_successor sends returns each update that the target holds.    *)
LEMMA FailuresSay ==
    ASSUME TypeOK, NEW p \in Responses
    PROVE  LET e == Failures(target[p])
           IN  /\ \A i \in DOMAIN e : e[i] = Barrier \/
                    \E s \in Held(p) : Says(e, i, "failed", s)
               /\ \A s \in Held(p) : \E i \in DOMAIN e : Says(e, i, "failed", s)
<1> DEFINE e == Failures(target[p])
           a == Entries(target[p])
           v == Events("failed", a)
<1>1. a \in Seq(Steers)
  BY EntriesType DEF TypeOK
<1>2. CASE target[p].batch = {}
  <2>1. e = <<>>
    BY <1>2 DEF Failures
  <2> QED BY <1>2, <2>1, HeldSteers
<1>3. CASE target[p].batch # {}
  <2>1. e = Append(v, Barrier)
    BY <1>3 DEF Failures
  <2>2. /\ v \in Seq(Event) /\ Len(v) = Len(a)
        /\ \A i \in 1 .. Len(a) : v[i] = [kind |-> "failed", steer |-> {a[i]}]
    BY <1>1, EventsType
  <2>3. /\ DOMAIN a = 1 .. Len(a) /\ Len(a) \in Nat
        /\ Held(p) = {a[i] : i \in DOMAIN a}
    BY <1>1 DEF Held, ToSet
  <2>4. /\ DOMAIN e = 1 .. Len(a) + 1 /\ e[Len(a) + 1] = Barrier
        /\ \A i \in 1 .. Len(a) : e[i] = v[i]
    <3> HIDE DEF a, v
    <3> QED BY <2>1, <2>2, <2>3
  <2> HIDE DEF a, v, e
  <2>5. \A i \in 1 .. Len(a) : Says(e, i, "failed", a[i]) /\ a[i] \in Held(p)
    BY <2>2, <2>3, <2>4 DEF Says
  <2>6. \A i \in DOMAIN e : i \in 1 .. Len(a) \/ i = Len(a) + 1
    BY <2>3, <2>4
  <2>7. \A i \in DOMAIN e : e[i] = Barrier \/ \E s \in Held(p) : Says(e, i, "failed", s)
    BY <2>4, <2>5, <2>6
  <2>8. \A s \in Held(p) : \E i \in DOMAIN e : Says(e, i, "failed", s)
    BY <2>3, <2>5 DEF Says
  <2> QED BY <2>7, <2>8 DEF e
<1> QED BY <1>2, <1>3

(* A step that moves tasks and targets on, without touching outcomes,      *)
(* batches or receipts, keeps every fate.                                  *)
LEMMA QuietStep ==
    ASSUME TypeOK, FateInv, RunsKept,
           \A p \in Responses : Advance(p) /\ HeldKept(p),
           UNCHANGED <<outbox, told, fate>>
    PROVE  FateInv'
<1>1. \A p, r \in Responses : Claim(p, r, Reserving)' => Claim(p, r, Reserving)
  BY ClaimStages DEF Advance
<1>r. \A s : Returned(s)' <=> Returned(s)
  BY DEF Returned
<1>a. \A r \in Responses : \A s : Applies(r, s)' <=> Applies(r, s)
  BY DEF RunsKept, Applies
<1>s. \A r, i, k, s : Sent(r, i, k, s)' <=> Sent(r, i, k, s)
  BY DEF Sent, Says
<1>2. CarryInv'
  BY <1>1 DEF FateInv, CarryInv, RunsKept, HeldKept, Advance
<1>3. HeldInv'
  BY <1>r, <1>a DEF FateInv, HeldInv, HeldOK, HeldKept, Advance
<1>4. AppliedInv'
  BY <1>r, <1>a DEF FateInv, AppliedInv, HeldKept
<1>5. OutboxInv'
  BY <1>s DEF FateInv, OutboxInv, HeldKept
<1>6. AckInv'
  <2> SUFFICES ASSUME NEW p \in Responses, NEW s \in Held(p)'
               PROVE  AckOK(p, s)'
    BY DEF AckInv
  <2>1. s \in Held(p)
    BY DEF HeldKept
  <2> QED BY <2>1, StayAck
<1> QED BY <1>2, <1>3, <1>4, <1>5, <1>6 DEF FateInv

(* What is sent so that the outcomes stay in order.                        *)
Orderly(r, e) ==
    /\ \A i \in DOMAIN e :
         \/ e[i] = Barrier
         \/ \E k \in Kinds, s \in Steers : Says(e, i, k, s)
    /\ \A i \in DOMAIN e : \A k \in Kinds, s \in Steers :
         Says(e, i, k, s) =>
           fate'[s] = IF k = "rejected" THEN "refused" ELSE "owned"
    /\ \A i \in DOMAIN e, s \in Steers : Says(e, i, "accepted", s) =>
         /\ fate[s] = "unsent"
         /\ \A j \in DOMAIN e : Says(e, j, "accepted", s) \/ Says(e, j, "failed", s) => i <= j
    /\ \A i \in DOMAIN e, s \in Steers : Says(e, i, "failed", s) => s \in Held(r)

(* Outcomes appended in order keep the outboxes in order.                  *)
LEMMA GrownOutbox ==
    ASSUME TypeOK, FateInv, NEW r \in Responses, NEW e \in Seq(Event), Grows(r, e),
             Orderly(r, e),
           UNCHANGED told, \A s \in Steers : fate'[s] = fate[s] \/ fate[s] = "unsent",
           \A q \in Responses : target'[q].phase = "Running" => target[q].phase = "Running",
           target'[r].phase = "Running" => Len(outbox'[r]) <= MaxOutcomes
    PROVE  OutboxInv'
<1>i. OutboxInv /\ AckInv
  BY DEF FateInv
<1>g. /\ \A q \in Responses : \A i, k, s : Sent(q, i, k, s) => Sent(q, i, k, s)'
      /\ \A q \in Responses : \A i, k, s : Sent(q, i, k, s)' =>
                \/ Sent(q, i, k, s)
                \/ /\ q = r /\ i - Len(outbox[r]) \in DOMAIN e
                   /\ Says(e, i - Len(outbox[r]), k, s)
                   /\ i \in DOMAIN outbox'[r] /\ i \notin DOMAIN outbox[r]
                   /\ \A j \in DOMAIN outbox[r] : j < i
  BY GrownSent
<1>d. \A q, i, k, s : Sent(q, i, k, s) => i \in DOMAIN outbox[q]
  BY DEF Sent, Says
<1>1. ASSUME NEW q \in Responses, NEW i \in DOMAIN outbox'[q]
      PROVE  outbox'[q][i] = Barrier \/ \E k \in Kinds, s \in Steers : Sent(q, i, k, s)'
  <2>1. CASE i \in DOMAIN outbox[q]
    BY <1>i, <1>g, <2>1, Grown DEF OutboxInv
  <2>2. CASE i \notin DOMAIN outbox[q]
    <3>1. /\ q = r /\ i - Len(outbox[r]) \in DOMAIN e
          /\ outbox'[q][i] = e[i - Len(outbox[r])]
      BY <2>2, Grown
    <3>2. \/ outbox'[q][i] = Barrier
          \/ \E k \in Kinds, s \in Steers : Says(outbox'[q], i, k, s)
      <4>1. \A m \in DOMAIN e :
              e[m] = Barrier \/ \E k \in Kinds, s \in Steers : Says(e, m, k, s)
        BY DEF Orderly
      <4>2. PICK m \in DOMAIN e : outbox'[q][i] = e[m]
        BY <3>1
      <4>3. i \in DOMAIN outbox'[q]
        OBVIOUS
      <4> QED BY ONLY <4>1, <4>2, <4>3 DEF Says
    <3> QED BY <3>2 DEF Sent
  <2> QED BY <2>1, <2>2
<1>2. ASSUME NEW q \in Responses, NEW i \in DOMAIN outbox'[q], NEW k \in Kinds,
               NEW s \in Steers,
             Sent(q, i, k, s)'
      PROVE  fate'[s] = IF k = "rejected" THEN "refused" ELSE "owned"
  <2>1. CASE Sent(q, i, k, s)
    <3>1. fate[s] = IF k = "rejected" THEN "refused" ELSE "owned"
      BY <1>i, <1>d, <2>1 DEF OutboxInv
    <3> QED BY <3>1
  <2>2. CASE ~Sent(q, i, k, s)
    <3>1. i - Len(outbox[r]) \in DOMAIN e /\ Says(e, i - Len(outbox[r]), k, s)
      BY <1>g, <1>2, <2>2
    <3> QED BY ONLY <3>1, Orderly(r, e) DEF Orderly
  <2> QED BY <2>1, <2>2
<1>3. ASSUME NEW s \in Steers, told'[s] # "nothing"
      PROVE  fate'[s] = IF told'[s] = "rejected" THEN "refused" ELSE "owned"
  BY <1>i, <1>3 DEF OutboxInv
<1>4. ASSUME NEW s \in Steers, NEW q \in Responses, NEW i \in DOMAIN outbox'[q],
             Sent(q, i, "accepted", s)'
      PROVE  /\ told'[s] = "nothing"
             /\ \A p \in Responses : \A j \in DOMAIN outbox'[p] :
                  Sent(p, j, "accepted", s)' \/ Sent(p, j, "failed", s)' => p = q /\ i <= j
  <2>1. CASE Sent(q, i, "accepted", s)
    <3>1. /\ told[s] = "nothing" /\ fate[s] = "owned"
          /\ \A p \in Responses : \A j \in DOMAIN outbox[p] :
               Sent(p, j, "accepted", s) \/ Sent(p, j, "failed", s) => p = q /\ i <= j
      BY <1>i, <1>d, <2>1 DEF OutboxInv, Kinds
    <3>2. ASSUME NEW p \in Responses, NEW j \in DOMAIN outbox'[p],
                 Sent(p, j, "accepted", s)' \/ Sent(p, j, "failed", s)',
                 ~(Sent(p, j, "accepted", s) \/ Sent(p, j, "failed", s))
          PROVE  p = q /\ i <= j
      <4>1. /\ p = r /\ j - Len(outbox[r]) \in DOMAIN e
            /\ \/ Says(e, j - Len(outbox[r]), "accepted", s)
               \/ Says(e, j - Len(outbox[r]), "failed", s)
            /\ \A m \in DOMAIN outbox[r] : m < j
        BY <1>g, <3>2
      <4>2. s \in Held(r)
        BY <3>1, <4>1 DEF Orderly
      <4>3. PICK m \in DOMAIN outbox[r] : Sent(r, m, "accepted", s)
        BY <1>i, <3>1, <4>2 DEF AckInv, AckOK
      <4>4. r = q /\ i \in DOMAIN outbox[r]
        BY <1>d, <2>1, <3>1, <4>3
      <4>5. i < j /\ i \in Nat /\ j \in Nat
        <5>1. \A v \in Seq(Event) : DOMAIN v \subseteq Nat
          OBVIOUS
        <5>2. outbox[r] \in Seq(Event) /\ outbox'[r] \in Seq(Event)
          BY DEF TypeOK, Grows
        <5> QED BY <4>1, <4>4, <5>1, <5>2
      <4> QED BY <4>1, <4>4, <4>5
    <3> QED BY <1>d, <3>1, <3>2
  <2>2. CASE ~Sent(q, i, "accepted", s)
    <3>1. /\ q = r /\ i - Len(outbox[r]) \in DOMAIN e
          /\ Says(e, i - Len(outbox[r]), "accepted", s)
      BY <1>g, <1>4, <2>2
    <3>2. fate[s] = "unsent"
      BY <3>1 DEF Orderly
    <3>3. told[s] = "nothing"
      BY <1>i, <3>2 DEF OutboxInv
    <3>4. ASSUME NEW p \in Responses, NEW j \in DOMAIN outbox'[p],
                 Sent(p, j, "accepted", s)' \/ Sent(p, j, "failed", s)'
          PROVE  p = q /\ i <= j
      <4>1. ~Sent(p, j, "accepted", s) /\ ~Sent(p, j, "failed", s)
        BY <1>i, <1>d, <3>2 DEF OutboxInv, Kinds
      <4>2. /\ p = r /\ j - Len(outbox[r]) \in DOMAIN e
            /\ \/ Says(e, j - Len(outbox[r]), "accepted", s)
               \/ Says(e, j - Len(outbox[r]), "failed", s)
        BY <1>g, <3>4, <4>1
      <4>3. i - Len(outbox[r]) <= j - Len(outbox[r])
        BY <3>1, <4>2 DEF Orderly
      <4>4. i \in Nat /\ j \in Nat /\ Len(outbox[r]) \in Nat
        <5>1. \A v \in Seq(Event) : DOMAIN v \subseteq Nat /\ Len(v) \in Nat
          OBVIOUS
        <5>2. outbox[r] \in Seq(Event) /\ outbox'[r] \in Seq(Event)
          BY DEF TypeOK, Grows
        <5> QED BY <3>1, <4>2, <5>1, <5>2
      <4> QED BY <3>1, <4>2, <4>3, <4>4
    <3> QED BY <3>3, <3>4
  <2> QED BY <2>1, <2>2
<1>5. ASSUME NEW q \in Responses, target'[q].phase = "Running"
      PROVE  Len(outbox'[q]) <= MaxOutcomes
  BY <1>i, <1>5, Grown DEF OutboxInv
<1> QED BY <1>1, <1>2, <1>3, <1>4, <1>5 DEF OutboxInv, Barrier

(* Outcomes that return nothing leave what was returned as it was.         *)
LEMMA GrownReturned ==
    ASSUME TypeOK, NEW r \in Responses, NEW e \in Seq(Event), Grows(r, e), UNCHANGED told
    PROVE  \A s : Returned(s)' <=>
             Returned(s) \/ \E i \in DOMAIN e : Says(e, i, "failed", s)
<1>d. \A q, i, k, s : /\ Sent(q, i, k, s) => i \in DOMAIN outbox[q]
                      /\ Sent(q, i, k, s)' => i \in DOMAIN outbox'[q]
  BY DEF Sent, Says
<1>g. /\ \A q \in Responses : \A i, k, s : Sent(q, i, k, s) => Sent(q, i, k, s)'
      /\ \A q \in Responses : \A i, k, s : Sent(q, i, k, s)' =>
           \/ Sent(q, i, k, s)
           \/ \E m \in DOMAIN e : Says(e, m, k, s)
  BY GrownSent
<1>1. ASSUME NEW s, Returned(s) PROVE Returned(s)'
  <2>1. CASE told[s] = "failed"
    BY <2>1, ReturnedSent
  <2>2. ASSUME NEW q \in Responses, NEW i \in DOMAIN outbox[q], Sent(q, i, "failed", s)
        PROVE  Returned(s)'
    BY <1>d, <1>g, <2>2, ReturnedSent
  <2> QED BY <1>1, <2>1, <2>2, ReturnedSent
<1>2. ASSUME NEW s, Returned(s)', ~Returned(s)
      PROVE  \E i \in DOMAIN e : Says(e, i, "failed", s)
  <2>1. told[s] # "failed" /\ told' = told
    BY <1>2, ReturnedSent
  <2>2. PICK q \in Responses : \E i \in DOMAIN outbox'[q] : Sent(q, i, "failed", s)'
    BY <1>2, <2>1, ReturnedSent
  <2>3. PICK m \in DOMAIN outbox'[q] : Sent(q, m, "failed", s)'
    BY <2>2
  <2>4. ~Sent(q, m, "failed", s)
    BY <1>2, <1>d, ReturnedSent
  <2> QED BY <1>g, <2>3, <2>4
<1>3. ASSUME NEW s, NEW i \in DOMAIN e, Says(e, i, "failed", s)
      PROVE  Returned(s)'
  <2>1. \E m \in DOMAIN outbox'[r] : Sent(r, m, "failed", s)'
    BY <1>3, GrownSent
  <2> QED BY <2>1, ReturnedSent
<1> QED BY <1>1, <1>2, <1>3

(* An outcome that neither accepts nor returns anything is sent.           *)
LEMMA SendStep ==
    ASSUME TypeOK, FateInv, RunsKept, NEW r \in Responses, NEW e \in Seq(Event), Grows(r, e),
           Orderly(r, e),
           \A p \in Responses : Advance(p) /\ HeldKept(p),
           \A i \in DOMAIN e : e[i].kind # "failed",
           UNCHANGED told, \A s \in Steers : fate'[s] = fate[s] \/ fate[s] = "unsent",
           \A s \in Steers : fate'[s] = "owned" => fate[s] = "owned",
           target'[r].phase = "Running" => Len(outbox'[r]) <= MaxOutcomes
    PROVE  FateInv'
<1>i. CarryInv /\ HeldInv /\ AppliedInv /\ AckInv
  BY DEF FateInv
<1>h. \A p \in Responses : Held(p) \subseteq Steers /\ Carried(p) \subseteq Steers
  BY HeldSteers
<1>f. \A s \in Steers : fate[s] = "owned" <=> fate'[s] = "owned"
  OBVIOUS
<1>k. \A p, q \in Responses : Claim(p, q, Reserving)' => Claim(p, q, Reserving)
  BY ClaimStages DEF Advance
<1>r. \A s : Returned(s)' <=> Returned(s)
  <2>1. \A s, j : j \in DOMAIN e => ~Says(e, j, "failed", s)
    BY DEF Says
  <2> QED BY <2>1, GrownReturned
<1>a. \A q \in Responses : \A s : Applies(q, s)' <=> Applies(q, s)
  BY DEF RunsKept, Applies
<1>2. CarryInv'
  BY <1>i, <1>f, <1>h, <1>k DEF CarryInv, RunsKept, HeldKept, Advance
<1>3. HeldInv'
  BY <1>i, <1>f, <1>h, <1>r, <1>a DEF HeldInv, HeldOK, HeldKept, Advance
<1>4. AppliedInv'
  BY <1>i, <1>f, <1>r, <1>a DEF AppliedInv, HeldKept
<1>5. OutboxInv'
  BY GrownOutbox DEF HeldKept
<1>6. AckInv'
  BY GrownAck DEF AckInv, HeldKept
<1> QED BY <1>2, <1>3, <1>4, <1>5, <1>6 DEF FateInv

(* An update is refused on the connection.                                 *)
LEMMA RefuseStep ==
    ASSUME TypeOK, FateInv, RunsKept, UNCHANGED outbox, NEW s \in Steers, fate[s] = "unsent",
           \A p \in Responses : Advance(p) /\ HeldKept(p),
           told' = [told EXCEPT ![s] = "rejected"], fate' = [fate EXCEPT ![s] = "refused"]
    PROVE  FateInv'
<1>i. CarryInv /\ HeldInv /\ AppliedInv /\ OutboxInv /\ AckInv
  BY DEF FateInv
<1>h. \A p \in Responses : Held(p) \subseteq Steers /\ Carried(p) \subseteq Steers
  BY HeldSteers
<1>t. /\ told'[s] = "rejected" /\ fate'[s] = "refused" /\ told[s] = "nothing"
      /\ \A u \in Steers : u # s => told'[u] = told[u] /\ fate'[u] = fate[u]
  BY <1>i DEF TypeOK, OutboxInv
<1>k. \A p, q \in Responses : Claim(p, q, Reserving)' => Claim(p, q, Reserving)
  BY ClaimStages DEF Advance
<1>s. \A r, i, k, u : Sent(r, i, k, u)' <=> Sent(r, i, k, u)
  BY DEF Sent, Says
<1>r. \A u \in Steers : Returned(u)' <=> Returned(u)
  BY <1>t DEF Returned
<1>a. \A q \in Responses : \A u : Applies(q, u)' <=> Applies(q, u)
  BY DEF RunsKept, Applies
<1>n. \A p \in Responses : s \notin Held(p) /\ s \notin Carried(p)
  BY <1>i DEF HeldInv, HeldOK, CarryInv
<1>m. ASSUME NEW r \in Responses, NEW i \in DOMAIN outbox[r], NEW k \in Kinds
      PROVE  ~Sent(r, i, k, s)
  BY <1>i DEF OutboxInv
<1>2. CarryInv'
  BY <1>i, <1>t, <1>h, <1>k, <1>n DEF CarryInv, RunsKept, HeldKept, Advance
<1>3. HeldInv'
  BY <1>i, <1>t, <1>h, <1>r, <1>a, <1>n DEF HeldInv, HeldOK, HeldKept, Advance
<1>4. AppliedInv'
  BY <1>i, <1>t, <1>r, <1>a DEF AppliedInv, HeldKept
<1>5. OutboxInv'
  <2>1. "accepted" \in Kinds /\ outbox' = outbox
    BY DEF Kinds
  <2> QED BY <1>i, <1>t, <1>s, <1>m, <2>1 DEF OutboxInv, HeldKept
<1>6. AckInv'
  <2>1. ASSUME NEW p \in Responses, NEW u \in Held(p)' PROVE AckOK(p, u)'
    <3>1. u \in Held(p) /\ u # s /\ told'[u] = told[u] /\ outbox' = outbox
      BY <1>h, <1>n, <1>t DEF HeldKept
    <3>2. AckOK(p, u)
      BY <1>i, <3>1 DEF AckInv
    <3> QED BY <1>s, <3>1, <3>2, AckFlushed DEF AckOK, Advance, Barrier
  <2> QED BY <2>1 DEF AckInv
<1> QED BY <1>2, <1>3, <1>4, <1>5, <1>6 DEF FateInv

(* A target without a reservation accepts an update.                       *)
LEMMA AcceptStep ==
    ASSUME TypeOK, FateInv, RunsKept, NEW r \in Responses, NEW s \in Steers,
             fate[s] = "unsent",
           NEW e \in Seq(Event), Grows(r, e), Orderly(r, e),
           \A i \in DOMAIN e : e[i].kind # "failed",
           \E i \in DOMAIN e : Says(e, i, "accepted", s),
           \A p \in Responses : Advance(p), \A p \in Responses \ {r} : HeldKept(p),
           Held(r)' = Held(r) \cup {s},
           target'[r].phase = "Running" => target[r].phase = "Running" /\
             Len(outbox'[r]) <= MaxOutcomes,
           \A q \in Responses : ~Claim(r, q, Reserving),
           UNCHANGED told, fate' = [fate EXCEPT ![s] = "owned"]
    PROVE  FateInv'
<1>i. CarryInv /\ HeldInv /\ AppliedInv /\ OutboxInv /\ AckInv
  BY DEF FateInv
<1>h. \A p \in Responses : Held(p) \subseteq Steers /\ Carried(p) \subseteq Steers
  BY HeldSteers
<1>t. /\ fate'[s] = "owned" /\ told[s] = "nothing"
      /\ \A u \in Steers : u # s => fate'[u] = fate[u]
  BY <1>i DEF TypeOK, OutboxInv
<1>k. \A p, q \in Responses : Claim(p, q, Reserving)' => Claim(p, q, Reserving) /\ p # r
  BY ClaimStages DEF Advance
<1>r. \A u : Returned(u)' <=> Returned(u)
  <2>1. \A u, j : j \in DOMAIN e => ~Says(e, j, "failed", u)
    BY DEF Says
  <2> QED BY <2>1, GrownReturned
<1>a. \A q \in Responses : \A u : Applies(q, u)' <=> Applies(q, u)
  BY DEF RunsKept, Applies
<1>n. \A p \in Responses : s \notin Held(p) /\ s \notin Carried(p)
  BY <1>i DEF HeldInv, HeldOK, CarryInv
<1>m. ASSUME NEW q \in Responses, NEW i \in DOMAIN outbox[q], NEW k \in Kinds
      PROVE  ~Sent(q, i, k, s)
  BY <1>i DEF OutboxInv
<1>b. ~Returned(s)
  <2>1. \A q \in Responses : \A i \in DOMAIN outbox[q] : ~Sent(q, i, "failed", s)
    BY <1>m DEF Kinds
  <2> QED BY <1>t, <2>1, ReturnedSent
<1>2. CarryInv'
  BY <1>i, <1>t, <1>h, <1>k, <1>n DEF CarryInv, RunsKept, HeldKept, Advance
<1>3. HeldInv'
  <2>1. ASSUME NEW p \in Responses, NEW u \in Held(p)', u # s PROVE HeldOK(p, u)'
    <3>1. u \in Held(p) /\ u \in Steers
      BY <1>h, <2>1 DEF HeldKept
    <3> QED BY <1>i, <1>t, <1>r, <1>a, <2>1, <3>1 DEF HeldInv, HeldOK, HeldKept, Advance
  <2>2. ASSUME NEW p \in Responses, s \in Held(p)' PROVE HeldOK(p, s)'
    <3>1. p = r /\ \A q \in Responses : s \in Held(q)' => q = r
      BY <1>n, <2>2 DEF HeldKept
    <3>2. \A q \in Responses : ~Applies(q, s)
      BY <1>n DEF Applies
    <3> QED BY <1>t, <1>r, <1>b, <1>a, <3>1, <3>2 DEF HeldOK
  <2> QED BY <2>1, <2>2 DEF HeldInv
<1>4. AppliedInv'
  BY <1>i, <1>t, <1>r, <1>a DEF AppliedInv, HeldKept
<1>5. OutboxInv'
  BY <1>t, GrownOutbox DEF HeldKept
<1>6. AckInv'
  <2>1. ASSUME NEW p \in Responses, NEW u \in Held(p)', u \in Held(p) PROVE AckOK(p, u)'
    BY <2>1, GrownAck
  <2>2. ASSUME NEW p \in Responses, s \in Held(p)' PROVE AckOK(p, s)'
    <3>1. p = r
      BY <1>n, <2>2 DEF HeldKept
    <3>2. \A q \in Responses : ~Claim(r, q, {"flush"})' /\ ~Claim(r, q, Acknowledged)'
      BY <1>k, ClaimStages
    <3>3. \E i \in DOMAIN outbox'[r] : Sent(r, i, "accepted", s)'
      <4>1. PICK i \in DOMAIN e : Says(e, i, "accepted", s)
        OBVIOUS
      <4> QED BY <4>1, GrownSent
    <3> QED BY <3>1, <3>2, <3>3 DEF AckOK
  <2>3. \A p \in Responses : \A u \in Held(p)' : u = s \/ u \in Held(p)
    BY DEF HeldKept
  <2> QED BY <2>1, <2>2, <2>3 DEF AckInv
<1> QED BY <1>2, <1>3, <1>4, <1>5, <1>6 DEF FateInv

(* fail_successor returns what a target holds and a successor has not      *)
(* published; the execution prepared with it, if any, has ended.           *)
LEMMA FailStep ==
    ASSUME TypeOK, FateInv, RunsKept, NEW p \in Responses,
           Grows(p, Failures(target[p])), UNCHANGED <<told, fate>>,
           Held(p)' = {}, target'[p].phase # "Running",
           \A q \in Responses \ {p} : Advance(q) /\ HeldKept(q),
           \A r \in Responses : ~Claim(p, r, Reserving)',
           \A r \in Responses : Claim(p, r, Reserving) => Terminal(r)',
           \A r \in Responses : Claim(p, r, Late) => ~run[r].created
    PROVE  FateInv'
<1> DEFINE e == Failures(target[p])
<1>i. CarryInv /\ HeldInv /\ AppliedInv /\ OutboxInv /\ AckInv
  BY DEF FateInv
<1>h. \A q \in Responses : Held(q) \subseteq Steers /\ Carried(q) \subseteq Steers
  BY HeldSteers
<1>e. e \in Seq(Event)
  BY FailuresType DEF TypeOK
<1>f. /\ \A i \in DOMAIN e : e[i] = Barrier \/ \E s \in Held(p) : Says(e, i, "failed", s)
      /\ \A s \in Held(p) : \E i \in DOMAIN e : Says(e, i, "failed", s)
  BY FailuresSay DEF TypeOK
<1>b. \A i, k, s : Says(e, i, k, s) => k = "failed" /\ s \in Held(p)
  <2>1. \A i, k, s, u : Says(e, i, k, s) /\ Says(e, i, "failed", u) => k = "failed" /\ s = u
    BY DEF Says
  <2>2. \A i, k, s : Says(e, i, k, s) => i \in DOMAIN e /\ e[i] # Barrier
    BY DEF Says, Barrier
  <2> QED BY <1>f, <2>1, <2>2
<1> HIDE DEF e
<1>g. Grows(p, e)
  BY DEF e
<1>k. \A q, r \in Responses : Claim(q, r, Reserving)' => Claim(q, r, Reserving) /\ q # p
  BY ClaimStages DEF Advance
<1>r. \A s : Returned(s)' <=> Returned(s) \/ s \in Held(p)
  <2>1. \A s : Returned(s)' <=> Returned(s) \/ \E i \in DOMAIN e : Says(e, i, "failed", s)
    BY <1>e, <1>g, GrownReturned
  <2> QED BY <1>f, <1>b, <2>1
<1>a. \A q \in Responses : \A s : Applies(q, s)' <=> Applies(q, s)
  BY DEF RunsKept, Applies
<1>n. \A r \in Responses, s \in Held(p) : ~Applies(r, s)
  BY <1>i DEF HeldInv, HeldOK, Applies
<1>2. CarryInv'
  <2>1. \A q, r \in Responses : Claim(q, r, Reserving)' => Carried(r)' = Held(q)'
    BY <1>i, <1>k DEF CarryInv, RunsKept, HeldKept
  <2>2. ASSUME NEW r \in Responses, NEW s \in Carried(r)'
        PROVE  /\ fate'[s] = "owned"
               /\ run'[r].created \/ Terminal(r)' \/
                    \E q \in Responses : Claim(q, r, Reserving)'
    <3>1. /\ s \in Carried(r) /\ fate[s] = "owned"
          /\ run[r].created \/ Terminal(r) \/ \E q \in Responses : Claim(q, r, Reserving)
      BY <1>i DEF CarryInv, RunsKept
    <3> QED BY <3>1 DEF RunsKept, Advance
  <2> QED BY <2>1, <2>2 DEF CarryInv
<1>3. HeldInv'
  <2>1. ASSUME NEW q \in Responses, NEW s \in Held(q)' PROVE HeldOK(q, s)'
    <3>1. q # p /\ s \in Held(q)
      BY <2>1 DEF HeldKept
    <3>2. HeldOK(q, s) /\ s \notin Held(p)
      BY <1>i, <3>1 DEF HeldInv, HeldOK
    <3>3. \A u \in Responses : s \in Held(u)' => s \in Held(u)
      BY DEF HeldKept
    <3> QED BY <1>r, <1>a, <3>1, <3>2, <3>3 DEF HeldOK, Advance
  <2> QED BY <2>1 DEF HeldInv
<1>4. AppliedInv'
  <2>1. \A s : (\E q \in Responses : s \in Held(q)) =>
               (\E q \in Responses : s \in Held(q)') \/ s \in Held(p)
    BY DEF HeldKept
  <2> QED BY <1>i, <1>h, <1>r, <1>a, <1>n, <2>1 DEF AppliedInv
<1>5. OutboxInv'
  <2>1. Orderly(p, e)
    <3>1. \A s \in Held(p) : fate[s] = "owned" /\ s \in Steers
      BY <1>i, <1>h DEF HeldInv, HeldOK
    <3>2. "failed" \in Kinds
      BY DEF Kinds
    <3> QED BY <1>f, <1>b, <3>1, <3>2 DEF Orderly
  <2>2. \A q \in Responses : target'[q].phase = "Running" => target[q].phase = "Running"
    BY DEF HeldKept
  <2> QED BY <1>e, <1>g, <2>1, <2>2, GrownOutbox
<1>6. AckInv'
  <2>1. ASSUME NEW q \in Responses, NEW s \in Held(q)' PROVE AckOK(q, s)'
    <3>1. q # p /\ s \in Held(q)
      BY <2>1 DEF HeldKept
    <3> QED BY <1>e, <1>g, <3>1, GrownAck
  <2> QED BY <2>1 DEF AckInv
<1> QED BY <1>2, <1>3, <1>4, <1>5, <1>6 DEF FateInv

(* commit_successor: a created successor takes over what the target held.  *)
LEMMA CommitStep ==
    ASSUME TypeOK, FateInv, RunsKept, NEW p \in Responses, UNCHANGED <<outbox, told, fate>>,
           Held(p)' = {}, target'[p].phase # "Running",
           \A q \in Responses \ {p} : Advance(q) /\ HeldKept(q),
           \A r \in Responses : ~Claim(p, r, Reserving)',
           \A r \in Responses : Claim(p, r, Reserving) => run[r].created,
           \E r \in Responses : Claim(p, r, Late)
    PROVE  FateInv'
<1>i. CarryInv /\ HeldInv /\ AppliedInv /\ OutboxInv /\ AckInv
  BY DEF FateInv
<1>h. \A q \in Responses : Held(q) \subseteq Steers /\ Carried(q) \subseteq Steers
  BY HeldSteers
<1>k. \A q, r \in Responses : Claim(q, r, Reserving)' => Claim(q, r, Reserving) /\ q # p
  BY ClaimStages DEF Advance
<1>r. \A s : Returned(s)' <=> Returned(s)
  BY DEF Returned
<1>s. \A r, i, k, s : Sent(r, i, k, s)' <=> Sent(r, i, k, s)
  BY DEF Sent
<1>a. \A q \in Responses : \A s : Applies(q, s)' <=> Applies(q, s)
  BY DEF RunsKept, Applies
<1>2. CarryInv'
  <2>1. \A q, r \in Responses : Claim(q, r, Reserving)' => Carried(r)' = Held(q)'
    BY <1>i, <1>k DEF CarryInv, RunsKept, HeldKept
  <2>2. ASSUME NEW r \in Responses, NEW s \in Carried(r)'
        PROVE  /\ fate'[s] = "owned"
               /\ run'[r].created \/ Terminal(r)' \/
                    \E q \in Responses : Claim(q, r, Reserving)'
    <3>1. /\ s \in Carried(r) /\ fate[s] = "owned"
          /\ run[r].created \/ Terminal(r) \/ \E q \in Responses : Claim(q, r, Reserving)
      BY <1>i DEF CarryInv, RunsKept
    <3> QED BY <3>1 DEF RunsKept, Advance
  <2> QED BY <2>1, <2>2 DEF CarryInv
<1>3. HeldInv'
  <2>1. ASSUME NEW q \in Responses, NEW s \in Held(q)' PROVE HeldOK(q, s)'
    <3>1. q # p /\ s \in Held(q)
      BY <2>1 DEF HeldKept
    <3>2. HeldOK(q, s)
      BY <1>i, <3>1 DEF HeldInv
    <3>3. \A u \in Responses : s \in Held(u)' => s \in Held(u)
      BY DEF HeldKept
    <3> QED BY <1>r, <1>a, <3>1, <3>2, <3>3 DEF HeldOK, Advance
  <2> QED BY <2>1 DEF HeldInv
<1>4. AppliedInv'
  <2>1. \A s : (\E q \in Responses : s \in Held(q)) =>
               (\E q \in Responses : s \in Held(q)') \/ s \in Held(p)
    BY DEF HeldKept
  <2>2. \A s \in Held(p) : \E r \in Responses : Applies(r, s)
    BY <1>i, ClaimStages DEF CarryInv, Applies
  <2> QED BY <1>i, <1>h, <1>r, <1>a, <2>1, <2>2 DEF AppliedInv
<1>5. OutboxInv'
  <2>1. \A q \in Responses : target'[q].phase = "Running" => target[q].phase = "Running"
    BY DEF HeldKept
  <2>2. outbox' = outbox /\ told' = told /\ fate' = fate
    OBVIOUS
  <2> QED BY <1>i, <1>s, <2>1, <2>2 DEF OutboxInv
<1>6. AckInv'
  <2>1. ASSUME NEW q \in Responses, NEW s \in Held(q)' PROVE AckOK(q, s)'
    <3>1. q # p /\ s \in Held(q)
      BY <2>1 DEF HeldKept
    <3> QED BY <3>1, StayAck
  <2> QED BY <2>1 DEF AckInv
<1> QED BY <1>2, <1>3, <1>4, <1>5, <1>6 DEF FateInv

(* prepare_successor reserves a target: the prepared response carries what *)
(* it holds, and a barrier follows what waits to be emitted.               *)
LEMMA ReserveStep ==
    ASSUME TypeOK, FateInv, NEW p \in Responses, NEW r \in Responses,
           Grows(p, <<Barrier>>), UNCHANGED <<told, fate>>,
           \A q \in Responses : Held(q)' = Held(q),
           \A q \in Responses : target'[q].phase = "Running" =>
             target[q].phase = "Running" /\ q # p,
           \A q \in Responses \ {r} : /\ Carried(q)' = Carried(q)
                                      /\ run'[q].created <=> run[q].created
                                      /\ Terminal(q) => Terminal(q)',
           Carried(r)' = Held(p), ~run[r].created, ~run'[r].created,
           \A q \in Responses \ {p} : Advance(q),
           \A q \in Responses : ~Claim(p, q, Reserving) /\ ~Claim(q, r, Reserving),
           \A q \in Responses : Claim(p, q, Reserving)' => q = r,
           Claim(p, r, Reserving)', \A q \in Responses : ~Claim(p, q, Acknowledged)'
    PROVE  FateInv'
<1> DEFINE e == <<Barrier>>
<1>i. CarryInv /\ HeldInv /\ AppliedInv /\ OutboxInv /\ AckInv
  BY DEF FateInv
<1>h. \A q \in Responses : Held(q) \subseteq Steers /\ Carried(q) \subseteq Steers
  BY HeldSteers
<1>e. /\ e \in Seq(Event) /\ DOMAIN e = {1} /\ e[1] = Barrier
      /\ \A i, k, s : ~Says(e, i, k, s)
  <2>1. Barrier \in Event /\ \A k, s : Barrier # [kind |-> k, steer |-> {s}]
    BY DEF Barrier, Event
  <2>2. e \in Seq(Event) /\ DOMAIN e = {1} /\ e[1] = Barrier
    BY <2>1
  <2> QED BY <2>1, <2>2 DEF Says
<1> HIDE DEF e
<1>g. Grows(p, e)
  BY DEF e
<1>r. \A s : Returned(s)' <=> Returned(s)
  BY <1>e, <1>g, GrownReturned
<1>a. \A q \in Responses : \A s : Applies(q, s)' <=> Applies(q, s)
  BY DEF Applies
<1>2. CarryInv'
  <2>1. ASSUME NEW q \in Responses, NEW u \in Responses, Claim(q, u, Reserving)'
        PROVE  Carried(u)' = Held(q)'
    <3>1. CASE q = p
      BY <2>1, <3>1
    <3>2. CASE q # p
      <4>1. Claim(q, u, Reserving)
        BY <2>1, <3>2, ClaimStages DEF Advance
      <4>2. u # r
        BY <4>1
      <4> QED BY <1>i, <4>1, <4>2 DEF CarryInv
    <3> QED BY <3>1, <3>2
  <2>2. ASSUME NEW u \in Responses, NEW s \in Carried(u)'
        PROVE  /\ fate'[s] = "owned"
               /\ run'[u].created \/ Terminal(u)' \/
                    \E q \in Responses : Claim(q, u, Reserving)'
    <3>1. CASE u = r
      BY <1>i, <2>2, <3>1 DEF HeldInv, HeldOK
    <3>2. CASE u # r
      <4>1. /\ s \in Carried(u) /\ fate[s] = "owned"
            /\ run[u].created \/ Terminal(u) \/ \E q \in Responses : Claim(q, u, Reserving)
        BY <1>i, <2>2, <3>2 DEF CarryInv
      <4>2. CASE \E q \in Responses : Claim(q, u, Reserving)
        BY <4>1, <4>2 DEF Advance
      <4> QED BY <3>2, <4>1, <4>2
    <3> QED BY <3>1, <3>2
  <2> QED BY <2>1, <2>2 DEF CarryInv
<1>3. HeldInv'
  <2>1. ASSUME NEW q \in Responses, NEW s \in Held(q)' PROVE HeldOK(q, s)'
    <3>1. HeldOK(q, s)
      BY <1>i, <2>1 DEF HeldInv
    <3>2. ASSUME NEW u \in Responses, Applies(u, s)' PROVE Claim(q, u, Late)'
      <4>1. Claim(q, u, Late)
        BY <1>a, <3>1, <3>2 DEF HeldOK
      <4>2. q # p
        BY <4>1, ClaimStages
      <4> QED BY <4>1, <4>2 DEF Advance
    <3> QED BY <1>r, <3>1, <3>2 DEF HeldOK
  <2> QED BY <2>1 DEF HeldInv
<1>4. AppliedInv'
  BY <1>i, <1>r, <1>a DEF AppliedInv
<1>5. OutboxInv'
  <2>1. Orderly(p, e)
    BY <1>e DEF Orderly
  <2> QED BY <1>e, <1>g, <2>1, GrownOutbox
<1>6. AckInv'
  <2>1. ASSUME NEW q \in Responses, NEW s \in Held(q)' PROVE AckOK(q, s)'
    <3>1. s \in Held(q) /\ AckOK(q, s)
      BY <1>i, <2>1 DEF AckInv
    <3>2. CASE q # p
      BY <1>e, <1>g, <3>1, <3>2, GrownAck
    <3>3. CASE q = p
      <4>1. told'[s] = "accepted" \/ \E i \in DOMAIN outbox[p] : Sent(p, i, "accepted", s)
        BY <3>1, <3>3 DEF AckOK
      <4>2. ASSUME NEW i \in DOMAIN outbox[p], Sent(p, i, "accepted", s)
            PROVE  \E m, j \in DOMAIN outbox'[p] :
                     m < j /\ Sent(p, m, "accepted", s)' /\ outbox'[p][j] = Barrier
        <5>1. PICK j \in DOMAIN outbox'[p] : i < j /\ outbox'[p][j] = Barrier
          BY <1>e, <1>g, Grown
        <5>2. Sent(p, i, "accepted", s)' /\ i \in DOMAIN outbox'[p]
          BY <1>e, <1>g, <4>2, GrownSent, Grown
        <5> QED BY <5>1, <5>2
      <4> QED BY <3>3, <4>1, <4>2 DEF AckOK, Barrier
    <3> QED BY <3>2, <3>3
  <2> QED BY <2>1 DEF AckInv
<1> QED BY <1>2, <1>3, <1>4, <1>5, <1>6 DEF FateInv

(* A running execution publishes its creation: what it carries is still    *)
(* held by the parent it was prepared for, and nobody else applied it.     *)
LEMMA PublishStep ==
    ASSUME TypeOK, FateInv, NEW r \in Responses,
           run' = [run EXCEPT ![r].created = TRUE], ~run[r].created, ~Terminal(r),
           UNCHANGED <<outbox, told, fate, target, tasks>>,
           \A p \in Responses : Claim(p, r, Reserving) => Claim(p, r, Late),
           \A p, q \in Responses : Claim(p, q, Reserving) /\ Claim(p, r, Reserving) => q = r
    PROVE  FateInv' /\ \A s \in Carried(r) : told[s] = "accepted"
<1>i. CarryInv /\ HeldInv /\ AppliedInv /\ OutboxInv /\ AckInv
  BY DEF FateInv
<1>h. \A q \in Responses : Held(q) \subseteq Steers /\ Carried(q) \subseteq Steers
  BY HeldSteers
<1>u. /\ \A q \in Responses : /\ run'[q].carries = run[q].carries /\ run'[q].exec = run[q].exec
                              /\ q # r => run'[q].created = run[q].created
      /\ run'[r].created
  BY DEF TypeOK, Run
<1>c. /\ \A q \in Responses : Carried(q)' = Carried(q) /\ (Terminal(q)' <=> Terminal(q))
      /\ \A q \in Responses : Held(q)' = Held(q)
      /\ \A p, q, S : Claim(p, q, S)' <=> Claim(p, q, S)
      /\ \A s : Returned(s)' <=> Returned(s)
      /\ \A q, i, k, s : Sent(q, i, k, s)' <=> Sent(q, i, k, s)
  <2>1. \A q \in Responses : Carried(q)' = Carried(q) /\ (Terminal(q)' <=> Terminal(q))
    BY <1>u DEF Carried, Terminal
  <2>2. \A q \in Responses : Held(q)' = Held(q)
    BY DEF Held, Entries
  <2>3. \A p, q, S : Claim(p, q, S)' <=> Claim(p, q, S)
    BY DEF Claim
  <2>4. \A s : Returned(s)' <=> Returned(s)
    BY DEF Returned
  <2>5. \A q, i, k, s : Sent(q, i, k, s)' <=> Sent(q, i, k, s)
    BY DEF Sent
  <2> QED BY <2>1, <2>2, <2>3, <2>4, <2>5
<1>a. /\ \A q \in Responses \ {r} : \A s : Applies(q, s)' <=> Applies(q, s)
      /\ \A s : Applies(r, s)' <=> s \in Carried(r)
  BY <1>u, <1>c DEF Applies
<1>p. ASSUME NEW s \in Carried(r)
      PROVE  /\ \E p \in Responses : s \in Held(p) /\ Claim(p, r, Late)
             /\ \A q \in Responses : ~Applies(q, s)
             /\ told[s] = "accepted"
             /\ \A p \in Responses : s \in Held(p) => Claim(p, r, Late)
  <2>1. PICK p \in Responses : Claim(p, r, Reserving)
    BY <1>i DEF CarryInv
  <2>2. s \in Held(p) /\ Claim(p, r, Late)
    BY <1>i, <2>1 DEF CarryInv
  <2>3. \A q \in Responses : Applies(q, s) => Claim(p, q, Late)
    BY <1>i, <2>2 DEF HeldInv, HeldOK
  <2>4. \A q \in Responses : Applies(q, s) => q = r
    BY <2>1, <2>3, ClaimStages
  <2>5. ~Applies(r, s)
    BY DEF Applies
  <2>6. told[s] = "accepted"
    BY <1>i, <2>2, ClaimStages DEF AckInv, AckOK
  <2>7. \A q \in Responses : s \in Held(q) => q = p
    BY <1>i, <2>2 DEF HeldInv, HeldOK
  <2> QED BY <2>2, <2>4, <2>5, <2>6, <2>7
<1>2. CarryInv'
  <2>1. \A q \in Responses : run[q].created => run'[q].created
    BY <1>u
  <2> QED BY <1>i, <1>c, <2>1 DEF CarryInv
<1>3. HeldInv'
  <2>1. ASSUME NEW q \in Responses, NEW s \in Held(q)' PROVE HeldOK(q, s)'
    <3>1. s \in Held(q) /\ HeldOK(q, s)
      BY <1>i, <1>c, <2>1 DEF HeldInv
    <3>2. ASSUME NEW u \in Responses, Applies(u, s)' PROVE Claim(q, u, Late)'
      <4>1. CASE u = r
        BY <1>a, <1>c, <1>p, <3>1, <3>2, <4>1
      <4>2. CASE u # r
        BY <1>a, <1>c, <3>1, <3>2, <4>2 DEF HeldOK
      <4> QED BY <4>1, <4>2
    <3> QED BY <1>c, <3>1, <3>2 DEF HeldOK
  <2> QED BY <2>1 DEF HeldInv
<1>4. AppliedInv'
  <2>1. ASSUME NEW s \in Steers
        PROVE  /\ \A u, q \in Responses : Applies(u, s)' /\ Applies(q, s)' => u = q
               /\ Returned(s)' => \A u \in Responses : ~Applies(u, s)'
               /\ fate'[s] = "owned" => \/ \E u \in Responses : s \in Held(u)'
                                        \/ \E u \in Responses : Applies(u, s)'
                                        \/ Returned(s)'
    <3>1. CASE s \in Carried(r)
      <4>1. PICK p \in Responses : s \in Held(p)
        BY <1>p, <3>1
      <4>2. ~Returned(s)
        BY <1>i, <4>1 DEF HeldInv, HeldOK
      <4> QED BY <1>a, <1>c, <1>p, <3>1, <4>1, <4>2
    <3>2. CASE s \notin Carried(r)
      <4>1. \A q \in Responses : Applies(q, s)' <=> Applies(q, s)
        BY <1>a, <3>2 DEF Applies
      <4> QED BY <1>i, <1>c, <4>1 DEF AppliedInv
    <3> QED BY <3>1, <3>2
  <2> QED BY <2>1 DEF AppliedInv
<1>5. OutboxInv'
  <2>1. outbox' = outbox /\ told' = told /\ fate' = fate /\ target' = target
    OBVIOUS
  <2> QED BY <1>i, <1>c, <2>1 DEF OutboxInv
<1>6. AckInv'
  <2>1. ASSUME NEW q \in Responses, NEW s \in Held(q)' PROVE AckOK(q, s)'
    <3>1. AckOK(q, s)
      BY <1>i, <1>c, <2>1 DEF AckInv
    <3>2. outbox' = outbox /\ told' = told
      OBVIOUS
    <3> QED BY <1>c, <3>1, <3>2 DEF AckOK, Barrier
  <2> QED BY <2>1 DEF AckInv
<1> QED BY <1>p, <1>2, <1>3, <1>4, <1>5, <1>6 DEF FateInv

(* The outcomes that remain once the first one is emitted.                 *)
LEMMA TailSays ==
    ASSUME NEW a \in Seq(Event), a # <<>>
    PROVE  /\ 1 \in DOMAIN a /\ DOMAIN a \subseteq Nat /\ Len(Tail(a)) <= Len(a)
           /\ \A i \in DOMAIN Tail(a) : /\ i + 1 \in DOMAIN a /\ Tail(a)[i] = a[i + 1]
                                        /\ i \in Nat /\ i + 1 # 1
           /\ \A i \in DOMAIN a : i # 1 => i - 1 \in DOMAIN Tail(a) /\ Tail(a)[i - 1] = a[i]
<1>1. PICK n \in Nat : n = Len(a) /\ n # 0
  OBVIOUS
<1>2. /\ DOMAIN a = 1 .. n /\ DOMAIN Tail(a) = 1 .. n - 1 /\ Len(Tail(a)) = n - 1
      /\ \A i \in 1 .. n - 1 : Tail(a)[i] = a[i + 1]
  BY <1>1
<1>3. /\ \A i \in 1 .. n - 1 : i + 1 \in 1 .. n /\ i + 1 # 1 /\ i \in Nat
      /\ \A i \in 1 .. n : i # 1 => i - 1 \in 1 .. n - 1 /\ (i - 1) + 1 = i
      /\ 1 \in 1 .. n /\ 1 .. n \subseteq Nat /\ n - 1 <= n
  BY ONLY <1>1
<1> QED BY ONLY <1>1, <1>2, <1>3

(* What is emitted and what remains, of the outcomes that wait at r.       *)
LEMMA EmitSays ==
    ASSUME TypeOK, FateInv, NEW r \in Responses, Emit(r)
    PROVE  /\ \A q \in Responses : \A i \in DOMAIN outbox'[q] :
                \/ q # r /\ i \in DOMAIN outbox[q] /\ outbox'[q][i] = outbox[q][i]
                \/ /\ q = r /\ i + 1 \in DOMAIN outbox[q] /\ outbox'[q][i] = outbox[q][i + 1]
                   /\ i \in Nat /\ i + 1 # 1
           /\ \A q \in Responses : \A i \in DOMAIN outbox[q] :
                \/ q # r /\ i \in DOMAIN outbox'[q] /\ outbox'[q][i] = outbox[q][i]
                \/ /\ q = r /\ i # 1 /\ i - 1 \in DOMAIN outbox'[q]
                   /\ outbox'[q][i - 1] = outbox[q][i]
                \/ q = r /\ i = 1
           /\ \A q \in Responses : DOMAIN outbox[q] \subseteq Nat /\
                Len(outbox'[q]) <= Len(outbox[q])
           /\ \A s \in Steers : \/ told'[s] = told[s]
                                \/ Sent(r, 1, told'[s], s) /\ told'[s] \in Kinds \ {"pending"}
           /\ \A s \in Steers, k \in Kinds : Sent(r, 1, k, s) /\ k # "pending" => told'[s] = k
<1>1. outbox[r] \in Seq(Event) /\ outbox[r] # <<>> /\
        \A q \in Responses : outbox[q] \in Seq(Event)
  BY DEF TypeOK, Emit
<1>2. outbox'[r] = Tail(outbox[r]) /\ \A q \in Responses : q # r => outbox'[q] = outbox[q]
  BY DEF TypeOK, Emit
<1>3. PICK h : h = outbox[r][1]
  OBVIOUS
<1>4. \A s \in Steers : told'[s] = IF s \in h.steer /\
        h.kind # "pending" THEN h.kind ELSE told[s]
  BY <1>1, <1>3 DEF Emit
<1>5. 1 \in DOMAIN outbox[r]
  BY <1>1, TailSays
<1>6. h = Barrier \/ \E k \in Kinds, s \in Steers : h = [kind |-> k, steer |-> {s}]
  <2>1. h = Barrier \/ \E k \in Kinds, s \in Steers : Sent(r, 1, k, s)
    BY <1>3, <1>5 DEF FateInv, OutboxInv
  <2> QED BY <1>3, <2>1 DEF Sent, Says
<1>7. \A k, s : Sent(r, 1, k, s) <=> h = [kind |-> k, steer |-> {s}]
  BY <1>3, <1>5 DEF Sent, Says
<1>8. ASSUME NEW s \in Steers
      PROVE  \/ told'[s] = told[s]
             \/ h = [kind |-> told'[s], steer |-> {s}] /\ told'[s] \in Kinds \ {"pending"}
  <2>1. CASE h = Barrier
    BY <1>4, <2>1 DEF Barrier
  <2>2. ASSUME NEW k \in Kinds, NEW u \in Steers, h = [kind |-> k, steer |-> {u}]
        PROVE  \/ told'[s] = told[s]
               \/ h = [kind |-> told'[s], steer |-> {s}] /\ told'[s] \in Kinds \ {"pending"}
    <3>1. CASE u = s /\ k # "pending"
      <4>1. told'[s] = k
        BY <1>4, <2>2, <3>1
      <4> QED BY ONLY <2>2, <3>1, <4>1, k \in Kinds
    <3>2. CASE ~(u = s /\ k # "pending")
      BY <1>4, <2>2, <3>2
    <3> QED BY <3>1, <3>2
  <2> QED BY <1>6, <2>1, <2>2
<1>9. \A s \in Steers, k \in Kinds : h = [kind |-> k, steer |-> {s}] /\ k # "pending" =>
        told'[s] = k
  BY <1>4
<1>10. /\ \A q \in Responses : \A i \in DOMAIN outbox'[q] :
            \/ q # r /\ i \in DOMAIN outbox[q] /\ outbox'[q][i] = outbox[q][i]
            \/ /\ q = r /\ i + 1 \in DOMAIN outbox[q] /\ outbox'[q][i] = outbox[q][i + 1]
               /\ i \in Nat /\ i + 1 # 1
       /\ \A q \in Responses : \A i \in DOMAIN outbox[q] :
            \/ q # r /\ i \in DOMAIN outbox'[q] /\ outbox'[q][i] = outbox[q][i]
            \/ /\ q = r /\ i # 1 /\ i - 1 \in DOMAIN outbox'[q]
               /\ outbox'[q][i - 1] = outbox[q][i]
            \/ q = r /\ i = 1
  <2>1. /\ \A i \in DOMAIN outbox'[r] :
             i + 1 \in DOMAIN outbox[r] /\ outbox'[r][i] = outbox[r][i + 1] /\
               i \in Nat /\ i + 1 # 1
        /\ \A i \in DOMAIN outbox[r] :
             i # 1 => i - 1 \in DOMAIN outbox'[r] /\ outbox'[r][i - 1] = outbox[r][i]
    BY <1>1, <1>2, TailSays
  <2> QED BY ONLY <1>2, <2>1
<1>11. \A q \in Responses : DOMAIN outbox[q] \subseteq Nat /\ Len(outbox'[q]) <= Len(outbox[q])
  <2>1. \A v \in Seq(Event) : DOMAIN v \subseteq Nat /\ Len(v) \in Nat
    OBVIOUS
  <2>2. \A n \in Nat : n <= n
    OBVIOUS
  <2> QED BY <1>1, <1>2, <2>1, <2>2, TailSays
<1> QED BY <1>7, <1>8, <1>9, <1>10, <1>11

(* A worker emits the first outcome that waits at r.                       *)
LEMMA EmitStep ==
    ASSUME TypeOK, FateInv, NEW r \in Responses, Emit(r)
    PROVE  FateInv'
<1>i. CarryInv /\ HeldInv /\ AppliedInv /\ OutboxInv /\ AckInv
  BY DEF FateInv
<1>h. \A q \in Responses : Held(q) \subseteq Steers /\ Carried(q) \subseteq Steers
  BY HeldSteers
<1>u. UNCHANGED <<run, target, tasks, fate>>
  BY DEF Emit, laneVars
<1>c. /\ \A q \in Responses : Carried(q)' = Carried(q) /\ (Terminal(q)' <=> Terminal(q))
      /\ \A q \in Responses : Held(q)' = Held(q)
      /\ \A p, q, S : Claim(p, q, S)' <=> Claim(p, q, S)
      /\ \A q, s : Applies(q, s)' <=> Applies(q, s)
  <2>1. \A q \in Responses : Carried(q)' = Carried(q) /\ (Terminal(q)' <=> Terminal(q))
    BY <1>u DEF Carried, Terminal
  <2>2. \A q \in Responses : Held(q)' = Held(q)
    BY <1>u DEF Held, Entries
  <2>3. \A p, q, S : Claim(p, q, S)' <=> Claim(p, q, S)
    BY <1>u DEF Claim
  <2>4. \A q, s : Applies(q, s)' <=> Applies(q, s)
    BY <1>u DEF Applies, Carried
  <2> QED BY <2>1, <2>2, <2>3, <2>4
<1>d. \A q, i, k, s : /\ Sent(q, i, k, s) => i \in DOMAIN outbox[q]
                      /\ Sent(q, i, k, s)' => i \in DOMAIN outbox'[q]
  BY DEF Sent, Says
<1>f. /\ \A q \in Responses : \A i, k, s : Sent(q, i, k, s)' =>
           \/ q # r /\ Sent(q, i, k, s)
           \/ q = r /\ Sent(q, i + 1, k, s) /\ i \in Nat /\ i + 1 # 1
      /\ \A q \in Responses : \A i, k, s : Sent(q, i, k, s) =>
           \/ q # r /\ Sent(q, i, k, s)'
           \/ q = r /\ i # 1 /\ Sent(q, i - 1, k, s)'
           \/ q = r /\ i = 1
  BY EmitSays DEF Sent, Says
<1>t. /\ \A s \in Steers : \/ told'[s] = told[s]
                           \/ Sent(r, 1, told'[s], s) /\ told'[s] \in Kinds \ {"pending"}
      /\ \A s \in Steers, k \in Kinds : Sent(r, 1, k, s) /\ k # "pending" => told'[s] = k
  BY EmitSays
<1>m. \A q \in Responses : DOMAIN outbox[q] \subseteq Nat /\ Len(outbox'[q]) <= Len(outbox[q])
  BY EmitSays
<1>k. {"accepted", "failed", "rejected"} \subseteq Kinds /\
  "pending" \notin {"accepted", "failed", "rejected"}
  BY DEF Kinds
<1>o. \A s \in Steers, q \in Responses, k \in Kinds : \A i \in DOMAIN outbox[q] :
        Sent(q, i, k, s) => fate[s] = IF k = "rejected" THEN "refused" ELSE "owned"
  BY <1>i DEF OutboxInv
<1>2. CarryInv'
  BY <1>i, <1>c, <1>u DEF CarryInv
<1>r. ASSUME NEW s \in Steers PROVE Returned(s)' <=> Returned(s)
  <2>1. CASE Returned(s)
    <3>1. CASE told[s] = "failed"
      <4>1. fate[s] = "owned"
        BY <1>i, <3>1 DEF OutboxInv
      <4>2. ~Sent(r, 1, "rejected", s)
        BY <1>d, <1>k, <1>o, <4>1
      <4>3. ~Sent(r, 1, "accepted", s)
        BY <1>i, <1>d, <3>1 DEF OutboxInv
      <4>4. told'[s] = "failed"
        BY <1>t, <3>1, <4>2, <4>3 DEF Kinds
      <4> QED BY <2>1, <4>4, ReturnedSent
    <3>2. ASSUME NEW q \in Responses, NEW i \in DOMAIN outbox[q], Sent(q, i, "failed", s)
          PROVE  Returned(s)'
      <4>1. CASE q = r /\ i = 1
        BY <1>k, <1>t, <3>2, <4>1, ReturnedSent
      <4>2. CASE ~(q = r /\ i = 1)
        BY <1>d, <1>f, <3>2, <4>2, ReturnedSent
      <4> QED BY <4>1, <4>2
    <3> QED BY <2>1, <3>1, <3>2, ReturnedSent
  <2>2. CASE Returned(s)'
    <3>1. CASE told'[s] = "failed"
      BY <1>d, <1>t, <3>1, ReturnedSent
    <3>2. ASSUME NEW q \in Responses, NEW i \in DOMAIN outbox'[q], Sent(q, i, "failed", s)'
          PROVE  Returned(s)
      BY <1>d, <1>f, <3>2, ReturnedSent
    <3> QED BY <2>2, <3>1, <3>2, ReturnedSent
  <2> QED BY <2>1, <2>2
<1>3. HeldInv'
  BY <1>i, <1>c, <1>h, <1>r, <1>u DEF HeldInv, HeldOK
<1>4. AppliedInv'
  BY <1>i, <1>c, <1>r, <1>u DEF AppliedInv
<1>5. OutboxInv'
  <2>1. ASSUME NEW q \in Responses, NEW i \in DOMAIN outbox'[q]
        PROVE  outbox'[q][i] = Barrier \/ \E k \in Kinds, s \in Steers : Sent(q, i, k, s)'
    <3>1. PICK j \in DOMAIN outbox[q] : outbox'[q][i] = outbox[q][j]
      BY EmitSays
    <3>2. outbox[q][j] = Barrier \/ \E k \in Kinds, s \in Steers : Sent(q, j, k, s)
      BY <1>i DEF OutboxInv
    <3>3. \A k, s : Sent(q, j, k, s) => Sent(q, i, k, s)'
      BY <3>1 DEF Sent, Says
    <3> QED BY <3>1, <3>2, <3>3
  <2>2. ASSUME NEW q \in Responses, NEW i \in DOMAIN outbox'[q], NEW k \in Kinds,
                 NEW s \in Steers,
               Sent(q, i, k, s)'
        PROVE  fate'[s] = IF k = "rejected" THEN "refused" ELSE "owned"
    BY <1>d, <1>f, <1>o, <1>u, <2>2
  <2>3. ASSUME NEW s \in Steers, told'[s] # "nothing"
        PROVE  fate'[s] = IF told'[s] = "rejected" THEN "refused" ELSE "owned"
    <3>1. CASE told'[s] = told[s]
      BY <1>i, <1>u, <2>3, <3>1 DEF OutboxInv
    <3>2. CASE told'[s] # told[s]
      BY <1>d, <1>o, <1>t, <1>u, <3>2
    <3> QED BY <3>1, <3>2
  <2>4. ASSUME NEW s \in Steers, NEW q \in Responses, NEW i \in DOMAIN outbox'[q],
               Sent(q, i, "accepted", s)'
        PROVE  /\ told'[s] = "nothing"
               /\ \A p \in Responses : \A j \in DOMAIN outbox'[p] :
                    Sent(p, j, "accepted", s)' \/ Sent(p, j, "failed", s)' => p = q /\ i <= j
    <3>1. PICK m \in DOMAIN outbox[q] :
            /\ Sent(q, m, "accepted", s) /\ (q = r => m # 1 /\ m = i + 1) /\ (q # r => m = i)
      BY <1>d, <1>f, <2>4
    <3>2. /\ told[s] = "nothing" /\ fate[s] = "owned"
          /\ \A p \in Responses : \A j \in DOMAIN outbox[p] :
               Sent(p, j, "accepted", s) \/ Sent(p, j, "failed", s) => p = q /\ m <= j
      BY <1>i, <1>k, <1>o, <3>1 DEF OutboxInv
    <3>3. m \in Nat /\ i \in Nat
      BY <1>f, <1>m, <2>4, <3>1
    <3>4. ~Sent(r, 1, "accepted", s) /\ ~Sent(r, 1, "failed", s)
      <4>1. Sent(r, 1, "accepted", s) \/ Sent(r, 1, "failed", s) => r = q /\ m <= 1
        BY <1>d, <3>2
      <4>2. q = r => m > 1
        BY <3>1, <3>3, <1>f, <2>4
      <4> QED BY <3>3, <4>1, <4>2
    <3>5. ~Sent(r, 1, "rejected", s)
      BY <1>d, <1>k, <1>o, <3>2
    <3>6. told'[s] = "nothing"
      BY <1>t, <3>2, <3>4, <3>5 DEF Kinds
    <3>7. ASSUME NEW p \in Responses, NEW j \in DOMAIN outbox'[p],
                 Sent(p, j, "accepted", s)' \/ Sent(p, j, "failed", s)'
          PROVE  p = q /\ i <= j
      <4>1. PICK n \in DOMAIN outbox[p] :
              /\ Sent(p, n, "accepted", s) \/ Sent(p, n, "failed", s)
              /\ (p = r => n = j + 1 /\ j \in Nat) /\ (p # r => n = j)
        BY <1>d, <1>f, <3>7
      <4>2. p = q /\ m <= n
        BY <3>2, <4>1
      <4>3. n \in Nat
        BY <1>m
      <4> QED BY <3>1, <3>3, <4>1, <4>2, <4>3
    <3> QED BY <3>6, <3>7
  <2>5. ASSUME NEW q \in Responses, target'[q].phase = "Running"
        PROVE  Len(outbox'[q]) <= MaxOutcomes
    <3>1. Len(outbox[q]) <= MaxOutcomes /\ Len(outbox'[q]) <= Len(outbox[q])
      BY <1>i, <1>m, <1>u, <2>5 DEF OutboxInv
    <3>2. outbox[q] \in Seq(Event) /\ outbox'[q] \in Seq(Event)
      <4>1. outbox[r] # <<>> /\ outbox' = [outbox EXCEPT ![r] = Tail(@)]
        BY DEF Emit
      <4>2. \A v \in Seq(Event) : v # <<>> => Tail(v) \in Seq(Event)
        OBVIOUS
      <4> QED BY <4>1, <4>2 DEF TypeOK
    <3>3. \A v \in Seq(Event) : Len(v) \in Nat
      OBVIOUS
    <3> QED BY <3>1, <3>2, <3>3, Limits
  <2> QED BY <2>1, <2>2, <2>3, <2>4, <2>5 DEF OutboxInv, Barrier
<1>6. AckInv'
  <2>1. ASSUME NEW q \in Responses, NEW s \in Held(q)' PROVE AckOK(q, s)'
    <3>1. s \in Held(q) /\ s \in Steers /\ HeldOK(q, s) /\ AckOK(q, s)
      BY <1>i, <1>c, <1>h, <2>1 DEF HeldInv, AckInv
    <3>2. ~Sent(r, 1, "failed", s) /\ ~Sent(r, 1, "rejected", s)
      <4>1. fate[s] = "owned" /\ ~Returned(s)
        BY <3>1 DEF HeldOK
      <4>2. ~Sent(r, 1, "failed", s)
        BY <1>d, <4>1, ReturnedSent
      <4>3. ~Sent(r, 1, "rejected", s)
        <5>1. Sent(r, 1, "rejected", s) => fate[s] = "refused"
          BY <1>d, <1>k, <1>o, <3>1
        <5> QED BY <4>1, <5>1
      <4> QED BY <4>2, <4>3
    <3>3. told[s] = "accepted" => told'[s] = "accepted"
      BY <1>t, <3>1, <3>2 DEF Kinds
    <3>4. ASSUME NEW i \in DOMAIN outbox[q], Sent(q, i, "accepted", s)
          PROVE  \/ told'[s] = "accepted"
                 \/ q # r /\ Sent(q, i, "accepted", s)'
                 \/ q = r /\ i # 1 /\ Sent(q, i - 1, "accepted", s)'
      BY <1>f, <1>k, <1>t, <3>1, <3>4
    <3>5. told'[s] = "accepted" \/ \E i \in DOMAIN outbox'[q] : Sent(q, i, "accepted", s)'
      BY <1>d, <3>1, <3>3, <3>4 DEF AckOK
    <3>6. ASSUME NEW u \in Responses, Claim(q, u, {"flush"})'
          PROVE  \/ told'[s] = "accepted"
                 \/ \E i, j \in DOMAIN outbox'[q] :
                      i < j /\ Sent(q, i, "accepted", s)' /\ outbox'[q][j] = Barrier
      <4>1. CASE told[s] = "accepted"
        BY <3>3, <4>1
      <4>2. CASE told'[s] # "accepted"
        <5>1. PICK i \in DOMAIN outbox[q], j \in DOMAIN outbox[q] :
                i < j /\ Sent(q, i, "accepted", s) /\ outbox[q][j] = Barrier
          BY <1>c, <3>1, <3>3, <3>6, <4>2 DEF AckOK
        <5>2. i \in Nat /\ j \in Nat
          BY <1>m
        <5>3. CASE q # r
          BY <1>d, <3>4, <4>2, <5>1, <5>3, EmitSays
        <5>4. CASE q = r
          <6>1. /\ i # 1 /\ Sent(q, i - 1, "accepted", s)' /\ i - 1 \in DOMAIN outbox'[q]
            BY <1>d, <3>4, <4>2, <5>1, <5>4
          <6>2. j # 1
            <7>1. \A v \in Seq(Event) : \A n \in DOMAIN v : n >= 1
              OBVIOUS
            <7>2. i >= 1
              BY <7>1 DEF TypeOK
            <7> QED BY <5>1, <5>2, <7>2
          <6>3. j - 1 \in DOMAIN outbox'[q] /\ outbox'[q][j - 1] = Barrier
            BY <5>1, <5>4, <6>2, EmitSays
          <6>4. i - 1 < j - 1
            BY <5>1, <5>2
          <6> QED BY <6>1, <6>3, <6>4
        <5> QED BY <5>3, <5>4
      <4> QED BY <4>1, <4>2
    <3>7. ASSUME NEW u \in Responses, Claim(q, u, Acknowledged)' PROVE told'[s] = "accepted"
      BY <1>c, <3>1, <3>3, <3>7 DEF AckOK
    <3> QED BY <3>5, <3>6, <3>7 DEF AckOK, Barrier
  <2> QED BY <2>1 DEF AckInv
<1> QED BY <1>2, <1>3, <1>4, <1>5, <1>6 DEF FateInv

-----------------------------------------------------------------------------
(* What the steps of tasks do to reservations and targets *)

Seals(r) ==
    /\ target[r].phase = "Reserved" =>
         \/ target'[r].phase = "Reserved" /\ target'[r].batch = target[r].batch
         \/ target'[r].phase = "Closed"
    /\ target[r].phase = "Closed" => target'[r].phase = "Closed"

(* What is to be shown of every step.                                      *)
StepOK == FateInv' /\ ToldBeforeCreated /\ KeepsSealed

(* A step that keeps the invariant, seals and creates nothing is fine.     *)
LEMMA StepIs ==
    ASSUME FateInv', \A r \in Responses : Seals(r),
           \A r \in Responses : run'[r].created => run[r].created
    PROVE  StepOK
BY DEF StepOK, ToldBeforeCreated, KeepsSealed, Seals

(* A target that keeps its batch keeps what it holds.                      *)
LEMMA SameBatch ==
    ASSUME NEW p, target'[p].batch = target[p].batch,
           \/ target'[p].phase = target[p].phase
           \/ target[p].phase = "Ready" /\ target'[p].phase = "Closed"
    PROVE  HeldKept(p) /\ Seals(p)
BY DEF HeldKept, Held, Entries, Seals

(* Targets that stay keep what they hold and their seals.                  *)
LEMMA SameTargets ==
    ASSUME UNCHANGED target PROVE \A p \in Responses : HeldKept(p) /\ Seals(p)
BY SameBatch

(* Executions that stay keep what they carry; none is created.             *)
LEMMA SameRuns ==
    ASSUME UNCHANGED run
    PROVE  RunsKept /\ \A r \in Responses : run'[r].created => run[r].created
BY DEF RunsKept, Carried, Terminal

(* What ends an execution, or loses its relay, takes nothing from it.      *)
LEMMA RunMoves ==
    ASSUME TypeOK, NEW x \in Responses, NEW e \in {"gated", "running", "committed",
             "failed", "aborted"},
           run[x].exec \in {"none", "gated", "running"},
           \/ run' = [run EXCEPT ![x].exec = e]
           \/ \E need : run' = [run EXCEPT ![x].exec = e, ![x].need = need]
    PROVE  RunsKept /\ \A r \in Responses : run'[r].created => run[r].created
<1>1. ASSUME NEW r \in Responses
      PROVE  /\ run'[r].carries = run[r].carries /\ run'[r].created = run[r].created
             /\ run'[r].exec = run[r].exec \/ run[r].exec \in {"none", "gated", "running"}
  <2>1. run \in [Responses -> Run] /\ run[x] \in Run
    BY DEF TypeOK
  <2>2. CASE run' = [run EXCEPT ![x].exec = e]
    BY <2>1, <2>2 DEF Run
  <2>3. ASSUME NEW need, run' = [run EXCEPT ![x].exec = e, ![x].need = need]
        PROVE  /\ run'[r].carries = run[r].carries /\ run'[r].created = run[r].created
               /\ run'[r].exec = run[r].exec \/ run[r].exec \in {"none", "gated", "running"}
    BY <2>1, <2>3 DEF Run
  <2> QED BY <2>2, <2>3
<1> QED BY <1>1 DEF RunsKept, Carried, Terminal

(* Reservations stay when the tasks that hold them do.                     *)
LEMMA SameClaims ==
    ASSUME \A t : t.pc \in Reserving => (t \in tasks' <=> t \in tasks)
    PROVE  \A p \in Responses : Advance(p)
<1>1. \A p, r : \A S \in SUBSET Reserving : Claim(p, r, S)' <=> Claim(p, r, S)
  BY DEF Claim
<1>2. {{"flush"}, Acknowledged, Reserving, Late} \subseteq SUBSET Reserving
  BY DEF Reserving, Acknowledged, Late
<1> QED BY <1>1, <1>2 DEF Advance

(* Only one task of the target's lane reserves it.                         *)
LEMMA ClaimLane ==
    ASSUME LaneInv, TaskInv, NEW t \in tasks, NEW p, target[p].lane = t.work.lane,
           NEW v \in tasks, p \in v.work.parent
    PROVE  v = t
BY DEF TaskInv, TaskOK, WorkOK, LaneInv, LaneSerial

(* A task that leaves its reservation.                                     *)
LEMMA Leaves ==
    ASSUME TypeOK, LaneInv, TaskInv, NEW t \in tasks, NEW u, Become(t, u),
             u.pc \notin Reserving
    PROVE  /\ \A q \in Responses : t.pc \notin Reserving \/ q \notin t.work.parent =>
                Advance(q)
           /\ \A q \in Responses :
                (t.pc \in Reserving => \A r \in t.resp : t.pc = "flush" /\
                  Terminal(r)') => Advance(q)
           /\ \A p, r \in Responses : target[p].lane = t.work.lane =>
                /\ ~Claim(p, r, Reserving)'
                /\ \A S \in SUBSET Reserving :
                     Claim(p, r, S) => t.pc \in S /\ p \in t.work.parent /\ r \in t.resp
<1>1. \A v : v \in tasks' <=> (v \in tasks /\ v # t) \/ v = u
  BY DEF Become
<1>2. {{"flush"}, Acknowledged, Reserving, Late} \subseteq SUBSET Reserving /\
        "flush" \notin Late
  BY DEF Reserving, Acknowledged, Late
<1>3. \A p, r : \A S \in SUBSET Reserving : Claim(p, r, S)' => Claim(p, r, S)
  BY <1>1 DEF Claim
<1>4. \A p, r : \A S \in SUBSET Reserving :
        Claim(p, r, S) => Claim(p, r, S)' \/ (t.pc \in S /\ p \in t.work.parent /\
          r \in t.resp)
  BY <1>1 DEF Claim
<1>5. ASSUME NEW q \in Responses, t.pc \notin Reserving \/ q \notin t.work.parent
      PROVE  Advance(q)
  BY <1>2, <1>3, <1>4, <1>5 DEF Advance
<1>6. ASSUME NEW q \in Responses,
             t.pc \in Reserving => \A r \in t.resp : t.pc = "flush" /\ Terminal(r)'
      PROVE  Advance(q)
  <2>1. ASSUME NEW r \in Responses, Claim(q, r, Reserving)
        PROVE  Claim(q, r, Reserving)' \/ Terminal(r)'
    BY <1>2, <1>4, <1>6, <2>1
  <2>2. ASSUME NEW r \in Responses, Claim(q, r, Late) PROVE Claim(q, r, Late)'
    BY <1>2, <1>4, <1>6, <2>2
  <2> QED BY <1>2, <1>3, <2>1, <2>2 DEF Advance
<1>7. ASSUME NEW p \in Responses, NEW r \in Responses, target[p].lane = t.work.lane
      PROVE  /\ ~Claim(p, r, Reserving)'
             /\ \A S \in SUBSET Reserving :
                  Claim(p, r, S) => t.pc \in S /\ p \in t.work.parent /\ r \in t.resp
  <2>1. \A v \in tasks : p \in v.work.parent => v = t
    BY <1>7, ClaimLane
  <2>2. ~Claim(p, r, Reserving)'
    BY <1>1, <2>1 DEF Claim
  <2>3. \A S \in SUBSET Reserving :
          Claim(p, r, S) => t.pc \in S /\ p \in t.work.parent /\ r \in t.resp
    BY <2>1 DEF Claim
  <2> QED BY <2>2, <2>3
<1> QED BY <1>5, <1>6, <1>7

(* A task moves on without a reservation.                                  *)
LEMMA QuietTask ==
    ASSUME TypeOK, FateInv, NEW t \in tasks, NEW u, Become(t, u),
           t.pc \notin Reserving, u.pc \notin Reserving,
           UNCHANGED <<run, target, outbox, told, fate>>
    PROVE  StepOK
<1>1. \A p \in Responses : Advance(p)
  <2>1. \A v : v.pc \in Reserving => (v \in tasks' <=> v \in tasks)
    BY DEF Become
  <2> QED BY <2>1, SameClaims
<1> QED BY <1>1, SameTargets, SameRuns, QuietStep, StepIs

(* What closing a target does.                                             *)
LEMMA ClosesFacts ==
    ASSUME TypeOK, NEW p \in Responses, target' = [target EXCEPT ![p] = Closed(@)]
    PROVE  /\ Held(p)' = {} /\ target'[p].phase = "Closed"
           /\ \A q \in Responses \ {p} : HeldKept(q)
           /\ \A q \in Responses : Seals(q)
<1>1. /\ target'[p].phase = "Closed" /\ target'[p].batch = {}
      /\ \A q \in Responses \ {p} : target'[q] = target[q]
  BY DEF TypeOK, Closed
<1>2. Held(p)' = {}
  BY <1>1 DEF Held, Entries, ToSet
<1>3. \A q \in Responses \ {p} : HeldKept(q) /\ Seals(q)
  BY <1>1, SameBatch
<1>4. Seals(p)
  BY <1>1 DEF Seals
<1> QED BY <1>1, <1>2, <1>3, <1>4

(* A task fails a target of its lane.                                      *)
LEMMA FailTask ==
    ASSUME Inv, FateInv, NEW t \in tasks, NEW u, Become(t, u), u.pc \notin Reserving,
           NEW p \in Responses, target[p].lane = t.work.lane, FailSuccessor(p),
           UNCHANGED <<told, fate>>, RunsKept,
           t.pc \in Reserving => /\ t.work.parent = {p}
                                 /\ \A r \in t.resp : Terminal(r)' /\ ~run[r].created
    PROVE  StepOK
<1>i. TypeOK /\ LaneInv /\ TaskInv
  BY DEF Inv
<1>1. Grows(p, Failures(target[p])) /\ target' = [target EXCEPT ![p] = Closed(@)]
  BY DEF FailSuccessor, Grows
<1>2. /\ Held(p)' = {} /\ target'[p].phase = "Closed"
      /\ \A q \in Responses \ {p} : HeldKept(q)
      /\ \A q \in Responses : Seals(q)
  BY <1>i, <1>1, ClosesFacts
<1>3. \A q \in Responses \ {p} : Advance(q)
  BY <1>i, Leaves
<1>4. \A r \in Responses : ~Claim(p, r, Reserving)'
  BY <1>i, Leaves
<1>5. /\ \A r \in Responses : Claim(p, r, Reserving) => t.pc \in Reserving /\ r \in t.resp
      /\ \A r \in Responses : Claim(p, r, Late) => t.pc \in Reserving /\ r \in t.resp
  <2>1. Late \subseteq Reserving
    BY DEF Late, Reserving
  <2> QED BY <1>i, <2>1, Leaves
<1>6. FateInv'
  BY <1>i, <1>1, <1>2, <1>3, <1>4, <1>5, FailStep
<1> QED BY <1>2, <1>6, StepIs DEF RunsKept

(* A task commits the successor it published.                              *)
LEMMA CommitTask ==
    ASSUME Inv, FateInv, NEW t \in tasks, NEW u, Become(t, u), u.pc \notin Reserving,
           t.pc \in Late, NEW p \in Responses, t.work.parent = {p},
           NEW r \in Responses, t.resp = {r}, run[r].created,
           CommitSuccessor(p), UNCHANGED <<run, outbox, told, fate>>
    PROVE  StepOK
<1>i. TypeOK /\ LaneInv /\ TaskInv /\ target[p].lane = t.work.lane
  BY DEF Inv, TaskInv, TaskOK, WorkOK
<1>l. Late \subseteq Reserving
  BY DEF Late, Reserving
<1>1. /\ Held(p)' = {} /\ target'[p].phase = "Closed"
      /\ \A q \in Responses \ {p} : HeldKept(q)
      /\ \A q \in Responses : Seals(q)
  BY <1>i, ClosesFacts DEF CommitSuccessor
<1>2. \A q \in Responses \ {p} : Advance(q)
  BY <1>i, Leaves
<1>3. \A x \in Responses : ~Claim(p, x, Reserving)' /\ (Claim(p, x, Reserving) => x = r)
  BY <1>i, Leaves
<1>4. Claim(p, r, Late)
  BY DEF Claim
<1>5. RunsKept /\ \A x \in Responses : run'[x].created => run[x].created
  BY SameRuns
<1>6. FateInv'
  BY <1>i, <1>1, <1>2, <1>3, <1>4, <1>5, CommitStep
<1> QED BY <1>1, <1>5, <1>6, StepIs

(* A task goes on with its reservation: the barrier was reached, its route *)
(* registered, or it gave up waiting for the creation.                     *)
LEMMA OnwardTask ==
    ASSUME NEW t \in tasks, NEW u, Become(t, u), u.work = t.work, u.resp = t.resp,
           \/ t.pc = "flush" /\ u.pc = "register" /\ \A p \in t.work.parent : Flushed(p)
           \/ t.pc = "register" /\ u.pc = "publish"
           \/ t.pc = "publish" /\ u.pc = "cancelled"
           \/ t.work.parent = {}
    PROVE  \A p \in Responses : Advance(p)
<1>1. \A v : v \in tasks' <=> (v \in tasks /\ v # t) \/ v = u
  BY DEF Become
<1>2. ASSUME NEW p \in Responses, NEW r \in Responses
      PROVE  /\ Claim(p, r, {"flush"})' => Claim(p, r, {"flush"})
             /\ Claim(p, r, Acknowledged)' =>
                  Claim(p, r, Acknowledged) \/ (Claim(p, r, {"flush"}) /\ Flushed(p))
             /\ Claim(p, r, Reserving) => Claim(p, r, Reserving)'
             /\ Claim(p, r, Late) => Claim(p, r, Late)'
  <2>1. Claim(p, r, {"flush"})' => Claim(p, r, {"flush"})
    BY <1>1 DEF Claim
  <2>2. Claim(p, r, Acknowledged)' =>
          Claim(p, r, Acknowledged) \/ (Claim(p, r, {"flush"}) /\ Flushed(p))
    BY <1>1 DEF Claim, Acknowledged
  <2>3. Claim(p, r, Reserving) => Claim(p, r, Reserving)'
    BY <1>1 DEF Claim, Reserving
  <2>4. Claim(p, r, Late) => Claim(p, r, Late)'
    BY <1>1 DEF Claim, Late
  <2> QED BY <2>1, <2>2, <2>3, <2>4
<1> QED BY <1>2 DEF Advance

-----------------------------------------------------------------------------
(* The steps of a task *)

(* The body of a task returns an error.                                    *)
LEMMA ErrorsStep ==
    ASSUME Inv, FateInv, NEW t \in tasks, NEW f \in BOOLEAN, Errors(t, f),
             UNCHANGED <<told, fate>>,
           \/ run' = run /\ t.pc \notin Reserving
           \/ t.pc = "flush" /\ \E x \in t.resp : run' = [run EXCEPT ![x].exec = "failed"]
    PROVE  StepOK
<1>i. TypeOK /\ LaneInv /\ TaskInv /\ RunInv
  BY DEF Inv
<1>1. t \in Task /\ TaskOK(t) /\ t.resp \subseteq Responses /\
        t.work.parent \subseteq Responses
  BY <1>i, TaskFacts
<1>2. /\ RunsKept /\ \A r \in Responses : run'[r].created => run[r].created
      /\ t.pc \in Reserving =>
           t.pc = "flush" /\ \A r \in t.resp : Terminal(r)' /\ ~run[r].created
  <2>1. CASE run' = run /\ t.pc \notin Reserving
    BY <2>1, SameRuns
  <2>2. ASSUME t.pc = "flush", NEW x \in t.resp, run' = [run EXCEPT ![x].exec = "failed"]
        PROVE  /\ RunsKept /\ \A r \in Responses : run'[r].created => run[r].created
               /\ t.pc \in Reserving =>
                    t.pc = "flush" /\ \A r \in t.resp : Terminal(r)' /\ ~run[r].created
    <3>1. x \in Responses /\ t.resp = {x} /\ run[x].exec = "gated"
      BY <1>1, <2>2 DEF TaskOK, Option
    <3>2. ~run[x].created
      BY <1>i, <3>1 DEF RunInv
    <3>3. Terminal(x)'
      BY <1>i, <2>2, <3>1 DEF Terminal, TypeOK, Run
    <3>4. run[x].exec \in {"none", "gated", "running"}
      BY <3>1
    <3>5. "failed" \in {"gated", "running", "committed", "failed", "aborted"}
      OBVIOUS
    <3>6. RunsKept /\ \A r \in Responses : run'[r].created => run[r].created
      BY <1>i, <2>2, <3>1, <3>4, <3>5, RunMoves
    <3> QED BY <2>2, <3>1, <3>2, <3>3, <3>6
  <2> QED BY <2>1, <2>2
<1>3. CASE t.work.auto
  <2> DEFINE u == [t EXCEPT !.pc = "failing", !.wait = t.work.parent, !.fatal = TRUE]
             p == The(t.work.parent)
  <2>1. p \in Responses /\ t.work.parent = {p}
    BY <1>i, <1>3, TaskHas
  <2>2. FailSuccessor(p) /\ Become(t, u) /\ u.pc \notin Reserving
    BY <1>1, <1>3 DEF Errors, Task, Reserving
  <2>3. target[p].lane = t.work.lane
    BY <1>i, <2>1, TaskFacts
  <2> HIDE DEF u, p
  <2> QED BY <1>2, <2>1, <2>2, <2>3, FailTask
<1>4. CASE ~t.work.auto
  <2> DEFINE u == [t EXCEPT !.pc = "done", !.fatal = f]
  <2>1. Become(t, u) /\ u.pc \notin Reserving /\ UNCHANGED <<target, outbox>>
    BY <1>1, <1>4 DEF Errors, Task, Reserving
  <2> HIDE DEF u
  <2>2. \A p \in Responses : Advance(p)
    BY <1>i, <1>2, <2>1, Leaves
  <2>3. \A p \in Responses : HeldKept(p) /\ Seals(p)
    BY <2>1, SameTargets
  <2>4. FateInv'
    BY <1>i, <1>2, <2>1, <2>2, <2>3, QuietStep
  <2> QED BY <1>2, <2>3, <2>4, StepIs
<1> QED BY <1>3, <1>4

(* What a task becomes when only its step changes.                         *)
LEMMA GotoFacts ==
    ASSUME TypeOK, NEW t \in tasks, NEW pc
    PROVE  /\ [t EXCEPT !.pc = pc].pc = pc /\ [t EXCEPT !.pc = pc].work = t.work
           /\ [t EXCEPT !.pc = pc].resp = t.resp
           /\ \A e : [t EXCEPT !.pc = pc, !.snap = e].pc = pc
           /\ \A w, f : [t EXCEPT !.pc = pc, !.wait = w, !.fatal = f].pc = pc
           /\ \A f : [t EXCEPT !.pc = pc, !.fatal = f].pc = pc
           /\ \A r : /\ [t EXCEPT !.pc = pc, !.resp = {r}].pc = pc
                     /\ [t EXCEPT !.pc = pc, !.resp = {r}].work = t.work
                     /\ [t EXCEPT !.pc = pc, !.resp = {r}].resp = {r}
BY DEF TypeOK, Task

(* A task that moves on before it reserved, and changes nothing else.      *)
LEMMA GotoStep ==
    ASSUME Inv, FateInv, NEW t \in tasks, NEW pc, Goto(t, pc), pc \notin Reserving,
           t.pc \notin Reserving, UNCHANGED <<run, target, outbox, told, fate>>
    PROVE  StepOK
<1>1. TypeOK
  BY DEF Inv
<1>2. PICK u : u = [t EXCEPT !.pc = pc]
  OBVIOUS
<1>3. Become(t, u) /\ u.pc \notin Reserving
  BY <1>1, <1>2, GotoFacts DEF Goto
<1> QED BY <1>1, <1>3, QuietTask

(* A spawned task is dispatched.                                           *)
LEMMA DispatchStep ==
    ASSUME Inv, FateInv, NEW t \in tasks, Dispatch(t)
    PROVE  StepOK
<1>1. \E pc \in {"done", "fresh", "prepare"} : Goto(t, pc)
  BY DEF Dispatch
<1>2. {"done", "fresh", "prepare", "spawned"} \cap Reserving = {} /\ t.pc = "spawned"
  BY DEF Reserving, Dispatch
<1> QED BY <1>1, <1>2, GotoStep DEF Dispatch

(* An execution that was not started carries nothing.                      *)
LEMMA NotStarted ==
    ASSUME TypeOK, TaskInv, RunInv, FateInv, NEW r \in Responses, run[r].exec = "none"
    PROVE  /\ Carried(r) = {} /\ ~run[r].created
           /\ \A p, S : ~Claim(p, r, S)
<1>1. ~run[r].created /\ ~Terminal(r)
  BY DEF RunInv, Terminal
<1>2. \A p, S : ~Claim(p, r, S)
  BY DEF Claim, TaskInv, TaskOK
<1> QED BY <1>1, <1>2 DEF FateInv, CarryInv

(* A request without a steering parent starts its execution or is refused; *)
(* it carries no update.                                                   *)
LEMMA FreshStep ==
    ASSUME Inv, FateInv, NEW t \in tasks, PrepareFresh(t)
    PROVE  StepOK
<1>i. TypeOK /\ LaneInv /\ TaskInv /\ RunInv
  BY DEF Inv
<1>1. t.pc = "fresh" /\ t.work.parent = {} /\ t.pc \notin Reserving /\ UNCHANGED <<told, fate>>
  BY <1>i, TaskFacts DEF PrepareFresh, TaskOK, Reserving
<1>2. CASE StartGated(t, "register", <<>>) /\ UNCHANGED <<target, outbox, latest>>
  <2>1. PICK r \in Responses :
          /\ run[r].exec = "none"
          /\ run' = [run EXCEPT ![r].exec = "gated", ![r].carries = <<>>]
          /\ Become(t, [t EXCEPT !.pc = "register", !.resp = {r}])
    BY <1>2 DEF StartGated, NextResponse
  <2>2. PICK u : u = [t EXCEPT !.pc = "register", !.resp = {r}]
    OBVIOUS
  <2>3. Become(t, u) /\ u.work.parent = {}
    BY <1>i, <1>1, <2>1, <2>2, GotoFacts
  <2>4. \A p \in Responses : Advance(p)
    <3>1. \A v : v \in tasks' <=> (v \in tasks /\ v # t) \/ v = u
      BY <2>3 DEF Become
    <3>2. \A p, q, S : Claim(p, q, S)' <=> Claim(p, q, S)
      BY <1>1, <2>3, <3>1 DEF Claim
    <3> QED BY <3>2 DEF Advance
  <2>5. /\ run'[r].carries = <<>> /\ run'[r].created = run[r].created /\ run'[r].exec = "gated"
        /\ \A q \in Responses \ {r} : run'[q] = run[q]
    BY <1>i, <2>1 DEF TypeOK, Run
  <2>6. Carried(r)' = {} /\ Carried(r) = {} /\ ~Terminal(r)
    <3>1. ToSet(<<>>) = {}
      BY DEF ToSet
    <3> QED BY <1>i, <2>1, <2>5, <3>1, NotStarted DEF Carried, Terminal
  <2>7. RunsKept /\ \A q \in Responses : run'[q].created => run[q].created
    BY <2>5, <2>6 DEF RunsKept, Carried, Terminal
  <2>8. \A p \in Responses : HeldKept(p) /\ Seals(p)
    BY <1>2, SameTargets
  <2>9. FateInv'
    BY <1>i, <1>1, <1>2, <2>4, <2>7, <2>8, QuietStep
  <2> QED BY <2>7, <2>8, <2>9, StepIs
<1>3. CASE Errors(t, FALSE) /\ UNCHANGED run
  BY <1>1, <1>3, ErrorsStep
<1> QED BY <1>2, <1>3 DEF PrepareFresh

(* A successor takes its snapshot, or its task ends with an error,         *)
(* returning the batch or leaving it where it is.                          *)
LEMMA PrepareStep ==
    ASSUME Inv, FateInv, NEW t \in tasks, PrepareSuccessor(t)
    PROVE  StepOK
<1>i. TypeOK
  BY DEF Inv
<1>1. t.pc = "prepare" /\ t.pc \notin Reserving /\ UNCHANGED <<run, told, fate>>
  BY DEF PrepareSuccessor, Reserving
<1>2. ASSUME NEW e, Become(t, [t EXCEPT !.pc = "preparing", !.snap = e]),
               UNCHANGED <<target, outbox>>
      PROVE  StepOK
  <2>1. PICK u : u = [t EXCEPT !.pc = "preparing", !.snap = e]
    OBVIOUS
  <2>2. Become(t, u) /\ u.pc \notin Reserving
    BY <1>i, <1>2, <2>1, GotoFacts DEF Reserving
  <2> QED BY <1>i, <1>1, <1>2, <2>2, QuietTask
<1>3. ASSUME NEW f \in BOOLEAN, Errors(t, f) PROVE StepOK
  BY <1>1, <1>3, ErrorsStep
<1>4. \A tg : (tg.phase = "Ready" /\ \A b \in tg.batch : b.pin # "none") \in BOOLEAN
  OBVIOUS
<1> QED BY <1>2, <1>3, <1>4 DEF PrepareSuccessor

(* A batch that is marked keeps its entries.                               *)
LEMMA MarkedBatch ==
    ASSUME NEW p \in Responses, target[p] \in Target, Option(target[p].batch),
           \A b \in target'[p].batch : \E c \in target[p].batch : b.entries = c.entries,
           \A c \in target[p].batch : \E b \in target'[p].batch : b.entries = c.entries
    PROVE  Held(p)' = Held(p)
<1>1. CASE target[p].batch = {}
  <2>1. target'[p].batch = {}
    BY <1>1
  <2> QED BY <1>1, <2>1 DEF Held, Entries
<1>2. CASE target[p].batch # {}
  <2>1. PICK c \in target[p].batch : TRUE
    BY <1>2
  <2>2. PICK b \in target'[p].batch : b.entries = c.entries
    BY <2>1
  <2>3. \A x \in target'[p].batch : x.entries = c.entries
    BY <2>1 DEF Option
  <2>4. Entries(target[p]) = c.entries
    BY <2>1, EntriesType
  <2>5. Entries(target'[p]) = c.entries
    BY <2>2, <2>3, TheMember DEF Entries
  <2> QED BY <2>4, <2>5 DEF Held
<1> QED BY <1>1, <1>2

(* Reserving the parent's target: the successor carries what the target    *)
(* holds, and the barrier goes behind every acceptance that waits.         *)
LEMMA ReserveTask ==
    ASSUME Inv, FateInv, TypeOK', NEW t \in tasks, ReserveSuccessor(t)
    PROVE  StepOK
<1>i. TypeOK /\ LaneInv /\ TaskInv /\ RunInv /\ TargetInv
  BY DEF Inv
<1> DEFINE p == The(t.work.parent)
<1>1. /\ t.pc = "preparing" /\ t.pc \notin Reserving /\ UNCHANGED <<told, fate>>
      /\ p \in Responses /\ t.work.parent = {p} /\ target[p].lane = t.work.lane
  BY <1>i, TaskHas, TaskFacts DEF ReserveSuccessor, Reserving
<1> HIDE DEF p
<1>2. CASE Errors(t, FALSE) /\ UNCHANGED run
  BY <1>1, <1>2, ErrorsStep
<1>3. CASE Goto(t, "prepare") /\ UNCHANGED <<target, outbox, run>>
  <2>1. "prepare" \notin Reserving
    BY DEF Reserving
  <2> QED BY <1>1, <1>3, <2>1, GotoStep
<1>4. CASE /\ target[p].phase = "Ready" /\ t.snap = Entries(target[p])
           /\ target' = [target EXCEPT ![p].phase = "Reserved",
                           ![p].batch = {[b EXCEPT !.queued = FALSE] : b \in @}]
           /\ outbox' = [outbox EXCEPT ![p] = Append(@, Barrier)]
           /\ StartGated(t, "flush", t.snap)
  <2>1. PICK r \in Responses :
          /\ run[r].exec = "none"
          /\ run' = [run EXCEPT ![r].exec = "gated", ![r].carries = t.snap]
          /\ Become(t, [t EXCEPT !.pc = "flush", !.resp = {r}])
    BY <1>4 DEF StartGated, NextResponse
  <2>2. PICK u : u = [t EXCEPT !.pc = "flush", !.resp = {r}]
    OBVIOUS
  <2>3. Become(t, u) /\ u.pc = "flush" /\ u.work = t.work /\ u.resp = {r}
    BY <1>i, <2>1, <2>2, GotoFacts
  <2>n. Carried(r) = {} /\ ~run[r].created /\ \A q, S : ~Claim(q, r, S)
    BY <1>i, <2>1, NotStarted
  <2>4. /\ run'[r].carries = Entries(target[p]) /\ run'[r].created = run[r].created
        /\ \A q \in Responses \ {r} : run'[q] = run[q]
    BY <1>i, <1>4, <2>1 DEF TypeOK, Run
  <2>5. /\ Carried(r)' = Held(p) /\ ~run'[r].created
        /\ \A q \in Responses \ {r} : /\ Carried(q)' = Carried(q)
                                      /\ run'[q].created <=> run[q].created
                                      /\ Terminal(q) => Terminal(q)'
    BY <2>4, <2>n DEF Carried, Held, Terminal
  <2>6. /\ target[p] \in Target /\ target'[p] \in Target /\ Option(target[p].batch)
        /\ target'[p].phase = "Reserved"
        /\ target'[p].batch = {[b EXCEPT !.queued = FALSE] : b \in target[p].batch}
        /\ \A q \in Responses \ {p} : target'[q] = target[q]
    <3>1. /\ target \in [Responses -> Target] /\ target' \in [Responses -> Target]
          /\ Option(target[p].batch)
      BY <1>i, <1>1 DEF TypeOK, TargetInv, TargetOK
    <3>2. PICK new : new = [target EXCEPT ![p].phase = "Reserved"]
      OBVIOUS
    <3>3. /\ new \in [Responses -> Target] /\ new[p].phase = "Reserved"
          /\ new[p].batch = target[p].batch
          /\ \A q \in Responses \ {p} : new[q] = target[q]
      BY <1>1, <3>1, <3>2 DEF Target
    <3>4. PICK B : B = {[b EXCEPT !.queued = FALSE] : b \in target[p].batch}
      OBVIOUS
    <3>5. target' = [new EXCEPT ![p].batch = B]
      BY <1>1, <1>4, <3>1, <3>2, <3>3, <3>4
    <3>6. /\ target'[p].phase = "Reserved" /\ target'[p].batch = B
          /\ \A q \in Responses \ {p} : target'[q] = target[q]
      BY <1>1, <3>3, <3>5 DEF Target
    <3> QED BY <1>1, <3>1, <3>4, <3>6
  <2>7. \A b \in target[p].batch : [b EXCEPT !.queued = FALSE].entries = b.entries
    BY <2>6 DEF Target, Batch
  <2>8. Held(p)' = Held(p)
    <3>1. \A b \in target'[p].batch : \E c \in target[p].batch : b.entries = c.entries
      BY <2>6, <2>7
    <3>2. \A c \in target[p].batch : \E b \in target'[p].batch : b.entries = c.entries
      BY <2>6, <2>7
    <3> QED BY <1>1, <2>6, <3>1, <3>2, MarkedBatch
  <2>9. /\ \A q \in Responses : Held(q)' = Held(q)
        /\ \A q \in Responses :
             target'[q].phase = "Running" => target[q].phase = "Running" /\ q # p
    BY <2>6, <2>8 DEF Held
  <2>10. \A q \in Responses : Seals(q)
    BY <1>4, <2>6 DEF Seals
  <2>11. Grows(p, <<Barrier>>)
    <3>1. outbox[p] \in Seq(Event)
      BY <1>i, <1>1 DEF TypeOK
    <3>2. Append(outbox[p], Barrier) = outbox[p] \o <<Barrier>>
      BY <3>1
    <3> QED BY <1>4, <3>2 DEF Grows
  <2>12. \A v : v \in tasks' <=> (v \in tasks /\ v # t) \/ v = u
    BY <2>3 DEF Become
  <2>13. ASSUME NEW q, NEW x, NEW S \in SUBSET Reserving
         PROVE  Claim(q, x, S)' <=> Claim(q, x, S) \/ (q = p /\ x = r /\ "flush" \in S)
    BY <1>1, <2>3, <2>12 DEF Claim
  <2>14. /\ {{"flush"}, Acknowledged, Reserving, Late} \subseteq SUBSET Reserving
         /\ "flush" \notin Acknowledged /\ "flush" \in Reserving
    BY DEF Reserving, Acknowledged, Late
  <2>15. \A q \in Responses \ {p} : Advance(q)
    BY <2>13, <2>14 DEF Advance
  <2>16. \A q \in Responses : ~Claim(p, q, Reserving)
    BY <1>i, <1>1, ClaimLane DEF Claim
  <2>17. /\ \A q \in Responses : Claim(p, q, Reserving)' => q = r
         /\ Claim(p, r, Reserving)'
         /\ \A q \in Responses : ~Claim(p, q, Acknowledged)'
    BY <2>13, <2>14, <2>16, ClaimStages
  <2>18. FateInv'
    BY ONLY <1>i, FateInv, <1>1, r \in Responses, <2>5, <2>9, <2>11, <2>15, <2>16, <2>17, <2>n,
            ReserveStep
  <2>19. \A q \in Responses : run'[q].created => run[q].created
    BY <2>5, <2>n
  <2> QED BY <2>10, <2>18, <2>19, StepIs
<1>5. \/ Errors(t, FALSE) /\ UNCHANGED run
      \/ Goto(t, "prepare") /\ UNCHANGED <<target, outbox, run>>
      \/ /\ target[p].phase = "Ready" /\ t.snap = Entries(target[p])
         /\ target' = [target EXCEPT ![p].phase = "Reserved",
                           ![p].batch = {[b EXCEPT !.queued = FALSE] : b \in @}]
         /\ outbox' = [outbox EXCEPT ![p] = Append(@, Barrier)]
         /\ StartGated(t, "flush", t.snap)
  BY DEF ReserveSuccessor, MatchesSteering, p
<1> QED BY <1>2, <1>3, <1>4, <1>5

(* The outcomes of the parent were emitted; without a relay to emit them   *)
(* the batch is failed.                                                    *)
LEMMA FlushTask ==
    ASSUME Inv, FateInv, NEW t \in tasks, FlushOutcomes(t)
    PROVE  StepOK
<1>i. TypeOK /\ TaskInv
  BY DEF Inv
<1> DEFINE p == The(t.work.parent)
           r == The(t.resp)
<1>1. /\ t.pc = "flush" /\ UNCHANGED <<told, fate>>
      /\ p \in Responses /\ t.work.parent = {p} /\ r \in Responses /\ t.resp = {r}
  BY <1>i, TaskHas DEF FlushOutcomes, Reserving
<1>2. CASE Flushed(p) /\ Goto(t, "register") /\ UNCHANGED <<target, run, outbox>>
  <2> HIDE DEF p, r
  <2>1. PICK u : u = [t EXCEPT !.pc = "register"]
    OBVIOUS
  <2>2. Become(t, u) /\ u.pc = "register" /\ u.work = t.work /\ u.resp = t.resp
    BY <1>i, <1>2, <2>1, GotoFacts DEF Goto
  <2>3. \A q \in Responses : Advance(q)
    BY <1>1, <1>2, <2>2, OnwardTask
  <2> QED BY <1>i, <1>1, <1>2, <2>3, SameTargets, SameRuns, QuietStep, StepIs
<1>3. CASE run' = [run EXCEPT ![r].exec = "failed"] /\ Errors(t, TRUE)
  <2> HIDE DEF p, r
  <2> QED BY <1>1, <1>3, ErrorsStep
<1> QED BY <1>2, <1>3 DEF FlushOutcomes, OutcomesFlushed

(* The route is registered and the reserved successor waits to be          *)
(* published; nothing is applied yet.                                      *)
LEMMA RegisterTask ==
    ASSUME Inv, FateInv, NEW t \in tasks, Register(t), ~Close
    PROVE  StepOK
<1>i. TypeOK /\ TaskInv /\ target \in [Responses -> Target]
  BY DEF Inv, TypeOK
<1> DEFINE r  == The(t.resp)
           tg == ReleaseInactive(target)
           pc == IF t.work.parent = {} THEN "join" ELSE "publish"
<1>1. /\ t.pc = "register" /\ r \in Responses /\ t.resp = {r} /\ run[r].exec = "gated"
      /\ t.work.parent \subseteq Responses
  <2>1. t.pc = "register"
    BY DEF Register
  <2>2. TaskOK(t) /\ t.work.parent \subseteq Responses
    BY <1>i, TaskFacts
  <2> QED BY <1>i, <2>1, <2>2, TaskHas DEF TaskOK, Reserving
<1>2. PICK config \in Settings :
        /\ target' = [tg EXCEPT ![r].lane = t.work.lane,
                                ![r].supported = config # "unsupported",
                                ![r].settings = config = "steerable"]
        /\ run' = [run EXCEPT ![r].exec = "running"]
        /\ Goto(t, pc) /\ UNCHANGED <<outbox, told, fate>>
  BY DEF Register
<1>3. /\ tg \in [Responses -> Target]
      /\ \A q \in Responses : tg[q].phase = target[q].phase /\ tg[q].batch = target[q].batch
  BY <1>i, ReleaseFacts
<1> HIDE DEF tg, r
<1>4. \A q \in Responses : target'[q].batch = target[q].batch /\
        target'[q].phase = target[q].phase
  BY <1>1, <1>2, <1>3 DEF Target
<1>5. \A q \in Responses : HeldKept(q) /\ Seals(q)
  BY <1>4, SameBatch
<1>6. RunsKept /\ \A q \in Responses : run'[q].created => run[q].created
  BY <1>i, <1>1, <1>2, RunMoves
<1>7. \A q \in Responses : Advance(q)
  <2>1. PICK u : u = [t EXCEPT !.pc = pc]
    OBVIOUS
  <2>2. Become(t, u) /\ u.pc = pc /\ u.work = t.work /\ u.resp = t.resp
    BY <1>i, <1>2, <2>1, GotoFacts DEF Goto
  <2> QED BY <1>1, <2>2, OnwardTask
<1>8. FateInv'
  BY <1>i, <1>2, <1>5, <1>6, <1>7, QuietStep
<1> QED BY <1>5, <1>6, <1>8, StepIs

(* The creation was seen, and the parent's batch is committed; or the wait *)
(* ended without it.                                                       *)
LEMMA AwaitTask ==
    ASSUME Inv, FateInv, NEW t \in tasks, AwaitCreated(t)
    PROVE  StepOK
<1>i. TypeOK /\ TaskInv /\ TargetInv
  BY DEF Inv
<1> DEFINE p == The(t.work.parent)
           r == The(t.resp)
<1>1. /\ t.pc = "publish" /\ UNCHANGED <<run, told, fate>>
      /\ p \in Responses /\ t.work.parent = {p} /\ r \in Responses /\ t.resp = {r}
  BY <1>i, TaskHas DEF AwaitCreated, Reserving
<1>2. target[p].phase = "Reserved"
  BY <1>i, <1>1 DEF TargetInv, Reserving
<1>3. CASE run[r].created /\ CommitSuccessor(p) /\ Goto(t, "join") /\ UNCHANGED outbox
  <2> HIDE DEF p, r
  <2>1. PICK u : u = [t EXCEPT !.pc = "join"]
    OBVIOUS
  <2>2. Become(t, u) /\ u.pc \notin Reserving
    BY <1>i, <1>3, <2>1, GotoFacts DEF Goto, Reserving
  <2>3. t.pc \in Late
    BY <1>1 DEF Late
  <2> QED BY <1>1, <1>3, <2>2, <2>3, CommitTask
<1>4. CASE Goto(t, "cancelled") /\ UNCHANGED <<target, outbox>>
  <2> HIDE DEF p, r
  <2>1. PICK u : u = [t EXCEPT !.pc = "cancelled"]
    OBVIOUS
  <2>2. Become(t, u) /\ u.pc = "cancelled" /\ u.work = t.work /\ u.resp = t.resp
    BY <1>i, <1>4, <2>1, GotoFacts DEF Goto
  <2>3. \A q \in Responses : Advance(q)
    BY <1>1, <2>2, OnwardTask
  <2> QED BY <1>i, <1>1, <1>4, <2>3, SameTargets, SameRuns, QuietStep, StepIs
<1> QED BY <1>2, <1>3, <1>4 DEF AwaitCreated

(* The receipt of a cancelled execution decides whether the batch was      *)
(* applied or is failed, never both.                                       *)
LEMMA CancelledTask ==
    ASSUME Inv, FateInv, NEW t \in tasks, JoinCancelled(t)
    PROVE  StepOK
<1>i. TypeOK /\ TaskInv
  BY DEF Inv
<1> DEFINE p == The(t.work.parent)
           r == The(t.resp)
<1>1. /\ t.pc = "cancelled" /\ Terminal(r) /\ UNCHANGED <<run, told, fate>>
      /\ p \in Responses /\ t.work.parent = {p} /\ r \in Responses /\ t.resp = {r}
      /\ target[p].lane = t.work.lane
  BY <1>i, TaskHas, TaskFacts DEF JoinCancelled, Reserving
<1>2. CASE run[r].created /\ CommitSuccessor(p) /\ Goto(t, "finish") /\ UNCHANGED outbox
  <2> HIDE DEF p, r
  <2>1. PICK u : u = [t EXCEPT !.pc = "finish"]
    OBVIOUS
  <2>2. Become(t, u) /\ u.pc \notin Reserving
    BY <1>i, <1>2, <2>1, GotoFacts DEF Goto, Reserving
  <2>3. t.pc \in Late
    BY <1>1 DEF Late
  <2> QED BY <1>1, <1>2, <2>2, <2>3, CommitTask
<1>3. CASE /\ ~run[r].created /\ FailSuccessor(p)
           /\ Become(t, [t EXCEPT !.pc = "failing", !.wait = {p}, !.fatal = ~t.work.auto])
  <2> HIDE DEF p, r
  <2>1. PICK u : u = [t EXCEPT !.pc = "failing", !.wait = {p}, !.fatal = ~t.work.auto]
    OBVIOUS
  <2>2. Become(t, u) /\ u.pc \notin Reserving
    BY <1>i, <1>3, <2>1, GotoFacts DEF Reserving
  <2>3. RunsKept /\ Terminal(r)'
    BY <1>1, SameRuns DEF Terminal
  <2> QED BY <1>1, <1>3, <2>2, <2>3, FailTask
<1> QED BY <1>2, <1>3 DEF JoinCancelled, Receipt

(* The execution was joined.                                               *)
LEMMA JoinTask ==
    ASSUME Inv, FateInv, NEW t \in tasks, JoinRun(t)
    PROVE  StepOK
<1>1. t.pc = "join" /\ t.pc \notin Reserving /\ UNCHANGED <<run, told, fate>>
  BY DEF JoinRun, Reserving
<1>2. ASSUME NEW f \in BOOLEAN, Errors(t, f) PROVE StepOK
  BY <1>1, <1>2, ErrorsStep
<1>3. CASE Goto(t, "finish") /\ UNCHANGED <<target, outbox>>
  <2>1. "finish" \notin Reserving
    BY DEF Reserving
  <2> QED BY <1>1, <1>3, <2>1, GotoStep
<1>4. \A r : (run[r].exec = "aborted") \in BOOLEAN
  OBVIOUS
<1> QED BY <1>2, <1>3, <1>4 DEF JoinRun

(* What does not fit the outcome queue is cut off.                         *)
CutOff(a, b, m) == IF Len(a \o b) <= m THEN a \o b ELSE SubSeq(a \o b, 1, m)

Extends(c, a, b) ==
    \E e \in Seq(Event) : c = a \o e /\ \A i \in DOMAIN e : i \in DOMAIN b /\ e[i] = b[i]

(* What fits is a prefix of what was to be appended.                       *)
LEMMA Truncated ==
    ASSUME NEW a \in Seq(Event), NEW b \in Seq(Event), NEW m \in Nat, Len(a) <= m
    PROVE  Extends(CutOff(a, b, m), a, b)
<1> DEFINE c == CutOff(a, b, m)
<1>e. ASSUME NEW e \in Seq(Event), c = a \o e,
             \A i \in DOMAIN e : i \in DOMAIN b /\ e[i] = b[i]
      PROVE  Extends(c, a, b)
  <2> HIDE DEF c
  <2> QED BY <1>e DEF Extends
<1>1. CASE Len(a \o b) <= m
  <2>1. c = a \o b
    BY <1>1 DEF CutOff
  <2> HIDE DEF c
  <2>2. Extends(c, a, b)
    BY <1>e, <2>1
  <2> QED BY <2>2 DEF c
<1>2. CASE ~(Len(a \o b) <= m)
  <2>c. c = SubSeq(a \o b, 1, m)
    BY <1>2 DEF CutOff
  <2> HIDE DEF c
  <2>1. PICK j \in Nat, k \in Nat : j = Len(a) /\ k = Len(b)
    OBVIOUS
  <2>2. Len(a \o b) = j + k /\ m < j + k /\ j <= m /\ m - j \in Nat /\ m - j <= k
    BY <1>2, <2>1
  <2>3. PICK e : e = [i \in 1 .. m - j |-> b[i]]
    OBVIOUS
  <2>4. \A i \in 1 .. m - j : i \in 1 .. k /\ b[i] \in Event
    BY <2>1, <2>2
  <2>5. e \in Seq(Event) /\ Len(e) = m - j /\ DOMAIN e = 1 .. m - j
    BY ONLY <2>2, <2>3, <2>4
  <2>6. PICK d : d = a \o e
    OBVIOUS
  <2>7. /\ c \in [1 .. m -> Event]
        /\ \A i \in 1 .. m : c[i] = IF i <= j THEN a[i] ELSE b[i - j]
    <3>1. c \in Seq(Event) /\ Len(c) = m /\ \A i \in 1 .. m : c[i] = (a \o b)[i]
      <4>1. PICK ab : ab = a \o b
        OBVIOUS
      <4>2. ab \in Seq(Event) /\ Len(ab) = j + k
        BY <2>1, <4>1
      <4>3. c = SubSeq(ab, 1, m) /\ m <= Len(ab) /\ m \in Nat
        BY <2>c, <2>2, <4>1, <4>2
      <4>4. c \in Seq(Event) /\ Len(c) = m /\ \A i \in 1 .. m : c[i] = ab[i]
        BY ONLY <4>2, <4>3
      <4> QED BY ONLY <4>1, <4>4
    <3>2. \A i \in 1 .. m : (a \o b)[i] = IF i <= j THEN a[i] ELSE b[i - j]
      BY <2>1, <2>2
    <3>3. c \in [1 .. m -> Event]
      <4>1. c \in Seq(Event) /\ Len(c) = m
        BY ONLY <3>1
      <4> QED BY ONLY <4>1, m \in Nat
    <3>4. \A i \in 1 .. m : c[i] = IF i <= j THEN a[i] ELSE b[i - j]
      BY ONLY <3>1, <3>2
    <3> QED BY ONLY <3>3, <3>4
  <2>8. /\ d \in [1 .. m -> Event]
        /\ \A i \in 1 .. m : d[i] = IF i <= j THEN a[i] ELSE e[i - j]
    <3>1. j + (m - j) = m
      BY ONLY <2>1, m \in Nat
    <3>2. a \in Seq(Event) /\ Len(a) = j /\ Len(e) = m - j
      BY <2>1, <2>5
    <3>3. d \in Seq(Event) /\ Len(d) = m
      BY ONLY <2>5, <2>6, <3>1, <3>2
    <3>4. \A i \in 1 .. m : d[i] = IF i <= j THEN a[i] ELSE e[i - j]
      BY ONLY <2>5, <2>6, <3>1, <3>2
    <3> QED BY ONLY <3>3, <3>4
  <2>9. \A i \in 1 .. m : c[i] = d[i]
    <3>1. ASSUME NEW i \in 1 .. m PROVE c[i] = d[i]
      <4>1. ~(i <= j) => i - j \in 1 .. m - j
        BY ONLY <2>1, <2>2, <3>1, m \in Nat
      <4>2. ~(i <= j) => e[i - j] = b[i - j]
        BY ONLY <4>1, <2>3
      <4> QED BY ONLY <3>1, <4>2, <2>7, <2>8
    <3> QED BY ONLY <3>1
  <2>10. c = a \o e
    BY ONLY <2>6, <2>7, <2>8, <2>9
  <2>11. \A i \in DOMAIN e : i \in DOMAIN b /\ e[i] = b[i]
    BY <2>1, <2>3, <2>4, <2>5
  <2>12. Extends(c, a, b)
    BY <1>e, <2>5, <2>10, <2>11
  <2> QED BY <2>12 DEF c
<1> QED BY <1>1, <1>2

(* A completed target is marked and told what its batch waits for.         *)
LEMMA MarkTask ==
    ASSUME Inv, FateInv, NEW t \in tasks, MarkReady(t)
    PROVE  StepOK
<1>i. TypeOK /\ TaskInv /\ TargetInv /\ OutboxInv /\ HeldInv
  BY DEF Inv, FateInv
<1> DEFINE r   == The(t.resp)
           pin == IF latest[target[r].lane] = {r} THEN run[r].need ELSE "none"
           new == [target EXCEPT ![r].phase = "Ready"]
           ev  == IF pin = "input" THEN Events("pending", Entries(target[r])) ELSE <<>>
           box == outbox[r] \o ev
           cut == IF Len(box) <= MaxOutcomes THEN box ELSE SubSeq(box, 1, MaxOutcomes)
           end == [t EXCEPT !.pc = "done", !.fatal = ~t.work.auto]
<1>1. /\ t.pc = "finish" /\ t.pc \notin Reserving /\ UNCHANGED <<run, told, fate>>
      /\ r \in Responses /\ Option(target[r].batch)
  BY <1>i, TaskHas DEF MarkReady, Reserving, TargetInv, TargetOK
<1>2. target[r] \in Target /\ target \in [Responses -> Target]
  BY <1>i, <1>1 DEF TypeOK
<1>3. /\ new \in [Responses -> Target] /\ new[r] = [target[r] EXCEPT !.phase = "Ready"]
      /\ new[r].phase = "Ready" /\ new[r].batch = target[r].batch
      /\ \A q \in Responses \ {r} : new[q] = target[q]
  BY <1>1, <1>2 DEF Target
<1>q. "check" \notin Reserving /\ "done" \notin Reserving
  BY DEF Reserving
<1>4. CASE target[r].phase # "Running" /\ Goto(t, "check") /\ UNCHANGED <<target, outbox>>
  BY <1>1, <1>4, <1>q, GotoStep
<1>a. ASSUME Goto(t, "check") \/ Become(t, end) PROVE \A p \in Responses : Advance(p)
  <2>1. PICK u : Become(t, u) /\ u.pc \notin Reserving
    <3>1. [t EXCEPT !.pc = "check"].pc = "check" /\ end.pc = "done"
      BY <1>i, GotoFacts
    <3> HIDE DEF end
    <3> QED BY <1>a, <1>q, <3>1 DEF Goto
  <2>2. \A v : v.pc \in Reserving => (v \in tasks' <=> v \in tasks)
    BY <1>1, <2>1 DEF Become
  <2> QED BY <2>2, SameClaims
<1> HIDE DEF end, r
<1>5. ASSUME target[r].phase = "Running", target'[r].phase = "Ready", Held(r)' = Held(r),
             \A q \in Responses \ {r} : target'[q] = target[q]
      PROVE  \A q \in Responses : HeldKept(q) /\ Seals(q)
  <2>1. \A q \in Responses \ {r} : HeldKept(q) /\ Seals(q)
    BY <1>5, SameBatch
  <2>2. HeldKept(r) /\ Seals(r)
    BY <1>5 DEF HeldKept, Seals
  <2> QED BY <2>1, <2>2
<1>6. CASE /\ target[r].phase = "Running" /\ target' = [new EXCEPT ![r].supported = FALSE]
           /\ Goto(t, "check") /\ UNCHANGED outbox
  <2>1. /\ target'[r].phase = "Ready" /\ target'[r].batch = target[r].batch
        /\ \A q \in Responses \ {r} : target'[q] = target[q]
    <3> HIDE DEF new
    <3> QED BY <1>1, <1>3, <1>6 DEF Target
  <2>2. Held(r)' = Held(r)
    BY <2>1 DEF Held, Entries
  <2> HIDE DEF new
  <2> QED BY <1>i, <1>1, <1>5, <1>6, <1>a, <2>1, <2>2, SameRuns, QuietStep, StepIs
<1>7. CASE /\ target[r].phase = "Running"
           /\ target' = [new EXCEPT ![r].batch = {[b EXCEPT !.pin = pin] : b \in @}]
           /\ outbox' = [outbox EXCEPT ![r] = cut]
           /\ Goto(t, "check") \/ Become(t, end)
  <2>1. PICK pinned : pinned = {[b EXCEPT !.pin = pin] : b \in target[r].batch}
    OBVIOUS
  <2>2. /\ target'[r].phase = "Ready" /\ target'[r].batch = pinned
        /\ \A q \in Responses \ {r} : target'[q] = target[q]
    <3>1. target' = [new EXCEPT ![r].batch = pinned]
      BY <1>1, <1>3, <1>7, <2>1
    <3> HIDE DEF new
    <3> QED BY <1>1, <1>3, <3>1 DEF Target
  <2>3. \A b \in target[r].batch : [b EXCEPT !.pin = pin].entries = b.entries
    <3>1. \A b \in target[r].batch : b \in Batch
      BY <1>2 DEF Target
    <3> HIDE DEF pin
    <3> QED BY <3>1 DEF Batch
  <2>4. Held(r)' = Held(r)
    <3> HIDE DEF pin
    <3>1. ASSUME NEW b \in target'[r].batch PROVE \E c \in target[r].batch : b.entries =
                   c.entries
      <4>1. b \in {[x EXCEPT !.pin = pin] : x \in target[r].batch}
        BY ONLY <2>1, <2>2, <3>1
      <4>2. PICK c \in target[r].batch : b = [c EXCEPT !.pin = pin]
        BY ONLY <4>1
      <4> QED BY ONLY <2>3, <4>2
    <3>2. \A c \in target[r].batch : \E b \in target'[r].batch : b.entries = c.entries
      BY ONLY <2>1, <2>2, <2>3
    <3> QED BY <1>1, <1>2, <3>1, <3>2, MarkedBatch
  <2>5. PICK a : a = Entries(target[r])
    OBVIOUS
  <2>6. a \in Seq(Steers) /\ Held(r) = {a[i] : i \in DOMAIN a} /\ DOMAIN a = 1 .. Len(a)
    BY <1>2, <2>5, EntriesType DEF Held, ToSet
  <2>7. /\ ev \in Seq(Event)
        /\ \A i \in DOMAIN ev : \E s \in Held(r) : ev[i] = [kind |-> "pending", steer |-> {s}]
    <3>1. CASE pin = "input"
      <4>1. ev = Events("pending", a)
        BY <2>5, <3>1
      <4>2. /\ ev \in Seq(Event) /\ Len(ev) = Len(a)
            /\ \A i \in 1 .. Len(a) : ev[i] = [kind |-> "pending", steer |-> {a[i]}]
        <5>1. "pending" \in {"accepted", "pending", "failed", "rejected"}
          OBVIOUS
        <5> HIDE DEF ev
        <5> QED BY ONLY <2>6, <4>1, <5>1, EventsType
      <4> HIDE DEF ev
      <4>3. DOMAIN ev = DOMAIN a /\ \A i \in DOMAIN a : a[i] \in Held(r)
        BY <2>6, <4>2
      <4> QED BY <2>6, <4>2, <4>3
    <3>2. CASE pin # "input"
      <4>1. ev = <<>>
        BY <3>2
      <4> HIDE DEF ev
      <4>2. <<>> \in Seq(Event) /\ DOMAIN <<>> = {}
        OBVIOUS
      <4> QED BY ONLY <4>1, <4>2
    <3> QED BY <3>1, <3>2
  <2>8. Len(outbox[r]) <= MaxOutcomes /\ outbox[r] \in Seq(Event) /\ MaxOutcomes \in Nat
    BY <1>i, <1>1, <1>7, Limits DEF OutboxInv, TypeOK
  <2>9. PICK e \in Seq(Event) :
          cut = outbox[r] \o e /\ \A i \in DOMAIN e : i \in DOMAIN ev /\ e[i] = ev[i]
    <3>1. PICK x : x = outbox[r]
      OBVIOUS
    <3>2. cut = CutOff(x, ev, MaxOutcomes)
      BY <3>1 DEF CutOff
    <3> HIDE DEF ev, cut
    <3>3. x \in Seq(Event) /\ ev \in Seq(Event) /\ MaxOutcomes \in Nat /\ Len(x) <= MaxOutcomes
      BY <2>7, <2>8, <3>1
    <3>4. Extends(cut, x, ev)
      BY ONLY <3>2, <3>3, Truncated
    <3> QED BY ONLY <3>1, <3>4 DEF Extends
  <2> HIDE DEF pin, ev, box, cut, new
  <2>10. Grows(r, e)
    BY <1>7, <2>9 DEF Grows
  <2>11. \A i \in DOMAIN e : \E s \in Held(r) : Says(e, i, "pending", s)
    BY <2>7, <2>9 DEF Says
  <2>12. \A i, k, s : Says(e, i, k, s) => k = "pending" /\ s \in Held(r)
    <3>1. \A i, k, s, u : Says(e, i, k, s) /\ Says(e, i, "pending", u) =>
            k = "pending" /\ s = u
      BY DEF Says
    <3>2. \A i, k, s : Says(e, i, k, s) => i \in DOMAIN e
      BY DEF Says
    <3> QED BY <2>11, <3>1, <3>2
  <2>13. \A i \in DOMAIN e : e[i].kind # "failed"
    BY <2>11 DEF Says
  <2>14. \A s \in Held(r) : fate'[s] = "owned" /\ s \in Steers
    BY <1>i, <1>1, HeldSteers DEF HeldInv, HeldOK
  <2>15. Orderly(r, e)
    <3>1. "pending" \in Kinds /\ "pending" # "accepted" /\ "pending" # "rejected"
      BY DEF Kinds
    <3> QED BY <2>11, <2>12, <2>14, <3>1 DEF Orderly
  <2>16. /\ \A q \in Responses : HeldKept(q) /\ Seals(q)
         /\ \A q \in Responses : Advance(q)
         /\ RunsKept /\ \A q \in Responses : run'[q].created => run[q].created
    BY <1>1, <1>5, <1>7, <1>a, <2>2, <2>4, SameRuns
  <2>17. FateInv'
    BY <1>i, <1>1, <2>2, <2>10, <2>13, <2>15, <2>16, SendStep
  <2> QED BY <2>16, <2>17, StepIs
<1>8. \/ target[r].phase # "Running" /\ Goto(t, "check") /\ UNCHANGED <<target, outbox>>
      \/ /\ target[r].phase = "Running" /\ target' = [new EXCEPT ![r].supported = FALSE]
         /\ Goto(t, "check") /\ UNCHANGED outbox
      \/ /\ target[r].phase = "Running"
         /\ target' = [new EXCEPT ![r].batch = {[b EXCEPT !.pin = pin] : b \in @}]
         /\ outbox' = [outbox EXCEPT ![r] = cut]
         /\ Goto(t, "check") \/ Become(t, end)
  BY DEF MarkReady, r, end
<1> QED BY <1>4, <1>6, <1>7, <1>8

(* A batch without a parent checkpoint is failed.                          *)
LEMMA CheckTask ==
    ASSUME Inv, FateInv, NEW t \in tasks, CheckParent(t)
    PROVE  StepOK
<1>i. TypeOK /\ TaskInv
  BY DEF Inv
<1> DEFINE r == The(t.resp)
<1>1. /\ t.pc = "check" /\ t.pc \notin Reserving /\ UNCHANGED <<run, told, fate>>
      /\ r \in Responses /\ t.resp = {r} /\ target[r].lane = t.work.lane
  BY <1>i, TaskHas DEF TaskOK, CheckParent, Reserving
<1> HIDE DEF r
<1>2. CASE /\ FailSuccessor(r)
           /\ Become(t, [t EXCEPT !.pc = "failing", !.wait = {r}, !.fatal = ~t.work.auto])
  <2>1. PICK u : u = [t EXCEPT !.pc = "failing", !.wait = {r}, !.fatal = ~t.work.auto]
    OBVIOUS
  <2>2. Become(t, u) /\ u.pc \notin Reserving
    BY <1>i, <1>2, <2>1, GotoFacts DEF Reserving
  <2> QED BY <1>1, <1>2, <2>2, SameRuns, FailTask
<1>3. CASE Goto(t, "done") /\ UNCHANGED <<target, outbox>>
  <2>1. "done" \notin Reserving
    BY DEF Reserving
  <2> QED BY <1>1, <1>3, <2>1, GotoStep
<1> QED BY <1>2, <1>3 DEF CheckParent, r

(* fail_successor returns.                                                 *)
LEMMA FailedTask ==
    ASSUME Inv, FateInv, NEW t \in tasks, Failed(t)
    PROVE  StepOK
<1>i. TypeOK
  BY DEF Inv
<1>1. t.pc = "failing" /\ t.pc \notin Reserving /\
        UNCHANGED <<run, target, outbox, told, fate>>
  BY DEF Failed, Reserving
<1>2. PICK u : Become(t, u) /\ u.pc = "done"
  <2>1. /\ [t EXCEPT !.pc = "done", !.fatal = FALSE].pc = "done"
        /\ [t EXCEPT !.pc = "done"].pc = "done"
    BY <1>i, GotoFacts
  <2> QED BY <2>1 DEF Failed, Goto
<1>3. u.pc \notin Reserving
  BY <1>2 DEF Reserving
<1> QED BY <1>i, <1>1, <1>2, <1>3, QuietTask

-----------------------------------------------------------------------------
(* The connection's own steps *)

(* A step that leaves reservations, batches and outcomes alone; it may     *)
(* close a target that is ready.                                           *)
LEMMA AsideStep ==
    ASSUME TypeOK, FateInv, RunsKept, \A r \in Responses : run'[r].created => run[r].created,
           \A u : u.pc \in Reserving => (u \in tasks' <=> u \in tasks),
           \A x \in Responses :
             /\ target'[x].batch = target[x].batch
             /\ \/ target'[x].phase = target[x].phase
                \/ target[x].phase = "Ready" /\ target'[x].phase = "Closed",
           UNCHANGED <<outbox, told, fate>>
    PROVE  StepOK
<1>1. \A x \in Responses : Advance(x) /\ HeldKept(x) /\ Seals(x)
  BY SameClaims, SameBatch
<1> QED BY <1>1, QuietStep, StepIs

(* A connection without tasks, executions, targets and outcomes.           *)
Blank ==
    /\ tasks = {}
    /\ target = [r \in Responses |-> NoTarget]
    /\ run = [r \in Responses |-> NoRun]
    /\ outbox = [r \in Responses |-> <<>>]
    /\ told = [s \in Steers |-> "nothing"]
    /\ fate = [s \in Steers |-> "unsent"]

(* Without tasks, input and outcomes every update is unsent.               *)
LEMMA BlankFates == Blank => FateInv
<1> SUFFICES ASSUME Blank PROVE FateInv
  OBVIOUS
<1>1. \A r \in Responses : Held(r) = {} /\ Carried(r) = {} /\ ~run[r].created
  <2>1. NoTarget.batch = {} /\ NoRun.carries = <<>> /\ ~NoRun.created
    BY DEF NoTarget, NoRun
  <2>2. \A r \in Responses : target[r] = NoTarget /\ run[r] = NoRun
    BY DEF Blank
  <2>3. ToSet(<<>>) = {}
    BY DEF ToSet
  <2> QED BY <2>1, <2>2, <2>3 DEF Held, Carried, Entries
<1>2. \A p, r, S : ~Claim(p, r, S)
  BY DEF Claim, Blank
<1>3. /\ \A r \in Responses : DOMAIN outbox[r] = {} /\ Len(outbox[r]) = 0
      /\ \A s \in Steers : told[s] = "nothing" /\ fate[s] = "unsent"
  BY DEF Blank
<1>4. \A s \in Steers : ~Returned(s)
  BY <1>3, ReturnedSent
<1>5. MaxOutcomes \in Nat
  BY Limits
<1>6. CarryInv
  BY <1>1, <1>2 DEF CarryInv
<1>7. HeldInv /\ AckInv
  BY <1>1 DEF HeldInv, AckInv
<1>8. AppliedInv
  BY <1>1, <1>3, <1>4 DEF AppliedInv, Applies
<1>9. OutboxInv
  BY <1>3, <1>5 DEF OutboxInv
<1> QED BY <1>6, <1>7, <1>8, <1>9 DEF FateInv

(* The connection ends and drops everything it owned.                      *)
LEMMA CloseStep ==
    ASSUME Close
    PROVE  StepOK
<1>1. Blank' => FateInv'
  BY BlankFates, PTL
<1>2. Blank'
  BY DEF Close, Blank
<1>3. \A r \in Responses : ~run'[r].created
  BY DEF Close, NoRun
<1>4. conn' = "closed"
  BY DEF Close
<1> QED BY <1>1, <1>2, <1>3, <1>4 DEF StepOK, ToldBeforeCreated, KeepsSealed, Live

(* A request is admitted, queued, or refused.                              *)
LEMMA CreateStep ==
    ASSUME TypeOK, FateInv, NEW l \in Lanes, NEW prev \in SUBSET Responses,
             NEW bad \in BOOLEAN,
           Create(l, prev, bad), ~Close
    PROVE  StepOK
<1>1. UNCHANGED <<target, run, outbox, told, fate>>
  BY DEF Create
<1>2. \E w : Schedule(w)
  BY DEF Create
<1>3. \A w : Spawned(w).pc = "spawned"
  BY DEF Spawned
<1>4. \A u : u.pc \in Reserving => (u \in tasks' <=> u \in tasks)
  BY <1>2, <1>3 DEF Schedule, Reserving
<1> QED BY <1>1, <1>4, SameRuns, AsideStep

(* The lane of a task that ended goes on.                                  *)
LEMMA FinishTask ==
    ASSUME TypeOK, FateInv, NEW t \in tasks, Finish(t), ~Close
    PROVE  StepOK
<1> DEFINE ts == tasks \ {t}
<1>1. t.pc = "done" /\ UNCHANGED <<run, outbox, told, fate>>
  BY DEF Finish, ScheduleNext
<1>2. \A w : Spawned(w).pc = "spawned" /\ Spawned(w).pc \notin Reserving
  BY DEF Spawned, Reserving
<1>3. t.pc \notin Reserving
  BY <1>1 DEF Reserving
<1>4. (\E w : tasks' = ts \cup {Spawned(w)}) \/ tasks' = ts
  BY DEF Finish, ScheduleNext
<1>5. target' = target \/ \E r \in AutoReady(target, t.work.lane) : FailAutomatic(target, r)
  BY DEF Finish, ScheduleNext
<1>6. \A u : u.pc \in Reserving => (u \in tasks' <=> u \in tasks)
  BY <1>2, <1>3, <1>4
<1>7. ASSUME NEW x \in Responses
      PROVE  /\ target'[x].batch = target[x].batch
             /\ \/ target'[x].phase = target[x].phase
                \/ target[x].phase = "Ready" /\ target'[x].phase = "Closed"
  <2>1. target[x] \in Target
    BY DEF TypeOK
  <2>2. \/ target'[x] = target[x]
        \/ target[x].phase = "Ready" /\ target'[x] = [target[x] EXCEPT !.phase = "Closed"]
    BY <1>5 DEF FailAutomatic, AutoReady
  <2> QED BY ONLY <2>1, <2>2 DEF Target
<1> QED BY <1>1, <1>6, <1>7, SameRuns, AsideStep

(* Retention passes, the identity expires, or the connection drains.       *)
LEMMA ExpiryStep ==
    ASSUME TypeOK, FateInv, ExpireRoutes \/ Expire \/ BeginDraining \/ UNCHANGED vars
    PROVE  StepOK
<1>1. UNCHANGED <<tasks, run, outbox, told, fate>>
  BY DEF ExpireRoutes, Expire, BeginDraining, vars, laneVars, steerVars
<1>2. target' = target \/ target' = ReleaseInactive(target)
  BY DEF ExpireRoutes, Expire, BeginDraining, vars
<1>3. \A x \in Responses :
        target'[x].batch = target[x].batch /\ target'[x].phase = target[x].phase
  <2>1. target \in [Responses -> Target]
    BY DEF TypeOK
  <2>2. \A x \in Responses : /\ ReleaseInactive(target)[x].batch = target[x].batch
                             /\ ReleaseInactive(target)[x].phase = target[x].phase
    BY ONLY <2>1, ReleaseFacts
  <2> QED BY <1>2, <2>2
<1> QED BY <1>1, <1>3, SameRuns, AsideStep

(* An execution ends, or a relay is lost.                                  *)
LEMMA EndStep ==
    ASSUME TypeOK, FateInv, NEW r \in Responses, EndRun(r) \/ LoseRelay(r)
    PROVE  StepOK
<1>1. UNCHANGED <<tasks, target, outbox, told, fate>>
  BY DEF EndRun, LoseRelay, laneVars, steerVars
<1>2. RunsKept /\ \A q \in Responses : run'[q].created => run[q].created
  <2>1. CASE EndRun(r)
    <3>1. PICK e \in {"committed", "failed", "aborted"} :
            \/ run' = [run EXCEPT ![r].exec = e]
            \/ \E need : run' = [run EXCEPT ![r].exec = e, ![r].need = need]
      BY <2>1 DEF EndRun
    <3>2. run[r].exec \in {"none", "gated", "running"}
      BY <2>1 DEF EndRun
    <3> QED BY <3>1, <3>2, RunMoves
  <2>2. CASE LoseRelay(r)
    <3>1. \A q \in Responses : /\ run'[q].exec = run[q].exec /\
                                    run'[q].created = run[q].created
                               /\ run'[q].carries = run[q].carries
      BY <2>2 DEF LoseRelay, TypeOK, Run
    <3> QED BY <3>1 DEF RunsKept, Carried, Terminal
  <2> QED BY <2>1, <2>2
<1> QED BY <1>1, <1>2, AsideStep

(* An outcome is emitted.                                                  *)
LEMMA WorkerStep ==
    ASSUME TypeOK, FateInv, NEW r \in Responses, Emit(r)
    PROVE  StepOK
<1>1. UNCHANGED <<target, run>>
  BY DEF Emit
<1>2. FateInv'
  BY EmitStep
<1> QED BY <1>1, <1>2, SameTargets, SameRuns, StepIs

(* A deferred failure returns what its target holds; no successor was      *)
(* prepared from a target that closed.                                     *)
LEMMA CleanUpStep ==
    ASSUME Inv, FateInv, NEW r \in Responses, CleanUp(r)
    PROVE  StepOK
<1>i. TypeOK /\ TargetInv
  BY DEF Inv
<1>1. UNCHANGED <<tasks, run, told, fate>> /\ target[r].phase = "Closed"
  BY <1>i DEF CleanUp, laneVars, steerVars, TargetInv, TargetOK
<1>2. RunsKept /\ \A q \in Responses : run'[q].created => run[q].created
  BY <1>1, SameRuns
<1>3. CASE FailSuccessor(r)
  <2>1. Grows(r, Failures(target[r])) /\ target' = [target EXCEPT ![r] = Closed(@)]
    BY <1>3 DEF FailSuccessor, Grows
  <2>2. /\ Held(r)' = {} /\ target'[r].phase = "Closed"
        /\ \A q \in Responses \ {r} : HeldKept(q)
        /\ \A q \in Responses : Seals(q)
    BY <1>i, <2>1, ClosesFacts
  <2>3. \A q \in Responses : ~Claim(r, q, Reserving) /\ ~Claim(r, q, Late)
    <3>1. \A t \in tasks : t.pc \in Reserving => r \notin t.work.parent
      BY <1>i, <1>1 DEF TargetInv
    <3>2. Late \subseteq Reserving
      BY DEF Late, Reserving
    <3> QED BY <3>1, <3>2 DEF Claim
  <2>4. \A q \in Responses : ~Claim(r, q, Reserving)'
    BY <1>1, <2>3 DEF Claim
  <2>5. \A q \in Responses : Advance(q)
    BY <1>1, SameClaims
  <2>6. FateInv'
    BY <1>i, <1>1, <1>2, <2>1, <2>2, <2>3, <2>4, <2>5, FailStep
  <2> QED BY <1>2, <2>2, <2>6, StepIs
<1>4. CASE UNCHANGED <<target, outbox>>
  BY <1>i, <1>1, <1>2, <1>4, AsideStep
<1> QED BY <1>3, <1>4 DEF CleanUp

(* A running execution publishes response.created.                         *)
LEMMA CreatedStep ==
    ASSUME Inv, FateInv, NEW r \in Responses, PublishCreated(r)
    PROVE  StepOK
<1>i. TypeOK /\ TaskInv
  BY DEF Inv
<1>1. /\ UNCHANGED <<tasks, target, outbox, told, fate>> /\ ~run[r].created
      /\ run[r].exec = "running" /\ run' = [run EXCEPT ![r].created = TRUE]
  BY DEF PublishCreated, laneVars, steerVars
<1>2. ~Terminal(r)
  BY <1>1 DEF Terminal
<1>3. \A p \in Responses : Claim(p, r, Reserving) => Claim(p, r, Late)
  <2>1. \A t \in tasks : r \in t.resp => t.pc \notin {"flush", "register"}
    BY <1>i, <1>1 DEF TaskInv, TaskOK
  <2> QED BY <2>1 DEF Claim, Reserving, Late
<1>4. ASSUME NEW p \in Responses, NEW q \in Responses,
             Claim(p, q, Reserving), Claim(p, r, Reserving)
      PROVE  q = r
  <2>1. PICK t \in tasks : p \in t.work.parent /\ q \in t.resp
    BY <1>4 DEF Claim
  <2>2. PICK v \in tasks : p \in v.work.parent /\ r \in v.resp
    BY <1>4 DEF Claim
  <2>3. target[p].lane = t.work.lane /\ TaskOK(t)
    BY <1>i, <2>1, TaskFacts
  <2>4. v = t
    BY <2>1, <2>2, <2>3, ClaimLane DEF Inv
  <2> QED BY <2>1, <2>2, <2>3, <2>4 DEF TaskOK, Option
<1>5. FateInv' /\ \A s \in Carried(r) : told[s] = "accepted"
  BY <1>i, <1>1, <1>2, <1>3, <1>4, PublishStep
<1>6. \A q \in Responses : q # r => run'[q].created = run[q].created
  BY <1>i, <1>1 DEF TypeOK
<1>7. ToldBeforeCreated
  BY <1>5, <1>6 DEF ToldBeforeCreated, Carried
<1>8. KeepsSealed
  BY <1>1, SameTargets DEF KeepsSealed, Seals
<1> QED BY <1>5, <1>7, <1>8 DEF StepOK

(* Idle lanes admit their automatic successors; one that does not fit      *)
(* closes its target, which was ready.                                     *)
LEMMA ReadyKept ==
    ASSUME NEW tg \in [Responses -> Target], NEW box, NEW told1, NEW fate1,
           ScheduleReady(tg, box, told1, fate1), ~Close
    PROVE  /\ outbox' = box /\ told' = told1 /\ fate' = fate1 /\ UNCHANGED run
           /\ \A u : u.pc \in Reserving => (u \in tasks' <=> u \in tasks)
           /\ \A x \in Responses :
                /\ target'[x].batch = tg[x].batch
                /\ \/ target'[x].phase = tg[x].phase
                   \/ tg[x].phase = "Ready" /\ target'[x].phase = "Closed"
<1> DEFINE ready == {l \in Lanes \ active : AutoReady(tg, l) # {}}
<1>1. PICK pick \in [ready -> routes] :
        /\ \A l \in ready : pick[l] \in AutoReady(tg, l)
        /\ outbox' = box /\ told' = told1 /\ fate' = fate1 /\ UNCHANGED run
        /\ \E fit \in SUBSET ready :
             /\ target' = tg \/ \E l \in ready \ fit : FailAutomatic(tg, pick[l])
             /\ tasks' = tasks \cup {Spawned(AutoWork(pick[l])) : l \in fit}
  BY DEF ScheduleReady
<1>2. PICK fit \in SUBSET ready :
        /\ target' = tg \/ \E l \in ready \ fit : FailAutomatic(tg, pick[l])
        /\ tasks' = tasks \cup {Spawned(AutoWork(pick[l])) : l \in fit}
  BY <1>1
<1> HIDE DEF ready
<1>3. \A w : Spawned(w).pc = "spawned" /\ Spawned(w).pc \notin Reserving
  BY DEF Spawned, Reserving
<1>4. \A u : u.pc \in Reserving => (u \in tasks' <=> u \in tasks)
  BY <1>2, <1>3
<1>5. \A l \in ready : tg[pick[l]].phase = "Ready"
  BY <1>1 DEF AutoReady
<1>6. ASSUME NEW x \in Responses
      PROVE  /\ target'[x].batch = tg[x].batch
             /\ \/ target'[x].phase = tg[x].phase
                \/ tg[x].phase = "Ready" /\ target'[x].phase = "Closed"
  <2>1. tg[x] \in Target
    OBVIOUS
  <2>2. \/ target'[x] = tg[x]
        \/ tg[x].phase = "Ready" /\ target'[x] = [tg[x] EXCEPT !.phase = "Closed"]
    BY <1>2, <1>5 DEF FailAutomatic
  <2> QED BY ONLY <2>1, <2>2 DEF Target
<1> QED BY <1>1, <1>4, <1>6

(* One outcome about a steer.                                              *)
LEMMA OneOutcome ==
    ASSUME NEW s \in Steers, NEW k \in {"accepted", "pending", "rejected"},
           NEW v, v = Events(k, <<s>>)
    PROVE  v \in Seq(Event) /\ DOMAIN v = {1} /\ Len(v) = 1 /\
             v[1] = [kind |-> k, steer |-> {s}]
<1>1. k \in {"accepted", "pending", "failed", "rejected"}
  OBVIOUS
<1>2. PICK a : a = <<s>>
  OBVIOUS
<1>3. a \in Seq(Steers) /\ Len(a) = 1 /\ a[1] = s
  BY <1>2
<1>4. v = Events(k, a)
  BY <1>2
<1>5. /\ v \in Seq(Event) /\ Len(v) = Len(a)
      /\ \A i \in 1 .. Len(a) : v[i] = [kind |-> k, steer |-> {a[i]}]
  BY ONLY <1>1, <1>3, <1>4, EventsType
<1>6. v[1] = [kind |-> k, steer |-> {s}]
  BY ONLY <1>3, <1>5
<1> QED BY ONLY <1>3, <1>5, <1>6

(* A refusal says only that the steer is refused.                          *)
LEMMA RefusalSays ==
    ASSUME NEW s \in Steers, NEW e, e = Events("rejected", <<s>>)
    PROVE  /\ e \in Seq(Event)
           /\ \A i \in DOMAIN e : Says(e, i, "rejected", s) /\ e[i].kind # "failed"
           /\ \A i, k, u : Says(e, i, k, u) => u = s /\ k = "rejected"
<1>1. e \in Seq(Event) /\ DOMAIN e = {1} /\ e[1] = [kind |-> "rejected", steer |-> {s}]
  BY OneOutcome
<1>2. \A i \in DOMAIN e : Says(e, i, "rejected", s) /\ e[i].kind # "failed"
  BY ONLY <1>1 DEF Says
<1>3. ASSUME NEW i, NEW k, NEW u, Says(e, i, k, u) PROVE u = s /\ k = "rejected"
  <2>1. e[1] = [kind |-> k, steer |-> {u}]
    BY ONLY <1>1, <1>3 DEF Says
  <2>2. e[1].kind = k /\ e[1].steer = {u}
    BY ONLY <2>1
  <2>3. e[1].kind = "rejected" /\ e[1].steer = {s}
    BY ONLY <1>1
  <2> QED BY ONLY <2>2, <2>3
<1> QED BY ONLY <1>1, <1>2, <1>3

(* An acceptance says first that the steer is accepted, then at most that  *)
(* it waits.                                                               *)
LEMMA AcceptanceSays ==
    ASSUME NEW s \in Steers, NEW e,
           \/ e = Events("accepted", <<s>>)
           \/ e = Events("accepted", <<s>>) \o Events("pending", <<s>>)
    PROVE  /\ e \in Seq(Event)
           /\ \A i \in DOMAIN e :
                /\ Says(e, i, "accepted", s) \/ Says(e, i, "pending", s)
                /\ e[i].kind # "failed"
           /\ \A i, k, u : Says(e, i, k, u) =>
                u = s /\ ((k = "accepted" /\ \A j \in DOMAIN e : i <= j) \/ k = "pending")
           /\ \E i \in DOMAIN e : Says(e, i, "accepted", s)
<1>1. PICK x : x = Events("accepted", <<s>>)
  OBVIOUS
<1>2. PICK y : y = Events("pending", <<s>>)
  OBVIOUS
<1>3. /\ x \in Seq(Event) /\ DOMAIN x = {1} /\ Len(x) = 1
      /\ x[1] = [kind |-> "accepted", steer |-> {s}]
  BY <1>1, OneOutcome
<1>4. /\ y \in Seq(Event) /\ DOMAIN y = {1} /\ Len(y) = 1
      /\ y[1] = [kind |-> "pending", steer |-> {s}]
  BY <1>2, OneOutcome
<1>5. /\ e \in Seq(Event) /\ e[1] = [kind |-> "accepted", steer |-> {s}]
      /\ \/ DOMAIN e = {1}
         \/ DOMAIN e = {1, 2} /\ e[2] = [kind |-> "pending", steer |-> {s}]
  <2>1. CASE e = x
    BY ONLY <1>3, <2>1
  <2>2. CASE e = x \o y
    <3>1. e = x \o y /\ x \in Seq(Event) /\ y \in Seq(Event)
      BY ONLY <1>3, <1>4, <2>2
    <3>2. /\ \A i \in DOMAIN x : i \in DOMAIN e /\ e[i] = x[i]
          /\ \A i \in DOMAIN e : i \notin DOMAIN x =>
               i - Len(x) \in DOMAIN y /\ e[i] = y[i - Len(x)] /\ \A j \in DOMAIN x : j < i
          /\ \A i \in DOMAIN y : /\ Len(x) + i \in DOMAIN e /\ e[Len(x) + i] = y[i]
                                 /\ \A j \in DOMAIN x : j < Len(x) + i
          /\ Len(e) = Len(x) + Len(y)
      BY ONLY <3>1, Concat
    <3>3. e \in Seq(Event)
      BY ONLY <3>1
    <3>4. e[1] = x[1] /\ e[2] = y[1] /\ Len(e) = 2
      <4>1. 1 \in DOMAIN x /\ 1 \in DOMAIN y /\ 1 + 1 = 2
        BY ONLY <1>3, <1>4
      <4> QED BY ONLY <1>3, <1>4, <3>2, <4>1
    <3>5. DOMAIN e = {1, 2}
      BY ONLY <3>3, <3>4
    <3> QED BY ONLY <1>3, <1>4, <3>3, <3>4, <3>5
  <2> QED BY <1>1, <1>2, <2>1, <2>2
<1>6. ASSUME NEW i \in DOMAIN e
      PROVE  /\ Says(e, i, "accepted", s) \/ Says(e, i, "pending", s)
             /\ e[i].kind # "failed"
  BY ONLY <1>5, <1>6 DEF Says
<1>7. ASSUME NEW i, NEW k, NEW u, Says(e, i, k, u)
      PROVE  u = s /\ ((k = "accepted" /\ \A j \in DOMAIN e : i <= j) \/ k = "pending")
  <2>1. i \in DOMAIN e /\ e[i] = [kind |-> k, steer |-> {u}]
    BY ONLY <1>7 DEF Says
  <2>2. CASE i = 1
    <3>1. k = "accepted" /\ u = s
      BY ONLY <1>5, <2>1, <2>2
    <3>2. \A j \in DOMAIN e : i <= j
      BY ONLY <1>5, <2>2
    <3> QED BY ONLY <3>1, <3>2
  <2>3. CASE i = 2 /\ e[2] = [kind |-> "pending", steer |-> {s}]
    BY ONLY <2>1, <2>3
  <2> QED BY ONLY <1>5, <2>1, <2>2, <2>3
<1>8. \E i \in DOMAIN e : Says(e, i, "accepted", s)
  <2>1. 1 \in DOMAIN e
    BY ONLY <1>5
  <2> QED BY ONLY <1>5, <2>1 DEF Says
<1> QED BY ONLY <1>5, <1>6, <1>7, <1>8

(* A target that accepts an update holds it besides what it held.          *)
LEMMA AcceptedHeld ==
    ASSUME TypeOK, NEW r \in Responses, NEW s \in Steers, Option(target[r].batch), NEW tg,
           tg[r].batch = target[r].batch, target'[r].batch = Accepted(tg, r, s)
    PROVE  Held(r)' = Held(r) \cup {s}
<1>1. target[r] \in Target
  BY DEF TypeOK
<1>2. CASE target[r].batch = {}
  <2>1. PICK b : target'[r].batch = {b} /\ b.entries = <<s>>
    <3> DEFINE c == [entries |-> <<s>>, queued |-> TRUE,
                     pin |-> IF tg[r].phase = "Running" THEN "none" ELSE run[r].need]
    <3>1. target'[r].batch = {c}
      BY <1>2 DEF Accepted
    <3>2. c.entries = <<s>>
      OBVIOUS
    <3> QED BY <3>1, <3>2
  <2>2. Entries(target'[r]) = <<s>>
    BY <2>1, TheMember DEF Entries
  <2>3. ToSet(<<s>>) = {s}
    BY DEF ToSet
  <2>4. Held(r) = {} /\ Held(r)' = {s}
    BY <1>2, <2>2, <2>3, HeldSteers DEF Held
  <2> QED BY <2>4
<1>3. CASE target[r].batch # {}
  <2>1. PICK c \in target[r].batch : c \in Batch
    BY <1>1, <1>3 DEF Target
  <2>2. Entries(target[r]) = c.entries /\ c.entries \in Seq(Steers)
    BY <1>1, <2>1, EntriesType DEF Batch
  <2>3. target[r].batch = {c}
    BY <2>1 DEF Option
  <2>4. target'[r].batch = {[c EXCEPT !.entries = Append(@, s)]}
    BY <1>3, <2>3 DEF Accepted
  <2>5. [c EXCEPT !.entries = Append(@, s)].entries = Append(c.entries, s)
    BY <2>1 DEF Batch
  <2>6. Entries(target'[r]) = Append(c.entries, s)
    BY <2>4, <2>5, TheMember DEF Entries
  <2>7. ToSet(Append(c.entries, s)) = ToSet(c.entries) \cup {s}
    <3>1. PICK a : a = c.entries
      OBVIOUS
    <3>2. PICK n \in Nat : n = Len(a)
      BY <2>2, <3>1
    <3>3. a \in Seq(Steers) /\ DOMAIN a = 1 .. n
      BY <2>2, <3>1, <3>2
    <3>4. /\ DOMAIN Append(a, s) = 1 .. n + 1 /\ Append(a, s)[n + 1] = s
          /\ \A i \in 1 .. n : Append(a, s)[i] = a[i]
      BY ONLY <3>2, <3>3
    <3>5. \A i \in 1 .. n + 1 : i \in 1 .. n \/ i = n + 1
      BY ONLY n \in Nat
    <3>6. n + 1 \in 1 .. n + 1 /\ \A i \in 1 .. n : i \in 1 .. n + 1
      BY ONLY n \in Nat
    <3>7. ToSet(a) = {a[i] : i \in 1 .. n}
      BY ONLY <3>3 DEF ToSet
    <3>8. ToSet(Append(a, s)) = {Append(a, s)[i] : i \in 1 .. n + 1}
      BY ONLY <3>4 DEF ToSet
    <3>9. PICK d : d = Append(a, s)
      OBVIOUS
    <3>10. {d[i] : i \in 1 .. n + 1} = {a[i] : i \in 1 .. n} \cup {s}
      BY ONLY <3>4, <3>5, <3>6, <3>9
    <3> QED BY ONLY <3>1, <3>7, <3>8, <3>9, <3>10
  <2> QED BY <2>2, <2>6, <2>7 DEF Held
<1> QED BY <1>2, <1>3

(* A steer is accepted or refused, and idle lanes admit their successors.  *)
LEMMA SteerStep ==
    ASSUME Inv, FateInv, NEW s \in Steers, NEW r \in Responses, Steer(s, r), ~Close
    PROVE  StepOK
<1>i. TypeOK /\ TargetInv /\ HeldInv /\ target \in [Responses -> Target]
  BY DEF Inv, FateInv, TypeOK
<1> DEFINE tg     == ReleaseInactive(target)
           ok     == r \in routes /\ Accepts(tg, r)
           new    == [tg EXCEPT ![r].batch = Accepted(tg, r, s)]
           notify == IF ~ok THEN Events("rejected", <<s>>)
                     ELSE IF \E b \in new[r].batch : b.pin = "input"
                     THEN Events("accepted", <<s>>) \o Events("pending", <<s>>)
                     ELSE Events("accepted", <<s>>)
           box    == [outbox EXCEPT ![r] = @ \o notify]
<1>1. /\ tg \in [Responses -> Target]
      /\ \A q \in Responses : tg[q].phase = target[q].phase /\ tg[q].batch = target[q].batch
  BY ONLY <1>i, ReleaseFacts
<1>l. ok => run[r].need # "malformed" \/ target[r].batch # {} \/ target[r].phase = "Running"
  BY <1>i, AcceptsLegible
<1>o. ok => target[r].phase \in {"Running", "Ready"}
  BY <1>1 DEF Accepts
<1>n. \/ notify = Events("rejected", <<s>>) /\ ~ok
      \/ notify = Events("accepted", <<s>>) /\ ok
      \/ notify = Events("accepted", <<s>>) \o Events("pending", <<s>>) /\ ok
  <2> HIDE DEF ok, new, tg
  <2> QED OBVIOUS
<1>3. fate \in [Steers -> {"unsent", "refused", "owned"}] /\
        outbox \in [Responses -> Seq(Event)]
  BY <1>i DEF TypeOK
<1> HIDE DEF tg, ok, new, notify, box
<1>2. fate[s] = "unsent"
  BY DEF Steer
<1>k. ASSUME \A u : u.pc \in Reserving => (u \in tasks' <=> u \in tasks), UNCHANGED run
      PROVE  /\ \A p \in Responses : Advance(p)
             /\ RunsKept /\ \A q \in Responses : run'[q].created => run[q].created
  BY <1>k, SameClaims, SameRuns
<1>s. ASSUME NEW x \in Responses, target'[x].batch = tg[x].batch,
             \/ target'[x].phase = tg[x].phase
             \/ tg[x].phase = "Ready" /\ target'[x].phase = "Closed"
      PROVE  HeldKept(x) /\ Seals(x)
  BY <1>1, <1>s, SameBatch
<1>4. CASE ScheduleReady(tg, outbox, [told EXCEPT ![s] = "rejected"],
             [fate EXCEPT ![s] = "refused"])
  <2>1. /\ outbox' = outbox /\ told' = [told EXCEPT ![s] = "rejected"]
        /\ fate' = [fate EXCEPT ![s] = "refused"] /\ UNCHANGED run
        /\ \A u : u.pc \in Reserving => (u \in tasks' <=> u \in tasks)
        /\ \A x \in Responses :
             /\ target'[x].batch = tg[x].batch
             /\ \/ target'[x].phase = tg[x].phase
                \/ tg[x].phase = "Ready" /\ target'[x].phase = "Closed"
    BY <1>1, <1>4, ReadyKept
  <2>2. \A x \in Responses : Advance(x) /\ HeldKept(x) /\ Seals(x)
    BY <1>k, <1>s, <2>1
  <2>3. RunsKept /\ \A q \in Responses : run'[q].created => run[q].created
    BY <1>k, <2>1
  <2>4. FateInv'
    BY <1>i, <1>2, <2>1, <2>2, <2>3, RefuseStep
  <2> QED BY <2>2, <2>3, <2>4, StepIs
<1>5. notify \in Seq(Event)
  BY <1>n, RefusalSays, AcceptanceSays
<1>6. ASSUME outbox' = box, Len(box[r]) <= MaxOutcomes
      PROVE  Grows(r, notify) /\ Len(outbox'[r]) <= MaxOutcomes
  BY <1>6 DEF Grows, box
<1>7. CASE /\ ~ok /\ Len(box[r]) <= MaxOutcomes
           /\ ScheduleReady(tg, box, told, [fate EXCEPT ![s] = "refused"])
  <2>1. /\ outbox' = box /\ told' = told /\ fate' = [fate EXCEPT ![s] = "refused"] /\
             UNCHANGED run
        /\ \A u : u.pc \in Reserving => (u \in tasks' <=> u \in tasks)
        /\ \A x \in Responses :
             /\ target'[x].batch = tg[x].batch
             /\ \/ target'[x].phase = tg[x].phase
                \/ tg[x].phase = "Ready" /\ target'[x].phase = "Closed"
    BY <1>1, <1>7, ReadyKept
  <2>2. \A x \in Responses : Advance(x) /\ HeldKept(x) /\ Seals(x)
    BY <1>k, <1>s, <2>1
  <2>3. RunsKept /\ \A q \in Responses : run'[q].created => run[q].created
    BY <1>k, <2>1
  <2>4. notify = Events("rejected", <<s>>)
    BY <1>n, <1>7
  <2>5. /\ \A i \in DOMAIN notify :
             Says(notify, i, "rejected", s) /\ notify[i].kind # "failed"
        /\ \A i, k, u : Says(notify, i, k, u) => u = s /\ k = "rejected"
    BY <2>4, RefusalSays
  <2>6. /\ fate'[s] = "refused" /\ \A u \in Steers : u # s => fate'[u] = fate[u]
    BY <1>3, <2>1
  <2>7. Orderly(r, notify)
    <3>1. "rejected" \in Kinds
      BY DEF Kinds
    <3> QED BY <2>5, <2>6, <3>1 DEF Orderly
  <2>8. \A i \in DOMAIN notify : notify[i].kind # "failed"
    BY <2>5
  <2>9. Grows(r, notify) /\ Len(outbox'[r]) <= MaxOutcomes
    BY <1>6, <1>7, <2>1
  <2>10. FateInv'
    BY <1>i, <1>2, <1>5, <2>1, <2>2, <2>3, <2>6, <2>7, <2>8, <2>9, SendStep
  <2> QED BY <2>2, <2>3, <2>10, StepIs
<1>8. CASE /\ ok /\ Len(box[r]) <= MaxOutcomes
           /\ ScheduleReady(new, box, told, [fate EXCEPT ![s] = "owned"])
  <2>1. /\ new \in [Responses -> Target]
        /\ new[r].batch = Accepted(tg, r, s) /\ new[r].phase = tg[r].phase
        /\ \A q \in Responses \ {r} : new[q] = tg[q]
    <3>1. Accepted(tg, r, s) \subseteq Batch
      BY <1>i, <1>1, <1>8, <1>l, AcceptedType
    <3>2. [tg[r] EXCEPT !.batch = Accepted(tg, r, s)] \in Target
      BY <1>1, <3>1 DEF Target
    <3>3. /\ [tg[r] EXCEPT !.batch = Accepted(tg, r, s)].batch = Accepted(tg, r, s)
          /\ [tg[r] EXCEPT !.batch = Accepted(tg, r, s)].phase = tg[r].phase
      BY <1>1 DEF Target
    <3>4. PICK v : v = [tg[r] EXCEPT !.batch = Accepted(tg, r, s)]
      OBVIOUS
    <3>5. new = [tg EXCEPT ![r] = v]
      BY <1>1, <3>4 DEF new
    <3> QED BY <1>1, <3>2, <3>3, <3>4, <3>5
  <2>2. /\ outbox' = box /\ told' = told /\ fate' = [fate EXCEPT ![s] = "owned"] /\
             UNCHANGED run
        /\ \A u : u.pc \in Reserving => (u \in tasks' <=> u \in tasks)
        /\ \A x \in Responses :
             /\ target'[x].batch = new[x].batch
             /\ \/ target'[x].phase = new[x].phase
                \/ new[x].phase = "Ready" /\ target'[x].phase = "Closed"
    BY <1>8, <2>1, ReadyKept
  <2>3. /\ \A x \in Responses : Advance(x)
        /\ RunsKept /\ \A q \in Responses : run'[q].created => run[q].created
    BY <1>k, <2>2
  <2>4. \A x \in Responses \ {r} : HeldKept(x) /\ Seals(x)
    BY <1>s, <2>1, <2>2
  <2>5. Seals(r)
    BY <1>o, <1>8 DEF Seals
  <2>6. Held(r)' = Held(r) \cup {s}
    BY <1>i, <1>1, <2>1, <2>2, AcceptedHeld DEF TargetInv, TargetOK
  <2>7. /\ \A i \in DOMAIN notify :
             /\ Says(notify, i, "accepted", s) \/ Says(notify, i, "pending", s)
             /\ notify[i].kind # "failed"
        /\ \A i, k, u : Says(notify, i, k, u) =>
             u = s /\ ((k = "accepted" /\ \A j \in DOMAIN notify : i <= j) \/ k = "pending")
        /\ \E i \in DOMAIN notify : Says(notify, i, "accepted", s)
    BY <1>8, <1>n, AcceptanceSays
  <2>8. /\ fate'[s] = "owned" /\ \A u \in Steers : u # s => fate'[u] = fate[u]
    BY <1>3, <2>2
  <2>9. Orderly(r, notify)
    <3>1. {"accepted", "pending"} \subseteq Kinds
      BY DEF Kinds
    <3> QED BY <1>2, <2>7, <2>8, <3>1 DEF Orderly
  <2>10. \A i \in DOMAIN notify : notify[i].kind # "failed"
    BY <2>7
  <2>11. Grows(r, notify) /\ Len(outbox'[r]) <= MaxOutcomes
    BY <1>6, <1>8, <2>2
  <2>12. target'[r].phase = "Running" => target[r].phase = "Running"
    BY <1>1, <2>1, <2>2
  <2>13. \A q \in Responses : ~Claim(r, q, Reserving)
    <3>1. \A t \in tasks : t.pc \in Reserving => r \notin t.work.parent
      BY <1>i, <1>o, <1>8 DEF TargetInv
    <3> QED BY <3>1 DEF Claim
  <2>14. FateInv'
    BY <1>i, <1>2, <1>5, <2>2, <2>3, <2>4, <2>6, <2>7, <2>9, <2>10, <2>11, <2>12, <2>13,
       AcceptStep
  <2> QED BY <2>3, <2>4, <2>5, <2>14, StepIs
<1>9. CASE /\ ~(Len(box[r]) > MaxOutcomes)
           /\ ScheduleReady(IF ok THEN new ELSE tg, box, told,
                            [fate EXCEPT ![s] = IF ok THEN "owned" ELSE "refused"])
  <2>1. Len(box[r]) <= MaxOutcomes
    <3>1. box[r] \in Seq(Event) /\ MaxOutcomes \in Nat
      BY <1>3, <1>5, Limits DEF box
    <3> QED BY <1>9, <3>1
  <2>2. CASE ok
    BY <1>8, <1>9, <2>1, <2>2
  <2>3. CASE ~ok
    BY <1>7, <1>9, <2>1, <2>3
  <2> QED BY <2>2, <2>3
<1> QED BY <1>4, <1>9 DEF Steer, tg, ok, new, notify, box
-----------------------------------------------------------------------------
(* Every step keeps each update's fate and tells it in order *)

(* Every step of every actor, the loss of the transport included, keeps    *)
(* the invariant of the fates and the order of what the client is told.    *)
LEMMA FatesStep == Inv /\ FateInv /\ [Next]_vars => StepOK
<1> SUFFICES ASSUME Inv, FateInv, [Next]_vars PROVE StepOK
  OBVIOUS
<1>1. TypeOK /\ Inv'
  BY InvStep DEF Inv
<1>2. TypeOK'
  BY <1>1 DEF Inv
<1>3. CASE Close
  BY <1>3, CloseStep
<1>4. CASE ~Close
  <2>1. ASSUME NEW l \in Lanes, NEW prev \in SUBSET Responses, NEW bad \in BOOLEAN,
                 Create(l, prev, bad)
        PROVE  StepOK
    BY <1>1, <1>4, <2>1, CreateStep
  <2>2. ASSUME NEW s \in Steers, NEW r \in Responses, Steer(s, r) PROVE StepOK
    BY <1>4, <2>2, SteerStep
  <2>3. ASSUME NEW t \in tasks, TaskStep(t) PROVE StepOK
    <3>1. CASE Dispatch(t) \/ PrepareFresh(t) \/ PrepareSuccessor(t) \/ ReserveSuccessor(t)
      BY <1>2, <3>1, DispatchStep, FreshStep, PrepareStep, ReserveTask
    <3>2. CASE FlushOutcomes(t) \/ Register(t) \/ AwaitCreated(t) \/ JoinCancelled(t)
      BY <1>4, <3>2, FlushTask, RegisterTask, AwaitTask, CancelledTask
    <3>3. CASE JoinRun(t) \/ MarkReady(t) \/ CheckParent(t) \/ Failed(t)
      BY <3>3, JoinTask, MarkTask, CheckTask, FailedTask
    <3>4. CASE Finish(t)
      BY <1>1, <1>4, <3>4, FinishTask
    <3> QED BY <2>3, <3>1, <3>2, <3>3, <3>4 DEF TaskStep
  <2>4. ASSUME NEW r \in Responses,
               PublishCreated(r) \/ EndRun(r) \/ LoseRelay(r) \/ Emit(r) \/ CleanUp(r)
        PROVE  StepOK
    <3>1. CASE EndRun(r) \/ LoseRelay(r)
      BY <1>1, <3>1, EndStep
    <3>2. CASE Emit(r)
      BY <1>1, <3>2, WorkerStep
    <3>3. CASE PublishCreated(r) \/ CleanUp(r)
      BY <3>3, CreatedStep, CleanUpStep
    <3> QED BY <2>4, <3>1, <3>2, <3>3
  <2>5. CASE ExpireRoutes \/ Expire \/ BeginDraining \/ UNCHANGED vars
    BY <1>1, <2>5, ExpiryStep
  <2>6. ~(Disconnect \/ RelayFailed \/ Drained)
    BY <1>4 DEF Disconnect, RelayFailed, Drained
  <2> QED BY <2>1, <2>2, <2>3, <2>4, <2>5, <2>6 DEF Next
<1> QED BY <1>3, <1>4

(* Both inductive invariants hold in every state of every connection.      *)
LEMMA FatesHold == Spec => [](Inv /\ FateInv)
<1>1. Init => Inv
  BY InitInv
<1>2. Init => FateInv
  <2>1. Init => Blank
    BY DEF Init, Blank
  <2> QED BY <2>1, BlankFates
<1>3. Inv /\ FateInv /\ [Next]_vars => Inv' /\ FateInv'
  BY InvStep, FatesStep DEF StepOK
<1> QED BY <1>1, <1>2, <1>3, PTL DEF Spec

(* EachSteerOnce, whatever the number of lanes, requests and steers: an    *)
(* accepted update reaches at most one created successor, never one that   *)
(* was created and also a failure that invites the client to repeat it,    *)
(* and while the connection lives it never disappears: a target owns it, a *)
(* created successor carries it, or its failure is reported (steering.rs). *)
THEOREM EverySteerOnce == Spec => []EachSteerOnce
<1>1. Inv /\ FateInv => EachSteerOnce
  <2> SUFFICES ASSUME Inv, FateInv PROVE EachSteerOnce
    OBVIOUS
  <2>1. TypeOK /\ AppliedInv
    BY DEF Inv, FateInv
  <2>2. \A s \in Steers : \A r \in Responses : r \in AppliedBy(s) <=> Applies(r, s)
    BY DEF AppliedBy, Applies, Carried
  <2>3. ASSUME NEW s \in Steers PROVE Cardinality(AppliedBy(s)) <= 1
    <3>1. AppliedBy(s) \subseteq Responses
      BY DEF AppliedBy
    <3>2. \A r, q \in AppliedBy(s) : r = q
      BY <2>1, <2>2, <3>1 DEF AppliedInv
    <3>3. CASE AppliedBy(s) = {}
      BY <3>3, FS_EmptySet
    <3>4. CASE AppliedBy(s) # {}
      <4>1. PICK r \in AppliedBy(s) : TRUE
        BY <3>4
      <4>2. AppliedBy(s) = {r}
        BY <3>2, <4>1
      <4> QED BY <4>2, FS_Singleton
    <3> QED BY <3>3, <3>4
  <2>4. ASSUME NEW s \in Steers, Returned(s) PROVE AppliedBy(s) = {}
    <3>1. \A r \in Responses : ~Applies(r, s)
      BY <2>1, <2>4 DEF AppliedInv
    <3>2. AppliedBy(s) \subseteq Responses
      BY DEF AppliedBy
    <3> QED BY <2>2, <3>1, <3>2
  <2>5. ASSUME NEW s \in Steers, fate[s] = "owned"
        PROVE  \/ \E r \in Responses : s \in ToSet(Entries(target[r]))
               \/ AppliedBy(s) # {}
               \/ Returned(s)
    BY <2>1, <2>2, <2>5 DEF AppliedInv, Held
  <2> QED BY <2>1, <2>3, <2>4, <2>5 DEF EachSteerOnce, AppliedOnce, NothingLost
<1> QED BY FatesHold, <1>1, PTL

(* OutcomesInOrder, whatever the number of lanes, requests and steers: the *)
(* client learns that an update was accepted before the successor that     *)
(* carries it is created (flush_outcomes), nothing is added to the batch a *)
(* successor was prepared with, and no completion callback reopens a       *)
(* closed target (mark_ready, release).                                    *)
THEOREM OutcomesAlwaysInOrder == Spec => OutcomesInOrder
<1>1. Inv /\ FateInv /\ [Next]_vars => [ToldBeforeCreated /\ KeepsSealed]_vars
  BY FatesStep DEF StepOK
<1> QED BY FatesHold, <1>1, PTL DEF Spec, OutcomesInOrder
=============================================================================
