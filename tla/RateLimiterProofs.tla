---------------------------- MODULE RateLimiterProofs ----------------------------
(***************************************************************************)
(* Proofs about the rate limiter for every interval, burst, size of the    *)
(* map, sweep interval and lock delay, and every number of callers.        *)
(***************************************************************************)
EXTENDS RateLimiter, FiniteSetTheorems, TLAPS

-----------------------------------------------------------------------------
(* The inductive invariant *)

(* A request that waits for the lock is of one caller, and read the clock  *)
(* a bounded time ago.                                                     *)
WaitInv ==
    \A r \in Requests : request[r].phase = "waiting" =>
      /\ \E k \in Callers : request[r].key = {k}
      /\ request[r].now <= clock
      /\ clock <= request[r].now + MaxDelay

(* Where the arrival time of a bucket must be after its i-th grant and all *)
(* that followed, and what the sweeps since then may have cost.            *)
Due(b, i) == granted[b][i].now + (Len(granted[b]) - i + 1) * Interval
Slack(b, i) == MaxDelay * (era[b] - granted[b][i].era)

(* A bucket's arrival time accounts for every grant, up to the slack of    *)
(* its sweeps; a forgotten bucket's last arrival time has passed.          *)
ArrivalInv ==
    \A b \in Buckets : \A i \in DOMAIN granted[b] :
      /\ \A a \in arrivals[b] : Due(b, i) <= a + Slack(b, i)
      /\ arrivals[b] = {} => Due(b, i) + MaxDelay <= clock + Slack(b, i)

(* What a limited caller was told covers its bucket's arrival time.        *)
PromiseInv ==
    \A b \in Buckets : \A p \in promise[b], a \in arrivals[b] : a <= p + Tolerance

(* The overflow bucket is the only one beyond the limit of the map.        *)
MapInv ==
    /\ IsFiniteSet(Tracked(arrivals))
    /\ Cardinality(Tracked(arrivals) \ {Overflow}) <= MaxKeys

(* The inductive invariant.                                                *)
Inv == TypeOK /\ WaitInv /\ ArrivalInv /\ RateBounded /\ PromiseInv /\ MapInv

-----------------------------------------------------------------------------
(* Arithmetic *)

(* One more sweep, or one more grant, is one more delay or interval.       *)
LEMMA OneMore == \A n \in Int, m \in Int : n * (m + 1) = n * m + n /\ (m + 1) * n = m * n + n
OBVIOUS

(* The tolerance is a number of ticks.                                     *)
LEMMA ToleranceType == Tolerance \in Nat
<1>1. \A n, m \in Nat : n * m \in Nat
  OBVIOUS
<1>2. Interval \in Nat /\ Burst - 1 \in Nat
  BY ConstantsAssumption
<1> QED BY <1>1, <1>2 DEF Tolerance

(* Whole seconds never fall short of the wait they round.                  *)
LEMMA CeilingCovers ==
    ASSUME NEW wait \in Nat, wait > 0
    PROVE  Ceiling(wait) \in Nat /\ wait <= Ceiling(wait)
<1> DEFINE up == (wait + Second - 1) \div Second
<1>1. Second \in Nat /\ Second > 0
  BY ConstantsAssumption
<1>2. /\ up \in Int /\ Second * up <= wait + Second - 1
      /\ wait + Second - 1 < Second * up + Second
  BY <1>1
<1>3. up > 0
  BY <1>1, <1>2
<1>4. \A n, m \in Nat : n * m \in Nat
  OBVIOUS
<1> HIDE DEF up
<1>5. CASE up > 1
  BY <1>1, <1>2, <1>4, <1>5 DEF Ceiling, up
<1>6. CASE up = 1
  BY <1>1, <1>2, <1>6 DEF Ceiling, up
<1> QED BY <1>2, <1>3, <1>5, <1>6

-----------------------------------------------------------------------------
(* A check under the lock *)

(* A sweep forgets a bucket whole, and only after its arrival time; what   *)
(* it does not forget it leaves alone.                                     *)
LEMMA SweptFacts ==
    ASSUME TypeOK, NEW k, NEW now \in Nat
    PROVE  /\ Swept(k, now) \in [Buckets -> SUBSET Nat]
           /\ \A b \in Buckets :
                \/ Swept(k, now)[b] = arrivals[b]
                \/ /\ Swept(k, now)[b] = {} /\ arrivals[b] # {}
                   /\ \A a \in arrivals[b] : a <= now
<1>1. /\ arrivals \in [Buckets -> SUBSET Nat]
      /\ \A b \in Buckets : \A x, y \in arrivals[b] : x = y
  BY DEF TypeOK
<1>2. CASE HasRoom(arrivals, k) \/ ~SweepDue(now)
  BY <1>1, <1>2 DEF Swept
<1>3. CASE ~(HasRoom(arrivals, k) \/ ~SweepDue(now))
  <2>1. Swept(k, now) = Kept(now)
    BY <1>3 DEF Swept
  <2>2. Kept(now) \in [Buckets -> SUBSET Nat]
    BY <1>1 DEF Kept
  <2>3. ASSUME NEW b \in Buckets
        PROVE  \/ Kept(now)[b] = arrivals[b]
               \/ /\ Kept(now)[b] = {} /\ arrivals[b] # {}
                  /\ \A a \in arrivals[b] : a <= now
    <3>1. Kept(now)[b] = {a \in arrivals[b] : a > now}
      BY DEF Kept
    <3>2. CASE \E a \in arrivals[b] : a > now
      BY <1>1, <3>1, <3>2
    <3>3. CASE ~\E a \in arrivals[b] : a > now
      <4>1. \A a \in arrivals[b] : a <= now
        BY <1>1, <3>3
      <4> QED BY <3>1, <3>3, <4>1
    <3> QED BY <3>2, <3>3
  <2> QED BY <2>1, <2>2, <2>3
<1> QED BY <1>2, <1>3

(* A request is charged to its caller's bucket or the overflow bucket.     *)
LEMMA AdmitFacts ==
    ASSUME NEW k \in Callers, NEW now
    PROVE  /\ AdmitKey(k, now) \in Buckets
           /\ AdmitKey(k, now) = k => HasRoom(Swept(k, now), k)
           /\ AdmitKey(k, now) # k => AdmitKey(k, now) = Overflow
BY ConstantsAssumption DEF AdmitKey, Buckets

(* A bucket's arrival time is never in the past.                           *)
LEMMA ArrivalFacts ==
    ASSUME NEW m \in [Buckets -> SUBSET Nat], NEW b \in Buckets, NEW now \in Nat,
           \A x, y \in m[b] : x = y
    PROVE  /\ Arrival(m, b, now) \in Nat /\ now <= Arrival(m, b, now)
           /\ \A a \in m[b] : a <= Arrival(m, b, now)
           /\ Arrival(m, b, now) # now => Arrival(m, b, now) \in m[b]
<1>1. CASE \E t \in m[b] : t > now
  <2>1. Arrival(m, b, now) \in m[b]
    BY <1>1 DEF Arrival
  <2> QED BY <1>1, <2>1
<1>2. CASE ~\E t \in m[b] : t > now
  BY <1>2 DEF Arrival
<1> QED BY <1>1, <1>2

(* What a check reads and does: m is the map after a possible sweep, b the *)
(* bucket it charges and at the bucket's arrival time.                     *)
Checks(r, k, m, b, at) ==
    LET now == request[r].now IN
    /\ m \in [Buckets -> SUBSET Nat]
    /\ \A c \in Buckets : \A x, y \in m[c] : x = y
    /\ \A c \in Buckets :
         \/ m[c] = arrivals[c] /\ era'[c] = era[c]
         \/ /\ m[c] = {} /\ arrivals[c] # {} /\ era'[c] = era[c] + 1
            /\ \A a \in arrivals[c] : a <= now
    /\ b \in Buckets /\ b = AdmitKey(k, now)
    /\ b = k => Cardinality(Tracked(m)) < MaxKeys \/ m[k] # {}
    /\ b # k => b = Overflow
    /\ at \in Nat /\ now <= at
    /\ \A a \in m[b] : a <= at
    /\ at # now => at \in m[b]

Grants(r, m, b, at) ==
    LET now == request[r].now IN
    /\ at <= now + Tolerance
    /\ arrivals' = [m EXCEPT ![b] = {at + Interval}]
    /\ request' = [request EXCEPT ![r].phase = "allowed"]
    /\ granted' = [granted EXCEPT ![b] = Append(@, [now |-> now, era |-> era'[b]])]
    /\ promise' = [promise EXCEPT ![b] = {}]

Limits(r, m, b, at) ==
    LET now == request[r].now IN
    /\ now + Tolerance < at
    /\ arrivals' = m
    /\ request' = [request EXCEPT ![r].phase = "limited"]
    /\ granted' = granted
    /\ promise' = [promise EXCEPT ![b] = {now + Ceiling(at - Tolerance - now)}]

(* A check is a sweep that may come first, the choice of a bucket, and one *)
(* of the two outcomes.                                                    *)
LEMMA CheckCases ==
    ASSUME TypeOK, WaitInv, NEW r \in Requests, Check(r)
    PROVE  \E k, m, b, at :
             /\ k \in Callers
             /\ request[r].phase = "waiting" /\ request[r].key = {k}
             /\ request[r].now \in Nat /\ clock' = clock
             /\ nextSweep' \subseteq Nat /\ era' \in [Buckets -> Nat]
             /\ Checks(r, k, m, b, at)
             /\ Grants(r, m, b, at) \/ Limits(r, m, b, at)
<1>1. request[r].phase = "waiting" /\ request[r].now \in Nat /\ clock' = clock
  BY DEF Check, TypeOK, Request
<1>2. PICK k \in Callers : request[r].key = {k}
  BY <1>1 DEF WaitInv
<1> DEFINE now == request[r].now
           m == Swept(k, now)
           b == AdmitKey(k, now)
           at == Arrival(m, b, now)
<1>3. /\ nextSweep' = IF HasRoom(arrivals, k) \/ ~SweepDue(now) THEN nextSweep
                      ELSE {now + SweepInterval}
      /\ era' = [c \in Buckets |-> IF m[c] = arrivals[c] THEN era[c] ELSE era[c] + 1]
      /\ \/ /\ Within(at, now)
            /\ arrivals' = Charged(m, b, at)
            /\ request' = [request EXCEPT ![r].phase = "allowed"]
            /\ granted' = [granted EXCEPT ![b] = Append(@, [now |-> now, era |-> era'[b]])]
            /\ promise' = [promise EXCEPT ![b] = {}]
         \/ /\ ~Within(at, now)
            /\ arrivals' = m
            /\ request' = [request EXCEPT ![r].phase = "limited"]
            /\ granted' = granted
            /\ promise' = [promise EXCEPT ![b] = {now + Ceiling(at - Tolerance - now)}]
  BY <1>2 DEF Check
<1>4. /\ m \in [Buckets -> SUBSET Nat]
      /\ \A c \in Buckets : \/ m[c] = arrivals[c]
                            \/ /\ m[c] = {} /\ arrivals[c] # {}
                               /\ \A a \in arrivals[c] : a <= now
  BY <1>1, SweptFacts
<1>5. \A c \in Buckets : \A x, y \in m[c] : x = y
  BY <1>4 DEF TypeOK
<1>6. /\ b \in Buckets
      /\ b = k => HasRoom(m, k)
      /\ b # k => b = Overflow
  BY AdmitFacts
<1>7. /\ at \in Nat /\ now <= at
      /\ \A a \in m[b] : a <= at
      /\ at # now => at \in m[b]
  BY <1>1, <1>4, <1>5, <1>6, ArrivalFacts
<1>8. b = AdmitKey(k, now)
  OBVIOUS
<1>9. nextSweep' \subseteq Nat
  BY <1>1, <1>3, ConstantsAssumption DEF TypeOK
<1> HIDE DEF now, m, b, at
<1>10. era' \in [Buckets -> Nat]
  BY <1>3 DEF TypeOK
<1>11. \A c \in Buckets : era'[c] = IF m[c] = arrivals[c] THEN era[c] ELSE era[c] + 1
  BY <1>3
<1>12. b = k => Cardinality(Tracked(m)) < MaxKeys \/ m[k] # {}
  BY <1>6 DEF HasRoom
<1>13. Checks(r, k, m, b, at)
  BY <1>4, <1>5, <1>6, <1>7, <1>8, <1>11, <1>12 DEF Checks, now
<1>14. Grants(r, m, b, at) \/ Limits(r, m, b, at)
  BY <1>1, <1>3, <1>7, ToleranceType DEF Grants, Limits, Within, Charged, now
<1> QED BY <1>1, <1>2, <1>9, <1>10, <1>13, <1>14

-----------------------------------------------------------------------------
(* What a check keeps *)

(* The arguments of the lemmas below: a check that read map m, charged     *)
(* bucket b and found its arrival time at.                                 *)
Checking(r, k, m, b, at) ==
    /\ request[r].phase = "waiting" /\ request[r].key = {k}
    /\ request[r].now \in Nat /\ clock' = clock
    /\ nextSweep' \subseteq Nat /\ era' \in [Buckets -> Nat]
    /\ Checks(r, k, m, b, at)

(* Types.                                                                  *)
LEMMA CheckType ==
    ASSUME TypeOK, NEW r \in Requests, NEW k \in Callers, NEW m, NEW b, NEW at,
           Checking(r, k, m, b, at), Grants(r, m, b, at) \/ Limits(r, m, b, at)
    PROVE  TypeOK'
<1>0. /\ m \in [Buckets -> SUBSET Nat] /\ b \in Buckets /\ at \in Nat
      /\ \A c \in Buckets : \A x, y \in m[c] : x = y
      /\ request[r].now \in Nat
  BY DEF Checking, Checks
<1>1. CASE Grants(r, m, b, at)
  <2>1. at + Interval \in Nat
    BY <1>0, ConstantsAssumption
  <2>2. arrivals' \in [Buckets -> SUBSET Nat]
    BY <1>0, <1>1, <2>1 DEF Grants
  <2>3. \A c \in Buckets : \A x, y \in arrivals'[c] : x = y
    BY <1>0, <1>1 DEF Grants
  <2>4. request' \in [Requests -> Request]
    <3>1. request' = [request EXCEPT ![r].phase = "allowed"]
      BY <1>1 DEF Grants
    <3>2. request \in [Requests -> Request]
      BY DEF TypeOK
    <3> QED BY <3>1, <3>2 DEF Request
  <2> DEFINE grant == [now |-> request[r].now, era |-> era'[b]]
  <2>5. grant \in Grant
    BY <1>0 DEF Checking, Grant
  <2>6. granted' = [granted EXCEPT ![b] = Append(@, grant)]
    BY <1>1 DEF Grants
  <2> HIDE DEF grant
  <2>7. granted' \in [Buckets -> Seq(Grant)]
    BY <1>0, <2>5, <2>6 DEF TypeOK
  <2>8. promise' \in [Buckets -> SUBSET Nat]
    BY <1>1 DEF Grants, TypeOK
  <2> QED BY <2>2, <2>3, <2>4, <2>7, <2>8 DEF TypeOK, Checking
<1>2. CASE Limits(r, m, b, at)
  <2>1. at - Tolerance - request[r].now \in Nat /\ at - Tolerance - request[r].now > 0
    BY <1>0, <1>2, ToleranceType DEF Limits
  <2>2. request[r].now + Ceiling(at - Tolerance - request[r].now) \in Nat
    BY <1>0, <2>1, CeilingCovers
  <2>3. promise' \in [Buckets -> SUBSET Nat]
    BY <1>2, <2>2 DEF Limits, TypeOK
  <2>4. request' \in [Requests -> Request]
    <3>1. request' = [request EXCEPT ![r].phase = "limited"]
      BY <1>2 DEF Limits
    <3>2. request \in [Requests -> Request]
      BY DEF TypeOK
    <3> QED BY <3>1, <3>2 DEF Request
  <2> QED BY <1>0, <1>2, <2>3, <2>4 DEF TypeOK, Checking, Limits
<1> QED BY <1>1, <1>2

(* The other requests wait on.                                             *)
LEMMA CheckWait ==
    ASSUME TypeOK, WaitInv, NEW r \in Requests, NEW k \in Callers, NEW m, NEW b, NEW at,
           Checking(r, k, m, b, at), Grants(r, m, b, at) \/ Limits(r, m, b, at)
    PROVE  WaitInv'
<1>1. /\ request'[r].phase # "waiting"
      /\ \A q \in Requests \ {r} : request'[q] = request[q]
  <2>1. \E p \in {"allowed", "limited"} : request' = [request EXCEPT ![r].phase = p]
    BY DEF Grants, Limits
  <2>2. request \in [Requests -> Request]
    BY DEF TypeOK
  <2> QED BY <2>1, <2>2 DEF Request
<1> QED BY <1>1 DEF WaitInv, Checking

(* Dues and slacks are numbers.                                            *)
LEMMA DueType ==
    ASSUME TypeOK, NEW c \in Buckets, NEW i \in DOMAIN granted[c]
    PROVE  /\ Due(c, i) \in Int /\ Slack(c, i) \in Int
           /\ granted[c][i].now \in Nat /\ granted[c][i].era \in Nat
<1>1. granted[c] \in Seq(Grant) /\ era[c] \in Nat
  BY DEF TypeOK
<1>2. granted[c][i] \in Grant /\ i \in Nat /\ Len(granted[c]) \in Nat
  BY <1>1
<1>3. granted[c][i].now \in Nat /\ granted[c][i].era \in Nat
  BY <1>2 DEF Grant
<1>4. MaxDelay \in Nat /\ Interval \in Nat
  BY ConstantsAssumption
<1>5. /\ \A x, y \in Nat : x - y \in Int /\ x - y + 1 \in Int
      /\ \A x, y \in Int : x * y \in Int
  OBVIOUS
<1>6. Len(granted[c]) - i + 1 \in Int /\ era[c] - granted[c][i].era \in Int
  BY <1>1, <1>2, <1>3, <1>5
<1>7. (Len(granted[c]) - i + 1) * Interval \in Int
  BY <1>4, <1>5, <1>6
<1>8. Slack(c, i) \in Int
  BY <1>4, <1>5, <1>6 DEF Slack
<1> QED BY <1>3, <1>7, <1>8 DEF Due

(* The slack of bucket c's grants once the check has been counted.         *)
NewSlack(c, i) == MaxDelay * (era'[c] - granted[c][i].era)

(* After the sweep, and before the charge, every arrival time accounts for *)
(* its bucket's grants.                                                    *)
LEMMA SweepArrival ==
    ASSUME TypeOK, WaitInv, ArrivalInv, NEW r \in Requests, NEW k \in Callers, NEW m, NEW b,
           NEW at, Checking(r, k, m, b, at), NEW c \in Buckets, NEW i \in DOMAIN granted[c]
    PROVE  /\ Due(c, i) \in Int /\ NewSlack(c, i) \in Int
           /\ \A a \in m[c] : Due(c, i) <= a + NewSlack(c, i)
           /\ m[c] = {} => Due(c, i) + MaxDelay <= clock + NewSlack(c, i)
<1>1. /\ era[c] \in Nat /\ era'[c] \in Nat /\ clock \in Nat
      /\ arrivals[c] \subseteq Nat /\ MaxDelay \in Nat
  BY ConstantsAssumption DEF TypeOK, Checking
<1>2. /\ Due(c, i) \in Int /\ Slack(c, i) \in Int /\ granted[c][i].era \in Nat
  BY DueType
<1>3. \A x, y \in Nat : x - y \in Int
  OBVIOUS
<1>4. NewSlack(c, i) \in Int
  <2>1. era'[c] - granted[c][i].era \in Int
    BY <1>1, <1>2, <1>3
  <2> QED BY <1>1, <2>1 DEF NewSlack
<1>5. /\ \A a \in arrivals[c] : Due(c, i) <= a + Slack(c, i)
      /\ arrivals[c] = {} => Due(c, i) + MaxDelay <= clock + Slack(c, i)
  BY DEF ArrivalInv
<1>6. CASE m[c] = arrivals[c] /\ era'[c] = era[c]
  <2>1. NewSlack(c, i) = Slack(c, i)
    BY <1>6 DEF Slack, NewSlack
  <2> QED BY <1>2, <1>4, <1>5, <1>6, <2>1
<1>7. CASE /\ m[c] = {} /\ arrivals[c] # {} /\ era'[c] = era[c] + 1
           /\ \A a \in arrivals[c] : a <= request[r].now
  <2>1. NewSlack(c, i) = Slack(c, i) + MaxDelay
    <3>1. era'[c] - granted[c][i].era = (era[c] - granted[c][i].era) + 1
      BY <1>1, <1>2, <1>7
    <3>2. era[c] - granted[c][i].era \in Int
      BY <1>1, <1>2
    <3> QED BY <1>1, <3>1, <3>2, OneMore DEF Slack, NewSlack
  <2>2. PICK a \in arrivals[c] : a <= request[r].now
    BY <1>7
  <2>3. request[r].now <= clock /\ request[r].now \in Nat
    BY DEF WaitInv, Checking
  <2>4. Due(c, i) <= a + Slack(c, i) /\ a \in Nat
    BY <1>1, <1>5
  <2> QED BY <1>1, <1>2, <1>4, <1>7, <2>1, <2>2, <2>3, <2>4
<1> QED BY <1>2, <1>4, <1>6, <1>7 DEF Checking, Checks

(* The arrival time a check charges accounts for all earlier grants of its *)
(* bucket: even one that was forgotten was forgotten no longer than a lock *)
(* delay after the check read the clock.                                   *)
LEMMA ChargeArrival ==
    ASSUME TypeOK, WaitInv, ArrivalInv, NEW r \in Requests, NEW k \in Callers, NEW m, NEW b,
           NEW at, Checking(r, k, m, b, at), NEW i \in DOMAIN granted[b]
    PROVE  Due(b, i) \in Int /\ NewSlack(b, i) \in Int /\ Due(b, i) <= at + NewSlack(b, i)
<1>1. b \in Buckets /\ m \in [Buckets -> SUBSET Nat] /\ at \in Nat /\ request[r].now \in Nat
  BY DEF Checking, Checks
<1>2. /\ Due(b, i) \in Int /\ NewSlack(b, i) \in Int
      /\ \A a \in m[b] : Due(b, i) <= a + NewSlack(b, i)
      /\ m[b] = {} => Due(b, i) + MaxDelay <= clock + NewSlack(b, i)
  BY <1>1, SweepArrival
<1>3. clock <= request[r].now + MaxDelay /\ request[r].now <= at /\ clock \in Nat
  BY DEF WaitInv, Checking, Checks, TypeOK
<1>4. MaxDelay \in Nat
  BY ConstantsAssumption
<1>5. CASE m[b] = {}
  BY <1>1, <1>2, <1>3, <1>4, <1>5
<1>6. CASE m[b] # {}
  <2>1. PICK a \in m[b] : TRUE
    BY <1>6
  <2>2. a <= at /\ a \in Nat /\ Due(b, i) <= a + NewSlack(b, i)
    BY <1>1, <1>2, <2>1 DEF Checking, Checks
  <2> QED BY <1>1, <1>2, <2>2
<1> QED BY <1>2, <1>5, <1>6

(* The grants of bucket c after a check: those before, and for the bucket  *)
(* it granted a request on, one more.                                      *)
LEMMA GrantedBy ==
    ASSUME TypeOK, NEW r \in Requests, NEW k \in Callers, NEW m, NEW b, NEW at,
           Checking(r, k, m, b, at), Grants(r, m, b, at)
    PROVE  LET n == Len(granted[b]) + 1 IN
           /\ \A c \in Buckets \ {b} : granted'[c] = granted[c] /\ arrivals'[c] = m[c]
           /\ Len(granted[b]) \in Nat /\ DOMAIN granted[b] = 1 .. Len(granted[b])
           /\ Len(granted'[b]) = n /\ DOMAIN granted'[b] = 1 .. n
           /\ \A i \in DOMAIN granted[b] : granted'[b][i] = granted[b][i]
           /\ granted'[b][n].now = request[r].now /\ granted'[b][n].era = era'[b]
           /\ arrivals'[b] = {at + Interval}
<1>1. b \in Buckets /\ m \in [Buckets -> SUBSET Nat]
  BY DEF Checking, Checks
<1> DEFINE grant == [now |-> request[r].now, era |-> era'[b]]
<1>2. /\ granted' = [granted EXCEPT ![b] = Append(@, grant)]
      /\ arrivals' = [m EXCEPT ![b] = {at + Interval}]
  BY DEF Grants
<1>3. grant.now = request[r].now /\ grant.era = era'[b]
  OBVIOUS
<1> HIDE DEF grant
<1>4. granted \in [Buckets -> Seq(Grant)]
  BY DEF TypeOK
<1>5. granted'[b] = Append(granted[b], grant)
  BY <1>1, <1>2, <1>4
<1>6. granted[b] \in Seq(Grant)
  BY <1>1, <1>4
<1>7. /\ Len(granted[b]) \in Nat /\ DOMAIN granted[b] = 1 .. Len(granted[b])
      /\ Len(granted'[b]) = Len(granted[b]) + 1
      /\ DOMAIN granted'[b] = 1 .. Len(granted[b]) + 1
      /\ \A i \in DOMAIN granted[b] : granted'[b][i] = granted[b][i]
      /\ granted'[b][Len(granted[b]) + 1] = grant
  BY <1>5, <1>6
<1>8. \A c \in Buckets \ {b} : granted'[c] = granted[c] /\ arrivals'[c] = m[c]
  BY <1>1, <1>2, <1>4
<1> QED BY <1>1, <1>2, <1>3, <1>7, <1>8

(* Arrival times keep accounting for every grant.                          *)
LEMMA CheckArrival ==
    ASSUME TypeOK, WaitInv, ArrivalInv, NEW r \in Requests, NEW k \in Callers, NEW m, NEW b,
           NEW at, Checking(r, k, m, b, at), Grants(r, m, b, at) \/ Limits(r, m, b, at)
    PROVE  ArrivalInv'
<1>0. b \in Buckets /\ clock' = clock /\ at \in Nat /\ Interval \in Nat
  BY ConstantsAssumption DEF Checking, Checks
<1>1. ASSUME NEW c \in Buckets, granted'[c] = granted[c], arrivals'[c] = m[c],
             NEW i \in DOMAIN granted'[c]
      PROVE  /\ \A a \in arrivals'[c] : Due(c, i)' <= a + Slack(c, i)'
             /\ arrivals'[c] = {} => Due(c, i)' + MaxDelay <= clock' + Slack(c, i)'
  <2>1. Due(c, i)' = Due(c, i) /\ Slack(c, i)' = NewSlack(c, i)
    BY <1>1 DEF Due, Slack, NewSlack
  <2> QED BY <1>0, <1>1, <2>1, SweepArrival
<1>2. CASE Limits(r, m, b, at)
  <2>1. \A c \in Buckets : granted'[c] = granted[c] /\ arrivals'[c] = m[c]
    BY <1>2 DEF Limits
  <2> QED BY <1>1, <2>1 DEF ArrivalInv
<1>3. CASE Grants(r, m, b, at)
  <2> DEFINE n == Len(granted[b]) + 1
  <2>1. /\ \A c \in Buckets \ {b} : granted'[c] = granted[c] /\ arrivals'[c] = m[c]
        /\ Len(granted[b]) \in Nat /\ DOMAIN granted[b] = 1 .. Len(granted[b])
        /\ Len(granted'[b]) = n /\ DOMAIN granted'[b] = 1 .. n
        /\ \A i \in DOMAIN granted[b] : granted'[b][i] = granted[b][i]
        /\ granted'[b][n].now = request[r].now /\ granted'[b][n].era = era'[b]
        /\ arrivals'[b] = {at + Interval}
    BY <1>3, GrantedBy
  <2>2. ASSUME NEW i \in DOMAIN granted'[b]
        PROVE  Due(b, i)' <= at + Interval + Slack(b, i)'
    <3>1. CASE i \in DOMAIN granted[b]
      <4>1. Due(b, i) \in Int /\ NewSlack(b, i) \in Int /\ Due(b, i) <= at + NewSlack(b, i)
        BY <3>1, ChargeArrival
      <4>2. Slack(b, i)' = NewSlack(b, i)
        BY <2>1, <3>1 DEF Slack, NewSlack
      <4>3. Due(b, i)' = Due(b, i) + Interval
        <5>1. Due(b, i)' = granted[b][i].now + (Len(granted[b]) + 1 - i + 1) * Interval
          <6>1. Due(b, i)' = granted'[b][i].now + (Len(granted'[b]) - i + 1) * Interval
            BY DEF Due
          <6>2. granted'[b][i] = granted[b][i] /\ Len(granted'[b]) = Len(granted[b]) + 1
            BY <2>1, <3>1
          <6> QED BY <6>1, <6>2
        <5>2. Len(granted[b]) - i + 1 \in Int /\ i \in Int
          BY <2>1, <3>1
        <5>3. Len(granted[b]) + 1 - i + 1 = (Len(granted[b]) - i + 1) + 1
          BY <2>1, <5>2
        <5>4. granted[b][i].now \in Nat
          <6>1. granted[b] \in Seq(Grant)
            BY <1>0 DEF TypeOK
          <6>2. granted[b][i] \in Grant
            BY <3>1, <6>1
          <6> QED BY <6>2 DEF Grant
        <5> DEFINE d == Len(granted[b]) - i + 1
        <5>5. (d + 1) * Interval = d * Interval + Interval /\ d * Interval \in Int
          BY <1>0, <5>2, OneMore
        <5>6. Due(b, i) = granted[b][i].now + d * Interval
          BY DEF Due
        <5>7. Due(b, i)' = granted[b][i].now + (d + 1) * Interval
          BY <5>1, <5>3
        <5> HIDE DEF d
        <5> QED BY <1>0, <5>4, <5>5, <5>6, <5>7
      <4> QED BY <1>0, <4>1, <4>2, <4>3
    <3>2. CASE i = n
      <4>1. Slack(b, i)' = 0
        <5>1. era'[b] \in Nat /\ MaxDelay \in Nat
          BY <1>0, ConstantsAssumption DEF Checking
        <5>2. era'[b] - era'[b] = 0 /\ MaxDelay * 0 = 0
          BY <5>1
        <5> QED BY <2>1, <3>2, <5>2 DEF Slack
      <4>2. Due(b, i)' = request[r].now + Interval
        <5>1. n - n + 1 = 1 /\ 1 * Interval = Interval
          BY <1>0, <2>1
        <5> QED BY <2>1, <3>2, <5>1 DEF Due
      <4>3. request[r].now <= at /\ request[r].now \in Nat
        BY DEF Checking, Checks
      <4> QED BY <1>0, <4>1, <4>2, <4>3
    <3> QED BY <2>1, <3>1, <3>2
  <2>3. \A c \in Buckets : \A i \in DOMAIN granted'[c] :
          /\ \A a \in arrivals'[c] : Due(c, i)' <= a + Slack(c, i)'
          /\ arrivals'[c] = {} => Due(c, i)' + MaxDelay <= clock' + Slack(c, i)'
    <3> SUFFICES ASSUME NEW c \in Buckets, NEW i \in DOMAIN granted'[c]
                 PROVE  /\ \A a \in arrivals'[c] : Due(c, i)' <= a + Slack(c, i)'
                        /\ arrivals'[c] = {} => Due(c, i)' + MaxDelay <= clock' + Slack(c, i)'
      OBVIOUS
    <3>1. CASE c = b
      BY <2>1, <2>2, <3>1
    <3>2. CASE c # b
      BY <1>1, <2>1, <3>2
    <3> QED BY <3>1, <3>2
  <2> QED BY <2>3 DEF ArrivalInv
<1> QED BY <1>2, <1>3

(* The rate holds for the grant a check makes.                             *)
LEMMA CheckRate ==
    ASSUME TypeOK, WaitInv, ArrivalInv, RateBounded, NEW r \in Requests, NEW k \in Callers,
           NEW m, NEW b, NEW at, Checking(r, k, m, b, at),
           Grants(r, m, b, at) \/ Limits(r, m, b, at)
    PROVE  RateBounded'
<1>1. CASE Limits(r, m, b, at)
  BY <1>1 DEF Limits, RateBounded
<1>2. CASE Grants(r, m, b, at)
  <2> DEFINE n == Len(granted[b]) + 1
             Rate(g, i, j) == (j - i) * Interval
                                <= Tolerance + g[j].now - g[i].now
                                   + MaxDelay * (g[j].era - g[i].era)
  <2>1. /\ \A c \in Buckets \ {b} : granted'[c] = granted[c]
        /\ Len(granted[b]) \in Nat /\ DOMAIN granted[b] = 1 .. Len(granted[b])
        /\ DOMAIN granted'[b] = 1 .. n
        /\ \A i \in DOMAIN granted[b] : granted'[b][i] = granted[b][i]
        /\ granted'[b][n].now = request[r].now /\ granted'[b][n].era = era'[b]
    BY <1>2, GrantedBy
  <2>2. at <= request[r].now + Tolerance /\ at \in Nat /\ request[r].now \in Nat
    BY <1>2 DEF Grants, Checking, Checks
  <2>3. /\ b \in Buckets /\ era'[b] \in Nat /\ Tolerance \in Nat
        /\ MaxDelay \in Nat /\ Interval \in Nat
    BY ConstantsAssumption, ToleranceType DEF Checking, Checks
  <2>4. ASSUME NEW i \in DOMAIN granted[b] PROVE Rate(granted'[b], i, n)
    <3>1. Due(b, i) \in Int /\ NewSlack(b, i) \in Int /\ Due(b, i) <= at + NewSlack(b, i)
      BY ChargeArrival
    <3>2. granted[b][i].now \in Nat
      <4>1. granted[b] \in Seq(Grant)
        BY <2>3 DEF TypeOK
      <4>2. granted[b][i] \in Grant
        BY <4>1
      <4> QED BY <4>2 DEF Grant
    <3>3. n - i = Len(granted[b]) - i + 1 /\ i \in Int
      BY <2>1
    <3>4. Due(b, i) = granted[b][i].now + (n - i) * Interval
      BY <3>3 DEF Due
    <3>5. (n - i) * Interval \in Int
      BY <2>1, <2>3, <3>3
    <3>6. NewSlack(b, i) = MaxDelay * (granted'[b][n].era - granted'[b][i].era)
      BY <2>1 DEF NewSlack
    <3>7. granted'[b][i].now = granted[b][i].now /\ granted'[b][n].now = request[r].now
      BY <2>1
    <3> HIDE DEF n
    <3>8. (n - i) * Interval <= Tolerance + request[r].now - granted[b][i].now + NewSlack(b, i)
      BY <2>2, <2>3, <3>1, <3>2, <3>4, <3>5
    <3> QED BY <3>6, <3>7, <3>8
  <2>5. Rate(granted'[b], n, n)
    <3>1. n - n = 0 /\ 0 * Interval = 0 /\ era'[b] - era'[b] = 0 /\ MaxDelay * 0 = 0
      BY <2>1, <2>3
    <3> QED BY <2>1, <2>2, <2>3, <3>1
  <2>6. \A i, j \in DOMAIN granted[b] : i <= j => Rate(granted'[b], i, j)
    BY <2>1, <2>3 DEF RateBounded
  <2>7. \A i, j \in DOMAIN granted'[b] : i <= j => Rate(granted'[b], i, j)
    <3> SUFFICES ASSUME NEW i \in 1 .. n, NEW j \in 1 .. n, i <= j
                 PROVE  Rate(granted'[b], i, j)
      BY <2>1
    <3>1. CASE j = n /\ i = n
      BY <2>5, <3>1
    <3>2. CASE j = n /\ i # n
      BY <2>1, <2>4, <3>2
    <3>3. CASE j # n
      <4>1. i \in DOMAIN granted[b] /\ j \in DOMAIN granted[b]
        BY <2>1, <3>3
      <4> HIDE DEF n, Rate
      <4> QED BY <2>6, <4>1
    <3> QED BY <3>1, <3>2, <3>3
  <2>8. \A c \in Buckets \ {b} : \A i, j \in DOMAIN granted'[c] :
          i <= j => Rate(granted'[c], i, j)
    BY <2>1 DEF RateBounded
  <2> QED BY <2>7, <2>8 DEF RateBounded
<1> QED BY <1>1, <1>2

(* What was promised covers the arrival times: a check that limits says so *)
(* itself, and one that grants takes the promise back.                     *)
LEMMA CheckPromise ==
    ASSUME TypeOK, PromiseInv, NEW r \in Requests, NEW k \in Callers, NEW m, NEW b, NEW at,
           Checking(r, k, m, b, at), Grants(r, m, b, at) \/ Limits(r, m, b, at)
    PROVE  PromiseInv'
<1>1. /\ b \in Buckets /\ m \in [Buckets -> SUBSET Nat] /\ at \in Nat
      /\ request[r].now \in Nat /\ Tolerance \in Nat
      /\ \A c \in Buckets : m[c] \subseteq arrivals[c]
      /\ \A a \in m[b] : a <= at
      /\ promise \in [Buckets -> SUBSET Nat]
  BY ToleranceType DEF Checking, Checks, TypeOK
<1>2. CASE Grants(r, m, b, at)
  <2>1. /\ promise'[b] = {}
        /\ \A c \in Buckets \ {b} : promise'[c] = promise[c] /\ arrivals'[c] = m[c]
    BY <1>1, <1>2 DEF Grants
  <2> QED BY <1>1, <2>1 DEF PromiseInv
<1>3. CASE Limits(r, m, b, at)
  <2>1. at - Tolerance - request[r].now \in Nat /\ at - Tolerance - request[r].now > 0
    BY <1>1, <1>3 DEF Limits
  <2> DEFINE p == request[r].now + Ceiling(at - Tolerance - request[r].now)
  <2>2. p \in Nat /\ at <= p + Tolerance
    BY <1>1, <2>1, CeilingCovers
  <2>3. promise' = [promise EXCEPT ![b] = {p}] /\ arrivals' = m
    BY <1>3 DEF Limits
  <2> HIDE DEF p
  <2>4. \A a \in m[b] : a <= p + Tolerance
    BY <1>1, <2>2
  <2> QED BY <1>1, <2>3, <2>4 DEF PromiseInv
<1> QED BY <1>2, <1>3

(* The map stays bounded.                                                  *)
LEMMA CheckMap ==
    ASSUME TypeOK, MapInv, NEW r \in Requests, NEW k \in Callers, NEW m, NEW b, NEW at,
           Checking(r, k, m, b, at), Grants(r, m, b, at) \/ Limits(r, m, b, at)
    PROVE  MapInv'
<1>1. /\ b \in Buckets /\ m \in [Buckets -> SUBSET Nat]
      /\ \A c \in Buckets : m[c] \subseteq arrivals[c]
      /\ b = k => Cardinality(Tracked(m)) < MaxKeys \/ m[k] # {}
      /\ b # k => b = Overflow
      /\ MaxKeys \in Nat
  BY ConstantsAssumption DEF Checking, Checks
<1>2. Tracked(m) \subseteq Tracked(arrivals)
  BY <1>1 DEF Tracked
<1>3. IsFiniteSet(Tracked(m)) /\ IsFiniteSet(Tracked(arrivals) \ {Overflow})
  BY <1>2, FS_Subset DEF MapInv
<1>4. Cardinality(Tracked(m) \ {Overflow}) <= MaxKeys
  <2>1. Tracked(m) \ {Overflow} \subseteq Tracked(arrivals) \ {Overflow}
    BY <1>2
  <2>2. /\ IsFiniteSet(Tracked(m) \ {Overflow})
        /\ Cardinality(Tracked(m) \ {Overflow}) <= Cardinality(Tracked(arrivals) \ {Overflow})
    BY <1>3, <2>1, FS_Subset
  <2>3. /\ Cardinality(Tracked(m) \ {Overflow}) \in Nat
        /\ Cardinality(Tracked(arrivals) \ {Overflow}) \in Nat
    BY <1>3, <2>2, FS_CardinalityType
  <2> QED BY <1>1, <2>2, <2>3 DEF MapInv
<1>5. CASE Limits(r, m, b, at)
  BY <1>3, <1>4, <1>5 DEF Limits, MapInv
<1>6. CASE Grants(r, m, b, at)
  <2>1. Tracked(arrivals') = Tracked(m) \cup {b}
    BY <1>1, <1>6 DEF Grants, Tracked
  <2>2. IsFiniteSet(Tracked(m) \cup {b})
    BY <1>3, FS_AddElement
  <2>3. Cardinality((Tracked(m) \cup {b}) \ {Overflow}) <= MaxKeys
    <3>1. CASE b = Overflow \/ m[b] # {}
      <4>1. (Tracked(m) \cup {b}) \ {Overflow} = Tracked(m) \ {Overflow}
        BY <1>1, <3>1 DEF Tracked
      <4> QED BY <1>4, <4>1
    <3>2. CASE b # Overflow /\ m[b] = {}
      <4>1. Cardinality(Tracked(m)) < MaxKeys
        BY <1>1, <3>2
      <4>2. (Tracked(m) \cup {b}) \ {Overflow} \subseteq Tracked(m) \cup {b}
        OBVIOUS
      <4>3. Cardinality((Tracked(m) \cup {b}) \ {Overflow}) <= Cardinality(Tracked(m) \cup {b})
        BY <2>2, <4>2, FS_Subset
      <4>4. Cardinality(Tracked(m) \cup {b}) <= Cardinality(Tracked(m)) + 1
        <5>1. Cardinality(Tracked(m)) \in Nat
          BY <1>3, FS_CardinalityType
        <5>2. Cardinality(Tracked(m) \cup {b}) =
                IF b \in Tracked(m)
                THEN Cardinality(Tracked(m)) ELSE Cardinality(Tracked(m)) + 1
          BY <1>3, FS_AddElement
        <5> QED BY <5>1, <5>2
      <4>5. /\ Cardinality(Tracked(m)) \in Nat /\ Cardinality(Tracked(m) \cup {b}) \in Nat
            /\ Cardinality((Tracked(m) \cup {b}) \ {Overflow}) \in Nat
        BY <1>3, <2>2, <4>2, FS_Subset, FS_CardinalityType
      <4> QED BY <1>1, <4>1, <4>3, <4>4, <4>5
    <3> QED BY <3>1, <3>2
  <2> QED BY <2>1, <2>2, <2>3 DEF MapInv, Tracked
<1> QED BY <1>5, <1>6

-----------------------------------------------------------------------------
(* The theorems *)

(* Initially no caller was seen.                                           *)
LEMMA InitInv == Init => Inv
<1> SUFFICES ASSUME Init PROVE Inv
  OBVIOUS
<1>1. TypeOK
  <2>1. granted \in [Buckets -> Seq(Grant)]
    BY DEF Init
  <2> QED BY <2>1 DEF Init, TypeOK, Request
<1>2. WaitInv /\ PromiseInv
  BY DEF Init, WaitInv, PromiseInv
<1>3. ArrivalInv /\ RateBounded
  BY DEF Init, ArrivalInv, RateBounded
<1>4. MapInv
  <2>1. Tracked(arrivals) = {} /\ Tracked(arrivals) \ {Overflow} = {}
    BY DEF Init, Tracked
  <2>2. MaxKeys \in Nat
    BY ConstantsAssumption
  <2> QED BY <2>1, <2>2, FS_EmptySet DEF MapInv
<1> QED BY <1>1, <1>2, <1>3, <1>4 DEF Inv

(* Time that passes keeps the invariant.                                   *)
LEMMA TickInv == Inv /\ Tick => Inv'
<1> SUFFICES ASSUME Inv, Tick PROVE Inv'
  OBVIOUS
<1>1. /\ clock' = clock + 1 /\ clock \in Nat /\ MaxDelay \in Nat
      /\ UNCHANGED <<arrivals, nextSweep, request, era, granted, promise>>
      /\ \A r \in Requests : request[r].phase = "waiting" => clock < request[r].now + MaxDelay
  BY ConstantsAssumption DEF Tick, Inv, TypeOK
<1>2. TypeOK'
  BY <1>1 DEF Inv, TypeOK
<1>3. WaitInv'
  <2>1. \A r \in Requests : request[r].now \in Nat
    BY DEF Inv, TypeOK, Request
  <2> QED BY <1>1, <2>1 DEF Inv, WaitInv
<1>4. ArrivalInv'
  <2>1. \A b \in Buckets : \A i \in DOMAIN granted[b] :
          Due(b, i)' = Due(b, i) /\ Slack(b, i)' = Slack(b, i)
    BY <1>1 DEF Due, Slack
  <2>2. \A b \in Buckets : \A i \in DOMAIN granted[b] :
          Due(b, i) \in Int /\ Slack(b, i) \in Int
    BY DueType DEF Inv
  <2> QED BY <1>1, <2>1, <2>2 DEF Inv, ArrivalInv
<1>5. RateBounded' /\ PromiseInv' /\ MapInv'
  BY <1>1 DEF Inv, RateBounded, PromiseInv, MapInv, Tracked
<1> QED BY <1>2, <1>3, <1>4, <1>5 DEF Inv

(* A request that reads the clock keeps the invariant.                     *)
LEMMA ArriveInv ==
    ASSUME Inv, NEW r \in Requests, NEW k \in Callers, Arrive(r, k)
    PROVE  Inv'
<1>1. /\ UNCHANGED <<clock, arrivals, nextSweep, era, granted, promise>>
      /\ request' = [request EXCEPT ![r] = [phase |-> "waiting", key |-> {k}, now |-> clock]]
      /\ clock \in Nat /\ MaxDelay \in Nat /\ request \in [Requests -> Request]
  BY ConstantsAssumption DEF Arrive, Inv, TypeOK
<1>2. [phase |-> "waiting", key |-> {k}, now |-> clock] \in Request
  BY <1>1 DEF Request
<1>3. TypeOK'
  BY <1>1, <1>2 DEF Inv, TypeOK
<1>4. WaitInv'
  BY <1>1 DEF Inv, WaitInv
<1>5. ArrivalInv' /\ RateBounded' /\ PromiseInv' /\ MapInv'
  BY <1>1 DEF Inv, ArrivalInv, Due, Slack, RateBounded, PromiseInv, MapInv, Tracked
<1> QED BY <1>3, <1>4, <1>5 DEF Inv

(* Every behaviour of the limiter satisfies the inductive invariant.       *)
THEOREM Invariance == Spec => []Inv
<1>1. Inv /\ [Next]_vars => Inv'
  <2> SUFFICES ASSUME Inv, [Next]_vars PROVE Inv'
    OBVIOUS
  <2>1. CASE Tick
    BY <2>1, TickInv
  <2>2. ASSUME NEW r \in Requests, NEW k \in Callers, Arrive(r, k) PROVE Inv'
    BY <2>2, ArriveInv
  <2>3. ASSUME NEW r \in Requests, Check(r) PROVE Inv'
    <3>1. PICK k, m, b, at :
            /\ k \in Callers
            /\ Checking(r, k, m, b, at)
            /\ Grants(r, m, b, at) \/ Limits(r, m, b, at)
      BY <2>3, CheckCases DEF Inv, Checking
    <3> QED BY <3>1, CheckType, CheckWait, CheckArrival, CheckRate, CheckPromise, CheckMap
            DEF Inv
  <2>4. CASE UNCHANGED vars
    BY <2>4 DEF vars, Inv, TypeOK, WaitInv, ArrivalInv, Due, Slack, RateBounded, PromiseInv,
                MapInv, Tracked
  <2> QED BY <2>1, <2>2, <2>3, <2>4 DEF Next
<1> QED BY <1>1, InitInv, PTL DEF Spec

(* A bucket grants its burst and then one request per interval, plus the   *)
(* lock delay for each time a sweep forgot it, and the map never holds     *)
(* more than its limit and the overflow bucket, whatever the parameters    *)
(* and the order in which checks take the lock (rate_limit.rs check,       *)
(* admit_key).                                                             *)
THEOREM RateIsSound == Spec => []RateSound
<1>1. Inv => MapBounded
  <2> SUFFICES ASSUME Inv PROVE Cardinality(Tracked(arrivals)) <= MaxKeys + 1
    BY DEF MapBounded
  <2>1. /\ IsFiniteSet(Tracked(arrivals) \ {Overflow})
        /\ Tracked(arrivals) \subseteq (Tracked(arrivals) \ {Overflow}) \cup {Overflow}
    BY FS_Subset DEF Inv, MapInv
  <2> DEFINE rest == Tracked(arrivals) \ {Overflow}
  <2>2. Cardinality(rest) \in Nat /\ Cardinality(rest) <= MaxKeys /\ IsFiniteSet(rest)
    BY <2>1, FS_CardinalityType DEF Inv, MapInv
  <2> HIDE DEF rest
  <2>3. /\ IsFiniteSet(rest \cup {Overflow})
        /\ Cardinality(rest \cup {Overflow}) =
             IF Overflow \in rest THEN Cardinality(rest) ELSE Cardinality(rest) + 1
    BY <2>2, FS_AddElement
  <2>4. Tracked(arrivals) \subseteq rest \cup {Overflow}
    BY <2>1 DEF rest
  <2>5. /\ Cardinality(Tracked(arrivals)) <= Cardinality(rest \cup {Overflow})
        /\ IsFiniteSet(Tracked(arrivals))
    BY <2>3, <2>4, FS_Subset
  <2>6. Cardinality(Tracked(arrivals)) \in Nat /\ MaxKeys \in Nat
    BY <2>5, FS_CardinalityType, ConstantsAssumption
  <2> QED BY <2>2, <2>3, <2>5, <2>6
<1>2. Inv => RateSound
  BY <1>1 DEF Inv, RateSound
<1> QED BY <1>2, Invariance, PTL

(* A limited caller that waits as long as it was told, and whose bucket    *)
(* served nobody else meanwhile, is not limited again (rate_limit.rs       *)
(* ceiling).                                                               *)
THEOREM RetryIsHonest == Spec => RetrySuffices
<1>1. Inv /\ [Next]_vars =>
        [\A r \in Requests, b \in Buckets :
           /\ request[r].phase = "waiting" /\ request'[r].phase = "limited"
           /\ b = AdmitKey(CHOOSE k \in request[r].key : TRUE, request[r].now)
           => \A p \in promise[b] : request[r].now < p]_vars
  <2> SUFFICES ASSUME Inv, Next, NEW r \in Requests, NEW b \in Buckets,
                      request[r].phase = "waiting", request'[r].phase = "limited",
                      b = AdmitKey(CHOOSE k \in request[r].key : TRUE, request[r].now),
                      NEW p \in promise[b]
               PROVE  request[r].now < p
    OBVIOUS
  <2>1. Check(r)
    <3>1. request \in [Requests -> Request]
      BY DEF Inv, TypeOK
    <3>2. ASSUME NEW q \in Requests, NEW k \in Callers, Arrive(q, k) PROVE FALSE
      BY <3>1, <3>2 DEF Arrive
    <3>3. ASSUME NEW q \in Requests, Check(q) PROVE q = r
      <4>1. \E f \in {"allowed", "limited"} : request' = [request EXCEPT ![q].phase = f]
        BY <3>3 DEF Check
      <4> QED BY <3>1, <4>1 DEF Request
    <3> QED BY <3>2, <3>3 DEF Next, Tick
  <2>2. PICK k, m, c, at :
          /\ k \in Callers
          /\ request[r].key = {k}
          /\ Checks(r, k, m, c, at)
          /\ Grants(r, m, c, at) \/ Limits(r, m, c, at)
    BY <2>1, CheckCases DEF Inv
  <2>3. b = c
    BY <2>2 DEF Checks
  <2>4. Limits(r, m, b, at)
    <3>1. request \in [Requests -> Request]
      BY DEF Inv, TypeOK
    <3>2. ~Grants(r, m, b, at)
      BY <3>1 DEF Grants, Request
    <3> QED BY <2>2, <2>3, <3>2
  <2>5. /\ request[r].now + Tolerance < at /\ request[r].now \in Nat /\ Tolerance \in Nat
        /\ at \in Nat /\ p \in Nat
    BY <2>2, <2>3, <2>4, ToleranceType DEF Limits, Checks, Inv, TypeOK, Request
  <2>6. at \in m[b] /\ m[b] \subseteq arrivals[b]
    BY <2>2, <2>3, <2>5 DEF Checks
  <2>7. at <= p + Tolerance
    BY <2>6 DEF Inv, PromiseInv
  <2> QED BY <2>5, <2>7
<1> QED BY <1>1, Invariance, PTL DEF Spec, RetrySuffices

=============================================================================
