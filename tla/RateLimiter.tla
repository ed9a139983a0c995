----------------------------- MODULE RateLimiter -----------------------------
(***************************************************************************)
(* The per-caller request limiter of one gateway process: a GCRA bucket    *)
(* for each caller, kept as its theoretical arrival time, in a map that is *)
(* swept of idle callers when it is full and falls back to one shared      *)
(* overflow bucket.                                                        *)
(*                                                                         *)
(* A check reads the clock before it takes the lock, so the times at which *)
(* checks run under the lock are neither the lock order nor monotone.      *)
(* Time is counted in ticks; Second is the unit of the retry-after header. *)
(***************************************************************************)
EXTENDS Integers, Sequences, FiniteSets

CONSTANTS
    Callers,        \* RateLimitKey: verified principals and peer networks
    Overflow,       \* RateLimitKey::Overflow
    Requests,       \* HTTP requests, and response.create on a WebSocket
    Interval,       \* RateLimitConfig::interval
    Burst,          \* RateLimitConfig::burst
    MaxKeys,        \* MAX_KEYS
    SweepInterval,  \* SWEEP_INTERVAL
    Second,         \* ticks in a second
    MaxDelay,       \* longest time between reading the clock and the lock
    MaxClock        \* bound on the clock, for model checking

ASSUME ConstantsAssumption ==
    /\ Overflow \notin Callers
    /\ {Interval, Burst, Second} \subseteq Nat \ {0}
    /\ {MaxKeys, SweepInterval, MaxDelay, MaxClock} \subseteq Nat

Buckets == Callers \cup {Overflow}

(* RateLimiter::tolerance.                                                 *)
Tolerance == Interval * (Burst - 1)

VARIABLES
    clock,      \* Instant::now()
    arrivals,   \* LimiterState::arrivals, an Option per bucket
    nextSweep,  \* LimiterState::next_sweep, an Option
    request,    \* progress of every request
    era,        \* how often each bucket was forgotten by a sweep
    granted,    \* requests each bucket was charged for, in lock order
    promise     \* the earliest retry a limited caller was told, per bucket

vars == <<clock, arrivals, nextSweep, request, era, granted, promise>>

Request == [phase : {"new", "waiting", "allowed", "limited"}, key : SUBSET Callers,
            now : Nat]

Grant == [now : Nat, era : Nat]

Init ==
    /\ clock = 0
    /\ arrivals = [b \in Buckets |-> {}]
    /\ nextSweep = {}
    /\ request = [r \in Requests |-> [phase |-> "new", key |-> {}, now |-> 0]]
    /\ era = [b \in Buckets |-> 0]
    /\ granted = [b \in Buckets |-> <<>>]
    /\ promise = [b \in Buckets |-> {}]

-----------------------------------------------------------------------------

(* Time passes; a check never waits longer than MaxDelay for the lock.     *)
Tick ==
    /\ clock < MaxClock
    /\ \A r \in Requests :
         request[r].phase = "waiting" => clock < request[r].now + MaxDelay
    /\ clock' = clock + 1
    /\ UNCHANGED <<arrivals, nextSweep, request, era, granted, promise>>

(* enforce_rate_limit or RateLimitCharge::check calls check, which reads   *)
(* the clock.                                                              *)
Arrive(r, k) ==
    /\ request[r].phase = "new"
    /\ request' = [request EXCEPT ![r] = [phase |-> "waiting", key |-> {k}, now |-> clock]]
    /\ UNCHANGED <<clock, arrivals, nextSweep, era, granted, promise>>

Tracked(arr) == {b \in Buckets : arr[b] # {}}

(* A tracked caller, or room for a new one.                                *)
HasRoom(arr, k) == Cardinality(Tracked(arr)) < MaxKeys \/ arr[k] # {}

SweepDue(now) == \A due \in nextSweep : now >= due

(* The callers a sweep keeps.                                              *)
Kept(now) == [b \in Buckets |-> {a \in arrivals[b] : a > now}]

(* admit_key: the map after a possible sweep.                              *)
Swept(k, now) ==
    IF HasRoom(arrivals, k) \/ ~SweepDue(now) THEN arrivals ELSE Kept(now)

(* admit_key: the bucket the request is charged to.                        *)
AdmitKey(k, now) == IF HasRoom(Swept(k, now), k) THEN k ELSE Overflow

(* The bucket's theoretical arrival time, or now for an idle one.          *)
Arrival(arr, b, now) ==
    IF \E t \in arr[b] : t > now THEN CHOOSE t \in arr[b] : TRUE ELSE now

(* Mutant: the tolerance allows one request more than the burst.           *)
WithinLoose(a, now) == a <= now + Tolerance + 1

Within(a, now) == a <= now + Tolerance

(* Mutant: seconds rounded down.                                           *)
CeilingFloor(wait) == Second * (wait \div Second)

(* ceiling: whole seconds that cover the wait, never zero.                 *)
Ceiling(wait) ==
    LET up == (wait + Second - 1) \div Second
    IN Second * (IF up > 1 THEN up ELSE 1)

(* A granted request moves its bucket's arrival time by one interval.      *)
Charged(arr, b, arrival) == [arr EXCEPT ![b] = {arrival + Interval}]

(* RateLimiter::check under the lock.                                      *)
Check(r) ==
    /\ request[r].phase = "waiting"
    /\ \E k \in request[r].key :
         LET now == request[r].now
             map == Swept(k, now)
             b == AdmitKey(k, now)
             arrival == Arrival(map, b, now)
         IN
         /\ nextSweep' = IF HasRoom(arrivals, k) \/ ~SweepDue(now) THEN nextSweep
                         ELSE {now + SweepInterval}
         /\ era' = [c \in Buckets |-> IF map[c] = arrivals[c] THEN era[c] ELSE era[c] + 1]
         /\ \/ /\ Within(arrival, now)
               /\ arrivals' = Charged(map, b, arrival)
               /\ request' = [request EXCEPT ![r].phase = "allowed"]
               /\ granted' = [granted EXCEPT ![b] = Append(@, [now |-> now, era |-> era'[b]])]
               /\ promise' = [promise EXCEPT ![b] = {}]
            \/ /\ ~Within(arrival, now)
               /\ arrivals' = map
               /\ request' = [request EXCEPT ![r].phase = "limited"]
               /\ granted' = granted
               /\ promise' = [promise EXCEPT ![b] = {now + Ceiling(arrival - Tolerance - now)}]
    /\ UNCHANGED clock

Next ==
    \/ Tick
    \/ \E r \in Requests, k \in Callers : Arrive(r, k)
    \/ \E r \in Requests : Check(r)

Spec == Init /\ [][Next]_vars

-----------------------------------------------------------------------------
(* Properties *)

(* Types; a bucket has at most one arrival time.                           *)
TypeOK ==
    /\ clock \in Nat
    /\ arrivals \in [Buckets -> SUBSET Nat]
    /\ \A b \in Buckets : \A x, y \in arrivals[b] : x = y
    /\ nextSweep \subseteq Nat
    /\ request \in [Requests -> Request]
    /\ era \in [Buckets -> Nat]
    /\ granted \in [Buckets -> Seq(Grant)]
    /\ promise \in [Buckets -> SUBSET Nat]

(* Whatever the order in which checks take the lock, and whatever sweeps   *)
(* forget in between, a bucket grants no more than its burst and then one  *)
(* request per interval, between any two of its grants; each time a sweep  *)
(* forgot it, a check that had already read the clock gains at most the    *)
(* time it waited for the lock.                                            *)
RateBounded ==
    \A b \in Buckets : \A i, j \in DOMAIN granted[b] :
      i <= j => (j - i) * Interval
                  <= Tolerance + granted[b][j].now - granted[b][i].now
                     + MaxDelay * (granted[b][j].era - granted[b][i].era)

(* The map holds at most its limit of callers and the overflow bucket.     *)
MapBounded == Cardinality(Tracked(arrivals)) <= MaxKeys + 1

(* The rate holds, in bounded memory (rate_limit.rs).                      *)
RateSound == TypeOK /\ RateBounded /\ MapBounded

(* retry-after is honest: a caller that waits as long as it was told, and  *)
(* whose bucket served nobody else meanwhile, is not limited again.        *)
RetrySuffices ==
    [][\A r \in Requests, b \in Buckets :
         /\ request[r].phase = "waiting" /\ request'[r].phase = "limited"
         /\ b = AdmitKey(CHOOSE k \in request[r].key : TRUE, request[r].now)
         => \A p \in promise[b] : request[r].now < p]_vars

(* What the module's comments say: a burst, then one request per interval, *)
(* and forgetting an idle caller changes nothing.                          *)
RateExact ==
    \A b \in Buckets : \A i, j \in DOMAIN granted[b] :
      i <= j => (j - i) * Interval <= Tolerance + granted[b][j].now - granted[b][i].now

=============================================================================
