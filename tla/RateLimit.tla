----------------------------- MODULE RateLimit -----------------------------
(***************************************************************************)
(* The fixed-window limit of one key: services/rate_limit.py, as the       *)
(* middleware of main.py uses it for the public paths.                     *)
(*                                                                         *)
(* A hit increments a Redis key; the hit that created the key starts its   *)
(* clock with a second command.  When any call fails the hit is counted in *)
(* a dictionary of the process instead.  Time is a number of ticks, Window *)
(* of them to a window.                                                    *)
(***************************************************************************)
EXTENDS Integers, FiniteSets

CONSTANTS Hits,        \* requests that may be in flight at the same time
          Limit,       \* hits allowed per window
          Window,      \* its length in ticks
          Saturation,  \* bound: counts beyond the limit are not told apart
          MaxOutages,  \* bound: times Redis becomes unreachable
          MaxLosses    \* bound: times a store loses its counts

ASSUME LimitIsPositive == Limit \in Nat \ {0} /\ Window \in Nat \ {0}
ASSUME SaturationIsPastLimit == Saturation \in Nat /\ Saturation > Limit + 1
ASSUME FaultsAreBounded == MaxOutages \in Nat /\ MaxLosses \in Nat

VARIABLES count,     \* value of ratelimit:<key>; 0: there is no key
          ttl,       \* ticks until it expires; 0: no clock is running
          local,     \* _local[key]: its count, 0 when absent
          localTtl,  \* ticks until its window ends
          place, counted, \* where each hit is, and the INCR result it holds
          up,        \* Redis can be reached
          outages, losses,
          recent     \* history: hits admitted in the last t ticks, for every t

redis    == <<count, ttl>>
fallback == <<local, localTtl>>
faults   == <<up, outages, losses>>
rateVars == <<redis, fallback, place, counted, faults, recent>>

Up(n) == IF n < Saturation THEN n + 1 ELSE n

RateInit ==
    /\ count = 0 /\ ttl = 0 /\ local = 0 /\ localTtl = 0
    /\ place = [h \in Hits |-> "idle"] /\ counted = [h \in Hits |-> 0]
    /\ up = TRUE /\ outages = 0 /\ losses = 0
    /\ recent = [t \in 1..Window |-> 0]

Move(h, p) == place' = [place EXCEPT ![h] = p]

Admit == recent' = [t \in 1..Window |-> recent[t] + 1]

\* Deviation: one more is admitted.
Exceeds_onceMore(n) == n > Limit + 1

\* `if count > limit`
Exceeds(n) == n > Limit

\* Deviation: every hit restarts the clock.
StartsClock_always(n) == n >= 1

\* `if count == 1`
StartsClock(n) == n = 1

\* What a hit does with the value INCR returned, up to its next await: start
\* the clock, ask for the TTL to report, or return.
AfterIncr(h, n) ==
    \/ StartsClock(n) /\ Move(h, "expire") /\ UNCHANGED recent
    \/ ~StartsClock(n) /\ Exceeds(n) /\ Move(h, "ttl") /\ UNCHANGED recent
    \/ ~StartsClock(n) /\ ~Exceeds(n) /\ Admit /\ UNCHANGED place

Incr(h) ==
    /\ up /\ place[h] = "idle"
    /\ count' = Up(count)
    /\ counted' = [counted EXCEPT ![h] = count']
    /\ AfterIncr(h, count')
    /\ UNCHANGED <<ttl, fallback, faults>>

\* Deviation: EXPIRE leaves a clock behind although the key has gone.
Clock_withoutKey == Window

\* EXPIRE does nothing to a key that has gone.
Clock == IF count > 0 THEN Window ELSE 0

SendExpire(h) ==
    /\ up /\ place[h] = "expire"
    /\ ttl' = Clock
    /\ \/ Exceeds(counted[h]) /\ Move(h, "ttl") /\ UNCHANGED recent
       \/ ~Exceeds(counted[h]) /\ Move(h, "idle") /\ Admit
    /\ UNCHANGED <<count, fallback, counted, faults>>

Reject(h) ==
    /\ up /\ place[h] = "ttl"
    /\ Move(h, "idle")
    /\ UNCHANGED <<redis, fallback, counted, faults, recent>>

\* _local_hit
LocalHit ==
    LET n == IF localTtl = 0 THEN 1 ELSE Up(local) IN
    /\ local' = n
    /\ localTtl' = IF localTtl = 0 THEN Window ELSE localTtl
    /\ IF Exceeds(n) THEN UNCHANGED recent ELSE Admit

\* `except Exception`: while Redis cannot be reached every call fails; Redis may
\* have executed it before the reply was lost.
Unavailable(h) ==
    /\ ~up
    /\ \/ UNCHANGED redis
       \/ place[h] = "idle" /\ count' = Up(count) /\ UNCHANGED ttl
       \/ place[h] = "expire" /\ ttl' = Clock /\ UNCHANGED count
    /\ LocalHit
    /\ Move(h, "idle")
    /\ UNCHANGED <<counted, faults>>

Outage ==
    /\ up /\ outages < MaxOutages
    /\ up' = FALSE /\ outages' = outages + 1
    /\ UNCHANGED <<redis, fallback, place, counted, losses, recent>>

Recover ==
    /\ ~up /\ up' = TRUE
    /\ UNCHANGED <<redis, fallback, place, counted, outages, losses, recent>>

\* The process dies, and its dictionary with it.
Restart ==
    /\ losses < MaxLosses /\ losses' = losses + 1
    /\ place' = [h \in Hits |-> "idle"]
    /\ local' = 0 /\ localTtl' = 0
    /\ UNCHANGED <<redis, counted, up, outages, recent>>

\* Redis evicts the key or restarts without it.
Lose ==
    /\ losses < MaxLosses /\ losses' = losses + 1
    /\ count > 0
    /\ count' = 0 /\ ttl' = 0
    /\ UNCHANGED <<fallback, place, counted, up, outages, recent>>

Tick ==
    /\ ttl' = IF ttl > 0 THEN ttl - 1 ELSE 0
    /\ count' = IF ttl = 1 THEN 0 ELSE count
    /\ localTtl' = IF localTtl > 0 THEN localTtl - 1 ELSE 0
    /\ local' = IF localTtl <= 1 THEN 0 ELSE local
    /\ recent' = [t \in 1..Window |-> IF t = 1 THEN 0 ELSE recent[t - 1]]
    /\ UNCHANGED <<place, counted, faults>>

Handle(h) == Incr(h) \/ SendExpire(h) \/ Reject(h) \/ Unavailable(h)

RateNext == (\E h \in Hits : Handle(h)) \/ Outage \/ Recover
            \/ Restart \/ Lose \/ Tick

RateSpec == RateInit /\ [][RateNext]_rateVars

\* Time passes, and the event loop goes on with a hit whose reply has arrived.
FairRateSpec == RateSpec /\ WF_rateVars(Tick) /\ \A h \in Hits : WF_rateVars(SendExpire(h))

-----------------------------------------------------------------------------

Starting == {h \in Hits : place[h] = "expire"}

RateTypeOK ==
    /\ count \in 0..Saturation /\ ttl \in 0..Window
    /\ local \in 0..Saturation /\ localTtl \in 0..Window
    /\ place \in [Hits -> {"idle", "expire", "ttl"}] /\ counted \in [Hits -> 0..Saturation]
    /\ up \in BOOLEAN /\ outages \in 0..MaxOutages /\ losses \in 0..MaxLosses
    /\ recent \in [1..Window -> Nat]
    /\ ttl > 0 => count > 0
    /\ localTtl > 0 <=> local > 0

\* What a fixed window promises of ANY stretch of Window ticks, not only of its
\* own: at most two windows' worth, two more from the dictionary once Redis was
\* unreachable, and one more whenever a store lost its counts.
SlidingBound ==
    LET stores == IF outages = 0 THEN 1 ELSE 2 IN
    recent[Window] <= Limit * (2 * stores + losses)

\* A client that keeps trying while it is refused does not prolong its window: as
\* long as no call fails and no process dies, the count it ran into goes away.
WindowEnds == (count > Limit) ~> (count = 0 \/ outages + losses > 0)

\* "a Redis outage must not take sign-in down with it": a key past its limit has
\* a clock that will let its clients in again.
OutageLocksNobodyOut ==
    count > Limit /\ Starting = {} => ttl > 0
=============================================================================
