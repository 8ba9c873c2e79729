------------------------------- MODULE Quota -------------------------------
(***************************************************************************)
(* The monthly quota of one user and one kind of unit within one month:    *)
(* services/usage_service.py consume_quota, and the three handlers that    *)
(* call it (api/mock_serve.py, api/v1/captures.py, api/v1/scenarios.py).   *)
(*                                                                         *)
(* The live counter is a Redis key.  A request increments it; the one that *)
(* finds it absent (INCR returns 1) counts the rows stored this month and  *)
(* SETs the key to that count.  INCR, the count and the SET are separate   *)
(* awaits, so other requests run in between; the row of an admitted        *)
(* request is committed when its handler has ended (db/database.py).       *)
(***************************************************************************)
EXTENDS Integers, FiniteSets

CONSTANTS Requests,      \* handlers that may be in flight at the same time
          Limit,         \* PLANS[user.plan]["quotas"][kind]
          Unrecorded,    \* TRUE if a handler may answer without storing a row
          MaxForeign,    \* bound: rows of workspaces the user does not own
          MaxArrivals,   \* bound: requests
          MaxEvictions,  \* bound: times the key is lost
          MaxFailures    \* bound: failing calls, killed handlers, purges

ASSUME RequestsAreFinite == IsFiniteSet(Requests)
ASSUME LimitIsPositive   == Limit \in Nat \ {0}
ASSUME UnrecordedIsBool  == Unrecorded \in BOOLEAN
ASSUME BoundsAreNumbers  == /\ MaxForeign \in Nat
                            /\ MaxArrivals \in Nat
                            /\ MaxEvictions \in Nat
                            /\ MaxFailures \in Nat

VARIABLES counter,    \* value of quota:<user>:<kind>:<month>; 0: there is no key
          own,        \* rows stored this month for this user's own resources
          foreign,    \* rows of other owners' workspaces the user belongs to
          pc,         \* where each handler is
          used,       \* its local `used`, and `actual` while it reconciles
          evictions, failures

(* History: what happened so far, read by the properties and the bounds.   *)
VARIABLES arrivals,   \* requests that reached consume_quota
          granted,    \* ... that it allowed
          missed,     \* ... that were allowed and answered without a row
          unmetered,  \* ... that were allowed because a call failed
          forgotten,  \* units below the limit that a SET or an eviction dropped
          serial      \* no request arrived while another one was in flight

data    == <<counter, own, foreign>>
history == <<arrivals, granted, missed, unmetered, forgotten, serial>>
vars    == <<data, pc, used, evictions, failures, history>>

Places == {"idle", "count", "set", "serve", "refused"}

(* What the counter says of the quota: it stops mattering past the limit.  *)
Charged(n) == IF n < Limit THEN n ELSE Limit

Init ==
    /\ counter = 0 /\ own = 0 /\ foreign = 0
    /\ pc = [q \in Requests |-> "idle"]
    /\ used = [q \in Requests |-> 0]
    /\ evictions = 0 /\ failures = 0
    /\ arrivals = 0 /\ granted = 0 /\ missed = 0 /\ unmetered = 0 /\ forgotten = 0
    /\ serial = TRUE

Goto(q, place) == pc' = [pc EXCEPT ![q] = place]

Alone(q) == \A p \in Requests \ {q} : pc[p] = "idle"

\* Deviation: one more is let through.
Allowed_onceMore(n) == n <= Limit + 1

\* Deviation: the unit that reaches the limit is refused.
Allowed_strictly(n) == n < Limit

\* `return used <= limit, used, limit`, and the 429 of the callers.
Allowed(n) == n <= Limit
Decide(q, n) ==
    /\ Goto(q, IF Allowed(n) THEN "serve" ELSE "refused")
    /\ granted' = IF Allowed(n) THEN granted + 1 ELSE granted

\* `used = await client.incr(key)`: the handler that creates the key goes on to
\* reconcile it, every other one decides at once.
Incr(q) ==
    /\ pc[q] = "idle" /\ arrivals < MaxArrivals
    /\ counter' = counter + 1
    /\ used' = [used EXCEPT ![q] = counter + 1]
    /\ arrivals' = arrivals + 1
    /\ serial' = (serial /\ Alone(q))
    /\ IF counter = 0 THEN Goto(q, "count") /\ UNCHANGED granted
                      ELSE Decide(q, counter + 1)
    /\ UNCHANGED <<own, foreign, evictions, failures, missed, unmetered, forgotten>>

\* _seed_from_db: the committed rows of every workspace the user is a member
\* of.  The unit being consumed, and those in flight, are not among them.
StoredRows == own + foreign

\* Deviation: the count replaces `used` also when it is smaller.
Reconciled_always(n) == n

\* Deviation: the key starts at 1 whatever is stored.
Reconciled_never(n) == 1

\* `if actual > used`, for the handler whose `used` is 1.
Reconciled(n) == IF n > 1 THEN n ELSE 1

Count(q) ==
    /\ pc[q] = "count"
    /\ used' = [used EXCEPT ![q] = Reconciled(StoredRows)]
    /\ Goto(q, "set")
    /\ UNCHANGED <<data, evictions, failures, history>>

(* `if actual > used: await client.set(key, actual)`: whatever the counter *)
(* has become since the INCR is replaced.                                  *)
Replaced(n)  == IF n > 1 THEN n ELSE counter
Dropped(n)   == IF Charged(counter) > Charged(n) THEN Charged(counter) - Charged(n) ELSE 0

Set(q) ==
    /\ pc[q] = "set"
    /\ counter' = Replaced(used[q])
    /\ forgotten' = forgotten + Dropped(Replaced(used[q]))
    /\ Decide(q, used[q])
    /\ UNCHANGED <<own, foreign, used, evictions, failures, arrivals, missed, unmetered, serial>>

\* A handler that was allowed stores its row: WebhookCapture, ScenarioRun,
\* MockRequestLog.
Record(q) ==
    /\ pc[q] = "serve"
    /\ own' = own + 1
    /\ Goto(q, "idle")
    /\ UNCHANGED <<counter, foreign, used, evictions, failures, history>>

\* ... or, serving a mock, answers without one: 404, 405, static data, a
\* simulated error.
Miss(q) ==
    /\ Unrecorded /\ pc[q] = "serve"
    /\ Goto(q, "idle")
    /\ missed' = missed + 1
    /\ UNCHANGED <<data, used, evictions, failures, arrivals, granted, unmetered, forgotten, serial>>

Refuse(q) ==
    /\ pc[q] = "refused"
    /\ Goto(q, "idle")
    /\ UNCHANGED <<data, used, evictions, failures, history>>

\* `except Exception: return True`: a call to Redis or the count fails and the
\* request is let through, with the key as it was left (SET may have happened
\* when EXPIREAT fails).
Unavailable(q) ==
    /\ failures < MaxFailures /\ failures' = failures + 1
    /\ \/ /\ pc[q] = "idle" /\ arrivals < MaxArrivals
          /\ arrivals' = arrivals + 1
          /\ serial' = (serial /\ Alone(q))
          /\ UNCHANGED <<counter, forgotten>>
       \/ /\ pc[q] \in {"count", "set"}
          /\ UNCHANGED <<counter, forgotten, arrivals, serial>>
       \/ /\ pc[q] = "set"
          /\ counter' = Replaced(used[q])
          /\ forgotten' = forgotten + Dropped(Replaced(used[q]))
          /\ UNCHANGED <<arrivals, serial>>
    /\ Goto(q, "serve")
    /\ granted' = granted + 1 /\ unmetered' = unmetered + 1
    /\ UNCHANGED <<own, foreign, used, evictions, missed>>

\* The handler raises, or its process dies: its transaction is rolled back and
\* whatever it did to the key remains.
Die(q) ==
    /\ failures < MaxFailures /\ failures' = failures + 1
    /\ pc[q] # "idle"
    /\ Goto(q, "idle")
    /\ UNCHANGED <<data, used, evictions, history>>

\* Redis restarts or evicts the key.
Evict ==
    /\ evictions < MaxEvictions /\ evictions' = evictions + 1
    /\ counter > 0
    /\ counter' = 0
    /\ forgotten' = forgotten + Charged(counter)
    /\ UNCHANGED <<own, foreign, pc, used, failures, arrivals, granted, missed, unmetered, serial>>

\* purge_older_than with a cutoff within the month, or a deleted resource.
Purge ==
    /\ failures < MaxFailures /\ failures' = failures + 1
    /\ own > 0
    /\ own' \in 0..(own - 1)
    /\ UNCHANGED <<counter, foreign, pc, used, evictions, history>>

\* A request to a workspace the user belongs to and does not own: charged to
\* its owner, on another key, stored where get_usage of this user counts it.
StoreForeign ==
    /\ foreign < MaxForeign
    /\ foreign' = foreign + 1
    /\ UNCHANGED <<counter, own, pc, used, evictions, failures, history>>

Handle(q) == \/ Incr(q) \/ Count(q) \/ Set(q) \/ Record(q) \/ Miss(q)
             \/ Refuse(q) \/ Unavailable(q) \/ Die(q)

Next == (\E q \in Requests : Handle(q)) \/ Evict \/ Purge \/ StoreForeign

Spec == Init /\ [][Next]_vars

-----------------------------------------------------------------------------

At(places) == {q \in Requests : pc[q] \in places}

TypeOK ==
    /\ counter \in Nat /\ own \in Nat /\ foreign \in Nat
    /\ pc \in [Requests -> Places] /\ used \in [Requests -> Nat]
    /\ evictions \in Nat /\ failures \in Nat
    /\ arrivals \in Nat /\ granted \in Nat /\ missed \in Nat
    /\ unmetered \in Nat /\ forgotten \in Nat /\ serial \in BOOLEAN
    /\ \A q \in Requests : pc[q] \in {"count", "set"} => used[q] >= 1

\* What the counter is worth: every unit admitted beyond the limit is one that
\* an eviction dropped, that a SET overwrote, or that a failing call let
\* through, and a handler still reconciling has its unit set aside.  Interleaved
\* INCRs cannot admit one unit more.
AdmissionsAccountedFor ==
    granted + Cardinality(At({"count", "set"}))
        <= Charged(counter) + forgotten + unmetered

\* Nobody is locked out early: a request is refused only after more than Limit
\* units were asked for, whatever was evicted, reconciled twice or lost.  (Rows
\* of foreign workspaces count as asked for: the seed counts them.)
NobodyIsRefusedEarly ==
    At({"refused"}) # {} => arrivals + foreign > Limit

\* Requests that never overlap, none of which fails, get at most one unit more
\* than the plan, however often the key is evicted: the count leaves out the
\* unit being consumed, but the next count sees it.
OneOverAtMost == serial /\ failures = 0 => own <= Limit + 1
=============================================================================
