-------------------------- MODULE MockPath_proofs --------------------------
(***************************************************************************)
(* Proofs about what a request to a mock meets on its way: the rate limit   *)
(* that the middleware of main.py applies to its path (RateLimit), then the *)
(* sequence of the endpoint that answers it (MockSequence).                 *)
(*                                                                         *)
(* About MockSequence, for any handlers, steps and bounds: the type         *)
(* invariant, and with Counting the order in which one caller after the     *)
(* other gets the steps.                                                    *)
(*                                                                         *)
(* About RateLimit, for any limit, window and number of hits in flight: the *)
(* bound on what any stretch of one window's length may admit.  RateInv     *)
(* says it of every shorter stretch as well: what a store admitted in the   *)
(* last t ticks is at most its count, and one full window more only if the  *)
(* window it counts for is younger than t.  A hit that has been counted and *)
(* still waits for EXPIRE is owed its place; there is one such hit for the  *)
(* key that has no clock, and one for each loss of a store.                 *)
(***************************************************************************)
EXTENDS MockSequence, RateLimit, FiniteSetTheorems, TLAPS

-----------------------------------------------------------------------------
(* The step arithmetic.                                                    *)

\* What is picked and what is stored are positions of the sequence that was read.
LEMMA PositionsStayInside ==
    ASSUME NEW p \in Nat, NEW n \in 1..MaxSteps, NEW looping \in BOOLEAN
    PROVE  /\ Picked(p, n) \in 0..(n - 1) /\ Picked(p, n) \in 0..(MaxSteps - 1)
           /\ NextStep(p, n, looping) \in 0..(n - 1)
           /\ NextStep(p, n, looping) \in 0..(MaxSteps - 1)
BY StepsArePositive DEF Picked, NextStep

\* Inside the sequence the position itself is picked, and the next one is at most
\* one further.
LEMMA OneStepAtATime ==
    ASSUME NEW n \in 1..MaxSteps, NEW p \in 0..(n - 1), NEW looping \in BOOLEAN
    PROVE  Picked(p, n) = p /\ NextStep(p, n, looping) <= p + 1
BY StepsArePositive DEF Picked, NextStep

-----------------------------------------------------------------------------
(* Type correctness.                                                       *)

LEMMA TypeInit == Init => TypeOK
<1> SUFFICES ASSUME Init PROVE TypeOK
  OBVIOUS
<1> USE StepsArePositive DEF Init
<1>1. length \in 0..MaxSteps
  OBVIOUS
<1>2. loop \in BOOLEAN /\ ambiguous \in BOOLEAN
  OBVIOUS
<1>3. position \in 0..(MaxSteps - 1)
  OBVIOUS
<1>4. /\ pc \in [Handlers -> {"idle", "steps", "get", "set"}]
      /\ sawLoop \in [Handlers -> BOOLEAN]
      /\ sawLength \in [Handlers -> 0..MaxSteps]
      /\ current \in [Handlers -> 0..(MaxSteps - 1)]
  OBVIOUS
<1>5. \A h \in Handlers : pc[h] \notin {"get", "set"}
  OBVIOUS
<1>6. expiries \in Nat /\ edits \in Nat /\ calls \in Nat /\ failed \in Nat
  OBVIOUS
<1>7. last \in 0..(MaxSteps - 1) /\ seen \in SUBSET (0..(MaxSteps - 1))
  OBVIOUS
<1> QED
  BY <1>1, <1>2, <1>3, <1>4, <1>5, <1>6, <1>7 DEF TypeOK

LEMMA TypeStep == TypeOK /\ [Next]_vars => TypeOK'
<1> SUFFICES ASSUME TypeOK, [Next]_vars PROVE TypeOK'
  OBVIOUS
<1> USE StepsArePositive
<1>1. ASSUME NEW h \in Handlers, Lookup(h) PROVE TypeOK'
  BY <1>1 DEF TypeOK, Lookup, Goto, sequence, history
<1>2. ASSUME NEW h \in Handlers, ReadSteps(h) PROVE TypeOK'
  <2> USE <1>2 DEF ReadSteps, Goto, sequence, history
  <2>1. sawLength' \in [Handlers -> 0..MaxSteps]
    BY DEF TypeOK
  <2>2. pc' \in [Handlers -> {"idle", "steps", "get", "set"}]
    BY DEF TypeOK
  <2>3. \A g \in Handlers : pc'[g] \in {"get", "set"} => sawLength'[g] > 0
    BY DEF TypeOK
  <2> QED
    BY <2>1, <2>2, <2>3 DEF TypeOK
<1>3. ASSUME NEW h \in Handlers, Get(h) PROVE TypeOK'
  BY <1>3 DEF TypeOK, Get, Goto, sequence, history
<1>4. ASSUME NEW h \in Handlers, Advance(h) PROVE TypeOK'
  <2> USE <1>4 DEF Advance, Goto, sequence, locals, history
  <2>1. sawLength[h] \in 1..MaxSteps /\ current[h] \in Nat /\ sawLoop[h] \in BOOLEAN
    BY DEF TypeOK
  <2>2. position' \in 0..(MaxSteps - 1) /\ last' \in 0..(MaxSteps - 1)
    <3>1. /\ NextStep(current[h], sawLength[h], sawLoop[h]) \in 0..(MaxSteps - 1)
          /\ Picked(current[h], sawLength[h]) \in 0..(MaxSteps - 1)
      BY ONLY <2>1, PositionsStayInside
    <3> QED
      BY <3>1
  <2>3. seen' \in SUBSET (0..(MaxSteps - 1))
    BY <2>2 DEF TypeOK
  <2> QED
    BY <2>2, <2>3 DEF TypeOK
<1>5. ASSUME NEW h \in Handlers, RedisFails(h) PROVE TypeOK'
  <2> USE <1>5 DEF RedisFails, Goto, sequence, locals
  <2>1. sawLength[h] \in 1..MaxSteps /\ current[h] \in Nat /\ sawLoop[h] \in BOOLEAN
    BY DEF TypeOK
  <2>2. NextStep(current[h], sawLength[h], sawLoop[h]) \in 0..(MaxSteps - 1)
    BY ONLY <2>1, PositionsStayInside
  <2>3. position' = position \/ position' = NextStep(current[h], sawLength[h], sawLoop[h])
    OBVIOUS
  <2>4. position' \in 0..(MaxSteps - 1)
    BY ONLY TypeOK, <2>2, <2>3 DEF TypeOK
  <2>5. pc' \in [Handlers -> {"idle", "steps", "get", "set"}]
    BY DEF TypeOK
  <2>6. \A g \in Handlers : pc'[g] \in {"get", "set"} => sawLength'[g] > 0
    BY DEF TypeOK
  <2> QED
    BY <2>4, <2>5, <2>6 DEF TypeOK
<1>6. ASSUME NEW h \in Handlers, LookupFails(h) PROVE TypeOK'
  BY <1>6 DEF TypeOK, LookupFails, sequence, locals
<1>7. CASE Expire
  BY <1>7 DEF TypeOK, Expire, sequence, locals, history
<1>8. CASE Edit
  BY <1>8 DEF TypeOK, Edit, locals, history
<1>9. CASE UNCHANGED vars
  BY <1>9 DEF TypeOK, vars, sequence, locals, history
<1> QED
  BY <1>1, <1>2, <1>3, <1>4, <1>5, <1>6, <1>7, <1>8, <1>9 DEF Next, Serve

\* Whatever requests, edits, expiries and failures do, the position and the step
\* that is answered stay within a sequence of the largest length.
THEOREM TypeCorrect == Spec => []TypeOK
<1>1. Init => TypeOK
  BY TypeInit
<1>2. TypeOK /\ [Next]_vars => TypeOK'
  BY TypeStep
<1> QED
  BY <1>1, <1>2, PTL DEF Spec

-----------------------------------------------------------------------------
(* No step is skipped.                                                     *)

Given(p) == \A q \in 0..(p - 1) : q \in seen

\* While nobody edits and nothing fails, every request that has read the steps saw
\* the sequence as it is, and the steps before the key's position, and before
\* every position a request still holds, have been given.
InOrder ==
    edits = 0 /\ failed = 0 =>
        /\ \A p \in seen : Given(p)
        /\ Given(position)
        /\ position < length
        /\ length > 0
        /\ \A h \in Handlers :
             /\ pc[h] # "idle" => sawLength[h] = length
             /\ pc[h] = "set" => Given(current[h]) /\ current[h] < length

LEMMA OrderInit == Init => InOrder
BY StepsArePositive DEF Init, InOrder, Given

LEMMA OrderStep == TypeOK /\ InOrder /\ [Next]_vars => InOrder'
<1> SUFFICES ASSUME TypeOK, InOrder, [Next]_vars PROVE InOrder'
  OBVIOUS
<1> USE StepsArePositive
<1>1. ASSUME NEW h \in Handlers, Lookup(h) PROVE InOrder'
  BY <1>1 DEF TypeOK, InOrder, Given, Lookup, Goto, sequence, history
<1>2. ASSUME NEW h \in Handlers, ReadSteps(h) PROVE InOrder'
  BY <1>2 DEF TypeOK, InOrder, Given, ReadSteps, Goto, sequence, history
<1>3. ASSUME NEW h \in Handlers, Get(h) PROVE InOrder'
  BY <1>3 DEF TypeOK, InOrder, Given, Get, Goto, sequence, history
<1>4. ASSUME NEW h \in Handlers, Advance(h) PROVE InOrder'
  <2> SUFFICES ASSUME edits' = 0, failed' = 0 PROVE InOrder'
    BY DEF InOrder
  <2> USE <1>4 DEF Advance, Goto, sequence, locals, history
  <2>1. edits = 0 /\ failed = 0
    OBVIOUS
  <2>2. /\ sawLength[h] = length /\ length \in 1..MaxSteps
        /\ current[h] \in 0..(length - 1) /\ Given(current[h])
        /\ sawLoop[h] \in BOOLEAN
    BY <2>1 DEF InOrder, TypeOK
  <2>3. last' = current[h] /\ position' <= current[h] + 1
    BY <2>2, OneStepAtATime
  <2>4. position' \in 0..(length - 1)
    BY <2>2, PositionsStayInside
  <2>5. seen' = seen \cup {current[h]}
    BY <2>3
  <2>6. \A p \in seen' : \A q \in 0..(p - 1) : q \in seen'
    BY <2>1, <2>2, <2>5 DEF InOrder, Given
  <2>7. \A q \in 0..(position' - 1) : q \in seen'
    <3> SUFFICES ASSUME NEW q \in 0..(position' - 1) PROVE q \in seen'
      OBVIOUS
    <3>1. q \in 0..current[h]
      BY <2>2, <2>3, <2>4
    <3> QED
      BY <3>1, <2>2, <2>5 DEF Given
  <2>8. \A g \in Handlers :
          /\ pc'[g] # "idle" => sawLength'[g] = length'
          /\ pc'[g] = "set" => /\ \A q \in 0..(current'[g] - 1) : q \in seen'
                               /\ current'[g] < length'
    BY <2>1, <2>5 DEF InOrder, Given, TypeOK
  <2> QED
    BY <2>1, <2>2, <2>4, <2>6, <2>7, <2>8 DEF InOrder, Given
<1>5. ASSUME NEW h \in Handlers, RedisFails(h) PROVE InOrder'
  BY <1>5 DEF TypeOK, InOrder, RedisFails
<1>6. ASSUME NEW h \in Handlers, LookupFails(h) PROVE InOrder'
  BY <1>6 DEF TypeOK, InOrder, LookupFails
<1>7. CASE Expire
  BY <1>7 DEF TypeOK, InOrder, Given, Expire, sequence, locals, history
<1>8. CASE Edit
  BY <1>8 DEF TypeOK, InOrder, Edit
<1>9. CASE UNCHANGED vars
  BY <1>9 DEF InOrder, Given, vars, sequence, locals, history
<1> QED
  BY <1>1, <1>2, <1>3, <1>4, <1>5, <1>6, <1>7, <1>8, <1>9 DEF Next, Serve

\* Any number of requests may overlap and the key may expire at any time: while the
\* sequence is not edited and Redis answers, no step is given before the one it follows.
THEOREM StepsComeInOrder == Spec => []NoStepSkipped
<1>1. Init => TypeOK /\ InOrder
  BY TypeInit, OrderInit
<1>2. TypeOK /\ InOrder /\ [Next]_vars => TypeOK' /\ InOrder'
  BY TypeStep, OrderStep
<1>3. TypeOK /\ InOrder => NoStepSkipped
  <2> SUFFICES ASSUME TypeOK, InOrder, edits = 0, failed = 0, NEW p \in seen
               PROVE  0..p \subseteq seen
    BY DEF NoStepSkipped
  <2>1. p \in Nat
    BY StepsArePositive DEF TypeOK
  <2> QED
    BY <2>1 DEF InOrder, Given
<1> QED
  BY <1>1, <1>2, <1>3, PTL DEF Spec

-----------------------------------------------------------------------------
(* One step per request.                                                   *)

\* Division leaves one remainder.
LEMMA RemainderIsUnique ==
    ASSUME NEW n \in Nat \ {0}, NEW a \in Int, NEW b \in Int,
           NEW r \in 0..(n - 1), NEW s \in 0..(n - 1),
           n * a + r = n * b + s
    PROVE  r = s
<1>1. CASE a > b
  <2>1. n * (a - b) >= n
    BY <1>1
  <2>2. n * (a - b) = s - r
    OBVIOUS
  <2> QED
    BY ONLY <2>1, <2>2
<1>2. CASE b > a
  <2>1. n * (b - a) >= n
    BY <1>2
  <2>2. n * (b - a) = r - s
    OBVIOUS
  <2> QED
    BY ONLY <2>1, <2>2
<1>3. CASE a = b
  BY <1>3
<1> QED
  BY <1>1, <1>2, <1>3

\* The remainder of the next number is the next remainder, or 0 after the last.
LEMMA NextRemainder ==
    ASSUME NEW i \in Nat, NEW n \in Nat \ {0}
    PROVE  /\ i % n \in 0..(n - 1)
           /\ (i + 1) % n = IF (i % n) + 1 < n THEN (i % n) + 1 ELSE 0
<1> DEFINE q == i \div n
           r == i % n
           p == (i + 1) \div n
           s == (i + 1) % n
<1>1. /\ q \in Int /\ r \in 0..(n - 1) /\ i = n * q + r
      /\ p \in Int /\ s \in 0..(n - 1) /\ i + 1 = n * p + s
  OBVIOUS
<1> HIDE DEF q, r, p, s
<1>2. CASE r + 1 < n
  <2> DEFINE t == r + 1
  <2>1. t \in 0..(n - 1) /\ n * q + t = n * p + s
    BY <1>1, <1>2
  <2> HIDE DEF t
  <2>2. t = s
    BY ONLY n \in Nat \ {0}, <1>1, <2>1, RemainderIsUnique
  <2> QED
    BY <1>2, <2>2 DEF t
<1>3. CASE ~(r + 1 < n)
  <2>1. n * (q + 1) = n * q + n
    BY <1>1
  <2>2. r + 1 = n
    BY <1>1, <1>3
  <2>3. 0 \in 0..(n - 1) /\ q + 1 \in Int /\ n * (q + 1) + 0 = n * p + s
    BY <1>1, <2>1, <2>2
  <2> QED
    BY ONLY <1>1, <1>3, <2>3, RemainderIsUnique
<1>4. r \in 0..(n - 1) /\ s = IF r + 1 < n THEN r + 1 ELSE 0
  BY <1>1, <1>2, <1>3
<1> QED
  BY <1>4 DEF r, s

\* Advancing from the i-th step, as the reference numbers them, leads to the next.
LEMMA ReferenceAdvances ==
    ASSUME NEW i \in Nat, NEW n \in Nat \ {0}, NEW looping \in BOOLEAN
    PROVE  NextStep(Reference(i, n, looping), n, looping) = Reference(i + 1, n, looping)
<1>1. CASE looping
  <2>1. /\ i % n \in 0..(n - 1)
        /\ (i + 1) % n = IF (i % n) + 1 < n THEN (i % n) + 1 ELSE 0
    BY ONLY i \in Nat, n \in Nat \ {0}, NextRemainder
  <2> QED
    BY <1>1, <2>1 DEF NextStep, Reference
<1>2. CASE ~looping
  BY <1>2 DEF NextStep, Reference
<1> QED
  BY <1>1, <1>2

LEMMA ReferenceInside ==
    ASSUME NEW i \in Nat, NEW n \in Nat \ {0}, NEW looping \in BOOLEAN
    PROVE  Reference(i, n, looping) \in 0..(n - 1)
<1>1. i % n \in 0..(n - 1)
  OBVIOUS
<1> QED
  BY <1>1 DEF Reference

Undisturbed == serial /\ expiries = 0 /\ edits = 0 /\ failed = 0

\* While requests do not overlap and nothing else happens, the key holds the step
\* the reference gives the next request, and the one request that is under way saw
\* the sequence and the position as they are.
Counting ==
    Undisturbed =>
        /\ length > 0
        /\ position = Reference(calls, length, loop)
        /\ calls > 0 => last = Reference(calls - 1, length, loop)
        /\ \A g, h \in Handlers : pc[g] # "idle" /\ pc[h] # "idle" => g = h
        /\ \A h \in Handlers :
             /\ pc[h] # "idle" => sawLength[h] = length /\ sawLoop[h] = loop
             /\ pc[h] = "set" => current[h] = position

LEMMA CountingInit == Init => Counting
<1> SUFFICES ASSUME Init PROVE Counting
  OBVIOUS
<1>1. length \in Nat \ {0} /\ calls = 0 /\ position = 0
      /\ \A h \in Handlers : pc[h] = "idle"
  BY StepsArePositive DEF Init
<1>2. 0 % length = 0
  BY <1>1
<1> QED
  BY <1>1, <1>2 DEF Counting, Reference

LEMMA CountingStep == TypeOK /\ Counting /\ [Next]_vars => Counting'
<1> SUFFICES ASSUME TypeOK, Counting, Undisturbed', [Next]_vars PROVE Counting'
  BY DEF Counting
<1> USE StepsArePositive
<1>1. ASSUME NEW h \in Handlers, Lookup(h) PROVE Counting'
  <2> USE <1>1 DEF Lookup, Goto, sequence
  <2>1. Undisturbed /\ \A g \in Handlers : pc[g] = "idle"
    BY DEF Undisturbed
  <2>2. \A g \in Handlers : pc'[g] = IF g = h THEN "steps" ELSE "idle"
    BY <2>1 DEF TypeOK
  <2> QED
    BY <2>1, <2>2 DEF TypeOK, Counting
<1>2. ASSUME NEW h \in Handlers, ReadSteps(h) PROVE Counting'
  BY <1>2 DEF TypeOK, Counting, Undisturbed, ReadSteps, Goto, sequence, history
<1>3. ASSUME NEW h \in Handlers, Get(h) PROVE Counting'
  BY <1>3 DEF TypeOK, Counting, Undisturbed, Get, Goto, sequence, history
<1>4. ASSUME NEW h \in Handlers, Advance(h) PROVE Counting'
  <2> USE <1>4 DEF Advance, Goto, sequence, locals
  <2>1. /\ Undisturbed /\ length \in 1..MaxSteps /\ loop \in BOOLEAN /\ calls \in Nat
        /\ sawLength[h] = length /\ sawLoop[h] = loop
        /\ current[h] = Reference(calls, length, loop) /\ current[h] = position
    BY DEF Undisturbed, TypeOK, Counting
  <2>2. current[h] \in 0..(length - 1)
    <3>1. length \in Nat \ {0}
      BY <2>1
    <3> QED
      BY ONLY <2>1, <3>1, ReferenceInside
  <2>3. last' = Reference(calls, length, loop)
    BY <2>1, <2>2, OneStepAtATime
  <2>4. position' = Reference(calls + 1, length, loop)
    <3>1. length \in Nat \ {0}
      BY <2>1
    <3>2. position' = NextStep(current[h], length, loop)
      BY <2>1
    <3> QED
      BY ONLY <2>1, <3>1, <3>2, ReferenceAdvances
  <2>5. calls' - 1 = calls
    BY <2>1
  <2>6. \A g \in Handlers : pc'[g] = "idle"
    BY <2>1 DEF Counting, TypeOK
  <2> QED
    BY <2>1, <2>3, <2>4, <2>5, <2>6 DEF Counting
<1>5. ASSUME NEW h \in Handlers, RedisFails(h) PROVE Counting'
  BY <1>5 DEF TypeOK, Undisturbed, RedisFails
<1>6. ASSUME NEW h \in Handlers, LookupFails(h) PROVE Counting'
  BY <1>6 DEF TypeOK, Undisturbed, LookupFails
<1>7. CASE Expire
  BY <1>7 DEF TypeOK, Undisturbed, Expire
<1>8. CASE Edit
  BY <1>8 DEF TypeOK, Undisturbed, Edit
<1>9. CASE UNCHANGED vars
  BY <1>9 DEF Counting, Undisturbed, vars, sequence, locals, history
<1> QED
  BY <1>1, <1>2, <1>3, <1>4, <1>5, <1>6, <1>7, <1>8, <1>9 DEF Next, Serve

\* Requests that do not overlap are given the steps of a sequence of any length one
\* after the other, over and over when it loops, up to the last one when it does not.
THEOREM OneStepPerRequest == Spec => []SuccessiveCallsInOrder
<1>1. Init => TypeOK /\ Counting
  BY TypeInit, CountingInit
<1>2. TypeOK /\ Counting /\ [Next]_vars => TypeOK' /\ Counting'
  BY TypeStep, CountingStep
<1>3. TypeOK /\ Counting => SuccessiveCallsInOrder
  BY DEF TypeOK, Counting, Undisturbed, SuccessiveCallsInOrder
<1> QED
  BY <1>1, <1>2, <1>3, PTL DEF Spec

-----------------------------------------------------------------------------
(* The rate limit.                                                         *)

\* Of n hits, those that were let in.
LetIn(n) == IF n < Limit THEN n ELSE Limit

\* What each store may have admitted in the last t ticks.  Once its window is t ticks
\* old, nothing of that is from the window before.
RedisShare(t) ==
    LetIn(count) + (IF ttl > 0 /\ t <= Window - ttl THEN 0 ELSE Limit)
LocalShare(t) ==
    IF outages = 0 THEN 0
    ELSE LetIn(local) + (IF localTtl > 0 /\ t <= Window - localTtl THEN 0 ELSE Limit)

\* The hits that have been counted and will be let in, but are not yet.
Pending == Cardinality(Starting)
Slack   == Limit * losses

RateInv ==
    /\ RateTypeOK /\ IsFiniteSet(Starting)
    /\ ~up => outages > 0
    /\ Pending <= losses + (IF count > 0 /\ ttl = 0 THEN 1 ELSE 0)
    /\ \A t \in 1..Window : recent[t] + Pending <= RedisShare(t) + LocalShare(t) + Slack

SharesFit ==
    /\ Limit \in Nat /\ Limit >= 1 /\ Window \in Nat /\ Window >= 1
    /\ \A n \in 0..Saturation : LetIn(n) \in 0..Limit
    /\ \A t \in 1..Window : RedisShare(t) \in 0..(Limit + Limit) /\ LocalShare(t) \in 0..(Limit + Limit)
    /\ Slack \in Nat /\ losses \in Nat

LEMMA Shares == RateTypeOK => SharesFit
<1> SUFFICES ASSUME RateTypeOK PROVE SharesFit
  OBVIOUS
<1>1. Limit \in Nat /\ Limit >= 1 /\ Window \in Nat /\ Window >= 1 /\ Saturation \in Nat
  BY LimitIsPositive, SaturationIsPastLimit
<1>2. \A n \in 0..Saturation : LetIn(n) \in 0..Limit
  BY <1>1 DEF LetIn
<1>3. losses \in Nat
  BY FaultsAreBounded DEF RateTypeOK
<1>4. Slack \in Nat
  BY <1>1, <1>3 DEF Slack
<1>5. LetIn(count) \in 0..Limit /\ LetIn(local) \in 0..Limit
  BY <1>2 DEF RateTypeOK
<1> HIDE DEF LetIn
<1>6. \A t \in 1..Window : RedisShare(t) \in 0..(Limit + Limit) /\ LocalShare(t) \in 0..(Limit + Limit)
  BY <1>1, <1>5 DEF RedisShare, LocalShare
<1> QED
  BY <1>1, <1>2, <1>3, <1>4, <1>6 DEF SharesFit

\* A store that loses its counts makes room for one window's worth.
LEMMA SlackGrows ==
    ASSUME RateTypeOK
    PROVE  /\ losses <= Slack
           /\ losses' = losses + 1 => Slack' = Slack + Limit
           /\ losses' = losses => Slack' = Slack
<1>1. Limit \in Nat /\ Limit >= 1 /\ losses \in Nat
  BY Shares DEF SharesFit
<1>2. \A n \in Nat : n <= Limit * n /\ Limit * (n + 1) = Limit * n + Limit
  BY <1>1
<1> QED
  BY <1>1, <1>2 DEF Slack

\* One hit goes to another place.
LEMMA PendingAfterMove ==
    ASSUME RateTypeOK, IsFiniteSet(Starting), NEW h \in Hits, NEW p, Move(h, p)
    PROVE  /\ IsFiniteSet(Starting') /\ Pending \in Nat /\ Pending' \in Nat
           /\ Pending' = Pending + (IF p = "expire" THEN 1 ELSE 0)
                                 - (IF place[h] = "expire" THEN 1 ELSE 0)
<1> DEFINE S == Starting
           T == {g \in Hits : place'[g] = "expire"}
<1>1. Starting' = T /\ \A g \in Hits : place'[g] = IF g = h THEN p ELSE place[g]
  BY DEF Starting, Move, RateTypeOK
<1>2. IsFiniteSet(S) /\ Cardinality(S) \in Nat /\ (h \in S <=> place[h] = "expire")
  BY FS_CardinalityType DEF Starting
<1>3. CASE p = "expire"
  <2>1. T = S \cup {h}
    BY <1>1, <1>3 DEF Starting
  <2> HIDE DEF S, T
  <2>2. /\ IsFiniteSet(S \cup {h})
        /\ Cardinality(S \cup {h}) = IF h \in S THEN Cardinality(S) ELSE Cardinality(S) + 1
    BY <1>2, FS_AddElement
  <2> QED
    BY <1>1, <1>2, <1>3, <2>1, <2>2 DEF Pending, S
<1>4. CASE p # "expire"
  <2>1. T = S \ {h}
    BY <1>1, <1>4 DEF Starting
  <2>2. h \in S => Cardinality(S) # 0
    BY <1>2, FS_EmptySet
  <2> HIDE DEF S, T
  <2>3. /\ IsFiniteSet(S \ {h})
        /\ Cardinality(S \ {h}) = IF h \in S THEN Cardinality(S) - 1 ELSE Cardinality(S)
    BY <1>2, FS_RemoveElement
  <2> QED
    BY <1>1, <1>2, <1>4, <2>1, <2>2, <2>3 DEF Pending, S
<1> QED
  BY <1>3, <1>4

LEMMA RateTypes == RateTypeOK /\ [RateNext]_rateVars => RateTypeOK'
<1> SUFFICES ASSUME RateTypeOK, [RateNext]_rateVars PROVE RateTypeOK'
  OBVIOUS
<1>1. /\ Limit \in Nat /\ Window \in Nat \ {0} /\ Saturation \in Nat /\ Saturation > Limit + 1
      /\ MaxOutages \in Nat /\ MaxLosses \in Nat
  BY LimitIsPositive, SaturationIsPastLimit, FaultsAreBounded
<1>2. \A n \in 0..Saturation : Up(n) \in 1..Saturation
  BY <1>1, LimitIsPositive DEF Up
<1>3. Admit => recent' \in [1..Window -> Nat]
  BY DEF Admit, RateTypeOK
<1>4. \A h \in Hits, p \in {"idle", "expire", "ttl"} :
         Move(h, p) => place' \in [Hits -> {"idle", "expire", "ttl"}]
  BY DEF Move, RateTypeOK
<1>5. Clock \in 0..Window /\ (Clock > 0 => count > 0)
  BY <1>1 DEF Clock
<1>6. LocalHit => /\ local' \in 0..Saturation /\ localTtl' \in 0..Window
                  /\ localTtl' > 0 <=> local' > 0
                  /\ recent' \in [1..Window -> Nat]
  <2> SUFFICES ASSUME LocalHit
               PROVE  /\ local' \in 0..Saturation /\ localTtl' \in 0..Window
                      /\ localTtl' > 0 <=> local' > 0
                      /\ recent' \in [1..Window -> Nat]
    OBVIOUS
  <2>1. recent' \in [1..Window -> Nat]
    BY <1>3 DEF LocalHit, RateTypeOK
  <2>2. local' \in 1..Saturation /\ localTtl' \in 1..Window
    BY <1>1, <1>2 DEF LocalHit, RateTypeOK
  <2> QED
    BY <1>1, <2>1, <2>2
<1> HIDE DEF Admit, Move, Clock, LocalHit
<1>7. ASSUME NEW h \in Hits, Incr(h) PROVE RateTypeOK'
  <2>1. count' \in 1..Saturation /\ UNCHANGED <<ttl, fallback, faults>>
    BY <1>2, <1>7 DEF Incr, RateTypeOK
  <2>2. counted' \in [Hits -> 0..Saturation]
    BY <1>1, <1>7, <2>1 DEF Incr, RateTypeOK
  <2>3. place' \in [Hits -> {"idle", "expire", "ttl"}] /\ recent' \in [1..Window -> Nat]
    BY <1>3, <1>4, <1>7 DEF Incr, AfterIncr, RateTypeOK
  <2> QED
    BY <1>1, <2>1, <2>2, <2>3 DEF RateTypeOK, fallback, faults
<1>8. ASSUME NEW h \in Hits, SendExpire(h) PROVE RateTypeOK'
  <2>1. place' \in [Hits -> {"idle", "expire", "ttl"}] /\ recent' \in [1..Window -> Nat]
    BY <1>3, <1>4, <1>8 DEF SendExpire, RateTypeOK
  <2> QED
    BY <1>5, <1>8, <2>1 DEF SendExpire, RateTypeOK, fallback, faults
<1>9. ASSUME NEW h \in Hits, Reject(h) PROVE RateTypeOK'
  BY <1>4, <1>9 DEF Reject, RateTypeOK, redis, fallback, faults
<1>10. ASSUME NEW h \in Hits, Unavailable(h) PROVE RateTypeOK'
  <2>1. place' \in [Hits -> {"idle", "expire", "ttl"}] /\ LocalHit /\ UNCHANGED <<counted, faults>>
    BY <1>4, <1>10 DEF Unavailable
  <2>2. count' \in 0..Saturation /\ ttl' \in 0..Window /\ (ttl' > 0 => count' > 0)
    <3>1. /\ count \in 0..Saturation /\ ttl \in 0..Window /\ (ttl > 0 => count > 0)
          /\ Up(count) \in 1..Saturation
      BY <1>2 DEF RateTypeOK
    <3>2. \/ count' = count /\ ttl' = ttl
          \/ count' = Up(count) /\ ttl' = ttl
          \/ count' = count /\ ttl' = Clock
      BY <1>10 DEF Unavailable, redis
    <3> HIDE DEF Up
    <3> QED
      BY <1>1, <1>5, <3>1, <3>2
  <2> QED
    BY <1>6, <2>1, <2>2 DEF RateTypeOK, faults
<1>11. CASE Outage \/ Recover
  <2>1. up' \in BOOLEAN /\ UNCHANGED <<redis, fallback, place, counted, losses, recent>>
    BY <1>11 DEF Outage, Recover
  <2>2. outages' \in 0..MaxOutages
    BY <1>1, <1>11 DEF Outage, Recover, RateTypeOK
  <2> QED
    BY <2>1, <2>2 DEF RateTypeOK, redis, fallback
<1>12. CASE Restart
  BY <1>1, <1>12 DEF Restart, RateTypeOK, redis
<1>13. CASE Lose
  BY <1>1, <1>13 DEF Lose, RateTypeOK, fallback
<1>14. CASE Tick
  <2>1. recent' \in [1..Window -> Nat]
    BY <1>1, <1>14 DEF Tick, RateTypeOK
  <2>2. count' \in 0..Saturation /\ ttl' \in 0..Window /\ (ttl' > 0 => count' > 0)
    BY <1>1, <1>14 DEF Tick, RateTypeOK
  <2>3. local' \in 0..Saturation /\ localTtl' \in 0..Window /\ (localTtl' > 0 <=> local' > 0)
    BY <1>1, <1>14 DEF Tick, RateTypeOK
  <2> QED
    BY <1>14, <2>1, <2>2, <2>3 DEF Tick, RateTypeOK, faults
<1>15. CASE UNCHANGED rateVars
  BY <1>15 DEF RateTypeOK, rateVars, redis, fallback, faults
<1> QED
  BY <1>7, <1>8, <1>9, <1>10, <1>11, <1>12, <1>13, <1>14, <1>15 DEF RateNext, Handle

\* Nothing grows but what the stores may have admitted.
LEMMA SharesSuffice ==
    ASSUME RateInv, RateTypeOK', IsFiniteSet(Starting'), ~up' => outages' > 0,
           Pending' <= losses' + (IF count' > 0 /\ ttl' = 0 THEN 1 ELSE 0),
           \A t \in 1..Window :
              recent'[t] + Pending' - (RedisShare(t)' + LocalShare(t)' + Slack')
                 <= recent[t] + Pending - (RedisShare(t) + LocalShare(t) + Slack)
    PROVE  RateInv'
<1>1. RateTypeOK /\ \A t \in 1..Window : recent[t] + Pending <= RedisShare(t) + LocalShare(t) + Slack
  BY DEF RateInv
<1>2. /\ Pending \in Nat /\ Pending' \in Nat
      /\ \A t \in 1..Window : recent[t] \in Nat /\ recent'[t] \in Nat
  BY <1>1, FS_CardinalityType DEF RateInv, RateTypeOK, Pending
<1>3. /\ Limit \in Nat /\ Slack \in Nat
      /\ \A t \in 1..Window : RedisShare(t) \in Nat /\ LocalShare(t) \in Nat
  BY <1>1, Shares DEF SharesFit
<1>4. /\ Slack' \in Nat
      /\ \A t \in 1..Window : RedisShare(t)' \in Nat /\ LocalShare(t)' \in Nat
  <2>1. RateTypeOK' => SharesFit'
    BY Shares, PTL
  <2> QED
    BY <1>3, <2>1 DEF SharesFit
<1>5. \A t \in 1..Window : recent'[t] + Pending' <= RedisShare(t)' + LocalShare(t)' + Slack'
  <2> HIDE DEF RedisShare, LocalShare, Slack, Pending
  <2> QED
    BY <1>1, <1>2, <1>3, <1>4
<1> QED
  BY <1>5 DEF RateInv

LEMMA LetInUp ==
    ASSUME NEW n \in 0..Saturation
    PROVE  /\ LetIn(n) <= LetIn(Up(n)) /\ (~Exceeds(Up(n)) => LetIn(Up(n)) = LetIn(n) + 1)
           /\ LetIn(0) = 0 /\ LetIn(1) = 1
           /\ (Up(n) = 1 <=> n = 0) /\ ~Exceeds(1)
           /\ Up(n) \in 1..Saturation /\ LetIn(n) \in 0..Limit /\ LetIn(Up(n)) \in 0..Limit
BY LimitIsPositive, SaturationIsPastLimit DEF LetIn, Up, Exceeds

\* What the dictionary admits is of its own share.
LEMMA LocalAdmits ==
    ASSUME RateTypeOK, outages > 0, outages' = outages, LocalHit, NEW t \in 1..Window
    PROVE  recent'[t] - LocalShare(t)' <= recent[t] - LocalShare(t)
<1>1. /\ local \in 0..Saturation /\ localTtl \in 0..Window /\ (localTtl > 0 <=> local > 0)
      /\ recent[t] \in Nat /\ outages # 0
  BY FaultsAreBounded DEF RateTypeOK
<1>2. Limit \in Nat /\ Window \in Nat
  BY LimitIsPositive
<1>3. /\ LocalShare(t) = LetIn(local) + (IF localTtl > 0 /\ t <= Window - localTtl THEN 0 ELSE Limit)
      /\ LocalShare(t)' = LetIn(local') + (IF localTtl' > 0 /\ t <= Window - localTtl' THEN 0 ELSE Limit)
  BY <1>1 DEF LocalShare, LetIn
<1>4. Admit => recent'[t] = recent[t] + 1
  BY DEF Admit
<1>5. CASE localTtl = 0
  <2>1. local = 0 /\ local' = 1 /\ localTtl' = Window
    BY <1>1, <1>5 DEF LocalHit
  <2>2. LetIn(0) = 0 /\ LetIn(1) = 1 /\ ~Exceeds(1)
    BY <1>1, LetInUp
  <2>3. recent'[t] = recent[t] + 1
    BY <1>4, <1>5, <2>2 DEF LocalHit
  <2> HIDE DEF LetIn
  <2> QED
    BY <1>1, <1>2, <1>3, <1>5, <2>1, <2>2, <2>3
<1>6. CASE localTtl > 0
  <2>1. local' = Up(local) /\ localTtl' = localTtl
    BY <1>1, <1>6 DEF LocalHit
  <2>2. /\ LetIn(local) <= LetIn(Up(local))
        /\ ~Exceeds(Up(local)) => LetIn(Up(local)) = LetIn(local) + 1
        /\ LetIn(local) \in 0..Limit /\ LetIn(Up(local)) \in 0..Limit
    BY <1>1, LetInUp
  <2>3. recent'[t] = IF Exceeds(Up(local)) THEN recent[t] ELSE recent[t] + 1
    BY <1>1, <1>4, <1>6 DEF LocalHit
  <2> HIDE DEF LetIn, Up, Exceeds
  <2> QED
    BY <1>1, <1>2, <1>3, <2>1, <2>2, <2>3
<1> QED
  BY <1>1, <1>5, <1>6

\* What Redis counts while its reply is lost is let in by nobody.
LEMMA RedisCountsOn ==
    ASSUME RateTypeOK, NEW t \in 1..Window,
           \/ UNCHANGED redis
           \/ count' = Up(count) /\ UNCHANGED ttl
           \/ ttl' = Clock /\ UNCHANGED count
    PROVE  RedisShare(t) <= RedisShare(t)'
<1>1. /\ count \in 0..Saturation /\ ttl \in 0..Window /\ (ttl > 0 => count > 0)
      /\ Limit \in Nat /\ Window \in Nat \ {0} /\ t \in 1..Window
  BY LimitIsPositive DEF RateTypeOK
<1>2. /\ LetIn(count) <= LetIn(Up(count))
      /\ LetIn(count) \in 0..Limit /\ LetIn(Up(count)) \in 0..Limit
  BY <1>1, LetInUp
<1>3. /\ RedisShare(t) = LetIn(count) + (IF ttl > 0 /\ t <= Window - ttl THEN 0 ELSE Limit)
      /\ RedisShare(t)' = LetIn(count') + (IF ttl' > 0 /\ t <= Window - ttl' THEN 0 ELSE Limit)
  BY DEF RedisShare, LetIn
<1> HIDE DEF LetIn, Up
<1>4. CASE UNCHANGED redis
  BY <1>1, <1>2, <1>3, <1>4 DEF redis
<1>5. CASE count' = Up(count) /\ UNCHANGED ttl
  BY <1>1, <1>2, <1>3, <1>5
<1>6. CASE ttl' = Clock /\ UNCHANGED count
  <2>1. (ttl' = Window /\ count > 0) \/ (ttl' = 0 /\ ttl = 0)
    BY <1>1, <1>6 DEF Clock
  <2> QED
    BY <1>1, <1>2, <1>3, <1>6, <2>1
<1> QED
  BY <1>4, <1>5, <1>6

LEMMA FallbackKept ==
    ASSUME UNCHANGED <<fallback, outages>>, NEW t PROVE LocalShare(t)' = LocalShare(t)
BY DEF LocalShare, LetIn, fallback

LEMMA IncrIsSound == ASSUME RateInv, RateTypeOK', NEW h \in Hits, Incr(h) PROVE RateInv'
<1>1. /\ RateTypeOK /\ IsFiniteSet(Starting) /\ (~up => outages > 0)
      /\ Pending <= losses + (IF count > 0 /\ ttl = 0 THEN 1 ELSE 0)
  BY DEF RateInv
<1>2. /\ count' = Up(count) /\ UNCHANGED <<ttl, fallback, up, outages, losses>> /\ place[h] = "idle"
      /\ AfterIncr(h, count')
  BY DEF Incr, faults
<1>3. /\ count \in 0..Saturation /\ ttl \in 0..Window /\ (ttl > 0 => count > 0) /\ losses \in Nat
      /\ Limit \in Nat
  BY <1>1, LimitIsPositive, FaultsAreBounded DEF RateTypeOK
<1>4. /\ LetIn(count) <= LetIn(Up(count))
      /\ ~Exceeds(Up(count)) => LetIn(Up(count)) = LetIn(count) + 1
      /\ (Up(count) = 1 <=> count = 0) /\ ~Exceeds(1) /\ Up(count) \in 1..Saturation
      /\ LetIn(count) \in 0..Limit /\ LetIn(Up(count)) \in 0..Limit
  BY <1>3, LetInUp
<1>5. \A t \in 1..Window :
         /\ RedisShare(t)' - RedisShare(t) = LetIn(Up(count)) - LetIn(count)
         /\ LocalShare(t)' = LocalShare(t) /\ recent[t] \in Nat
         /\ RedisShare(t) \in Int /\ RedisShare(t)' \in Int /\ LocalShare(t) \in Int
  <2> SUFFICES ASSUME NEW t \in 1..Window
               PROVE  /\ RedisShare(t)' - RedisShare(t) = LetIn(Up(count)) - LetIn(count)
                      /\ LocalShare(t)' = LocalShare(t) /\ recent[t] \in Nat
                      /\ RedisShare(t) \in Int /\ RedisShare(t)' \in Int /\ LocalShare(t) \in Int
    OBVIOUS
  <2>1. LocalShare(t)' = LocalShare(t)
    BY <1>2, FallbackKept
  <2>2. LocalShare(t) \in Int /\ recent[t] \in Nat
    <3>1. LocalShare(t) \in 0..(Limit + Limit)
      BY <1>1, Shares DEF SharesFit
    <3>2. LocalShare(t) \in Int
      BY <1>3, <3>1
    <3>3. recent[t] \in Nat
      BY <1>1 DEF RateTypeOK
    <3> QED
      BY <3>2, <3>3
  <2>3. /\ RedisShare(t) = LetIn(count) + (IF ttl > 0 /\ t <= Window - ttl THEN 0 ELSE Limit)
        /\ RedisShare(t)' = LetIn(Up(count)) + (IF ttl > 0 /\ t <= Window - ttl THEN 0 ELSE Limit)
    BY <1>2 DEF RedisShare, LetIn
  <2> HIDE DEF LetIn, Up
  <2> QED
    BY <1>3, <1>4, <2>1, <2>2, <2>3
<1>6. Slack' = Slack /\ Slack \in Int
  BY <1>1, <1>2, SlackGrows, Shares DEF SharesFit
<1>7. CASE StartsClock(count') /\ Move(h, "expire") /\ UNCHANGED recent
  <2>1. IsFiniteSet(Starting') /\ Pending \in Nat /\ Pending' = Pending + 1
    BY <1>1, <1>2, <1>7, PendingAfterMove
  <2>2. count = 0 /\ ttl = 0 /\ count' = 1 /\ LetIn(Up(count)) = LetIn(count) + 1
    BY <1>2, <1>3, <1>4, <1>7 DEF StartsClock
  <2>3. Pending' <= losses' + (IF count' > 0 /\ ttl' = 0 THEN 1 ELSE 0)
    BY <1>1, <1>2, <1>3, <2>1, <2>2
  <2> HIDE DEF LetIn, Up, RedisShare, LocalShare, Slack, Pending
  <2>4. \A t \in 1..Window :
           recent'[t] + Pending' - (RedisShare(t)' + LocalShare(t)' + Slack')
              <= recent[t] + Pending - (RedisShare(t) + LocalShare(t) + Slack)
    BY <1>3, <1>4, <1>5, <1>6, <1>7, <2>1, <2>2
  <2> QED
    BY <1>1, <1>2, <2>1, <2>3, <2>4, SharesSuffice
<1>8. CASE ~StartsClock(count') /\ Exceeds(count') /\ Move(h, "ttl") /\ UNCHANGED recent
  <2>1. IsFiniteSet(Starting') /\ Pending \in Nat /\ Pending' = Pending
    BY <1>1, <1>2, <1>8, PendingAfterMove
  <2>2. count > 0 /\ count' > 0
    BY <1>2, <1>3, <1>4, <1>8 DEF StartsClock
  <2> HIDE DEF LetIn, Up, RedisShare, LocalShare, Slack, Pending
  <2>3. Pending' <= losses' + (IF count' > 0 /\ ttl' = 0 THEN 1 ELSE 0)
    BY <1>1, <1>2, <1>3, <2>1, <2>2
  <2>4. \A t \in 1..Window :
           recent'[t] + Pending' - (RedisShare(t)' + LocalShare(t)' + Slack')
              <= recent[t] + Pending - (RedisShare(t) + LocalShare(t) + Slack)
    BY <1>3, <1>4, <1>5, <1>6, <1>8, <2>1
  <2> QED
    BY <1>1, <1>2, <2>1, <2>3, <2>4, SharesSuffice
<1>9. CASE ~StartsClock(count') /\ ~Exceeds(count') /\ Admit /\ UNCHANGED place
  <2>1. Pending' = Pending /\ Pending \in Nat /\ IsFiniteSet(Starting')
    BY <1>1, <1>9, FS_CardinalityType DEF Pending, Starting
  <2>2. count > 0 /\ count' > 0 /\ LetIn(Up(count)) = LetIn(count) + 1
    BY <1>2, <1>3, <1>4, <1>9 DEF StartsClock
  <2>3. \A t \in 1..Window : recent'[t] = recent[t] + 1
    BY <1>9 DEF Admit
  <2> HIDE DEF LetIn, Up, RedisShare, LocalShare, Slack, Pending
  <2>4. Pending' <= losses' + (IF count' > 0 /\ ttl' = 0 THEN 1 ELSE 0)
    BY <1>1, <1>2, <1>3, <2>1, <2>2
  <2>5. \A t \in 1..Window :
           recent'[t] + Pending' - (RedisShare(t)' + LocalShare(t)' + Slack')
              <= recent[t] + Pending - (RedisShare(t) + LocalShare(t) + Slack)
    BY <1>3, <1>4, <1>5, <1>6, <2>1, <2>2, <2>3
  <2> QED
    BY <1>1, <1>2, <2>1, <2>4, <2>5, SharesSuffice
<1> QED
  BY <1>2, <1>7, <1>8, <1>9 DEF AfterIncr

\* Numbers, wherever the prover needs to know.
LEMMA RateNumbers ==
    ASSUME RateInv, RateTypeOK'
    PROVE  /\ Limit \in Nat /\ Limit >= 1 /\ Window \in Nat \ {0} /\ losses \in Nat /\ outages \in Nat
           /\ count \in 0..Saturation /\ ttl \in 0..Window /\ (ttl > 0 => count > 0)
           /\ local \in 0..Saturation /\ localTtl \in 0..Window
           /\ Slack \in Nat /\ losses <= Slack /\ Pending \in Nat
           /\ \A t \in 1..Window :
                 /\ recent[t] \in Nat /\ recent'[t] \in Nat
                 /\ RedisShare(t) \in Nat /\ RedisShare(t)' \in Nat
                 /\ LocalShare(t) \in Nat /\ LocalShare(t)' \in Nat
<1>1. RateTypeOK
  BY DEF RateInv
<1>2. SharesFit
  BY <1>1, Shares
<1>3. RateTypeOK' => SharesFit'
  BY Shares, PTL
<1>4. /\ losses \in Nat /\ outages \in Nat /\ Window \in Nat \ {0}
      /\ count \in 0..Saturation /\ ttl \in 0..Window /\ (ttl > 0 => count > 0)
      /\ local \in 0..Saturation /\ localTtl \in 0..Window
      /\ \A t \in 1..Window : recent[t] \in Nat /\ recent'[t] \in Nat
  <2>1. losses \in Nat /\ outages \in Nat /\ Window \in Nat \ {0}
    BY <1>1, FaultsAreBounded, LimitIsPositive DEF RateTypeOK
  <2>2. /\ count \in 0..Saturation /\ ttl \in 0..Window /\ (ttl > 0 => count > 0)
        /\ local \in 0..Saturation /\ localTtl \in 0..Window
    BY ONLY <1>1 DEF RateTypeOK
  <2>3. \A t \in 1..Window : recent[t] \in Nat /\ recent'[t] \in Nat
    <3>1. recent \in [1..Window -> Nat]
      BY ONLY <1>1 DEF RateTypeOK
    <3>2. recent' \in [1..Window -> Nat]
      BY DEF RateTypeOK
    <3> QED
      BY ONLY <3>1, <3>2
  <2> QED
    BY <2>1, <2>2, <2>3
<1>5. Slack \in Nat /\ losses <= Slack /\ Limit \in Nat /\ Limit >= 1
  BY <1>1, <1>2, SlackGrows DEF SharesFit
<1>6. \A t \in 1..Window : /\ RedisShare(t) \in Nat /\ RedisShare(t)' \in Nat
                           /\ LocalShare(t) \in Nat /\ LocalShare(t)' \in Nat
  BY <1>2, <1>3, <1>5 DEF SharesFit
<1>7. Pending \in Nat
  BY FS_CardinalityType DEF Pending, RateInv
<1> HIDE DEF RedisShare, LocalShare, Slack, Pending
<1> QED
  BY <1>4, <1>5, <1>6, <1>7

LEMMA SendExpireIsSound == ASSUME RateInv, RateTypeOK', NEW h \in Hits, SendExpire(h) PROVE RateInv'
<1>1. /\ RateTypeOK /\ IsFiniteSet(Starting) /\ (~up => outages > 0)
      /\ Pending <= losses + (IF count > 0 /\ ttl = 0 THEN 1 ELSE 0)
  BY DEF RateInv
<1>2. /\ ttl' = Clock /\ UNCHANGED <<count, fallback, up, outages, losses>> /\ place[h] = "expire"
      /\ \/ Move(h, "ttl") /\ UNCHANGED recent
         \/ Move(h, "idle") /\ Admit
  BY DEF SendExpire, faults
<1>3. \A t \in 1..Window : recent'[t] <= recent[t] + 1
  <2>1. \A t \in 1..Window : recent[t] \in Nat
    BY RateNumbers
  <2>2. \A t \in 1..Window : recent'[t] = recent[t] \/ recent'[t] = recent[t] + 1
    BY ONLY <1>2 DEF Admit
  <2> QED
    BY ONLY <2>1, <2>2
<1>4. IsFiniteSet(Starting') /\ Pending' \in Nat /\ Pending' = Pending - 1
  BY <1>1, <1>2, PendingAfterMove
<1>5. \A t \in 1..Window : RedisShare(t) <= RedisShare(t)' /\ LocalShare(t)' = LocalShare(t)
  BY <1>1, <1>2, RedisCountsOn, FallbackKept
<1>6. Slack' = Slack
  BY <1>1, <1>2, SlackGrows
<1> HIDE DEF RedisShare, LocalShare, Slack, Pending
<1>7. \A t \in 1..Window :
         recent'[t] + Pending' - (RedisShare(t)' + LocalShare(t)' + Slack')
            <= recent[t] + Pending - (RedisShare(t) + LocalShare(t) + Slack)
  BY <1>3, <1>4, <1>5, <1>6, RateNumbers
<1>8. Pending' <= losses' + (IF count' > 0 /\ ttl' = 0 THEN 1 ELSE 0)
  BY <1>1, <1>2, <1>4, RateNumbers
<1> QED
  BY <1>1, <1>2, <1>4, <1>7, <1>8, SharesSuffice

\* Nothing is admitted, and no store loses anything.
LEMMA NothingAdmitted ==
    ASSUME RateInv, RateTypeOK', UNCHANGED <<redis, fallback, recent, losses>>,
           IsFiniteSet(Starting'), Pending' = Pending, outages <= outages', ~up' => outages' > 0
    PROVE  RateInv'
<1>1. RateTypeOK /\ Pending <= losses + (IF count > 0 /\ ttl = 0 THEN 1 ELSE 0)
  BY DEF RateInv
<1>2. \A t \in 1..Window : RedisShare(t)' = RedisShare(t)
  BY DEF RedisShare, LetIn, redis
<1>3. \A t \in 1..Window : LocalShare(t) <= LocalShare(t)'
  <2> SUFFICES ASSUME NEW t \in 1..Window PROVE LocalShare(t) <= LocalShare(t)'
    OBVIOUS
  <2>1. CASE outages = 0
    <3>1. LocalShare(t) = 0 /\ LocalShare(t)' \in Nat
      BY <2>1, RateNumbers DEF LocalShare
    <3> QED
      BY <3>1
  <2>2. CASE outages # 0
    <3>1. outages' # 0
      <4>1. outages \in Nat /\ outages' \in Int
        BY FaultsAreBounded, RateNumbers DEF RateTypeOK
      <4> QED
        BY <2>2, <4>1
    <3>2. LocalShare(t)' = LocalShare(t)
      BY <2>2, <3>1 DEF LocalShare, LetIn, fallback
    <3> QED
      BY <3>2, RateNumbers
  <2> QED
    BY <2>1, <2>2
<1>4. Slack' = Slack
  BY <1>1, SlackGrows
<1> HIDE DEF RedisShare, LocalShare, Slack, Pending
<1>5. \A t \in 1..Window :
         recent'[t] + Pending' - (RedisShare(t)' + LocalShare(t)' + Slack')
            <= recent[t] + Pending - (RedisShare(t) + LocalShare(t) + Slack)
  BY <1>2, <1>3, <1>4, RateNumbers
<1> QED
  BY <1>1, <1>5, SharesSuffice DEF redis

LEMMA UnavailableIsSound == ASSUME RateInv, RateTypeOK', NEW h \in Hits, Unavailable(h) PROVE RateInv'
<1>1. /\ RateTypeOK /\ IsFiniteSet(Starting) /\ (~up => outages > 0)
      /\ Pending <= losses + (IF count > 0 /\ ttl = 0 THEN 1 ELSE 0)
  BY DEF RateInv
<1>2. /\ ~up /\ UNCHANGED <<up, outages, losses>> /\ LocalHit /\ Move(h, "idle")
      /\ \/ UNCHANGED redis
         \/ place[h] = "idle" /\ count' = Up(count) /\ UNCHANGED ttl
         \/ place[h] = "expire" /\ ttl' = Clock /\ UNCHANGED count
  BY DEF Unavailable, faults
<1>3. /\ IsFiniteSet(Starting') /\ Pending' \in Nat
      /\ Pending' = Pending - (IF place[h] = "expire" THEN 1 ELSE 0)
  BY <1>1, <1>2, PendingAfterMove
<1>4. \A t \in 1..Window :
         /\ RedisShare(t) <= RedisShare(t)'
         /\ recent'[t] - LocalShare(t)' <= recent[t] - LocalShare(t)
  BY <1>1, <1>2, RedisCountsOn, LocalAdmits
<1>5. Slack' = Slack
  BY <1>1, <1>2, SlackGrows
<1>6. count' \in Nat /\ (count > 0 => count' > 0)
  <2>1. Up(count) \in 1..Saturation /\ count \in 0..Saturation
    BY RateNumbers, LetInUp
  <2> HIDE DEF Up
  <2> QED
    BY <1>2, <2>1 DEF redis
<1> HIDE DEF RedisShare, LocalShare, Slack, Pending, Up
<1>7. \A t \in 1..Window :
         recent'[t] + Pending' - (RedisShare(t)' + LocalShare(t)' + Slack')
            <= recent[t] + Pending - (RedisShare(t) + LocalShare(t) + Slack)
  BY <1>3, <1>4, <1>5, RateNumbers
<1>8. Pending' <= losses' + (IF count' > 0 /\ ttl' = 0 THEN 1 ELSE 0)
  BY <1>1, <1>2, <1>3, <1>6, RateNumbers DEF redis
<1> QED
  BY <1>1, <1>2, <1>3, <1>7, <1>8, SharesSuffice

\* A store that loses its counts could admit one window's worth more.
LEMMA RestartIsSound == ASSUME RateInv, RateTypeOK', Restart PROVE RateInv'
<1>1. RateTypeOK /\ (~up => outages > 0)
  BY DEF RateInv
<1>2. /\ UNCHANGED <<redis, up, outages, recent>> /\ local' = 0 /\ localTtl' = 0
      /\ losses' = losses + 1 /\ place' = [h \in Hits |-> "idle"]
  BY DEF Restart
<1>3. IsFiniteSet(Starting') /\ Pending' = 0
  <2>1. Starting' = {}
    BY <1>2 DEF Starting
  <2> QED
    BY <2>1, FS_EmptySet DEF Pending
<1>4. \A t \in 1..Window : RedisShare(t)' = RedisShare(t)
  BY <1>2 DEF RedisShare, LetIn, redis
<1>5. Slack' = Slack + Limit
  BY <1>1, <1>2, SlackGrows
<1>6. \A t \in 1..Window : LocalShare(t) <= LocalShare(t)' + Limit
  <2> SUFFICES ASSUME NEW t \in 1..Window PROVE LocalShare(t) <= LocalShare(t)' + Limit
    OBVIOUS
  <2>1. CASE outages = 0
    BY <1>2, <2>1, RateNumbers DEF LocalShare
  <2>2. CASE outages # 0
    <3>1. LocalShare(t)' = LetIn(0) + Limit
      BY <1>2, <2>2 DEF LocalShare, LetIn
    <3>2. LetIn(local) \in 0..Limit /\ LetIn(0) = 0
      BY RateNumbers, LetInUp
    <3>3. LocalShare(t) = LetIn(local) + (IF localTtl > 0 /\ t <= Window - localTtl THEN 0 ELSE Limit)
      BY <2>2 DEF LocalShare
    <3> HIDE DEF LetIn
    <3> QED
      BY <3>1, <3>2, <3>3, RateNumbers
  <2> QED
    BY <2>1, <2>2
<1> HIDE DEF RedisShare, LocalShare, Slack, Pending
<1>7. \A t \in 1..Window :
         recent'[t] + Pending' - (RedisShare(t)' + LocalShare(t)' + Slack')
            <= recent[t] + Pending - (RedisShare(t) + LocalShare(t) + Slack)
  BY <1>2, <1>3, <1>4, <1>5, <1>6, RateNumbers
<1>8. Pending' <= losses' + (IF count' > 0 /\ ttl' = 0 THEN 1 ELSE 0)
  BY <1>2, <1>3, RateNumbers
<1> QED
  BY <1>1, <1>2, <1>3, <1>7, <1>8, SharesSuffice

LEMMA LoseIsSound == ASSUME RateInv, RateTypeOK', Lose PROVE RateInv'
<1>1. /\ RateTypeOK /\ IsFiniteSet(Starting) /\ (~up => outages > 0)
      /\ Pending <= losses + (IF count > 0 /\ ttl = 0 THEN 1 ELSE 0)
  BY DEF RateInv
<1>2. /\ UNCHANGED <<fallback, place, up, outages, recent>> /\ count' = 0 /\ ttl' = 0
      /\ losses' = losses + 1
  BY DEF Lose
<1>3. IsFiniteSet(Starting') /\ Pending' = Pending
  BY <1>1, <1>2 DEF Starting, Pending
<1>4. \A t \in 1..Window : LocalShare(t)' = LocalShare(t)
  BY <1>2, FallbackKept
<1>5. Slack' = Slack + Limit
  BY <1>1, <1>2, SlackGrows
<1>6. \A t \in 1..Window : RedisShare(t) <= RedisShare(t)' + Limit
  <2> SUFFICES ASSUME NEW t \in 1..Window PROVE RedisShare(t) <= RedisShare(t)' + Limit
    OBVIOUS
  <2>1. RedisShare(t)' = LetIn(0) + Limit
    BY <1>2 DEF RedisShare, LetIn
  <2>2. LetIn(count) \in 0..Limit /\ LetIn(0) = 0
    BY RateNumbers, LetInUp
  <2>3. RedisShare(t) = LetIn(count) + (IF ttl > 0 /\ t <= Window - ttl THEN 0 ELSE Limit)
    BY DEF RedisShare
  <2> HIDE DEF LetIn
  <2> QED
    BY <2>1, <2>2, <2>3, RateNumbers
<1> HIDE DEF RedisShare, LocalShare, Slack, Pending
<1>7. \A t \in 1..Window :
         recent'[t] + Pending' - (RedisShare(t)' + LocalShare(t)' + Slack')
            <= recent[t] + Pending - (RedisShare(t) + LocalShare(t) + Slack)
  BY <1>2, <1>3, <1>4, <1>5, <1>6, RateNumbers
<1>8. Pending' <= losses' + (IF count' > 0 /\ ttl' = 0 THEN 1 ELSE 0)
  BY <1>1, <1>2, <1>3, RateNumbers
<1> QED
  BY <1>1, <1>2, <1>3, <1>7, <1>8, SharesSuffice

\* What happened in the last t ticks was then of the last t - 1: a window that ends
\* leaves no more than itself behind.
LEMMA TickIsSound == ASSUME RateInv, RateTypeOK', Tick PROVE RateInv'
<1>1. /\ RateTypeOK /\ IsFiniteSet(Starting) /\ (~up => outages > 0)
      /\ Pending <= losses + (IF count > 0 /\ ttl = 0 THEN 1 ELSE 0)
      /\ \A t \in 1..Window : recent[t] + Pending <= RedisShare(t) + LocalShare(t) + Slack
  BY DEF RateInv
<1>2. /\ ttl' = (IF ttl > 0 THEN ttl - 1 ELSE 0) /\ count' = (IF ttl = 1 THEN 0 ELSE count)
      /\ localTtl' = (IF localTtl > 0 THEN localTtl - 1 ELSE 0)
      /\ local' = (IF localTtl <= 1 THEN 0 ELSE local)
      /\ recent' = [t \in 1..Window |-> IF t = 1 THEN 0 ELSE recent[t - 1]]
      /\ UNCHANGED <<place, up, outages, losses>>
  BY DEF Tick, faults
<1>3. IsFiniteSet(Starting') /\ Pending' = Pending
  BY <1>1, <1>2 DEF Starting, Pending
<1>4. Slack' = Slack
  BY <1>1, <1>2, SlackGrows
<1>5. LetIn(count) \in 0..Limit /\ LetIn(local) \in 0..Limit /\ LetIn(0) = 0 /\ (count > 0 => LetIn(count) > 0)
  <2>1. LetIn(count) \in 0..Limit /\ LetIn(local) \in 0..Limit /\ LetIn(0) = 0
    BY RateNumbers, LetInUp
  <2>2. count > 0 => LetIn(count) > 0
    BY RateNumbers DEF LetIn
  <2> QED
    BY <2>1, <2>2
<1>6. ASSUME NEW t \in 1..Window, t > 1
      PROVE  RedisShare(t - 1) <= RedisShare(t)' /\ LocalShare(t - 1) <= LocalShare(t)'
  <2>1. /\ RedisShare(t - 1) = LetIn(count) + (IF ttl > 0 /\ t - 1 <= Window - ttl THEN 0 ELSE Limit)
        /\ RedisShare(t)' = LetIn(count') + (IF ttl' > 0 /\ t <= Window - ttl' THEN 0 ELSE Limit)
    BY DEF RedisShare, LetIn
  <2>2. outages # 0 =>
          /\ LocalShare(t - 1) = LetIn(local) + (IF localTtl > 0 /\ t - 1 <= Window - localTtl THEN 0 ELSE Limit)
          /\ LocalShare(t)' = LetIn(local') + (IF localTtl' > 0 /\ t <= Window - localTtl' THEN 0 ELSE Limit)
    BY <1>2 DEF LocalShare, LetIn
  <2>3. outages = 0 => LocalShare(t - 1) = 0 /\ LocalShare(t)' = 0
    BY <1>2 DEF LocalShare
  <2>4. localTtl = 0 => local = 0
    BY <1>1, RateNumbers DEF RateTypeOK
  <2> HIDE DEF LetIn, RedisShare, LocalShare
  <2>5. t \in Int /\ Window \in Int /\ ttl \in Nat /\ localTtl \in Nat /\ Limit \in Nat
    BY RateNumbers
  <2>6. RedisShare(t - 1) <= RedisShare(t)'
    <3>1. CASE ttl = 0
      <4>1. ttl' = 0 /\ count' = count
        BY <1>2, <3>1
      <4> QED
        BY <1>5, <2>1, <2>5, <3>1, <4>1
    <3>2. CASE ttl = 1
      <4>1. ttl' = 0 /\ count' = 0
        BY <1>2, <3>2
      <4>2. t - 1 <= Window - ttl
        BY <2>5, <3>2
      <4>3. RedisShare(t - 1) = LetIn(count) + 0 /\ RedisShare(t)' = 0 + Limit
        BY <1>5, <2>1, <2>5, <3>2, <4>1, <4>2
      <4> QED
        BY <1>5, <2>5, <4>3
    <3>3. CASE ttl > 1
      <4>1. ttl' = ttl - 1 /\ count' = count /\ ttl' > 0
        BY <1>2, <2>5, <3>3
      <4>2. t - 1 <= Window - ttl <=> t <= Window - ttl'
        BY <2>5, <4>1
      <4> QED
        BY <1>5, <2>1, <2>5, <3>3, <4>1, <4>2
    <3> QED
      BY <2>5, <3>1, <3>2, <3>3
  <2>7. LocalShare(t - 1) <= LocalShare(t)'
    <3>1. CASE outages = 0
      BY <2>3, <3>1
    <3>2. CASE outages # 0 /\ localTtl = 0
      <4>1. localTtl' = 0 /\ local' = local
        BY <1>2, <2>4, <3>2
      <4> QED
        BY <1>5, <2>2, <2>5, <3>2, <4>1
    <3>3. CASE outages # 0 /\ localTtl = 1
      <4>1. localTtl' = 0 /\ local' = 0
        BY <1>2, <3>3
      <4>2. t - 1 <= Window - localTtl
        BY <2>5, <3>3
      <4>3. LocalShare(t - 1) = LetIn(local) + 0 /\ LocalShare(t)' = 0 + Limit
        BY <1>5, <2>2, <2>5, <3>3, <4>1, <4>2
      <4> QED
        BY <1>5, <2>5, <4>3
    <3>4. CASE outages # 0 /\ localTtl > 1
      <4>1. localTtl' = localTtl - 1 /\ local' = local /\ localTtl' > 0
        BY <1>2, <2>5, <3>4
      <4>2. t - 1 <= Window - localTtl <=> t <= Window - localTtl'
        BY <2>5, <4>1
      <4> QED
        BY <1>5, <2>2, <2>5, <3>4, <4>1, <4>2
    <3> QED
      BY <2>5, <3>1, <3>2, <3>3, <3>4
  <2> QED
    BY <2>6, <2>7
<1>7. Pending' <= losses' + (IF count' > 0 /\ ttl' = 0 THEN 1 ELSE 0)
  BY <1>1, <1>2, <1>3, RateNumbers DEF Pending
<1>8. \A t \in 1..Window : recent'[t] + Pending' <= RedisShare(t)' + LocalShare(t)' + Slack'
  <2> SUFFICES ASSUME NEW t \in 1..Window
               PROVE  recent'[t] + Pending' <= RedisShare(t)' + LocalShare(t)' + Slack'
    OBVIOUS
  <2>1. CASE t = 1
    <3>1. RedisShare(t)' = LetIn(count') + (IF ttl' > 0 /\ t <= Window - ttl' THEN 0 ELSE Limit)
      BY DEF RedisShare, LetIn
    <3>2. recent'[t] = 0
      BY <1>2, <2>1
    <3> HIDE DEF RedisShare, LocalShare, Slack, Pending, LetIn
    <3>3. /\ LetIn(count') \in Nat /\ Limit \in Nat /\ Limit >= 1
          /\ RedisShare(t)' \in Nat /\ LocalShare(t)' \in Nat
          /\ losses' = losses /\ losses \in Nat /\ Slack \in Nat /\ losses <= Slack
          /\ Pending \in Nat
      <4>1. LetIn(count') \in Nat
        <5>1. count' = count \/ count' = 0
          BY <1>2
        <5> QED
          BY <1>5, <5>1, RateNumbers
      <4> QED
        BY <1>2, <4>1, RateNumbers
    <3>4. CASE ttl' = 0
      <4>1. RedisShare(t)' = LetIn(count') + Limit
        BY <3>1, <3>4
      <4>2. Pending' <= losses' + 1
        BY <1>3, <1>7, <3>3
      <4> QED
        BY <1>3, <1>4, <3>2, <3>3, <4>1, <4>2
    <3>5. CASE ttl' # 0
      <4>1. Pending' <= losses'
        BY <1>3, <1>7, <3>3, <3>5
      <4> QED
        BY <1>3, <1>4, <3>2, <3>3, <4>1
    <3> QED
      BY <3>4, <3>5
  <2>2. CASE t > 1
    <3>1. t - 1 \in 1..Window /\ recent'[t] = recent[t - 1]
      BY <1>2, <2>2, RateNumbers
    <3>2. recent[t - 1] + Pending <= RedisShare(t - 1) + LocalShare(t - 1) + Slack
      BY <1>1, <3>1
    <3> HIDE DEF RedisShare, LocalShare, Slack, Pending
    <3> QED
      BY <1>3, <1>4, <1>6, <2>2, <3>1, <3>2, RateNumbers
  <2> QED
    BY <2>1, <2>2, RateNumbers
<1> QED
  BY <1>1, <1>2, <1>3, <1>7, <1>8 DEF RateInv

LEMMA RateStarts == RateInit => RateInv
<1> SUFFICES ASSUME RateInit PROVE RateInv
  OBVIOUS
<1>1. RateTypeOK
  BY LimitIsPositive, SaturationIsPastLimit, FaultsAreBounded DEF RateInit, RateTypeOK
<1>2. IsFiniteSet(Starting) /\ Pending = 0
  <2>1. Starting = {}
    BY DEF RateInit, Starting
  <2> QED
    BY <2>1, FS_EmptySet DEF Pending
<1>3. SharesFit
  BY <1>1, Shares
<1> QED
  BY <1>1, <1>2, <1>3 DEF RateInit, RateInv, SharesFit

LEMMA RateSteps == RateInv /\ [RateNext]_rateVars => RateInv'
<1> SUFFICES ASSUME RateInv, [RateNext]_rateVars PROVE RateInv'
  OBVIOUS
<1>1. RateTypeOK'
  BY RateTypes DEF RateInv
<1>2. /\ RateTypeOK /\ IsFiniteSet(Starting) /\ (~up => outages > 0)
      /\ outages \in Nat
  BY <1>1, RateNumbers DEF RateInv
<1>3. ASSUME NEW h \in Hits, Reject(h) PROVE RateInv'
  <2>1. /\ UNCHANGED <<redis, fallback, up, outages, losses, recent>>
        /\ place[h] = "ttl" /\ Move(h, "idle")
    BY <1>3 DEF Reject, faults
  <2>2. IsFiniteSet(Starting') /\ Pending \in Nat /\ Pending' = Pending + 0 - 0
    BY <1>2, <2>1, PendingAfterMove
  <2>3. Pending' = Pending
    BY <2>2
  <2> QED
    BY <1>1, <1>2, <2>1, <2>2, <2>3, NothingAdmitted
<1>4. CASE Outage \/ Recover
  <2>1. UNCHANGED <<redis, fallback, place, losses, recent>>
    BY <1>4 DEF Outage, Recover
  <2>2. outages <= outages' /\ (~up' => outages' > 0)
    BY <1>2, <1>4 DEF Outage, Recover
  <2>3. IsFiniteSet(Starting') /\ Pending' = Pending
    BY <1>2, <2>1 DEF Starting, Pending
  <2> QED
    BY <1>1, <2>1, <2>2, <2>3, NothingAdmitted
<1>5. CASE UNCHANGED rateVars
  <2>1. UNCHANGED <<redis, fallback, place, up, outages, losses, recent>>
    BY <1>5 DEF rateVars, faults
  <2>2. IsFiniteSet(Starting') /\ Pending' = Pending
    BY <1>2, <2>1 DEF Starting, Pending
  <2> QED
    BY <1>1, <1>2, <2>1, <2>2, NothingAdmitted
<1> QED
  BY <1>1, <1>3, <1>4, <1>5, IncrIsSound, SendExpireIsSound, UnavailableIsSound, RestartIsSound,
     LoseIsSound, TickIsSound DEF RateNext, Handle

\* However requests, outages, restarts and evictions interleave, the counts and clocks
\* of both stores keep their ranges, and a key that has a clock has a count.
THEOREM RateTypeCorrect == RateSpec => []RateTypeOK
<1>1. RateInv => RateTypeOK
  BY DEF RateInv
<1> QED
  BY <1>1, RateStarts, RateSteps, PTL DEF RateSpec

\* For any limit, window and number of requests in flight, whatever stretch of one
\* window's length one looks at, and however hits, a stale EXPIRE, outages and losses
\* of a store fall into it: at most two windows' worth are admitted, two more once the
\* dictionary had to stand in, and one more for each time a store lost its counts.
THEOREM WindowsAddUp == RateSpec => []SlidingBound
<1>1. ASSUME RateInv PROVE SlidingBound
  <2>1. RateTypeOK /\ SharesFit
    BY <1>1, Shares DEF RateInv
  <2>2. /\ Limit \in Nat /\ Window \in Nat \ {0} /\ losses \in Nat /\ outages \in Nat
        /\ recent[Window] \in Nat /\ Pending \in Nat
    BY <1>1, <2>1, LimitIsPositive, FaultsAreBounded, FS_CardinalityType
       DEF RateInv, RateTypeOK, Pending
  <2>3. /\ recent[Window] + Pending <= RedisShare(Window) + LocalShare(Window) + Slack
        /\ RedisShare(Window) \in 0..(Limit + Limit) /\ LocalShare(Window) \in 0..(Limit + Limit)
    BY <1>1, <2>1, <2>2 DEF RateInv, SharesFit
  <2>4. outages = 0 => LocalShare(Window) = 0
    BY DEF LocalShare
  <2>5. /\ Slack \in Nat
        /\ Limit * (2 * 1 + losses) = Limit + Limit + Slack
        /\ Limit * (2 * 2 + losses) = Limit + Limit + Limit + Limit + Slack
    BY <2>2 DEF Slack
  <2> HIDE DEF Slack, RedisShare, LocalShare, Pending
  <2>6. CASE outages = 0
    <3>1. recent[Window] <= Limit * (2 * 1 + losses)
      BY <2>2, <2>3, <2>4, <2>5, <2>6
    <3> QED
      BY <2>6, <3>1 DEF SlidingBound
  <2>7. CASE outages # 0
    <3>1. recent[Window] <= Limit * (2 * 2 + losses)
      BY <2>2, <2>3, <2>5
    <3> QED
      BY <2>7, <3>1 DEF SlidingBound
  <2> QED
    BY <2>6, <2>7
<1> QED
  BY <1>1, RateStarts, RateSteps, PTL DEF RateSpec
=============================================================================
