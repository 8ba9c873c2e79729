---------------------------- MODULE Waits_proofs ----------------------------
(***************************************************************************)
(* Proofs about Waits, for any runs, messages, timeouts and intervals.     *)
(***************************************************************************)
EXTENDS Waits, TLAPS

-----------------------------------------------------------------------------
(* Type correctness.                                                       *)

LEMMA TypeInit == Init => TypeOK
BY BoundsAreNumbers DEF Init, TypeOK, Places

\* What a wait sleeps is positive, and ends at its timeout at the latest.
LEMMA NapIsShort ==
    ASSUME TypeOK, NEW r \in Runs, ~Expired(r)
    PROVE  LET nap == Lesser(PollInterval, budget[r] - (now - since[r]))
           IN  nap \in Nat /\ now + nap <= since[r] + budget[r]
BY TimesAreNumbers DEF TypeOK, Expired, Lesser

\* A wait that begins has a budget.
LEMMA BudgetIsPositive ==
    ASSUME TypeOK, NEW r \in Runs, HasNextWait(r)
    PROVE  Lesser(Declared, deadline[r] - now) \in Nat /\ left[r] - 1 \in Nat
BY TimesAreNumbers DEF TypeOK, HasNextWait, Lesser

LEMMA TypeStep == TypeOK /\ [Next]_vars => TypeOK'
<1> SUFFICES ASSUME TypeOK, [Next]_vars PROVE TypeOK'
  OBVIOUS
<1> USE TimesAreNumbers, BoundsAreNumbers DEF Goto, run, wait, mail, hist
<1>1. ASSUME NEW r \in Runs, ClaimLook(r) \/ ClaimTake(r) \/ ClaimSkip(r) PROVE TypeOK'
  BY <1>1 DEF TypeOK, Places, ClaimLook, ClaimTake, ClaimSkip
<1>2. ASSUME NEW r \in Runs, Cancel(r) PROVE TypeOK'
  BY <1>2 DEF TypeOK, Places, Cancel
<1>3. ASSUME NEW r \in Runs, StartWait(r) PROVE TypeOK'
  <2>1. Lesser(Declared, deadline[r] - now) \in Nat /\ left[r] - 1 \in Nat
    BY <1>3, BudgetIsPositive DEF StartWait
  <2>2. left' \in [Runs -> Nat] /\ budget' \in [Runs -> Nat] /\ since' \in [Runs -> Nat]
    BY <1>3, <2>1 DEF StartWait, TypeOK
  <2> QED
    BY <1>3, <2>2 DEF TypeOK, Places, StartWait
<1>4. ASSUME NEW r \in Runs, Fetch(r) PROVE TypeOK'
  BY <1>4 DEF TypeOK, Places, Fetch
<1>5. ASSUME NEW r \in Runs, Match(r) PROVE TypeOK'
  BY <1>5 DEF TypeOK, Places, Match
<1>6. ASSUME NEW r \in Runs, GiveUp(r) PROVE TypeOK'
  BY <1>6 DEF TypeOK, Places, GiveUp
<1>7. ASSUME NEW r \in Runs, Sleep(r) PROVE TypeOK'
  <2> DEFINE nap == Lesser(PollInterval, budget[r] - (now - since[r]))
  <2>1. nap \in Nat /\ now + nap <= since[r] + budget[r]
    BY <1>7, NapIsShort DEF Sleep
  <2>2. wake' = [wake EXCEPT ![r] = now + nap]
    BY <1>7 DEF Sleep
  <2> HIDE DEF nap
  <2> QED
    BY <1>7, <2>1, <2>2 DEF TypeOK, Places, Sleep
<1>8. ASSUME NEW r \in Runs, Wake(r) PROVE TypeOK'
  BY <1>8 DEF TypeOK, Places, Wake
<1>9. ASSUME NEW r \in Runs, Stop(r) PROVE TypeOK'
  BY <1>9 DEF TypeOK, Places, Stop
<1>10. ASSUME NEW m \in Messages, Send(m) PROVE TypeOK'
  BY <1>10 DEF TypeOK, Send
<1>11. ASSUME NEW m \in Messages, Store(m) PROVE TypeOK'
  BY <1>11 DEF TypeOK, Store
<1>12. CASE Tick
  BY <1>12 DEF TypeOK, Tick
<1>13. CASE UNCHANGED vars
  BY <1>13 DEF TypeOK, vars
<1> QED
  BY <1>1, <1>2, <1>3, <1>4, <1>5, <1>6, <1>7, <1>8, <1>9, <1>10, <1>11, <1>12, <1>13
     DEF Next, Worker

\* Clamped to the run's deadline a wait still has a budget that is not negative, and
\* it sleeps past its own timeout in no state.
THEOREM TypeCorrect == Spec => []TypeOK
<1>1. Init => TypeOK
  BY TypeInit
<1>2. TypeOK /\ [Next]_vars => TypeOK'
  BY TypeStep
<1> QED
  BY <1>1, <1>2, PTL DEF Spec

-----------------------------------------------------------------------------
(* The clock orders stamps, commits and waits.                             *)

Waiting(r) == pc[r] \in {"fetch", "fetched", "asleep"}

MailTimes ==
    \A m \in Messages :
        /\ stamp[m] <= now /\ arrived[m] <= now
        /\ arrived[m] > 0 => stamp[m] > 0

\* What a run has matched was stamped before its present wait began, what it has
\* just found after.
WaitTimes ==
    \A r \in Runs :
        /\ since[r] <= now
        /\ \A m \in matched[r] : stamp[m] > 0
        /\ Waiting(r) => \A m \in matched[r] : stamp[m] <= since[r]
        /\ pc[r] = "fetched" /\ found[r] # None => stamp[found[r]] > since[r]

\* A query that found nothing, and took no time, missed nothing but what is
\* committed at this very time.
Missed ==
    \A r \in Runs :
        /\ pc[r] = "fetched" /\ found[r] = None /\ ~slow[r] =>
             \A m \in Wanted[r] :
                 stamp[m] > since[r] /\ arrived[m] > 0 => arrived[m] >= now
        /\ pc[r] = "expired" => now >= since[r] + budget[r]

Times == MailTimes /\ WaitTimes /\ Missed

LEMMA TimesInit == Init => Times
BY DEF Init, Times, MailTimes, WaitTimes, Missed, Waiting

LEMMA MailTimesStep == TypeOK /\ Times /\ [Next]_vars => MailTimes'
<1> SUFFICES ASSUME TypeOK, Times, [Next]_vars PROVE MailTimes'
  OBVIOUS
<1> USE DEF Times, MailTimes, mail, hist
<1>1. ASSUME NEW r \in Runs, Worker(r) \/ Cancel(r) PROVE MailTimes'
  BY <1>1 DEF Worker, Cancel, ClaimLook, ClaimTake, ClaimSkip, StartWait, Fetch, Match, GiveUp, Sleep, Wake, Stop
<1>2. ASSUME NEW m \in Messages, Send(m) PROVE MailTimes'
  BY <1>2 DEF TypeOK, Send
<1>3. ASSUME NEW m \in Messages, Store(m) PROVE MailTimes'
  BY <1>3 DEF TypeOK, Store
<1>4. CASE Tick
  BY <1>4 DEF TypeOK, Tick
<1>5. CASE UNCHANGED vars
  BY <1>5 DEF vars
<1> QED
  BY <1>1, <1>2, <1>3, <1>4, <1>5 DEF Next

LEMMA WaitTimesStep == TypeOK /\ Times /\ [Next]_vars => WaitTimes'
<1> SUFFICES ASSUME TypeOK, Times, [Next]_vars PROVE WaitTimes'
  OBVIOUS
<1> USE DEF Times, WaitTimes, Waiting, Goto, run, wait, mail, hist
<1>1. ASSUME NEW r \in Runs, ClaimLook(r) \/ ClaimTake(r) \/ ClaimSkip(r) \/ Cancel(r) \/ GiveUp(r) \/ Stop(r)
      PROVE  WaitTimes'
  BY <1>1 DEF TypeOK, ClaimLook, ClaimTake, ClaimSkip, Cancel, GiveUp, Stop
<1>2. ASSUME NEW r \in Runs, StartWait(r) PROVE WaitTimes'
  BY <1>2 DEF TypeOK, MailTimes, StartWait
<1>3. ASSUME NEW r \in Runs, Fetch(r) PROVE WaitTimes'
  <2> USE <1>3 DEF Fetch
  <2>1. found'[r] # None => found'[r] \in Candidates(r)
    BY DEF TypeOK
  <2>2. found'[r] # None => stamp[found'[r]] > since[r]
    BY <2>1 DEF Candidates
  <2> QED
    BY <2>2 DEF TypeOK
<1>4. ASSUME NEW r \in Runs, Match(r) PROVE WaitTimes'
  <2> USE <1>4 DEF Match
  <2>1. stamp[found[r]] > 0
    BY NoneIsNoMessage DEF TypeOK
  <2>2. \A m \in matched'[r] : stamp[m] > 0
    BY <2>1 DEF TypeOK
  <2> QED
    BY <2>2 DEF TypeOK
<1>5. ASSUME NEW r \in Runs, Sleep(r) \/ Wake(r) PROVE WaitTimes'
  BY <1>5 DEF TypeOK, Sleep, Wake
<1>6. ASSUME NEW m \in Messages, Send(m) PROVE WaitTimes'
  <2> USE <1>6 DEF Send
  <2>1. \A n \in Messages : n # m => stamp'[n] = stamp[n]
    BY DEF TypeOK
  <2>2. \A s \in Runs : m \notin matched[s]
    OBVIOUS
  <2>3. \A s \in Runs : pc[s] = "fetched" /\ found[s] # None => found[s] # m
    BY DEF TypeOK
  <2>4. \A s \in Runs : \A n \in matched[s] : stamp'[n] = stamp[n]
    BY <2>1, <2>2 DEF TypeOK
  <2>5. \A s \in Runs : pc[s] = "fetched" /\ found[s] # None =>
           stamp'[found[s]] = stamp[found[s]]
    BY <2>1, <2>3 DEF TypeOK
  <2> QED
    BY <2>4, <2>5
<1>7. ASSUME NEW m \in Messages, Store(m) PROVE WaitTimes'
  BY <1>7 DEF Store
<1>8. CASE Tick
  BY <1>8 DEF TypeOK, Tick
<1>9. CASE UNCHANGED vars
  BY <1>9 DEF vars
<1> QED
  BY <1>1, <1>2, <1>3, <1>4, <1>5, <1>6, <1>7, <1>8, <1>9 DEF Next, Worker

LEMMA MissedStep == TypeOK /\ Times /\ [Next]_vars => Missed'
<1> SUFFICES ASSUME TypeOK, Times, [Next]_vars PROVE Missed'
  OBVIOUS
<1> USE DEF Times, Missed, Goto, run, wait, mail, hist
<1>1. ASSUME NEW r \in Runs,
             \/ ClaimLook(r) \/ ClaimTake(r) \/ ClaimSkip(r) \/ Cancel(r) \/ StartWait(r) \/ Stop(r)
      PROVE  Missed'
  BY <1>1 DEF TypeOK, ClaimLook, ClaimTake, ClaimSkip, Cancel, StartWait, Stop
<1>2. ASSUME NEW r \in Runs, Fetch(r) PROVE Missed'
  <2> USE <1>2 DEF Fetch
  <2>1. found'[r] = None => Candidates(r) = {}
    <3>1. found'[r] \in Candidates(r) \/ Candidates(r) = {}
      BY DEF TypeOK
    <3>2. Candidates(r) \subseteq Messages
      BY WantedIsFunction DEF Candidates
    <3> QED
      BY <3>1, <3>2, NoneIsNoMessage
  <2>2. Candidates(r) = {} =>
          \A m \in Wanted[r] : ~(stamp[m] > since[r] /\ arrived[m] > 0)
    BY DEF Candidates
  <2> QED
    BY <2>1, <2>2 DEF TypeOK
<1>3. ASSUME NEW r \in Runs, GiveUp(r) PROVE Missed'
  BY <1>3 DEF TypeOK, GiveUp, Expired
<1>4. ASSUME NEW r \in Runs, Match(r) \/ Sleep(r) \/ Wake(r) PROVE Missed'
  BY <1>4 DEF TypeOK, Match, Sleep, Wake
<1>5. ASSUME NEW m \in Messages, Send(m) PROVE Missed'
  <2>1. arrived[m] = 0
    BY <1>5 DEF TypeOK, Send, MailTimes
  <2> QED
    BY <1>5, <2>1, WantedIsFunction DEF TypeOK, Send
<1>6. ASSUME NEW m \in Messages, Store(m) PROVE Missed'
  BY <1>6, WantedIsFunction DEF TypeOK, Store
<1>7. CASE Tick
  <2>1. \A r \in Runs : pc[r] = "fetched" => slow'[r]
    BY <1>7 DEF Tick
  <2>2. now' \in Nat /\ now' >= now
    BY <1>7 DEF TypeOK, Tick
  <2>3. UNCHANGED <<pc, since, budget, found>>
    BY <1>7 DEF Tick
  <2>4. \A r \in Runs : since[r] + budget[r] \in Nat /\ now \in Nat
    BY DEF TypeOK
  <2>5. \A r \in Runs : pc'[r] = "expired" => now' >= since'[r] + budget'[r]
    BY <2>2, <2>3, <2>4
  <2> QED
    BY <2>1, <2>3, <2>5
<1>8. CASE UNCHANGED vars
  BY <1>8 DEF vars
<1> QED
  BY <1>1, <1>2, <1>3, <1>4, <1>5, <1>6, <1>7, <1>8 DEF Next, Worker

LEMMA TimesStep == TypeOK /\ Times /\ [Next]_vars => Times'
BY MailTimesStep, WaitTimesStep, MissedStep DEF Times

-----------------------------------------------------------------------------
(* The waits of one run.                                                   *)

\* Whatever else goes on, a run's waits take messages in the order of their stamps
\* and no message twice: a step that matches is later than every stamp before it.
THEOREM WaitsAdvance == Spec => MatchesAdvance
<1> DEFINE Forward == \A r \in Runs : \A m \in matched[r] : \A n \in matched'[r] :
                          n \in matched[r] \/ stamp[m] < stamp[n]
<1>1. Init => TypeOK /\ Times
  BY TypeInit, TimesInit
<1>2. TypeOK /\ Times /\ [Next]_vars => TypeOK' /\ Times'
  BY TypeStep, TimesStep
<1>3. TypeOK /\ Times /\ [Next]_vars => [Forward]_vars
  <2> SUFFICES ASSUME TypeOK, Times, [Next]_vars,
                      NEW r \in Runs, NEW m \in matched[r], NEW n \in matched'[r],
                      n \notin matched[r]
               PROVE  stamp[m] < stamp[n]
    OBVIOUS
  <2>1. PICK s \in Runs : Match(s)
    BY DEF Next, Worker, ClaimLook, ClaimTake, ClaimSkip, Cancel, StartWait, Fetch, GiveUp, Sleep, Wake, Stop,
           Send, Store, Tick, vars
  <2>2. r = s /\ n = found[r]
    BY <2>1 DEF Match, TypeOK
  <2>3. stamp[m] <= since[r] /\ since[r] < stamp[n]
    BY <2>1, <2>2 DEF Match, Times, WaitTimes, Waiting, TypeOK
  <2>4. stamp[m] \in Nat /\ stamp[n] \in Nat /\ since[r] \in Nat
    BY <2>1, <2>2, NoneIsNoMessage DEF Match, TypeOK
  <2> QED
    BY <2>3, <2>4
<1> HIDE DEF Forward
<1>4. Spec => [][Forward]_vars
  BY <1>1, <1>2, <1>3, PTL DEF Spec
<1> QED
  BY <1>4 DEF MatchesAdvance, Forward

\* The clamped timeout, the short last sleep and the look after it leave no gap: a
\* wait that expires has seen all that was stamped and committed in its time.
THEOREM TimeoutsAreTrue == Spec => []NoFalseTimeout
<1> DEFINE Inv == TypeOK /\ Times /\ NoFalseTimeout
<1>1. Init => Inv
  BY TypeInit, TimesInit DEF Init, NoFalseTimeout
<1>2. Inv /\ [Next]_vars => Inv'
  <2> SUFFICES ASSUME Inv, [Next]_vars PROVE NoFalseTimeout'
    BY TypeStep, TimesStep
  <2> USE DEF NoFalseTimeout, Goto, run, wait, mail, hist
  <2>1. ASSUME NEW r \in Runs, GiveUp(r) PROVE NoFalseTimeout'
    <3> USE <2>1 DEF GiveUp
    <3>1. now >= since[r] + budget[r]
      BY DEF Expired, TypeOK
    <3>2. ASSUME ~slow[r], NEW m \in Wanted[r], stamp[m] > since[r], arrived[m] > 0
          PROVE  arrived[m] >= since[r] + budget[r]
      <4>1. arrived[m] >= now
        BY <3>2 DEF Times, Missed
      <4>2. m \in Messages
        BY WantedIsFunction
      <4>3. arrived[m] \in Nat /\ now \in Nat /\ since[r] \in Nat /\ budget[r] \in Nat
        BY <4>2 DEF TypeOK
      <4> QED
        BY <3>1, <4>1, <4>3
    <3>3. UNCHANGED <<since, budget, slow, stamp, arrived>>
      OBVIOUS
    <3>4. \A s \in Runs : s # r => pc'[s] = pc[s]
      BY DEF TypeOK
    <3> QED
      BY <3>2, <3>3, <3>4
  <2>2. ASSUME NEW r \in Runs,
               \/ ClaimLook(r) \/ ClaimTake(r) \/ ClaimSkip(r) \/ Cancel(r) \/ StartWait(r) \/ Stop(r)
        PROVE  NoFalseTimeout'
    BY <2>2 DEF TypeOK, ClaimLook, ClaimTake, ClaimSkip, Cancel, StartWait, Stop
  <2>3. ASSUME NEW r \in Runs, Fetch(r) \/ Match(r) \/ Sleep(r) \/ Wake(r)
        PROVE  NoFalseTimeout'
    BY <2>3 DEF TypeOK, Fetch, Match, Sleep, Wake
  <2>4. ASSUME NEW m \in Messages, Send(m) PROVE NoFalseTimeout'
    BY <2>4, WantedIsFunction DEF TypeOK, Send, Times, MailTimes
  <2>5. ASSUME NEW m \in Messages, Store(m) PROVE NoFalseTimeout'
    BY <2>5, WantedIsFunction DEF TypeOK, Store, Times, Missed
  <2>6. CASE Tick
    BY <2>6 DEF TypeOK, Tick
  <2>7. CASE UNCHANGED vars
    BY <2>7 DEF vars
  <2> QED
    BY <2>1, <2>2, <2>3, <2>4, <2>5, <2>6, <2>7 DEF Next, Worker
<1> QED
  BY <1>1, <1>2, PTL DEF Spec

-----------------------------------------------------------------------------
(* The runs of a workspace.                                                *)

\* A run that waits is `running`, unless it was cancelled under its worker; before
\* it is claimed it has matched nothing.
WorkersAreRunning ==
    \A r \in Runs :
        /\ Waiting(r) \/ pc[r] = "between" => status[r] = "running" \/ r \in cancelled
        /\ pc[r] \in {"idle", "claiming"} => status[r] = "queued" /\ matched[r] = {}

\* Beyond its waits: what it has matched is all it ever will.
Finished(s) == pc[s] \in {"expired", "done"}

\* A run s that the claim of r did not see queued, and that was not cancelled, is
\* behind r: its worker has left it, and what it matched is older than r's wait.
Behind(s, r) ==
    /\ Finished(s)
    /\ Waiting(r) => \A m \in matched[s] : stamp[m] <= since[r]
    /\ matched[r] \cap matched[s] = {}

Ordered ==
    \A r, s \in Runs :
        r # s /\ pc[r] # "idle" /\ s \notin cancelled \cup unstarted[r] => Behind(s, r)

Separate == WorkersAreRunning /\ Ordered

LEMMA WorkersStep == TypeOK /\ WorkersAreRunning /\ [Next]_vars => WorkersAreRunning'
<1> SUFFICES ASSUME TypeOK, WorkersAreRunning, [Next]_vars PROVE WorkersAreRunning'
  OBVIOUS
<1> USE DEF WorkersAreRunning, Waiting, Goto, run, wait, mail, hist
<1>1. ASSUME NEW r \in Runs, ClaimLook(r) \/ ClaimTake(r) \/ ClaimSkip(r) PROVE WorkersAreRunning'
  BY <1>1 DEF TypeOK, ClaimLook, ClaimTake, ClaimSkip
<1>2. ASSUME NEW r \in Runs, Cancel(r) PROVE WorkersAreRunning'
  BY <1>2 DEF TypeOK, Cancel
<1>3. ASSUME NEW r \in Runs, StartWait(r) \/ Fetch(r) PROVE WorkersAreRunning'
  BY <1>3 DEF TypeOK, StartWait, Fetch
<1>4. ASSUME NEW r \in Runs, Match(r) \/ GiveUp(r) PROVE WorkersAreRunning'
  BY <1>4 DEF TypeOK, Match, GiveUp
<1>5. ASSUME NEW r \in Runs, Sleep(r) \/ Wake(r) \/ Stop(r) PROVE WorkersAreRunning'
  BY <1>5 DEF TypeOK, Sleep, Wake, Stop
<1>6. ASSUME NEW m \in Messages, Send(m) \/ Store(m) PROVE WorkersAreRunning'
  BY <1>6 DEF Send, Store
<1>7. CASE Tick
  BY <1>7 DEF Tick
<1>8. CASE UNCHANGED vars
  BY <1>8 DEF vars
<1> QED
  BY <1>1, <1>2, <1>3, <1>4, <1>5, <1>6, <1>7, <1>8 DEF Next, Worker

\* What a claim sees: the runs that have started are over, and their workers, if
\* none was cancelled, have left them.
LEMMA LookSeesTheFinished ==
    ASSUME TypeOK, WorkersAreRunning, NEW r \in Runs, ClaimLook(r),
           NEW s \in Runs, s \notin cancelled \cup unstarted'[r]
    PROVE  Finished(s)
<1>1. status[s] = "over"
  BY DEF TypeOK, ClaimLook
<1>2. ~(Waiting(s) \/ pc[s] = "between")
  BY <1>1 DEF WorkersAreRunning
<1> QED
  BY <1>1, <1>2 DEF TypeOK, Places, Waiting, Finished, WorkersAreRunning

LEMMA OrderedStep == TypeOK /\ Times /\ Separate /\ [Next]_vars => Ordered'
<1> SUFFICES ASSUME TypeOK, Times, Separate, [Next]_vars PROVE Ordered'
  OBVIOUS
<1> USE DEF Separate, Ordered, Behind, Finished, Waiting, Goto, run, wait, mail, hist
<1>1. ASSUME NEW x \in Runs, ClaimLook(x) PROVE Ordered'
  <2> USE <1>1
  <2>1. \A s \in Runs : s \notin cancelled \cup unstarted'[x] => Finished(s)
    BY LookSeesTheFinished
  <2>2. /\ pc[x] = "idle" /\ matched[x] = {} /\ cancelled' = cancelled
        /\ pc' = [pc EXCEPT ![x] = "claiming"] /\ UNCHANGED <<since, matched, stamp>>
        /\ \A r \in Runs : r # x => unstarted'[r] = unstarted[r]
    BY DEF TypeOK, ClaimLook, WorkersAreRunning
  <2>3. ASSUME NEW s \in Runs, s # x, s \notin (cancelled \cup unstarted[x])' PROVE Behind(s, x)'
    BY <2>1, <2>2, <2>3 DEF TypeOK
  <2>4. ASSUME NEW r \in Runs, NEW s \in Runs, r # x, r # s, pc'[r] # "idle",
               s \notin (cancelled \cup unstarted[r])'
        PROVE  Behind(s, r)'
    <3>1. Behind(s, r)
      BY <2>2, <2>4 DEF TypeOK
    <3> QED
      BY <2>2, <2>4, <3>1 DEF TypeOK
  <2> QED
    BY <2>3, <2>4
<1>2. ASSUME NEW x \in Runs, ClaimTake(x) \/ ClaimSkip(x) PROVE Ordered'
  BY <1>2 DEF TypeOK, ClaimTake, ClaimSkip
<1>3. ASSUME NEW x \in Runs, Cancel(x) PROVE Ordered'
  BY <1>3 DEF TypeOK, Cancel
<1>4. ASSUME NEW x \in Runs, StartWait(x) PROVE Ordered'
  <2>1. \A s \in Runs : \A m \in matched[s] : stamp[m] <= now
    BY DEF TypeOK, Times, MailTimes
  <2> QED
    BY <1>4, <2>1 DEF TypeOK, StartWait
<1>5. ASSUME NEW x \in Runs, Fetch(x) \/ Sleep(x) \/ Wake(x) PROVE Ordered'
  BY <1>5 DEF TypeOK, Fetch, Sleep, Wake
<1>6. ASSUME NEW x \in Runs, Match(x) PROVE Ordered'
  <2> USE <1>6 DEF Match
  <2>1. stamp[found[x]] > since[x] /\ found[x] \in Messages
    BY DEF TypeOK, Times, WaitTimes
  <2>2. /\ \A r \in Runs : r # x => matched'[r] = matched[r] /\ pc'[r] = pc[r]
        /\ matched'[x] = matched[x] \cup {found[x]} /\ pc'[x] = "between" /\ pc[x] = "fetched"
        /\ UNCHANGED <<since, stamp, cancelled, unstarted>>
    BY DEF TypeOK
  <2>3. ASSUME NEW s \in Runs, s # x, s \notin (cancelled \cup unstarted[x])' PROVE Behind(s, x)'
    <3>1. Behind(s, x)
      BY <2>2, <2>3
    <3>2. found[x] \notin matched[s]
      <4>1. ASSUME found[x] \in matched[s] PROVE FALSE
        <5>1. stamp[found[x]] <= since[x]
          BY <2>2, <3>1, <4>1
        <5>2. stamp[found[x]] \in Nat /\ since[x] \in Nat
          BY <2>1 DEF TypeOK
        <5> QED
          BY <2>1, <5>1, <5>2
      <4> QED
        BY <4>1
    <3> QED
      BY <2>2, <2>3, <3>1, <3>2
  <2>4. ASSUME NEW r \in Runs, NEW s \in Runs, r # x, r # s, pc'[r] # "idle",
               s \notin (cancelled \cup unstarted[r])'
        PROVE  Behind(s, r)'
    <3>1. Behind(s, r) /\ s # x
      BY <2>2, <2>4
    <3> QED
      BY <2>2, <2>4, <3>1
  <2> QED
    BY <2>3, <2>4
<1>7. ASSUME NEW x \in Runs, GiveUp(x) \/ Stop(x) PROVE Ordered'
  BY <1>7 DEF TypeOK, GiveUp, Stop
<1>8. ASSUME NEW m \in Messages, Send(m) PROVE Ordered'
  <2> USE <1>8 DEF Send
  <2>1. \A s \in Runs : m \notin matched[s]
    BY DEF Times, WaitTimes
  <2>2. \A s \in Runs : \A n \in matched[s] : stamp'[n] = stamp[n]
    BY <2>1 DEF TypeOK
  <2> QED
    BY <2>2
<1>9. ASSUME NEW m \in Messages, Store(m) PROVE Ordered'
  BY <1>9 DEF Store
<1>10. CASE Tick
  BY <1>10 DEF Tick
<1>11. CASE UNCHANGED vars
  BY <1>11 DEF vars
<1> QED
  BY <1>1, <1>2, <1>3, <1>4, <1>5, <1>6, <1>7, <1>8, <1>9, <1>10, <1>11 DEF Next, Worker

\* For any number of runs, and with claims that overlap: a message that satisfied
\* waits of two runs has its cause, each of the two was cancelled while it executed
\* or had not started when the claim of the other looked.
THEOREM SharersOverlapped == Spec => []SharingHasItsCause
<1>1. Init => TypeOK /\ Times /\ Separate
  BY TypeInit, TimesInit DEF Init, Separate, WorkersAreRunning, Ordered, Waiting
<1>2. TypeOK /\ Times /\ Separate /\ [Next]_vars => TypeOK' /\ Times' /\ Separate'
  BY TypeStep, TimesStep, WorkersStep, OrderedStep DEF Separate
<1>3. Separate => SharingHasItsCause
  <2> SUFFICES ASSUME Separate, NEW r \in Runs, NEW s \in Runs, r # s,
                      matched[r] \cap matched[s] # {}, s \notin cancelled \cup unstarted[r]
               PROVE  FALSE
    BY DEF SharingHasItsCause
  <2>1. pc[r] # "idle"
    BY DEF Separate, WorkersAreRunning
  <2>2. Behind(s, r)
    BY <2>1 DEF Separate, Ordered
  <2> QED
    BY <2>2 DEF Behind
<1> QED
  BY <1>1, <1>2, <1>3, PTL DEF Spec
=============================================================================
