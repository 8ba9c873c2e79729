------------------------ MODULE ScenarioPages_proofs ------------------------
(***************************************************************************)
(* Proofs about ScenarioPages, for any scenarios, names, runs and bounds:  *)
(* slugs are distinct, no page shows a verdict the run does not have, and  *)
(* a form stays on screen, with what the user typed, and addresses a row.  *)
(***************************************************************************)
EXTENDS ScenarioPages, FiniteSetTheorems, FunctionTheorems, WellFoundedInduction, TLAPS

-----------------------------------------------------------------------------
(* A slug is allocated among those that are free.                          *)

\* With fewer rows than suffixes, some suffix of a name is free.
LEMMA SomeSuffixIsFree ==
    ASSUME NEW n
    PROVE  FreeSuffixes(n) # {}
<1> SUFFICES ASSUME FreeSuffixes(n) = {} PROVE FALSE
  OBVIOUS
<1>1. \A k \in 1..Suffixes : \E s \in Scenarios : Exists(s) /\ row[s].slug = <<n, k>>
  BY DEF FreeSuffixes, TakenSlugs
<1> DEFINE holder == [k \in 1..Suffixes |->
                        CHOOSE s \in Scenarios : Exists(s) /\ row[s].slug = <<n, k>>]
<1>2. \A k \in 1..Suffixes : holder[k] \in Scenarios /\ row[holder[k]].slug = <<n, k>>
  BY <1>1
<1> HIDE DEF holder
<1>3. \A j, k \in 1..Suffixes : holder[j] = holder[k] => j = k
  BY <1>2
<1>4. holder \in [1..Suffixes -> Scenarios]
  BY <1>2 DEF holder
<1>5. holder \in Injection(1..Suffixes, Scenarios)
  BY <1>3, <1>4 DEF Injection, IsInjective
<1>6. Cardinality(1..Suffixes) <= Cardinality(Scenarios)
  BY <1>5, FS_Injection, ScenarioAssumption
<1>7. Suffixes > 0
  BY ScenarioAssumption, FS_CardinalityType
<1>8. Cardinality(1..Suffixes) = Suffixes
  BY <1>7, FS_Interval, ScenarioAssumption
<1> QED
  BY <1>6, <1>8, ScenarioAssumption, FS_CardinalityType

\* The first free suffix is one.
LEMMA FirstIsFree ==
    ASSUME NEW n
    PROVE  FreeSuffix(n) \in FreeSuffixes(n)
<1>1. FreeSuffixes(n) # {} /\ FreeSuffixes(n) \subseteq Nat
  BY SomeSuffixIsFree DEF FreeSuffixes
<1> DEFINE below == OpToRel(<, Nat)
<1>2. IsWellFoundedOn(below, Nat) /\ \A j, k \in Nat : j < k => <<j, k>> \in below
  BY NatLessThanWellFounded, Zenon DEF OpToRel
<1> HIDE DEF below
<1>3. \E k \in FreeSuffixes(n) : \A j \in FreeSuffixes(n) : k <= j
  <2>1. PICK k \in FreeSuffixes(n) : \A j \in FreeSuffixes(n) : ~(<<j, k>> \in below)
    BY <1>1, <1>2, WFMin
  <2>2. \A j \in FreeSuffixes(n) : j \in Nat /\ k \in Nat /\ ~(j < k)
    BY <1>1, <1>2, <2>1
  <2>3. \A j \in FreeSuffixes(n) : k <= j
    BY <2>2
  <2> QED
    BY <2>3
<1> QED
  BY <1>3 DEF FreeSuffix

\* allocate_slug returns a slug that no row of its snapshot has.
LEMMA AllocatedIsFree ==
    ASSUME NEW n
    PROVE  AllocateSlug(n) \notin TakenSlugs
BY FirstIsFree DEF AllocateSlug, FreeSuffixes

LEMMA AllocatedIsSlug ==
    ASSUME NEW n \in Names
    PROVE  AllocateSlug(n) \in Slugs
BY FirstIsFree DEF AllocateSlug, FreeSuffixes, Slugs

-----------------------------------------------------------------------------
(* Slugs are distinct.                                                     *)

Columns == {"slug", "name", "active"}

RowInv ==
    /\ DOMAIN row = Scenarios
    /\ \A s \in Scenarios : Exists(s) => Columns \subseteq DOMAIN row[s]
    /\ SlugsDistinct

LEMMA RowInit == Init => RowInv
<1> SUFFICES ASSUME Init PROVE RowInv
  OBVIOUS
<1>1. PICK s \in Scenarios :
        row = [t \in Scenarios |-> IF t = s THEN [slug |-> <<CHOOSE n \in Names : TRUE, 1>>,
                                                  name |-> CHOOSE n \in Names : TRUE, active |-> TRUE]
                                   ELSE None]
  BY ScenarioAssumption DEF Init
<1> QED
  BY <1>1 DEF RowInv, SlugsDistinct, Exists, Columns

\* One row is written, with a slug of its own or one that was free.
LEMMA RowWritten ==
    ASSUME RowInv, NEW s \in Scenarios, NEW new, Columns \subseteq DOMAIN new,
           row' = [row EXCEPT ![s] = new],
           new.slug \notin TakenSlugs \/ (Exists(s) /\ new.slug = row[s].slug)
    PROVE  RowInv'
<1>1. \A t \in Scenarios : Exists(t) /\ t # s => row[t].slug # new.slug
  BY DEF RowInv, SlugsDistinct, TakenSlugs
<1>2. /\ DOMAIN row' = Scenarios /\ row'[s] = new
      /\ \A t \in Scenarios : t # s => row'[t] = row[t]
  BY DEF RowInv
<1>3. SlugsDistinct'
  BY <1>1, <1>2 DEF RowInv, SlugsDistinct, Exists
<1> QED
  BY <1>2, <1>3 DEF RowInv, Exists

LEMMA RowDeleted == ASSUME RowInv, NEW s \in Scenarios, Delete(s) PROVE RowInv'
BY DEF RowInv, SlugsDistinct, Exists, Delete

\* A save or a rename keeps the slug of its row or takes a free one.
LEMMA SlugAfterIsFree ==
    ASSUME NEW s \in Scenarios, NEW n
    PROVE  SlugAfter(s, n) \notin TakenSlugs \/ SlugAfter(s, n) = row[s].slug
BY AllocatedIsFree DEF SlugAfter

LEMMA RowServed == RowInv /\ (ReadStep \/ WriteStep) => RowInv'
<1> SUFFICES ASSUME RowInv, NEW q \in DOMAIN net,
                    \/ Read(q) \/ CreatePick(q) \/ CreateInsert(q) \/ SavePick(q)
                    \/ SaveWrite(q) \/ TriggerAnswer(q) \/ DeleteAnswer(q) \/ CancelAnswer(q)
             PROVE  RowInv'
  BY DEF ReadStep, WriteStep
<1>1. CASE row' = row
  BY <1>1 DEF RowInv, SlugsDistinct, Exists
<1>2. CASE Read(q) \/ CreatePick(q) \/ SavePick(q) \/ TriggerAnswer(q) \/ CancelAnswer(q)
  BY <1>1, <1>2 DEF Read, CreatePick, SavePick, TriggerAnswer, CancelAnswer, serverVars
<1>3. CASE CreateInsert(q)
  <2>1. CASE net[q].ans \in TakenSlugs
    BY <1>1, <1>3, <2>1 DEF CreateInsert
  <2>2. CASE net[q].ans \notin TakenSlugs
    <3>1. PICK s \in Scenarios :
            row' = [row EXCEPT ![s] = [slug |-> net[q].ans, name |-> net[q].arg, active |-> TRUE]]
      BY <1>3, <2>2 DEF CreateInsert, Unused
    <3> QED
      BY <2>2, <3>1, RowWritten DEF Columns
  <2> QED
    BY <2>1, <2>2
<1>4. CASE SaveWrite(q)
  <2> DEFINE s   == net[q].ans.id
             new == Merged(row[s], net[q].ans.was, net[q].ans.new)
  <2>1. CASE s \in Scenarios /\ Exists(s) /\ row' = [row EXCEPT ![s] = new]
             /\ new.slug \notin TakenSlugs \ {row[s].slug}
    <3>1. Columns \subseteq DOMAIN new
      BY <2>1 DEF Merged, RowInv
    <3> HIDE DEF new, s
    <3> QED
      BY <2>1, <3>1, RowWritten
  <2>2. CASE s \notin Scenarios /\ row' = [row EXCEPT ![s] = new]
    <3> HIDE DEF new, s
    <3>1. DOMAIN row' = Scenarios /\ \A t \in Scenarios : row'[t] = row[t]
      BY <2>2 DEF RowInv
    <3> QED
      BY <3>1 DEF RowInv, SlugsDistinct, Exists
  <2>3. CASE UNCHANGED row
    BY <1>1, <2>3
  <2> QED
    BY <1>4, <2>1, <2>2, <2>3 DEF SaveWrite
<1>5. CASE DeleteAnswer(q)
  BY <1>1, <1>5, RowDeleted DEF DeleteAnswer, AtSlug, serverVars
<1> QED
  BY <1>2, <1>3, <1>4, <1>5

LEMMA RowOthers == RowInv /\ OtherStep => RowInv'
<1> SUFFICES ASSUME RowInv, NEW s \in Scenarios,
                    \/ \E n \in Names : OtherRename(s, n) \/ OtherCreate(s, n)
                    \/ OtherDelete(s) \/ OtherToggle(s) \/ OtherTrigger(s)
             PROVE  RowInv'
  BY DEF OtherStep
<1>1. ASSUME NEW n \in Names, OtherRename(s, n) PROVE RowInv'
  <2> DEFINE new == [row[s] EXCEPT !.slug = SlugAfter(s, n), !.name = n]
  <2>1. row' = [row EXCEPT ![s] = new] /\ Exists(s)
    BY <1>1 DEF OtherRename
  <2>2. new.slug = SlugAfter(s, n) /\ Columns \subseteq DOMAIN new
    BY <2>1 DEF RowInv, Columns
  <2> HIDE DEF new
  <2> QED
    BY <2>1, <2>2, RowWritten, SlugAfterIsFree
<1>2. ASSUME NEW n \in Names, OtherCreate(s, n) PROVE RowInv'
  BY <1>2, RowWritten, AllocatedIsFree DEF OtherCreate, Columns
<1>3. CASE OtherDelete(s)
  BY <1>3, RowDeleted DEF OtherDelete
<1>4. CASE OtherToggle(s)
  <2> DEFINE new == [row[s] EXCEPT !.active = ~@]
  <2>1. row' = [row EXCEPT ![s] = new] /\ Exists(s)
    BY <1>4 DEF OtherToggle
  <2>2. new.slug = row[s].slug /\ Columns \subseteq DOMAIN new
    BY <2>1 DEF RowInv, Columns
  <2> HIDE DEF new
  <2> QED
    BY <2>1, <2>2, RowWritten
<1>5. CASE OtherTrigger(s)
  BY <1>5 DEF OtherTrigger, RowInv, SlugsDistinct, Exists
<1> QED
  BY <1>1, <1>2, <1>3, <1>4, <1>5

\* No page writes a table by itself.
LEMMA PagesWriteNothing ==
    ASSUME Click \/ Poll \/ Handle \/ HistoryAnswered \/ RunAnswered
    PROVE  UNCHANGED serverVars
<1>1. CASE Click
  BY <1>1 DEF Click, ListClick, EditorClick, ListStep, EditorStep, RunStep, Retry, OpenCreate,
      CloseCreate, TypeName, Create, OpenScenario, Edit, Save, Trigger, DeleteScenario, LeaveEditor,
      Cancel, LeaveRun, serverVars
<1>2. CASE Poll
  BY <1>2 DEF Poll, PollHistory, PollRun, EditorStep, RunStep, serverVars
<1>3. CASE Handle
  BY <1>3 DEF Handle, ListAnswered, EditorAnswered, ListLoaded, Created, ScenarioLoaded, Saved,
      Triggered, Deleted, ListStep, EditorStep, serverVars
<1>4. CASE HistoryAnswered
  BY <1>4 DEF HistoryAnswered, HistoryLoaded, EditorStep, serverVars
<1>5. CASE RunAnswered
  BY <1>5 DEF RunAnswered, RunLoaded, Cancelled, RunStep, serverVars
<1> QED
  BY <1>1, <1>2, <1>3, <1>4, <1>5

LEMMA RowNext == RowInv /\ [Next]_vars => RowInv'
<1> SUFFICES ASSUME RowInv, [Next]_vars PROVE RowInv'
  OBVIOUS
<1>1. CASE row' = row
  BY <1>1 DEF RowInv, SlugsDistinct, Exists
<1>2. CASE Click \/ Poll \/ Handle \/ HistoryAnswered \/ RunAnswered \/ UNCHANGED vars
  BY <1>1, <1>2, PagesWriteNothing DEF serverVars, vars
<1>3. CASE Environment
  BY <1>1, <1>3, RowOthers DEF Environment, WorkerStep, Outage, serverVars
<1> QED
  BY <1>2, <1>3, RowServed DEF Next

\* For any rows and names, and whoever creates or renames meanwhile, two
\* scenarios of a workspace never share a slug.
THEOREM SlugsStayDistinct == Spec => []SlugsDistinct
<1>1. RowInv => SlugsDistinct
  BY DEF RowInv
<1> QED
  BY <1>1, RowInit, RowNext, PTL DEF Spec

-----------------------------------------------------------------------------
(* Verdicts on screen.                                                     *)

Ended    == Lifecycle!Terminal \cup {"gone"}

\* What is shown, or about to be shown, as a verdict is one.
Stands(shown, r) == isTerminal(shown) => status[r] \in Ended

\* A request as the page will meet it: only the page of a run asks for one, or
\* waits for a cancel, and an answer holds no verdict ahead of the table.
Sound(q) ==
    /\ DOMAIN q = Fields
    /\ q.op = "run" \/ (q.op = "cancel" /\ q.home) => OnRun
    /\ q.at = "ok" /\ q.op = "history" => \A r \in Runs : Stands(q.ans[r], r)
    /\ q.at = "ok" /\ q.op = "run" => (page.run \in Runs => Stands(q.ans, page.run))

NetSound == \A q \in DOMAIN net : Sound(net[q])

ScreenSound ==
    /\ "runs" \in DOMAIN editor /\ "run" \in DOMAIN detail
    /\ \A r \in Runs : Stands(editor.runs[r], r)
    /\ OnRun /\ page.run \in Runs /\ detail.run # None => Stands(detail.run, page.run)

VerdictInv == DOMAIN status = Runs /\ NetSound /\ ScreenSound

(* What happens to the requests in flight (Tab).                           *)

Request(op, arg) == [op |-> op, arg |-> arg, at |-> "sent", ans |-> None, home |-> TRUE]

LEMMA SentAdds ==
    ASSUME NEW S, NEW op, NEW arg, NEW q \in DOMAIN Sent(S, op, arg)
    PROVE  \/ q \in DOMAIN S /\ Sent(S, op, arg)[q] = S[q]
           \/ Sent(S, op, arg)[q] = Request(op, arg)
<1> DEFINE i == CHOOSE j \in IdsOf({op}) : j \notin DOMAIN S
<1>1. Sent(S, op, arg) = [j \in DOMAIN S \cup {i} |-> IF j = i THEN Request(op, arg) ELSE S[j]]
  BY DEF Sent, Request
<1> HIDE DEF i
<1> QED
  BY <1>1

LEMMA DoneDrops ==
    ASSUME NEW q, NEW p \in DOMAIN Done(q)
    PROVE  p \in DOMAIN net /\ Done(q)[p] = net[p]
BY DEF Done, Restrict

\* A reply changes one request, and of it how far it is and its answer.
LEMMA MovedOne ==
    ASSUME NEW q \in DOMAIN net, DOMAIN net[q] = Fields, NEW at, NEW ans,
           net' = Moved(q, at, ans)
    PROVE  /\ DOMAIN net' = DOMAIN net /\ \A p \in DOMAIN net : p # q => net'[p] = net[p]
           /\ DOMAIN net'[q] = Fields /\ net'[q].op = net[q].op /\ net'[q].home = net[q].home
           /\ net'[q].arg = net[q].arg /\ net'[q].at = at /\ net'[q].ans = ans
<1>1. net' = [net EXCEPT ![q] = [[net[q] EXCEPT !.at = at] EXCEPT !.ans = ans]]
  BY DEF Moved
<1> DEFINE r == [[net[q] EXCEPT !.at = at] EXCEPT !.ans = ans]
<1>2. /\ DOMAIN r = Fields /\ r.op = net[q].op /\ r.home = net[q].home /\ r.arg = net[q].arg
      /\ r.at = at /\ r.ans = ans
  BY DEF Fields
<1> HIDE DEF r
<1>3. net' = [net EXCEPT ![q] = r]
  BY <1>1 DEF r
<1> QED
  BY <1>2, <1>3

\* What a page leaves behind are mutations nobody at home waits for.
LEMMA LeftAreMutations ==
    ASSUME NEW S, \A q \in DOMAIN S : DOMAIN S[q] = Fields,
           NEW q \in DOMAIN Orphaned(S, Mutations)
    PROVE  LET r == Orphaned(S, Mutations)[q]
           IN  DOMAIN r = Fields /\ r.op \in Mutations /\ r.home = FALSE
<1>1. q \in DOMAIN S /\ S[q].op \in Mutations /\ Orphaned(S, Mutations)[q] = [S[q] EXCEPT !.home = FALSE]
  BY DEF Orphaned
<1> QED
  BY <1>1 DEF Fields

-----------------------------------------------------------------------------
(* The steps of a page.                                                    *)

\* The tab stays: what is in flight was before, or has just been asked for.
LEMMA NetStays ==
    ASSUME VerdictInv, UNCHANGED <<page, status>>,
           \A q \in DOMAIN net' : \/ q \in DOMAIN net /\ net'[q] = net[q]
                                  \/ \E op, arg : /\ net'[q] = Request(op, arg)
                                                  /\ op \in {"run", "cancel"} => OnRun
    PROVE  NetSound'
<1>1. ASSUME NEW q \in DOMAIN net', net'[q] = net[q], q \in DOMAIN net
      PROVE  Sound(net[q])'
  BY <1>1 DEF VerdictInv, NetSound, Sound, OnRun, Stands
<1>2. ASSUME NEW q \in DOMAIN net', NEW op, NEW arg, net'[q] = Request(op, arg),
             op \in {"run", "cancel"} => OnRun
      PROVE  Sound(net[q])'
  BY <1>2 DEF Sound, Request, Fields, OnRun
<1> QED
  BY <1>1, <1>2 DEF NetSound

\* The tab moves, or is told to move to where it is.
LEMMA TabMoves ==
    ASSUME VerdictInv, UNCHANGED status, NEW S, NEW p, Goto(p, S),
           p.at \in {"list", "editor", "run"},
           \A q \in DOMAIN S : q \in DOMAIN net /\ S[q] = net[q]
    PROVE  NetSound' /\ ScreenSound'
<1>1. CASE p = page
  <2>1. net' = S /\ UNCHANGED <<page, editor, detail>>
    BY <1>1 DEF Goto, pageVars
  <2>2. NetSound'
    BY <2>1, NetStays
  <2>3. ScreenSound'
    BY <2>1 DEF VerdictInv, ScreenSound, Stands, OnRun
  <2> QED
    BY <2>2, <2>3
<1>2. CASE p # page
  <2> DEFINE left == Orphaned(S, Mutations)
  <2>1. page' = p /\ net' = MountRequests(p, left) /\ editor' = EditorInit /\ detail' = DetailInit
    BY <1>2 DEF Goto
  <2>2. \A q \in DOMAIN left : DOMAIN left[q] = Fields /\ left[q].op \in Mutations /\ left[q].home = FALSE
    BY LeftAreMutations DEF VerdictInv, NetSound, Sound
  <2>3. ASSUME NEW q \in DOMAIN net'
        PROVE  \/ q \in DOMAIN left /\ net'[q] = left[q]
               \/ \E op, arg : /\ net'[q] = Request(op, arg) /\ op # "cancel"
                               /\ op = "run" => p.at = "run"
    <3> HIDE DEF left
    <3>1. CASE p.at = "list"
      <4>1. net' = Sent(left, "list", None)
        BY <2>1, <3>1 DEF MountRequests
      <4> QED
        BY <4>1, <2>3, SentAdds
    <3>2. CASE p.at = "editor"
      <4> DEFINE first == Sent(left, "scenario", p.slug)
      <4>1. net' = Sent(first, "history", "mount")
        BY <2>1, <3>2 DEF MountRequests
      <4>2. \/ q \in DOMAIN first /\ net'[q] = first[q]
            \/ net'[q] = Request("history", "mount")
        <5> HIDE DEF first
        <5> QED
          BY <4>1, <2>3, SentAdds
      <4>3. q \in DOMAIN first => \/ q \in DOMAIN left /\ first[q] = left[q]
                                  \/ first[q] = Request("scenario", p.slug)
        BY SentAdds
      <4> QED
        BY <4>2, <4>3
    <3>3. CASE p.at = "run"
      <4>1. net' = Sent(left, "run", "mount")
        BY <2>1, <3>3 DEF MountRequests
      <4> QED
        BY <4>1, <2>3, <3>3, SentAdds
    <3> QED
      BY <3>1, <3>2, <3>3
  <2>4. ASSUME NEW q \in DOMAIN net' PROVE Sound(net[q])'
    <3>1. CASE q \in DOMAIN left /\ net'[q] = left[q]
      BY <3>1, <2>2 DEF Sound, Mutations
    <3>2. CASE \E op, arg : /\ net'[q] = Request(op, arg) /\ op # "cancel"
                            /\ op = "run" => p.at = "run"
      <4>1. PICK op, arg : net'[q] = Request(op, arg) /\ op # "cancel" /\ (op = "run" => p.at = "run")
        BY <3>2
      <4> QED
        BY <4>1, <2>1 DEF Sound, Request, Fields, OnRun
    <3> QED
      BY <2>3, <2>4, <3>1, <3>2
  <2>5. NetSound'
    BY <2>4 DEF NetSound
  <2>6. ScreenSound'
    BY <2>1 DEF ScreenSound, EditorInit, DetailInit, Stands, isTerminal, Lifecycle!Terminal,
                Lifecycle!Verdicts
  <2> QED
    BY <2>5, <2>6
<1> QED
  BY <1>1, <1>2

\* What stays in net when a page has dealt with an answer.
LEMMA RestIsOld ==
    ASSUME NEW q
    PROVE  \A p \in DOMAIN Done(q) : p \in DOMAIN net /\ Done(q)[p] = net[p]
BY DoneDrops

\* An answer to a request, and one more request.
LEMMA OneForOne ==
    ASSUME NEW q, NEW op, NEW arg
    PROVE  \A p \in DOMAIN Sent(Done(q), op, arg) :
               \/ p \in DOMAIN net /\ Sent(Done(q), op, arg)[p] = net[p]
               \/ Sent(Done(q), op, arg)[p] = Request(op, arg)
BY SentAdds, DoneDrops

\* The screen does not change, or in nothing that shows a run.
LEMMA ScreenStays ==
    ASSUME VerdictInv, UNCHANGED <<page, status>>,
           "runs" \in DOMAIN editor' /\ editor'.runs = editor.runs,
           "run" \in DOMAIN detail' /\ detail'.run = detail.run
    PROVE  ScreenSound'
BY DEF VerdictInv, ScreenSound, Stands, OnRun

LEMMA VerdictClick ==
    ASSUME VerdictInv, Click \/ Poll
    PROVE  VerdictInv'
<1>1. UNCHANGED status
  BY PagesWriteNothing DEF serverVars
<1>2. DOMAIN status' = Runs
  BY <1>1 DEF VerdictInv
<1>3. ASSUME UNCHANGED <<page, editor, detail>>,
             net' = net \/ \E op, arg : net' = Sent(net, op, arg) /\ (op \in {"run", "cancel"} => OnRun)
      PROVE  VerdictInv'
  BY <1>1, <1>2, <1>3, NetStays, ScreenStays, SentAdds DEF VerdictInv, ScreenSound
<1>4. CASE ListClick
  <2>1. CASE OpenScenario
    <3>1. PICK g \in list.scenarios : Goto(EditorRoute(g.slug), net)
      BY <2>1 DEF OpenScenario
    <3> QED
      BY <1>1, <1>2, <3>1, TabMoves DEF VerdictInv, EditorRoute
  <2>2. CASE Retry
    BY <1>3, <2>2 DEF Retry, ListStep
  <2>3. CASE Create
    BY <1>3, <2>3 DEF Create, ListStep
  <2>4. CASE OpenCreate \/ CloseCreate \/ \E n \in Names : TypeName(n)
    BY <1>3, <2>4 DEF OpenCreate, CloseCreate, TypeName, ListStep
  <2> QED
    BY <1>4, <2>1, <2>2, <2>3, <2>4 DEF ListClick
<1>5. CASE Edit \/ Save \/ Trigger \/ DeleteScenario
  <2>1. UNCHANGED <<page, detail>>
    BY <1>5 DEF Edit, Save, Trigger, DeleteScenario, EditorStep
  <2>2. "runs" \in DOMAIN editor' /\ editor'.runs = editor.runs
    BY <1>5 DEF VerdictInv, ScreenSound, Edit, Save, Trigger, DeleteScenario
  <2>3. net' = net \/ \E op, arg : net' = Sent(net, op, arg) /\ op \notin {"run", "cancel"}
    BY <1>5 DEF Edit, Save, Trigger, DeleteScenario
  <2>4. NetSound'
    BY <1>1, <2>1, <2>3, NetStays, SentAdds
  <2>5. ScreenSound'
    BY <1>1, <2>1, <2>2, ScreenStays DEF VerdictInv, ScreenSound
  <2> QED
    BY <1>2, <2>4, <2>5 DEF VerdictInv
<1>6. CASE LeaveEditor
  <2>1. CASE Goto(ListRoute, net)
    BY <1>1, <1>2, <2>1, TabMoves DEF VerdictInv, ListRoute
  <2>2. CASE \E r \in Rows : Goto(RunRoute(page.slug, r), net)
    <3>1. PICK r \in Rows : Goto(RunRoute(page.slug, r), net)
      BY <2>2
    <3>2. RunRoute(page.slug, r).at = "run"
      BY DEF RunRoute
    <3> QED
      BY <1>1, <1>2, <3>1, <3>2, TabMoves DEF VerdictInv
  <2> QED
    BY <1>6, <2>1, <2>2 DEF LeaveEditor
<1>7. CASE LeaveRun
  BY <1>1, <1>2, <1>7, TabMoves DEF VerdictInv, LeaveRun, EditorRoute
<1>8. CASE Cancel \/ PollRun
  <2>1. UNCHANGED <<page, editor>> /\ OnRun
    BY <1>8 DEF Cancel, PollRun, MayCancel, RunStep
  <2>2. "run" \in DOMAIN detail' /\ detail'.run = detail.run
    BY <1>8 DEF VerdictInv, ScreenSound, Cancel, PollRun
  <2>3. \E op, arg : net' = Sent(net, op, arg)
    BY <1>8 DEF Cancel, PollRun
  <2>4. NetSound'
    BY <1>1, <2>1, <2>3, NetStays, SentAdds
  <2>5. ScreenSound'
    BY <1>1, <2>1, <2>2, ScreenStays DEF VerdictInv, ScreenSound
  <2> QED
    BY <1>2, <2>4, <2>5 DEF VerdictInv
<1>9. CASE PollHistory
  BY <1>3, <1>9 DEF PollHistory, EditorStep
<1> QED
  BY <1>4, <1>5, <1>6, <1>7, <1>8, <1>9 DEF Click, Poll, EditorClick

-----------------------------------------------------------------------------
(* The answers.                                                            *)

\* A page that stays where it is deals with an answer and may ask once more.
LEMMA AnswerStays ==
    ASSUME VerdictInv, NEW q, UNCHANGED <<page, status>>,
           \/ net' = Done(q)
           \/ \E op, arg : net' = Sent(Done(q), op, arg) /\ (op \in {"run", "cancel"} => OnRun),
           "runs" \in DOMAIN editor' /\ editor'.runs = editor.runs,
           "run" \in DOMAIN detail' /\ detail'.run = detail.run
    PROVE  VerdictInv'
<1>1. NetSound'
  BY NetStays, RestIsOld, OneForOne
<1>2. ScreenSound'
  BY ScreenStays
<1> QED
  BY <1>1, <1>2 DEF VerdictInv

LEMMA VerdictList == ASSUME VerdictInv, ListAnswered PROVE VerdictInv'
<1>1. PICK q \in DOMAIN net : ListLoaded(q) \/ Created(q)
  BY DEF ListAnswered
<1>2. UNCHANGED status
  BY <1>1 DEF ListLoaded, Created, ListStep, serverVars
<1>3. CASE ListLoaded(q)
  BY <1>2, <1>3, AnswerStays DEF ListLoaded, ListStep, VerdictInv, ScreenSound
<1>4. CASE Created(q)
  <2>1. CASE Goto(EditorRoute(net[q].ans.slug), Done(q))
    BY <1>2, <2>1, TabMoves, RestIsOld DEF VerdictInv, EditorRoute
  <2>2. CASE net' = Done(q) /\ UNCHANGED <<page, pageVars>>
    BY <1>2, <2>2, AnswerStays DEF pageVars, VerdictInv, ScreenSound
  <2> QED
    BY <1>4, <2>1, <2>2 DEF Created
<1> QED
  BY <1>1, <1>3, <1>4

LEMMA VerdictEditor == ASSUME VerdictInv, EditorAnswered PROVE VerdictInv'
<1>1. PICK q \in DOMAIN net : ScenarioLoaded(q) \/ Saved(q) \/ Triggered(q) \/ Deleted(q)
  BY DEF EditorAnswered
<1>2. UNCHANGED status
  BY <1>1 DEF ScenarioLoaded, Saved, Triggered, Deleted, EditorStep, serverVars
<1>3. \A s : LET e == Applied(editor, s) IN "runs" \in DOMAIN e /\ e.runs = editor.runs
  BY DEF Applied, VerdictInv, ScreenSound
<1>4. CASE ScenarioLoaded(q)
  <2>1. "runs" \in DOMAIN editor' /\ editor'.runs = editor.runs
    <3>1. CASE net[q].at = "ok"
      <4> DEFINE e == Applied(editor, net[q].ans)
      <4>1. editor' = [e EXCEPT !.loading = FALSE]
        BY <1>4, <3>1 DEF ScenarioLoaded
      <4>2. "runs" \in DOMAIN e /\ e.runs = editor.runs
        BY <1>3
      <4> HIDE DEF e
      <4> QED
        BY <4>1, <4>2
    <3>2. CASE net[q].at # "ok"
      BY <1>4, <3>2 DEF ScenarioLoaded, VerdictInv, ScreenSound
    <3> QED
      BY <3>1, <3>2
  <2> QED
    BY <1>2, <1>4, <2>1, AnswerStays DEF ScenarioLoaded, EditorStep, VerdictInv, ScreenSound
<1>5. CASE Saved(q)
  <2>1. CASE Goto(EditorRoute(net[q].ans.slug), Done(q))
    BY <1>2, <2>1, TabMoves, RestIsOld DEF VerdictInv, EditorRoute
  <2>2. CASE /\ net' = Done(q)
             /\ editor' = IF ~net[q].home THEN editor
                          ELSE IF net[q].at = "ok"
                            THEN [Applied(editor, net[q].ans) EXCEPT !.saving = FALSE]
                            ELSE [editor EXCEPT !.saving = FALSE]
             /\ UNCHANGED <<page, list, detail>>
    <3>1. "runs" \in DOMAIN editor' /\ editor'.runs = editor.runs
      <4> DEFINE e == Applied(editor, net[q].ans)
      <4>1. "runs" \in DOMAIN e /\ e.runs = editor.runs
        BY <1>3
      <4>2. editor' \in {editor, [e EXCEPT !.saving = FALSE], [editor EXCEPT !.saving = FALSE]}
        BY <2>2
      <4> HIDE DEF e
      <4> QED
        BY <4>1, <4>2 DEF VerdictInv, ScreenSound
    <3> QED
      BY <1>2, <2>2, <3>1, AnswerStays DEF VerdictInv, ScreenSound
  <2> QED
    BY <1>5, <2>1, <2>2 DEF Saved
<1>6. CASE Triggered(q)
  <2>1. "runs" \in DOMAIN editor' /\ editor'.runs = editor.runs
    BY <1>6 DEF Triggered, VerdictInv, ScreenSound
  <2>2. net' = Done(q) \/ net' = Sent(Done(q), "history", "trigger")
    BY <1>6 DEF Triggered
  <2> QED
    BY <1>2, <1>6, <2>1, <2>2, AnswerStays DEF Triggered, EditorStep, VerdictInv, ScreenSound
<1>7. CASE Deleted(q)
  <2>1. CASE Goto(ListRoute, Done(q))
    BY <1>2, <2>1, TabMoves, RestIsOld DEF VerdictInv, ListRoute
  <2>2. CASE net' = Done(q) /\ UNCHANGED <<page, pageVars>>
    BY <1>2, <2>2, AnswerStays DEF pageVars, VerdictInv, ScreenSound
  <2> QED
    BY <1>7, <2>1, <2>2 DEF Deleted
<1> QED
  BY <1>1, <1>4, <1>5, <1>6, <1>7

\* The history a page shows is the one it was sent, or the one it had.
LEMMA VerdictHistory == ASSUME VerdictInv, HistoryAnswered PROVE VerdictInv'
<1>1. PICK q \in DOMAIN net : HistoryLoaded(q)
  BY DEF HistoryAnswered
<1>2. net[q].op = "history" /\ net' = Done(q) /\ UNCHANGED <<page, detail, status>>
  BY <1>1 DEF HistoryLoaded, Answered, EditorStep, serverVars
<1> DEFINE after == [editor EXCEPT !.triggering = IF net[q].arg = "trigger" THEN FALSE ELSE @]
<1>3. "runs" \in DOMAIN after /\ after.runs = editor.runs
  BY DEF VerdictInv, ScreenSound
<1>4. CASE net[q].at = "ok"
  <2>1. editor' = WithRuns(after, net[q].ans)
    BY <1>1, <1>4 DEF HistoryLoaded
  <2> HIDE DEF after
  <2>2. "runs" \in DOMAIN editor' /\ editor'.runs = net[q].ans
    BY <1>3, <2>1 DEF WithRuns
  <2>3. \A r \in Runs : Stands(net[q].ans[r], r)
    BY <1>2, <1>4 DEF VerdictInv, NetSound, Sound
  <2>4. ScreenSound'
    BY <1>2, <2>2, <2>3 DEF VerdictInv, ScreenSound, Stands, OnRun
  <2> QED
    BY <1>2, <2>4, NetStays, RestIsOld DEF VerdictInv
<1>5. CASE net[q].at # "ok"
  <2>1. editor' = after
    BY <1>1, <1>5 DEF HistoryLoaded
  <2> HIDE DEF after
  <2> QED
    BY <1>2, <1>3, <2>1, AnswerStays DEF VerdictInv, ScreenSound
<1> QED
  BY <1>4, <1>5

LEMMA VerdictRun == ASSUME VerdictInv, RunAnswered PROVE VerdictInv'
<1>1. PICK q \in DOMAIN net : RunLoaded(q) \/ Cancelled(q)
  BY DEF RunAnswered
<1>2. UNCHANGED <<page, editor, status>>
  BY <1>1 DEF RunLoaded, Cancelled, RunStep, serverVars
<1>3. CASE RunLoaded(q)
  <2>1. net[q].op = "run" /\ net' = Done(q)
    BY <1>3 DEF RunLoaded, Answered
  <2>2. "run" \in DOMAIN detail'
        /\ detail'.run = IF net[q].at = "ok" THEN net[q].ans ELSE detail.run
    BY <1>3 DEF RunLoaded, VerdictInv, ScreenSound
  <2>3. page.run \in Runs /\ net[q].at = "ok" => Stands(net[q].ans, page.run)
    BY <2>1 DEF VerdictInv, NetSound, Sound
  <2>4. ScreenSound'
    BY <1>2, <2>2, <2>3 DEF VerdictInv, ScreenSound, Stands, OnRun
  <2> QED
    BY <1>2, <2>1, <2>4, NetStays, RestIsOld DEF VerdictInv
<1>4. CASE Cancelled(q)
  <2>1. "run" \in DOMAIN detail' /\ detail'.run = detail.run
    BY <1>4 DEF Cancelled, VerdictInv, ScreenSound
  <2>2. net' = Done(q) \/ (net' = Sent(Done(q), "run", "cancel") /\ net[q].home)
    BY <1>4 DEF Cancelled
  <2>3. net[q].home => OnRun
    BY <1>4 DEF Cancelled, Answered, VerdictInv, NetSound, Sound
  <2> QED
    BY <1>2, <2>1, <2>2, <2>3, AnswerStays DEF VerdictInv, ScreenSound
<1> QED
  BY <1>1, <1>3, <1>4

-----------------------------------------------------------------------------
(* The server and the others.                                              *)

\* A run that has ended, or is gone, is not made live again.
StatusKept == DOMAIN status' = Runs /\ \A r \in Runs : status[r] \in Ended => status'[r] \in Ended

LEMMA MoveKeeps ==
    ASSUME DOMAIN status = Runs, NEW r, NEW from, from \cap Ended = {}, NEW to,
           Lifecycle!Move(r, from, to)
    PROVE  StatusKept
BY DEF Lifecycle!Move, StatusKept

LEMMA DeleteKeeps == ASSUME VerdictInv, NEW s, Delete(s) PROVE StatusKept
BY DEF Delete, StatusKept, Ended

LEMMA SameIsKept == ASSUME VerdictInv, UNCHANGED status PROVE StatusKept
BY DEF VerdictInv, StatusKept

\* A row changes, and q, if it is answered, with no verdict that is not there.
LEMMA Served ==
    ASSUME VerdictInv, StatusKept, UNCHANGED <<page, pageVars>>,
           NEW q \in DOMAIN net, NEW at, NEW ans, net' = Moved(q, at, ans),
           at = "ok" /\ net[q].op = "history" => \A r \in Runs : Stands(ans[r], r),
           at = "ok" /\ net[q].op = "run" => (page.run \in Runs => Stands(ans, page.run))
    PROVE  VerdictInv'
<1>1. ScreenSound'
  BY DEF VerdictInv, ScreenSound, Stands, StatusKept, OnRun, pageVars
<1>2. /\ DOMAIN net' = DOMAIN net /\ \A p \in DOMAIN net : p # q => net'[p] = net[p]
      /\ DOMAIN net'[q] = Fields /\ net'[q].op = net[q].op /\ net'[q].home = net[q].home
      /\ net'[q].at = at /\ net'[q].ans = ans
  BY MovedOne DEF VerdictInv, NetSound, Sound
<1>3. ASSUME NEW p \in DOMAIN net, p # q PROVE Sound(net[p])'
  BY <1>2, <1>3 DEF VerdictInv, NetSound, Sound, Stands, StatusKept, OnRun
<1>4. Sound(net[q])
  BY DEF VerdictInv, NetSound
<1>5. Sound(net[q])'
  BY <1>2, <1>4 DEF Sound, Stands, StatusKept, OnRun
<1> QED
  BY <1>1, <1>2, <1>3, <1>5 DEF VerdictInv, NetSound, StatusKept

\* The answer to a request that is neither for a history nor for a run.
LEMMA Written ==
    ASSUME VerdictInv, StatusKept, UNCHANGED <<page, pageVars>>, NEW q \in DOMAIN net,
           net[q].op \notin {"history", "run"}, \E at, ans : net' = Moved(q, at, ans)
    PROVE  VerdictInv'
BY Served

LEMMA VerdictRead == ASSUME VerdictInv, ReadStep PROVE VerdictInv'
<1>1. PICK q \in DOMAIN net : Read(q)
  BY DEF ReadStep
<1>2. UNCHANGED <<page, pageVars, status>> /\ StatusKept
  BY <1>1, SameIsKept DEF Read, serverVars
<1>3. CASE Refuse(q)
  BY <1>2, <1>3, Served DEF Refuse
<1>4. CASE net[q].op = "history" /\ HistoryAnswer(q)
  <2>1. PICK s \in AtSlug(page.slug) :
          Reply(q, [r \in Runs |-> IF r \in RunsOf(s) /\ status[r] # "gone"
                                     THEN status[r] ELSE "none"])
    BY <1>4 DEF HistoryAnswer
  <2> DEFINE ans == [r \in Runs |-> IF r \in RunsOf(s) /\ status[r] # "gone"
                                     THEN status[r] ELSE "none"]
  <2>2. \A r \in Runs : Stands(ans[r], r)
    BY DEF Stands, isTerminal, Ended, Lifecycle!Terminal, Lifecycle!Verdicts
  <2>3. net' = Moved(q, "ok", ans)
    BY <2>1 DEF Reply
  <2> HIDE DEF ans
  <2> QED
    BY <1>2, <1>4, <2>2, <2>3, Served
<1>5. CASE net[q].op = "run" /\ RunAnswer(q)
  <2>1. net' = Moved(q, "ok", status[page.run])
    BY <1>5 DEF RunAnswer, Reply
  <2>2. Stands(status[page.run], page.run)
    BY DEF Stands, isTerminal, Ended
  <2> QED
    BY <1>2, <1>5, <2>1, <2>2, Served
<1>6. CASE net[q].op = "list" /\ ListAnswer(q)
  BY <1>2, <1>6, Written DEF ListAnswer, Reply
<1>7. CASE net[q].op = "scenario" /\ ScenarioAnswer(q)
  BY <1>2, <1>7, Written DEF ScenarioAnswer, Reply
<1> QED
  BY <1>1, <1>3, <1>4, <1>5, <1>6, <1>7 DEF Read

LEMMA VerdictWrite == ASSUME VerdictInv, WriteStep PROVE VerdictInv'
<1>1. PICK q \in DOMAIN net : \/ CreatePick(q) \/ CreateInsert(q) \/ SavePick(q) \/ SaveWrite(q)
                              \/ TriggerAnswer(q) \/ DeleteAnswer(q) \/ CancelAnswer(q)
  BY DEF WriteStep
<1>2. DOMAIN status = Runs
  BY DEF VerdictInv
<1>3. UNCHANGED <<page, pageVars>> /\ net[q].op \notin {"history", "run"}
  BY <1>1 DEF CreatePick, CreateInsert, SavePick, SaveWrite, TriggerAnswer, DeleteAnswer, CancelAnswer
<1>4. {"none"} \cap Ended = {} /\ {"pending", "running"} \cap Ended = {}
  BY DEF Ended, Lifecycle!Terminal, Lifecycle!Verdicts
<1>5. CASE CreatePick(q) \/ CreateInsert(q) \/ SavePick(q) \/ SaveWrite(q)
  <2>1. StatusKept
    BY <1>5, SameIsKept DEF CreatePick, CreateInsert, SavePick, SaveWrite, serverVars
  <2>2. \E at, ans : net' = Moved(q, at, ans)
    BY <1>5 DEF CreatePick, CreateInsert, SavePick, SaveWrite, Carry, Reply, Refuse
  <2> QED
    BY <1>3, <2>1, <2>2, Written
<1>6. CASE TriggerAnswer(q)
  <2>1. UNCHANGED status \/ \E r \in Runs : Lifecycle!Move(r, {"none"}, "pending")
    BY <1>6 DEF TriggerAnswer, Queueable, RunsOf, Lifecycle!Submit
  <2>2. StatusKept
    BY <1>2, <1>4, <2>1, SameIsKept, MoveKeeps
  <2>3. \E at, ans : net' = Moved(q, at, ans)
    BY <1>6 DEF TriggerAnswer, Carry, Reply, Refuse
  <2> QED
    BY <1>3, <2>2, <2>3, Written
<1>7. CASE DeleteAnswer(q)
  <2>1. StatusKept
    BY <1>7, SameIsKept, DeleteKeeps DEF DeleteAnswer, serverVars
  <2>2. \E at, ans : net' = Moved(q, at, ans)
    BY <1>7 DEF DeleteAnswer, Carry, Reply, Refuse
  <2> QED
    BY <1>3, <2>1, <2>2, Written
<1>8. CASE CancelAnswer(q)
  <2>1. UNCHANGED status \/ Lifecycle!Move(net[q].arg, {"pending", "running"}, "cancelled")
    BY <1>8 DEF CancelAnswer
  <2>2. StatusKept
    BY <1>2, <1>4, <2>1, SameIsKept, MoveKeeps
  <2>3. \E at, ans : net' = Moved(q, at, ans)
    BY <1>8 DEF CancelAnswer, Carry, Reply, Refuse
  <2> QED
    BY <1>3, <2>2, <2>3, Written
<1> QED
  BY <1>1, <1>5, <1>6, <1>7, <1>8

LEMMA VerdictEnvironment == ASSUME VerdictInv, Environment PROVE VerdictInv'
<1>1. DOMAIN status = Runs
  BY DEF VerdictInv
<1>2. /\ {"none"} \cap Ended = {} /\ {"pending"} \cap Ended = {} /\ {"running"} \cap Ended = {}
  BY DEF Ended, Lifecycle!Terminal, Lifecycle!Verdicts
\* The tab does not move, and nothing reaches it.
<1>3. ASSUME StatusKept, UNCHANGED <<page, net, pageVars>> PROVE VerdictInv'
  <2>1. ScreenSound'
    BY <1>3 DEF VerdictInv, ScreenSound, Stands, StatusKept, OnRun, pageVars
  <2>2. NetSound'
    BY <1>3 DEF VerdictInv, NetSound, Sound, Stands, StatusKept, OnRun
  <2> QED
    BY <1>3, <2>1, <2>2 DEF VerdictInv, StatusKept
<1>4. CASE WorkerStep
  <2>1. \E r \in Runs : \/ Lifecycle!Move(r, {"pending"}, "running")
                       \/ \E v \in Outcomes : Lifecycle!Move(r, {"running"}, v)
    BY <1>4 DEF WorkerStep
  <2>2. StatusKept
    BY <1>1, <1>2, <2>1, MoveKeeps
  <2> QED
    BY <1>3, <1>4, <2>2 DEF WorkerStep
<1>5. CASE OtherStep
  <2>1. PICK s \in Scenarios : \/ \E n \in Names : OtherRename(s, n) \/ OtherCreate(s, n)
                              \/ OtherDelete(s) \/ OtherToggle(s) \/ OtherTrigger(s)
    BY <1>5 DEF OtherStep
  <2>2. \/ UNCHANGED status \/ Delete(s)
        \/ \E r \in Runs : Lifecycle!Move(r, {"none"}, "pending")
    BY <2>1 DEF OtherRename, OtherCreate, OtherDelete, OtherToggle, OtherTrigger, Queueable,
                RunsOf, Lifecycle!Submit
  <2>3. StatusKept
    BY <1>1, <1>2, <2>2, SameIsKept, DeleteKeeps, MoveKeeps
  <2> QED
    BY <1>3, <1>5, <2>3 DEF OtherStep
<1>6. CASE \E q \in DOMAIN net : Outage(q)
  <2>1. PICK q \in DOMAIN net : Outage(q)
    BY <1>6
  <2>2. UNCHANGED <<page, pageVars, status>> /\ net' = Moved(q, "failed", None)
    BY <2>1 DEF Outage, Fail, Refuse, serverVars
  <2> QED
    BY <2>2, SameIsKept, Served
<1> QED
  BY <1>4, <1>5, <1>6 DEF Environment

LEMMA VerdictInit == Init => VerdictInv
<1> SUFFICES ASSUME Init PROVE VerdictInv
  OBVIOUS
<1>1. /\ page = ListRoute /\ net = Sent(<<>>, "list", None)
      /\ editor = EditorInit /\ detail = DetailInit /\ DOMAIN status = Runs
  BY DEF Init, MountRequests, ListRoute
<1>2. NetSound
  <2> SUFFICES ASSUME NEW q \in DOMAIN net PROVE Sound(net[q])
    BY DEF NetSound
  <2>1. net[q] = Request("list", None)
    BY <1>1, SentAdds
  <2> QED
    BY <2>1 DEF Sound, Request, Fields
<1>3. ScreenSound
  BY <1>1 DEF ScreenSound, EditorInit, DetailInit, Stands, isTerminal, Lifecycle!Terminal,
              Lifecycle!Verdicts
<1> QED
  BY <1>1, <1>2, <1>3 DEF VerdictInv

LEMMA VerdictNext == VerdictInv /\ [Next]_vars => VerdictInv'
<1> SUFFICES ASSUME VerdictInv, [Next]_vars PROVE VerdictInv'
  OBVIOUS
<1>1. CASE Click \/ Poll
  BY <1>1, VerdictClick
<1>2. CASE Handle \/ HistoryAnswered \/ RunAnswered
  BY <1>2, VerdictList, VerdictEditor, VerdictHistory, VerdictRun DEF Handle
<1>3. CASE ReadStep \/ WriteStep \/ Environment
  BY <1>3, VerdictRead, VerdictWrite, VerdictEnvironment
<1>4. CASE UNCHANGED vars
  BY <1>4 DEF vars, pageVars, VerdictInv, NetSound, Sound, ScreenSound, Stands, OnRun
<1> QED
  BY <1>1, <1>2, <1>3, <1>4 DEF Next

\* For any runs and bounds, and whatever answers overtake each other, no page of
\* the tab shows a verdict for a run that has none.
THEOREM ShownVerdictsStand == Spec => []ShownVerdictStands
<1>1. VerdictInv => ShownVerdictStands
  BY DEF VerdictInv, ScreenSound, Stands, ShownVerdictStands, Ended
<1> QED
  BY <1>1, VerdictInit, VerdictNext, PTL DEF Spec

-----------------------------------------------------------------------------
(* The bound on the requests in flight.                                    *)

\* S has ids of its own, and room for k more.
Fits(S, k) ==
    /\ DOMAIN S \subseteq Ids /\ IsFiniteSet(DOMAIN S)
    /\ Cardinality(DOMAIN S) + k <= MaxInFlight

NewId(S, op) == CHOOSE j \in IdsOf({op}) : j \notin DOMAIN S

\* While there is room, some id of every operation is free.
LEMMA NewIdIsFree ==
    ASSUME NEW S, NEW op \in Ops, Fits(S, 1)
    PROVE  NewId(S, op) \in Ids \ DOMAIN S
<1>1. MaxInFlight \in Nat \ {0} /\ Cardinality(DOMAIN S) \in Nat /\ IsFiniteSet(DOMAIN S)
  BY TabAssumption, FS_CardinalityType DEF Fits
<1>2. IsFiniteSet({op}) /\ Cardinality({op}) = 1
  BY FS_Singleton
<1>3. IsFiniteSet(1..MaxInFlight) /\ Cardinality(1..MaxInFlight) = MaxInFlight
  BY <1>1, FS_Interval
<1>4. Cardinality(IdsOf({op})) = MaxInFlight
  <2>1. Cardinality({op} \X (1..MaxInFlight)) = Cardinality({op}) * Cardinality(1..MaxInFlight)
    BY <1>2, <1>3, FS_Product
  <2>2. Cardinality({op} \X (1..MaxInFlight)) = 1 * MaxInFlight
    BY ONLY <2>1, <1>2, <1>3
  <2>3. 1 * MaxInFlight = MaxInFlight
    BY <1>1
  <2> QED
    BY ONLY <2>2, <2>3 DEF IdsOf
<1>5. ~(IdsOf({op}) \subseteq DOMAIN S)
  <2> SUFFICES ASSUME IdsOf({op}) \subseteq DOMAIN S PROVE FALSE
    OBVIOUS
  <2>1. Cardinality(IdsOf({op})) <= Cardinality(DOMAIN S)
    BY <1>1, FS_Subset
  <2> QED
    BY <1>1, <1>4, <2>1 DEF Fits
<1>6. NewId(S, op) \in IdsOf({op}) /\ NewId(S, op) \notin DOMAIN S
  BY <1>5 DEF NewId
<1>7. IdsOf({op}) \subseteq Ids
  BY DEF Ids, IdsOf, Ops
<1> QED
  BY <1>6, <1>7

\* T has one request more than S.
Adds(T, S, op, arg) ==
    /\ DOMAIN T = DOMAIN S \cup {NewId(S, op)}
    /\ T[NewId(S, op)] = Request(op, arg)
    /\ \A q \in DOMAIN S : T[q] = S[q]

\* A request is added, and nothing else changes.
LEMMA SentIs ==
    ASSUME NEW S, NEW op \in Ops, NEW arg, Fits(S, 1)
    PROVE  Adds(Sent(S, op, arg), S, op, arg)
<1>1. Sent(S, op, arg) =
        [j \in DOMAIN S \cup {NewId(S, op)} |-> IF j = NewId(S, op) THEN Request(op, arg) ELSE S[j]]
  BY DEF Sent, Request, NewId
<1> QED
  BY <1>1, NewIdIsFree DEF Adds

LEMMA SentFits ==
    ASSUME NEW S, NEW op \in Ops, NEW arg, NEW k \in Nat, Fits(S, k + 1)
    PROVE  Fits(S, 1) /\ Fits(Sent(S, op, arg), k)
<1>1. Cardinality(DOMAIN S) \in Nat /\ MaxInFlight \in Nat
  BY TabAssumption, FS_CardinalityType DEF Fits
<1>2. Fits(S, 1)
  BY <1>1 DEF Fits
<1>3. /\ DOMAIN Sent(S, op, arg) = DOMAIN S \cup {NewId(S, op)}
      /\ NewId(S, op) \in Ids \ DOMAIN S
  BY <1>2, SentIs, NewIdIsFree DEF Adds
<1>4. /\ IsFiniteSet(DOMAIN S \cup {NewId(S, op)})
      /\ Cardinality(DOMAIN S \cup {NewId(S, op)}) = Cardinality(DOMAIN S) + 1
  BY <1>3, FS_AddElement DEF Fits
<1> QED
  BY <1>1, <1>2, <1>3, <1>4 DEF Fits

\* Fewer requests fit as well.
LEMMA FewerFit ==
    ASSUME NEW S, Fits(S, 0), NEW T, DOMAIN T \subseteq DOMAIN S
    PROVE  Fits(T, 0)
<1>1. IsFiniteSet(DOMAIN T) /\ Cardinality(DOMAIN T) <= Cardinality(DOMAIN S)
  BY FS_Subset DEF Fits
<1>2. Cardinality(DOMAIN T) \in Nat /\ Cardinality(DOMAIN S) \in Nat /\ MaxInFlight \in Nat
  BY <1>1, TabAssumption, FS_CardinalityType DEF Fits
<1> QED
  BY <1>1, <1>2 DEF Fits

\* An answer that is dealt with leaves room for another request.
LEMMA DoneFits ==
    ASSUME Fits(net, 0), NEW q \in DOMAIN net
    PROVE  Fits(Done(q), 0) /\ Fits(Done(q), 1)
<1>1. DOMAIN Done(q) = DOMAIN net \ {q}
  BY DEF Done, Restrict
<1>2. /\ IsFiniteSet(DOMAIN net \ {q})
      /\ Cardinality(DOMAIN net \ {q}) = Cardinality(DOMAIN net) - 1
  BY FS_RemoveElement DEF Fits
<1>3. Cardinality(DOMAIN net) \in Nat /\ MaxInFlight \in Nat
  BY TabAssumption, FS_CardinalityType DEF Fits
<1> QED
  BY <1>1, <1>2, <1>3 DEF Fits

LEMMA RoomFits == ASSUME NEW S, NEW k, Fits(S, 0), Room(S, k) PROVE Fits(S, k)
BY DEF Fits, Room

-----------------------------------------------------------------------------
(* Type correctness, what is loading, and where a form stands.             *)

TypedNet(S) == \A q \in DOMAIN S : TypedRequest(S[q])

Typed ==
    /\ page \in Routes
    /\ mishaps \in 0..MaxMishaps /\ edits \in 0..MaxEdits
    /\ RowsTyped /\ ListTyped /\ EditorTyped
    /\ Fits(net, 0) /\ TypedNet(net)

\* A request that has just been sent.
LEMMA RequestTyped ==
    ASSUME NEW op \in Ops, NEW arg,
           op = "create" => arg \in Names,
           op = "save"   => arg \in Content,
           op = "cancel" => arg \in Runs,
           op \in {"trigger", "delete", "scenario"} => arg \in Slugs
    PROVE  TypedRequest(Request(op, arg))
BY DEF TypedRequest, Request, Fields, Stages

\* The row of a page is asked for once, by the page that waits for it; a page that
\* waits no longer has its row, or an error.
Loads ==
    /\ \A p, q \in DOMAIN net : net[p].op = "scenario" /\ net[q].op = "scenario" => p = q
    /\ \A q \in DOMAIN net : net[q].op = "scenario" =>
          OnEditor /\ editor.loading /\ net[q].arg = page.slug
    /\ ~editor.loading /\ ~editor.loadError => editor.scenario # None

\* r will take the tab to another page: a slug has moved away from the one on screen,
\* or a scenario is deleted.
Leads(r) ==
    /\ r.at = "ok"
    /\ \/ r.op = "delete"
       \/ r.op = "save" /\ r.ans.slug \notin {r.arg.slug, page.slug}

HasForm == OnEditor /\ ( \/ ~editor.loading /\ ~editor.loadError
                         \/ \E q \in DOMAIN net : net[q].op = "scenario" /\ net[q].at = "ok" )

\* Without mishaps only this tab's own save or delete takes the slug of its form
\* away, and then the answer that leads the tab elsewhere is on its way.
Addressed == mishaps = 0 /\ HasForm /\ AtSlug(page.slug) = {} => \E q \in DOMAIN net : Leads(net[q])

FormInv == Typed /\ Loads /\ Addressed

\* What FormSurvives says of a step.
Survives ==
    OnForm /\ page' = page /\ net' # net =>
        /\ EditorView' = "form"
        /\ Draft' # Draft => \E q \in Answered("save") : q \notin DOMAIN net'

\* The form is on screen once the page is loaded.
LEMMA FormIsLoaded ==
    ASSUME EditorTyped, Loads
    PROVE  EditorView = "form" <=> ~editor.loading /\ ~editor.loadError
BY DEF EditorTyped, Loads, EditorView

-----------------------------------------------------------------------------
(* A step of the tab: what it does to the requests in flight.              *)

\* A request of S was in flight before, or is new and no request for the row.
Follows(S) ==
    /\ Fits(S, 0)
    /\ \A q \in DOMAIN S :
          \/ q \in DOMAIN net /\ S[q] = net[q]
          \/ \E op \in Ops \ {"scenario"} : \E arg :
                S[q] = Request(op, arg) /\ TypedRequest(Request(op, arg))

\* No answer that leads elsewhere is lost.
KeepsLeads(S) == \A q \in DOMAIN net : Leads(net[q]) => q \in DOMAIN S /\ S[q] = net[q]

LEMMA NothingFollows == ASSUME FormInv PROVE Follows(net) /\ KeepsLeads(net)
BY DEF FormInv, Typed, Follows, KeepsLeads

LEMMA SentFollows ==
    ASSUME FormInv, Room(net, 1), NEW op \in Ops \ {"scenario"}, NEW arg,
           TypedRequest(Request(op, arg))
    PROVE  Follows(Sent(net, op, arg)) /\ KeepsLeads(Sent(net, op, arg))
<1>1. Fits(net, 0 + 1)
  BY RoomFits DEF FormInv, Typed
<1>2. Fits(net, 1) /\ Fits(Sent(net, op, arg), 0)
  BY <1>1, SentFits
<1>3. Adds(Sent(net, op, arg), net, op, arg)
  BY <1>2, SentIs
<1> QED
  BY <1>2, <1>3 DEF Adds, Follows, KeepsLeads

LEMMA DoneFollows ==
    ASSUME FormInv, NEW q \in DOMAIN net
    PROVE  /\ Follows(Done(q))
           /\ ~Leads(net[q]) => KeepsLeads(Done(q))
<1>1. DOMAIN Done(q) = DOMAIN net \ {q} /\ \A p \in DOMAIN Done(q) : Done(q)[p] = net[p]
  BY DEF Done, Restrict
<1>2. Fits(Done(q), 0)
  BY DoneFits DEF FormInv, Typed
<1> QED
  BY <1>1, <1>2 DEF Follows, KeepsLeads

LEMMA SwapFollows ==
    ASSUME FormInv, NEW q \in DOMAIN net, ~Leads(net[q]), NEW op \in Ops \ {"scenario"},
           NEW arg, TypedRequest(Request(op, arg))
    PROVE  Follows(Sent(Done(q), op, arg)) /\ KeepsLeads(Sent(Done(q), op, arg))
<1>1. DOMAIN Done(q) = DOMAIN net \ {q} /\ \A p \in DOMAIN Done(q) : Done(q)[p] = net[p]
  BY DEF Done, Restrict
<1>2. Fits(Done(q), 0 + 1)
  BY DoneFits DEF FormInv, Typed
<1>3. Fits(Done(q), 1) /\ Fits(Sent(Done(q), op, arg), 0)
  BY <1>2, SentFits
<1>4. Adds(Sent(Done(q), op, arg), Done(q), op, arg)
  BY <1>3, SentIs
<1> QED
  BY <1>1, <1>3, <1>4 DEF Adds, Follows, KeepsLeads

\* The tab stays on its page, which keeps its form if it has one.
LEMMA TabStays ==
    ASSUME FormInv, UNCHANGED <<page, serverVars, mishaps>>, edits' \in 0..MaxEdits,
           Follows(net'), KeepsLeads(net'), ListTyped', EditorTyped',
           editor'.loading = editor.loading, editor'.loadError = editor.loadError,
           editor.scenario # None => editor'.scenario # None,
           \/ Draft' = Draft
           \/ net' = net
           \/ \E q \in Answered("save") : q \notin DOMAIN net'
    PROVE  FormInv' /\ Survives
<1>1. \A q \in DOMAIN net' : net'[q].op = "scenario" => q \in DOMAIN net /\ net'[q] = net[q]
  <2> SUFFICES ASSUME NEW q \in DOMAIN net', NEW op \in Ops \ {"scenario"}, NEW arg,
                      net'[q] = Request(op, arg), net'[q].op = "scenario"
               PROVE  FALSE
    BY Zenon DEF Follows
  <2> QED
    BY DEF Request
<1>2. Loads'
  BY <1>1 DEF FormInv, Loads, OnEditor
<1>3. TypedNet(net')
  BY DEF FormInv, Typed, TypedNet, Follows
<1>4. Typed'
  BY <1>3 DEF FormInv, Typed, RowsTyped, serverVars, Follows, Fits, TypedNet
<1>5. HasForm' => HasForm
  BY <1>1 DEF HasForm, OnEditor
<1>6. AtSlug(page.slug)' = AtSlug(page.slug)
  BY DEF AtSlug, Exists, serverVars
<1>7. \A q \in DOMAIN net : Leads(net[q]) => q \in DOMAIN net' /\ Leads(net[q])'
  BY DEF KeepsLeads, Leads
<1>8. Addressed'
  BY <1>5, <1>6, <1>7 DEF FormInv, Addressed
<1>9. OnForm => EditorView' = "form"
  <2>1. EditorView = "form" <=> ~editor.loading /\ ~editor.loadError
    BY FormIsLoaded DEF FormInv, Typed
  <2>2. (EditorView = "form" <=> ~editor.loading /\ ~editor.loadError)'
    BY <1>2, <1>4, FormIsLoaded, PTL DEF Typed
  <2> QED
    BY <2>1, <2>2 DEF OnForm
<1> QED
  BY <1>2, <1>4, <1>8, <1>9 DEF FormInv, Survives

\* The pages' state at the start.
LEMMA PagesStart ==
    ASSUME list' = ListInit, editor' = EditorInit
    PROVE  ListTyped' /\ EditorTyped' /\ editor'.loading = TRUE
BY DEF ListTyped, EditorTyped, ListInit, EditorInit

\* What is left in flight of the page before: typed, and mutations only.
LEMMA LeftIsTyped ==
    ASSUME NEW S, TypedNet(S), NEW q \in DOMAIN Orphaned(S, Mutations)
    PROVE  /\ q \in DOMAIN S
           /\ Orphaned(S, Mutations)[q].op \in Mutations
           /\ TypedRequest(Orphaned(S, Mutations)[q])
<1>1. q \in DOMAIN S /\ S[q].op \in Mutations /\ Orphaned(S, Mutations)[q] = [S[q] EXCEPT !.home = FALSE]
  BY DEF Orphaned
<1> DEFINE r == [S[q] EXCEPT !.home = FALSE]
<1>2. TypedRequest(S[q])
  BY <1>1 DEF TypedNet
<1>3. /\ DOMAIN r = Fields /\ r.op = S[q].op /\ r.arg = S[q].arg
      /\ r.at = S[q].at /\ r.ans = S[q].ans /\ r.home = FALSE
  BY <1>2 DEF TypedRequest, Fields
<1> HIDE DEF r
<1>4. TypedRequest(r)
  BY <1>2, <1>3 DEF TypedRequest
<1> QED
  BY <1>1, <1>3, <1>4 DEF r

\* What a new page has in flight: what was left, and its own first requests, one of
\* them for the row when it is an editor.
Mounts(p, S, left) ==
    /\ Fits(S, 0)
    /\ \A q \in DOMAIN S :
          \/ q \in DOMAIN left /\ S[q] = left[q]
          \/ \E op \in {"list", "history", "run"} : \E arg : S[q] = Request(op, arg)
          \/ p.at = "editor" /\ q = NewId(left, "scenario") /\ S[q] = Request("scenario", p.slug)

LEMMA MountMounts ==
    ASSUME NEW left, Fits(left, 0), NEW p, p.at \in {"list", "editor", "run"},
           Room(left, IF p.at = "editor" THEN 2 ELSE 1)
    PROVE  Mounts(p, MountRequests(p, left), left)
<1>1. ASSUME NEW op \in {"list", "run"}, NEW arg, p.at # "editor",
             MountRequests(p, left) = Sent(left, op, arg)
      PROVE  Mounts(p, MountRequests(p, left), left)
  <2>1. Fits(left, 0 + 1) /\ op \in Ops
    BY <1>1, RoomFits DEF Ops
  <2>2. Fits(left, 1) /\ Fits(Sent(left, op, arg), 0)
    BY <2>1, SentFits
  <2>3. Adds(Sent(left, op, arg), left, op, arg)
    BY <2>1, <2>2, SentIs
  <2> QED
    BY <1>1, <2>2, <2>3 DEF Adds, Mounts
<1>2. CASE p.at = "editor"
  <2>1. MountRequests(p, left) = Sent(Sent(left, "scenario", p.slug), "history", "mount")
    BY <1>2 DEF MountRequests
  <2>2. Fits(left, 1 + 1) /\ "scenario" \in Ops /\ "history" \in Ops
    BY <1>2, RoomFits DEF Ops
  <2>3. Fits(left, 1) /\ Fits(Sent(left, "scenario", p.slug), 1)
    BY <2>2, SentFits
  <2>4. Adds(Sent(left, "scenario", p.slug), left, "scenario", p.slug)
    BY <2>2, <2>3, SentIs
  <2>5. \A S : Fits(S, 1) => Fits(Sent(S, "history", "mount"), 0) /\ Adds(Sent(S, "history", "mount"), S, "history", "mount")
    <3> SUFFICES ASSUME NEW S, Fits(S, 1)
                 PROVE  /\ Fits(Sent(S, "history", "mount"), 0)
                        /\ Adds(Sent(S, "history", "mount"), S, "history", "mount")
      OBVIOUS
    <3>1. Fits(S, 0 + 1)
      OBVIOUS
    <3> QED
      BY <2>2, <3>1, SentFits, SentIs
  <2>6. ASSUME NEW S, Fits(S, 1), Adds(S, left, "scenario", p.slug)
        PROVE  Mounts(p, Sent(S, "history", "mount"), left)
    <3>1. Adds(Sent(S, "history", "mount"), S, "history", "mount")
          /\ Fits(Sent(S, "history", "mount"), 0)
      BY <2>5, <2>6
    <3> QED
      BY <1>2, <2>6, <3>1 DEF Adds, Mounts
  <2> QED
    BY <2>1, <2>3, <2>4, <2>6
<1>3. CASE p.at = "list"
  BY <1>1, <1>3 DEF MountRequests
<1>4. CASE p.at = "run"
  BY <1>1, <1>4 DEF MountRequests
<1> QED
  BY <1>2, <1>3, <1>4

LEMMA RouteAt == ASSUME NEW p \in Routes PROVE p.at \in {"list", "editor", "run"}
BY DEF Routes

\* The tab moves, or is told to move to where it is.  No answer that leads away
\* from the page it stays on is lost.
LEMMA TabGoes ==
    ASSUME FormInv, UNCHANGED <<serverVars, mishaps, edits>>, NEW p \in Routes, NEW S,
           Follows(S), p = page /\ OnEditor => KeepsLeads(S), Goto(p, S)
    PROVE  FormInv' /\ Survives
<1>1. CASE p = page
  <2>1. net' = S /\ UNCHANGED <<page, list, editor, detail>>
    BY <1>1 DEF Goto, pageVars
  <2>2. CASE OnEditor
    <3>1. /\ Draft' = Draft /\ ListTyped' /\ EditorTyped'
          /\ editor'.loading = editor.loading /\ editor'.loadError = editor.loadError
          /\ editor'.scenario = editor.scenario /\ edits' \in 0..MaxEdits
      BY <2>1 DEF FormInv, Typed, ListTyped, EditorTyped, Draft
    <3>2. Follows(net') /\ KeepsLeads(net')
      BY <1>1, <2>1, <2>2
    <3> QED
      BY <2>1, <3>1, <3>2, TabStays
  <2>3. CASE ~OnEditor
    <3>1. \A q \in DOMAIN S : S[q].op = "scenario" => q \in DOMAIN net /\ S[q] = net[q]
      <4> SUFFICES ASSUME NEW q \in DOMAIN S, NEW op \in Ops \ {"scenario"}, NEW arg,
                          S[q] = Request(op, arg), S[q].op = "scenario"
                   PROVE  FALSE
        BY Zenon DEF Follows
      <4> QED
        BY DEF Request
    <3>2. Loads'
      BY <2>1, <3>1 DEF FormInv, Loads, OnEditor
    <3>3. TypedNet(S)
      BY DEF FormInv, Typed, TypedNet, Follows
    <3>4. Typed'
      BY <2>1, <3>3 DEF FormInv, Typed, RowsTyped, ListTyped, EditorTyped, serverVars, Follows, Fits, TypedNet
    <3>5. ~OnEditor' /\ ~OnForm
      BY <2>1, <2>3 DEF OnEditor, OnForm
    <3> QED
      BY <3>2, <3>4, <3>5 DEF FormInv, Addressed, HasForm, Survives
  <2> QED
    BY <2>2, <2>3
<1>2. CASE p # page
  <2> DEFINE left == Orphaned(S, Mutations)
  <2>1. /\ Room(left, IF p.at = "editor" THEN 2 ELSE 1)
        /\ page' = p /\ net' = MountRequests(p, left)
        /\ list' = ListInit /\ editor' = EditorInit
    BY <1>2 DEF Goto
  <2>2. TypedNet(S) /\ Fits(S, 0)
    BY DEF FormInv, Typed, TypedNet, Follows
  <2>3. \A q \in DOMAIN left : /\ q \in DOMAIN S /\ left[q].op \in Mutations
                               /\ TypedRequest(left[q])
    BY <2>2, LeftIsTyped
  <2>4. Fits(left, 0)
    BY <2>2, <2>3, FewerFit
  <2>5. Mounts(p, net', left)
    BY <2>1, <2>4, MountMounts, RouteAt
  <2> HIDE DEF left
  <2>6. \A q \in DOMAIN net' : /\ TypedRequest(net'[q])
                               /\ net'[q].op = "scenario" =>
                                    /\ p.at = "editor" /\ q = NewId(left, "scenario")
                                    /\ net'[q].arg = p.slug /\ net'[q].at = "sent"
    <3> TAKE q \in DOMAIN net'
    <3>1. CASE q \in DOMAIN left /\ net'[q] = left[q]
      BY <2>3, <3>1 DEF Mutations
    <3>2. ASSUME NEW op \in {"list", "history", "run"}, NEW arg, net'[q] = Request(op, arg)
          PROVE  TypedRequest(net'[q]) /\ net'[q].op # "scenario"
      BY <3>2, RequestTyped DEF Request, Ops
    <3>3. CASE p.at = "editor" /\ q = NewId(left, "scenario") /\ net'[q] = Request("scenario", p.slug)
      <4>1. p.slug \in Slugs /\ "scenario" \in Ops
        BY <3>3 DEF Routes, Ops
      <4> QED
        BY <3>3, <4>1, RequestTyped DEF Request
    <3> QED
      BY <2>5, <3>1, <3>2, <3>3 DEF Mounts
  <2>7. ListTyped' /\ EditorTyped' /\ editor'.loading = TRUE
    BY <2>1, PagesStart
  <2>8. Fits(net', 0) /\ TypedNet(net')
    BY <2>5, <2>6 DEF Mounts, TypedNet
  <2>9. Typed'
    BY <2>1, <2>7, <2>8 DEF FormInv, Typed, RowsTyped, serverVars, Fits, TypedNet
  <2>10. Loads'
    BY <2>1, <2>6, <2>7 DEF Loads, OnEditor
  <2>11. ~HasForm'
    BY <2>6, <2>7 DEF HasForm
  <2>12. page' # page
    BY <1>2, <2>1
  <2> QED
    BY <2>9, <2>10, <2>11, <2>12 DEF FormInv, Addressed, Survives
<1> QED
  BY <1>1, <1>2

-----------------------------------------------------------------------------
(* The actions of the pages.                                               *)

\* Nothing of the editor changes, nor of what is asked for in the dialog.
LEMMA FormStays ==
    ASSUME FormInv, UNCHANGED <<page, serverVars, mishaps, editor>>, edits' \in 0..MaxEdits,
           Follows(net'), KeepsLeads(net'), ListTyped'
    PROVE  FormInv' /\ Survives
<1>1. EditorTyped' /\ Draft' = Draft
  BY DEF FormInv, Typed, EditorTyped, Draft
<1> QED
  BY <1>1, TabStays

LEMMA ListKept == ASSUME FormInv, UNCHANGED list PROVE ListTyped'
BY DEF FormInv, Typed, ListTyped

LEMMA EditsKept == ASSUME FormInv, UNCHANGED edits PROVE edits' \in 0..MaxEdits
BY DEF FormInv, Typed

\* A list page without an answer: the dialog, and the requests it sends.
LEMMA FormListClick == ASSUME FormInv, ListClick PROVE FormInv' /\ Survives
<1>1. UNCHANGED <<serverVars, mishaps>>
  BY DEF ListClick, ListStep, Retry, OpenCreate, CloseCreate, TypeName, Create, OpenScenario
<1>2. CASE Retry
  <2>1. ListTyped' /\ UNCHANGED <<page, editor, edits>> /\ Room(net, 1)
        /\ net' = Sent(net, "list", None)
    BY <1>2 DEF Retry, ListStep, FormInv, Typed, ListTyped
  <2>2. TypedRequest(Request("list", None)) /\ "list" \in Ops \ {"scenario"}
    BY RequestTyped DEF Ops
  <2> QED
    BY <1>1, <2>1, <2>2, SentFollows, FormStays, EditsKept
<1>3. CASE OpenCreate \/ CloseCreate
  <2>1. ListTyped' /\ UNCHANGED <<page, net, editor, edits>>
    BY <1>3 DEF OpenCreate, CloseCreate, ListStep, FormInv, Typed, ListTyped, ListInit
  <2> QED
    BY <1>1, <2>1, NothingFollows, FormStays, EditsKept
<1>4. ASSUME NEW n \in Names, TypeName(n) PROVE FormInv' /\ Survives
  <2>1. ListTyped' /\ UNCHANGED <<page, net, editor>>
    BY <1>4 DEF TypeName, ListStep, FormInv, Typed, ListTyped
  <2>2. edits' \in 0..MaxEdits
    BY <1>4, ScenarioAssumption DEF TypeName, FormInv, Typed
  <2> QED
    BY <1>1, <2>1, <2>2, NothingFollows, FormStays
<1>5. CASE Create
  <2>1. UNCHANGED <<page, list, editor, edits>> /\ Room(net, 1)
        /\ net' = Sent(net, "create", list.name) /\ list.name \in Names
    BY <1>5 DEF Create, MayCreate, RoomToAct, ListStep, FormInv, Typed, ListTyped
  <2>2. TypedRequest(Request("create", list.name)) /\ "create" \in Ops \ {"scenario"}
    BY <2>1, RequestTyped DEF Ops, Mutations
  <2> QED
    BY <1>1, <2>1, <2>2, SentFollows, FormStays, ListKept, EditsKept
<1>6. CASE OpenScenario
  <2>1. PICK g \in list.scenarios : Goto(EditorRoute(g.slug), net)
    BY <1>6 DEF OpenScenario
  <2>2. EditorRoute(g.slug) \in Routes
    BY <2>1 DEF EditorRoute, Routes, FormInv, Typed, ListTyped
  <2> QED
    BY <1>1, <1>6, <2>1, <2>2, NothingFollows, TabGoes DEF OpenScenario
<1> QED
  BY <1>2, <1>3, <1>4, <1>5, <1>6 DEF ListClick

\* The slug in the address bar is one.
LEMMA PageSlug == ASSUME FormInv, page.at \in {"editor", "run"} PROVE page.slug \in Slugs
BY DEF FormInv, Typed, Routes

\* What OnForm says of the state of the editor.
LEMMA FormHasRow ==
    ASSUME FormInv, OnForm
    PROVE  /\ page.slug \in Slugs /\ editor.scenario # None
           /\ editor.name \in Names /\ editor.active \in BOOLEAN
<1>1. editor.scenario # None
  BY FormIsLoaded DEF FormInv, Typed, Loads, OnForm
<1> QED
  BY <1>1, PageSlug DEF OnForm, OnEditor, FormInv, Typed, EditorTyped

LEMMA FormEditorClick == ASSUME FormInv, EditorClick PROVE FormInv' /\ Survives
<1>1. UNCHANGED <<serverVars, mishaps>>
  BY DEF EditorClick, EditorStep, Edit, Save, Trigger, DeleteScenario, LeaveEditor
<1>2. CASE Edit
  <2>1. UNCHANGED <<page, net, list>> /\ ListTyped' /\ OnForm
    BY <1>2, ListKept DEF Edit, EditorStep
  <2>2. edits' \in 0..MaxEdits
    BY <1>2, ScenarioAssumption DEF Edit, FormInv, Typed
  <2>3. /\ EditorTyped' /\ editor'.loading = editor.loading
        /\ editor'.loadError = editor.loadError /\ editor'.scenario = editor.scenario
    <3>1. CASE \E n \in Names \ {editor.name} : editor' = [editor EXCEPT !.name = n]
      BY <3>1 DEF FormInv, Typed, EditorTyped, EditorInit
    <3>2. CASE editor' = [editor EXCEPT !.active = ~@]
      BY <3>2 DEF FormInv, Typed, EditorTyped, EditorInit
    <3>3. CASE \E t \in TypedTexts \ {editor.steps} : editor' = [editor EXCEPT !.steps = t]
      BY <3>3 DEF FormInv, Typed, EditorTyped, EditorInit
    <3> QED
      BY <1>2, <3>1, <3>2, <3>3 DEF Edit
  <2> QED
    BY <1>1, <2>1, <2>2, <2>3, NothingFollows, TabStays
<1>3. CASE Save
  <2> DEFINE arg == [slug |-> page.slug, name |-> editor.name, active |-> editor.active]
  <2>1. /\ UNCHANGED <<page, list, edits>> /\ ListTyped' /\ OnForm /\ Room(net, 1)
        /\ net' = Sent(net, "save", arg) /\ editor' = [editor EXCEPT !.saving = TRUE]
    BY <1>3, ListKept DEF Save, MaySave, RoomToAct, EditorStep
  <2>2. arg \in Content
    BY <2>1, FormHasRow DEF Content
  <2> HIDE DEF arg
  <2>3. TypedRequest(Request("save", arg)) /\ "save" \in Ops \ {"scenario"}
    BY <2>2, RequestTyped DEF Ops, Mutations
  <2>4. /\ EditorTyped' /\ editor'.loading = editor.loading
        /\ editor'.loadError = editor.loadError /\ editor'.scenario = editor.scenario
        /\ Draft' = Draft
    BY <2>1 DEF FormInv, Typed, EditorTyped, EditorInit, Draft
  <2> QED
    BY <1>1, <2>1, <2>3, <2>4, SentFollows, TabStays, EditsKept
<1>4. CASE Trigger
  <2>1. /\ UNCHANGED <<page, list, edits>> /\ ListTyped' /\ Room(net, 1) /\ OnForm
        /\ net' = Sent(net, "trigger", page.slug) /\ editor' = [editor EXCEPT !.triggering = TRUE]
    BY <1>4, ListKept DEF Trigger, MayTrigger, RoomToAct, EditorStep
  <2>2. TypedRequest(Request("trigger", page.slug)) /\ "trigger" \in Ops \ {"scenario"}
    BY <2>1, FormHasRow, RequestTyped DEF Ops, Mutations
  <2>3. /\ EditorTyped' /\ editor'.loading = editor.loading
        /\ editor'.loadError = editor.loadError /\ editor'.scenario = editor.scenario
        /\ Draft' = Draft
    BY <2>1 DEF FormInv, Typed, EditorTyped, EditorInit, Draft
  <2> QED
    BY <1>1, <2>1, <2>2, <2>3, SentFollows, TabStays, EditsKept
<1>5. CASE DeleteScenario
  <2>1. /\ UNCHANGED <<page, list, editor, edits>> /\ Room(net, 1) /\ OnForm
        /\ net' = Sent(net, "delete", page.slug)
    BY <1>5 DEF DeleteScenario, RoomToAct, EditorStep
  <2>2. TypedRequest(Request("delete", page.slug)) /\ "delete" \in Ops \ {"scenario"}
    BY <2>1, FormHasRow, RequestTyped DEF Ops, Mutations
  <2> QED
    BY <1>1, <2>1, <2>2, SentFollows, FormStays, ListKept, EditsKept
<1>6. CASE LeaveEditor
  <2>1. CASE Goto(ListRoute, net)
    <3>1. ListRoute \in Routes
      BY DEF ListRoute, Routes
    <3> QED
      BY <1>1, <1>6, <2>1, <3>1, NothingFollows, TabGoes DEF LeaveEditor
  <2>2. ASSUME NEW r \in Rows, Goto(RunRoute(page.slug, r), net) PROVE FormInv' /\ Survives
    <3>1. RunRoute(page.slug, r) \in Routes
      BY <1>6, PageSlug DEF LeaveEditor, OnEditor, Rows, RunRoute, Routes
    <3> QED
      BY <1>1, <1>6, <2>2, <3>1, NothingFollows, TabGoes DEF LeaveEditor
  <2> QED
    BY <1>6, <2>1, <2>2 DEF LeaveEditor
<1> QED
  BY <1>2, <1>3, <1>4, <1>5, <1>6 DEF EditorClick

LEMMA FormClick == ASSUME FormInv, Click \/ Poll PROVE FormInv' /\ Survives
<1>1. UNCHANGED serverVars
  BY PagesWriteNothing
<1>2. CASE Cancel \/ PollRun \/ PollHistory
  <2>1. UNCHANGED <<page, list, editor, edits, mishaps>> /\ Room(net, 1)
    BY <1>2 DEF Cancel, PollRun, PollHistory, RoomToAct, RunStep, EditorStep
  <2>2. \E op \in {"cancel", "run", "history"} : \E arg :
           net' = Sent(net, op, arg) /\ (op = "cancel" => arg \in Runs)
    BY <1>2 DEF Cancel, MayCancel, OnRun, PollRun, PollHistory, FormInv, Typed, Routes
  <2>3. ASSUME NEW op \in {"cancel", "run", "history"}, NEW arg, op = "cancel" => arg \in Runs
        PROVE  TypedRequest(Request(op, arg)) /\ op \in Ops \ {"scenario"}
    BY <2>3, RequestTyped DEF Ops, Mutations
  <2>4. Follows(net') /\ KeepsLeads(net')
    BY <2>1, <2>2, <2>3, SentFollows
  <2> QED
    BY <1>1, <2>1, <2>4, FormStays, ListKept, EditsKept
<1>3. CASE LeaveRun
  <2>1. EditorRoute(page.slug) \in Routes
    BY <1>3, PageSlug DEF LeaveRun, OnRun, EditorRoute, Routes
  <2> QED
    BY <1>3, <2>1, NothingFollows, TabGoes DEF LeaveRun
<1> QED
  BY <1>2, <1>3, FormListClick, FormEditorClick DEF Click, Poll

\* The page deals with q, and the editor keeps what TabStays asks for.
LEMMA AnswerTaken ==
    ASSUME FormInv, NEW q \in DOMAIN net, ~Leads(net[q]), net' = Done(q),
           UNCHANGED <<page, serverVars, mishaps, edits>>, ListTyped', EditorTyped',
           editor'.loading = editor.loading, editor'.loadError = editor.loadError,
           editor.scenario # None => editor'.scenario # None,
           Draft' = Draft \/ q \in Answered("save")
    PROVE  FormInv' /\ Survives
<1>1. Follows(net') /\ KeepsLeads(net') /\ q \notin DOMAIN net'
  BY DoneFollows DEF Done, Restrict
<1> QED
  BY <1>1, TabStays, EditsKept

LEMMA EditorKept ==
    ASSUME FormInv, UNCHANGED editor
    PROVE  /\ EditorTyped' /\ editor'.loading = editor.loading
           /\ editor'.loadError = editor.loadError /\ editor'.scenario = editor.scenario
           /\ Draft' = Draft
BY DEF FormInv, Typed, EditorTyped, Draft

LEMMA FormListAnswered == ASSUME FormInv, ListAnswered PROVE FormInv' /\ Survives
<1>1. PICK q \in DOMAIN net : ListLoaded(q) \/ Created(q)
  BY DEF ListAnswered
<1>2. TypedRequest(net[q])
  BY DEF FormInv, Typed, TypedNet
<1>3. CASE ListLoaded(q)
  <2>1. /\ net[q].op = "list" /\ net' = Done(q)
        /\ UNCHANGED <<page, serverVars, mishaps, edits, editor>>
    BY <1>3 DEF ListLoaded, Answered, ListStep
  <2>2. ListTyped'
    BY <1>2, <1>3, <2>1 DEF ListLoaded, TypedRequest, FormInv, Typed, ListTyped
  <2>3. ~Leads(net[q])
    BY <2>1 DEF Leads
  <2> QED
    BY <2>1, <2>2, <2>3, AnswerTaken, EditorKept
<1>4. CASE Created(q)
  <2>1. net[q].op = "create" /\ UNCHANGED <<serverVars, mishaps, edits>> /\ ~Leads(net[q])
    BY <1>4 DEF Created, Answered, Leads
  <2>2. CASE net[q].at = "ok"
    <3>1. EditorRoute(net[q].ans.slug) \in Routes
      BY <1>2, <2>1, <2>2 DEF TypedRequest, EditorRoute, Routes
    <3>2. Goto(EditorRoute(net[q].ans.slug), Done(q))
      BY <1>4, <2>2 DEF Created
    <3> QED
      BY <2>1, <3>1, <3>2, DoneFollows, TabGoes
  <2>3. CASE net[q].at # "ok"
    <3>1. net' = Done(q) /\ UNCHANGED <<page, list, editor>>
      BY <1>4, <2>3 DEF Created, pageVars
    <3> QED
      BY <2>1, <3>1, AnswerTaken, EditorKept, ListKept
  <2> QED
    BY <2>2, <2>3
<1> QED
  BY <1>1, <1>3, <1>4

\* applyScenario fills the form from a row.
LEMMA AppliedIs ==
    ASSUME EditorTyped, NEW new \in Content
    PROVE  LET e == Applied(editor, new)
           IN  /\ DOMAIN e = DOMAIN EditorInit /\ e.scenario = new /\ e.scenario # None
               /\ e.name \in Names /\ e.active \in BOOLEAN /\ e.runs = editor.runs
               /\ e.loading = editor.loading /\ e.loadError = editor.loadError
<1> DEFINE e == Applied(editor, new)
<1>1. /\ DOMAIN e = DOMAIN EditorInit /\ e.scenario = new
      /\ e.name = new.name /\ e.active = new.active /\ e.runs = editor.runs
      /\ e.loading = editor.loading /\ e.loadError = editor.loadError
  BY DEF Applied, EditorTyped, EditorInit
<1>2. new.name \in Names /\ new.active \in BOOLEAN /\ new # None
  BY NullIsNoRow DEF Content
<1> HIDE DEF e
<1>3. /\ DOMAIN e = DOMAIN EditorInit /\ e.scenario = new /\ e.scenario # None
      /\ e.name \in Names /\ e.active \in BOOLEAN /\ e.runs = editor.runs
      /\ e.loading = editor.loading /\ e.loadError = editor.loadError
  BY <1>1, <1>2
<1> QED
  BY <1>3 DEF e

\* The row arrives, once, on the page that waits for it.
LEMMA FormLoaded ==
    ASSUME FormInv, NEW q \in DOMAIN net, ScenarioLoaded(q)
    PROVE  FormInv' /\ Survives
<1>1. /\ net[q].op = "scenario" /\ net[q].at \in {"ok", "failed"} /\ net' = Done(q)
      /\ UNCHANGED <<page, serverVars, mishaps, edits, list>> /\ TypedRequest(net[q])
  BY DEF ScenarioLoaded, Answered, EditorStep, FormInv, Typed, TypedNet
<1>2. /\ OnEditor /\ editor.loading
      /\ \A p \in DOMAIN net : net[p].op = "scenario" => p = q
  BY <1>1 DEF FormInv, Loads
<1>3. Follows(net') /\ KeepsLeads(net')
  BY <1>1, DoneFollows DEF Leads
<1>4. DOMAIN net' = DOMAIN net \ {q} /\ \A p \in DOMAIN net' : net'[p] = net[p]
  BY <1>1 DEF Done, Restrict
<1>5. /\ EditorTyped' /\ ~editor'.loading
      /\ ~editor'.loadError => editor'.scenario # None /\ net[q].at = "ok"
  <2>1. CASE net[q].at = "ok"
    <3> DEFINE e == Applied(editor, net[q].ans)
    <3>1. net[q].ans \in Content /\ editor' = [e EXCEPT !.loading = FALSE]
      BY <1>1, <2>1 DEF ScenarioLoaded, TypedRequest
    <3>2. /\ DOMAIN e = DOMAIN EditorInit /\ e.scenario \in Content /\ e.scenario # None
          /\ e.name \in Names /\ e.active \in BOOLEAN /\ e.loadError = editor.loadError
          /\ e.runs = editor.runs
      BY <3>1, AppliedIs DEF FormInv, Typed
    <3> HIDE DEF e
    <3> QED
      BY <2>1, <3>1, <3>2 DEF FormInv, Typed, EditorTyped, EditorInit
  <2>2. CASE net[q].at # "ok"
    BY <2>2 DEF ScenarioLoaded, FormInv, Typed, EditorTyped, EditorInit
  <2> QED
    BY <2>1, <2>2
<1>6. Typed'
  <2>1. ListTyped' /\ edits' \in 0..MaxEdits
    BY <1>1, ListKept, EditsKept
  <2>2. TypedNet(net')
    BY <1>4 DEF FormInv, Typed, TypedNet
  <2> QED
    BY <1>1, <1>3, <1>5, <2>1, <2>2 DEF FormInv, Typed, RowsTyped, serverVars, Follows, Fits, TypedNet
<1>7. Loads'
  BY <1>2, <1>4, <1>5 DEF Loads
<1>8. HasForm' => HasForm
  BY <1>1, <1>2, <1>4, <1>5 DEF HasForm, OnEditor
<1>9. AtSlug(page.slug)' = AtSlug(page.slug)
  BY <1>1 DEF AtSlug, Exists, serverVars
<1>10. \A p \in DOMAIN net : Leads(net[p]) => p \in DOMAIN net' /\ Leads(net[p])'
  BY <1>1, <1>3 DEF KeepsLeads, Leads
<1>11. Addressed'
  BY <1>1, <1>8, <1>9, <1>10 DEF FormInv, Addressed
<1>12. ~OnForm
  BY <1>2 DEF OnForm, EditorView
<1> QED
  BY <1>6, <1>7, <1>11, <1>12 DEF FormInv, Survives

LEMMA FormSaved ==
    ASSUME FormInv, NEW q \in DOMAIN net, Saved(q)
    PROVE  FormInv' /\ Survives
<1>1. /\ net[q].op = "save" /\ q \in Answered("save") /\ TypedRequest(net[q])
      /\ UNCHANGED <<serverVars, mishaps, edits>>
  BY DEF Saved, Answered, FormInv, Typed, TypedNet
<1>2. CASE net[q].at = "ok" /\ net[q].ans.slug # net[q].arg.slug
  <2>1. Goto(EditorRoute(net[q].ans.slug), Done(q))
    BY <1>2 DEF Saved
  <2>2. EditorRoute(net[q].ans.slug) \in Routes
    BY <1>1, <1>2 DEF TypedRequest, Content, EditorRoute, Routes
  <2>3. EditorRoute(net[q].ans.slug) = page => ~Leads(net[q])
    BY <1>1 DEF EditorRoute, Leads
  <2> QED
    BY <1>1, <2>1, <2>2, <2>3, DoneFollows, TabGoes
<1>3. CASE ~(net[q].at = "ok" /\ net[q].ans.slug # net[q].arg.slug)
  <2>1. /\ net' = Done(q) /\ UNCHANGED <<page, list>>
        /\ editor' = IF ~net[q].home THEN editor
                     ELSE IF net[q].at = "ok"
                       THEN [Applied(editor, net[q].ans) EXCEPT !.saving = FALSE]
                       ELSE [editor EXCEPT !.saving = FALSE]
    BY <1>3 DEF Saved
  <2>2. ~Leads(net[q])
    BY <1>1, <1>3 DEF Leads
  <2>3. /\ EditorTyped' /\ editor'.loading = editor.loading
        /\ editor'.loadError = editor.loadError
        /\ editor.scenario # None => editor'.scenario # None
    <3>1. CASE editor' = editor
      BY <3>1, EditorKept
    <3>2. CASE editor' = [editor EXCEPT !.saving = FALSE]
      BY <3>2 DEF FormInv, Typed, EditorTyped, EditorInit
    <3>3. CASE net[q].at = "ok" /\ editor' = [Applied(editor, net[q].ans) EXCEPT !.saving = FALSE]
      <4> DEFINE e == Applied(editor, net[q].ans)
      <4>1. net[q].ans \in Content /\ editor' = [e EXCEPT !.saving = FALSE]
        BY <1>1, <3>3 DEF TypedRequest
      <4>2. /\ DOMAIN e = DOMAIN EditorInit /\ e.scenario \in Content /\ e.scenario # None
            /\ e.name \in Names /\ e.active \in BOOLEAN /\ e.runs = editor.runs
            /\ e.loading = editor.loading /\ e.loadError = editor.loadError
        BY <4>1, AppliedIs DEF FormInv, Typed
      <4> HIDE DEF e
      <4> QED
        BY <4>1, <4>2 DEF FormInv, Typed, EditorTyped, EditorInit
    <3> QED
      BY <2>1, <3>1, <3>2, <3>3
  <2>4. ListTyped'
    BY <2>1, ListKept
  <2> QED
    BY <1>1, <2>1, <2>2, <2>3, <2>4, AnswerTaken
<1> QED
  BY <1>2, <1>3

\* A button is free again: nothing else of the editor changes.
LEMMA ButtonFree ==
    ASSUME FormInv, editor' = editor \/ editor' = [editor EXCEPT !.triggering = FALSE]
    PROVE  /\ EditorTyped' /\ editor'.loading = editor.loading
           /\ editor'.loadError = editor.loadError /\ editor'.scenario = editor.scenario
           /\ Draft' = Draft
BY DEF FormInv, Typed, EditorTyped, EditorInit, Draft

LEMMA FormEditorAnswered == ASSUME FormInv, EditorAnswered PROVE FormInv' /\ Survives
<1>1. PICK q \in DOMAIN net : ScenarioLoaded(q) \/ Saved(q) \/ Triggered(q) \/ Deleted(q)
  BY DEF EditorAnswered
<1>2. CASE Triggered(q)
  <2>1. /\ net[q].op = "trigger" /\ UNCHANGED <<page, serverVars, mishaps, edits, list>>
        /\ ~Leads(net[q]) /\ ListTyped' /\ edits' \in 0..MaxEdits
    BY <1>2, ListKept, EditsKept DEF Triggered, Answered, EditorStep, Leads
  <2>2. CASE net' = Sent(Done(q), "history", "trigger") /\ UNCHANGED editor
    <3>1. TypedRequest(Request("history", "trigger")) /\ "history" \in Ops \ {"scenario"}
      BY RequestTyped DEF Ops
    <3>2. Follows(net') /\ KeepsLeads(net')
      BY <2>1, <2>2, <3>1, SwapFollows
    <3> QED
      BY <2>1, <2>2, <3>2, FormStays
  <2>3. CASE net' = Done(q) /\ (editor' = editor \/ editor' = [editor EXCEPT !.triggering = FALSE])
    BY <2>1, <2>3, ButtonFree, AnswerTaken
  <2> QED
    BY <1>2, <2>2, <2>3 DEF Triggered
<1>3. CASE Deleted(q)
  <2>1. net[q].op = "delete" /\ UNCHANGED <<serverVars, mishaps, edits>>
    BY <1>3 DEF Deleted, Answered
  <2>2. CASE net[q].at = "ok"
    <3>1. Goto(ListRoute, Done(q)) /\ ListRoute \in Routes /\ ~(ListRoute = page /\ OnEditor)
      BY <1>3, <2>2 DEF Deleted, ListRoute, Routes, OnEditor
    <3> QED
      BY <2>1, <3>1, DoneFollows, TabGoes
  <2>3. CASE net[q].at # "ok"
    <3>1. net' = Done(q) /\ UNCHANGED <<page, list, editor>> /\ ~Leads(net[q])
      BY <1>3, <2>3 DEF Deleted, pageVars, Leads
    <3> QED
      BY <2>1, <3>1, AnswerTaken, EditorKept, ListKept
  <2> QED
    BY <2>2, <2>3
<1> QED
  BY <1>1, <1>2, <1>3, FormLoaded, FormSaved

\* The history, and the page of a run, touch neither the form nor the dialog.
LEMMA FormHistory == ASSUME FormInv, HistoryAnswered PROVE FormInv' /\ Survives
<1>1. PICK q \in DOMAIN net : HistoryLoaded(q)
  BY DEF HistoryAnswered
<1>2. /\ net[q].op = "history" /\ net' = Done(q) /\ ListTyped' /\ ~Leads(net[q])
      /\ UNCHANGED <<page, serverVars, mishaps, edits, list>>
  BY <1>1, ListKept DEF HistoryLoaded, Answered, EditorStep, Leads
<1> DEFINE after == [editor EXCEPT !.triggering = IF net[q].arg = "trigger" THEN FALSE ELSE @]
<1>3. /\ DOMAIN after = DOMAIN EditorInit /\ after.loading = editor.loading
      /\ after.loadError = editor.loadError /\ after.scenario = editor.scenario
      /\ after.name = editor.name /\ after.active = editor.active
      /\ after.steps = editor.steps /\ after.variables = editor.variables
      /\ after.runs = editor.runs
  BY DEF FormInv, Typed, EditorTyped, EditorInit
<1>4. \/ editor' = after
      \/ /\ editor' = [after EXCEPT !.runs = net[q].ans, !.timer = InFlight(net[q].ans)]
         /\ net[q].ans \in [Runs -> Lifecycle!Visible \cup {"none"}]
  <2>1. TypedRequest(net[q])
    BY DEF FormInv, Typed, TypedNet
  <2> QED
    BY <1>1, <1>2, <2>1 DEF HistoryLoaded, WithRuns, TypedRequest
<1> HIDE DEF after
<1>5. /\ DOMAIN editor' = DOMAIN EditorInit /\ editor'.loading = editor.loading
      /\ editor'.loadError = editor.loadError /\ editor'.scenario = editor.scenario
      /\ editor'.name = editor.name /\ editor'.active = editor.active
      /\ editor'.steps = editor.steps /\ editor'.variables = editor.variables
      /\ editor'.runs \in [Runs -> Lifecycle!Visible \cup {"none"}]
  <2>1. CASE editor' = after
    BY <1>3, <2>1 DEF FormInv, Typed, EditorTyped
  <2>2. CASE /\ editor' = [after EXCEPT !.runs = net[q].ans, !.timer = InFlight(net[q].ans)]
             /\ net[q].ans \in [Runs -> Lifecycle!Visible \cup {"none"}]
    <3> HIDE DEF InFlight
    <3> QED
      BY <1>3, <2>2 DEF EditorInit
  <2> QED
    BY <1>4, <2>1, <2>2
<1>6. EditorTyped' /\ Draft' = Draft
  BY <1>5 DEF FormInv, Typed, EditorTyped, Draft
<1> QED
  BY <1>2, <1>5, <1>6, AnswerTaken

LEMMA FormRun == ASSUME FormInv, RunAnswered PROVE FormInv' /\ Survives
<1>1. PICK q \in DOMAIN net : RunLoaded(q) \/ Cancelled(q)
  BY DEF RunAnswered
<1>2. /\ net[q].op \in {"run", "cancel"} /\ ListTyped' /\ ~Leads(net[q])
      /\ UNCHANGED <<page, serverVars, mishaps, edits, list, editor>>
  BY <1>1, ListKept DEF RunLoaded, Cancelled, Answered, RunStep, Leads
<1>3. CASE net' = Done(q)
  BY <1>2, <1>3, AnswerTaken, EditorKept
<1>4. CASE net' = Sent(Done(q), "run", "cancel")
  <2>1. TypedRequest(Request("run", "cancel")) /\ "run" \in Ops \ {"scenario"}
    BY RequestTyped DEF Ops
  <2>2. Follows(net') /\ KeepsLeads(net')
    BY <1>2, <1>4, <2>1, SwapFollows
  <2> QED
    BY <1>2, <2>2, FormStays, EditsKept
<1> QED
  BY <1>1, <1>3, <1>4 DEF RunLoaded, Cancelled

-----------------------------------------------------------------------------
(* The actions of the server, and of everybody else.                       *)

\* The answer, or the pick, is one that the page of q, or the write, can take.
Takes(q, at, ans) ==
    /\ at \in {"picked", "ok", "failed"}
    /\ at = "picked" =>
          /\ net[q].op \in {"create", "save"}
          /\ net[q].op = "create" => ans \in Slugs
          /\ net[q].op = "save" => /\ ans.id \in Scenarios /\ ans.was \in Content
                                   /\ ans.new \in Content /\ ans.was.slug = net[q].arg.slug
    /\ at = "ok" =>
          /\ net[q].op = "create" => ans.slug \in Slugs
          /\ net[q].op \in {"save", "scenario"} => ans \in Content
          /\ net[q].op = "list" => \A g \in ans : g.slug \in Slugs
          /\ net[q].op = "history" => ans \in [Runs -> Lifecycle!Visible \cup {"none"}]
          /\ net[q].op = "run" => ans \in Lifecycle!Visible

LeadsWith(q, at, ans) ==
    /\ at = "ok"
    /\ \/ net[q].op = "delete"
       \/ net[q].op = "save" /\ ans.slug \notin {net[q].arg.slug, page.slug}

\* The server moves q along.  Without a mishap, the row of an editor only goes away
\* with an answer that leads the tab elsewhere.
LEMMA FormServed ==
    ASSUME FormInv, UNCHANGED <<page, pageVars, edits>>, mishaps' \in 0..MaxMishaps, RowsTyped',
           NEW q \in DOMAIN net, NEW at, NEW ans, net' = Moved(q, at, ans), net[q].at # "ok",
           Takes(q, at, ans),
           mishaps' = 0 /\ OnEditor =>
               /\ mishaps = 0
               /\ AtSlug(page.slug)' = {} => AtSlug(page.slug) = {} \/ LeadsWith(q, at, ans)
               /\ at = "ok" /\ net[q].op = "scenario" => AtSlug(page.slug)' # {}
    PROVE  FormInv' /\ Survives
<1>1. TypedNet(net) /\ TypedRequest(net[q])
  BY DEF FormInv, Typed, TypedNet
<1>2. /\ DOMAIN net' = DOMAIN net /\ \A p \in DOMAIN net : p # q => net'[p] = net[p]
      /\ DOMAIN net'[q] = Fields /\ net'[q].op = net[q].op /\ net'[q].home = net[q].home
      /\ net'[q].arg = net[q].arg /\ net'[q].at = at /\ net'[q].ans = ans
  BY <1>1, MovedOne DEF TypedRequest
<1>3. TypedRequest(net'[q])
  BY <1>1, <1>2 DEF TypedRequest, Takes, Stages
<1>4. TypedNet(net')
  BY <1>1, <1>2, <1>3 DEF TypedNet
<1>5. Typed'
  BY <1>2, <1>4 DEF FormInv, Typed, TypedNet, ListTyped, EditorTyped, Fits, pageVars
<1>6. \A p \in DOMAIN net : net'[p].op = net[p].op /\ net'[p].arg = net[p].arg
  BY <1>2
<1>7. Loads'
  BY <1>2, <1>6 DEF FormInv, Loads, OnEditor, pageVars
<1>8. Addressed'
  <2> SUFFICES ASSUME mishaps' = 0, HasForm', AtSlug(page.slug)' = {}
               PROVE  \E p \in DOMAIN net' : Leads(net[p])'
    BY DEF Addressed
  <2>1. OnEditor
    BY DEF HasForm, OnEditor
  <2>2. CASE LeadsWith(q, at, ans)
    BY <1>2, <2>2 DEF LeadsWith, Leads
  <2>3. CASE AtSlug(page.slug) = {}
    <3>1. HasForm
      BY <1>2, <2>1 DEF HasForm, OnEditor, pageVars
    <3>2. PICK p \in DOMAIN net : Leads(net[p])
      BY <2>1, <2>3, <3>1 DEF FormInv, Addressed
    <3>3. net'[p] = net[p]
      BY <1>2, <3>2 DEF Leads
    <3> QED
      BY <1>2, <3>2, <3>3 DEF Leads
  <2> QED
    BY <2>1, <2>2, <2>3
<1>9. Survives
  BY DEF Survives, OnForm, OnEditor, EditorView, Draft, pageVars
<1> QED
  BY <1>5, <1>7, <1>8, <1>9 DEF FormInv

\* Nothing in flight is answered.  Without a mishap the slug on screen stays taken.
LEMMA FormUntouched ==
    ASSUME FormInv, UNCHANGED <<page, net, pageVars, edits>>, mishaps' \in 0..MaxMishaps, RowsTyped',
           mishaps' = 0 => mishaps = 0 /\ AtSlug(page.slug)' = AtSlug(page.slug)
    PROVE  FormInv' /\ Survives
<1>1. Typed'
  BY DEF FormInv, Typed, TypedNet, ListTyped, EditorTyped, Fits, pageVars
<1>2. Loads'
  BY DEF FormInv, Loads, OnEditor, pageVars
<1>3. Addressed'
  BY DEF FormInv, Addressed, HasForm, OnEditor, Leads, pageVars
<1> QED
  BY <1>1, <1>2, <1>3 DEF FormInv, Survives

\* A refusal needs no row, and leaves the rows as they are.
LEMMA FormRefused ==
    ASSUME FormInv, UNCHANGED <<page, pageVars, edits>>, mishaps' \in 0..MaxMishaps, RowsTyped',
           NEW q \in DOMAIN net, Refuse(q), net[q].at # "ok",
           mishaps' # 0 \/ (UNCHANGED <<row, mishaps>>)
    PROVE  FormInv' /\ Survives
<1>1. net' = Moved(q, "failed", None) /\ Takes(q, "failed", None)
  BY DEF Refuse, Takes
<1>2. mishaps' = 0 => mishaps = 0 /\ AtSlug(page.slug)' = AtSlug(page.slug)
  BY DEF AtSlug, Exists
<1> QED
  BY <1>1, <1>2, FormServed

\* What is carried out, and answered unless the answer gets lost.
LEMMA FormCarried ==
    ASSUME FormInv, UNCHANGED <<page, pageVars, edits>>, RowsTyped',
           NEW q \in DOMAIN net, NEW ans, Carry(q, ans), net[q].at # "ok", net[q].op # "scenario",
           Takes(q, "ok", ans),
           OnEditor /\ AtSlug(page.slug)' = {} => AtSlug(page.slug) = {} \/ LeadsWith(q, "ok", ans)
    PROVE  FormInv' /\ Survives
<1>1. mishaps \in 0..MaxMishaps /\ MaxMishaps \in Nat
  BY TabAssumption DEF FormInv, Typed
<1>2. CASE Reply(q, ans) /\ UNCHANGED mishaps
  BY <1>1, <1>2, FormServed DEF Reply
<1>3. CASE mishaps < MaxMishaps /\ mishaps' = mishaps + 1 /\ Refuse(q)
  BY <1>1, <1>3, FormRefused
<1> QED
  BY <1>2, <1>3 DEF Carry

LEMMA FormRead ==
    ASSUME FormInv, VerdictInv, NEW q \in DOMAIN net, Read(q)
    PROVE  FormInv' /\ Survives
<1>1. /\ UNCHANGED <<page, mishaps, serverVars, pageVars, edits>> /\ net[q].at = "sent"
      /\ TypedRequest(net[q]) /\ RowsTyped
  BY DEF Read, FormInv, Typed, TypedNet
<1>2. mishaps' \in 0..MaxMishaps /\ RowsTyped' /\ AtSlug(page.slug)' = AtSlug(page.slug)
  BY <1>1 DEF FormInv, Typed, RowsTyped, serverVars, AtSlug, Exists
<1>3. ASSUME NEW ans, Reply(q, ans), Takes(q, "ok", ans),
             net[q].op = "scenario" /\ OnEditor => AtSlug(page.slug) # {}
      PROVE  FormInv' /\ Survives
  BY <1>1, <1>2, <1>3, FormServed DEF Reply
<1>4. CASE Refuse(q)
  BY <1>1, <1>2, <1>4, FormRefused DEF serverVars
<1>5. CASE net[q].op = "list" /\ ListAnswer(q)
  <2> DEFINE ans == {[slug |-> row[s].slug] : s \in {t \in Scenarios : Exists(t)}}
  <2>1. Reply(q, ans)
    BY <1>5 DEF ListAnswer
  <2>2. \A g \in ans : g.slug \in Slugs
    BY <1>1 DEF RowsTyped, Exists, Content
  <2> HIDE DEF ans
  <2>3. Takes(q, "ok", ans)
    BY <1>5, <2>2 DEF Takes
  <2> QED
    BY <1>3, <1>5, <2>1, <2>3
<1>6. CASE net[q].op = "scenario" /\ ScenarioAnswer(q)
  <2>1. PICK s \in AtSlug(net[q].arg) : Reply(q, row[s])
    BY <1>6 DEF ScenarioAnswer
  <2>2. row[s] \in Content /\ AtSlug(net[q].arg) # {}
    BY <1>1, <2>1 DEF AtSlug, Exists, RowsTyped
  <2>3. net[q].arg = page.slug
    BY <1>6 DEF FormInv, Loads
  <2>4. Takes(q, "ok", row[s])
    BY <1>6, <2>2 DEF Takes
  <2> QED
    BY <1>3, <2>1, <2>2, <2>3, <2>4
<1>7. CASE net[q].op = "history" /\ HistoryAnswer(q)
  <2> DEFINE ans(s) == [r \in Runs |-> IF r \in RunsOf(s) /\ status[r] # "gone"
                                         THEN status[r] ELSE "none"]
  <2>1. PICK s \in AtSlug(page.slug) : Reply(q, ans(s))
    BY <1>7 DEF HistoryAnswer
  <2>2. ans(s) \in [Runs -> Lifecycle!Visible \cup {"none"}]
    BY <1>1 DEF RowsTyped, Lifecycle!Statuses
  <2> HIDE DEF ans
  <2>3. Takes(q, "ok", ans(s))
    BY <1>7, <2>2 DEF Takes
  <2> QED
    BY <1>3, <1>7, <2>1, <2>3
<1>8. CASE net[q].op = "run" /\ RunAnswer(q)
  <2>1. Reply(q, status[page.run]) /\ status[page.run] \notin {"none", "gone"}
    BY <1>8 DEF RunAnswer
  <2>2. page.run \in Runs
    BY <1>8 DEF VerdictInv, NetSound, Sound, OnRun, FormInv, Typed, Routes
  <2>3. Takes(q, "ok", status[page.run])
    BY <1>1, <1>8, <2>1, <2>2 DEF Takes, RowsTyped, Lifecycle!Statuses
  <2> QED
    BY <1>3, <1>8, <2>1, <2>3
<1> QED
  BY <1>4, <1>5, <1>6, <1>7, <1>8 DEF Read

\* One row is written.
LEMMA RowTyped ==
    ASSUME RowsTyped, NEW s \in Scenarios, NEW new \in Content \cup {None},
           row' = [row EXCEPT ![s] = new], status' \in [Runs -> Lifecycle!Statuses]
    PROVE  RowsTyped'
BY DEF RowsTyped

LEMMA StatusTyped ==
    ASSUME RowsTyped, NEW r, NEW from, NEW to \in Lifecycle!Statuses,
           Lifecycle!Move(r, from, to)
    PROVE  status' \in [Runs -> Lifecycle!Statuses]
BY DEF RowsTyped, Lifecycle!Move

LEMMA DeletedTyped == ASSUME RowsTyped, NEW s \in Scenarios, Delete(s) PROVE RowsTyped'
<1>1. row' = [row EXCEPT ![s] = None]
  BY DEF Delete
<1>2. status' \in [Runs -> Lifecycle!Statuses]
  BY DEF Delete, RowsTyped, Lifecycle!Statuses
<1> QED
  BY <1>1, <1>2, RowTyped

LEMMA SavedSlug ==
    ASSUME RowsTyped, NEW s \in Scenarios, Exists(s), NEW n \in Names
    PROVE  SlugAfter(s, n) \in Slugs
BY AllocatedIsSlug DEF RowsTyped, Exists, Content, SlugAfter

\* A row is only taken from the slug it had.
LEMMA OthersStay ==
    ASSUME RowsTyped, NEW s \in Scenarios, NEW new, row' = [row EXCEPT ![s] = new],
           NEW g, AtSlug(g)' = {}
    PROVE  AtSlug(g) = {} \/ (Exists(s) /\ row[s].slug = g /\ (new = None \/ new.slug # g))
BY DEF RowsTyped, AtSlug, Exists

LEMMA FormCreate ==
    ASSUME FormInv, NEW q \in DOMAIN net, CreatePick(q) \/ CreateInsert(q)
    PROVE  FormInv' /\ Survives
<1>1. net[q].op = "create" /\ UNCHANGED <<page, pageVars, edits, status>> /\ RowsTyped
      /\ net[q].at \in {"sent", "picked"} /\ TypedRequest(net[q]) /\ mishaps \in 0..MaxMishaps
  BY DEF CreatePick, CreateInsert, FormInv, Typed, TypedNet, serverVars
<1>2. CASE CreatePick(q)
  <2>1. /\ net' = Moved(q, "picked", AllocateSlug(net[q].arg)) /\ UNCHANGED <<row, mishaps>>
    BY <1>2 DEF CreatePick, serverVars
  <2>2. AllocateSlug(net[q].arg) \in Slugs
    BY <1>1, AllocatedIsSlug DEF TypedRequest
  <2> HIDE DEF AllocateSlug
  <2>3. Takes(q, "picked", AllocateSlug(net[q].arg))
    BY <1>1, <2>2 DEF Takes
  <2>4. RowsTyped' /\ AtSlug(page.slug)' = AtSlug(page.slug) /\ mishaps' \in 0..MaxMishaps
    BY <1>1, <2>1 DEF RowsTyped, AtSlug, Exists
  <2> QED
    BY <1>1, <2>1, <2>3, <2>4, FormServed
<1>3. CASE CreateInsert(q)
  <2>1. CASE Refuse(q) /\ UNCHANGED <<row, mishaps>>
    BY <1>1, <2>1, FormRefused DEF RowsTyped
  <2>2. ASSUME NEW s \in Scenarios, ~Exists(s),
               row' = [row EXCEPT ![s] = [slug |-> net[q].ans, name |-> net[q].arg, active |-> TRUE]],
               Carry(q, [slug |-> net[q].ans]), net[q].at = "picked"
        PROVE  FormInv' /\ Survives
    <3> DEFINE new == [slug |-> net[q].ans, name |-> net[q].arg, active |-> TRUE]
               ans == [slug |-> net[q].ans]
    <3>1. net[q].ans \in Slugs /\ net[q].arg \in Names
      BY <1>1, <2>2 DEF TypedRequest
    <3>2. new \in Content
      BY <3>1 DEF Content
    <3>3. ans.slug \in Slugs
      BY <3>1
    <3>4. row' = [row EXCEPT ![s] = new] /\ Carry(q, ans)
      BY <2>2
    <3> HIDE DEF new, ans
    <3>5. RowsTyped'
      BY <1>1, <3>2, <3>4, RowTyped DEF RowsTyped
    <3>6. AtSlug(page.slug)' = {} => AtSlug(page.slug) = {}
      BY <1>1, <2>2, <3>4, OthersStay
    <3>7. Takes(q, "ok", ans)
      BY <1>1, <3>3 DEF Takes
    <3> QED
      BY <1>1, <2>2, <3>4, <3>5, <3>6, <3>7, FormCarried
  <2> QED
    BY <1>3, <2>1, <2>2 DEF CreateInsert, Unused
<1> QED
  BY <1>2, <1>3

LEMMA FormSavePick == ASSUME FormInv, NEW q \in DOMAIN net, SavePick(q) PROVE FormInv' /\ Survives
<1>1. /\ net[q].op = "save" /\ net[q].at = "sent" /\ UNCHANGED <<page, mishaps, serverVars, pageVars, edits>>
      /\ RowsTyped /\ TypedRequest(net[q]) /\ mishaps \in 0..MaxMishaps
  BY DEF SavePick, FormInv, Typed, TypedNet
<1>2. RowsTyped' /\ mishaps' \in 0..MaxMishaps /\ AtSlug(page.slug)' = AtSlug(page.slug)
  BY <1>1 DEF RowsTyped, serverVars, AtSlug, Exists
<1>3. CASE Refuse(q)
  BY <1>1, <1>2, <1>3, FormRefused DEF serverVars
<1>4. ASSUME NEW s \in AtSlug(net[q].arg.slug), NEW new,
             new = [net[q].arg EXCEPT !.slug = SlugAfter(s, net[q].arg.name)],
             net' = Moved(q, "picked", [id |-> s, was |-> row[s], new |-> new])
      PROVE  FormInv' /\ Survives
  <2>1. /\ s \in Scenarios /\ Exists(s) /\ row[s].slug = net[q].arg.slug
        /\ row[s] \in Content /\ net[q].arg \in Content
    BY <1>1 DEF AtSlug, Exists, RowsTyped, TypedRequest
  <2>2. SlugAfter(s, net[q].arg.name) \in Slugs
    BY <1>1, <2>1, SavedSlug DEF Content
  <2> HIDE DEF SlugAfter
  <2>3. new \in Content
    BY <1>4, <2>1, <2>2 DEF Content
  <2> DEFINE pick == [id |-> s, was |-> row[s], new |-> new]
  <2>4. pick.id = s /\ pick.was = row[s] /\ pick.new = new /\ net' = Moved(q, "picked", pick)
    BY <1>4
  <2> HIDE DEF pick
  <2>5. Takes(q, "picked", pick)
    BY <1>1, <2>1, <2>3, <2>4 DEF Takes
  <2> QED
    BY <1>1, <1>2, <2>4, <2>5, FormServed
<1> QED
  BY <1>1, <1>3, <1>4 DEF SavePick

\* What is written is a row, and its slug is the one in the table or a new one.
LEMMA MergedIs ==
    ASSUME NEW now \in Content, NEW was \in Content, NEW new \in Content
    PROVE  /\ Merged(now, was, new) \in Content
           /\ Merged(now, was, new).slug \in {now.slug} \cup ({new.slug} \ {was.slug})
<1> DEFINE m == Merged(now, was, new)
<1>1. DOMAIN now = Columns
  BY DEF Content, Columns
<1>2. m = [c \in Columns |-> IF new[c] = was[c] THEN now[c] ELSE new[c]]
  BY <1>1 DEF Merged
<1>3. m = [slug |-> IF new.slug = was.slug THEN now.slug ELSE new.slug,
           name |-> IF new.name = was.name THEN now.name ELSE new.name,
           active |-> IF new.active = was.active THEN now.active ELSE new.active]
  BY <1>2 DEF Columns
<1> HIDE DEF m
<1>4. m \in Content /\ m.slug \in {now.slug} \cup ({new.slug} \ {was.slug})
  BY <1>3 DEF Content
<1> QED
  BY <1>4 DEF m

LEMMA FormSaveWrite == ASSUME FormInv, NEW q \in DOMAIN net, SaveWrite(q) PROVE FormInv' /\ Survives
<1>1. /\ net[q].op = "save" /\ net[q].at = "picked" /\ UNCHANGED <<page, pageVars, edits, status>>
      /\ RowsTyped /\ TypedRequest(net[q]) /\ mishaps \in 0..MaxMishaps
  BY DEF SaveWrite, FormInv, Typed, TypedNet
<1> DEFINE s   == net[q].ans.id
           new == Merged(row[s], net[q].ans.was, net[q].ans.new)
<1>2. CASE Refuse(q) /\ UNCHANGED <<row, mishaps>>
  BY <1>1, <1>2, FormRefused DEF RowsTyped
<1>3. CASE Exists(s) /\ row' = [row EXCEPT ![s] = new] /\ Carry(q, new)
  <2>1. /\ s \in Scenarios /\ row[s] \in Content /\ net[q].ans.was.slug = net[q].arg.slug
        /\ net[q].ans.was \in Content /\ net[q].ans.new \in Content
    BY <1>1, <1>3 DEF Exists, RowsTyped, TypedRequest
  <2>2. new \in Content /\ new.slug \in {row[s].slug} \cup ({net[q].ans.new.slug} \ {net[q].arg.slug})
    BY <2>1, MergedIs
  <2> HIDE DEF new, s
  <2>3. new # None
    BY <2>2, NullIsNoRow
  <2>4. RowsTyped'
    BY <1>1, <1>3, <2>1, <2>2, RowTyped DEF RowsTyped
  <2>5. AtSlug(page.slug)' = {} => AtSlug(page.slug) = {} \/ LeadsWith(q, "ok", new)
    <3>1. AtSlug(page.slug)' = {} =>
            AtSlug(page.slug) = {} \/ (row[s].slug = page.slug /\ new.slug # page.slug)
      BY <1>1, <1>3, <2>1, <2>3, OthersStay
    <3> QED
      BY <1>1, <2>2, <3>1 DEF LeadsWith
  <2>6. Takes(q, "ok", new)
    BY <1>1, <2>2 DEF Takes
  <2> QED
    BY <1>1, <1>3, <2>4, <2>5, <2>6, FormCarried
<1> QED
  BY <1>2, <1>3 DEF SaveWrite

\* A run is queued or cancelled: no row changes.
LEMMA FormRunCarried ==
    ASSUME FormInv, NEW q \in DOMAIN net, TriggerAnswer(q) \/ CancelAnswer(q)
    PROVE  FormInv' /\ Survives
<1>1. /\ net[q].op \in {"trigger", "cancel"} /\ net[q].at = "sent"
      /\ UNCHANGED <<page, pageVars, edits, row>> /\ RowsTyped
  BY DEF TriggerAnswer, CancelAnswer, FormInv, Typed
<1>2. AtSlug(page.slug)' = AtSlug(page.slug) /\ Takes(q, "ok", None) /\ mishaps \in 0..MaxMishaps
  BY <1>1 DEF AtSlug, Exists, Takes, FormInv, Typed
<1>3. \/ Refuse(q) /\ UNCHANGED <<status, mishaps>>
      \/ Carry(q, None) /\ \E r, from : \E to \in {"pending", "cancelled"} : Lifecycle!Move(r, from, to)
  BY DEF TriggerAnswer, CancelAnswer, Lifecycle!Submit
<1>4. CASE Refuse(q) /\ UNCHANGED <<status, mishaps>>
  BY <1>1, <1>2, <1>4, FormRefused DEF RowsTyped
<1>5. ASSUME Carry(q, None), NEW r, NEW from, NEW to \in {"pending", "cancelled"},
             Lifecycle!Move(r, from, to)
      PROVE  FormInv' /\ Survives
  <2>1. to \in Lifecycle!Statuses
    BY DEF Lifecycle!Statuses, Lifecycle!Visible, Lifecycle!Terminal
  <2>2. RowsTyped'
    BY <1>1, <1>5, <2>1, StatusTyped DEF RowsTyped
  <2> QED
    BY <1>1, <1>2, <1>5, <2>2, FormCarried
<1> QED
  BY <1>3, <1>4, <1>5

LEMMA FormDelete == ASSUME FormInv, NEW q \in DOMAIN net, DeleteAnswer(q) PROVE FormInv' /\ Survives
<1>1. /\ net[q].op = "delete" /\ net[q].at = "sent" /\ UNCHANGED <<page, pageVars, edits>>
      /\ RowsTyped /\ mishaps \in 0..MaxMishaps
  BY DEF DeleteAnswer, FormInv, Typed
<1>2. CASE Refuse(q) /\ UNCHANGED <<serverVars, mishaps>>
  BY <1>1, <1>2, FormRefused DEF RowsTyped, serverVars
<1>3. ASSUME NEW s \in AtSlug(net[q].arg), Delete(s), Carry(q, None) PROVE FormInv' /\ Survives
  <2>1. RowsTyped'
    BY <1>1, <1>3, DeletedTyped DEF AtSlug
  <2>2. Takes(q, "ok", None) /\ LeadsWith(q, "ok", None)
    BY <1>1 DEF Takes, LeadsWith
  <2> QED
    BY <1>1, <1>3, <2>1, <2>2, FormCarried
<1> QED
  BY <1>2, <1>3 DEF DeleteAnswer

LEMMA FormServer ==
    ASSUME FormInv, VerdictInv, ReadStep \/ WriteStep
    PROVE  FormInv' /\ Survives
BY FormRead, FormCreate, FormSavePick, FormSaveWrite, FormRunCarried, FormDelete DEF ReadStep, WriteStep

LEMMA FormOthers == ASSUME FormInv, OtherStep PROVE FormInv' /\ Survives
<1>1. /\ UNCHANGED <<page, net, pageVars, edits>> /\ RowsTyped
      /\ mishaps' \in 0..MaxMishaps /\ mishaps' # 0
  BY TabAssumption DEF OtherStep, FormInv, Typed
<1>2. SUFFICES RowsTyped'
  BY <1>1, FormUntouched
<1>3. PICK s \in Scenarios :
         \/ \E n \in Names : OtherRename(s, n) \/ OtherCreate(s, n)
         \/ OtherDelete(s) \/ OtherToggle(s) \/ OtherTrigger(s)
  BY DEF OtherStep
<1>4. ASSUME NEW n \in Names, OtherRename(s, n) PROVE RowsTyped'
  <2>1. Exists(s) /\ row' = [row EXCEPT ![s].slug = SlugAfter(s, n), ![s].name = n] /\ UNCHANGED status
    BY <1>4 DEF OtherRename
  <2>2. SlugAfter(s, n) \in Slugs
    BY <1>1, <2>1, SavedSlug
  <2>3. row[s] \in Content
    BY <1>1, <2>1 DEF RowsTyped, Exists
  <2> HIDE DEF SlugAfter
  <2> DEFINE new == [row[s] EXCEPT !.slug = SlugAfter(s, n), !.name = n]
  <2>4. new \in Content
    BY <2>2, <2>3 DEF Content
  <2>5. row' = [row EXCEPT ![s] = new]
    BY <1>1, <2>1 DEF RowsTyped
  <2> HIDE DEF new
  <2> QED
    BY <1>1, <2>1, <2>4, <2>5, RowTyped DEF RowsTyped
<1>5. ASSUME NEW n \in Names, OtherCreate(s, n) PROVE RowsTyped'
  <2> DEFINE new == [slug |-> AllocateSlug(n), name |-> n, active |-> TRUE]
  <2>1. row' = [row EXCEPT ![s] = new] /\ UNCHANGED status
    BY <1>5 DEF OtherCreate
  <2>2. AllocateSlug(n) \in Slugs
    BY AllocatedIsSlug
  <2> HIDE DEF AllocateSlug
  <2>3. new \in Content
    BY <2>2 DEF Content
  <2> HIDE DEF new
  <2> QED
    BY <1>1, <2>1, <2>3, RowTyped DEF RowsTyped
<1>6. CASE OtherDelete(s)
  BY <1>1, <1>6, DeletedTyped DEF OtherDelete
<1>7. CASE OtherToggle(s)
  <2> DEFINE new == [row[s] EXCEPT !.active = ~@]
  <2>1. row[s] \in Content /\ row' = [row EXCEPT ![s] = new] /\ UNCHANGED status
    BY <1>1, <1>7 DEF OtherToggle, RowsTyped, Exists
  <2>2. new \in Content
    BY <2>1 DEF Content
  <2> HIDE DEF new
  <2> QED
    BY <1>1, <2>1, <2>2, RowTyped DEF RowsTyped
<1>8. CASE OtherTrigger(s)
  <2>1. UNCHANGED row /\ \E r : Lifecycle!Move(r, {"none"}, "pending")
    BY <1>8 DEF OtherTrigger, Lifecycle!Submit
  <2>2. "pending" \in Lifecycle!Statuses
    BY DEF Lifecycle!Statuses, Lifecycle!Visible
  <2> QED
    BY <1>1, <2>1, <2>2, StatusTyped DEF RowsTyped
<1> QED
  BY <1>3, <1>4, <1>5, <1>6, <1>7, <1>8

LEMMA FormEnvironment == ASSUME FormInv, Environment PROVE FormInv' /\ Survives
<1>1. CASE WorkerStep
  <2>1. UNCHANGED <<page, net, mishaps, row, pageVars, edits>>
        /\ \E r, from : \E to \in {"running"} \cup Outcomes : Lifecycle!Move(r, from, to)
    BY <1>1 DEF WorkerStep
  <2>2. {"running"} \cup Outcomes \subseteq Lifecycle!Statuses
    BY ScenarioAssumption
       DEF Lifecycle!Statuses, Lifecycle!Visible, Lifecycle!Terminal, Lifecycle!Verdicts
  <2>3. RowsTyped'
    BY <2>1, <2>2, StatusTyped DEF FormInv, Typed, RowsTyped
  <2>4. mishaps' \in 0..MaxMishaps /\ AtSlug(page.slug)' = AtSlug(page.slug)
    BY <2>1 DEF FormInv, Typed, AtSlug, Exists
  <2> QED
    BY <2>1, <2>3, <2>4, FormUntouched
<1>2. ASSUME NEW q \in DOMAIN net, Outage(q) PROVE FormInv' /\ Survives
  <2>1. /\ UNCHANGED <<page, pageVars, edits, serverVars>> /\ Refuse(q) /\ net[q].at = "sent"
        /\ mishaps' \in 0..MaxMishaps /\ mishaps' # 0 /\ RowsTyped'
    BY <1>2, TabAssumption DEF Outage, Fail, FormInv, Typed, RowsTyped, serverVars
  <2> QED
    BY <2>1, FormRefused
<1> QED
  BY <1>1, <1>2, FormOthers DEF Environment

LEMMA FormInit == Init => FormInv
<1> SUFFICES ASSUME Init PROVE FormInv
  OBVIOUS
<1> DEFINE n == CHOOSE m \in Names : TRUE
           first == [slug |-> <<n, 1>>, name |-> n, active |-> TRUE]
<1>1. PICK s : row = [t \in Scenarios |-> IF t = s THEN first ELSE None]
  BY Zenon DEF Init
<1>2. n \in Names
  BY ScenarioAssumption
<1>3. 1 \in 1..Suffixes
  BY ScenarioAssumption, FS_CardinalityType
<1> HIDE DEF n
<1>4. first \in Content
  BY <1>2, <1>3 DEF Content, Slugs
<1> HIDE DEF first
<1>5. RowsTyped
  BY <1>1, <1>4 DEF Init, RowsTyped, Lifecycle!Statuses
<1>6. /\ page \in Routes /\ page.at = "list" /\ mishaps \in 0..MaxMishaps /\ edits \in 0..MaxEdits
      /\ list = ListInit /\ editor = EditorInit
  BY TabAssumption, ScenarioAssumption DEF Init, ListRoute, Routes
<1>7. ListTyped /\ EditorTyped
  BY <1>6 DEF ListTyped, EditorTyped, ListInit, EditorInit
<1>8. Fits(<<>>, 0 + 1) /\ "list" \in Ops
  BY TabAssumption, FS_EmptySet DEF Fits, Ops
<1>9. /\ Fits(Sent(<<>>, "list", None), 0)
      /\ Adds(Sent(<<>>, "list", None), <<>>, "list", None)
  BY <1>8, SentFits, SentIs
<1>10. net = Sent(<<>>, "list", None)
  BY DEF Init, MountRequests, ListRoute
<1>11. Fits(net, 0) /\ \A q \in DOMAIN net : net[q] = Request("list", None)
  BY <1>9, <1>10 DEF Adds
<1>12. TypedNet(net) /\ \A q \in DOMAIN net : net[q].op # "scenario"
  BY <1>8, <1>11, RequestTyped DEF TypedNet, Request
<1>13. Typed
  BY <1>5, <1>6, <1>7, <1>11, <1>12 DEF Typed
<1>14. Loads
  BY <1>6, <1>12 DEF Loads, EditorInit
<1>15. Addressed
  BY <1>6 DEF Addressed, HasForm, OnEditor
<1> QED
  BY <1>13, <1>14, <1>15 DEF FormInv

LEMMA FormNext ==
    FormInv /\ VerdictInv /\ [Next]_vars => FormInv' /\ (Survives \/ UNCHANGED vars)
<1> SUFFICES ASSUME FormInv, VerdictInv, [Next]_vars PROVE FormInv' /\ (Survives \/ UNCHANGED vars)
  OBVIOUS
<1>1. CASE UNCHANGED vars
  <2>1. UNCHANGED <<page, net, pageVars, edits, mishaps, row, status>>
    BY <1>1 DEF vars, pageVars
  <2>2. mishaps' \in 0..MaxMishaps /\ RowsTyped' /\ AtSlug(page.slug)' = AtSlug(page.slug)
    BY <2>1 DEF FormInv, Typed, RowsTyped, AtSlug, Exists
  <2> QED
    BY <1>1, <2>1, <2>2, FormUntouched
<1>2. CASE Next
  BY <1>2, FormClick, FormListAnswered, FormEditorAnswered, FormHistory, FormRun, FormServer,
     FormEnvironment DEF Next, Handle
<1> QED
  BY <1>1, <1>2

LEMMA FormAlways == Spec => [](FormInv /\ VerdictInv)
BY FormInit, FormNext, VerdictInit, VerdictNext, PTL DEF Spec

\* The page of a run changes with the answers it gets, and starts anew.
LEMMA DetailNext == FormInv /\ DetailTyped /\ [Next]_vars => DetailTyped'
<1> SUFFICES ASSUME FormInv, DetailTyped, [Next]_vars PROVE DetailTyped'
  OBVIOUS
<1>1. CASE UNCHANGED detail
  BY <1>1 DEF DetailTyped
<1>2. CASE detail' = DetailInit
  BY <1>2 DEF DetailTyped, DetailInit
<1>3. ASSUME NEW p, NEW S, Goto(p, S) PROVE DetailTyped'
  BY <1>1, <1>2, <1>3 DEF Goto, pageVars
<1>4. CASE RunAnswered
  <2>1. PICK q \in DOMAIN net : RunLoaded(q) \/ Cancelled(q)
    BY <1>4 DEF RunAnswered
  <2>2. CASE RunLoaded(q)
    <3> DEFINE run == IF net[q].at = "ok" THEN net[q].ans ELSE detail.run
    <3>1. TypedRequest(net[q]) /\ net[q].op = "run"
      BY <2>2 DEF FormInv, Typed, TypedNet, RunLoaded, Answered
    <3>2. run \in Lifecycle!Visible \cup {None}
      BY <3>1 DEF TypedRequest, DetailTyped
    <3>3. detail' = [detail EXCEPT
                        !.run = run, !.timer = Live(run), !.loading = FALSE,
                        !.error = @ \/ net[q].at = "failed",
                        !.cancelling = IF net[q].arg = "cancel" THEN FALSE ELSE @]
      BY <2>2 DEF RunLoaded
    <3> HIDE DEF run, Live
    <3> QED
      BY <3>2, <3>3 DEF DetailTyped, DetailInit
  <2>3. CASE Cancelled(q)
    <3>1. UNCHANGED detail \/ detail' = [detail EXCEPT !.error = TRUE, !.cancelling = FALSE]
      BY <2>3 DEF Cancelled
    <3> QED
      BY <1>1, <3>1 DEF DetailTyped, DetailInit
  <2> QED
    BY <2>1, <2>2, <2>3
<1>5. CASE Click
  <2>1. CASE Cancel
    BY <2>1 DEF Cancel, DetailTyped, DetailInit
  <2>2. CASE OpenScenario \/ LeaveEditor \/ LeaveRun
    BY <1>3, <2>2 DEF OpenScenario, LeaveEditor, LeaveRun
  <2>3. CASE ListClick /\ ~OpenScenario
    BY <1>1, <2>3 DEF ListClick, ListStep, Retry, OpenCreate, CloseCreate, TypeName, Create
  <2>4. CASE EditorClick /\ ~LeaveEditor
    BY <1>1, <2>4 DEF EditorClick, EditorStep, Edit, Save, Trigger, DeleteScenario
  <2> QED
    BY <1>5, <2>1, <2>2, <2>3, <2>4 DEF Click
<1>6. CASE Handle
  <2>1. PICK q \in DOMAIN net : \/ ListLoaded(q) \/ Created(q) \/ ScenarioLoaded(q)
                               \/ Saved(q) \/ Triggered(q) \/ Deleted(q)
    BY <1>6 DEF Handle, ListAnswered, EditorAnswered
  <2>2. CASE ListLoaded(q) \/ ScenarioLoaded(q) \/ Triggered(q)
    BY <1>1, <2>2 DEF ListLoaded, ListStep, ScenarioLoaded, Triggered, EditorStep
  <2>3. CASE Created(q) \/ Saved(q) \/ Deleted(q)
    BY <1>1, <1>3, <2>3 DEF Created, Saved, Deleted, pageVars
  <2> QED
    BY <2>1, <2>2, <2>3
<1>7. CASE Poll \/ HistoryAnswered
  <2>1. CASE PollRun \/ PollHistory
    BY <1>1, <2>1 DEF PollRun, PollHistory, EditorStep
  <2>2. CASE HistoryAnswered
    BY <1>1, <2>2 DEF HistoryAnswered, HistoryLoaded, EditorStep
  <2> QED
    BY <1>7, <2>1, <2>2 DEF Poll
<1>8. CASE ReadStep \/ WriteStep \/ Environment
  BY <1>1, <1>8 DEF ReadStep, Read, WriteStep, CreatePick, CreateInsert, SavePick, SaveWrite,
     TriggerAnswer, DeleteAnswer, CancelAnswer, Environment, WorkerStep, OtherStep, Outage, pageVars
<1>9. CASE UNCHANGED vars
  BY <1>1, <1>9 DEF vars
<1> QED
  BY <1>4, <1>5, <1>6, <1>7, <1>8, <1>9 DEF Next

\* The tab and the tables keep their form, no request takes an id that is in use, and
\* whatever is answered, late, refused or twice, each answer has the shape that the
\* code behind its await reads, and each transaction what its write needs.
THEOREM TypeCorrect == Spec => []TypeOK
<1>1. FormInv /\ DetailTyped => TypeOK
  <2>1. FormInv => Cardinality(DOMAIN net) \in Nat
    BY FS_CardinalityType DEF FormInv, Typed, Fits
  <2> QED
    BY <2>1, TabAssumption DEF FormInv, Typed, TypedNet, Fits, TypeOK
<1>2. Init => DetailTyped
  BY DEF Init, DetailTyped, DetailInit
<1> QED
  BY <1>1, <1>2, FormAlways, DetailNext, PTL DEF Spec

\* A tab left to itself addresses its scenario: once every answer is in, a form on
\* screen belongs to a slug that exists.
THEOREM FormHasItsRow == Spec => []FormAddressesARow
<1>1. FormInv => FormAddressesARow
  <2> SUFFICES ASSUME FormInv, OnForm, net = <<>>, mishaps = 0 PROVE AtSlug(page.slug) # {}
    BY DEF FormAddressesARow
  <2>1. HasForm
    BY FormIsLoaded DEF FormInv, Typed, HasForm, OnForm
  <2>2. DOMAIN net = {}
    OBVIOUS
  <2> QED
    BY <2>1, <2>2 DEF FormInv, Addressed
<1> QED
  BY <1>1, FormAlways, PTL

\* No answer, late or failed, takes the form away from a tab that stays on its page,
\* and only the user, or the answer to their own save, changes what is in it.
THEOREM FormIsKept == Spec => FormSurvives
<1>1. FormInv /\ VerdictInv /\ [Next]_vars => [Survives]_vars
  BY FormNext
<1>2. Spec => [][Survives]_vars
  BY <1>1, FormAlways, PTL DEF Spec
<1>3. [Survives]_vars => [OnForm /\ page' = page /\ net' # net =>
          /\ EditorView' = "form"
          /\ Draft' # Draft => \E q \in Answered("save") : q \notin DOMAIN net']_vars
  BY DEF Survives
<1> QED
  BY <1>2, <1>3, PTL DEF FormSurvives
=============================================================================
