----------------------- MODULE DashboardPages_proofs -----------------------
(***************************************************************************)
(* Proofs about DashboardPages, for any rows, messages, addresses and      *)
(* bounds.                                                                 *)
(*                                                                         *)
(* No two rows of a table ever share an address (AddressesStayDistinct).   *)
(* The check that comes before an insert does not matter for this, and     *)
(* neither does what a request in flight asks for: whatever is inserted is *)
(* compared with the rows once more, by the index, and whatever else is    *)
(* written leaves the address of its row alone.                            *)
(*                                                                         *)
(* The invariant DashInv carries the rest: what is in flight is what the   *)
(* page on screen, or one before it, has asked for (TypedRequest); who     *)
(* still listens asks about the box or the endpoint on screen, and is told *)
(* of nothing else (Own); and the page shows nothing else (UiSound).  From *)
(* it follow that everything keeps its form (TypeCorrect), and that no     *)
(* answer turns up on another page (AnswersFindTheirPage).                 *)
(*                                                                         *)
(* DashInv and NothingHangs are inductive together (NothingHangsForGood).  *)
(* A step takes out of flight at most the request it handles and keeps     *)
(* what it does not (Keeps); when that one was waited for, the same step   *)
(* ends the wait, and a step that starts one sends its request (Asks).     *)
(***************************************************************************)
EXTENDS DashboardPages, FiniteSetTheorems, TLAPS

BoxInv ==
    /\ DOMAIN box = Boxes
    /\ \A b \in Boxes : Exists(b) => "prefix" \in DOMAIN box[b]
    /\ \A b, c \in Boxes : Exists(b) /\ Exists(c) /\ box[b].prefix = box[c].prefix => b = c

MockInv ==
    /\ DOMAIN endpoint = Mocks
    /\ \A m \in Mocks : MockExists(m) => "key" \in DOMAIN endpoint[m]
    /\ \A m, n \in Mocks : MockExists(m) /\ MockExists(n) /\ endpoint[m].key = endpoint[n].key => m = n

LEMMA RowsInit == Init => BoxInv /\ MockInv
BY DEF Init, BoxInv, MockInv, Exists, MockExists

-----------------------------------------------------------------------------
(* Sandboxes.                                                              *)

\* An insert of a prefix that no row has.
LEMMA BoxInserted ==
    ASSUME BoxInv, NEW p, p \notin Taken, NewRow(p)
    PROVE  BoxInv'
<1> DEFINE new == [prefix |-> p, active |-> TRUE]
<1>1. \A b \in Boxes : Exists(b) => box[b].prefix # p
  BY DEF Taken
<1>2. new.prefix = p /\ "prefix" \in DOMAIN new
  OBVIOUS
<1>3. box' = [box EXCEPT ![NextRow] = new]
  BY DEF NewRow
<1> HIDE DEF new
<1>4. \A b \in Boxes : box'[b] = IF b = NextRow THEN new ELSE box[b]
  BY <1>3 DEF BoxInv
<1> QED
  BY <1>1, <1>2, <1>3, <1>4 DEF BoxInv, Exists

\* The switch of a sandbox leaves its prefix alone.
LEMMA BoxSwitched ==
    ASSUME BoxInv, NEW b \in Boxes, Exists(b), NEW to, box' = [box EXCEPT ![b].active = to]
    PROVE  BoxInv'
<1> DEFINE new == [box[b] EXCEPT !.active = to]
<1>1. new.prefix = box[b].prefix /\ "prefix" \in DOMAIN new
  BY DEF BoxInv
<1>2. box' = [box EXCEPT ![b] = new]
  OBVIOUS
<1> HIDE DEF new
<1>3. \A c \in Boxes : box'[c] = IF c = b THEN new ELSE box[c]
  BY <1>2 DEF BoxInv
<1> QED
  BY <1>1, <1>2, <1>3 DEF BoxInv, Exists

LEMMA BoxServed == ASSUME BoxInv, Serve PROVE BoxInv'
<1>1. PICK q \in DOMAIN net : Answer(q)
  BY DEF Serve
<1>2. CASE UNCHANGED box
  BY <1>2 DEF BoxInv, Exists
<1>3. CASE Read(q) \/ OpenAnswer(q) \/ RemoveAnswer(q) \/ ClearAnswer(q) \/ TestAnswer(q) \/ CreateCheck(q)
  BY <1>2, <1>3 DEF Read, OpenAnswer, RemoveAnswer, ClearAnswer, TestAnswer, CreateCheck, mailTables
<1>4. CASE ToggleAnswer(q)
  <2>1. CASE net[q].arg.box \in Boxes /\ Exists(net[q].arg.box)
    BY <1>4, <2>1, BoxSwitched DEF ToggleAnswer
  <2>2. CASE net[q].arg.box \notin Boxes
    <3>1. UNCHANGED box \/ box' = [box EXCEPT ![net[q].arg.box].active = net[q].arg.active]
      BY <1>4 DEF ToggleAnswer
    <3> QED
      BY <1>2, <2>2, <3>1 DEF BoxInv, Exists
  <2>3. CASE ~Exists(net[q].arg.box)
    BY <1>2, <1>4, <2>3 DEF ToggleAnswer
  <2> QED
    BY <2>1, <2>2, <2>3
<1>5. CASE CreateInsert(q)
  BY <1>2, <1>5, BoxInserted DEF CreateInsert
<1> QED
  BY <1>1, <1>3, <1>4, <1>5 DEF Answer

LEMMA BoxOthers == ASSUME BoxInv, OtherStep PROVE BoxInv'
<1>1. CASE \E b \in Boxes : OtherDelete(b)
  BY <1>1 DEF OtherDelete, BoxInv, Exists
<1>2. CASE \E p \in Prefixes : OtherCreate(p)
  BY <1>2, BoxInserted DEF OtherCreate
<1>3. CASE \E m \in Mails : OtherRemove(m)
  BY <1>3 DEF OtherRemove, BoxInv, Exists
<1> QED
  BY <1>1, <1>2, <1>3 DEF OtherStep

-----------------------------------------------------------------------------
(* Mock endpoints.                                                         *)

\* A row that is written, for a key no row has that stays.
LEMMA EndpointInserted ==
    ASSUME MockInv, NEW k, NEW old, Holders(k) \subseteq old, Commits(old, NewEndpoint(k))
    PROVE  MockInv'
<1> DEFINE new == [key |-> k, active |-> TRUE]
<1>1. new.key = k /\ "key" \in DOMAIN new
  OBVIOUS
<1>2. NewEndpoint(k) = [endpoint EXCEPT ![NextMock] = new]
  BY DEF NewEndpoint
<1> HIDE DEF new
<1>3. DOMAIN endpoint' = Mocks
      /\ \A m \in Mocks : endpoint'[m] = IF m \in old THEN Gone
                                         ELSE IF m = NextMock THEN new ELSE endpoint[m]
  BY <1>2 DEF MockInv, Commits
<1>4. \A m \in Mocks : MockExists(m) /\ m \notin old => endpoint[m].key # k
  BY DEF Holders
<1> QED
  BY <1>1, <1>3, <1>4 DEF MockInv, MockExists

\* Rows that are only deleted.
LEMMA EndpointsDeleted == ASSUME MockInv, NEW old, Commits(old, endpoint) PROVE MockInv'
BY DEF MockInv, MockExists, Commits

LEMMA NothingReplaced ==
    ASSUME MockInv, NEW k, Holders(k) = {}, endpoint' = NewEndpoint(k)
    PROVE  MockInv'
<1> DEFINE new == [key |-> k, active |-> TRUE]
<1>1. new.key = k /\ "key" \in DOMAIN new
  OBVIOUS
<1>2. endpoint' = [endpoint EXCEPT ![NextMock] = new]
  BY DEF NewEndpoint
<1> HIDE DEF new
<1>3. \A m \in Mocks : endpoint'[m] = IF m = NextMock THEN new ELSE endpoint[m]
  BY <1>2 DEF MockInv
<1>4. \A m \in Mocks : MockExists(m) => endpoint[m].key # k
  BY DEF Holders
<1> QED
  BY <1>1, <1>2, <1>3, <1>4 DEF MockInv, MockExists

\* A row that is given a key no row has.
LEMMA EndpointRenamed == ASSUME MockInv, NEW m \in Mocks, NEW k, OtherMockRename(m, k) PROVE MockInv'
<1> DEFINE new == [endpoint[m] EXCEPT !.key = k]
<1>1. new.key = k /\ "key" \in DOMAIN new
  BY DEF MockInv, OtherMockRename
<1>2. endpoint' = [endpoint EXCEPT ![m] = new]
  BY DEF OtherMockRename
<1> HIDE DEF new
<1>3. \A n \in Mocks : endpoint'[n] = IF n = m THEN new ELSE endpoint[n]
  BY <1>2 DEF MockInv
<1>4. \A n \in Mocks : MockExists(n) => endpoint[n].key # k
  BY DEF Holders, OtherMockRename
<1> QED
  BY <1>1, <1>2, <1>3, <1>4 DEF MockInv, MockExists

\* The switch of an endpoint leaves its method and path alone.
LEMMA EndpointSwitched ==
    ASSUME MockInv, NEW m \in Mocks, MockExists(m), NEW to,
           endpoint' = [endpoint EXCEPT ![m].active = to]
    PROVE  MockInv'
<1> DEFINE new == [endpoint[m] EXCEPT !.active = to]
<1>1. new.key = endpoint[m].key /\ "key" \in DOMAIN new
  BY DEF MockInv
<1>2. endpoint' = [endpoint EXCEPT ![m] = new]
  OBVIOUS
<1> HIDE DEF new
<1>3. \A n \in Mocks : endpoint'[n] = IF n = m THEN new ELSE endpoint[n]
  BY <1>2 DEF MockInv
<1> QED
  BY <1>1, <1>2, <1>3 DEF MockInv, MockExists

LEMMA MockServed == ASSUME MockInv, MockServe PROVE MockInv'
<1>1. PICK q \in DOMAIN net : MockAnswer(q)
  BY DEF MockServe
<1>2. CASE UNCHANGED endpoint
  BY <1>2 DEF MockInv, MockExists
<1>3. CASE MockRead(q) \/ EndpointCheck(q) \/ ImportCheck(q) \/ Unrouted(q)
  BY <1>2, <1>3 DEF MockRead, EndpointCheck, ImportCheck, Unrouted, mockTables
<1>4. CASE MockUpdate(q)
  <2>1. \/ UNCHANGED endpoint
        \/ /\ MockExists(net[q].arg.mock)
           /\ endpoint' = [endpoint EXCEPT ![net[q].arg.mock].active = net[q].arg.to]
    BY <1>4 DEF MockUpdate
  <2>2. CASE net[q].arg.mock \in Mocks
    BY <1>2, <2>1, <2>2, EndpointSwitched
  <2>3. CASE net[q].arg.mock \notin Mocks
    BY <1>2, <2>1, <2>3 DEF MockInv, MockExists
  <2> QED
    BY <2>2, <2>3
<1>5. CASE EndpointInsert(q)
  BY <1>2, <1>5, EndpointInserted, EndpointsDeleted DEF EndpointInsert, mockTables
<1> QED
  BY <1>1, <1>3, <1>4, <1>5 DEF MockAnswer

LEMMA MockOthers == ASSUME MockInv, MockOtherStep PROVE MockInv'
<1>1. CASE \E m \in Mocks : OtherMockDelete(m)
  BY <1>1 DEF OtherMockDelete, MockInv, MockExists
<1>2. CASE \E k \in Keys : OtherMockCreate(k)
  BY <1>2, NothingReplaced DEF OtherMockCreate
<1>3. CASE UNCHANGED endpoint
  BY <1>3 DEF MockInv, MockExists
<1>4. CASE \E m \in Mocks, k \in Keys : OtherMockRename(m, k)
  BY <1>4, EndpointRenamed
<1> QED
  BY <1>1, <1>2, <1>3, <1>4 DEF MockOtherStep, OtherChildAdd, OtherChildDelete

-----------------------------------------------------------------------------
(* No page writes a table by itself.                                       *)

LEMMA MailPagesWriteNothing ==
    ASSUME MailClick \/ SandboxClick \/ FetchMails \/ Check \/ MailAnswered \/ SandboxAnswered
    PROVE  UNCHANGED <<box, endpoint>>
<1>1. CASE MailClick
  BY <1>1 DEF MailClick, Select, Remove, Clear, ShowCreds, HideCreds, OpenTest, CloseTest,
              SendTest, LeaveMail, PageStep, mailTables, mockTables
<1>2. CASE SandboxClick
  BY <1>2 DEF SandboxClick, SelectTag, Toggle, LeaveList, Type, TrySuggestion, SetPrefix, Submit,
              LeaveForm, PageStep, mailTables, mockTables
<1>3. CASE FetchMails \/ Check
  BY <1>3 DEF FetchMails, Check, PageStep, mailTables, mockTables
<1>4. CASE MailAnswered
  BY <1>4 DEF MailAnswered, MailsLoaded, BoxLoaded, Opened, Removed, Cleared, CredsLoaded, Tested,
              PageStep, mailTables, mockTables
<1>5. CASE SandboxAnswered
  BY <1>5 DEF SandboxAnswered, BoxesLoaded, Toggled, Checked, Submitted, PageStep, mailTables,
              mockTables
<1> QED
  BY <1>1, <1>2, <1>3, <1>4, <1>5

LEMMA MockPagesWriteNothing ==
    ASSUME MocksClick \/ MockClick \/ MocksAnswered \/ MockAnswered
    PROVE  UNCHANGED <<box, endpoint>>
<1>1. CASE MocksClick
  BY <1>1 DEF MocksClick, Filter, FlipSwitch, OpenCreate, CloseCreate, CreateMock, OpenYaml,
              CloseYaml, Import, Reload, LeaveMocks, Becomes, PageStep, mailTables, mockTables
<1>2. CASE MockClick
  BY <1>2 DEF MockClick, TabTo, Refresh, SaveResponse, EditChild, CancelEdit, SaveChild, DropChild,
              LeaveMock, PageStep, mailTables, mockTables
<1>3. CASE MocksAnswered
  BY <1>3 DEF MocksAnswered, MocksLoaded, Flipped, Created, Imported, Becomes, PageStep,
              mailTables, mockTables
<1>4. CASE MockAnswered
  BY <1>4 DEF MockAnswered, MockLoaded, LogsLoaded, ResponseSaved, ChildRefused, PageStep,
              mailTables, mockTables
<1> QED
  BY <1>1, <1>2, <1>3, <1>4

LEMMA RowsNext == BoxInv /\ MockInv /\ [Next]_vars => BoxInv' /\ MockInv'
<1> SUFFICES ASSUME BoxInv, MockInv, [Next]_vars PROVE BoxInv' /\ MockInv'
  OBVIOUS
<1>1. UNCHANGED box => BoxInv'
  BY DEF BoxInv, Exists
<1>2. UNCHANGED endpoint => MockInv'
  BY DEF MockInv, MockExists
<1>3. CASE MailNext
  <2>1. CASE MailClick \/ SandboxClick \/ FetchMails \/ Check \/ MailAnswered \/ SandboxAnswered
    BY <1>1, <1>2, <2>1, MailPagesWriteNothing
  <2>2. CASE Serve
    <3>1. UNCHANGED endpoint
      BY <2>2 DEF Serve, Answer, Read, OpenAnswer, RemoveAnswer, ClearAnswer, TestAnswer,
                  ToggleAnswer, CreateCheck, CreateInsert, ServerStep, mockTables
    <3> QED
      BY <1>2, <2>2, <3>1, BoxServed
  <2>3. CASE Arrival \/ Failure
    BY <1>1, <1>2, <2>3 DEF Arrival, Deliver, Failure, Outage, ServerStep, mailTables, mockTables
  <2>4. CASE OtherStep
    <3>1. UNCHANGED endpoint
      BY <2>4 DEF OtherStep, ServerStep, mockTables
    <3> QED
      BY <1>2, <2>4, <3>1, BoxOthers
  <2> QED
    BY <1>3, <2>1, <2>2, <2>3, <2>4 DEF MailNext
<1>4. CASE MockNext
  <2>1. CASE MocksClick \/ MockClick \/ MocksAnswered \/ MockAnswered
    BY <1>1, <1>2, <2>1, MockPagesWriteNothing
  <2>2. CASE MockServe
    <3>1. UNCHANGED box
      BY <2>2 DEF MockServe, MockAnswer, MockRead, MockUpdate, EndpointCheck, EndpointInsert,
                  ImportCheck, Unrouted, MockServerStep, mailTables
    <3> QED
      BY <1>1, <2>2, <3>1, MockServed
  <2>3. CASE MockFailure
    BY <1>1, <1>2, <2>3 DEF MockFailure, MockOutage, MockServerStep, mailTables, mockTables
  <2>4. CASE MockOtherStep
    <3>1. UNCHANGED box
      BY <2>4 DEF MockOtherStep, MockServerStep, mailTables
    <3> QED
      BY <1>1, <2>4, <3>1, MockOthers
  <2> QED
    BY <1>4, <2>1, <2>2, <2>3, <2>4 DEF MockNext
<1>5. CASE UNCHANGED vars
  BY <1>1, <1>2, <1>5 DEF vars, mailTables, mockTables
<1> QED
  BY <1>3, <1>4, <1>5 DEF Next

\* For any sandboxes and endpoints, and whoever creates, imports or switches one
\* meanwhile, two sandboxes never share a prefix and two endpoints never a method
\* and path.
THEOREM AddressesStayDistinct == Spec => []AddressesDistinct
<1>1. BoxInv /\ MockInv => AddressesDistinct
  BY DEF BoxInv, MockInv, AddressesDistinct
<1> QED
  BY <1>1, RowsInit, RowsNext, PTL DEF Spec

-----------------------------------------------------------------------------
(* The requests in flight, and the ids they are given.                     *)

Ops    == Mutations \cup {"mails", "box", "creds", "boxes", "check", "mocks", "mock", "logs"}
Fields == {"op", "arg", "at", "ans", "home"}

Request(op, arg) == [op |-> op, arg |-> arg, at |-> "sent", ans |-> None, home |-> TRUE]

\* An id says what is asked for.
HasIds(S) ==
    IsFiniteSet(DOMAIN S) /\ \A q \in DOMAIN S : S[q].op \in Ops /\ q \in IdsOf({S[q].op})

NewId(S, op) == CHOOSE j \in IdsOf({op}) : j \notin DOMAIN S

\* An id is free while there is room, and when nothing of its kind is in flight.
LEMMA NewIdIsFree ==
    ASSUME NEW S, NEW op, HasIds(S),
           Room(S, 1) \/ \A q \in DOMAIN S : S[q].op # op
    PROVE  NewId(S, op) \in IdsOf({op}) \ DOMAIN S
<1>1. MaxInFlight \in Nat \ {0} /\ Cardinality(DOMAIN S) \in Nat /\ IsFiniteSet(DOMAIN S)
  BY TabAssumption, FS_CardinalityType DEF HasIds
<1>2. ~(IdsOf({op}) \subseteq DOMAIN S)
  <2>1. CASE Room(S, 1)
    <3> SUFFICES ASSUME IdsOf({op}) \subseteq DOMAIN S PROVE FALSE
      OBVIOUS
    <3>1. IsFiniteSet({op}) /\ Cardinality({op}) = 1
      BY FS_Singleton
    <3>2. IsFiniteSet(1..MaxInFlight) /\ Cardinality(1..MaxInFlight) = MaxInFlight
      BY <1>1, FS_Interval
    <3>3. Cardinality({op} \X (1..MaxInFlight)) = Cardinality({op}) * Cardinality(1..MaxInFlight)
      BY <3>1, <3>2, FS_Product
    <3>4. Cardinality({op} \X (1..MaxInFlight)) = 1 * MaxInFlight
      BY ONLY <3>1, <3>2, <3>3
    <3>5. 1 * MaxInFlight = MaxInFlight
      BY <1>1
    <3>6. Cardinality(IdsOf({op})) = MaxInFlight
      BY ONLY <3>4, <3>5 DEF IdsOf
    <3>7. Cardinality(IdsOf({op})) <= Cardinality(DOMAIN S)
      BY <1>1, FS_Subset
    <3> QED
      BY <1>1, <2>1, <3>6, <3>7 DEF Room
  <2>2. CASE \A q \in DOMAIN S : S[q].op # op
    <3>1. <<op, 1>> \in IdsOf({op})
      BY <1>1 DEF IdsOf
    <3>2. ASSUME NEW q \in DOMAIN S, q \in IdsOf({op}) PROVE FALSE
      BY <2>2, <3>2 DEF HasIds, IdsOf
    <3> QED
      BY <3>1, <3>2
  <2> QED
    BY <2>1, <2>2
<1> QED
  BY <1>2 DEF NewId

\* T has one request more than S.
Adds(T, S, op, arg) ==
    /\ HasIds(T)
    /\ DOMAIN T = DOMAIN S \cup {NewId(S, op)} /\ NewId(S, op) \notin DOMAIN S
    /\ T[NewId(S, op)] = Request(op, arg)
    /\ \A q \in DOMAIN S : T[q] = S[q]
    /\ Room(S, 1) => Room(T, 0)

LEMMA SentIs ==
    ASSUME NEW S, NEW op \in Ops, NEW arg, HasIds(S),
           Room(S, 1) \/ \A q \in DOMAIN S : S[q].op # op
    PROVE  Adds(Sent(S, op, arg), S, op, arg)
<1> DEFINE T == Sent(S, op, arg)
<1>1. NewId(S, op) \in IdsOf({op}) \ DOMAIN S
  BY NewIdIsFree
<1>2. T = [j \in DOMAIN S \cup {NewId(S, op)} |-> IF j = NewId(S, op) THEN Request(op, arg) ELSE S[j]]
  BY DEF Sent, Request, NewId
<1> HIDE DEF T
<1>3. /\ DOMAIN T = DOMAIN S \cup {NewId(S, op)} /\ T[NewId(S, op)] = Request(op, arg)
      /\ \A q \in DOMAIN S : T[q] = S[q]
  BY <1>1, <1>2
<1>4. /\ IsFiniteSet(DOMAIN T) /\ Cardinality(DOMAIN T) = Cardinality(DOMAIN S) + 1
      /\ Cardinality(DOMAIN S) \in Nat
  BY <1>1, <1>3, FS_AddElement, FS_CardinalityType DEF HasIds
<1>5. Request(op, arg).op = op
  BY DEF Request
<1>6. HasIds(T)
  BY <1>1, <1>3, <1>4, <1>5 DEF HasIds
<1>7. Room(S, 1) => Room(T, 0)
  BY <1>4, TabAssumption DEF Room
<1>8. Adds(T, S, op, arg)
  BY <1>1, <1>3, <1>6, <1>7 DEF Adds
<1> QED
  BY <1>8 DEF T

\* Some requests of S, and no others.
Within(T, S) == DOMAIN T \subseteq DOMAIN S /\ \A q \in DOMAIN T : T[q] = S[q]

LEMMA DoneIsWithin == ASSUME NEW q PROVE Within(Done(q), net)
BY DEF Within, Done, Restrict

LEMMA FewerHaveIds ==
    ASSUME NEW S, HasIds(S), NEW T, DOMAIN T \subseteq DOMAIN S,
           \A q \in DOMAIN T : T[q].op = S[q].op
    PROVE  HasIds(T) /\ (Room(S, 0) => Room(T, 0))
<1>1. IsFiniteSet(DOMAIN T) /\ Cardinality(DOMAIN T) <= Cardinality(DOMAIN S)
  BY FS_Subset DEF HasIds
<1>2. Cardinality(DOMAIN T) \in Nat /\ Cardinality(DOMAIN S) \in Nat /\ MaxInFlight \in Nat
  BY <1>1, TabAssumption, FS_CardinalityType DEF HasIds
<1> QED
  BY <1>1, <1>2 DEF HasIds, Room

-----------------------------------------------------------------------------
(* What is shown, asked for and answered.                                  *)

\* The page that asks for op.
PageOf(op) ==
    CASE op \in {"mails", "box", "creds", "open", "remove", "clear", "test"} -> "mail"
      [] op \in {"boxes", "toggle"}                        -> "sandboxes"
      [] op \in {"check", "create"}                        -> "new"
      [] op \in {"mocks", "flip", "endpoint", "import"}    -> "mocks"
      [] OTHER                                             -> "mock"

Marks    == {"absent", "unread", "read"}
MockRows == [Mocks -> Endpoints \cup {None}]

ListingTyped(a) ==
    a.emails \in [Mails -> Marks] /\ a.total \in Int /\ a.unread \in 0..Cardinality(Mails)

FlipTyped(a) ==
    /\ DOMAIN a = {"mock", "to", "seen", "card"}
    /\ a.seen \in MockRows /\ a.seen[a.mock] # None /\ a.card \in BOOLEAN

TypedRequest(r) ==
    /\ DOMAIN r = Fields /\ r.op \in Ops
    /\ r.op \notin Mutations => r.home
    /\ r.op = "mails" /\ r.at = "ok" => ListingTyped(r.ans)
    /\ r.op = "open" => r.arg.mail \in Mails
    /\ r.op = "toggle" => r.arg.box \in Boxes /\ r.arg.active \in BOOLEAN
    /\ r.op = "check" /\ r.at = "ok" => r.ans.suggestion \in Prefixes \cup {None}
    /\ r.op = "create" => r.arg \in Prefixes /\ (r.at = "ok" => r.ans \in Boxes)
    /\ r.op = "flip" => /\ r.arg.mock \in Mocks /\ r.arg.to \in BOOLEAN
                        /\ r.home => FlipTyped(r.arg)
    /\ r.op \in {"endpoint", "import"} => r.arg.key \in Keys
    /\ r.op = "endpoint" /\ r.at = "ok" => r.ans \in Mocks
    /\ r.op = "mocks" /\ r.at = "ok" => r.ans \in MockRows
    /\ r.op = "mock" /\ r.at = "ok" => r.ans \subseteq Children

\* A page that listens asks about its own box or endpoint, and is told of no other.
Belongs(m) == at[m] \in {page.box, Gone}
Hangs(c)   == child[c] \in {page.mock, Gone}
Own(r) ==
    /\ r.home => page.at = PageOf(r.op)
    /\ r.op = "mails" => /\ r.arg = page.box
                         /\ r.at = "ok" => \A m \in Mails : r.ans.emails[m] # "absent" => Belongs(m)
    /\ r.op = "open" /\ r.home => Belongs(r.arg.mail)
    /\ r.op = "test" /\ r.home => page.box = Inbox
    /\ r.op = "mock" => r.arg = page.mock /\ (r.at = "ok" => \A c \in r.ans : Hangs(c))
    /\ r.op = "flip" /\ r.home => (r.arg.card => ui.card[r.arg.mock] # None)

NetSound == \A q \in DOMAIN net : TypedRequest(net[q]) /\ Own(net[q])

MailUi ==
    /\ DOMAIN ui = DOMAIN MailInit /\ ui.emails \in [Mails -> Marks] /\ ui.total \in Int
    /\ ui.unread \in 0..Cardinality(Mails)
    /\ ui.selected \in Mails \cup {None} /\ ui.shown \in Mails \cup {None}
    /\ \A m \in Mails : ui.emails[m] # "absent" => Belongs(m)
    /\ ui.shown # None => Belongs(ui.shown)
ListUi == DOMAIN ui = DOMAIN ListInit /\ ui.toggling \in Boxes \cup {None}
FormUi == DOMAIN ui = DOMAIN FormInit /\ {ui.prefix, ui.suggestion} \subseteq Prefixes \cup {None}
CardsTyped(st) ==
    /\ DOMAIN st = DOMAIN MocksInit /\ st.rows \in MockRows /\ DOMAIN st.card = Mocks
    /\ \A m \in Mocks : st.card[m] # None => st.card[m].active \in BOOLEAN
MocksUi ==
    CardsTyped(ui) /\ \A m \in Mocks : ui.card[m] # None => ui.rows[m] # None
MockUi ==
    /\ DOMAIN ui = DOMAIN EditorInit
    /\ ui.editing \in [Kinds -> Children \cup {None, "new"}]
    /\ ui.list \subseteq Children /\ \A c \in ui.list : Hangs(c)

UiSound ==
    /\ OnMail  => MailUi
    /\ OnList  => ListUi
    /\ OnForm  => FormUi
    /\ OnMocks => MocksUi
    /\ OnMock  => MockUi

TablesSound ==
    /\ box \in [Boxes -> Rows \cup {None, Gone}]
    /\ at \in [Mails -> Boxes \cup {Inbox, None, Gone}] /\ read \subseteq Mails
    /\ endpoint \in [Mocks -> Endpoints \cup {None, Gone}]
    /\ child \in [Children -> Mocks \cup {None, Gone}]

DashInv ==
    /\ page \in Routes /\ mishaps \in 0..MaxMishaps
    /\ TablesSound /\ UiSound
    /\ HasIds(net) /\ Room(net, 0) /\ NetSound

\* A message stays in its box, and a rule or sequence below its endpoint, until it
\* is deleted.
Kept == /\ \A m \in Mails : at[m] # None => at'[m] \in {at[m], Gone}
        /\ \A c \in Children : child[c] # None => child'[c] \in {child[c], Gone}

-----------------------------------------------------------------------------
(* What a step does to the requests and to the page.                       *)

LEMMA KeptOnPage ==
    ASSUME TablesSound, page \in Routes, page' = page, Kept
    PROVE  /\ OnMail => \A m \in Mails : Belongs(m) => Belongs(m)'
           /\ OnMock => \A c \in Children : Hangs(c) => Hangs(c)'
<1>1. OnMail => page.box \in Boxes \cup {Inbox}
  BY DEF Routes, OnMail
<1>2. OnMock => page.mock \in Mocks
  BY DEF Routes, OnMock
<1> QED
  BY <1>1, <1>2, MailAssumption, MockAssumption DEF Kept, Belongs, Hangs

\* A request that is neither changed nor answered stays sound while its page stays,
\* and so does its card.
LEMMA OwnKept ==
    ASSUME DashInv, page' = page, Kept, NEW r, TypedRequest(r), Own(r), UNCHANGED ui \/ ~OnMocks
    PROVE  Own(r)'
<1>1. /\ OnMail => \A m \in Mails : Belongs(m) => Belongs(m)'
      /\ OnMock => \A c \in Children : Hangs(c) => Hangs(c)'
  BY KeptOnPage DEF DashInv
<1>2. r.op = "mails" \/ (r.op = "open" /\ r.home) => OnMail
  BY DEF Own, TypedRequest, PageOf, OnMail, Mutations
<1>3. r.op = "mock" => OnMock
  BY DEF Own, TypedRequest, PageOf, OnMock, Mutations
<1>4. r.op = "flip" /\ r.home => OnMocks
  BY DEF Own, PageOf, OnMocks
<1> HIDE DEF Belongs, Hangs, PageOf, Mutations, Ops
<1> QED
  BY <1>1, <1>2, <1>3, <1>4 DEF Own, TypedRequest

\* What a page asks for anew.
Fresh(op, arg) == op \in Ops /\ TypedRequest(Request(op, arg)) /\ Own(Request(op, arg))

\* Every request of S was in flight before or is new.
Follows(S) ==
    /\ HasIds(S) /\ Room(S, 0)
    /\ \A q \in DOMAIN S : \/ q \in DOMAIN net /\ S[q] = net[q]
                           \/ \E op, arg : S[q] = Request(op, arg) /\ Fresh(op, arg)

LEMMA NothingFollows == ASSUME DashInv PROVE Follows(net)
BY DEF DashInv, Follows

LEMMA SentFollows ==
    ASSUME DashInv, Room(net, 1), NEW op, NEW arg, Fresh(op, arg)
    PROVE  Follows(Sent(net, op, arg))
<1>1. Adds(Sent(net, op, arg), net, op, arg)
  BY SentIs DEF DashInv, Fresh
<1> QED
  BY <1>1 DEF Adds, Follows

LEMMA DoneFollows == ASSUME DashInv, NEW q PROVE Follows(Done(q)) /\ HasIds(Done(q))
<1>1. Within(Done(q), net)
  BY DoneIsWithin
<1>2. HasIds(Done(q)) /\ Room(Done(q), 0)
  BY <1>1, FewerHaveIds DEF DashInv, Within
<1> QED
  BY <1>1, <1>2 DEF Follows, Within

LEMMA SwapFollows ==
    ASSUME DashInv, NEW q, Room(Done(q), 1), NEW op, NEW arg, Fresh(op, arg)
    PROVE  Follows(Sent(Done(q), op, arg))
<1>1. Within(Done(q), net) /\ HasIds(Done(q))
  BY DoneIsWithin, DoneFollows
<1>2. Adds(Sent(Done(q), op, arg), Done(q), op, arg)
  BY <1>1, SentIs DEF Fresh
<1> QED
  BY <1>1, <1>2 DEF Adds, Follows, Within

LEMMA FollowersAreSound ==
    ASSUME DashInv, NEW S, Follows(S), NEW q \in DOMAIN S
    PROVE  TypedRequest(S[q]) /\ Own(S[q])
<1>1. CASE q \in DOMAIN net /\ S[q] = net[q]
  BY <1>1 DEF DashInv, NetSound
<1>2. ASSUME NEW op, NEW arg, S[q] = Request(op, arg), Fresh(op, arg)
      PROVE  TypedRequest(S[q]) /\ Own(S[q])
  BY <1>2 DEF Fresh
<1> QED
  BY <1>1, <1>2 DEF Follows

\* Nothing of the tables changes.
LEMMA TablesKept ==
    ASSUME DashInv, UNCHANGED <<mailTables, mockTables>>
    PROVE  TablesSound' /\ Kept
BY DEF DashInv, TablesSound, Kept, mailTables, mockTables

\* A page goes on: it has sent a request, or has dealt with an answer.
LEMMA PageGoesOn ==
    ASSUME DashInv, PageStep, Follows(net'), UiSound', UNCHANGED ui \/ ~OnMocks
    PROVE  DashInv'
<1>1. page' = page /\ mishaps' = mishaps /\ TablesSound' /\ Kept
  BY TablesKept DEF PageStep
<1>2. NetSound'
  <2> SUFFICES ASSUME NEW q \in DOMAIN net' PROVE TypedRequest(net'[q]) /\ Own(net[q])'
    BY DEF NetSound
  <2> DEFINE r == net'[q]
  <2>1. TypedRequest(net'[q]) /\ Own(net'[q])
    BY FollowersAreSound
  <2>2. \A s : TypedRequest(s) /\ Own(s) /\ s = net'[q] => Own(net[q])'
    <3> SUFFICES ASSUME NEW s, TypedRequest(s), Own(s), s = net'[q] PROVE Own(net[q])'
      OBVIOUS
    <3>1. Own(s)'
      BY <1>1, OwnKept
    <3> QED
      BY <3>1 DEF Own, Belongs, Hangs
  <2> QED
    BY <2>1, <2>2
<1> QED
  BY <1>1, <1>2 DEF DashInv, Follows, HasIds, Room

LEMMA NothingShown ==
    ASSUME DashInv, PageStep, UNCHANGED ui PROVE UiSound'
BY DEF DashInv, UiSound, MailUi, ListUi, FormUi, MocksUi, MockUi, CardsTyped, Belongs, Hangs,
       OnMail, OnList, OnForm, OnMocks, OnMock, PageStep, mailTables, mockTables

\* The cards of a list: one for each row that the filter lets through.
LEMMA CardsAre ==
    ASSUME NEW st, CardsTyped(st)
    PROVE  /\ CardsTyped(Cards(st))
           /\ \A m \in Mocks : Cards(st).card[m] # None => Cards(st).rows[m] # None
<1> DEFINE card == [m \in Mocks |->
               CASE m \notin Visible(st)                   -> None
                 [] m \in Visible(st) /\ st.card[m] = None -> [active |-> st.rows[m].active, busy |-> FALSE]
                 [] OTHER                                  -> st.card[m]]
<1>1. Cards(st) = [st EXCEPT !.card = card]
  BY DEF Cards
<1>2. ASSUME NEW m \in Mocks, card[m] # None PROVE st.rows[m] # None /\ card[m].active \in BOOLEAN
  <2>1. m \in Visible(st) /\ st.rows[m] # None
    BY <1>2 DEF Visible
  <2>2. st.rows[m] \in Endpoints
    BY <2>1 DEF CardsTyped, MockRows
  <2>3. st.rows[m].active \in BOOLEAN
    BY <2>2 DEF Endpoints
  <2> QED
    BY <1>2, <2>1, <2>3 DEF CardsTyped
<1>3. DOMAIN card = Mocks
  OBVIOUS
<1> HIDE DEF card
<1>4. /\ DOMAIN Cards(st) = DOMAIN MocksInit /\ Cards(st).rows = st.rows /\ Cards(st).card = card
  BY <1>1 DEF CardsTyped, MocksInit
<1> QED
  BY <1>2, <1>3, <1>4 DEF CardsTyped

\* A switch off the screen hears no answer.
LEMMA HidesFlips ==
    ASSUME NEW st, NEW S, NEW q \in DOMAIN S, TypedRequest(S[q])
    PROVE  LET r == Hides(st, S)[q]
           IN  /\ TypedRequest(r) /\ r.op = S[q].op /\ r.home = S[q].home
               /\ r.op # "flip" \/ ~r.home => r = S[q]
               /\ r.op = "flip" /\ r.home => (r.arg.card => st.card[r.arg.mock] # None)
<1> DEFINE a == S[q].arg
           b == [a EXCEPT !.card = FALSE]
           r == [S[q] EXCEPT !.arg.card = FALSE]
<1>1. CASE S[q].op = "flip" /\ S[q].home /\ st.card[S[q].arg.mock] = None
  <2>1. Hides(st, S)[q] = r
    BY <1>1 DEF Hides
  <2>2. FlipTyped(a) /\ a.mock \in Mocks /\ a.to \in BOOLEAN
    BY <1>1 DEF TypedRequest
  <2>3. b.mock = a.mock /\ b.to = a.to /\ b.card = FALSE /\ FlipTyped(b)
    BY <2>2 DEF FlipTyped
  <2>4. /\ DOMAIN r = Fields /\ r.op = S[q].op /\ r.home = S[q].home /\ r.arg = b
        /\ r.at = S[q].at /\ r.ans = S[q].ans
    BY DEF TypedRequest, Fields
  <2> HIDE DEF r, b
  <2>5. TypedRequest(r)
    BY <1>1, <2>2, <2>3, <2>4 DEF TypedRequest
  <2> QED
    BY <1>1, <2>1, <2>3, <2>4, <2>5
<1>2. CASE ~(S[q].op = "flip" /\ S[q].home /\ st.card[S[q].arg.mock] = None)
  <2>1. Hides(st, S)[q] = S[q]
    BY <1>2 DEF Hides
  <2> QED
    BY <1>2, <2>1
<1> QED
  BY <1>1, <1>2

\* The list of endpoints goes on with st, and the requests S.
LEMMA ListGoesOn ==
    ASSUME DashInv, OnMocks, NEW st, CardsTyped(st), NEW S, Follows(S), Becomes(st, S)
    PROVE  DashInv'
<1>1. /\ UNCHANGED <<page, mishaps, mailTables, mockTables>> /\ TablesSound' /\ Kept
      /\ ui' = Cards(st) /\ net' = Hides(ui', S)
  BY TablesKept DEF Becomes, PageStep
<1>2. DOMAIN net' = DOMAIN S
  BY <1>1 DEF Hides
<1>3. ASSUME NEW q \in DOMAIN net'
      PROVE  /\ TypedRequest(net'[q]) /\ net'[q].op = S[q].op /\ net'[q].home = S[q].home
             /\ net'[q].op # "flip" \/ ~net'[q].home => net'[q] = S[q]
             /\ net'[q].op = "flip" /\ net'[q].home =>
                  (net'[q].arg.card => ui'.card[net'[q].arg.mock] # None)
             /\ Own(S[q])
  <2>1. TypedRequest(S[q]) /\ Own(S[q])
    BY <1>2, FollowersAreSound
  <2>2. \A c : LET r == Hides(c, S)[q]
               IN  /\ TypedRequest(r) /\ r.op = S[q].op /\ r.home = S[q].home
                   /\ r.op # "flip" \/ ~r.home => r = S[q]
                   /\ r.op = "flip" /\ r.home => (r.arg.card => c.card[r.arg.mock] # None)
    BY <1>2, <2>1, HidesFlips
  <2> HIDE DEF Hides
  <2> QED
    BY <1>1, <2>1, <2>2
<1>4. HasIds(net') /\ Room(net', 0)
  BY <1>2, <1>3, FewerHaveIds DEF Follows
<1>5. UiSound'
  <2>1. CardsTyped(ui') /\ \A m \in Mocks : ui'.card[m] # None => ui'.rows[m] # None
    BY <1>1, CardsAre
  <2> QED
    BY <1>1, <2>1 DEF UiSound, MocksUi, CardsTyped, OnMail, OnList, OnForm, OnMocks, OnMock
<1>6. ASSUME NEW q \in DOMAIN net' PROVE Own(net[q])'
  <2>1. S[q].op \notin {"mails", "mock"} /\ ~(S[q].home /\ S[q].op \in {"open", "test"})
    <3>1. TypedRequest(S[q]) /\ Own(S[q])
      BY <1>2, <1>6, FollowersAreSound
    <3> QED
      BY <3>1 DEF Own, TypedRequest, PageOf, OnMocks, Mutations
  <2>2. S[q].home => page.at = PageOf(S[q].op)
    BY <1>3, <1>6 DEF Own
  <2> HIDE DEF PageOf
  <2> QED
    BY <1>1, <1>3, <1>6, <2>1, <2>2 DEF Own
<1> QED
  BY <1>1, <1>3, <1>4, <1>5, <1>6 DEF DashInv, NetSound, HasIds, Room

\* The requests of S that outlive their page are typed mutations nobody listens to.
LEMMA LeftIs ==
    ASSUME NEW S, NEW q \in DOMAIN LeftBehind(S), q \in DOMAIN S => TypedRequest(S[q])
    PROVE  /\ q \in DOMAIN S /\ TypedRequest(LeftBehind(S)[q])
           /\ LeftBehind(S)[q].op = S[q].op /\ LeftBehind(S)[q].op \in Mutations
           /\ LeftBehind(S)[q].home = FALSE
<1>1. q \in DOMAIN S /\ S[q].op \in Mutations /\ DOMAIN LeftBehind(S) = DOMAIN Orphaned(S, Mutations)
  BY DEF LeftBehind, Orphaned
<1> DEFINE r == [S[q] EXCEPT !.home = FALSE]
           short == [mock |-> r.arg.mock, to |-> r.arg.to]
           f == [r EXCEPT !.arg = short]
<1>2. TypedRequest(S[q])
  BY <1>1
<1>3. /\ DOMAIN r = Fields /\ r.op = S[q].op /\ r.arg = S[q].arg
      /\ r.at = S[q].at /\ r.ans = S[q].ans /\ r.home = FALSE
  BY <1>2 DEF TypedRequest, Fields
<1>4. Orphaned(S, Mutations)[q] = r
  BY <1>1 DEF Orphaned
<1>5. LeftBehind(S)[q] = IF r.op = "flip" THEN f ELSE r
  BY <1>1, <1>4 DEF LeftBehind
<1>6. short.mock = r.arg.mock /\ short.to = r.arg.to
  OBVIOUS
<1> HIDE DEF r
<1> HIDE DEF short
<1>7. /\ DOMAIN f = Fields /\ f.op = r.op /\ f.arg = short
      /\ f.at = r.at /\ f.ans = r.ans /\ f.home = FALSE
  BY <1>3 DEF Fields
<1> HIDE DEF f
<1>8. TypedRequest(r)
  BY <1>1, <1>2, <1>3 DEF TypedRequest
<1>9. r.op = "flip" => TypedRequest(f)
  BY <1>1, <1>2, <1>3, <1>6, <1>7 DEF TypedRequest
<1> QED
  BY <1>1, <1>3, <1>5, <1>7, <1>8, <1>9

\* What a new page has in flight: what was left, and what it asks for itself.
Starts(op, arg, p) ==
    /\ op \in Ops \ Mutations /\ p.at = PageOf(op)
    /\ op = "mails" => arg = p.box
    /\ op = "mock" => arg = p.mock
Mounts(p, S, left) ==
    /\ HasIds(S)
    /\ \A q \in DOMAIN S : \/ q \in DOMAIN left /\ S[q] = left[q]
                           \/ \E op, arg : S[q] = Request(op, arg) /\ Starts(op, arg, p)

LEMMA OneMore ==
    ASSUME NEW p, NEW left, NEW S, Mounts(p, S, left), NEW op, NEW arg, Starts(op, arg, p),
           \A q \in DOMAIN S : S[q].op # op
    PROVE  Mounts(p, Sent(S, op, arg), left)
<1>1. Adds(Sent(S, op, arg), S, op, arg)
  BY SentIs DEF Mounts, Starts
<1> QED
  BY <1>1 DEF Adds, Mounts

LEMMA MountMounts ==
    ASSUME NEW left, HasIds(left), \A q \in DOMAIN left : left[q].op \in Mutations, NEW p \in Routes
    PROVE  Mounts(p, MountRequests(p, left), left)
<1>1. Mounts(p, left, left)
  BY DEF Mounts
<1>2. ASSUME NEW op, NEW arg, Starts(op, arg, p) PROVE Mounts(p, Sent(left, op, arg), left)
  BY <1>1, <1>2, OneMore DEF Starts
<1>3. CASE p.at = "mail" /\ p.box = Inbox
  BY <1>2, <1>3 DEF MountRequests, Starts, PageOf, Ops, Mutations
<1>4. CASE p.at = "mail" /\ p.box # Inbox
  <2> DEFINE S == Sent(left, "box", p.box)
  <2>1. Starts("box", p.box, p) /\ Starts("mails", p.box, p)
    BY <1>4 DEF Starts, PageOf, Ops, Mutations
  <2>2. Mounts(p, S, left)
    BY <1>2, <2>1
  <2>3. Adds(S, left, "box", p.box)
    BY SentIs DEF Ops, Mutations
  <2> HIDE DEF S
  <2>4. \A q \in DOMAIN S : S[q].op # "mails"
    BY <2>3 DEF Adds, Request, Mutations
  <2>5. Mounts(p, Sent(S, "mails", p.box), left)
    BY <2>1, <2>2, <2>4, OneMore
  <2>6. MountRequests(p, left) = Sent(S, "mails", p.box)
    BY <1>4 DEF MountRequests, S
  <2> QED
    BY <2>5, <2>6
<1>5. CASE p.at = "sandboxes"
  BY <1>2, <1>5 DEF MountRequests, Starts, PageOf, Ops, Mutations
<1>6. CASE p.at = "new"
  BY <1>1, <1>6 DEF MountRequests
<1>7. CASE p.at = "mocks"
  BY <1>2, <1>7 DEF MountRequests, Starts, PageOf, Ops, Mutations
<1>8. CASE p.at = "mock"
  BY <1>2, <1>8 DEF MountRequests, Starts, PageOf, Ops, Mutations
<1>9. p.at \in {"mail", "sandboxes", "new", "mocks", "mock"}
  BY DEF Routes
<1> QED
  BY <1>3, <1>4, <1>5, <1>6, <1>7, <1>8, <1>9

\* A page that has just been opened shows nothing yet.
LEMMA UiStarts == ASSUME page' \in Routes, ui' = UiInit(page') PROVE UiSound'
<1>1. CASE OnMail'
  <2>1. ui' = MailInit
    BY <1>1 DEF UiInit, OnMail
  <2>2. IsFiniteSet(Mails) /\ Cardinality(Mails) \in Nat
    BY MailAssumption, FS_CardinalityType
  <2>3. MailUi'
    BY <2>1, <2>2 DEF MailInit, MailUi, Marks
  <2> QED
    BY <1>1, <2>3 DEF UiSound, OnMail, OnList, OnForm, OnMocks, OnMock
<1>2. CASE OnList'
  BY <1>2 DEF UiInit, UiSound, ListUi, ListInit, OnMail, OnList, OnForm, OnMocks, OnMock
<1>3. CASE OnForm'
  BY <1>3 DEF UiInit, UiSound, FormUi, FormInit, OnMail, OnList, OnForm, OnMocks, OnMock
<1>4. CASE OnMocks'
  <2>1. ui' = MocksInit
    BY <1>4 DEF UiInit, OnMocks
  <2>2. MocksUi'
    BY <2>1 DEF MocksInit, MocksUi, CardsTyped, MockRows
  <2> QED
    BY <1>4, <2>2 DEF UiSound, OnMail, OnList, OnForm, OnMocks, OnMock
<1>5. CASE OnMock'
  BY <1>5 DEF UiInit, UiSound, MockUi, EditorInit, OnMail, OnList, OnForm, OnMocks, OnMock
<1> QED
  BY <1>1, <1>2, <1>3, <1>4, <1>5 DEF Routes, OnMail, OnList, OnForm, OnMocks, OnMock

\* Requests of a page that has just been opened.
LEMMA StartIsSound ==
    ASSUME page' \in Routes, NEW left,
           \A q \in DOMAIN left : /\ TypedRequest(left[q]) /\ left[q].op \in Mutations
                                  /\ left[q].home = FALSE,
           Mounts(page', net', left)
    PROVE  NetSound'
<1>1. ASSUME NEW op, NEW arg, Starts(op, arg, page')
      PROVE  /\ TypedRequest(Request(op, arg)) /\ Own(Request(op, arg))'
             /\ \A s : s = Request(op, arg) => Own(s)'
  <2> DEFINE r == Request(op, arg)
  <2>1. DOMAIN r = Fields /\ r.op = op /\ r.arg = arg /\ r.at = "sent" /\ r.home
    BY DEF Request, Fields
  <2> HIDE DEF r
  <2>2. TypedRequest(r)
    BY <1>1, <2>1 DEF TypedRequest, Starts, Mutations
  <2>3. op \notin {"open", "test", "flip"}
    BY <1>1 DEF Starts, Mutations
  <2>4. \A s : s = r => Own(s)'
    BY <1>1, <2>1, <2>3 DEF Own, Starts
  <2> QED
    BY <2>2, <2>4 DEF r, Request, Own, Belongs, Hangs
<1>2. ASSUME NEW q \in DOMAIN net', q \in DOMAIN left, net'[q] = left[q]
      PROVE  TypedRequest(net'[q]) /\ Own(net[q])'
  BY <1>2 DEF Own, Mutations
<1>3. ASSUME NEW q \in DOMAIN net', NEW op, NEW arg, net'[q] = Request(op, arg), Starts(op, arg, page')
      PROVE  TypedRequest(net'[q]) /\ Own(net[q])'
  BY <1>1, <1>3 DEF Own, Belongs, Hangs
<1> QED
  BY <1>2, <1>3 DEF Mounts, NetSound

\* The tab moves to another page.
LEMMA TabGoes ==
    ASSUME DashInv, UNCHANGED <<mishaps, mailTables, mockTables>>, NEW p \in Routes,
           NEW S, Within(S, net), Goto(p, S)
    PROVE  DashInv'
<1> DEFINE left == LeftBehind(S)
<1>1. /\ page' = p /\ net' = MountRequests(p, left) /\ ui' = UiInit(page')
      /\ Room(net', 0)
  BY DEF Goto
<1>2. HasIds(S) /\ \A q \in DOMAIN S : TypedRequest(S[q])
  BY FewerHaveIds DEF DashInv, NetSound, Within
<1>3. \A q \in DOMAIN left : /\ q \in DOMAIN S /\ TypedRequest(left[q])
                             /\ left[q].op = S[q].op /\ left[q].op \in Mutations
                             /\ left[q].home = FALSE
  BY <1>2, LeftIs
<1> HIDE DEF left
<1>4. HasIds(left)
  BY <1>2, <1>3, FewerHaveIds
<1>5. Mounts(p, net', left)
  BY <1>1, <1>3, <1>4, MountMounts
<1>6. UiSound' /\ NetSound'
  BY <1>1, <1>3, <1>5, UiStarts, StartIsSound
<1>7. TablesSound'
  BY TablesKept
<1> QED
  BY <1>1, <1>5, <1>6, <1>7 DEF DashInv, Mounts, HasIds, Room

-----------------------------------------------------------------------------
(* Captured mail.                                                          *)

\* The page of a mailbox goes on.
LEMMA MailGoesOn ==
    ASSUME DashInv, OnMail, PageStep, Follows(net'), MailUi'
    PROVE  DashInv'
<1>1. UiSound' /\ ~OnMocks
  BY DEF UiSound, OnMail, OnList, OnForm, OnMocks, OnMock, PageStep
<1> QED
  BY <1>1, PageGoesOn

\* As far as MailUi goes, nothing of it changes.
LEMMA MailUiStays ==
    ASSUME DashInv, OnMail, PageStep, DOMAIN ui' = DOMAIN MailInit, ui'.emails = ui.emails,
           ui'.total = ui.total, ui'.unread = ui.unread, ui'.selected \in Mails \cup {None},
           ui'.shown = ui.shown
    PROVE  MailUi'
BY DEF DashInv, UiSound, MailUi, Belongs, PageStep, mailTables

\* A request that has neither been sent before nor been answered.
LEMMA MailFresh ==
    ASSUME OnMail, NEW op \in {"open", "remove", "clear", "test", "mails", "creds"}, NEW arg,
           op = "open" => arg.mail \in Mails /\ Belongs(arg.mail),
           op = "mails" => arg = page.box,
           op = "test" => page.box = Inbox
    PROVE  Fresh(op, arg)
<1> DEFINE r == Request(op, arg)
<1>1. DOMAIN r = Fields /\ r.op = op /\ r.arg = arg /\ r.at = "sent" /\ r.home
  BY DEF Request, Fields
<1> HIDE DEF r
<1>2. TypedRequest(r)
  BY <1>1 DEF TypedRequest, Ops, Mutations
<1>3. Own(r)
  BY <1>1 DEF Own, PageOf, OnMail
<1> QED
  BY <1>2, <1>3 DEF Fresh, r, Ops, Mutations

LEMMA MailSends ==
    ASSUME DashInv, OnMail, PageStep, Room(net, 1),
           NEW op \in {"open", "remove", "clear", "test", "mails", "creds"}, NEW arg,
           op = "open" => arg.mail \in Mails /\ Belongs(arg.mail),
           op = "mails" => arg = page.box,
           op = "test" => page.box = Inbox,
           net' = Sent(net, op, arg),
           DOMAIN ui' = DOMAIN MailInit, ui'.emails = ui.emails,
           ui'.total = ui.total, ui'.unread = ui.unread, ui'.selected \in Mails \cup {None},
           ui'.shown = ui.shown
    PROVE  DashInv'
BY MailFresh, SentFollows, MailUiStays, MailGoesOn

LEMMA MailClickIsSound == ASSUME DashInv, MailClick PROVE DashInv'
<1>1. CASE LeaveMail
  <2>1. ListRoute \in Routes /\ Within(net, net)
    BY DEF ListRoute, Routes, Within
  <2> QED
    BY <1>1, <2>1, TabGoes DEF LeaveMail
<1>2. CASE ~LeaveMail
  <2>1. OnMail /\ PageStep
    BY <1>2 DEF MailClick, Select, Remove, Clear, ShowCreds, HideCreds, OpenTest, CloseTest, SendTest,
                MailRows, InboxRows, SandboxRows, OnScreen, InboxPane, SandboxPane, InPane, OnInbox,
                OnSandbox, MayClearInbox, MayClearSandbox, Banner, InboxBanner, SandboxBanner
  <2>2. MailUi
    BY <2>1 DEF DashInv, UiSound
  <2>3. ASSUME NEW m \in Mails, Select(m) PROVE DashInv'
    <3>1. m \in Shown /\ Belongs(m) /\ Room(net, 1)
      BY <2>2, <2>3 DEF Select, MailRows, InboxRows, SandboxRows, Shown, MailUi, RoomToAct
    <3> DEFINE arg == [box |-> page.box, mail |-> m, fresh |-> ui.emails[m] = "unread"]
    <3>2. arg.mail = m /\ net' = Sent(net, "open", arg)
      BY <2>3 DEF Select
    <3>3. /\ DOMAIN ui' = DOMAIN MailInit /\ ui'.emails = ui.emails /\ ui'.total = ui.total
          /\ ui'.unread = ui.unread /\ ui'.selected \in Mails \cup {None} /\ ui'.shown = ui.shown
      BY <2>2, <2>3 DEF Select, MailUi, MailInit
    <3> HIDE DEF arg
    <3> QED
      BY <2>1, <3>1, <3>2, <3>3, MailSends
  <2>4. CASE Remove \/ Clear \/ ShowCreds \/ SendTest
    <3>1. Room(net, 1) /\ \E op \in {"remove", "clear", "creds", "test"} : \E arg :
             /\ net' = Sent(net, op, arg) /\ (op = "test" => page.box = Inbox)
      BY <2>4 DEF Remove, Clear, ShowCreds, SendTest, RoomToAct, InboxBanner, OnInbox
    <3>2. /\ DOMAIN ui' = DOMAIN MailInit /\ ui'.emails = ui.emails /\ ui'.total = ui.total
          /\ ui'.unread = ui.unread /\ ui'.selected \in Mails \cup {None} /\ ui'.shown = ui.shown
      BY <2>2, <2>4 DEF Remove, Clear, ShowCreds, SendTest, MailUi, MailInit
    <3> QED
      BY <2>1, <3>1, <3>2, MailSends
  <2>5. CASE HideCreds \/ OpenTest
    <3>1. /\ DOMAIN ui' = DOMAIN MailInit /\ ui'.emails = ui.emails /\ ui'.total = ui.total
          /\ ui'.unread = ui.unread /\ ui'.selected \in Mails \cup {None} /\ ui'.shown = ui.shown
          /\ UNCHANGED net
      BY <2>2, <2>5 DEF HideCreds, OpenTest, MailUi, MailInit
    <3> QED
      BY <2>1, <3>1, NothingFollows, MailUiStays, MailGoesOn
  <2>6. CASE CloseTest
    <3>1. /\ DOMAIN ui' = DOMAIN MailInit /\ ui'.emails = ui.emails /\ ui'.total = ui.total
          /\ ui'.unread = ui.unread /\ ui'.selected \in Mails \cup {None} /\ ui'.shown = ui.shown
      BY <2>2, <2>6 DEF CloseTest, MailUi, MailInit
    <3>2. MailUi' /\ page' = page /\ mishaps' = mishaps /\ TablesSound' /\ Kept /\ ~OnMocks
      BY <2>1, <3>1, MailUiStays, TablesKept DEF PageStep, OnMail, OnMocks
    <3>3. UiSound'
      BY <2>1, <3>2 DEF UiSound, OnMail, OnList, OnForm, OnMocks, OnMock
    <3>4. ASSUME NEW q \in DOMAIN net, TypedRequest(net[q]), Own(net[q])
          PROVE  TypedRequest(net'[q]) /\ Own(net'[q]) /\ net'[q].op = net[q].op
      <4> DEFINE r == [net[q] EXCEPT !.arg = "closed"]
      <4>1. CASE net[q].op = "test" /\ net[q].home
        <5>1. net'[q] = r
          BY <2>6, <4>1 DEF CloseTest
        <5>2. /\ DOMAIN r = Fields /\ r.op = "test" /\ r.home = net[q].home
              /\ r.at = net[q].at /\ r.ans = net[q].ans
          BY <3>4, <4>1 DEF TypedRequest, Fields
        <5> HIDE DEF r
        <5> QED
          BY <3>4, <4>1, <5>1, <5>2 DEF TypedRequest, Own, Mutations, Ops
      <4>2. CASE ~(net[q].op = "test" /\ net[q].home)
        BY <2>6, <3>4, <4>2 DEF CloseTest
      <4> QED
        BY <4>1, <4>2
    <3>5. DOMAIN net' = DOMAIN net
      BY <2>6 DEF CloseTest
    <3>6. HasIds(net') /\ Room(net', 0)
      BY <3>4, <3>5, FewerHaveIds DEF DashInv, NetSound
    <3>7. ASSUME NEW q \in DOMAIN net' PROVE TypedRequest(net'[q]) /\ Own(net[q])'
      <4>1. TypedRequest(net'[q]) /\ Own(net'[q])
        BY <3>4, <3>5, <3>7 DEF DashInv, NetSound
      <4>2. \A s : TypedRequest(s) /\ Own(s) /\ s = net'[q] => Own(net[q])'
        <5> SUFFICES ASSUME NEW s, TypedRequest(s), Own(s), s = net'[q] PROVE Own(net[q])'
          OBVIOUS
        <5>1. Own(s)'
          BY <3>2, OwnKept
        <5> QED
          BY <5>1 DEF Own, Belongs, Hangs
      <4> QED
        BY <4>1, <4>2
    <3> QED
      BY <3>2, <3>3, <3>6, <3>7 DEF DashInv, NetSound, HasIds, Room
  <2> QED
    BY <1>2, <2>3, <2>4, <2>5, <2>6 DEF MailClick
<1> QED
  BY <1>1, <1>2

LEMMA FetchIsSound == ASSUME DashInv, FetchMails PROVE DashInv'
<1>1. OnMail /\ PageStep /\ Room(net, 1) /\ net' = Sent(net, "mails", page.box) /\ UNCHANGED ui
  BY DEF FetchMails
<1>2. MailUi
  BY <1>1 DEF DashInv, UiSound
<1> QED
  BY <1>1, <1>2, MailSends DEF MailUi

\* The box, less of it or more of it read.
LEMMA MailUiLess ==
    ASSUME DashInv, OnMail, PageStep, DOMAIN ui' = DOMAIN MailInit,
           ui'.emails \in [Mails -> Marks],
           \A m \in Mails : ui'.emails[m] # "absent" => ui.emails[m] # "absent",
           ui'.total \in Int, ui'.unread \in 0..Cardinality(Mails),
           ui'.selected \in Mails \cup {None}, ui'.shown \in Mails \cup {None},
           ui'.shown \in {None, ui.shown} \/ Belongs(ui'.shown)
    PROVE  MailUi'
BY DEF DashInv, UiSound, MailUi, Belongs, PageStep, mailTables

LEMMA OneFewer ==
    ASSUME NEW n \in 0..Cardinality(Mails) PROVE Fewer(n) \in 0..Cardinality(Mails)
<1>1. Cardinality(Mails) \in Nat
  BY MailAssumption, FS_CardinalityType
<1> QED
  BY <1>1 DEF Fewer

\* The message that was asked for is in the pane.
LEMMA OpensIs ==
    ASSUME DashInv, OnMail, PageStep, NEW m \in Mails, Belongs(m),
           NEW fewer \in 0..Cardinality(Mails), ui' = Opens(m, fewer)
    PROVE  MailUi'
<1>1. MailUi
  BY DEF DashInv, UiSound
<1> DEFINE mark == IF ui.emails[m] = "absent" THEN ui.emails[m] ELSE "read"
           emails == [ui.emails EXCEPT ![m] = mark]
<1>2. emails \in [Mails -> Marks] /\ \A n \in Mails : emails[n] # "absent" => ui.emails[n] # "absent"
  BY <1>1 DEF MailUi, Marks
<1>3. ui' = [ui EXCEPT !.shown = m, !.detailLoading = FALSE, !.emails = emails, !.unread = fewer]
  BY DEF Opens
<1> HIDE DEF emails
<1>4. /\ DOMAIN ui' = DOMAIN MailInit /\ ui'.emails = emails /\ ui'.total = ui.total
      /\ ui'.unread = fewer /\ ui'.selected = ui.selected /\ ui'.shown = m
  BY <1>1, <1>3 DEF MailUi, MailInit
<1> QED
  BY <1>1, <1>2, <1>4, MailUiLess DEF MailUi

LEMMA RemovesIs ==
    ASSUME DashInv, OnMail, PageStep, NEW a, NEW left \in Int, ui' = Removes(a, left)
    PROVE  MailUi'
<1>1. MailUi
  BY DEF DashInv, UiSound
<1> DEFINE emails == [ui.emails EXCEPT ![a.mail] = "absent"]
           gone == [ui EXCEPT !.emails = emails, !.total = left]
<1>2. emails \in [Mails -> Marks] /\ \A n \in Mails : emails[n] # "absent" => ui.emails[n] # "absent"
  BY <1>1 DEF MailUi, Marks
<1>3. ui' = IF a.fresh THEN [gone EXCEPT !.selected = None, !.shown = None] ELSE gone
  BY DEF Removes
<1> HIDE DEF emails
<1>4. /\ DOMAIN gone = DOMAIN MailInit /\ gone.emails = emails /\ gone.total = left
      /\ gone.unread = ui.unread /\ gone.selected = ui.selected /\ gone.shown = ui.shown
  BY <1>1 DEF MailUi, MailInit
<1> HIDE DEF gone
<1>5. /\ DOMAIN ui' = DOMAIN MailInit /\ ui'.emails = emails /\ ui'.total = left
      /\ ui'.unread = ui.unread /\ ui'.selected \in {None, ui.selected}
      /\ ui'.shown \in {None, ui.shown}
  BY <1>3, <1>4 DEF MailInit
<1> QED
  BY <1>1, <1>2, <1>5, MailUiLess DEF MailUi

LEMMA MailAnswerIsSound == ASSUME DashInv, MailAnswered PROVE DashInv'
<1>1. PICK q \in DOMAIN net : \/ MailsLoaded(q) \/ BoxLoaded(q) \/ Opened(q) \/ Removed(q)
                              \/ Cleared(q) \/ CredsLoaded(q) \/ Tested(q)
  BY DEF MailAnswered
<1>2. TypedRequest(net[q]) /\ Own(net[q]) /\ PageStep
  BY <1>1 DEF DashInv, NetSound, MailsLoaded, BoxLoaded, Opened, Removed, Cleared, CredsLoaded, Tested
<1>3. net[q].home => page.at = PageOf(net[q].op)
  BY <1>2 DEF Own
<1>4. ASSUME ~net[q].home, UNCHANGED ui, net' = Done(q) PROVE DashInv'
  BY <1>2, <1>4, DoneFollows, NothingShown, PageGoesOn
<1>5. ASSUME OnMail, net' = Done(q), MailUi' PROVE DashInv'
  BY <1>2, <1>5, DoneFollows, MailGoesOn
<1>6. OnMail => MailUi
  BY DEF DashInv, UiSound
<1>7. CASE MailsLoaded(q)
  <2>1. /\ net[q].op = "mails" /\ net[q].at \in {"ok", "failed"} /\ net' = Done(q)
        /\ ui' = IF net[q].at = "ok"
                 THEN [ui EXCEPT !.emails = net[q].ans.emails, !.total = net[q].ans.total,
                                   !.unread = net[q].ans.unread, !.loading = FALSE]
                 ELSE [ui EXCEPT !.loading = FALSE]
    BY <1>7 DEF MailsLoaded, Answered
  <2>2. OnMail
    BY <1>2, <1>3, <2>1 DEF TypedRequest, PageOf, OnMail, Mutations
  <2>3. CASE net[q].at = "ok"
    <3> DEFINE a == net[q].ans
    <3>1. ListingTyped(a) /\ \A m \in Mails : a.emails[m] # "absent" => Belongs(m)
      BY <1>2, <2>1, <2>3 DEF TypedRequest, Own
    <3> HIDE DEF a
    <3>2. /\ DOMAIN ui' = DOMAIN MailInit /\ ui'.emails = a.emails /\ ui'.total = a.total
          /\ ui'.unread = a.unread /\ ui'.selected = ui.selected /\ ui'.shown = ui.shown
      BY <1>6, <2>1, <2>2, <2>3 DEF MailUi, MailInit, a
    <3>3. MailUi'
      BY <1>2, <1>6, <2>2, <3>1, <3>2 DEF MailUi, ListingTyped, Belongs, PageStep, mailTables
    <3> QED
      BY <1>5, <2>1, <2>2, <3>3
  <2>4. CASE net[q].at # "ok"
    <3>1. /\ DOMAIN ui' = DOMAIN MailInit /\ ui'.emails = ui.emails /\ ui'.total = ui.total
          /\ ui'.unread = ui.unread /\ ui'.selected \in Mails \cup {None} /\ ui'.shown = ui.shown
      BY <1>6, <2>1, <2>2, <2>4 DEF MailUi, MailInit
    <3> QED
      BY <1>2, <1>5, <2>1, <2>2, <3>1, MailUiStays
  <2> QED
    BY <2>3, <2>4
<1>8. CASE BoxLoaded(q) \/ CredsLoaded(q)
  <2>1. net[q].op \in {"box", "creds"} /\ net' = Done(q)
    BY <1>8 DEF BoxLoaded, CredsLoaded, Answered
  <2>2. OnMail
    BY <1>2, <1>3, <2>1 DEF TypedRequest, PageOf, OnMail, Mutations
  <2>3. /\ DOMAIN ui' = DOMAIN MailInit /\ ui'.emails = ui.emails /\ ui'.total = ui.total
        /\ ui'.unread = ui.unread /\ ui'.selected \in Mails \cup {None} /\ ui'.shown = ui.shown
    BY <1>6, <1>8, <2>2 DEF BoxLoaded, CredsLoaded, MailUi, MailInit
  <2> QED
    BY <1>2, <1>5, <2>1, <2>2, <2>3, MailUiStays
<1>9. CASE Opened(q)
  <2>1. net[q].op = "open" /\ net' = Done(q)
    BY <1>9 DEF Opened, Answered
  <2>2. CASE ~net[q].home
    BY <1>4, <1>9, <2>1, <2>2 DEF Opened
  <2>3. CASE net[q].home
    <3>1. OnMail /\ net[q].arg.mail \in Mails /\ Belongs(net[q].arg.mail)
      BY <1>2, <1>3, <2>1, <2>3 DEF TypedRequest, Own, PageOf, OnMail
    <3>2. CASE ui' = [ui EXCEPT !.detailLoading = FALSE]
      <4>1. /\ DOMAIN ui' = DOMAIN MailInit /\ ui'.emails = ui.emails /\ ui'.total = ui.total
            /\ ui'.unread = ui.unread /\ ui'.selected \in Mails \cup {None} /\ ui'.shown = ui.shown
        BY <1>6, <3>1, <3>2 DEF MailUi, MailInit
      <4> QED
        BY <1>2, <1>5, <2>1, <3>1, <4>1, MailUiStays
    <3>3. ASSUME NEW fewer \in 0..Cardinality(Mails), ui' = Opens(net[q].arg.mail, fewer) PROVE DashInv'
      BY <1>2, <1>5, <2>1, <3>1, <3>3, OpensIs
    <3>4. ui.unread \in 0..Cardinality(Mails) /\ Fewer(ui.unread) \in 0..Cardinality(Mails)
      BY <1>6, <3>1, OneFewer DEF MailUi
    <3>5. \/ ui' = [ui EXCEPT !.detailLoading = FALSE]
          \/ ui' = Opens(net[q].arg.mail, Fewer(ui.unread))
          \/ ui' = Opens(net[q].arg.mail, ui.unread)
      BY <1>9, <2>3 DEF Opened, InboxOpens, SandboxOpens
    <3> QED
      BY <3>2, <3>3, <3>4, <3>5
  <2> QED
    BY <2>2, <2>3
<1>10. CASE Removed(q)
  <2>1. net[q].op = "remove" /\ net' = Done(q)
    BY <1>10 DEF Removed, Answered
  <2>2. CASE ~net[q].home
    BY <1>4, <1>10, <2>1, <2>2 DEF Removed
  <2>3. CASE net[q].home
    <3>1. OnMail /\ ui.total \in Int
      BY <1>3, <1>6, <2>1, <2>3 DEF PageOf, OnMail, MailUi
    <3>2. \/ ui' = ui \/ ui' = Removes(net[q].arg, ui.total - 1)
          \/ ui' = Removes(net[q].arg, Fewer(ui.total))
      BY <1>10 DEF Removed, InboxRemoves, SandboxRemoves
    <3>3. ui.total - 1 \in Int /\ Fewer(ui.total) \in Int
      BY <3>1 DEF Fewer
    <3>4. ui' = ui => MailUi'
      BY <1>2, <1>6, <3>1, MailUiStays DEF MailUi
    <3>5. MailUi'
      BY <1>2, <3>1, <3>2, <3>3, <3>4, RemovesIs
    <3> QED
      BY <1>5, <2>1, <3>1, <3>5
  <2> QED
    BY <2>2, <2>3
<1>11. CASE Cleared(q)
  <2>1. net[q].op = "clear" /\ net' = Done(q)
    BY <1>11 DEF Cleared, Answered
  <2>2. CASE ~net[q].home
    BY <1>4, <1>11, <2>1, <2>2 DEF Cleared
  <2>3. CASE net[q].home
    <3>1. OnMail
      BY <1>3, <2>1, <2>3 DEF PageOf, OnMail
    <3>2. ui' = ui => MailUi'
      BY <1>2, <1>6, <3>1, MailUiStays DEF MailUi
    <3> DEFINE empty == MailInit.emails
    <3>3. empty \in [Mails -> Marks] /\ \A m \in Mails : empty[m] = "absent"
      BY DEF MailInit, Marks
    <3> HIDE DEF empty
    <3>4. CASE ui' = [ui EXCEPT !.emails = empty, !.total = 0, !.unread = 0,
                                !.selected = None, !.shown = None]
      <4>1. /\ DOMAIN ui' = DOMAIN MailInit /\ ui'.emails = empty /\ ui'.total = 0
            /\ ui'.unread = 0 /\ ui'.selected = None /\ ui'.shown = None
        BY <1>6, <3>1, <3>4 DEF MailUi, MailInit
      <4>2. 0 \in 0..Cardinality(Mails)
        BY MailAssumption, FS_CardinalityType
      <4> QED
        BY <1>2, <1>5, <2>1, <3>1, <3>3, <4>1, <4>2, MailUiLess
    <3>5. ui' = ui \/ ui' = [ui EXCEPT !.emails = empty, !.total = 0, !.unread = 0,
                                       !.selected = None, !.shown = None]
      BY <1>11 DEF Cleared, empty
    <3> QED
      BY <1>5, <2>1, <3>1, <3>2, <3>4, <3>5
  <2> QED
    BY <2>2, <2>3
<1>12. CASE Tested(q)
  <2>1. net[q].op = "test" /\ Room(Done(q), 1)
    BY <1>12 DEF Tested, Answered
  <2>2. CASE ~net[q].home
    BY <1>4, <1>12, <2>2 DEF Tested
  <2>3. CASE net[q].home
    <3>1. OnMail /\ page.box = Inbox
      BY <1>2, <1>3, <2>1, <2>3 DEF Own, PageOf, OnMail
    <3>2. Fresh("mails", Inbox)
      BY <3>1, MailFresh
    <3>3. Follows(net')
      BY <1>12, <2>1, <3>2, SwapFollows, DoneFollows DEF Tested
    <3>4. /\ DOMAIN ui' = DOMAIN MailInit /\ ui'.emails = ui.emails /\ ui'.total = ui.total
          /\ ui'.unread = ui.unread /\ ui'.selected \in Mails \cup {None} /\ ui'.shown = ui.shown
      BY <1>6, <1>12, <3>1 DEF Tested, MailUi, MailInit
    <3> QED
      BY <1>2, <3>1, <3>3, <3>4, MailUiStays, MailGoesOn
  <2> QED
    BY <2>2, <2>3
<1> QED
  BY <1>1, <1>7, <1>8, <1>9, <1>10, <1>11, <1>12

-----------------------------------------------------------------------------
(* The sandboxes, and the form that adds one.                              *)

LEMMA ListPageGoesOn ==
    ASSUME DashInv, OnList, PageStep, Follows(net'), ListUi'
    PROVE  DashInv'
<1>1. UiSound' /\ ~OnMocks
  BY DEF UiSound, OnMail, OnList, OnForm, OnMocks, OnMock, PageStep
<1> QED
  BY <1>1, PageGoesOn

LEMMA FormGoesOn ==
    ASSUME DashInv, OnForm, PageStep, Follows(net'), FormUi'
    PROVE  DashInv'
<1>1. UiSound' /\ ~OnMocks
  BY DEF UiSound, OnMail, OnList, OnForm, OnMocks, OnMock, PageStep
<1> QED
  BY <1>1, PageGoesOn

LEMMA SandboxFresh ==
    ASSUME NEW op \in {"boxes", "toggle", "check", "create"}, NEW arg, page.at = PageOf(op),
           op = "toggle" => arg.box \in Boxes /\ arg.active \in BOOLEAN,
           op = "create" => arg \in Prefixes
    PROVE  Fresh(op, arg)
<1> DEFINE r == Request(op, arg)
<1>1. DOMAIN r = Fields /\ r.op = op /\ r.arg = arg /\ r.at = "sent" /\ r.home
  BY DEF Request, Fields
<1> HIDE DEF r
<1>2. TypedRequest(r)
  BY <1>1 DEF TypedRequest, Ops, Mutations
<1>3. Own(r)
  BY <1>1 DEF Own
<1> QED
  BY <1>2, <1>3 DEF Fresh, r, Ops, Mutations

LEMMA SandboxClickIsSound == ASSUME DashInv, SandboxClick \/ Check PROVE DashInv'
<1>1. (OnList => ListUi) /\ (OnForm => FormUi)
  BY DEF DashInv, UiSound
<1>2. CASE SelectTag
  <2>1. /\ OnList /\ PageStep /\ Room(net, 1) /\ net' = Sent(net, "boxes", ui'.tag)
        /\ ui' = [ui EXCEPT !.tag = ~@, !.loading = TRUE]
    BY <1>2 DEF SelectTag
  <2>2. ListUi'
    BY <1>1, <2>1 DEF ListUi, ListInit
  <2>3. \A arg : Fresh("boxes", arg)
    BY <2>1, SandboxFresh DEF PageOf, OnList
  <2>4. \A arg : net' = Sent(net, "boxes", arg) => Follows(net')
    BY <2>1, <2>3, SentFollows
  <2> QED
    BY <2>1, <2>2, <2>4, ListPageGoesOn
<1>3. ASSUME NEW b \in Boxes, Toggle(b) PROVE DashInv'
  <2> DEFINE arg == [box |-> b, active |-> ui.rows[b] = "off"]
  <2>1. /\ OnList /\ PageStep /\ Room(net, 1) /\ net' = Sent(net, "toggle", arg)
        /\ ui' = [ui EXCEPT !.toggling = b]
    BY <1>3 DEF Toggle, RoomToAct
  <2>2. ListUi'
    BY <1>1, <2>1 DEF ListUi, ListInit
  <2>3. arg.box \in Boxes /\ arg.active \in BOOLEAN
    OBVIOUS
  <2> HIDE DEF arg
  <2>4. Fresh("toggle", arg)
    BY <2>1, <2>3, SandboxFresh DEF PageOf, OnList
  <2> QED
    BY <2>1, <2>2, <2>4, SentFollows, ListPageGoesOn
<1>4. CASE LeaveList
  <2>1. NewRoute \in Routes /\ Within(net, net) /\ \A b \in Boxes : MailRoute(b) \in Routes
    BY DEF NewRoute, MailRoute, Routes, Within
  <2>2. Goto(NewRoute, net) \/ \E b \in Boxes : Goto(MailRoute(b), net)
    BY <1>4 DEF LeaveList, Listed
  <2> QED
    BY <1>4, <2>1, <2>2, TabGoes DEF LeaveList
<1>5. ASSUME OnForm, NEW p \in Prefixes \cup {None}, SetPrefix(p) PROVE DashInv'
  <2>1. PageStep /\ UNCHANGED net
    BY <1>5 DEF SetPrefix
  <2>2. FormUi'
    BY <1>1, <1>5 DEF SetPrefix, FormUi, FormInit
  <2> QED
    BY <1>5, <2>1, <2>2, NothingFollows, FormGoesOn
<1>6. CASE TrySuggestion
  <2>1. ui.suggestion \in Prefixes \cup {None}
    BY <1>1, <1>6 DEF TrySuggestion, FormUi
  <2> QED
    BY <1>5, <1>6, <2>1 DEF TrySuggestion
<1>7. CASE Submit
  <2>1. /\ OnForm /\ PageStep /\ Room(net, 1) /\ net' = Sent(net, "create", ui.prefix)
        /\ ui.prefix # None /\ ui' = [ui EXCEPT !.submitting = TRUE]
    BY <1>7 DEF Submit, MaySubmit
  <2>2. FormUi' /\ ui.prefix \in Prefixes
    BY <1>1, <2>1 DEF FormUi, FormInit
  <2>3. Fresh("create", ui.prefix)
    BY <2>1, <2>2, SandboxFresh DEF PageOf, OnForm
  <2> QED
    BY <2>1, <2>2, <2>3, SentFollows, FormGoesOn
<1>8. CASE LeaveForm
  <2>1. ListRoute \in Routes /\ Within(net, net)
    BY DEF ListRoute, Routes, Within
  <2> QED
    BY <1>8, <2>1, TabGoes DEF LeaveForm
<1>9. CASE Check
  <2>1. /\ OnForm /\ PageStep /\ Room(net, 1) /\ net' = Sent(net, "check", ui.prefix)
        /\ ui' = [ui EXCEPT !.timer = FALSE]
    BY <1>9 DEF Check
  <2>2. FormUi'
    BY <1>1, <2>1 DEF FormUi, FormInit
  <2>3. Fresh("check", ui.prefix)
    BY <2>1, SandboxFresh DEF PageOf, OnForm
  <2> QED
    BY <2>1, <2>2, <2>3, SentFollows, FormGoesOn
<1>10. ASSUME NEW p \in Prefixes \cup {None}, Type(p) PROVE DashInv'
  BY <1>5, <1>10 DEF Type
<1> QED
  BY <1>2, <1>3, <1>4, <1>6, <1>7, <1>8, <1>9, <1>10 DEF SandboxClick

LEMMA SandboxAnswerIsSound == ASSUME DashInv, SandboxAnswered PROVE DashInv'
<1>1. PICK q \in DOMAIN net : BoxesLoaded(q) \/ Toggled(q) \/ Checked(q) \/ Submitted(q)
  BY DEF SandboxAnswered
<1>2. TypedRequest(net[q]) /\ Own(net[q]) /\ (OnList => ListUi) /\ (OnForm => FormUi)
  BY <1>1 DEF DashInv, NetSound, UiSound
<1>3. net[q].home => page.at = PageOf(net[q].op)
  BY <1>2 DEF Own
<1>4. ASSUME PageStep, UNCHANGED ui, net' = Done(q) PROVE DashInv'
  BY <1>4, DoneFollows, NothingShown, PageGoesOn
<1>5. CASE BoxesLoaded(q)
  <2>1. net[q].op = "boxes" /\ net' = Done(q) /\ PageStep
    BY <1>5 DEF BoxesLoaded, Answered
  <2>2. OnList
    BY <1>2, <1>3, <2>1 DEF TypedRequest, PageOf, OnList, Mutations
  <2>3. ListUi'
    BY <1>2, <1>5, <2>2 DEF BoxesLoaded, ListUi, ListInit
  <2> QED
    BY <2>1, <2>2, <2>3, DoneFollows, ListPageGoesOn
<1>6. CASE Toggled(q)
  <2>1. net[q].op = "toggle" /\ net' = Done(q) /\ PageStep
    BY <1>6 DEF Toggled, Answered
  <2>2. CASE ~net[q].home
    BY <1>4, <1>6, <2>1, <2>2 DEF Toggled
  <2>3. CASE net[q].home
    <3>1. OnList
      BY <1>3, <2>1, <2>3 DEF PageOf, OnList
    <3>2. \/ ui' = [ui EXCEPT !.rows[net[q].arg.box] = Flip(@), !.toggling = None]
          \/ ui' = [ui EXCEPT !.toggling = None]
      BY <1>6, <2>3 DEF Toggled
    <3>3. ListUi'
      <4> HIDE DEF Flip
      <4> QED
        BY <1>2, <3>1, <3>2 DEF ListUi, ListInit
    <3> QED
      BY <2>1, <3>1, <3>3, DoneFollows, ListPageGoesOn
  <2> QED
    BY <2>2, <2>3
<1>7. CASE Checked(q)
  <2>1. net[q].op = "check" /\ net' = Done(q) /\ PageStep /\ net[q].at \in {"ok", "failed"}
    BY <1>7 DEF Checked, Answered
  <2>2. OnForm
    BY <1>2, <1>3, <2>1 DEF TypedRequest, PageOf, OnForm, Mutations
  <2>3. net[q].at = "ok" => net[q].ans.suggestion \in Prefixes \cup {None}
    BY <1>2, <2>1 DEF TypedRequest
  <2>4. FormUi'
    BY <1>2, <1>7, <2>1, <2>2, <2>3 DEF Checked, FormUi, FormInit
  <2> QED
    BY <2>1, <2>2, <2>4, DoneFollows, FormGoesOn
<1>8. CASE Submitted(q)
  <2>1. net[q].op = "create" /\ UNCHANGED <<mishaps, mailTables, mockTables>>
    BY <1>8 DEF Submitted, Answered
  <2>2. CASE net[q].at = "ok"
    <3>1. MailRoute(net[q].ans) \in Routes
      BY <1>2, <2>1, <2>2 DEF TypedRequest, MailRoute, Routes
    <3>2. CASE Goto(MailRoute(net[q].ans), Done(q))
      BY <2>1, <3>1, <3>2, DoneIsWithin, TabGoes
    <3>3. CASE net' = Done(q) /\ UNCHANGED <<page, ui>>
      BY <1>4, <2>1, <3>3 DEF PageStep
    <3> QED
      BY <1>8, <2>2, <3>2, <3>3 DEF Submitted
  <2>3. CASE net[q].at # "ok"
    <3>1. PageStep /\ net' = Done(q) /\ ui' = IF net[q].home THEN [ui EXCEPT !.submitting = FALSE] ELSE ui
      BY <1>8, <2>1, <2>3 DEF Submitted, PageStep
    <3>2. CASE ~net[q].home
      BY <1>4, <3>1, <3>2
    <3>3. CASE net[q].home
      <4>1. OnForm
        BY <1>3, <2>1, <3>3 DEF PageOf, OnForm
      <4>2. FormUi'
        BY <1>2, <3>1, <3>3, <4>1 DEF FormUi, FormInit
      <4> QED
        BY <3>1, <4>1, <4>2, DoneFollows, FormGoesOn
    <3> QED
      BY <3>2, <3>3
  <2> QED
    BY <2>2, <2>3
<1> QED
  BY <1>1, <1>5, <1>6, <1>7, <1>8

-----------------------------------------------------------------------------
(* What answers the pages, and everybody else.                             *)

\* The answer is one that the page of q can take.
Takes(q, stage, ans) ==
    stage = "ok" =>
      /\ net[q].op = "mails" => /\ ListingTyped(ans)
                                /\ \A m \in Mails : ans.emails[m] # "absent" => at'[m] = net[q].arg
      /\ net[q].op = "check" => ans.suggestion \in Prefixes \cup {None}
      /\ net[q].op = "create" => ans \in Boxes
      /\ net[q].op = "endpoint" => ans \in Mocks
      /\ net[q].op = "mocks" => ans \in MockRows
      /\ net[q].op = "mock" => ans \subseteq Children /\ \A c \in ans : child'[c] = net[q].arg

\* What is shown belongs to its page still.
LEMMA UiKept == ASSUME DashInv, UNCHANGED <<page, ui>>, Kept PROVE UiSound'
<1>1. /\ OnMail => \A m \in Mails : Belongs(m) => Belongs(m)'
      /\ OnMock => \A c \in Children : Hangs(c) => Hangs(c)'
  BY KeptOnPage DEF DashInv
<1> HIDE DEF Belongs, Hangs
<1>2. UiSound
  BY DEF DashInv
<1>3. OnMail => MailUi'
  <2>1. OnMail => \A m \in Mails : ui.emails[m] # "absent" => Belongs(m)'
    BY <1>1, <1>2 DEF UiSound, MailUi
  <2>2. OnMail /\ ui.shown # None => Belongs(ui.shown)'
    <3> SUFFICES ASSUME OnMail, ui.shown # None PROVE Belongs(ui.shown)'
      OBVIOUS
    <3>1. ui.shown \in Mails /\ Belongs(ui.shown) /\ ui' = ui
      BY <1>2 DEF UiSound, MailUi
    <3>2. \A m \in Mails : Belongs(m) => Belongs(m)'
      BY <1>1
    <3> QED
      BY <3>1, <3>2 DEF Belongs
  <2> QED
    BY <1>2, <2>1, <2>2 DEF UiSound, MailUi, Belongs
<1>4. OnMock => MockUi'
  <2>1. OnMock => \A c \in ui.list : c \in Children /\ Hangs(c)'
    BY <1>1, <1>2 DEF UiSound, MockUi
  <2> QED
    BY <1>2, <2>1 DEF UiSound, MockUi, Hangs
<1> QED
  BY <1>2, <1>3, <1>4 DEF UiSound, ListUi, FormUi, MocksUi, CardsTyped,
       OnMail, OnList, OnForm, OnMocks, OnMock

\* Nothing in flight is answered.
LEMMA TablesGoOn ==
    ASSUME DashInv, UNCHANGED <<page, ui, net>>, mishaps' \in 0..MaxMishaps, TablesSound', Kept
    PROVE  DashInv'
<1>1. ASSUME NEW q \in DOMAIN net PROVE TypedRequest(net'[q]) /\ Own(net[q])'
  <2>1. TypedRequest(net[q]) /\ Own(net[q])
    BY DEF DashInv, NetSound
  <2>2. \A s : TypedRequest(s) /\ Own(s) /\ s = net[q] => Own(net[q])'
    <3> SUFFICES ASSUME NEW s, TypedRequest(s), Own(s), s = net[q] PROVE Own(net[q])'
      OBVIOUS
    <3>1. Own(s)'
      BY OwnKept
    <3> QED
      BY <3>1 DEF Own, Belongs, Hangs
  <2> QED
    BY <2>1, <2>2
<1> QED
  BY <1>1, UiKept DEF DashInv, NetSound, HasIds, Room

\* A reply changes one request, and of it how far it is and its answer.
LEMMA MovedOne ==
    ASSUME NEW q \in DOMAIN net, DOMAIN net[q] = Fields, NEW stage, NEW ans,
           net' = Moved(q, stage, ans)
    PROVE  /\ DOMAIN net' = DOMAIN net /\ \A p \in DOMAIN net : p # q => net'[p] = net[p]
           /\ DOMAIN net'[q] = Fields /\ net'[q].op = net[q].op /\ net'[q].home = net[q].home
           /\ net'[q].arg = net[q].arg /\ net'[q].at = stage /\ net'[q].ans = ans
<1> DEFINE r == [net[q] EXCEPT !.at = stage, !.ans = ans]
<1>1. net' = [net EXCEPT ![q] = r]
  BY DEF Moved
<1>2. /\ DOMAIN r = Fields /\ r.op = net[q].op /\ r.home = net[q].home /\ r.arg = net[q].arg
      /\ r.at = stage /\ r.ans = ans
  BY DEF Fields
<1> HIDE DEF r
<1> QED
  BY <1>1, <1>2

\* The server moves q along.
LEMMA ServerGoesOn ==
    ASSUME DashInv, UNCHANGED <<page, ui>>, mishaps' \in 0..MaxMishaps, TablesSound', Kept,
           NEW q \in DOMAIN net, NEW stage, NEW ans, net' = Moved(q, stage, ans),
           Takes(q, stage, ans)
    PROVE  DashInv'
<1>1. \A p \in DOMAIN net : TypedRequest(net[p]) /\ Own(net[p])
  BY DEF DashInv, NetSound
<1>2. /\ DOMAIN net' = DOMAIN net /\ \A p \in DOMAIN net : p # q => net'[p] = net[p]
      /\ DOMAIN net'[q] = Fields /\ net'[q].op = net[q].op /\ net'[q].home = net[q].home
      /\ net'[q].arg = net[q].arg /\ net'[q].at = stage /\ net'[q].ans = ans
  BY <1>1, MovedOne DEF TypedRequest
<1>4. ASSUME NEW p \in DOMAIN net, p # q PROVE TypedRequest(net'[p]) /\ Own(net[p])'
  <2>1. \A s : TypedRequest(s) /\ Own(s) /\ s = net'[p] => Own(net[p])'
    <3> SUFFICES ASSUME NEW s, TypedRequest(s), Own(s), s = net'[p] PROVE Own(net[p])'
      OBVIOUS
    <3>1. Own(s)'
      BY OwnKept
    <3> QED
      BY <3>1 DEF Own, Belongs, Hangs
  <2> QED
    BY <1>1, <1>2, <1>4, <2>1
<1>5. TypedRequest(net'[q])
  <2>1. TypedRequest(net[q])
    BY <1>1
  <2> QED
    BY <1>2, <2>1 DEF TypedRequest, Takes
<1>6. Own(net[q])'
  <2>1. \A s : TypedRequest(s) /\ Own(s) /\ s = net[q] =>
           /\ s.home => page'.at = PageOf(s.op)
           /\ s.op = "mails" => s.arg = page'.box
           /\ s.op = "open" /\ s.home => Belongs(s.arg.mail)'
           /\ s.op = "test" /\ s.home => page'.box = Inbox
           /\ s.op = "mock" => s.arg = page'.mock
           /\ s.op = "flip" /\ s.home => (s.arg.card => ui'.card[s.arg.mock] # None)
    BY OwnKept DEF Own
  <2>2. /\ net[q].home => page'.at = PageOf(net[q].op)
        /\ net[q].op = "mails" => net[q].arg = page'.box
        /\ net[q].op = "open" /\ net[q].home => at'[net[q].arg.mail] \in {page'.box, Gone}
        /\ net[q].op = "test" /\ net[q].home => page'.box = Inbox
        /\ net[q].op = "mock" => net[q].arg = page'.mock
        /\ net[q].op = "flip" /\ net[q].home => (net[q].arg.card => ui'.card[net[q].arg.mock] # None)
    BY <1>1, <2>1 DEF Belongs
  <2> HIDE DEF PageOf
  <2> QED
    BY <1>2, <2>2 DEF Own, Takes, Belongs, Hangs
<1>7. HasIds(net') /\ Room(net', 0)
  BY <1>2, FewerHaveIds DEF DashInv
<1> QED
  BY <1>2, <1>4, <1>5, <1>6, <1>7, UiKept DEF DashInv, NetSound, HasIds, Room

LEMMA RefusedGoesOn ==
    ASSUME DashInv, UNCHANGED <<page, ui>>, mishaps' \in 0..MaxMishaps, TablesSound', Kept,
           NEW q \in DOMAIN net, Refuse(q)
    PROVE  DashInv'
BY ServerGoesOn DEF Refuse, Takes

LEMMA CarriedGoesOn ==
    ASSUME DashInv, UNCHANGED <<page, ui>>, TablesSound', Kept,
           NEW q \in DOMAIN net, NEW ans, Carry(q, ans), Takes(q, "ok", ans)
    PROVE  DashInv'
<1>1. mishaps' \in 0..MaxMishaps
  BY TabAssumption DEF Carry, DashInv
<1>2. CASE Reply(q, ans)
  BY <1>1, <1>2, ServerGoesOn DEF Reply
<1>3. CASE Refuse(q)
  BY <1>1, <1>3, RefusedGoesOn
<1> QED
  BY <1>2, <1>3 DEF Carry

\* Only the tables of captured mail change.
LEMMA MailTablesKept ==
    ASSUME DashInv, UNCHANGED mockTables,
           box' \in [Boxes -> Rows \cup {None, Gone}], read' \subseteq Mails,
           at' \in [Mails -> Boxes \cup {Inbox, None, Gone}],
           \A m \in Mails : at[m] # None => at'[m] \in {at[m], Gone}
    PROVE  TablesSound' /\ Kept
BY DEF DashInv, TablesSound, Kept, mockTables

LEMMA ListingIsTyped == ASSUME NEW b PROVE ListingTyped(Listing(b))
<1>1. MailsIn(b) \subseteq Mails /\ MailsIn(b) \ read \subseteq Mails
  BY DEF MailsIn
<1>2. /\ Cardinality(Mails) \in Nat /\ Cardinality(MailsIn(b)) \in Nat
      /\ Cardinality(MailsIn(b) \ read) \in Nat
      /\ Cardinality(MailsIn(b) \ read) <= Cardinality(Mails)
  BY <1>1, MailAssumption, FS_Subset, FS_CardinalityType
<1> HIDE DEF MailsIn
<1> QED
  BY <1>2 DEF ListingTyped, Listing, Marks

\* The rows of the sandboxes.
LEMMA BoxTables ==
    ASSUME DashInv, UNCHANGED <<mockTables, at, read>>, NEW b, NEW new \in Rows \cup {Gone},
           box' = [box EXCEPT ![b] = new]
    PROVE  TablesSound' /\ Kept
<1>1. box' \in [Boxes -> Rows \cup {None, Gone}]
  BY DEF DashInv, TablesSound
<1> QED
  BY <1>1, MailTablesKept DEF DashInv, TablesSound

LEMMA NewRowTables ==
    ASSUME DashInv, UNCHANGED <<mockTables, at, read>>, NEW p \in Prefixes, NewRow(p)
    PROVE  TablesSound' /\ Kept
<1> DEFINE new == [prefix |-> p, active |-> TRUE]
<1>1. new \in Rows
  BY DEF Rows
<1>2. box' = [box EXCEPT ![NextRow] = new]
  BY DEF NewRow
<1> HIDE DEF new
<1> QED
  BY <1>1, <1>2, BoxTables

LEMMA MailServeIsSound == ASSUME DashInv, Serve PROVE DashInv'
<1>1. PICK q \in DOMAIN net : Answer(q)
  BY DEF Serve
<1>2. TypedRequest(net[q]) /\ mishaps \in 0..MaxMishaps /\ TablesSound
  BY DEF DashInv, NetSound
<1>3. UNCHANGED <<page, ui, mockTables>>
  BY <1>1 DEF Answer, Read, OpenAnswer, RemoveAnswer, ClearAnswer, TestAnswer, ToggleAnswer,
              CreateCheck, CreateInsert, ServerStep
<1>4. CASE Read(q)
  <2>1. UNCHANGED <<mishaps, mailTables>> /\ TablesSound' /\ Kept
    BY <1>3, <1>4, TablesKept DEF Read
  <2>2. CASE Refuse(q)
    BY <1>2, <1>3, <2>1, <2>2, RefusedGoesOn
  <2>3. ASSUME NEW ans, Reply(q, ans), Takes(q, "ok", ans) PROVE DashInv'
    BY <1>2, <1>3, <2>1, <2>3, ServerGoesOn DEF Reply
  <2>4. CASE net[q].op = "mails" /\ Reply(q, Listing(net[q].arg))
    <3> DEFINE a == Listing(net[q].arg)
    <3>1. ListingTyped(a)
      BY ListingIsTyped
    <3>2. \A m \in Mails : a.emails[m] # "absent" => at'[m] = net[q].arg
      BY <2>1 DEF Listing, MailsIn, mailTables
    <3> HIDE DEF a
    <3>3. Takes(q, "ok", a)
      BY <2>4, <3>1, <3>2 DEF Takes
    <3> QED
      BY <2>3, <2>4, <3>3 DEF a
  <2>5. ASSUME net[q].op \in {"box", "creds", "boxes"}, NEW ans, Reply(q, ans) PROVE DashInv'
    BY <2>3, <2>5 DEF Takes
  <2>6. ASSUME net[q].op = "check", NEW a \in CheckAnswer(net[q].arg), Reply(q, a) PROVE DashInv'
    <3>1. a.suggestion \in Prefixes \cup {None}
      BY DEF CheckAnswer
    <3> QED
      BY <2>3, <2>6, <3>1 DEF Takes
  <2> HIDE DEF Listing, BoxRows, CheckAnswer
  <2> QED
    BY <1>4, <2>2, <2>4, <2>5, <2>6 DEF Read
<1>5. CASE OpenAnswer(q)
  <2>1. net[q].op = "open" /\ net[q].arg.mail \in Mails /\ UNCHANGED <<box, at>>
    BY <1>2, <1>5 DEF OpenAnswer, TypedRequest
  <2>2. read' \subseteq Mails
    BY <1>2, <1>5, <2>1 DEF OpenAnswer, TablesSound
  <2>3. TablesSound' /\ Kept
    BY <1>2, <1>3, <2>1, <2>2, MailTablesKept DEF TablesSound
  <2>4. Takes(q, "ok", None)
    BY <2>1 DEF Takes
  <2> QED
    BY <1>2, <1>3, <1>5, <2>3, <2>4, RefusedGoesOn, CarriedGoesOn DEF OpenAnswer
<1>6. CASE RemoveAnswer(q) \/ ClearAnswer(q) \/ TestAnswer(q)
  <2>1. net[q].op \in {"remove", "clear", "test"} /\ UNCHANGED <<box, read>>
    BY <1>6 DEF RemoveAnswer, ClearAnswer, TestAnswer
  <2>2. Takes(q, "ok", None)
    BY <2>1 DEF Takes
  <2>3. /\ at' \in [Mails -> Boxes \cup {Inbox, None, Gone}]
        /\ \A m \in Mails : at[m] # None => at'[m] \in {at[m], Gone}
    <3>1. CASE UNCHANGED at
      BY <1>2, <3>1 DEF TablesSound
    <3>2. CASE at' = [at EXCEPT ![net[q].arg.mail] = Gone]
      BY <1>2, <3>2 DEF TablesSound
    <3>3. CASE at' = [m \in Mails |-> IF m \in MailsIn(net[q].arg) THEN Gone ELSE at[m]]
      BY <1>2, <3>3 DEF TablesSound
    <3>4. ASSUME NEW m \in MailsIn(None), at' = [at EXCEPT ![m] = Inbox]
          PROVE  /\ at' \in [Mails -> Boxes \cup {Inbox, None, Gone}]
                 /\ \A n \in Mails : at[n] # None => at'[n] \in {at[n], Gone}
      BY <1>2, <3>4 DEF TablesSound, MailsIn
    <3> QED
      BY <1>6, <3>1, <3>2, <3>3, <3>4 DEF RemoveAnswer, ClearAnswer, TestAnswer
  <2>4. TablesSound' /\ Kept
    BY <1>2, <1>3, <2>1, <2>3, MailTablesKept DEF TablesSound
  <2>5. (Refuse(q) /\ UNCHANGED mishaps) \/ Carry(q, None)
    BY <1>6 DEF RemoveAnswer, ClearAnswer, TestAnswer
  <2> QED
    BY <1>2, <1>3, <2>2, <2>4, <2>5, RefusedGoesOn, CarriedGoesOn
<1>7. CASE ToggleAnswer(q)
  <2>1. net[q].op = "toggle" /\ UNCHANGED <<at, read>> /\ Takes(q, "ok", None)
        /\ net[q].arg.box \in Boxes /\ net[q].arg.active \in BOOLEAN
    BY <1>2, <1>7 DEF ToggleAnswer, Takes, TypedRequest
  <2>2. CASE Refuse(q) /\ UNCHANGED <<box, mishaps>>
    <3>1. TablesSound' /\ Kept
      BY <1>3, <2>1, <2>2, TablesKept DEF mailTables
    <3> QED
      BY <1>2, <1>3, <2>2, <3>1, RefusedGoesOn
  <2>3. CASE /\ Exists(net[q].arg.box) /\ Carry(q, None)
             /\ box' = [box EXCEPT ![net[q].arg.box].active = net[q].arg.active]
    <3> DEFINE b == net[q].arg.box
               new == [box[b] EXCEPT !.active = net[q].arg.active]
    <3>1. box[b] \in Rows
      BY <1>2, <2>1, <2>3 DEF TablesSound, Exists
    <3>2. new \in Rows
      BY <2>1, <3>1 DEF Rows
    <3>3. box' = [box EXCEPT ![b] = new]
      BY <2>3
    <3> HIDE DEF new
    <3>4. TablesSound' /\ Kept
      BY <1>3, <2>1, <3>2, <3>3, BoxTables
    <3> QED
      BY <1>3, <2>1, <2>3, <3>4, CarriedGoesOn
  <2> QED
    BY <1>7, <2>2, <2>3 DEF ToggleAnswer
<1>8. CASE CreateCheck(q)
  <2>1. UNCHANGED <<mishaps, mailTables>> /\ TablesSound' /\ Kept
    BY <1>3, <1>8, TablesKept DEF CreateCheck
  <2>2. Takes(q, "picked", None)
    BY DEF Takes
  <2> QED
    BY <1>2, <1>3, <1>8, <2>1, <2>2, RefusedGoesOn, ServerGoesOn DEF CreateCheck
<1>9. CASE CreateInsert(q)
  <2>1. net[q].op = "create" /\ UNCHANGED <<at, read>> /\ net[q].arg \in Prefixes
    BY <1>2, <1>9 DEF CreateInsert, TypedRequest
  <2>2. CASE Refuse(q) /\ UNCHANGED <<box, mishaps>>
    <3>1. TablesSound' /\ Kept
      BY <1>3, <2>1, <2>2, TablesKept DEF mailTables
    <3> QED
      BY <1>2, <1>3, <2>2, <3>1, RefusedGoesOn
  <2>3. CASE FreeRows # {} /\ NewRow(net[q].arg) /\ Carry(q, NextRow)
    <3>1. TablesSound' /\ Kept
      BY <1>3, <2>1, <2>3, NewRowTables
    <3>2. NextRow \in Boxes
      BY <2>3 DEF NextRow, FreeRows
    <3>3. Takes(q, "ok", NextRow)
      BY <2>1, <3>2 DEF Takes
    <3> QED
      BY <1>3, <2>3, <3>1, <3>3, CarriedGoesOn
  <2> QED
    BY <1>9, <2>2, <2>3 DEF CreateInsert
<1> QED
  BY <1>1, <1>4, <1>5, <1>6, <1>7, <1>8, <1>9 DEF Answer

LEMMA MailOthersAreSound == ASSUME DashInv, Arrival \/ Failure \/ OtherStep PROVE DashInv'
<1>1. TablesSound /\ mishaps \in 0..MaxMishaps
  BY DEF DashInv
<1>2. ASSUME NEW m \in Mails, NEW b \in Boxes \cup {Inbox}, Deliver(m, b) PROVE DashInv'
  <2>1. UNCHANGED <<page, ui, mockTables, net, mishaps, box, read>>
        /\ at[m] = None /\ at' = [at EXCEPT ![m] = b]
    BY <1>2 DEF Deliver, ServerStep
  <2>2. TablesSound' /\ Kept
    BY <1>1, <2>1, MailTablesKept DEF TablesSound
  <2> QED
    BY <1>1, <2>1, <2>2, TablesGoOn
<1>3. ASSUME NEW q \in DOMAIN net, Outage(q) PROVE DashInv'
  <2>1. UNCHANGED <<page, ui, mockTables, mailTables>> /\ Refuse(q) /\ mishaps' \in 0..MaxMishaps
    BY <1>1, <1>3, TabAssumption DEF Outage, Fail, ServerStep
  <2> QED
    BY <2>1, TablesKept, RefusedGoesOn
<1>4. CASE OtherStep
  <2>1. UNCHANGED <<page, ui, mockTables, net, read>> /\ mishaps' \in 0..MaxMishaps
    BY <1>1, <1>4, TabAssumption DEF OtherStep, ServerStep
  <2>2. ASSUME NEW b \in Boxes, OtherDelete(b) PROVE TablesSound' /\ Kept
    BY <1>1, <2>1, <2>2, MailTablesKept DEF OtherDelete, TablesSound
  <2>3. ASSUME NEW p \in Prefixes, OtherCreate(p) PROVE TablesSound' /\ Kept
    BY <2>1, <2>3, NewRowTables DEF OtherCreate
  <2>4. ASSUME NEW m \in Mails, OtherRemove(m) PROVE TablesSound' /\ Kept
    BY <1>1, <2>1, <2>4, MailTablesKept DEF OtherRemove, TablesSound
  <2>5. TablesSound' /\ Kept
    BY <1>4, <2>2, <2>3, <2>4 DEF OtherStep
  <2> QED
    BY <2>1, <2>5, TablesGoOn
<1> QED
  BY <1>2, <1>3, <1>4 DEF Arrival, Failure

-----------------------------------------------------------------------------
(* The list of mock endpoints.                                             *)

LEMMA MocksFresh ==
    ASSUME DashInv, OnMocks, NEW op \in {"mocks", "flip", "endpoint", "import"}, NEW arg,
           op = "flip" => /\ FlipTyped(arg) /\ arg.mock \in Mocks /\ arg.to \in BOOLEAN
                          /\ ui.card[arg.mock] # None,
           op \in {"endpoint", "import"} => arg.key \in Keys
    PROVE  Fresh(op, arg)
<1> DEFINE r == Request(op, arg)
<1>1. DOMAIN r = Fields /\ r.op = op /\ r.arg = arg /\ r.at = "sent" /\ r.home
  BY DEF Request, Fields
<1> HIDE DEF r
<1>2. TypedRequest(r)
  BY <1>1 DEF TypedRequest, Ops, Mutations
<1>3. Own(r)
  BY <1>1 DEF Own, PageOf, OnMocks
<1> QED
  BY <1>2, <1>3 DEF Fresh, r, Ops, Mutations

\* The list is fetched anew, and of what was in flight nothing is heard again.
LEMMA ReloadIsSound == ASSUME DashInv, Reload PROVE DashInv'
<1> DEFINE none == <<>>
<1>1. /\ page' = page /\ page.at = "mocks" /\ mishaps' = mishaps /\ ui' = MocksInit
      /\ net' = MountRequests(page', none) /\ TablesSound'
  BY TablesKept DEF Reload, Broken, OnMocks, PageStep
<1>2. DOMAIN none = {}
  OBVIOUS
<1> HIDE DEF none
<1>3. IsFiniteSet(DOMAIN none) /\ Cardinality(DOMAIN none) = 0
  BY <1>2, FS_EmptySet
<1>4. HasIds(none) /\ Room(none, 1)
  BY <1>2, <1>3, TabAssumption DEF HasIds, Room
<1>5. page' \in Routes /\ ui' = UiInit(page')
  BY <1>1 DEF DashInv, UiInit
<1>6. Mounts(page', net', none)
  BY <1>1, <1>2, <1>4, <1>5, MountMounts
<1>7. UiSound' /\ NetSound'
  BY <1>2, <1>5, <1>6, UiStarts, StartIsSound
<1>8. Room(net', 0)
  <2>1. Adds(Sent(none, "mocks", None), none, "mocks", None)
    BY <1>4, SentIs DEF Ops
  <2> QED
    BY <1>1, <1>4, <2>1 DEF Adds, MountRequests
<1> QED
  BY <1>1, <1>5, <1>6, <1>7, <1>8 DEF DashInv, Mounts, HasIds, Room

\* What a click changes of the list, besides its cards.
Dialogs(st) ==
    /\ DOMAIN st = DOMAIN MocksInit /\ st.rows = ui.rows /\ st.card = ui.card

LEMMA DialogGoesOn ==
    ASSUME DashInv, OnMocks, NEW st, Dialogs(st), NEW S, Follows(S), Becomes(st, S)
    PROVE  DashInv'
<1>1. CardsTyped(st)
  BY DEF DashInv, UiSound, MocksUi, CardsTyped, Dialogs
<1> QED
  BY <1>1, ListGoesOn

LEMMA MocksClickIsSound == ASSUME DashInv, MocksClick PROVE DashInv'
<1>1. OnMocks => MocksUi /\ CardsTyped(ui)
  BY DEF DashInv, UiSound, MocksUi
<1>2. ASSUME NEW k \in Keys \cup {None}, Filter(k) PROVE DashInv'
  <2> DEFINE st == [ui EXCEPT !.filter = k]
  <2>1. OnMocks /\ Becomes(st, net)
    BY <1>2 DEF Filter, Behind
  <2>2. Dialogs(st)
    BY <1>1, <2>1 DEF Dialogs, CardsTyped, MocksInit
  <2> HIDE DEF st
  <2> QED
    BY <2>1, <2>2, NothingFollows, DialogGoesOn
<1>3. CASE OpenCreate \/ OpenYaml \/ CloseCreate
  <2>1. OnMocks /\ \E d : Becomes([ui EXCEPT !.dialog = d], net)
    BY <1>3, Zenon DEF OpenCreate, OpenYaml, CloseCreate, Behind
  <2>2. PICK d : Becomes([ui EXCEPT !.dialog = d], net)
    BY <2>1
  <2> DEFINE st == [ui EXCEPT !.dialog = d]
  <2>3. Dialogs(st) /\ Becomes(st, net)
    BY <1>1, <2>1, <2>2 DEF Dialogs, CardsTyped, MocksInit
  <2> HIDE DEF st
  <2> QED
    BY <2>1, <2>3, NothingFollows, DialogGoesOn
<1>4. CASE CloseYaml
  <2> DEFINE st == [ui EXCEPT !.dialog = "none", !.result = FALSE]
  <2>1. OnMocks /\ Becomes(st, net)
    BY <1>4 DEF CloseYaml
  <2>2. Dialogs(st)
    BY <1>1, <2>1 DEF Dialogs, CardsTyped, MocksInit
  <2> HIDE DEF st
  <2> QED
    BY <2>1, <2>2, NothingFollows, DialogGoesOn
<1>5. ASSUME NEW k \in Keys, CreateMock(k) PROVE DashInv'
  <2> DEFINE st == [ui EXCEPT !.creating = TRUE]
             arg == [key |-> k]
  <2>1. OnMocks /\ Room(net, 1) /\ Becomes(st, Sent(net, "endpoint", arg)) /\ arg.key \in Keys
    BY <1>5 DEF CreateMock, RoomToAct
  <2>2. Dialogs(st)
    BY <1>1, <2>1 DEF Dialogs, CardsTyped, MocksInit
  <2> HIDE DEF st, arg
  <2>3. Follows(Sent(net, "endpoint", arg))
    BY <2>1, MocksFresh, SentFollows
  <2> QED
    BY <2>1, <2>2, <2>3, DialogGoesOn
<1>6. ASSUME NEW k \in Keys, NEW o \in BOOLEAN, Import(k, o) PROVE DashInv'
  <2> DEFINE st == [ui EXCEPT !.importing = TRUE]
             arg == [key |-> k, overwrite |-> o]
  <2>1. OnMocks /\ Room(net, 1) /\ Becomes(st, Sent(net, "import", arg)) /\ arg.key \in Keys
    BY <1>6 DEF Import, RoomToAct
  <2>2. Dialogs(st)
    BY <1>1, <2>1 DEF Dialogs, CardsTyped, MocksInit
  <2> HIDE DEF st, arg
  <2>3. Follows(Sent(net, "import", arg))
    BY <2>1, MocksFresh, SentFollows
  <2> QED
    BY <2>1, <2>2, <2>3, DialogGoesOn
<1>7. ASSUME NEW m \in Mocks, FlipSwitch(m) PROVE DashInv'
  <2> DEFINE old == ui.card[m]
             new == [old EXCEPT !.busy = TRUE]
             st == [ui EXCEPT !.card[m] = new]
             arg == [mock |-> m, to |-> ~old.active, seen |-> ui.rows, card |-> TRUE]
  <2>1. OnMocks /\ old # None /\ Room(net, 1) /\ Becomes(st, Sent(net, "flip", arg))
    BY <1>7 DEF FlipSwitch, Behind, RoomToAct
  <2>2. old.active \in BOOLEAN /\ ui.rows \in MockRows /\ ui.rows[m] # None
    BY <1>1, <2>1 DEF MocksUi, CardsTyped
  <2>3. /\ FlipTyped(arg) /\ arg.mock = m /\ arg.to \in BOOLEAN
    BY <2>2 DEF FlipTyped
  <2>4. new.active = old.active
    OBVIOUS
  <2> HIDE DEF old, new, arg
  <2>5. CardsTyped(st)
    <3>1. /\ DOMAIN st = DOMAIN MocksInit /\ st.rows = ui.rows
          /\ st.card = [ui.card EXCEPT ![m] = new]
      BY <1>1, <2>1 DEF CardsTyped, MocksInit
    <3> HIDE DEF st
    <3> QED
      BY <1>1, <2>1, <2>2, <2>4, <3>1 DEF CardsTyped
  <2> HIDE DEF st
  <2>6. Fresh("flip", arg)
    BY <2>1, <2>3, MocksFresh DEF old
  <2> QED
    BY <2>1, <2>5, <2>6, SentFollows, ListGoesOn
<1>8. CASE LeaveMocks
  <2>1. PICK m \in Mocks : Goto(EditorRoute(m), net)
    BY <1>8 DEF LeaveMocks, Visible
  <2>2. EditorRoute(m) \in Routes /\ Within(net, net)
    BY DEF EditorRoute, Routes, Within
  <2> QED
    BY <1>8, <2>1, <2>2, TabGoes DEF LeaveMocks
<1> QED
  BY <1>2, <1>3, <1>4, <1>5, <1>6, <1>7, <1>8, ReloadIsSound DEF MocksClick

\* What becomes of the card when a switch is answered.
LEMMA SettledIs ==
    ASSUME DashInv, OnMocks, NEW a, FlipTyped(a), a.mock \in Mocks, a.to \in BOOLEAN,
           a.card => ui.card[a.mock] # None, NEW done \in BOOLEAN
    PROVE  CardsTyped(Settled(a, done)) /\ Settled(a, done).rows = ui.rows
<1>1. CardsTyped(ui)
  BY DEF DashInv, UiSound, MocksUi
<1>2. CASE ~a.card
  BY <1>1, <1>2 DEF Settled
<1>3. CASE a.card
  <2> DEFINE new == [active |-> IF done THEN a.to ELSE ui.card[a.mock].active, busy |-> FALSE]
             st == [ui EXCEPT !.card[a.mock] = new]
  <2>1. new.active \in BOOLEAN
    BY <1>1, <1>3 DEF CardsTyped
  <2>2. Settled(a, done) = st
    BY <1>3 DEF Settled
  <2> HIDE DEF new
  <2>3. /\ DOMAIN st = DOMAIN MocksInit /\ st.rows = ui.rows
        /\ st.card = [ui.card EXCEPT ![a.mock] = new]
    BY <1>1 DEF CardsTyped, MocksInit
  <2> HIDE DEF st
  <2>4. CardsTyped(st)
    BY <1>1, <2>1, <2>3 DEF CardsTyped
  <2> QED
    BY <2>2, <2>3, <2>4
<1> QED
  BY <1>2, <1>3

LEMMA MocksAnswerIsSound == ASSUME DashInv, MocksAnswered PROVE DashInv'
<1>1. PICK q \in DOMAIN net : MocksLoaded(q) \/ Flipped(q) \/ Created(q) \/ Imported(q)
  BY DEF MocksAnswered
<1>2. TypedRequest(net[q]) /\ Own(net[q]) /\ (OnMocks => MocksUi /\ CardsTyped(ui))
  BY <1>1 DEF DashInv, NetSound, UiSound, MocksUi
<1>3. net[q].home => page.at = PageOf(net[q].op)
  BY <1>2 DEF Own
<1>4. ASSUME PageStep, UNCHANGED ui, net' = Done(q) PROVE DashInv'
  BY <1>4, DoneFollows, NothingShown, PageGoesOn
<1>5. CASE MocksLoaded(q)
  <2>1. net[q].op = "mocks" /\ net[q].at \in {"ok", "failed"}
    BY <1>5 DEF MocksLoaded, Answered
  <2>2. OnMocks
    BY <1>2, <1>3, <2>1 DEF TypedRequest, PageOf, OnMocks, Mutations
  <2> DEFINE st == IF net[q].at = "ok" THEN [ui EXCEPT !.rows = net[q].ans, !.loading = FALSE]
                   ELSE [ui EXCEPT !.loading = FALSE]
  <2>3. Becomes(st, Done(q))
    BY <1>5 DEF MocksLoaded
  <2>4. net[q].at = "ok" => net[q].ans \in MockRows
    BY <1>2, <2>1 DEF TypedRequest
  <2>5. CardsTyped(st)
    <3>1. DOMAIN st = DOMAIN MocksInit /\ st.card = ui.card
          /\ st.rows = (IF net[q].at = "ok" THEN net[q].ans ELSE ui.rows)
      BY <1>2, <2>2 DEF CardsTyped, MocksInit
    <3> HIDE DEF st
    <3> QED
      BY <1>2, <2>2, <2>4, <3>1 DEF CardsTyped
  <2> HIDE DEF st
  <2> QED
    BY <2>2, <2>3, <2>5, DoneFollows, ListGoesOn
<1>6. CASE Flipped(q)
  <2> DEFINE a == net[q].arg
             done == net[q].at = "ok"
             st == Settled(a, done)
             rows == [a.seen EXCEPT ![a.mock].active = a.to]
             next == [st EXCEPT !.rows = rows]
  <2>1. net[q].op = "flip" /\ net[q].at \in {"ok", "failed"}
    BY <1>6 DEF Flipped, Answered
  <2>2. CASE ~net[q].home
    BY <1>4, <1>6, <2>2 DEF Flipped
  <2>3. CASE net[q].home
    <3>1. OnMocks
      BY <1>3, <2>1, <2>3 DEF PageOf, OnMocks
    <3>2. /\ FlipTyped(a) /\ a.mock \in Mocks /\ a.to \in BOOLEAN
          /\ a.card => ui.card[a.mock] # None
      BY <1>2, <2>1, <2>3 DEF TypedRequest, Own
    <3>3. Becomes(next, Done(q)) \/ Becomes(st, Done(q))
      BY <1>6, <2>3 DEF Flipped
    <3>4. rows \in MockRows
      <4> DEFINE row == a.seen[a.mock]
                 new == [row EXCEPT !.active = a.to]
      <4>1. row \in Endpoints /\ a.seen \in MockRows
        BY <3>2 DEF FlipTyped, MockRows
      <4>2. new \in Endpoints
        BY <3>2, <4>1 DEF Endpoints
      <4>3. rows = [a.seen EXCEPT ![a.mock] = new]
        OBVIOUS
      <4> HIDE DEF new, row, rows, a
      <4> QED
        BY <4>1, <4>2, <4>3 DEF MockRows
    <3>5. done \in BOOLEAN
      OBVIOUS
    <3> HIDE DEF a, done
    <3>6. CardsTyped(st)
      BY <3>1, <3>2, <3>5, SettledIs
    <3> HIDE DEF st, rows
    <3>7. CardsTyped(next)
      <4>1. DOMAIN next = DOMAIN MocksInit /\ next.card = st.card /\ next.rows = rows
        BY <3>6 DEF CardsTyped, MocksInit
      <4> HIDE DEF next
      <4> QED
        BY <3>4, <3>6, <4>1 DEF CardsTyped
    <3> HIDE DEF next
    <3> QED
      BY <3>1, <3>3, <3>6, <3>7, DoneFollows, ListGoesOn
  <2> QED
    BY <2>2, <2>3
<1>7. CASE Created(q)
  <2>1. net[q].op = "endpoint" /\ net[q].at \in {"ok", "failed"}
    BY <1>7 DEF Created, Answered
  <2> DEFINE st == [ui EXCEPT !.creating = FALSE]
  <2>2. CASE net[q].at = "ok" /\ page # EditorRoute(net[q].ans)
    <3>1. EditorRoute(net[q].ans) \in Routes
      BY <1>2, <2>1, <2>2 DEF TypedRequest, EditorRoute, Routes
    <3>2. Goto(EditorRoute(net[q].ans), Done(q)) /\ UNCHANGED <<mishaps, mockTables, mailTables>>
      BY <1>7, <2>2 DEF Created
    <3> QED
      BY <3>1, <3>2, DoneIsWithin, TabGoes
  <2>3. CASE ~(net[q].at = "ok" /\ page # EditorRoute(net[q].ans)) /\ net[q].home
    <3>1. OnMocks /\ Becomes(st, Done(q))
      BY <1>3, <1>7, <2>1, <2>3 DEF Created, PageOf, OnMocks
    <3>2. Dialogs(st)
      BY <1>2, <3>1 DEF Dialogs, CardsTyped, MocksInit
    <3> HIDE DEF st
    <3> QED
      BY <3>1, <3>2, DoneFollows, DialogGoesOn
  <2>4. CASE ~(net[q].at = "ok" /\ page # EditorRoute(net[q].ans)) /\ ~net[q].home
    BY <1>4, <1>7, <2>4 DEF Created
  <2> QED
    BY <2>2, <2>3, <2>4
<1>8. CASE Imported(q)
  <2>1. net[q].op = "import" /\ Room(Done(q), 1)
    BY <1>8 DEF Imported, Answered
  <2> DEFINE st == [ui EXCEPT !.importing = FALSE, !.result = TRUE]
             other == [ui EXCEPT !.importing = FALSE]
  <2>2. CASE ~net[q].home
    BY <1>4, <1>8, <2>2 DEF Imported
  <2>3. CASE net[q].home
    <3>1. OnMocks
      BY <1>3, <2>1, <2>3 DEF PageOf, OnMocks
    <3>2. Becomes(st, Sent(Done(q), "mocks", None)) \/ Becomes(other, Done(q))
      BY <1>8, <2>3 DEF Imported
    <3>3. Dialogs(st) /\ Dialogs(other)
      BY <1>2, <3>1 DEF Dialogs, CardsTyped, MocksInit
    <3> HIDE DEF st, other
    <3>4. Follows(Sent(Done(q), "mocks", None))
      BY <2>1, <3>1, MocksFresh, SwapFollows
    <3> QED
      BY <3>1, <3>2, <3>3, <3>4, DoneFollows, DialogGoesOn
  <2> QED
    BY <2>2, <2>3
<1> QED
  BY <1>1, <1>5, <1>6, <1>7, <1>8

-----------------------------------------------------------------------------
(* The editor of a mock endpoint.                                          *)

LEMMA EditorGoesOn ==
    ASSUME DashInv, OnMock, PageStep, Follows(net'), DOMAIN ui' = DOMAIN EditorInit,
           ui'.editing \in [Kinds -> Children \cup {None, "new"}],
           ui'.list \subseteq Children, \A c \in ui'.list : Hangs(c)
    PROVE  DashInv'
<1>1. MockUi'
  BY DEF MockUi, Hangs, PageStep, mockTables
<1>2. UiSound' /\ ~OnMocks
  BY <1>1 DEF UiSound, OnMail, OnList, OnForm, OnMocks, OnMock, PageStep
<1> QED
  BY <1>2, PageGoesOn

LEMMA EditorFresh ==
    ASSUME OnMock, NEW op \in {"logs", "response", "add", "change", "drop"}, NEW arg
    PROVE  Fresh(op, arg)
<1> DEFINE r == Request(op, arg)
<1>1. DOMAIN r = Fields /\ r.op = op /\ r.arg = arg /\ r.at = "sent" /\ r.home
  BY DEF Request, Fields
<1> HIDE DEF r
<1>2. TypedRequest(r)
  BY <1>1 DEF TypedRequest, Ops, Mutations
<1>3. Own(r)
  BY <1>1 DEF Own, PageOf, OnMock
<1> QED
  BY <1>2, <1>3 DEF Fresh, r, Ops, Mutations

\* The editor sends a request, or none.
LEMMA EditorSends ==
    ASSUME DashInv, OnMock, PageStep,
           UNCHANGED net \/ \E op \in {"logs", "response", "add", "change", "drop"} : \E arg :
                               Room(net, 1) /\ net' = Sent(net, op, arg),
           DOMAIN ui' = DOMAIN EditorInit, ui'.list = ui.list,
           ui'.editing \in [Kinds -> Children \cup {None, "new"}]
    PROVE  DashInv'
<1>1. Follows(net')
  <2>1. CASE UNCHANGED net
    BY <2>1, NothingFollows
  <2>2. ASSUME NEW op \in {"logs", "response", "add", "change", "drop"}, NEW arg,
               Room(net, 1), net' = Sent(net, op, arg)
        PROVE  Follows(net')
    BY <2>2, EditorFresh, SentFollows
  <2> QED
    BY <2>1, <2>2
<1>2. ui'.list \subseteq Children /\ \A c \in ui'.list : Hangs(c)
  BY DEF DashInv, UiSound, MockUi
<1> QED
  BY <1>1, <1>2, EditorGoesOn

LEMMA MockClickIsSound == ASSUME DashInv, MockClick PROVE DashInv'
<1>1. OnMock => MockUi
  BY DEF DashInv, UiSound
<1>2. CASE LeaveMock
  <2>1. MocksRoute \in Routes /\ Within(net, net)
    BY DEF MocksRoute, Routes, Within
  <2> QED
    BY <1>2, <2>1, TabGoes DEF LeaveMock
<1>3. ASSUME NEW t \in Tabs, TabTo(t) PROVE DashInv'
  <2>1. OnMock /\ PageStep /\ (UNCHANGED net \/ FetchLogs)
    BY <1>3 DEF TabTo
  <2>2. DOMAIN ui' = DOMAIN EditorInit /\ ui'.list = ui.list /\ ui'.editing = ui.editing
    BY <1>1, <1>3, <2>1 DEF TabTo, MockUi, EditorInit
  <2>3. UNCHANGED net \/ (Room(net, 1) /\ net' = Sent(net, "logs", page.mock))
    BY <2>1 DEF FetchLogs
  <2> QED
    BY <1>1, <2>1, <2>2, <2>3, EditorSends DEF MockUi
<1>4. CASE Refresh
  <2>1. OnMock /\ PageStep /\ Room(net, 1) /\ net' = Sent(net, "logs", page.mock)
    BY <1>4 DEF Refresh, At, FetchLogs
  <2>2. DOMAIN ui' = DOMAIN EditorInit /\ ui'.list = ui.list /\ ui'.editing = ui.editing
    BY <1>1, <1>4, <2>1 DEF Refresh, MockUi, EditorInit
  <2> QED
    BY <1>1, <2>1, <2>2, EditorSends DEF MockUi
<1>5. CASE SaveResponse
  <2> DEFINE arg == [mock |-> page.mock]
  <2>1. OnMock /\ PageStep /\ Room(net, 1) /\ net' = Sent(net, "response", arg)
    BY <1>5 DEF SaveResponse, MaySave, ResponseTab, StaticTab, At
  <2>2. DOMAIN ui' = DOMAIN EditorInit /\ ui'.list = ui.list /\ ui'.editing = ui.editing
    BY <1>1, <1>5, <2>1 DEF SaveResponse, MockUi, EditorInit
  <2> HIDE DEF arg
  <2> QED
    BY <1>1, <2>1, <2>2, EditorSends DEF MockUi
<1>6. ASSUME NEW k \in Kinds, NEW c \in Children \cup {"new"}, EditChild(k, c) PROVE DashInv'
  <2>1. OnMock /\ PageStep /\ UNCHANGED net /\ ui' = [ui EXCEPT !.editing[k] = c]
    BY <1>6 DEF EditChild, At
  <2>2. /\ DOMAIN ui' = DOMAIN EditorInit /\ ui'.list = ui.list
        /\ ui'.editing = [ui.editing EXCEPT ![k] = c]
    BY <1>1, <2>1 DEF MockUi, EditorInit
  <2>3. ui'.editing \in [Kinds -> Children \cup {None, "new"}]
    BY <1>1, <2>1, <2>2 DEF MockUi
  <2> QED
    BY <2>1, <2>2, <2>3, EditorSends
<1>7. ASSUME NEW k \in Kinds, CancelEdit(k) PROVE DashInv'
  <2>1. OnMock /\ PageStep /\ UNCHANGED net /\ ui' = [ui EXCEPT !.editing[k] = None]
    BY <1>7 DEF CancelEdit, Form, RuleForm, SequenceForm, At
  <2>2. /\ DOMAIN ui' = DOMAIN EditorInit /\ ui'.list = ui.list
        /\ ui'.editing = [ui.editing EXCEPT ![k] = None]
    BY <1>1, <2>1 DEF MockUi, EditorInit
  <2>3. ui'.editing \in [Kinds -> Children \cup {None, "new"}]
    BY <1>1, <2>1, <2>2 DEF MockUi
  <2> QED
    BY <2>1, <2>2, <2>3, EditorSends
<1>8. ASSUME NEW k \in Kinds, SaveChild(k) \/ DropChild(k) PROVE DashInv'
  <2>1. OnMock /\ PageStep /\ Room(net, 1) /\ UNCHANGED ui
    BY <1>8 DEF SaveChild, DropChild, Form, RuleForm, SequenceForm, At, RoomToAct
  <2>2. \E op \in {"add", "change", "drop"} : \E arg : net' = Sent(net, op, arg)
    BY <1>8 DEF SaveChild, DropChild
  <2> QED
    BY <1>1, <2>1, <2>2, EditorSends DEF MockUi
<1> QED
  BY <1>2, <1>3, <1>4, <1>5, <1>6, <1>7, <1>8 DEF MockClick

LEMMA MockAnswerIsSound == ASSUME DashInv, MockAnswered PROVE DashInv'
<1>1. PICK q \in DOMAIN net : MockLoaded(q) \/ LogsLoaded(q) \/ ResponseSaved(q) \/ ChildRefused(q)
  BY DEF MockAnswered
<1>2. TypedRequest(net[q]) /\ Own(net[q]) /\ (OnMock => MockUi)
  BY <1>1 DEF DashInv, NetSound, UiSound
<1>3. net[q].home => page.at = PageOf(net[q].op)
  BY <1>2 DEF Own
<1>4. net' = Done(q) /\ PageStep
  BY <1>1 DEF MockLoaded, LogsLoaded, ResponseSaved, ChildRefused
<1>5. CASE UNCHANGED ui
  BY <1>4, <1>5, DoneFollows, NothingShown, PageGoesOn
<1>6. CASE MockLoaded(q)
  <2>1. net[q].op = "mock" /\ net[q].at \in {"ok", "failed"}
    BY <1>6 DEF MockLoaded, Answered
  <2>2. OnMock
    BY <1>2, <1>3, <2>1 DEF TypedRequest, PageOf, OnMock, Mutations
  <2>3. net[q].at = "ok" => net[q].ans \subseteq Children /\ \A c \in net[q].ans : Hangs(c)
    BY <1>2, <2>1 DEF TypedRequest, Own
  <2>4. /\ DOMAIN ui' = DOMAIN EditorInit /\ ui'.editing = ui.editing
        /\ ui'.list = IF net[q].at = "ok" THEN net[q].ans ELSE ui.list
    BY <1>2, <1>6, <2>2 DEF MockLoaded, MockUi, EditorInit
  <2> QED
    BY <1>2, <1>4, <2>2, <2>3, <2>4, DoneFollows, EditorGoesOn DEF MockUi
<1>7. CASE LogsLoaded(q)
  <2>1. net[q].op = "logs"
    BY <1>7 DEF LogsLoaded, Answered
  <2>2. OnMock
    BY <1>2, <1>3, <2>1 DEF TypedRequest, PageOf, OnMock, Mutations
  <2>3. DOMAIN ui' = DOMAIN EditorInit /\ ui'.editing = ui.editing /\ ui'.list = ui.list
    BY <1>2, <1>7, <2>2 DEF LogsLoaded, MockUi, EditorInit
  <2> QED
    BY <1>2, <1>4, <2>2, <2>3, DoneFollows, EditorGoesOn DEF MockUi
<1>8. CASE ResponseSaved(q)
  <2>1. net[q].op = "response"
    BY <1>8 DEF ResponseSaved, Answered
  <2>2. CASE net[q].home
    <3>1. OnMock
      BY <1>3, <2>1, <2>2 DEF PageOf, OnMock
    <3>2. DOMAIN ui' = DOMAIN EditorInit /\ ui'.editing = ui.editing /\ ui'.list = ui.list
      BY <1>2, <1>8, <2>2, <3>1 DEF ResponseSaved, MockUi, EditorInit
    <3> QED
      BY <1>2, <1>4, <3>1, <3>2, DoneFollows, EditorGoesOn DEF MockUi
  <2>3. CASE ~net[q].home
    BY <1>5, <1>8, <2>3 DEF ResponseSaved
  <2> QED
    BY <2>2, <2>3
<1>9. CASE ChildRefused(q)
  BY <1>5, <1>9 DEF ChildRefused
<1> QED
  BY <1>1, <1>6, <1>7, <1>8, <1>9

-----------------------------------------------------------------------------
(* What answers the pages of the mock endpoints.                           *)

\* Only the tables of the mock endpoints change.
LEMMA MockTablesKept ==
    ASSUME DashInv, UNCHANGED mailTables,
           endpoint' \in [Mocks -> Endpoints \cup {None, Gone}],
           child' \in [Children -> Mocks \cup {None, Gone}],
           \A c \in Children : child[c] # None => child'[c] \in {child[c], Gone}
    PROVE  TablesSound' /\ Kept
BY DEF DashInv, TablesSound, Kept, mailTables

\* The children of what is gone are gone.
LEMMA CascadeIs ==
    ASSUME DashInv, NEW old, child' = Cascade(old)
    PROVE  /\ child' \in [Children -> Mocks \cup {None, Gone}]
           /\ \A c \in Children : child'[c] = IF child[c] \in old THEN Gone ELSE child[c]
BY DEF DashInv, TablesSound, Cascade

\* The rows of old are deleted, and nothing else happens to the children.
LEMMA CommitTables ==
    ASSUME DashInv, UNCHANGED mailTables, NEW old, NEW rows, Commits(old, rows),
           \A m \in Mocks : rows[m] \in Endpoints \cup {None, Gone}
    PROVE  TablesSound' /\ Kept
<1>1. endpoint' \in [Mocks -> Endpoints \cup {None, Gone}]
  BY DEF Commits
<1>2. /\ child' \in [Children -> Mocks \cup {None, Gone}]
      /\ \A c \in Children : child'[c] \in {child[c], Gone}
  BY CascadeIs DEF Commits
<1> QED
  BY <1>1, <1>2, MockTablesKept

LEMMA NewEndpointIs ==
    ASSUME DashInv, NEW k \in Keys
    PROVE  NewEndpoint(k) \in [Mocks -> Endpoints \cup {None, Gone}]
<1> DEFINE new == [key |-> k, active |-> TRUE]
<1>1. new \in Endpoints
  BY DEF Endpoints
<1>2. NewEndpoint(k) = [endpoint EXCEPT ![NextMock] = new]
  BY DEF NewEndpoint
<1> HIDE DEF new
<1> QED
  BY <1>1, <1>2 DEF DashInv, TablesSound

LEMMA MockServeIsSound == ASSUME DashInv, MockServe PROVE DashInv'
<1>1. PICK q \in DOMAIN net : MockAnswer(q)
  BY DEF MockServe
<1>2. TypedRequest(net[q]) /\ mishaps \in 0..MaxMishaps /\ TablesSound
  BY DEF DashInv, NetSound
<1>3. UNCHANGED <<page, ui, mailTables>>
  BY <1>1 DEF MockAnswer, MockRead, MockUpdate, EndpointCheck, EndpointInsert, ImportCheck,
              Unrouted, MockServerStep
<1>4. CASE MockRead(q)
  <2>1. UNCHANGED <<mishaps, mockTables>> /\ TablesSound' /\ Kept
    BY <1>3, <1>4, TablesKept DEF MockRead
  <2>2. CASE Refuse(q)
    BY <1>2, <1>3, <2>1, <2>2, RefusedGoesOn
  <2>3. ASSUME NEW ans, Reply(q, ans), Takes(q, "ok", ans) PROVE DashInv'
    BY <1>2, <1>3, <2>1, <2>3, ServerGoesOn DEF Reply
  <2> DEFINE rows == [m \in Mocks |-> IF MockExists(m) THEN endpoint[m] ELSE None]
             list == ChildrenOf(net[q].arg)
  <2>4. CASE net[q].op = "mocks" /\ Reply(q, rows)
    <3>1. rows \in MockRows
      BY <1>2 DEF MockRows, MockExists, TablesSound
    <3> HIDE DEF rows
    <3> QED
      BY <2>3, <2>4, <3>1 DEF Takes
  <2>5. CASE net[q].op = "mock" /\ Reply(q, list)
    <3>1. list \subseteq Children /\ \A c \in list : child'[c] = net[q].arg
      BY <2>1 DEF ChildrenOf, mockTables
    <3> HIDE DEF list
    <3> QED
      BY <2>3, <2>5, <3>1 DEF Takes
  <2> QED
    BY <1>4, <2>2, <2>4, <2>5 DEF MockRead
<1>5. CASE MockUpdate(q)
  <2>1. net[q].op \in {"flip", "response"} /\ UNCHANGED child /\ Takes(q, "ok", None)
    BY <1>5 DEF MockUpdate, Takes
  <2>2. CASE Refuse(q) /\ UNCHANGED <<endpoint, mishaps>>
    <3>1. TablesSound' /\ Kept
      BY <1>3, <2>1, <2>2, TablesKept DEF mockTables
    <3> QED
      BY <1>2, <1>3, <2>2, <3>1, RefusedGoesOn
  <2>3. CASE Carry(q, None) /\ UNCHANGED endpoint
    <3>1. TablesSound' /\ Kept
      BY <1>3, <2>1, <2>3, TablesKept DEF mockTables
    <3> QED
      BY <1>3, <2>1, <2>3, <3>1, CarriedGoesOn
  <2>4. CASE /\ net[q].op = "flip" /\ MockExists(net[q].arg.mock) /\ Carry(q, None)
             /\ endpoint' = [endpoint EXCEPT ![net[q].arg.mock].active = net[q].arg.to]
    <3> DEFINE m == net[q].arg.mock
               new == [endpoint[m] EXCEPT !.active = net[q].arg.to]
    <3>1. m \in Mocks /\ net[q].arg.to \in BOOLEAN
      BY <1>2, <2>4 DEF TypedRequest
    <3>2. endpoint[m] \in Endpoints
      BY <1>2, <2>4, <3>1 DEF TablesSound, MockExists
    <3>3. new \in Endpoints
      BY <3>1, <3>2 DEF Endpoints
    <3>4. endpoint' = [endpoint EXCEPT ![m] = new]
      BY <2>4
    <3> HIDE DEF new
    <3>6. endpoint' \in [Mocks -> Endpoints \cup {None, Gone}]
      BY <1>2, <3>3, <3>4 DEF TablesSound
    <3>9. TablesSound' /\ Kept
      BY <1>2, <1>3, <2>1, <3>6, MockTablesKept DEF TablesSound
    <3> QED
      BY <1>3, <2>1, <2>4, <3>9, CarriedGoesOn
  <2> QED
    BY <1>5, <2>2, <2>3, <2>4 DEF MockUpdate
<1>6. CASE EndpointCheck(q) \/ ImportCheck(q) \/ Unrouted(q)
  <2>1. UNCHANGED mockTables /\ TablesSound' /\ Kept
    BY <1>3, <1>6, TablesKept DEF EndpointCheck, ImportCheck, Unrouted
  <2>2. ASSUME NEW ans, net' = Moved(q, "picked", ans), UNCHANGED mishaps PROVE DashInv'
    BY <1>2, <1>3, <2>1, <2>2, ServerGoesOn DEF Takes
  <2>3. CASE Refuse(q) /\ UNCHANGED mishaps
    BY <1>2, <1>3, <2>1, <2>3, RefusedGoesOn
  <2>4. CASE net[q].op = "import" /\ Carry(q, None)
    BY <1>3, <2>1, <2>4, CarriedGoesOn DEF Takes
  <2> QED
    BY <1>6, <2>2, <2>3, <2>4 DEF EndpointCheck, ImportCheck, Unrouted
<1>7. CASE EndpointInsert(q)
  <2> DEFINE k == net[q].arg.key
             old == net[q].ans
  <2>1. net[q].op \in {"endpoint", "import"} /\ k \in Keys
    BY <1>2, <1>7 DEF EndpointInsert, TypedRequest
  <2>2. \/ FreeMocks # {} /\ Commits(old, NewEndpoint(k)) /\ Carry(q, NextMock)
        \/ Refuse(q) /\ UNCHANGED <<mishaps, mockTables>>
        \/ net[q].op = "import" /\ Commits(old, endpoint) /\ Carry(q, None)
    BY <1>7 DEF EndpointInsert
  <2> HIDE DEF k, old
  <2>3. CASE FreeMocks # {} /\ Commits(old, NewEndpoint(k)) /\ Carry(q, NextMock)
    <3>1. TablesSound' /\ Kept
      BY <1>3, <2>1, <2>3, NewEndpointIs, CommitTables
    <3>2. NextMock \in Mocks
      BY <2>3 DEF NextMock, FreeMocks
    <3>3. Takes(q, "ok", NextMock)
      BY <2>1, <3>2 DEF Takes
    <3> QED
      BY <1>3, <2>3, <3>1, <3>3, CarriedGoesOn
  <2>4. CASE Refuse(q) /\ UNCHANGED <<mishaps, mockTables>>
    <3>1. TablesSound' /\ Kept
      BY <1>3, <2>4, TablesKept
    <3> QED
      BY <1>2, <1>3, <2>4, <3>1, RefusedGoesOn
  <2>5. CASE net[q].op = "import" /\ Commits(old, endpoint) /\ Carry(q, None)
    <3>1. TablesSound' /\ Kept
      BY <1>2, <1>3, <2>5, CommitTables DEF TablesSound
    <3>2. Takes(q, "ok", None)
      BY <2>5 DEF Takes
    <3> QED
      BY <1>3, <2>5, <3>1, <3>2, CarriedGoesOn
  <2> QED
    BY <2>2, <2>3, <2>4, <2>5
<1> QED
  BY <1>1, <1>4, <1>5, <1>6, <1>7 DEF MockAnswer

LEMMA MockOthersAreSound == ASSUME DashInv, MockFailure \/ MockOtherStep PROVE DashInv'
<1>1. TablesSound /\ mishaps \in 0..MaxMishaps
  BY DEF DashInv
<1>2. ASSUME NEW q \in DOMAIN net, MockOutage(q) PROVE DashInv'
  <2>1. UNCHANGED <<page, ui, mockTables, mailTables>> /\ Refuse(q) /\ mishaps' \in 0..MaxMishaps
    BY <1>1, <1>2, TabAssumption DEF MockOutage, Fail, MockServerStep
  <2> QED
    BY <2>1, TablesKept, RefusedGoesOn
<1>3. CASE MockOtherStep
  <2>1. UNCHANGED <<page, ui, mailTables, net>> /\ mishaps' \in 0..MaxMishaps
    BY <1>1, <1>3, TabAssumption DEF MockOtherStep, MockServerStep
  <2>2. ASSUME NEW m \in Mocks, OtherMockDelete(m) PROVE TablesSound' /\ Kept
    <3>1. endpoint' = [endpoint EXCEPT ![m] = Gone] /\ child' = Cascade({m})
      BY <2>2 DEF OtherMockDelete
    <3>2. endpoint' \in [Mocks -> Endpoints \cup {None, Gone}]
      BY <1>1, <3>1 DEF TablesSound
    <3>3. /\ child' \in [Children -> Mocks \cup {None, Gone}]
          /\ \A c \in Children : child'[c] = IF child[c] \in {m} THEN Gone ELSE child[c]
      BY <3>1, CascadeIs
    <3> QED
      BY <2>1, <3>2, <3>3, MockTablesKept
  <2>3. ASSUME NEW k \in Keys, OtherMockCreate(k) PROVE TablesSound' /\ Kept
    <3>1. endpoint' = NewEndpoint(k) /\ UNCHANGED child
      BY <2>3 DEF OtherMockCreate
    <3> QED
      BY <1>1, <2>1, <3>1, NewEndpointIs, MockTablesKept DEF TablesSound
  <2>4. ASSUME NEW m \in Mocks, NEW k \in Keys, OtherMockRename(m, k) PROVE TablesSound' /\ Kept
    <3> DEFINE new == [endpoint[m] EXCEPT !.key = k]
    <3>1. endpoint[m] \in Endpoints
      BY <1>1, <2>4 DEF OtherMockRename, MockExists, TablesSound
    <3>2. new \in Endpoints
      BY <3>1 DEF Endpoints
    <3>3. endpoint' = [endpoint EXCEPT ![m] = new] /\ UNCHANGED child
      BY <2>4 DEF OtherMockRename
    <3> HIDE DEF new
    <3>4. endpoint' \in [Mocks -> Endpoints \cup {None, Gone}]
      BY <1>1, <3>2, <3>3 DEF TablesSound
    <3> QED
      BY <1>1, <2>1, <3>3, <3>4, MockTablesKept DEF TablesSound
  <2>5. ASSUME NEW c \in Children, \/ \E m \in Mocks : OtherChildAdd(c, m)
                                   \/ OtherChildDelete(c)
        PROVE  TablesSound' /\ Kept
    <3>1. PICK m \in Mocks \cup {Gone} : /\ child[c] = None \/ m = Gone
                                         /\ child' = [child EXCEPT ![c] = m] /\ UNCHANGED endpoint
      BY <2>5 DEF OtherChildAdd, OtherChildDelete
    <3>2. /\ child' \in [Children -> Mocks \cup {None, Gone}]
          /\ \A d \in Children : child'[d] = IF d = c THEN m ELSE child[d]
      BY <1>1, <3>1 DEF TablesSound
    <3> QED
      BY <1>1, <2>1, <3>1, <3>2, MockTablesKept DEF TablesSound
  <2>6. TablesSound' /\ Kept
    BY <1>3, <2>2, <2>3, <2>4, <2>5 DEF MockOtherStep
  <2> QED
    BY <2>1, <2>6, TablesGoOn
<1> QED
  BY <1>2, <1>3 DEF MockFailure

-----------------------------------------------------------------------------
(* The invariant holds.                                                    *)

LEMMA DashInit == Init => DashInv
<1> SUFFICES ASSUME Init PROVE DashInv
  OBVIOUS
<1> DEFINE none == <<>>
<1>1. page \in Routes /\ mishaps \in 0..MaxMishaps
  BY TabAssumption DEF Init, MailStart, MockStart, MailRoute, ListRoute, MocksRoute, Routes
<1>2. TablesSound
  BY MockAssumption DEF Init, MailStart, MockStart, TablesSound
<1>3. DOMAIN none = {} /\ net = MountRequests(page, none) /\ ui = UiInit(page)
  BY DEF Init
<1> HIDE DEF none
<1>4. IsFiniteSet(DOMAIN none) /\ Cardinality(DOMAIN none) = 0
  BY <1>3, FS_EmptySet
<1>5. HasIds(none) /\ Room(none, 1)
  BY <1>3, <1>4, TabAssumption DEF HasIds, Room
<1>6. Mounts(page, net, none)
  BY <1>1, <1>3, <1>5, MountMounts
<1>7. UiSound
  <2>1. CASE OnMail
    <3>1. ui = MailInit
      BY <1>3, <2>1 DEF UiInit, OnMail
    <3>2. IsFiniteSet(Mails) /\ Cardinality(Mails) \in Nat
      BY MailAssumption, FS_CardinalityType
    <3>3. MailUi
      BY <3>1, <3>2 DEF MailInit, MailUi, Marks
    <3> QED
      BY <2>1, <3>3 DEF UiSound, OnMail, OnList, OnForm, OnMocks, OnMock
  <2>2. CASE OnList
    BY <1>3, <2>2 DEF UiInit, UiSound, ListUi, ListInit, OnMail, OnList, OnForm, OnMocks, OnMock
  <2>3. CASE OnMocks
    <3>1. ui = MocksInit
      BY <1>3, <2>3 DEF UiInit, OnMocks
    <3>2. MocksUi
      BY <3>1 DEF MocksInit, MocksUi, CardsTyped, MockRows
    <3> QED
      BY <2>3, <3>2 DEF UiSound, OnMail, OnList, OnForm, OnMocks, OnMock
  <2> QED
    BY <2>1, <2>2, <2>3 DEF Init, MailStart, MockStart, MailRoute, ListRoute, MocksRoute,
         OnMail, OnList, OnMocks
<1>8. ASSUME NEW q \in DOMAIN net PROVE TypedRequest(net[q]) /\ Own(net[q])
  <2>1. PICK op, arg : net[q] = Request(op, arg) /\ Starts(op, arg, page)
    BY <1>3, <1>6, <1>8 DEF Mounts
  <2> DEFINE r == Request(op, arg)
  <2>2. DOMAIN r = Fields /\ r.op = op /\ r.arg = arg /\ r.at = "sent" /\ r.home
    BY DEF Request, Fields
  <2>3. net[q] = r
    BY <2>1
  <2> HIDE DEF r
  <2>4. op \in Ops /\ op \notin {"open", "test", "flip"} /\ op \notin Mutations
    BY <2>1 DEF Starts, Mutations
  <2>5. TypedRequest(r)
    BY <2>2, <2>4 DEF TypedRequest, Mutations
  <2>6. Own(r)
    BY <2>1, <2>2, <2>4 DEF Own, Starts
  <2> QED
    BY <2>3, <2>5, <2>6
<1>9. Room(net, 0)
  <2>1. ASSUME NEW op \in Ops, NEW arg, net = Sent(none, op, arg) PROVE Room(net, 0)
    <3>1. Adds(net, none, op, arg)
      BY <1>5, <2>1, SentIs
    <3> QED
      BY <1>5, <3>1 DEF Adds
  <2>2. CASE page = MailRoute(Inbox)
    <3>1. net = Sent(none, "mails", Inbox)
      BY <1>3, <2>2 DEF MailRoute, MountRequests
    <3> QED
      BY <2>1, <3>1 DEF Ops
  <2>3. CASE page = ListRoute
    <3>1. net = Sent(none, "boxes", FALSE)
      BY <1>3, <2>3 DEF ListRoute, MountRequests
    <3> QED
      BY <2>1, <3>1 DEF Ops
  <2>4. CASE page = MocksRoute
    <3>1. net = Sent(none, "mocks", None)
      BY <1>3, <2>4 DEF MocksRoute, MountRequests
    <3> QED
      BY <2>1, <3>1 DEF Ops
  <2> QED
    BY <2>2, <2>3, <2>4 DEF Init, MailStart, MockStart
<1> QED
  BY <1>1, <1>2, <1>6, <1>7, <1>8, <1>9 DEF DashInv, Mounts, NetSound

LEMMA DashNext == DashInv /\ [Next]_vars => DashInv'
<1> SUFFICES ASSUME DashInv, [Next]_vars PROVE DashInv'
  OBVIOUS
<1>1. CASE MailNext
  BY <1>1, MailClickIsSound, SandboxClickIsSound, FetchIsSound, MailAnswerIsSound,
     SandboxAnswerIsSound, MailServeIsSound, MailOthersAreSound DEF MailNext
<1>2. CASE MockNext
  BY <1>2, MocksClickIsSound, MockClickIsSound, MocksAnswerIsSound, MockAnswerIsSound,
     MockServeIsSound, MockOthersAreSound DEF MockNext
<1>3. CASE UNCHANGED vars
  <2>1. UNCHANGED <<page, ui, net, mishaps, mailTables, mockTables>>
    BY <1>3 DEF vars
  <2>2. mishaps' \in 0..MaxMishaps
    BY <2>1 DEF DashInv
  <2> QED
    BY <2>1, <2>2, TablesKept, TablesGoOn
<1> QED
  BY <1>1, <1>2, <1>3 DEF Next

-----------------------------------------------------------------------------
(* What is busy on screen, and the request it waits for.                   *)

\* Of what was in flight S has everything but gone, as it was asked for.
Keeps(S, gone) ==
    \A p \in DOMAIN net \ gone :
        p \in DOMAIN S /\ S[p].op = net[p].op /\ S[p].home = net[p].home /\ S[p].arg = net[p].arg
AwaitsIn(S, op)  == {p \in DOMAIN S : S[p].op = op /\ S[p].home}
Asks(S, op, arg) == \E p \in AwaitsIn(S, op) : S[p].arg = arg
\* Nobody waits for an op among gone.
Spares(gone, op) == \A p \in gone : net[p].op # op \/ ~net[p].home

LEMMA SentAsks ==
    ASSUME DashInv, Room(net, 1), NEW op \in Ops, NEW arg
    PROVE  Keeps(Sent(net, op, arg), {}) /\ Asks(Sent(net, op, arg), op, arg)
<1>1. Adds(Sent(net, op, arg), net, op, arg)
  BY SentIs DEF DashInv
<1> QED
  BY <1>1 DEF Adds, Keeps, Asks, AwaitsIn, Request

LEMMA DoneKeeps == ASSUME NEW q PROVE Keeps(Done(q), {q}) /\ Keeps(net, {})
BY DEF Done, Restrict, Keeps

LEMMA SwapAsks ==
    ASSUME DashInv, NEW q, Room(Done(q), 1), NEW op \in Ops, NEW arg
    PROVE  Keeps(Sent(Done(q), op, arg), {q}) /\ Asks(Sent(Done(q), op, arg), op, arg)
<1>1. Within(Done(q), net) /\ HasIds(Done(q)) /\ Keeps(Done(q), {q})
  BY DoneIsWithin, DoneFollows, DoneKeeps
<1>2. Adds(Sent(Done(q), op, arg), Done(q), op, arg)
  BY <1>1, SentIs
<1> QED
  BY <1>1, <1>2 DEF Adds, Keeps, Within, Asks, AwaitsIn, Request

\* Nobody waits for what is answered to a page that is no longer there.
LEMMA PageWaitsOn ==
    ASSUME NothingHangs, UNCHANGED <<page, ui>>, NEW gone, Keeps(net', gone),
           \A q \in gone : ~net[q].home
    PROVE  NothingHangs'
<1>1. \A op : Awaits(op) # {} => Awaits(op)' # {}
  BY DEF Keeps, Awaits
<1>2. /\ \A q \in Awaits("test") : net[q].arg = "dialog" => \E p \in Awaits("test")' : net'[p].arg = "dialog"
      /\ \A q \in Awaits("toggle"), b \in Boxes : net[q].arg.box = b =>
            \E p \in Awaits("toggle")' : net'[p].arg.box = b
      /\ \A q \in Awaits("flip"), m \in Mocks : net[q].arg.mock = m /\ net[q].arg.card =>
            \E p \in Awaits("flip")' : net'[p].arg.mock = m /\ net'[p].arg.card
  BY DEF Keeps, Awaits
<1>3. (OnMail' <=> OnMail) /\ (OnList' <=> OnList) /\ (OnForm' <=> OnForm) /\ (OnMocks' <=> OnMocks)
      /\ (OnMock' <=> OnMock)
  BY DEF OnMail, OnList, OnForm, OnMocks, OnMock
<1> HIDE DEF Awaits
<1>4. OnMail => MailWaits'
  BY <1>1, <1>2 DEF NothingHangs, MailWaits
<1>5. OnList => ListWaits'
  BY <1>1, <1>2 DEF NothingHangs, ListWaits
<1>6. OnForm => FormWaits'
  BY <1>1 DEF NothingHangs, FormWaits
<1>7. OnMocks => MocksWait'
  BY <1>1, <1>2 DEF NothingHangs, MocksWait
<1>8. OnMock => EditorWaits'
  BY <1>1 DEF NothingHangs, EditorWaits
<1> QED
  BY <1>3, <1>4, <1>5, <1>6, <1>7, <1>8 DEF NothingHangs

LEMMA MovedWaitsOn ==
    ASSUME DashInv, NothingHangs, UNCHANGED <<page, ui>>, NEW q \in DOMAIN net, NEW stage, NEW ans,
           net' = Moved(q, stage, ans)
    PROVE  NothingHangs'
<1> DEFINE none == {}
<1>1. DOMAIN net[q] = Fields
  BY DEF DashInv, NetSound, TypedRequest
<1>2. /\ DOMAIN net' = DOMAIN net /\ \A p \in DOMAIN net : p # q => net'[p] = net[p]
      /\ net'[q].op = net[q].op /\ net'[q].home = net[q].home /\ net'[q].arg = net[q].arg
  BY <1>1, MovedOne
<1>3. Keeps(net', none)
  BY <1>2 DEF Keeps
<1> QED
  BY <1>3, PageWaitsOn

\* Whatever the server does, and everybody else.
LEMMA ServersHangNothing ==
    ASSUME DashInv, NothingHangs,
           Serve \/ Arrival \/ Failure \/ OtherStep \/ MockServe \/ MockFailure \/ MockOtherStep
    PROVE  NothingHangs'
<1> DEFINE none == {}
<1>1. UNCHANGED net => Keeps(net', none)
  BY DoneKeeps
<1>2. CASE Serve \/ MockServe \/ Failure \/ MockFailure
  <2>1. UNCHANGED <<page, ui>> /\ \E q \in DOMAIN net : \E stage, ans : net' = Moved(q, stage, ans)
    <3>1. ASSUME NEW q \in DOMAIN net, Answer(q)
          PROVE  UNCHANGED <<page, ui>> /\ \E stage, ans : net' = Moved(q, stage, ans)
      BY <3>1, Zenon DEF Answer, Read, OpenAnswer, RemoveAnswer, ClearAnswer, TestAnswer, ToggleAnswer, CreateCheck,
                  CreateInsert, Carry, Reply, Refuse, ServerStep
    <3>2. ASSUME NEW q \in DOMAIN net, MockAnswer(q)
          PROVE  UNCHANGED <<page, ui>> /\ \E stage, ans : net' = Moved(q, stage, ans)
      BY <3>2, Zenon DEF MockAnswer, MockRead, MockUpdate, EndpointCheck, EndpointInsert, ImportCheck,
                  Unrouted, Carry, Reply, Refuse, MockServerStep
    <3>3. ASSUME NEW q \in DOMAIN net, Outage(q) \/ MockOutage(q)
          PROVE  UNCHANGED <<page, ui>> /\ \E stage, ans : net' = Moved(q, stage, ans)
      BY <3>3, Zenon DEF Outage, MockOutage, Fail, Refuse, ServerStep, MockServerStep
    <3> QED
      BY <1>2, <3>1, <3>2, <3>3, Zenon DEF Serve, MockServe, Failure, MockFailure
  <2> QED
    BY <2>1, MovedWaitsOn
<1>3. CASE Arrival \/ OtherStep \/ MockOtherStep
  <2>1. UNCHANGED <<page, ui, net>>
    BY <1>3 DEF Arrival, Deliver, OtherStep, MockOtherStep, ServerStep, MockServerStep
  <2> QED
    BY <1>1, <2>1, PageWaitsOn
<1> QED
  BY <1>2, <1>3

\* A page that has just been opened waits for what it has asked for.
LEMMA MountAsks ==
    ASSUME NEW left, HasIds(left), \A q \in DOMAIN left : left[q].op \in Mutations, NEW p \in Routes
    PROVE  LET S == MountRequests(p, left) IN
           /\ p.at = "mail"      => AwaitsIn(S, "mails") # {}
           /\ p.at = "sandboxes" => AwaitsIn(S, "boxes") # {}
           /\ p.at = "mocks"     => AwaitsIn(S, "mocks") # {}
           /\ p.at = "mock"      => AwaitsIn(S, "mock") # {}
<1>1. ASSUME NEW S, HasIds(S), NEW op \in Ops, NEW arg, \A q \in DOMAIN S : S[q].op # op
      PROVE  AwaitsIn(Sent(S, op, arg), op) # {}
  <2>1. Adds(Sent(S, op, arg), S, op, arg)
    BY <1>1, SentIs
  <2> QED
    BY <2>1 DEF Adds, AwaitsIn, Request
<1>2. \A op, arg : op \in Ops \ Mutations => AwaitsIn(Sent(left, op, arg), op) # {}
  BY <1>1
<1>3. CASE p.at = "mail" /\ p.box # Inbox
  <2> DEFINE S == Sent(left, "box", p.box)
  <2>1. Adds(S, left, "box", p.box)
    BY SentIs DEF Ops, Mutations
  <2> HIDE DEF S
  <2>2. HasIds(S) /\ \A q \in DOMAIN S : S[q].op # "mails"
    BY <2>1 DEF Adds, Request, Mutations
  <2>3. AwaitsIn(Sent(S, "mails", p.box), "mails") # {}
    BY <1>1, <2>2 DEF Ops
  <2> QED
    BY <1>3, <2>3 DEF MountRequests, S
<1>4. CASE ~(p.at = "mail" /\ p.box # Inbox)
  BY <1>2, <1>4 DEF MountRequests, Ops, Mutations
<1> QED
  BY <1>3, <1>4

LEMMA StartHangsNothing ==
    ASSUME page' \in Routes, ui' = UiInit(page'), NEW left, HasIds(left),
           \A q \in DOMAIN left : left[q].op \in Mutations, net' = MountRequests(page', left)
    PROVE  NothingHangs'
<1>1. /\ page'.at = "mail"      => Awaits("mails")' # {}
      /\ page'.at = "sandboxes" => Awaits("boxes")' # {}
      /\ page'.at = "mocks"     => Awaits("mocks")' # {}
      /\ page'.at = "mock"      => Awaits("mock")' # {}
  BY MountAsks DEF Awaits, AwaitsIn
<1> HIDE DEF Awaits
<1>2. OnMail' => MailWaits'
  BY <1>1 DEF OnMail, MailWaits, UiInit, MailInit
<1>3. OnList' => ListWaits'
  BY <1>1, MailAssumption DEF OnList, ListWaits, UiInit, ListInit
<1>4. OnForm' => FormWaits'
  BY DEF OnForm, FormWaits, UiInit, FormInit
<1>5. OnMocks' => MocksWait'
  BY <1>1 DEF OnMocks, MocksWait, UiInit, MocksInit
<1>6. OnMock' => EditorWaits'
  BY <1>1 DEF OnMock, EditorWaits, UiInit, EditorInit
<1> QED
  BY <1>2, <1>3, <1>4, <1>5, <1>6 DEF NothingHangs

LEMMA TabHangsNothing ==
    ASSUME DashInv, NEW p \in Routes, NEW S, Within(S, net), Goto(p, S)
    PROVE  NothingHangs'
<1> DEFINE left == LeftBehind(S)
<1>1. page' = p /\ net' = MountRequests(page', left) /\ ui' = UiInit(page')
  BY DEF Goto
<1>2. HasIds(S) /\ \A q \in DOMAIN S : TypedRequest(S[q])
  BY FewerHaveIds DEF DashInv, NetSound, Within
<1>3. \A q \in DOMAIN left : q \in DOMAIN S /\ left[q].op = S[q].op /\ left[q].op \in Mutations
  BY <1>2, LeftIs
<1> HIDE DEF left
<1>4. HasIds(left)
  BY <1>2, <1>3, FewerHaveIds
<1> QED
  BY <1>1, <1>3, <1>4, StartHangsNothing


\* The page of a mailbox goes on: what it waits for is either still under way or new.
LEMMA MailWaitsOn ==
    ASSUME NothingHangs, OnMail, page' = page, NEW gone, Keeps(net', gone),
           ui'.loading => (ui.loading /\ Spares(gone, "mails")) \/ \E a : Asks(net', "mails", a),
           ui'.detailLoading => (ui.detailLoading /\ Spares(gone, "open")) \/ \E a : Asks(net', "open", a),
           ui'.smtp = "loading" => (ui.smtp = "loading" /\ Spares(gone, "creds")) \/ \E a : Asks(net', "creds", a),
           ui'.smtp = "sending" =>
               \/ ui.smtp = "sending" /\ \A q \in gone : net[q].op = "test" /\ net[q].home => net[q].arg # "dialog"
               \/ Asks(net', "test", "dialog")
    PROVE  NothingHangs'
<1>1. \A op : Awaits(op) # {} /\ Spares(gone, op) => Awaits(op)' # {}
  BY DEF Keeps, Awaits, Spares
<1>2. \A op, a : Asks(net', op, a) => \E p \in Awaits(op)' : net'[p].arg = a
  BY DEF Asks, AwaitsIn, Awaits
<1>3. (\A q \in gone : net[q].op = "test" /\ net[q].home => net[q].arg # "dialog") =>
         \A q \in Awaits("test") : net[q].arg = "dialog" => \E p \in Awaits("test")' : net'[p].arg = "dialog"
  BY DEF Keeps, Awaits
<1>4. MailWaits
  BY DEF NothingHangs
<1> HIDE DEF Awaits, Asks, Spares
<1>5. MailWaits'
  BY <1>1, <1>2, <1>3, <1>4 DEF MailWaits
<1> QED
  BY <1>5 DEF NothingHangs, OnMail, OnList, OnForm, OnMocks, OnMock

LEMMA ListWaitsOn ==
    ASSUME NothingHangs, OnList, page' = page, NEW gone, Keeps(net', gone),
           ui'.loading => (ui.loading /\ Spares(gone, "boxes")) \/ \E a : Asks(net', "boxes", a),
           \A b \in Boxes : ui'.toggling = b =>
               \/ ui.toggling = b /\ Spares(gone, "toggle")
               \/ \E a : Asks(net', "toggle", a) /\ a.box = b
    PROVE  NothingHangs'
<1>1. \A op : Awaits(op) # {} /\ Spares(gone, op) => Awaits(op)' # {}
  BY DEF Keeps, Awaits, Spares
<1>2. \A op, a : Asks(net', op, a) => \E p \in Awaits(op)' : net'[p].arg = a
  BY DEF Asks, AwaitsIn, Awaits
<1>3. Spares(gone, "toggle") =>
         \A q \in Awaits("toggle"), b \in Boxes : net[q].arg.box = b => \E p \in Awaits("toggle")' : net'[p].arg.box = b
  BY DEF Keeps, Awaits, Spares
<1>4. ListWaits
  BY DEF NothingHangs
<1> HIDE DEF Awaits, Asks, Spares
<1>5. ListWaits'
  BY <1>1, <1>2, <1>3, <1>4 DEF ListWaits
<1> QED
  BY <1>5 DEF NothingHangs, OnMail, OnList, OnForm, OnMocks, OnMock

LEMMA FormWaitsOn ==
    ASSUME NothingHangs, OnForm, page' = page, NEW gone, Keeps(net', gone),
           ui'.status = "checking" =>
               \/ ui.status = "checking" /\ (ui.timer => ui'.timer) /\ Spares(gone, "check")
               \/ ui'.timer \/ \E a : Asks(net', "check", a),
           ui'.submitting => (ui.submitting /\ Spares(gone, "create")) \/ \E a : Asks(net', "create", a)
    PROVE  NothingHangs'
<1>1. \A op : Awaits(op) # {} /\ Spares(gone, op) => Awaits(op)' # {}
  BY DEF Keeps, Awaits, Spares
<1>2. \A op, a : Asks(net', op, a) => \E p \in Awaits(op)' : net'[p].arg = a
  BY DEF Asks, AwaitsIn, Awaits
<1>4. FormWaits
  BY DEF NothingHangs
<1> HIDE DEF Awaits, Asks, Spares
<1>5. FormWaits'
  BY <1>1, <1>2, <1>4 DEF FormWaits
<1> QED
  BY <1>5 DEF NothingHangs, OnMail, OnList, OnForm, OnMocks, OnMock

LEMMA EditorWaitsOn ==
    ASSUME NothingHangs, OnMock, page' = page, NEW gone, Keeps(net', gone),
           ui'.view = "spinner" => ui.view = "spinner" /\ Spares(gone, "mock"),
           ui'.saving => (ui.saving /\ Spares(gone, "response")) \/ \E a : Asks(net', "response", a),
           ui'.logsLoading => (ui.logsLoading /\ Spares(gone, "logs")) \/ \E a : Asks(net', "logs", a)
    PROVE  NothingHangs'
<1>1. \A op : Awaits(op) # {} /\ Spares(gone, op) => Awaits(op)' # {}
  BY DEF Keeps, Awaits, Spares
<1>2. \A op, a : Asks(net', op, a) => \E p \in Awaits(op)' : net'[p].arg = a
  BY DEF Asks, AwaitsIn, Awaits
<1>4. EditorWaits
  BY DEF NothingHangs
<1> HIDE DEF Awaits, Asks, Spares
<1>5. EditorWaits'
  BY <1>1, <1>2, <1>4 DEF EditorWaits
<1> QED
  BY <1>5 DEF NothingHangs, OnMail, OnList, OnForm, OnMocks, OnMock

\* The list of endpoints goes on with st, and the requests S.
LEMMA MocksWaitOn ==
    ASSUME DashInv, NothingHangs, OnMocks, NEW st, CardsTyped(st), NEW S, Follows(S), Becomes(st, S),
           NEW gone, Keeps(S, gone),
           st.loading => (ui.loading /\ Spares(gone, "mocks")) \/ \E a : Asks(S, "mocks", a),
           st.creating => (ui.creating /\ Spares(gone, "endpoint")) \/ \E a : Asks(S, "endpoint", a),
           st.importing => (ui.importing /\ Spares(gone, "import")) \/ \E a : Asks(S, "import", a),
           \A m \in Mocks : st.card[m] # None /\ st.card[m].busy =>
               \/ /\ ui.card[m] = st.card[m]
                  /\ \A q \in gone : net[q].op = "flip" /\ net[q].home /\ net[q].arg.card => net[q].arg.mock # m
               \/ \E a : Asks(S, "flip", a) /\ a.mock = m /\ a.card
    PROVE  NothingHangs'
<1>1. page' = page /\ ui' = Cards(st) /\ net' = Hides(ui', S)
  BY DEF Becomes, PageStep
<1>2. MocksWait
  BY DEF NothingHangs
<1>3. /\ st.loading => AwaitsIn(S, "mocks") # {}
      /\ st.creating => AwaitsIn(S, "endpoint") # {}
      /\ st.importing => AwaitsIn(S, "import") # {}
  <2>1. \A op : Awaits(op) # {} /\ Spares(gone, op) => AwaitsIn(S, op) # {}
    BY DEF Keeps, Awaits, AwaitsIn, Spares
  <2>2. \A op, a : Asks(S, op, a) => AwaitsIn(S, op) # {}
    BY DEF Asks
  <2> HIDE DEF Awaits, AwaitsIn, Asks, Spares
  <2> QED
    BY <1>2, <2>1, <2>2 DEF MocksWait
<1>4. ASSUME NEW m \in Mocks, st.card[m] # None, st.card[m].busy
      PROVE  \E q \in AwaitsIn(S, "flip") : S[q].arg.mock = m /\ S[q].arg.card
  BY <1>2, <1>4 DEF MocksWait, Keeps, Awaits, Asks, AwaitsIn
<1>5. DOMAIN net' = DOMAIN S
  BY <1>1 DEF Hides
<1>6. ASSUME NEW q \in DOMAIN S
      PROVE  /\ net'[q].op = S[q].op /\ net'[q].home = S[q].home
             /\ S[q].op = "flip" /\ S[q].home /\ ui'.card[S[q].arg.mock] # None => net'[q] = S[q]
  <2>1. TypedRequest(S[q])
    BY FollowersAreSound
  <2>2. \A c : LET r == Hides(c, S)[q] IN r.op = S[q].op /\ r.home = S[q].home
    BY <2>1, HidesFlips
  <2>3. \A c : S[q].op = "flip" /\ S[q].home /\ c.card[S[q].arg.mock] # None => Hides(c, S)[q] = S[q]
    BY DEF Hides
  <2> HIDE DEF Hides
  <2> QED
    BY <1>1, <2>2, <2>3
<1>7. /\ ui'.loading = st.loading /\ ui'.creating = st.creating /\ ui'.importing = st.importing
      /\ \A m \in Mocks : ui'.card[m] # None /\ ui'.card[m].busy => st.card[m] # None /\ st.card[m].busy
  <2> DEFINE card == [m \in Mocks |->
                 CASE m \notin Visible(st)                   -> None
                   [] m \in Visible(st) /\ st.card[m] = None -> [active |-> st.rows[m].active, busy |-> FALSE]
                   [] OTHER                                  -> st.card[m]]
  <2>1. ui' = [st EXCEPT !.card = card]
    BY <1>1 DEF Cards
  <2>2. \A m \in Mocks : card[m] # None /\ card[m].busy => st.card[m] # None /\ st.card[m].busy
    OBVIOUS
  <2> HIDE DEF card
  <2>3. ui'.card = card /\ ui'.loading = st.loading /\ ui'.creating = st.creating /\ ui'.importing = st.importing
    BY <2>1 DEF CardsTyped, MocksInit
  <2> QED
    BY <2>2, <2>3
<1>8. \A op : AwaitsIn(S, op) # {} => Awaits(op)' # {}
  BY <1>5, <1>6 DEF AwaitsIn, Awaits
<1>9. ASSUME NEW m \in Mocks, ui'.card[m] # None, ui'.card[m].busy
      PROVE  \E q \in Awaits("flip")' : net'[q].arg.mock = m /\ net'[q].arg.card
  <2>1. PICK q \in AwaitsIn(S, "flip") : S[q].arg.mock = m /\ S[q].arg.card
    BY <1>4, <1>7, <1>9
  <2> QED
    BY <1>5, <1>6, <1>9, <2>1 DEF AwaitsIn, Awaits
<1> HIDE DEF Awaits, AwaitsIn, Asks
<1>10. MocksWait'
  BY <1>3, <1>7, <1>8, <1>9 DEF MocksWait
<1> QED
  BY <1>1, <1>10 DEF NothingHangs, OnMail, OnList, OnForm, OnMocks, OnMock


LEMMA MailHangsNothing ==
    ASSUME DashInv, NothingHangs, MailClick \/ FetchMails \/ MailAnswered PROVE NothingHangs'
<1> DEFINE none == {}
<1>1. /\ OnMail => DOMAIN ui = DOMAIN MailInit
      /\ \A q \in DOMAIN net : net[q].home => page.at = PageOf(net[q].op)
      /\ \A q \in DOMAIN net : net[q].op \notin Mutations => net[q].home
  BY DEF DashInv, UiSound, MailUi, NetSound, TypedRequest, Own
<1>2. ASSUME NEW op \in Ops, NEW arg, Room(net, 1), net' = Sent(net, op, arg)
      PROVE  Keeps(net', none) /\ Asks(net', op, arg)
  BY <1>2, SentAsks
<1>3. net' = net => Keeps(net', none)
  BY DoneKeeps
<1>4. Spares(none, "mails") /\ Spares(none, "open") /\ Spares(none, "creds")
  BY DEF Spares
<1>5. CASE LeaveMail
  <2>1. ListRoute \in Routes /\ Within(net, net)
    BY DEF ListRoute, Routes, Within
  <2> QED
    BY <1>5, <2>1, TabHangsNothing DEF LeaveMail
<1>6. CASE (MailClick /\ ~LeaveMail) \/ FetchMails
  <2>1. OnMail /\ page' = page
    BY <1>6 DEF MailClick, Select, Remove, Clear, ShowCreds, HideCreds, OpenTest, CloseTest, SendTest,
                MailRows, InboxRows, SandboxRows, OnScreen, InboxPane, SandboxPane, InPane, OnInbox,
                OnSandbox, MayClearInbox, MayClearSandbox, Banner, InboxBanner, SandboxBanner, FetchMails,
                PageStep
  <2>2. ASSUME NEW m \in Mails, Select(m) PROVE NothingHangs'
    <3>1. Room(net, 1) /\ ui' = [ui EXCEPT !.selected = m, !.detailLoading = TRUE]
          /\ \E arg : net' = Sent(net, "open", arg)
      BY <2>2 DEF Select, RoomToAct
    <3>2. Keeps(net', none) /\ \E a : Asks(net', "open", a)
      BY <1>2, <3>1 DEF Ops, Mutations
    <3>3. ui'.loading = ui.loading /\ ui'.smtp = ui.smtp
      BY <1>1, <2>1, <3>1 DEF MailInit
    <3> QED
      BY <1>4, <2>1, <3>2, <3>3, MailWaitsOn
  <2>3. CASE Remove \/ Clear \/ FetchMails
    <3>1. Room(net, 1) /\ UNCHANGED ui /\ \E op \in Ops : \E arg : net' = Sent(net, op, arg)
      BY <2>3 DEF Remove, Clear, FetchMails, RoomToAct, Ops, Mutations
    <3>2. Keeps(net', none)
      BY <1>2, <3>1
    <3> QED
      BY <1>4, <2>1, <3>1, <3>2, MailWaitsOn
  <2>4. CASE ShowCreds \/ SendTest
    <3>1. /\ Room(net, 1)
          /\ \/ net' = Sent(net, "creds", page.box) /\ ui' = [ui EXCEPT !.smtp = "loading"]
             \/ net' = Sent(net, "test", "dialog") /\ ui' = [ui EXCEPT !.smtp = "sending"]
      BY <2>4 DEF ShowCreds, SendTest, RoomToAct
    <3>2. /\ ui'.loading = ui.loading /\ ui'.detailLoading = ui.detailLoading
          /\ \/ ui'.smtp = "loading" /\ net' = Sent(net, "creds", page.box)
             \/ ui'.smtp = "sending" /\ net' = Sent(net, "test", "dialog")
      BY <1>1, <2>1, <3>1 DEF MailInit
    <3>3. Keeps(net', none) /\ (ui'.smtp = "loading" => \E a : Asks(net', "creds", a))
          /\ (ui'.smtp = "sending" => Asks(net', "test", "dialog"))
      BY <1>2, <3>1, <3>2 DEF Ops, Mutations
    <3> QED
      BY <1>4, <2>1, <3>2, <3>3, MailWaitsOn
  <2>5. CASE HideCreds \/ OpenTest
    <3>1. UNCHANGED net /\ \E s \in {"hidden", "form"} : ui' = [ui EXCEPT !.smtp = s]
      BY <2>5 DEF HideCreds, OpenTest
    <3>2. ui'.loading = ui.loading /\ ui'.detailLoading = ui.detailLoading /\ ui'.smtp \in {"hidden", "form"}
      BY <1>1, <2>1, <3>1 DEF MailInit
    <3> QED
      BY <1>3, <1>4, <2>1, <3>1, <3>2, MailWaitsOn
  <2>6. CASE CloseTest
    <3> DEFINE gone == {q \in DOMAIN net : net[q].op = "test"}
    <3>1. ui'.loading = ui.loading /\ ui'.detailLoading = ui.detailLoading /\ ui'.smtp = "shown"
      BY <1>1, <2>1, <2>6 DEF CloseTest, MailInit
    <3>2. Keeps(net', gone)
      BY <2>6 DEF CloseTest, Keeps
    <3>3. Spares(gone, "mails") /\ Spares(gone, "open") /\ Spares(gone, "creds")
      BY DEF Spares
    <3> HIDE DEF gone
    <3> QED
      BY <2>1, <3>1, <3>2, <3>3, MailWaitsOn
  <2> QED
    BY <1>6, <2>2, <2>3, <2>4, <2>5, <2>6 DEF MailClick
<1>7. CASE MailAnswered
  <2>1. PICK q \in DOMAIN net : \/ MailsLoaded(q) \/ BoxLoaded(q) \/ Opened(q) \/ Removed(q)
                                \/ Cleared(q) \/ CredsLoaded(q) \/ Tested(q)
    BY <1>7 DEF MailAnswered
  <2> DEFINE gone == {q}
  <2>2. page' = page
    BY <2>1 DEF MailsLoaded, BoxLoaded, Opened, Removed, Cleared, CredsLoaded, Tested, PageStep
  <2>3. Keeps(Done(q), gone) /\ \A op : net[q].op # op \/ ~net[q].home => Spares(gone, op)
    BY DoneKeeps DEF Spares
  <2>4. ASSUME ~net[q].home, UNCHANGED ui, net' = Done(q) PROVE NothingHangs'
    BY <2>2, <2>3, <2>4, PageWaitsOn
  <2>5. net[q].op \in {"mails", "box", "creds"} \/ (net[q].op \in {"open", "remove", "clear", "test"} /\ net[q].home)
           => OnMail /\ DOMAIN ui = DOMAIN MailInit
    BY <1>1 DEF PageOf, OnMail, Mutations
  <2>6. CASE MailsLoaded(q)
    <3>1. net[q].op = "mails" /\ net' = Done(q)
      BY <2>6 DEF MailsLoaded, Answered
    <3>2. ui'.loading = FALSE /\ ui'.detailLoading = ui.detailLoading /\ ui'.smtp = ui.smtp
      BY <2>5, <2>6, <3>1 DEF MailsLoaded, MailInit
    <3>3. Spares(gone, "open") /\ Spares(gone, "creds")
      BY <2>3, <3>1
    <3> QED
      BY <2>2, <2>3, <2>5, <3>1, <3>2, <3>3, MailWaitsOn
  <2>7. CASE BoxLoaded(q)
    <3>1. net[q].op = "box" /\ net' = Done(q)
      BY <2>7 DEF BoxLoaded, Answered
    <3>2. ui'.loading = ui.loading /\ ui'.detailLoading = ui.detailLoading /\ ui'.smtp = ui.smtp
      BY <2>5, <2>7, <3>1 DEF BoxLoaded, MailInit
    <3>3. Spares(gone, "mails") /\ Spares(gone, "open") /\ Spares(gone, "creds")
      BY <2>3, <3>1
    <3> QED
      BY <2>2, <2>3, <2>5, <3>1, <3>2, <3>3, MailWaitsOn
  <2>8. CASE CredsLoaded(q)
    <3>1. net[q].op = "creds" /\ net' = Done(q)
      BY <2>8 DEF CredsLoaded, Answered
    <3>2. ui'.loading = ui.loading /\ ui'.detailLoading = ui.detailLoading /\ ui'.smtp \in {"shown", "hidden"}
      BY <2>5, <2>8, <3>1 DEF CredsLoaded, MailInit
    <3>3. Spares(gone, "mails") /\ Spares(gone, "open")
      BY <2>3, <3>1
    <3> QED
      BY <2>2, <2>3, <2>5, <3>1, <3>2, <3>3, MailWaitsOn
  <2>9. CASE Opened(q)
    <3>1. net[q].op = "open" /\ net' = Done(q)
      BY <2>9 DEF Opened, Answered
    <3>2. CASE net[q].home
      <4>1. ui'.loading = ui.loading /\ ui'.detailLoading = FALSE /\ ui'.smtp = ui.smtp
        BY <2>5, <2>9, <3>1, <3>2 DEF Opened, InboxOpens, SandboxOpens, Opens, MailInit
      <4>2. Spares(gone, "mails") /\ Spares(gone, "creds")
        BY <2>3, <3>1
      <4> QED
        BY <2>2, <2>3, <2>5, <3>1, <3>2, <4>1, <4>2, MailWaitsOn
    <3> QED
      BY <2>4, <2>9, <3>1, <3>2 DEF Opened
  <2>10. CASE Removed(q) \/ Cleared(q)
    <3>1. net[q].op \in {"remove", "clear"} /\ net' = Done(q)
      BY <2>10 DEF Removed, Cleared, Answered
    <3>2. CASE net[q].home
      <4>1. ui'.loading = ui.loading /\ ui'.detailLoading = ui.detailLoading /\ ui'.smtp = ui.smtp
        <5>1. CASE Removed(q)
          BY <2>5, <3>1, <3>2, <5>1 DEF Removed, InboxRemoves, SandboxRemoves, Removes, MailInit
        <5>2. CASE Cleared(q)
          <6> DEFINE empty == MailInit.emails
          <6>1. ui' = ui \/ ui' = [ui EXCEPT !.emails = empty, !.total = 0, !.unread = 0,
                                             !.selected = None, !.shown = None]
            BY <5>2 DEF Cleared
          <6> HIDE DEF empty
          <6> QED
            BY <2>5, <3>1, <3>2, <6>1 DEF MailInit
        <5> QED
          BY <2>10, <5>1, <5>2
      <4>2. Spares(gone, "mails") /\ Spares(gone, "open") /\ Spares(gone, "creds")
        BY <2>3, <3>1
      <4> QED
        BY <2>2, <2>3, <2>5, <3>1, <3>2, <4>1, <4>2, MailWaitsOn
    <3> QED
      BY <2>4, <2>10, <3>1, <3>2 DEF Removed, Cleared
  <2>11. CASE Tested(q)
    <3>1. net[q].op = "test" /\ Room(Done(q), 1)
      BY <2>11 DEF Tested, Answered
    <3>2. CASE net[q].home
      <4>1. net' = Done(q) \/ net' = Sent(Done(q), "mails", Inbox)
        BY <2>11 DEF Tested
      <4>2. Keeps(net', gone)
        BY <2>3, <3>1, <4>1, SwapAsks DEF Ops
      <4>3. /\ ui'.loading = ui.loading /\ ui'.detailLoading = ui.detailLoading
            /\ ui'.smtp = IF net[q].arg # "dialog" THEN ui.smtp
                          ELSE IF net[q].at = "ok" THEN "sent" ELSE "form"
        BY <2>5, <2>11, <3>1, <3>2 DEF Tested, MailInit
      <4>4. Spares(gone, "mails") /\ Spares(gone, "open") /\ Spares(gone, "creds")
        BY <2>3, <3>1
      <4>5. ui'.smtp \in {"loading", "sending"} => ui'.smtp = ui.smtp /\ net[q].arg # "dialog"
        BY <4>3
      <4>6. ui'.smtp = "sending" => \A p \in gone : net[p].op = "test" /\ net[p].home => net[p].arg # "dialog"
        BY <4>5
      <4> HIDE DEF gone
      <4> QED
        BY <2>2, <2>5, <3>1, <3>2, <4>2, <4>3, <4>4, <4>5, <4>6, MailWaitsOn
    <3> QED
      BY <2>4, <2>11, <3>2 DEF Tested
  <2> QED
    BY <2>1, <2>6, <2>7, <2>8, <2>9, <2>10, <2>11
<1> QED
  BY <1>5, <1>6, <1>7


LEMMA SandboxHangsNothing ==
    ASSUME DashInv, NothingHangs, SandboxClick \/ Check \/ SandboxAnswered PROVE NothingHangs'
<1> DEFINE none == {}
<1>1. /\ (OnList => ListUi) /\ (OnForm => FormUi)
      /\ \A q \in DOMAIN net : net[q].home => page.at = PageOf(net[q].op)
      /\ \A q \in DOMAIN net : net[q].op \notin Mutations => net[q].home
      /\ \A q \in DOMAIN net : TypedRequest(net[q])
  BY DEF DashInv, UiSound, NetSound, TypedRequest, Own
<1>2. ASSUME NEW op \in Ops, NEW arg, Room(net, 1), net' = Sent(net, op, arg)
      PROVE  Keeps(net', none) /\ Asks(net', op, arg)
  BY <1>2, SentAsks
<1>3. net' = net => Keeps(net', none)
  BY DoneKeeps
<1>4. \A op : Spares(none, op)
  BY DEF Spares
<1>5. CASE SelectTag
  <2>1. /\ OnList /\ page' = page /\ Room(net, 1) /\ net' = Sent(net, "boxes", ui'.tag)
        /\ ui' = [ui EXCEPT !.tag = ~@, !.loading = TRUE]
    BY <1>5 DEF SelectTag, PageStep
  <2>2. ui'.toggling = ui.toggling
    BY <1>1, <2>1 DEF ListUi, ListInit
  <2>3. Keeps(net', none) /\ \E a : Asks(net', "boxes", a)
    BY <1>2, <2>1 DEF Ops
  <2> QED
    BY <1>4, <2>1, <2>2, <2>3, ListWaitsOn
<1>6. ASSUME NEW b \in Boxes, Toggle(b) PROVE NothingHangs'
  <2> DEFINE arg == [box |-> b, active |-> ui.rows[b] = "off"]
  <2>1. /\ OnList /\ page' = page /\ Room(net, 1) /\ net' = Sent(net, "toggle", arg)
        /\ ui' = [ui EXCEPT !.toggling = b] /\ arg.box = b
    BY <1>6 DEF Toggle, RoomToAct, PageStep
  <2> HIDE DEF arg
  <2>2. ui'.toggling = b /\ ui'.loading = ui.loading
    BY <1>1, <2>1 DEF ListUi, ListInit
  <2>3. Keeps(net', none) /\ Asks(net', "toggle", arg)
    BY <1>2, <2>1 DEF Ops, Mutations
  <2> QED
    BY <1>4, <2>1, <2>2, <2>3, ListWaitsOn
<1>7. CASE LeaveList
  <2>1. NewRoute \in Routes /\ Within(net, net) /\ \A b \in Boxes : MailRoute(b) \in Routes
    BY DEF NewRoute, MailRoute, Routes, Within
  <2>2. Goto(NewRoute, net) \/ \E b \in Boxes : Goto(MailRoute(b), net)
    BY <1>7 DEF LeaveList, Listed
  <2> QED
    BY <2>1, <2>2, TabHangsNothing
<1>8. ASSUME OnForm, NEW p, SetPrefix(p) PROVE NothingHangs'
  <2>1. net' = net /\ page' = page
    BY <1>8 DEF SetPrefix, PageStep
  <2>2. (ui'.status = "checking" => ui'.timer) /\ ui'.submitting = ui.submitting
    BY <1>1, <1>8 DEF SetPrefix, FormUi, FormInit
  <2> QED
    BY <1>3, <1>4, <1>8, <2>1, <2>2, FormWaitsOn
<1>9. CASE TrySuggestion \/ \E p \in Prefixes \cup {None} : Type(p)
  BY <1>8, <1>9 DEF TrySuggestion, Type
<1>10. CASE Submit \/ Check
  <2>1. /\ OnForm /\ page' = page /\ Room(net, 1)
        /\ \/ net' = Sent(net, "create", ui.prefix) /\ ui' = [ui EXCEPT !.submitting = TRUE]
           \/ net' = Sent(net, "check", ui.prefix) /\ ui' = [ui EXCEPT !.timer = FALSE]
    BY <1>10 DEF Submit, MaySubmit, Check, PageStep
  <2>2. /\ ui'.status = ui.status
        /\ \/ net' = Sent(net, "create", ui.prefix) /\ ui'.timer = ui.timer
           \/ net' = Sent(net, "check", ui.prefix) /\ ui'.submitting = ui.submitting
    BY <1>1, <2>1 DEF FormUi, FormInit
  <2>3. /\ Keeps(net', none)
        /\ net' = Sent(net, "create", ui.prefix) => \E a : Asks(net', "create", a)
        /\ net' = Sent(net, "check", ui.prefix) => \E a : Asks(net', "check", a)
    BY <1>2, <2>1 DEF Ops, Mutations
  <2> QED
    BY <1>4, <2>1, <2>2, <2>3, FormWaitsOn
<1>11. CASE LeaveForm
  <2>1. ListRoute \in Routes /\ Within(net, net)
    BY DEF ListRoute, Routes, Within
  <2> QED
    BY <1>11, <2>1, TabHangsNothing DEF LeaveForm
<1>12. CASE SandboxAnswered
  <2>1. PICK q \in DOMAIN net : BoxesLoaded(q) \/ Toggled(q) \/ Checked(q) \/ Submitted(q)
    BY <1>12 DEF SandboxAnswered
  <2> DEFINE gone == {q}
  <2>2. Keeps(Done(q), gone) /\ \A op : net[q].op # op \/ ~net[q].home => Spares(gone, op)
    BY DoneKeeps DEF Spares
  <2>3. ASSUME ~net[q].home, UNCHANGED <<page, ui>>, net' = Done(q) PROVE NothingHangs'
    BY <2>2, <2>3, PageWaitsOn
  <2>4. CASE BoxesLoaded(q)
    <3>1. net[q].op = "boxes" /\ net' = Done(q) /\ page' = page
      BY <2>4 DEF BoxesLoaded, Answered, PageStep
    <3>2. OnList
      BY <1>1, <3>1 DEF PageOf, OnList, Mutations
    <3>3. ui'.loading = FALSE /\ ui'.toggling = ui.toggling
      BY <1>1, <2>4, <3>2 DEF BoxesLoaded, ListUi, ListInit
    <3>4. Spares(gone, "toggle")
      BY <2>2, <3>1
    <3> QED
      BY <2>2, <3>1, <3>2, <3>3, <3>4, ListWaitsOn
  <2>5. CASE Toggled(q)
    <3>1. net[q].op = "toggle" /\ net' = Done(q) /\ page' = page
      BY <2>5 DEF Toggled, Answered, PageStep
    <3>2. CASE net[q].home
      <4>1. OnList
        BY <1>1, <3>1, <3>2 DEF PageOf, OnList
      <4>2. ui'.loading = ui.loading /\ ui'.toggling = None
        <5>1. \/ ui' = [ui EXCEPT !.rows[net[q].arg.box] = Flip(@), !.toggling = None]
              \/ ui' = [ui EXCEPT !.toggling = None]
          BY <2>5, <3>2 DEF Toggled
        <5> HIDE DEF Flip
        <5> QED
          BY <1>1, <4>1, <5>1 DEF ListUi, ListInit
      <4>3. Spares(gone, "boxes") /\ None \notin Boxes
        BY <2>2, <3>1, MailAssumption
      <4> QED
        BY <2>2, <3>1, <4>1, <4>2, <4>3, ListWaitsOn
    <3> QED
      BY <2>3, <2>5, <3>1, <3>2 DEF Toggled
  <2>6. CASE Checked(q)
    <3>1. net[q].op = "check" /\ net' = Done(q) /\ page' = page
      BY <2>6 DEF Checked, Answered, PageStep
    <3>2. OnForm
      BY <1>1, <3>1 DEF PageOf, OnForm, Mutations
    <3>3. ui'.status \in {"idle", "available", "taken"} /\ ui'.submitting = ui.submitting
      BY <1>1, <2>6, <3>2 DEF Checked, FormUi, FormInit
    <3>4. Spares(gone, "create")
      BY <2>2, <3>1
    <3> QED
      BY <2>2, <3>1, <3>2, <3>3, <3>4, FormWaitsOn
  <2>7. CASE Submitted(q)
    <3>1. net[q].op = "create"
      BY <2>7 DEF Submitted, Answered
    <3>2. CASE Goto(MailRoute(net[q].ans), Done(q)) /\ net[q].at = "ok"
      <4>1. MailRoute(net[q].ans) \in Routes
        BY <1>1, <3>1, <3>2 DEF TypedRequest, MailRoute, Routes
      <4> QED
        BY <3>2, <4>1, DoneIsWithin, TabHangsNothing
    <3>3. CASE ~net[q].home /\ net' = Done(q) /\ UNCHANGED <<page, ui>>
      BY <2>3, <3>3
    <3>4. CASE net[q].home /\ net' = Done(q) /\ page' = page /\ net[q].at # "ok"
      <4>1. OnForm
        BY <1>1, <3>1, <3>4 DEF PageOf, OnForm
      <4>2. ui'.submitting = FALSE /\ ui'.status = ui.status /\ ui'.timer = ui.timer
        BY <1>1, <2>7, <3>4, <4>1 DEF Submitted, FormUi, FormInit
      <4>3. Spares(gone, "check")
        BY <2>2, <3>1
      <4> QED
        BY <2>2, <3>4, <4>1, <4>2, <4>3, FormWaitsOn
    <3>5. CASE net[q].home /\ page = MailRoute(net[q].ans)
      BY <1>1, <3>1, <3>5 DEF PageOf, MailRoute
    <3> QED
      BY <2>7, <3>2, <3>3, <3>4, <3>5 DEF Submitted
  <2> QED
    BY <2>1, <2>4, <2>5, <2>6, <2>7
<1> QED
  BY <1>5, <1>6, <1>7, <1>9, <1>10, <1>11, <1>12 DEF SandboxClick


LEMMA MocksHangNothing ==
    ASSUME DashInv, NothingHangs, MocksClick \/ MocksAnswered PROVE NothingHangs'
<1> DEFINE none == {}
<1>1. /\ OnMocks => MocksUi /\ CardsTyped(ui)
      /\ \A q \in DOMAIN net : net[q].home => page.at = PageOf(net[q].op)
      /\ \A q \in DOMAIN net : net[q].op \notin Mutations => net[q].home
      /\ \A q \in DOMAIN net : TypedRequest(net[q]) /\ Own(net[q])
  BY DEF DashInv, UiSound, MocksUi, NetSound, TypedRequest, Own
<1>2. ASSUME NEW op \in Ops, NEW arg, Room(net, 1)
      PROVE  Keeps(Sent(net, op, arg), none) /\ Asks(Sent(net, op, arg), op, arg)
  BY <1>2, SentAsks
<1>3. Keeps(net, none) /\ Follows(net)
  BY DoneKeeps, NothingFollows
<1>4. \A op : Spares(none, op)
  BY DEF Spares
<1>5. ASSUME OnMocks, NEW st, Dialogs(st) PROVE CardsTyped(st)
  BY <1>1, <1>5 DEF CardsTyped, Dialogs
<1>6. ASSUME NEW k, Filter(k) PROVE NothingHangs'
  <2> DEFINE st == [ui EXCEPT !.filter = k]
  <2>1. OnMocks /\ Becomes(st, net)
    BY <1>6 DEF Filter, Behind
  <2>2. /\ Dialogs(st) /\ st.loading = ui.loading /\ st.creating = ui.creating
        /\ st.importing = ui.importing /\ st.card = ui.card
    BY <1>1, <2>1 DEF Dialogs, CardsTyped, MocksInit
  <2> HIDE DEF st
  <2> QED
    BY <1>3, <1>4, <1>5, <2>1, <2>2, MocksWaitOn
<1>7. CASE OpenCreate \/ OpenYaml \/ CloseCreate \/ CloseYaml
  <2>1. OnMocks /\ \/ \E d : Becomes([ui EXCEPT !.dialog = d], net)
                   \/ Becomes([ui EXCEPT !.dialog = "none", !.result = FALSE], net)
    BY <1>7, Zenon DEF OpenCreate, OpenYaml, CloseCreate, CloseYaml, Behind
  <2>2. ASSUME NEW st, Becomes(st, net), Dialogs(st), st.loading = ui.loading, st.creating = ui.creating,
               st.importing = ui.importing, st.card = ui.card
        PROVE  NothingHangs'
    BY <1>3, <1>4, <1>5, <2>1, <2>2, MocksWaitOn
  <2>3. ASSUME NEW d, Becomes([ui EXCEPT !.dialog = d], net) PROVE NothingHangs'
    <3> DEFINE st == [ui EXCEPT !.dialog = d]
    <3>1. /\ Dialogs(st) /\ st.loading = ui.loading /\ st.creating = ui.creating
          /\ st.importing = ui.importing /\ st.card = ui.card /\ Becomes(st, net)
      BY <1>1, <2>1, <2>3 DEF Dialogs, CardsTyped, MocksInit
    <3> HIDE DEF st
    <3> QED
      BY <2>2, <3>1
  <2>4. CASE Becomes([ui EXCEPT !.dialog = "none", !.result = FALSE], net)
    <3> DEFINE st == [ui EXCEPT !.dialog = "none", !.result = FALSE]
    <3>1. /\ Dialogs(st) /\ st.loading = ui.loading /\ st.creating = ui.creating
          /\ st.importing = ui.importing /\ st.card = ui.card /\ Becomes(st, net)
      BY <1>1, <2>1, <2>4 DEF Dialogs, CardsTyped, MocksInit
    <3> HIDE DEF st
    <3> QED
      BY <2>2, <3>1
  <2> QED
    BY <2>1, <2>3, <2>4
<1>8. ASSUME NEW k \in Keys, CreateMock(k) PROVE NothingHangs'
  <2> DEFINE st == [ui EXCEPT !.creating = TRUE]
             arg == [key |-> k]
             S == Sent(net, "endpoint", arg)
  <2>1. OnMocks /\ Room(net, 1) /\ Becomes(st, S) /\ arg.key \in Keys
    BY <1>8 DEF CreateMock, RoomToAct
  <2>2. /\ Dialogs(st) /\ st.loading = ui.loading
        /\ st.importing = ui.importing /\ st.card = ui.card
    BY <1>1, <2>1 DEF Dialogs, CardsTyped, MocksInit
  <2> HIDE DEF st, arg
  <2>3. Follows(S)
    BY <2>1, MocksFresh, SentFollows
  <2>4. Keeps(S, none) /\ \E a : Asks(S, "endpoint", a)
    BY <1>2, <2>1 DEF Ops, Mutations
  <2> HIDE DEF S
  <2> QED
    BY <1>4, <1>5, <2>1, <2>2, <2>3, <2>4, MocksWaitOn
<1>9. ASSUME NEW k \in Keys, NEW o \in BOOLEAN, Import(k, o) PROVE NothingHangs'
  <2> DEFINE st == [ui EXCEPT !.importing = TRUE]
             arg == [key |-> k, overwrite |-> o]
             S == Sent(net, "import", arg)
  <2>1. OnMocks /\ Room(net, 1) /\ Becomes(st, S) /\ arg.key \in Keys
    BY <1>9 DEF Import, RoomToAct
  <2>2. /\ Dialogs(st) /\ st.loading = ui.loading
        /\ st.creating = ui.creating /\ st.card = ui.card
    BY <1>1, <2>1 DEF Dialogs, CardsTyped, MocksInit
  <2> HIDE DEF st, arg
  <2>3. Follows(S)
    BY <2>1, MocksFresh, SentFollows
  <2>4. Keeps(S, none) /\ \E a : Asks(S, "import", a)
    BY <1>2, <2>1 DEF Ops, Mutations
  <2> HIDE DEF S
  <2> QED
    BY <1>4, <1>5, <2>1, <2>2, <2>3, <2>4, MocksWaitOn
<1>10. ASSUME NEW m \in Mocks, FlipSwitch(m) PROVE NothingHangs'
  <2> DEFINE old == ui.card[m]
             new == [old EXCEPT !.busy = TRUE]
             st == [ui EXCEPT !.card[m] = new]
             arg == [mock |-> m, to |-> ~old.active, seen |-> ui.rows, card |-> TRUE]
             S == Sent(net, "flip", arg)
  <2>1. OnMocks /\ old # None /\ Room(net, 1) /\ Becomes(st, S)
    BY <1>10 DEF FlipSwitch, Behind, RoomToAct
  <2>2. old.active \in BOOLEAN /\ ui.rows \in MockRows /\ ui.rows[m] # None
    BY <1>1, <2>1 DEF MocksUi, CardsTyped
  <2>3. FlipTyped(arg) /\ arg.mock = m /\ arg.to \in BOOLEAN /\ arg.card = TRUE
    BY <2>2 DEF FlipTyped
  <2>4. new.active = old.active
    OBVIOUS
  <2> HIDE DEF old, new, arg
  <2>5. /\ CardsTyped(st) /\ st.loading = ui.loading /\ st.creating = ui.creating
        /\ st.importing = ui.importing /\ \A n \in Mocks : n # m => st.card[n] = ui.card[n]
    <3>1. /\ DOMAIN st = DOMAIN MocksInit /\ st.rows = ui.rows
          /\ st.card = [ui.card EXCEPT ![m] = new] /\ st.loading = ui.loading
          /\ st.creating = ui.creating /\ st.importing = ui.importing
      BY <1>1, <2>1 DEF CardsTyped, MocksInit
    <3> HIDE DEF st
    <3> QED
      BY <1>1, <2>1, <2>2, <2>4, <3>1 DEF CardsTyped
  <2> HIDE DEF st
  <2>6. Follows(S)
    BY <2>1, <2>3, MocksFresh, SentFollows DEF old
  <2>7. Keeps(S, none) /\ Asks(S, "flip", arg)
    BY <1>2, <2>1 DEF Ops, Mutations
  <2> HIDE DEF S
  <2> QED
    BY <1>4, <2>1, <2>3, <2>5, <2>6, <2>7, MocksWaitOn
<1>11. CASE Reload
  <2> DEFINE left == <<>>
  <2>1. /\ page' = page /\ page.at = "mocks" /\ ui' = MocksInit /\ net' = MountRequests(page', left)
    BY <1>11 DEF Reload, Broken, OnMocks, PageStep
  <2>2. DOMAIN left = {}
    OBVIOUS
  <2> HIDE DEF left
  <2>3. HasIds(left) /\ \A q \in DOMAIN left : left[q].op \in Mutations
    BY <2>2, FS_EmptySet DEF HasIds
  <2>4. page' \in Routes /\ ui' = UiInit(page')
    BY <2>1 DEF DashInv, UiInit
  <2> QED
    BY <2>1, <2>3, <2>4, StartHangsNothing
<1>12. CASE LeaveMocks
  <2>1. PICK m \in Mocks : Goto(EditorRoute(m), net)
    BY <1>12 DEF LeaveMocks, Visible
  <2>2. EditorRoute(m) \in Routes /\ Within(net, net)
    BY DEF EditorRoute, Routes, Within
  <2> QED
    BY <2>1, <2>2, TabHangsNothing
<1>13. CASE MocksAnswered
  <2>1. PICK q \in DOMAIN net : MocksLoaded(q) \/ Flipped(q) \/ Created(q) \/ Imported(q)
    BY <1>13 DEF MocksAnswered
  <2> DEFINE gone == {q}
  <2>2. /\ Keeps(Done(q), gone) /\ Follows(Done(q))
        /\ \A op : net[q].op # op \/ ~net[q].home => Spares(gone, op)
    BY DoneKeeps, DoneFollows DEF Spares
  <2>3. ASSUME ~net[q].home, UNCHANGED ui, page' = page, net' = Done(q) PROVE NothingHangs'
    BY <2>2, <2>3, PageWaitsOn
  <2>4. net[q].op # "flip" => \A m \in Mocks, p \in gone :
           net[p].op = "flip" /\ net[p].home /\ net[p].arg.card => net[p].arg.mock # m
    OBVIOUS
  <2>5. CASE MocksLoaded(q)
    <3> DEFINE st == IF net[q].at = "ok" THEN [ui EXCEPT !.rows = net[q].ans, !.loading = FALSE]
                     ELSE [ui EXCEPT !.loading = FALSE]
    <3>1. net[q].op = "mocks" /\ Becomes(st, Done(q))
      BY <2>5 DEF MocksLoaded, Answered
    <3>2. OnMocks
      BY <1>1, <3>1 DEF PageOf, OnMocks, Mutations
    <3>3. net[q].at = "ok" => net[q].ans \in MockRows
      BY <1>1, <3>1 DEF TypedRequest
    <3>4. /\ CardsTyped(st) /\ st.loading = FALSE /\ st.creating = ui.creating
          /\ st.importing = ui.importing /\ st.card = ui.card
      <4>1. /\ DOMAIN st = DOMAIN MocksInit /\ st.card = ui.card
            /\ st.rows = (IF net[q].at = "ok" THEN net[q].ans ELSE ui.rows)
            /\ st.loading = FALSE /\ st.creating = ui.creating /\ st.importing = ui.importing
        BY <1>1, <3>2 DEF CardsTyped, MocksInit
      <4> HIDE DEF st
      <4> QED
        BY <1>1, <3>2, <3>3, <4>1 DEF CardsTyped
    <3> HIDE DEF st
    <3>5. Spares(gone, "endpoint") /\ Spares(gone, "import")
      BY <2>2, <3>1
    <3> HIDE DEF gone
    <3> QED
      BY <2>2, <2>4, <3>1, <3>2, <3>4, <3>5, MocksWaitOn
  <2>6. CASE Flipped(q)
    <3> DEFINE a == net[q].arg
               done == net[q].at = "ok"
               st == Settled(a, done)
               rows == [a.seen EXCEPT ![a.mock].active = a.to]
               next == [st EXCEPT !.rows = rows]
    <3>1. net[q].op = "flip"
      BY <2>6 DEF Flipped, Answered
    <3>2. CASE net[q].home
      <4>1. OnMocks
        BY <1>1, <3>1, <3>2 DEF PageOf, OnMocks
      <4>2. /\ FlipTyped(a) /\ a.mock \in Mocks /\ a.to \in BOOLEAN
            /\ a.card => ui.card[a.mock] # None
        BY <1>1, <3>1, <3>2 DEF TypedRequest, Own
      <4>3. Becomes(next, Done(q)) \/ Becomes(st, Done(q))
        BY <2>6, <3>2 DEF Flipped
      <4>4. rows \in MockRows
        <5> DEFINE row == a.seen[a.mock]
                   new == [row EXCEPT !.active = a.to]
        <5>1. row \in Endpoints /\ a.seen \in MockRows
          BY <4>2 DEF FlipTyped, MockRows
        <5>2. new \in Endpoints
          BY <4>2, <5>1 DEF Endpoints
        <5>3. rows = [a.seen EXCEPT ![a.mock] = new]
          OBVIOUS
        <5> HIDE DEF new, row, rows, a
        <5> QED
          BY <5>1, <5>2, <5>3 DEF MockRows
      <4>5. done \in BOOLEAN /\ (\A p \in gone : p = q) /\ net[q].arg = a
        OBVIOUS
      <4> HIDE DEF a, done
      <4>6. CardsTyped(st)
        BY <4>1, <4>2, <4>5, SettledIs
      <4>7. /\ st.loading = ui.loading /\ st.creating = ui.creating /\ st.importing = ui.importing
            /\ \A m \in Mocks : st.card[m] # None /\ st.card[m].busy =>
                  st.card[m] = ui.card[m] /\ (a.card => a.mock # m)
        <5>1. CASE ~a.card
          BY <5>1 DEF Settled
        <5>2. CASE a.card
          <6> DEFINE new == [active |-> IF done THEN a.to ELSE ui.card[a.mock].active, busy |-> FALSE]
          <6>1. st = [ui EXCEPT !.card[a.mock] = new] /\ new.busy = FALSE
            BY <5>2 DEF Settled
          <6> HIDE DEF new, st
          <6>2. /\ st.loading = ui.loading /\ st.creating = ui.creating /\ st.importing = ui.importing
                /\ st.card = [ui.card EXCEPT ![a.mock] = new]
            BY <1>1, <4>1, <6>1 DEF CardsTyped, MocksInit
          <6> QED
            BY <1>1, <4>1, <6>1, <6>2 DEF CardsTyped
        <5> QED
          BY <5>1, <5>2
      <4> HIDE DEF st, rows
      <4>8. /\ CardsTyped(next) /\ next.loading = st.loading /\ next.creating = st.creating
            /\ next.importing = st.importing /\ next.card = st.card
        <5>1. /\ DOMAIN next = DOMAIN MocksInit /\ next.card = st.card /\ next.rows = rows
              /\ next.loading = st.loading /\ next.creating = st.creating
              /\ next.importing = st.importing
          BY <4>6 DEF CardsTyped, MocksInit
        <5> HIDE DEF next
        <5> QED
          BY <4>4, <4>6, <5>1 DEF CardsTyped
      <4> HIDE DEF next
      <4>9. Spares(gone, "mocks") /\ Spares(gone, "endpoint") /\ Spares(gone, "import")
        BY <2>2, <3>1
      <4> HIDE DEF gone
      <4>10. ASSUME NEW s, Becomes(s, Done(q)), CardsTyped(s), s.loading = ui.loading,
                    s.creating = ui.creating, s.importing = ui.importing, s.card = st.card
             PROVE  NothingHangs'
        <5>1. \A m \in Mocks : s.card[m] # None /\ s.card[m].busy =>
                 /\ ui.card[m] = s.card[m]
                 /\ \A p \in gone : net[p].op = "flip" /\ net[p].home /\ net[p].arg.card =>
                       net[p].arg.mock # m
          BY <4>5, <4>7, <4>10
        <5> QED
          BY <2>2, <4>1, <4>9, <4>10, <5>1, MocksWaitOn
      <4> QED
        BY <4>3, <4>6, <4>7, <4>8, <4>10
    <3> QED
      BY <2>3, <2>6, <3>2 DEF Flipped, PageStep
  <2>7. CASE Created(q)
    <3> DEFINE st == [ui EXCEPT !.creating = FALSE]
    <3>1. net[q].op = "endpoint" /\ net[q].at \in {"ok", "failed"}
      BY <2>7 DEF Created, Answered
    <3>2. CASE net[q].at = "ok" /\ Goto(EditorRoute(net[q].ans), Done(q))
      <4>1. EditorRoute(net[q].ans) \in Routes
        BY <1>1, <3>1, <3>2 DEF TypedRequest, EditorRoute, Routes
      <4> QED
        BY <3>2, <4>1, DoneIsWithin, TabHangsNothing
    <3>3. CASE net[q].home /\ Becomes(st, Done(q))
      <4>1. OnMocks
        BY <1>1, <3>1, <3>3 DEF PageOf, OnMocks
      <4>2. /\ Dialogs(st) /\ st.loading = ui.loading /\ st.creating = FALSE
            /\ st.importing = ui.importing /\ st.card = ui.card
        BY <1>1, <4>1 DEF Dialogs, CardsTyped, MocksInit
      <4> HIDE DEF st
      <4>3. Spares(gone, "mocks") /\ Spares(gone, "import")
        BY <2>2, <3>1
      <4> HIDE DEF gone
      <4> QED
        BY <1>5, <2>2, <2>4, <3>1, <3>3, <4>1, <4>2, <4>3, MocksWaitOn
    <3>4. CASE ~net[q].home /\ net' = Done(q) /\ UNCHANGED ui /\ PageStep
      BY <2>3, <3>4 DEF PageStep
    <3> QED
      BY <2>7, <3>2, <3>3, <3>4 DEF Created
  <2>8. CASE Imported(q)
    <3> DEFINE st == [ui EXCEPT !.importing = FALSE, !.result = TRUE]
               other == [ui EXCEPT !.importing = FALSE]
               S == Sent(Done(q), "mocks", None)
    <3>1. net[q].op = "import" /\ Room(Done(q), 1)
      BY <2>8 DEF Imported, Answered
    <3>2. CASE net[q].home
      <4>1. OnMocks
        BY <1>1, <3>1, <3>2 DEF PageOf, OnMocks
      <4>2. Becomes(st, S) \/ Becomes(other, Done(q))
        BY <2>8, <3>2 DEF Imported
      <4>3. /\ Dialogs(st) /\ st.loading = ui.loading /\ st.creating = ui.creating
            /\ st.importing = FALSE /\ st.card = ui.card
            /\ Dialogs(other) /\ other.loading = ui.loading /\ other.creating = ui.creating
            /\ other.importing = FALSE /\ other.card = ui.card
        BY <1>1, <4>1 DEF Dialogs, CardsTyped, MocksInit
      <4> HIDE DEF st, other
      <4>4. Follows(S)
        BY <3>1, <4>1, MocksFresh, SwapFollows
      <4>5. Keeps(S, gone)
        BY <3>1, SwapAsks DEF Ops
      <4>6. Spares(gone, "mocks") /\ Spares(gone, "endpoint")
        BY <2>2, <3>1
      <4> HIDE DEF gone, S
      <4>7. ASSUME NEW s, NEW T, Becomes(s, T), Follows(T), Keeps(T, gone), Dialogs(s),
                   s.loading = ui.loading, s.creating = ui.creating, s.importing = FALSE,
                   s.card = ui.card
            PROVE  NothingHangs'
        BY <1>5, <2>4, <3>1, <4>1, <4>6, <4>7, MocksWaitOn
      <4> QED
        BY <2>2, <4>2, <4>3, <4>4, <4>5, <4>7
    <3> QED
      BY <2>3, <2>8, <3>2 DEF Imported, PageStep
  <2> QED
    BY <2>1, <2>5, <2>6, <2>7, <2>8
<1> QED
  BY <1>6, <1>7, <1>8, <1>9, <1>10, <1>11, <1>12, <1>13 DEF MocksClick

LEMMA EditorHangsNothing ==
    ASSUME DashInv, NothingHangs, MockClick \/ MockAnswered PROVE NothingHangs'
<1> DEFINE none == {}
<1>1. /\ OnMock => DOMAIN ui = DOMAIN EditorInit
      /\ \A q \in DOMAIN net : net[q].home => page.at = PageOf(net[q].op)
      /\ \A q \in DOMAIN net : net[q].op \notin Mutations => net[q].home
  BY DEF DashInv, UiSound, MockUi, NetSound, TypedRequest, Own
<1>2. ASSUME NEW op \in Ops, NEW arg, Room(net, 1), net' = Sent(net, op, arg)
      PROVE  Keeps(net', none) /\ Asks(net', op, arg)
  BY <1>2, SentAsks
<1>3. net' = net => Keeps(net', none)
  BY DoneKeeps
<1>4. \A op : Spares(none, op)
  BY DEF Spares
<1>5. CASE LeaveMock
  <2>1. MocksRoute \in Routes /\ Within(net, net)
    BY DEF MocksRoute, Routes, Within
  <2> QED
    BY <1>5, <2>1, TabHangsNothing DEF LeaveMock
<1>6. CASE Refresh \/ \E t \in Tabs : TabTo(t)
  <2>1. OnMock /\ page' = page
    BY <1>6 DEF Refresh, TabTo, At, PageStep
  <2>2. \/ net' = net /\ \E t : t # "logs" /\ ui' = [ui EXCEPT !.tab = t, !.logsLoading = @ \/ t = "logs"]
        \/ /\ Room(net, 1) /\ net' = Sent(net, "logs", page.mock)
           /\ \E t : \/ ui' = [ui EXCEPT !.tab = t, !.logsLoading = @ \/ t = "logs"]
                     \/ ui' = [ui EXCEPT !.logsLoading = TRUE]
    BY <1>6, Zenon DEF Refresh, TabTo, FetchLogs
  <2>3. /\ ui'.view = ui.view /\ ui'.saving = ui.saving
        /\ \/ net' = Sent(net, "logs", page.mock) /\ Room(net, 1)
           \/ net' = net /\ (ui'.logsLoading => ui.logsLoading)
    <3>0. {"view", "saving", "logsLoading", "tab"} \subseteq DOMAIN ui
      BY <1>1, <2>1 DEF EditorInit
    <3>1. ASSUME NEW t, NEW b, ui' = [ui EXCEPT !.tab = t, !.logsLoading = b]
          PROVE  ui'.view = ui.view /\ ui'.saving = ui.saving /\ ui'.logsLoading = b
      BY <3>0, <3>1
    <3>2. ASSUME ui' = [ui EXCEPT !.logsLoading = TRUE]
          PROVE  ui'.view = ui.view /\ ui'.saving = ui.saving
      BY <3>0, <3>2
    <3>3. ASSUME NEW t, t # "logs", ui' = [ui EXCEPT !.tab = t, !.logsLoading = @ \/ t = "logs"]
          PROVE  ui'.view = ui.view /\ ui'.saving = ui.saving /\ (ui'.logsLoading => ui.logsLoading)
      BY <3>1, <3>3
    <3>4. ASSUME NEW t, ui' = [ui EXCEPT !.tab = t, !.logsLoading = @ \/ t = "logs"]
          PROVE  ui'.view = ui.view /\ ui'.saving = ui.saving
      BY <3>1, <3>4
    <3>5. CASE net' = Sent(net, "logs", page.mock) /\ Room(net, 1)
      <4>1. ui'.view = ui.view /\ ui'.saving = ui.saving
        <5>1. \/ \E t : \/ t # "logs" /\ ui' = [ui EXCEPT !.tab = t, !.logsLoading = @ \/ t = "logs"]
                       \/ ui' = [ui EXCEPT !.tab = t, !.logsLoading = @ \/ t = "logs"]
              \/ ui' = [ui EXCEPT !.logsLoading = TRUE]
          BY <2>2, Zenon
        <5> QED
          BY <3>2, <3>3, <3>4, <5>1, Zenon
      <4> QED
        BY <3>5, <4>1
    <3>6. CASE /\ net' = net
               /\ \E t : t # "logs" /\ ui' = [ui EXCEPT !.tab = t, !.logsLoading = @ \/ t = "logs"]
      <4>1. ui'.view = ui.view /\ ui'.saving = ui.saving /\ (ui'.logsLoading => ui.logsLoading)
        BY <3>3, <3>6, Zenon
      <4> QED
        BY <3>6, <4>1
    <3> QED
      BY ONLY <2>2, <3>5, <3>6, Zenon
  <2>4. /\ Keeps(net', none)
        /\ (ui'.logsLoading => ui.logsLoading \/ \E a : Asks(net', "logs", a))
    BY <1>2, <1>3, <2>3 DEF Ops
  <2> QED
    BY <1>4, <2>1, <2>3, <2>4, EditorWaitsOn
<1>7. CASE SaveResponse
  <2>1. /\ OnMock /\ page' = page /\ Room(net, 1) /\ ui' = [ui EXCEPT !.saving = TRUE]
        /\ \E arg : net' = Sent(net, "response", arg)
    BY <1>7 DEF SaveResponse, MaySave, ResponseTab, StaticTab, At, PageStep
  <2>2. ui'.view = ui.view /\ ui'.logsLoading = ui.logsLoading
    BY <1>1, <2>1 DEF EditorInit
  <2>3. Keeps(net', none) /\ \E a : Asks(net', "response", a)
    BY <1>2, <2>1 DEF Ops, Mutations
  <2> QED
    BY <1>4, <2>1, <2>2, <2>3, EditorWaitsOn
<1>8. ASSUME NEW k \in Kinds, \/ \E c \in Children \cup {"new"} : EditChild(k, c)
                              \/ CancelEdit(k) \/ SaveChild(k) \/ DropChild(k)
      PROVE  NothingHangs'
  <2>1. OnMock /\ page' = page
    BY <1>8 DEF EditChild, CancelEdit, SaveChild, DropChild, Form, RuleForm, SequenceForm, At, PageStep
  <2>2. \/ net' = net /\ \E c : ui' = [ui EXCEPT !.editing[k] = c]
        \/ ui' = ui /\ Room(net, 1) /\ \E op \in {"add", "change", "drop"} : \E arg : net' = Sent(net, op, arg)
    BY <1>8, Zenon DEF EditChild, CancelEdit, SaveChild, DropChild, RoomToAct
  <2>3. ui'.view = ui.view /\ ui'.saving = ui.saving /\ ui'.logsLoading = ui.logsLoading
    BY <1>1, <2>1, <2>2 DEF EditorInit
  <2>4. Keeps(net', none)
    BY <1>2, <1>3, <2>2 DEF Ops, Mutations
  <2> QED
    BY <1>4, <2>1, <2>3, <2>4, EditorWaitsOn
<1>9. CASE MockAnswered
  <2>1. PICK q \in DOMAIN net : MockLoaded(q) \/ LogsLoaded(q) \/ ResponseSaved(q) \/ ChildRefused(q)
    BY <1>9 DEF MockAnswered
  <2> DEFINE gone == {q}
  <2>2. /\ page' = page /\ net' = Done(q) /\ Keeps(net', gone)
        /\ \A op : net[q].op # op \/ ~net[q].home => Spares(gone, op)
    BY <2>1, DoneKeeps DEF MockLoaded, LogsLoaded, ResponseSaved, ChildRefused, PageStep, Spares
  <2>3. ASSUME ~net[q].home, UNCHANGED ui PROVE NothingHangs'
    BY <2>2, <2>3, PageWaitsOn
  <2>4. CASE MockLoaded(q)
    <3>1. net[q].op = "mock"
      BY <2>4 DEF MockLoaded, Answered
    <3>2. OnMock
      BY <1>1, <3>1 DEF PageOf, OnMock, Mutations
    <3>3. ui'.view \in {"editor", "missing"} /\ ui'.saving = ui.saving /\ ui'.logsLoading = ui.logsLoading
      BY <1>1, <2>4, <3>2 DEF MockLoaded, EditorInit
    <3>4. Spares(gone, "response") /\ Spares(gone, "logs")
      BY <2>2, <3>1
    <3> QED
      BY <2>2, <3>2, <3>3, <3>4, EditorWaitsOn
  <2>5. CASE LogsLoaded(q)
    <3>1. net[q].op = "logs"
      BY <2>5 DEF LogsLoaded, Answered
    <3>2. OnMock
      BY <1>1, <3>1 DEF PageOf, OnMock, Mutations
    <3>3. ui'.view = ui.view /\ ui'.saving = ui.saving /\ ui'.logsLoading = FALSE
      BY <1>1, <2>5, <3>2 DEF LogsLoaded, EditorInit
    <3>4. Spares(gone, "response") /\ Spares(gone, "mock")
      BY <2>2, <3>1
    <3> QED
      BY <2>2, <3>2, <3>3, <3>4, EditorWaitsOn
  <2>6. CASE ResponseSaved(q)
    <3>1. net[q].op = "response"
      BY <2>6 DEF ResponseSaved, Answered
    <3>2. CASE net[q].home
      <4>1. OnMock
        BY <1>1, <3>1, <3>2 DEF PageOf, OnMock
      <4>2. ui'.view = ui.view /\ ui'.saving = FALSE /\ ui'.logsLoading = ui.logsLoading
        BY <1>1, <2>6, <3>2, <4>1 DEF ResponseSaved, EditorInit
      <4>3. Spares(gone, "logs") /\ Spares(gone, "mock")
        BY <2>2, <3>1
      <4> QED
        BY <2>2, <4>1, <4>2, <4>3, EditorWaitsOn
    <3> QED
      BY <2>3, <2>6, <3>2 DEF ResponseSaved
  <2>7. CASE ChildRefused(q)
    <3>1. net[q].op \in {"add", "change", "drop"} /\ UNCHANGED ui
      BY <2>7 DEF ChildRefused, Answered
    <3>2. CASE net[q].home
      <4>1. OnMock
        BY <1>1, <3>1, <3>2 DEF PageOf, OnMock
      <4>2. Spares(gone, "logs") /\ Spares(gone, "mock") /\ Spares(gone, "response")
        BY <2>2, <3>1
      <4> QED
        BY <2>2, <3>1, <4>1, <4>2, EditorWaitsOn
    <3> QED
      BY <2>3, <3>1, <3>2
  <2> QED
    BY <2>1, <2>4, <2>5, <2>6, <2>7
<1> QED
  BY <1>5, <1>6, <1>7, <1>8, <1>9 DEF MockClick

LEMMA HangsInit == Init => NothingHangs
<1> SUFFICES ASSUME Init PROVE NothingHangs
  OBVIOUS
<1> DEFINE left == <<>>
<1>1. page \in Routes /\ ui = UiInit(page) /\ net = MountRequests(page, left)
      /\ page.at \in {"mail", "sandboxes", "mocks"}
  BY DEF Init, MailStart, MockStart, MailRoute, ListRoute, MocksRoute, Routes
<1>2. DOMAIN left = {}
  OBVIOUS
<1> HIDE DEF left
<1>3. HasIds(left) /\ \A q \in DOMAIN left : left[q].op \in Mutations
  BY <1>2, FS_EmptySet DEF HasIds
<1>4. /\ page.at = "mail"      => Awaits("mails") # {}
      /\ page.at = "sandboxes" => Awaits("boxes") # {}
      /\ page.at = "mocks"     => Awaits("mocks") # {}
  BY <1>1, <1>3, MountAsks DEF Awaits, AwaitsIn
<1> HIDE DEF Awaits
<1>5. OnMail => MailWaits
  BY <1>1, <1>4 DEF OnMail, MailWaits, UiInit, MailInit
<1>6. OnList => ListWaits
  BY <1>1, <1>4, MailAssumption DEF OnList, ListWaits, UiInit, ListInit
<1>7. OnMocks => MocksWait
  BY <1>1, <1>4 DEF OnMocks, MocksWait, UiInit, MocksInit
<1> QED
  BY <1>1, <1>5, <1>6, <1>7 DEF NothingHangs, OnMail, OnList, OnForm, OnMocks, OnMock

LEMMA HangsNext == DashInv /\ NothingHangs /\ [Next]_vars => NothingHangs'
<1> SUFFICES ASSUME DashInv, NothingHangs, [Next]_vars PROVE NothingHangs'
  OBVIOUS
<1> DEFINE none == {}
<1>1. CASE MailNext
  BY <1>1, MailHangsNothing, SandboxHangsNothing, ServersHangNothing DEF MailNext
<1>2. CASE MockNext
  BY <1>2, MocksHangNothing, EditorHangsNothing, ServersHangNothing DEF MockNext
<1>3. CASE UNCHANGED vars
  <2>1. UNCHANGED <<page, ui, net>>
    BY <1>3 DEF vars
  <2>2. Keeps(net', none)
    BY <2>1, DoneKeeps
  <2> QED
    BY <2>1, <2>2, PageWaitsOn
<1> QED
  BY <1>1, <1>2, <1>3 DEF Next

-----------------------------------------------------------------------------
\* Whatever the pages have in flight while the tab moves on, and whatever the server,
\* its failures and everybody else do meanwhile: the tables, the page on screen and
\* the requests keep their form, and no request takes an id that is in use.
THEOREM TypeCorrect == Spec => []TypeOK
<1>1. ASSUME DashInv PROVE TypeOK
  <2>1. DOMAIN net \subseteq Ids
    <3> SUFFICES ASSUME NEW q \in DOMAIN net PROVE q \in Ids
      OBVIOUS
    <3>1. q \in IdsOf({net[q].op}) /\ net[q].op \in Ops
      BY <1>1 DEF DashInv, HasIds
    <3> QED
      BY <3>1 DEF Ids, IdsOf, Ops
  <2>2. Cardinality(DOMAIN net) \in Nat
    BY <1>1, FS_CardinalityType DEF DashInv, HasIds
  <2>3. Cardinality(DOMAIN net) <= MaxInFlight
    BY <1>1, <2>2, TabAssumption DEF DashInv, Room
  <2> QED
    BY <1>1, <2>1, <2>3 DEF DashInv, TablesSound, UiSound, MailUi, ListUi, MocksUi, CardsTyped,
         MockRows, MockUi, TypeOK
<1> QED
  BY <1>1, DashInit, DashNext, PTL DEF Spec

\* However late an answer comes, and whatever page the tab has moved to: the list and
\* the pane of a mailbox show its own messages, and the editor of an endpoint its own
\* rules and sequences.
THEOREM AnswersFindTheirPage == Spec => []PageShowsItsOwn
<1>1. ASSUME DashInv PROVE PageShowsItsOwn
  <2>1. UiSound
    BY <1>1 DEF DashInv
  <2>2. OnMail => \A m \in (Shown \cup {ui.shown}) \ {None} : at[m] \in {page.box, Gone}
    BY <2>1 DEF UiSound, MailUi, Belongs, Shown
  <2> QED
    BY <2>1, <2>2 DEF UiSound, MockUi, Hangs, PageShowsItsOwn
<1> QED
  BY <1>1, DashInit, DashNext, PTL DEF Spec

\* Whatever fails, overlaps or comes late, and whatever is closed, filtered away or
\* left meanwhile: what is busy on screen waits for a request that is still under way.
THEOREM NothingHangsForGood == Spec => []NothingHangs
BY DashInit, DashNext, HangsInit, HangsNext, PTL DEF Spec

=============================================================================
