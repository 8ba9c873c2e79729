---------------------------- MODULE DashboardTab ----------------------------
(***************************************************************************)
(* Two sections of the dashboard, and what their pages share.              *)
(*                                                                         *)
(* Captured mail: the inbox of a workspace, the inbox of a sandbox, the    *)
(* list of sandboxes and the form that adds one (Mailbox, SandboxPages;    *)
(* what answers them is MailServer).                                       *)
(*                                                                         *)
(* Mock endpoints: their list and the editor of one (MockList, MockEditor; *)
(* what answers them is MockServer).                                       *)
(*                                                                         *)
(* DashboardPages puts them together.                                      *)
(***************************************************************************)
EXTENDS Tab, Integers

CONSTANTS
    Gone,        \* what was deleted
    MaxActs,     \* bound: mutations under way at a time
    Mails,       \* the messages that may arrive
    Boxes,       \* the rows of the sandboxes table
    Inbox,       \* the inbox of the workspace
    Tagged,      \* the sandboxes that carry the one tag there is
    Prefixes,    \* the addresses a sandbox may be given
    Mocks,       \* the rows of the mock_endpoints table
    Keys,        \* a method and a path
    PathOf,      \* the path of each
    Children,    \* the rows of mock_response_rules and of mock_sequences
    Sequences    \* those that are sequences

ASSUME MailAssumption ==
    /\ Inbox \notin Boxes /\ None # Gone /\ {None, Gone} \cap (Boxes \cup {Inbox}) = {}
    /\ Tagged \subseteq Boxes /\ IsFiniteSet(Mails)
    /\ MaxActs \in Nat
ASSUME MockAssumption ==
    Sequences \subseteq Children /\ Mocks \cap {None, Gone} = {} /\ {None, "new"} \cap Children = {}

VARIABLES
    box,      \* the sandboxes table: the row, None before it is created, Gone after
    at,       \* where each message is stored; None before it arrives
    read,     \* the messages marked as read
    endpoint, \* the mock_endpoints table: the row, like box
    child,    \* the rules and sequences: the endpoint of each, None before and Gone after
    ui        \* the state of the page on screen

mailTables == <<box, at, read>>
mockTables == <<endpoint, child>>
vars       == <<page, ui, net, mishaps, mailTables, mockTables>>

\* An event of the page on screen.
PageStep == UNCHANGED <<page, mishaps, mailTables, mockTables>>

Rows      == [prefix : Prefixes, active : BOOLEAN]
Endpoints == [key : Keys, active : BOOLEAN]
ASSUME NullsAreNoRows == {None, Gone} \cap (Rows \cup Endpoints) = {}

KindOf(c) == IF c \in Sequences THEN "sequences" ELSE "rules"
\* Bound: no tab for what there are no rows of.
Kinds     == {KindOf(c) : c \in Children}

Routes == [at : {"mail"}, box : Boxes \cup {Inbox}] \cup [at : {"sandboxes", "new", "mocks"}]
          \cup [at : {"mock"}, mock : Mocks]

\* Bound: a behaviour stays in one section, and has the tables of the other empty.
MailSection == page.at \in {"mail", "sandboxes", "new"}
MockSection == page.at \in {"mocks", "mock"}

(* ----------------------- what a page starts with ----------------------- *)

MailInit == [emails |-> [m \in Mails |-> "absent"], total |-> 0, unread |-> 0, loading |-> TRUE,
             selected |-> None, shown |-> None, detailLoading |-> FALSE,
             error |-> FALSE, smtp |-> "hidden"]

ListInit == [rows |-> [b \in Boxes |-> "absent"], loading |-> TRUE,
             tag |-> FALSE, toggling |-> None]

FormInit == [prefix |-> None, status |-> "idle", suggestion |-> None,
             timer |-> FALSE, submitting |-> FALSE]

MocksInit == [rows |-> [m \in Mocks |-> None], loading |-> TRUE, filter |-> None,
              card |-> [m \in Mocks |-> None],
              dialog |-> "none", creating |-> FALSE, importing |-> FALSE, result |-> FALSE]

EditorInit == [view |-> "spinner", tab |-> "response",
               saving |-> FALSE, logsLoading |-> FALSE,
               list |-> {}, editing |-> [k \in Kinds |-> None]]

UiInit(p) ==
    CASE p.at = "mail"      -> MailInit
      [] p.at = "sandboxes" -> ListInit
      [] p.at = "new"       -> FormInit
      [] p.at = "mocks"     -> MocksInit
      [] p.at = "mock"      -> EditorInit

(* ------------------------------ navigation ----------------------------- *)

Mutations == {"open", "remove", "clear", "test", "toggle", "create",
              "flip", "endpoint", "import", "response", "add", "change", "drop"}
Ids == IdsOf(Mutations \cup {"mails", "box", "creds", "boxes", "check", "mocks", "mock", "logs"})

\* The bounds leave room for one more.
RoomToAct == Room(net, 1) /\ Cardinality({q \in DOMAIN net : net[q].op \in Mutations}) < MaxActs

\* What a page asks for when it mounts.  The page of a sandbox asks for the row too.
MountRequests(p, S) ==
    CASE p.at = "mail" /\ p.box = Inbox -> Sent(S, "mails", Inbox)
      [] p.at = "mail" /\ p.box # Inbox -> Sent(Sent(S, "box", p.box), "mails", p.box)
      [] p.at = "sandboxes"             -> Sent(S, "boxes", FALSE)
      [] p.at = "new"                   -> S
      [] p.at = "mocks"                 -> Sent(S, "mocks", None)
      [] p.at = "mock"                  -> Sent(S, "mock", p.mock)

\* The mutations that are left behind, without what only their page would have used.
LeftBehind(S) ==
    [q \in DOMAIN Orphaned(S, Mutations) |->
        LET r == Orphaned(S, Mutations)[q]
        IN  IF r.op = "flip" THEN [r EXCEPT !.arg = [mock |-> r.arg.mock, to |-> r.arg.to]] ELSE r]

\* Deviation: a move between two pages of one kind that keeps the component mounted.
GotoKeeping(p, S) ==
    LET asked == MountRequests(p, LeftBehind(S))
    IN  /\ p # page /\ Room(asked, 0)
        /\ page' = p /\ net' = asked
        /\ ui' = IF p.at = page.at THEN ui ELSE UiInit(p)

\* A move to another route, also to another value of its parameter: the old page
\* unmounts, its timers are cleared, and the new one mounts with fresh state.
Goto(p, S) ==
    LET asked == MountRequests(p, LeftBehind(S))
    IN  /\ p # page /\ Room(asked, 0)
        /\ page' = p /\ net' = asked
        /\ ui' = UiInit(p)

MailRoute(b)   == [at |-> "mail", box |-> b]
ListRoute      == [at |-> "sandboxes"]
NewRoute       == [at |-> "new"]
MocksRoute     == [at |-> "mocks"]
EditorRoute(m) == [at |-> "mock", mock |-> m]
=============================================================================
