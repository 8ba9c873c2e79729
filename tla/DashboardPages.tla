--------------------------- MODULE DashboardPages ---------------------------
(***************************************************************************)
(* The pages for captured mail and for mock endpoints in one tab, against  *)
(* the server they share with everybody else.                              *)
(***************************************************************************)
EXTENDS Mailbox, SandboxPages, MockList, MockEditor

\* Bound: seen from a sandbox, all messages but one have come and gone before.
SpareMail == CHOOSE m \in Mails : TRUE
MailStart ==
    \/ page = MailRoute(Inbox) /\ at = [m \in Mails |-> None]
    \/ page = ListRoute /\ at = [m \in Mails |-> IF m = SpareMail THEN None ELSE Gone]

MockStart == page = MocksRoute /\ at = [m \in Mails |-> None]

Init ==
    /\ MailStart \/ MockStart
    /\ box = [b \in Boxes |-> None] /\ read = {}
    /\ endpoint = [m \in Mocks |-> None] /\ child = [c \in Children |-> None]
    /\ net = MountRequests(page, <<>>)
    /\ ui = UiInit(page)
    /\ mishaps = 0

Arrival     == \E m \in Mails, b \in Boxes \cup {Inbox} : Deliver(m, b)
Failure     == \E q \in DOMAIN net : Outage(q)
MockFailure == \E q \in DOMAIN net : MockOutage(q)

MailNext == \/ MailClick \/ SandboxClick \/ FetchMails \/ Check
            \/ MailAnswered \/ SandboxAnswered \/ Serve
            \/ Arrival \/ Failure \/ OtherStep
MockNext == \/ MocksClick \/ MockClick \/ MocksAnswered \/ MockAnswered \/ MockServe
            \/ MockFailure \/ MockOtherStep

Next == \/ MailSection /\ MailNext
        \/ MockSection /\ MockNext
Spec == Init /\ [][Next]_vars

TypeOK ==
    /\ page \in Routes
    /\ mishaps \in 0..MaxMishaps
    /\ box \in [Boxes -> Rows \cup {None, Gone}]
    /\ at \in [Mails -> Boxes \cup {Inbox, None, Gone}] /\ read \subseteq Mails
    /\ endpoint \in [Mocks -> Endpoints \cup {None, Gone}]
    /\ child \in [Children -> Mocks \cup {None, Gone}]
    /\ OnMail  => /\ ui.unread \in 0..Cardinality(Mails) /\ ui.total \in Int
                  /\ ui.selected \in Mails \cup {None} /\ ui.shown \in Mails \cup {None}
    /\ OnList  => ui.toggling \in Boxes \cup {None}
    /\ OnMocks => ui.rows \in [Mocks -> Endpoints \cup {None}]
    /\ OnMock  => ui.list \subseteq Children /\ ui.editing \in [Kinds -> Children \cup {None, "new"}]
    /\ DOMAIN net \subseteq Ids /\ Cardinality(DOMAIN net) <= MaxInFlight

\* An address leads to one place.  Two sandboxes never share a prefix, and two
\* endpoints never a method and path, whoever creates or imports one between the
\* check and the insert, and however late a form shows the outcome of an earlier
\* check (sandboxes.py and ui.py: check, then insert; Sandbox.email_prefix and the
\* partial unique index of MockEndpoint).
AddressesDistinct ==
    /\ \A b, c \in Boxes : Exists(b) /\ Exists(c) /\ box[b].prefix = box[c].prefix => b = c
    /\ \A m, n \in Mocks : MockExists(m) /\ MockExists(n) /\ endpoint[m].key = endpoint[n].key => m = n

\* A page shows what belongs to the box, or to the endpoint, it is about: no
\* answer meant for the page before turns up on the one after, in a list, in the
\* pane or under a tab of the editor.
PageShowsItsOwn ==
    /\ OnMail => \A m \in (Shown \cup {ui.shown}) \ {None} : at[m] \in {page.box, Gone}
    /\ OnMock => \A c \in ui.list : child[c] \in {page.mock, Gone}

\* What the page on screen, and not one before it, is waiting for.
Awaits(op) == {q \in DOMAIN net : net[q].op = op /\ net[q].home}

MailWaits ==
    /\ ui.loading => Awaits("mails") # {}
    /\ ui.detailLoading => Awaits("open") # {}
    /\ ui.smtp = "loading" => Awaits("creds") # {}
    /\ ui.smtp = "sending" => \E q \in Awaits("test") : net[q].arg = "dialog"
ListWaits ==
    /\ ui.loading => Awaits("boxes") # {}
    /\ \A b \in Boxes : ui.toggling = b => \E q \in Awaits("toggle") : net[q].arg.box = b
FormWaits ==
    /\ ui.status = "checking" => ui.timer \/ Awaits("check") # {}
    /\ ui.submitting => Awaits("create") # {}
MocksWait ==
    /\ ui.loading => Awaits("mocks") # {}
    /\ ui.creating => Awaits("endpoint") # {}
    /\ ui.importing => Awaits("import") # {}
    /\ \A m \in Mocks : ui.card[m] # None /\ ui.card[m].busy =>
          \E q \in Awaits("flip") : net[q].arg.mock = m /\ net[q].arg.card
EditorWaits ==
    /\ ui.view = "spinner" => Awaits("mock") # {}
    /\ ui.saving => Awaits("response") # {}
    /\ ui.logsLoading => Awaits("logs") # {}

\* A spinner turns, and a button is disabled, only as long as the request it waits
\* for is under way: whichever answers fail, overlap or come late, and whatever was
\* closed, filtered away or typed meanwhile, nothing on screen is left busy for ever
\* (the `finally` of every handler, the timer of the prefix, the dialogs' own state).
NothingHangs ==
    /\ OnMail  => MailWaits
    /\ OnList  => ListWaits
    /\ OnForm  => FormWaits
    /\ OnMocks => MocksWait
    /\ OnMock  => EditorWaits

=============================================================================
