------------------------------ MODULE Mailbox ------------------------------
(***************************************************************************)
(* The two pages that show mail, which are one page but for what is noted  *)
(* below: workspace/[id]/inbox/page.tsx and sandboxes/[id]/page.tsx.  A    *)
(* list polled for ever, one message open beside it, and the banner with   *)
(* the SMTP credentials, from which the workspace can send itself a test.  *)
(***************************************************************************)
EXTENDS MailServer

OnMail    == page.at = "mail"
OnInbox   == OnMail /\ page.box = Inbox
OnSandbox == OnMail /\ page.box # Inbox

Shown == {m \in Mails : ui.emails[m] # "absent"}

\* The rows to click on, of the inbox and of a sandbox: none under the spinner,
\* and none when the sandbox could not be had and an error took the page's place.
InboxRows   == IF OnInbox /\ ~ui.loading THEN Shown ELSE {}
SandboxRows == IF OnSandbox /\ ~ui.error /\ ~ui.loading THEN Shown ELSE {}
MailRows    == InboxRows \cup SandboxRows

\* The message in the pane beside the rows.
InPane(rows) == IF rows = {} \/ ui.selected = None \/ ui.detailLoading THEN None
                ELSE ui.shown
InboxPane   == InPane(InboxRows)
SandboxPane == InPane(SandboxRows)
OnScreen    == IF OnInbox THEN InboxPane ELSE SandboxPane

\* "Clear All", in the header.
MayClearInbox   == OnInbox /\ Shown # {}
MayClearSandbox == OnSandbox /\ ~ui.error /\ Shown # {}

\* The banner, by what it shows: smtp is hidden, loading or shown and then, in the
\* inbox only, the dialog it opens: form, sending, sent.
InboxBanner(s)   == OnInbox /\ ui.smtp = s
SandboxBanner(s) == OnSandbox /\ ~ui.error /\ ui.smtp = s
Banner(s)        == InboxBanner(s) \/ SandboxBanner(s)

\* fetchEmails, when the answer is there: an error changes nothing.
MailsLoaded(q) ==
    /\ q \in Answered("mails")
    /\ net' = Done(q)
    /\ ui' = IF net[q].at = "ok"
                 THEN [ui EXCEPT !.emails = net[q].ans.emails, !.total = net[q].ans.total,
                                   !.unread = net[q].ans.unread, !.loading = FALSE]
                 ELSE [ui EXCEPT !.loading = FALSE]
    /\ PageStep

\* The sandbox itself, fetched once.
BoxLoaded(q) ==
    /\ q \in Answered("box")
    /\ net' = Done(q)
    /\ ui' = [ui EXCEPT !.error = net[q].at = "failed"]
    /\ PageStep

\* The interval, set for as long as the page is mounted, and the button "Refresh".
\* Bound: one fetch the server has not answered at a time.
FetchMails ==
    /\ OnMail /\ Room(net, 1) /\ Pending("mails") = {}
    /\ net' = Sent(net, "mails", page.box)
    /\ UNCHANGED ui /\ PageStep

\* selectEmail: fresh is what the list said of m when it was clicked.
Select(m) ==
    /\ m \in MailRows /\ RoomToAct
    /\ net' = Sent(net, "open", [box |-> page.box, mail |-> m,
                                 fresh |-> ui.emails[m] = "unread"])
    /\ ui' = [ui EXCEPT !.selected = m, !.detailLoading = TRUE]
    /\ PageStep

Opens(m, fewer) ==
    [ui EXCEPT !.shown = m, !.detailLoading = FALSE,
                 !.emails[m] = IF @ = "absent" THEN @ ELSE "read", !.unread = fewer]

\* The inbox counts one off the badge whatever the message was, a sandbox only
\* if it was unread.
Fewer(n) == IF n > 0 THEN n - 1 ELSE 0
\* Deviation: a badge that may go below zero.
InboxOpensLow(a) == Opens(a.mail, ui.unread - 1)
InboxOpens(a)    == Opens(a.mail, Fewer(ui.unread))
SandboxOpens(a)  == Opens(a.mail, IF a.fresh THEN Fewer(ui.unread) ELSE ui.unread)

Opened(q) ==
    /\ q \in Answered("open")
    /\ net' = Done(q)
    /\ ui' = IF ~net[q].home THEN ui
               ELSE IF net[q].at = "failed" THEN [ui EXCEPT !.detailLoading = FALSE]
               ELSE IF OnInbox THEN InboxOpens(net[q].arg) ELSE SandboxOpens(net[q].arg)
    /\ PageStep

\* deleteEmail, from the header of the open message; which message was selected
\* is what the click saw.
Remove ==
    /\ OnScreen # None /\ RoomToAct
    /\ net' = Sent(net, "remove", [box |-> page.box, mail |-> ui.shown,
                                   fresh |-> ui.selected = ui.shown])
    /\ UNCHANGED ui /\ PageStep

\* The pane closes if the message was the selected one.  The inbox counts one off
\* the total even when the total knows of the deletion by now.
Removes(a, left) ==
    LET gone == [ui EXCEPT !.emails[a.mail] = "absent", !.total = left]
    IN  IF a.fresh THEN [gone EXCEPT !.selected = None, !.shown = None] ELSE gone
InboxRemoves(a)   == Removes(a, ui.total - 1)
SandboxRemoves(a) == Removes(a, Fewer(ui.total))

Removed(q) ==
    /\ q \in Answered("remove")
    /\ net' = Done(q)
    /\ ui' = IF ~net[q].home \/ net[q].at = "failed" THEN ui
               ELSE IF OnInbox THEN InboxRemoves(net[q].arg) ELSE SandboxRemoves(net[q].arg)
    /\ PageStep

\* clearInbox, clearEmails: after a confirm(), the whole box.
Clear ==
    /\ MayClearInbox \/ MayClearSandbox
    /\ RoomToAct
    /\ net' = Sent(net, "clear", page.box)
    /\ UNCHANGED ui /\ PageStep

Cleared(q) ==
    /\ q \in Answered("clear")
    /\ net' = Done(q)
    /\ ui' = IF ~net[q].home \/ net[q].at = "failed" THEN ui
               ELSE [ui EXCEPT !.emails = MailInit.emails, !.total = 0, !.unread = 0,
                                 !.selected = None, !.shown = None]
    /\ PageStep

(* ------------------------ the SMTP banner ------------------------------ *)

ShowCreds ==
    /\ Banner("hidden") /\ Room(net, 1)
    /\ net' = Sent(net, "creds", page.box)
    /\ ui' = [ui EXCEPT !.smtp = "loading"]
    /\ PageStep

CredsLoaded(q) ==
    /\ q \in Answered("creds")
    /\ net' = Done(q)
    /\ ui' = [ui EXCEPT !.smtp = IF net[q].at = "ok" THEN "shown" ELSE "hidden"]
    /\ PageStep

HideCreds ==
    /\ Banner("shown")
    /\ ui' = [ui EXCEPT !.smtp = "hidden"] /\ UNCHANGED net /\ PageStep

OpenTest ==
    /\ InboxBanner("shown")
    /\ ui' = [ui EXCEPT !.smtp = "form"] /\ UNCHANGED net /\ PageStep

\* Cancel, Done, or a click outside: a dialog opened again is another one, which
\* hears nothing of a test that is still under way.
CloseTest ==
    /\ \E s \in {"form", "sending", "sent"} : InboxBanner(s)
    /\ ui' = [ui EXCEPT !.smtp = "shown"]
    /\ net' = [q \in DOMAIN net |-> IF net[q].op = "test" /\ net[q].home
                                      THEN [net[q] EXCEPT !.arg = "closed"] ELSE net[q]]
    /\ PageStep

SendTest ==
    /\ InboxBanner("form") /\ RoomToAct
    /\ net' = Sent(net, "test", "dialog")
    /\ ui' = [ui EXCEPT !.smtp = "sending"] /\ PageStep

\* onSent fetches the list, a moment later, whether or not the dialog is still open.
Tested(q) ==
    /\ q \in Answered("test") /\ Room(Done(q), 1)
    /\ net' = IF net[q].home /\ net[q].at = "ok" THEN Sent(Done(q), "mails", Inbox) ELSE Done(q)
    /\ ui' = IF net[q].home /\ net[q].arg = "dialog"
                 THEN [ui EXCEPT !.smtp = IF net[q].at = "ok" THEN "sent" ELSE "form"]
                 ELSE ui
    /\ PageStep

LeaveMail ==
    /\ OnSandbox /\ Goto(ListRoute, net)
    /\ UNCHANGED <<mishaps, mailTables, mockTables>>

MailClick == \/ \E m \in Mails : Select(m)
             \/ Remove \/ Clear \/ ShowCreds \/ HideCreds \/ OpenTest \/ CloseTest \/ SendTest
             \/ LeaveMail
MailAnswered == \E q \in DOMAIN net : \/ MailsLoaded(q) \/ BoxLoaded(q) \/ Opened(q) \/ Removed(q)
                                      \/ Cleared(q) \/ CredsLoaded(q) \/ Tested(q)
=============================================================================
