---------------------------- MODULE SandboxPages ----------------------------
(***************************************************************************)
(* sandboxes/page.tsx, the list with its filter and its switches, and      *)
(* sandboxes/new/page.tsx, the form that checks the prefix as it is typed. *)
(***************************************************************************)
EXTENDS MailServer

OnList == page.at = "sandboxes"
OnForm == page.at = "new"

Listed == {b \in Boxes : ui.rows[b] # "absent"}
\* The tags of the sandboxes shown: with none of them there is no filter to take off.
Pills  == Listed \cap Tagged # {}

BoxesView ==
    CASE ui.loading -> "spinner"
      [] ~ui.loading /\ Listed = {} -> "No sandboxes yet"
      [] OTHER -> "cards"

\* fetchSandboxes: an error leaves what is shown.
BoxesLoaded(q) ==
    /\ q \in Answered("boxes")
    /\ net' = Done(q)
    /\ ui' = IF net[q].at = "ok"
                  THEN [ui EXCEPT !.rows = net[q].ans, !.loading = FALSE]
                  ELSE [ui EXCEPT !.loading = FALSE]
    /\ PageStep

\* Another filter, another fetch; the answer to the last one is not called off.
SelectTag ==
    /\ OnList /\ Pills /\ Room(net, 1)
    /\ ui' = [ui EXCEPT !.tag = ~@, !.loading = TRUE]
    /\ net' = Sent(net, "boxes", ui'.tag)
    /\ PageStep

\* toggleActive: only the sandbox clicked last is disabled.
Toggle(b) ==
    /\ OnList /\ BoxesView = "cards" /\ b \in Listed /\ ui.toggling # b /\ RoomToAct
    /\ net' = Sent(net, "toggle", [box |-> b, active |-> ui.rows[b] = "off"])
    /\ ui' = [ui EXCEPT !.toggling = b]
    /\ PageStep

Flip(shown) == CASE shown = "on" -> "off" [] shown = "off" -> "on" [] OTHER -> shown

\* The badge is turned over, from what it shows by then.
Toggled(q) ==
    /\ q \in Answered("toggle")
    /\ net' = Done(q)
    /\ ui' = IF ~net[q].home THEN ui
                ELSE IF net[q].at = "ok"
                  THEN [ui EXCEPT !.rows[net[q].arg.box] = Flip(@), !.toggling = None]
                ELSE [ui EXCEPT !.toggling = None]
    /\ PageStep

LeaveList ==
    /\ OnList
    /\ \/ Goto(NewRoute, net)
       \/ BoxesView = "cards" /\ \E b \in Listed : Goto(MailRoute(b), net)
    /\ UNCHANGED <<mishaps, mailTables, mockTables>>

(* ------------------------------ the form ------------------------------- *)

\* handlePrefixChange: every change starts the 400 ms again.
SetPrefix(p) ==
    /\ ui' = IF p = None
                 THEN [ui EXCEPT !.prefix = p, !.timer = FALSE, !.status = "idle",
                                   !.suggestion = None]
                 ELSE [ui EXCEPT !.prefix = p, !.timer = TRUE, !.status = "checking"]
    /\ UNCHANGED net /\ PageStep
Type(p) == OnForm /\ ui.prefix # p /\ SetPrefix(p)

\* prefixIndicator: "Try ...", whatever prefix it was suggested for.
TrySuggestion == /\ OnForm /\ ui.status = "taken" /\ ui.suggestion # None
                 /\ SetPrefix(ui.suggestion)

\* The 400 ms are over.
Check ==
    /\ OnForm /\ ui.timer /\ Room(net, 1)
    /\ net' = Sent(net, "check", ui.prefix)
    /\ ui' = [ui EXCEPT !.timer = FALSE]
    /\ PageStep

\* Whatever is in the field by now.
Checked(q) ==
    /\ q \in Answered("check")
    /\ net' = Done(q)
    /\ ui' = IF net[q].at = "failed" THEN [ui EXCEPT !.status = "idle"]
               ELSE [ui EXCEPT !.status = IF net[q].ans.available THEN "available" ELSE "taken",
                                 !.suggestion = net[q].ans.suggestion]
    /\ PageStep

\* The button; disabled, it also keeps Enter from submitting.
MaySubmit == /\ OnForm /\ ~ui.submitting
             /\ ui.prefix # None /\ ui.status \notin {"taken", "checking"}

\* handleSubmit.  Bound: as many creates as there are rows left.
Submit ==
    /\ MaySubmit /\ Room(net, 1)
    /\ Cardinality(FreeRows) > Cardinality(Pending("create"))
    /\ net' = Sent(net, "create", ui.prefix)
    /\ ui' = [ui EXCEPT !.submitting = TRUE]
    /\ PageStep

\* The rest of handleSubmit: the tab goes to the new sandbox, wherever it is by now.
Submitted(q) ==
    /\ q \in Answered("create")
    /\ IF net[q].at = "ok"
         THEN \/ Goto(MailRoute(net[q].ans), Done(q))
              \/ page = MailRoute(net[q].ans) /\ net' = Done(q) /\ UNCHANGED <<page, ui>>
         ELSE /\ net' = Done(q)
              /\ ui' = IF net[q].home THEN [ui EXCEPT !.submitting = FALSE] ELSE ui
              /\ UNCHANGED page
    /\ UNCHANGED <<mishaps, mailTables, mockTables>>

LeaveForm == OnForm /\ Goto(ListRoute, net) /\ UNCHANGED <<mishaps, mailTables, mockTables>>

SandboxClick == \/ SelectTag \/ (\E b \in Boxes : Toggle(b)) \/ LeaveList
                \/ (\E p \in Prefixes \cup {None} : Type(p)) \/ TrySuggestion \/ Submit \/ LeaveForm
SandboxAnswered == \E q \in DOMAIN net : BoxesLoaded(q) \/ Toggled(q) \/ Checked(q) \/ Submitted(q)
=============================================================================
