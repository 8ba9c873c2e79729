---------------------------- MODULE ScenarioList ----------------------------
(***************************************************************************)
(* scenarios/page.tsx: the list of scenarios and the dialog that adds one. *)
(***************************************************************************)
EXTENDS ScenarioServer

OnList == page.at = "list"

\* What the page shows in its main area.
ListView ==
    CASE list.loading                               -> "spinner"
      [] ~list.loading /\ list.loadError            -> "error"
      [] ~list.loading /\ ~list.loadError
         /\ list.scenarios = {}                     -> "No scenarios yet"
      [] OTHER                                      -> "list"

ListStep == UNCHANGED <<mishaps, serverVars, editor, detail>>

\* fetchScenarios, when the answer is there.
ListLoaded(q) ==
    /\ q \in Answered("list")
    /\ net' = Done(q)
    /\ list' = IF net[q].at = "ok" THEN [list EXCEPT !.scenarios = net[q].ans, !.loading = FALSE]
                              ELSE [list EXCEPT !.loadError = TRUE, !.loading = FALSE]
    /\ UNCHANGED <<page, edits>> /\ ListStep

\* "Try again": the error goes away at once, the spinner does not come back.
Retry ==
    /\ OnList /\ ListView = "error" /\ Room(net, 1)
    /\ net' = Sent(net, "list", None)
    /\ list' = [list EXCEPT !.loadError = FALSE]
    /\ UNCHANGED <<page, edits>> /\ ListStep

OpenCreate ==
    /\ OnList /\ ~list.loading /\ ~list.showCreate
    /\ list' = [list EXCEPT !.showCreate = TRUE]
    /\ UNCHANGED <<page, net, edits>> /\ ListStep

\* Cancel, Escape or a click outside; a request already sent goes on.
CloseCreate ==
    /\ OnList /\ list.showCreate
    /\ list' = [list EXCEPT !.showCreate = FALSE]
    /\ UNCHANGED <<page, net, edits>> /\ ListStep

TypeName(n) ==
    /\ OnList /\ list.showCreate /\ list.name # n /\ edits < MaxEdits
    /\ list' = [list EXCEPT !.name = n] /\ edits' = edits + 1
    /\ UNCHANGED <<page, net>> /\ ListStep

\* The Create button, and Enter in the name field.
MayCreate == OnList /\ list.showCreate /\ list.name # None

\* handleCreate.  The button is disabled while a create is on its way; Enter in
\* the name field is not, so nothing but the bound on rows stops a second one.
Create ==
    /\ MayCreate /\ RoomToAct
    /\ Cardinality({s \in Scenarios : Exists(s)})
         + Cardinality(Pending("create")) < Cardinality(Scenarios)
    /\ net' = Sent(net, "create", list.name)
    /\ UNCHANGED <<page, list, edits>> /\ ListStep

\* The rest of handleCreate: on success the tab goes to the new scenario, from
\* whatever page it is on by now.
Created(q) ==
    /\ q \in Answered("create")
    /\ IF net[q].at = "ok"
         THEN Goto(EditorRoute(net[q].ans.slug), Done(q))
         ELSE net' = Done(q) /\ UNCHANGED <<page, pageVars>>
    /\ UNCHANGED <<mishaps, serverVars, edits>>

OpenScenario ==
    /\ OnList /\ ~list.loading /\ ~list.showCreate
    /\ \E g \in list.scenarios : Goto(EditorRoute(g.slug), net)
    /\ UNCHANGED <<mishaps, serverVars, edits>>

ListClick == Retry \/ OpenCreate \/ CloseCreate \/ (\E n \in Names : TypeName(n))
             \/ Create \/ OpenScenario
ListAnswered == \E q \in DOMAIN net : ListLoaded(q) \/ Created(q)
=============================================================================
