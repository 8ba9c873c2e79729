--------------------------- MODULE ScenarioEditor ---------------------------
(***************************************************************************)
(* scenarios/[slug]/page.tsx: the form of one scenario, its Run button and *)
(* the history of its runs, polled while one of them is unfinished.        *)
(***************************************************************************)
EXTENDS ScenarioServer

OnEditor == page.at = "editor"

(* parseJson(text, expect): what a text area may hold, and what is wrong with it. *)
Texts == {"blank", "array", "object", "junk"}
ParseError(text, expect) == text \notin {"blank", expect}
JsonError == ParseError(editor.steps, "array") \/ ParseError(editor.variables, "object")

EditorView ==
    CASE editor.loading -> "spinner"
      [] ~editor.loading /\ (editor.loadError \/ editor.scenario = None) -> "error"
      [] OTHER -> "form"

OnForm == OnEditor /\ EditorView = "form"

InFlight(runs) == \E r \in Runs : runs[r] # "none" /\ ~isTerminal(runs[r])

\* The effect on [anyInFlight]: a timer exactly while the list shows a live run.
WithRuns(e, runs) == [e EXCEPT !.runs = runs, !.timer = InFlight(runs)]

\* applyScenario: the row, and the form filled from it.  The server only stores
\* steps and variables of the right shape, and JSON.stringify writes them back.
Applied(e, s) == [e EXCEPT !.scenario = s, !.name = s.name, !.active = s.active,
                           !.steps = "array", !.variables = "object"]

EditorStep == UNCHANGED <<mishaps, serverVars, list, detail>>

ScenarioLoaded(q) ==
    /\ q \in Answered("scenario")
    /\ net' = Done(q)
    /\ editor' = IF net[q].at = "ok" THEN [Applied(editor, net[q].ans) EXCEPT !.loading = FALSE]
                                ELSE [editor EXCEPT !.loadError = TRUE, !.loading = FALSE]
    /\ UNCHANGED <<page, edits>> /\ EditorStep

\* Deviation: a history that cannot be had is an error of the page.
HistoryOrError(q) ==
    /\ q \in Answered("history")
    /\ net' = Done(q)
    /\ LET after == [editor EXCEPT !.triggering = IF net[q].arg = "trigger" THEN FALSE ELSE @]
       IN  editor' = IF net[q].at = "ok" THEN WithRuns(after, net[q].ans)
                                         ELSE [after EXCEPT !.loadError = TRUE]
    /\ UNCHANGED <<page, edits>> /\ EditorStep

\* fetchRuns, when the answer is there: an error leaves everything as it is.
\* After a trigger it is the end of handleRun.
HistoryLoaded(q) ==
    /\ q \in Answered("history")
    /\ net' = Done(q)
    /\ LET after == [editor EXCEPT !.triggering = IF net[q].arg = "trigger" THEN FALSE ELSE @]
       IN  editor' = IF net[q].at = "ok" THEN WithRuns(after, net[q].ans) ELSE after
    /\ UNCHANGED <<page, edits>> /\ EditorStep

\* setInterval(fetchRuns, 1500): due again whether or not the last one is back.
\* Bound: one poll the server has not answered at a time; answers may pile up.
PollHistory ==
    /\ OnEditor /\ editor.timer /\ Room(net, 1) /\ Pending("history") = {}
    /\ net' = Sent(net, "history", "poll")
    /\ UNCHANGED <<page, editor, edits>> /\ EditorStep

\* The form stays open to changes while a save is on its way.
Edit ==
    /\ OnForm /\ edits < MaxEdits /\ edits' = edits + 1
    /\ \/ \E n \in Names \ {editor.name} : editor' = [editor EXCEPT !.name = n]
       \/ editor' = [editor EXCEPT !.active = ~@]
       \/ \E t \in TypedTexts \ {editor.steps} : editor' = [editor EXCEPT !.steps = t]
    /\ UNCHANGED <<page, net>> /\ EditorStep

\* The Save button
MaySave == OnForm /\ ~editor.saving /\ ~JsonError

\* handleSave
Save ==
    /\ MaySave /\ RoomToAct
    /\ net' = Sent(net, "save", [slug |-> page.slug, name |-> editor.name,
                                 active |-> editor.active])
    /\ editor' = [editor EXCEPT !.saving = TRUE]
    /\ UNCHANGED <<page, edits>> /\ EditorStep

\* Deviation: a save that leaves the page where it is.
SavedInPlace(q) ==
    /\ q \in Answered("save")
    /\ net' = Done(q)
    /\ editor' = IF ~net[q].home THEN editor
                 ELSE IF net[q].at = "ok" THEN [Applied(editor, net[q].ans) EXCEPT !.saving = FALSE]
                 ELSE [editor EXCEPT !.saving = FALSE]
    /\ UNCHANGED <<page, list, detail, mishaps, serverVars, edits>>

\* The rest of handleSave.  The slug is derived from the name, so a rename moves
\* the page, also when the tab has gone to another one meanwhile.
Saved(q) ==
    /\ q \in Answered("save")
    /\ IF net[q].at = "ok" /\ net[q].ans.slug # net[q].arg.slug
         THEN Goto(EditorRoute(net[q].ans.slug), Done(q))
         ELSE /\ net' = Done(q)
              /\ editor' = IF ~net[q].home THEN editor
                           ELSE IF net[q].at = "ok"
                             THEN [Applied(editor, net[q].ans) EXCEPT !.saving = FALSE]
                             ELSE [editor EXCEPT !.saving = FALSE]
              /\ UNCHANGED <<page, list, detail>>
    /\ UNCHANGED <<mishaps, serverVars, edits>>

\* "Run now"
MayTrigger == OnForm /\ ~editor.triggering /\ editor.scenario.active

\* handleRun
Trigger ==
    /\ MayTrigger /\ RoomToAct
    /\ net' = Sent(net, "trigger", page.slug)
    /\ editor' = [editor EXCEPT !.triggering = TRUE]
    /\ UNCHANGED <<page, edits>> /\ EditorStep

\* The rest of handleRun: the history is fetched, and awaited, before the button
\* is free again.
Triggered(q) ==
    /\ q \in Answered("trigger")
    /\ IF net[q].home /\ net[q].at = "ok"
         THEN net' = Sent(Done(q), "history", "trigger") /\ UNCHANGED editor
         ELSE /\ net' = Done(q)
              /\ editor' = IF net[q].home THEN [editor EXCEPT !.triggering = FALSE]
                                     ELSE editor
    /\ UNCHANGED <<page, edits>> /\ EditorStep

\* handleDelete, through the dialog that asks again: nothing disables its button
\* while the request is on its way.
DeleteScenario ==
    /\ OnForm /\ RoomToAct
    /\ net' = Sent(net, "delete", page.slug)
    /\ UNCHANGED <<page, editor, edits>> /\ EditorStep

Deleted(q) ==
    /\ q \in Answered("delete")
    /\ IF net[q].at = "ok"
         THEN Goto(ListRoute, Done(q))
         ELSE net' = Done(q) /\ UNCHANGED <<page, pageVars>>
    /\ UNCHANGED <<mishaps, serverVars, edits>>

\* The table of runs
Rows == {r \in Runs : editor.runs[r] # "none"}

\* A row of the history, or the link back.
LeaveEditor ==
    /\ OnEditor /\ ~editor.loading
    /\ \/ Goto(ListRoute, net)
       \/ EditorView = "form" /\ \E r \in Rows : Goto(RunRoute(page.slug, r), net)
    /\ UNCHANGED <<mishaps, serverVars, edits>>

EditorClick == Edit \/ Save \/ Trigger \/ DeleteScenario \/ LeaveEditor
HistoryAnswered == \E q \in DOMAIN net : HistoryLoaded(q)
EditorAnswered  == \E q \in DOMAIN net : ScenarioLoaded(q) \/ Saved(q) \/ Triggered(q) \/ Deleted(q)
=============================================================================
