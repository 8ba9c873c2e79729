------------------------------ MODULE RunPage ------------------------------
(***************************************************************************)
(* runs/[runId]/page.tsx: one run, polled until it has a verdict.          *)
(***************************************************************************)
EXTENDS ScenarioServer

OnRun == page.at = "run"

RunView ==
    CASE detail.loading -> "spinner"
      [] ~detail.loading /\ (detail.error \/ detail.run = None) -> "error"
      [] OTHER -> "run"

Live(run) == run # None /\ ~isTerminal(run)

RunStep == UNCHANGED <<mishaps, serverVars, list, editor, edits>>

\* fetchRun, when the answer is there; the effect on [live] sets or clears the
\* timer.  An error stays for good: nothing resets it.
RunLoaded(q) ==
    /\ q \in Answered("run")
    /\ net' = Done(q)
    /\ LET run == IF net[q].at = "ok" THEN net[q].ans ELSE detail.run
       IN  detail' = [detail EXCEPT
                        !.run = run, !.timer = Live(run), !.loading = FALSE,
                        !.error = @ \/ net[q].at = "failed",
                        !.cancelling = IF net[q].arg = "cancel" THEN FALSE ELSE @]
    /\ UNCHANGED page /\ RunStep

\* setInterval(fetchRun, 1500), also behind an error; bounded like PollHistory.
PollRun ==
    /\ OnRun /\ detail.timer /\ Room(net, 1) /\ Pending("run") = {}
    /\ net' = Sent(net, "run", "poll")
    /\ UNCHANGED <<page, detail>> /\ RunStep

\* "Cancel run"
MayCancel == OnRun /\ RunView = "run" /\ Live(detail.run) /\ ~detail.cancelling

\* Deviation: a cancel shown as done before the server has said so.
CancelShownAtOnce ==
    /\ MayCancel /\ RoomToAct
    /\ net' = Sent(net, "cancel", page.run)
    /\ detail' = [detail EXCEPT !.cancelling = TRUE, !.run = "cancelled", !.timer = FALSE]
    /\ UNCHANGED page /\ RunStep

\* handleCancel
Cancel ==
    /\ MayCancel /\ RoomToAct
    /\ net' = Sent(net, "cancel", page.run)
    /\ detail' = [detail EXCEPT !.cancelling = TRUE]
    /\ UNCHANGED page /\ RunStep

\* The rest of handleCancel: fetchRun again, which never throws, then finally.
Cancelled(q) ==
    /\ q \in Answered("cancel")
    /\ IF net[q].home /\ net[q].at = "ok"
         THEN net' = Sent(Done(q), "run", "cancel") /\ UNCHANGED detail
         ELSE /\ net' = Done(q)
              /\ detail' = IF net[q].home THEN [detail EXCEPT !.error = TRUE, !.cancelling = FALSE]
                                     ELSE detail
    /\ UNCHANGED page /\ RunStep

LeaveRun ==
    /\ OnRun /\ ~detail.loading
    /\ Goto(EditorRoute(page.slug), net)
    /\ UNCHANGED <<mishaps, serverVars, edits>>

RunAnswered == \E q \in DOMAIN net : RunLoaded(q) \/ Cancelled(q)
=============================================================================
