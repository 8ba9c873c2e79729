----------------------------- MODULE MockEditor -----------------------------
(***************************************************************************)
(* workspace/[id]/mocks/[mockId]/page.tsx with components/mock/MockEditor: *)
(* the response of a mock endpoint, its static data, its rules and its     *)
(* sequences (ResponseRuleEditor, SequenceEditor), its log of requests.    *)
(*                                                                         *)
(* No request for a rule, a sequence or the log finds a route on the       *)
(* server (MockServer!Unrouted): of the code that follows their `await`    *)
(* only the `catch` and the `finally` are ever reached.                    *)
(***************************************************************************)
EXTENDS MockServer

OnMock == page.at = "mock"
Tabs   == {"response", "static", "logs"} \cup Kinds
At(t)  == OnMock /\ ui.view = "editor" /\ ui.tab = t

\* useMockEndpoint: any error reads "not found".
MockLoaded(q) ==
    /\ q \in Answered("mock")
    /\ net' = Done(q)
    /\ ui' = IF net[q].at = "ok" THEN [ui EXCEPT !.view = "editor", !.list = net[q].ans]
                 ELSE [ui EXCEPT !.view = "missing"]
    /\ PageStep

\* fetchLogs.  Bound: one fetch the server has not answered at a time.
FetchLogs == /\ Room(net, 1) /\ Pending("logs") = {}
             /\ net' = Sent(net, "logs", page.mock)

\* What is typed into the editor of a rule or sequence goes with its tab; that one
\* is being edited stays.
TabTo(t) ==
    /\ OnMock /\ ui.view = "editor" /\ ui.tab # t
    /\ ui' = [ui EXCEPT !.tab = t, !.logsLoading = @ \/ t = "logs"]
    /\ IF t = "logs" THEN FetchLogs ELSE UNCHANGED net
    /\ PageStep

Refresh ==
    /\ At("logs") /\ FetchLogs
    /\ ui' = [ui EXCEPT !.logsLoading = TRUE]
    /\ PageStep

LogsLoaded(q) ==
    /\ q \in Answered("logs")
    /\ net' = Done(q)
    /\ ui' = [ui EXCEPT !.logsLoading = FALSE]
    /\ PageStep

(* ----------------------------- the response ---------------------------- *)

\* What is typed into them is data, and outlives a look at another tab.
ResponseTab == At("response")
StaticTab   == At("static")

\* Both tabs have the button.
MaySave == (ResponseTab \/ StaticTab) /\ ~ui.saving

\* handleSaveResponse.  With static data that are no JSON array it goes no further
\* than a message, which is shown on the other tab.
SaveResponse ==
    /\ MaySave /\ Room(net, 1)
    /\ net' = Sent(net, "response", [mock |-> page.mock])
    /\ ui' = [ui EXCEPT !.saving = TRUE]
    /\ PageStep

ResponseSaved(q) ==
    /\ q \in Answered("response")
    /\ net' = Done(q)
    /\ ui' = IF net[q].home THEN [ui EXCEPT !.saving = FALSE] ELSE ui
    /\ PageStep

(* ------------------------- rules and sequences ------------------------- *)

ListedOf(k) == {c \in ui.list : KindOf(c) = k}

\* The forms, ResponseRuleEditor and SequenceEditor: of what is typed into them
\* nothing is kept but the row it is for.
RuleForm     == At("rules") /\ ui.editing["rules"] # None
SequenceForm == At("sequences") /\ ui.editing["sequences"] # None
Form(k)      == (k = "rules" /\ RuleForm) \/ (k = "sequences" /\ SequenceForm)

\* "Add Rule", "Edit": c is the row, or "new".
EditChild(k, c) ==
    /\ At(k) /\ ~Form(k) /\ (c # "new" => c \in ListedOf(k))
    /\ ui' = [ui EXCEPT !.editing[k] = c]
    /\ UNCHANGED net /\ PageStep

CancelEdit(k) ==
    /\ Form(k)
    /\ ui' = [ui EXCEPT !.editing[k] = None]
    /\ UNCHANGED net /\ PageStep

\* handleSaveRule, handleSaveSequence: the button is never disabled.
SaveChild(k) ==
    /\ Form(k) /\ RoomToAct
    /\ LET c == ui.editing[k] IN
       net' = Sent(net, IF c = "new" THEN "add" ELSE "change", [mock |-> page.mock, row |-> c])
    /\ UNCHANGED ui /\ PageStep

\* handleDeleteRule, handleDeleteSequence.
DropChild(k) ==
    /\ At(k) /\ ~Form(k) /\ RoomToAct
    /\ \E c \in ListedOf(k) : net' = Sent(net, "drop", [mock |-> page.mock, row |-> c])
    /\ UNCHANGED ui /\ PageStep

\* The catch of these handlers: the form stays open, the row stays listed, and
\* nothing is said.
ChildRefused(q) ==
    /\ q \in Answered("add") \cup Answered("change") \cup Answered("drop")
    /\ net' = Done(q)
    /\ UNCHANGED ui /\ PageStep

LeaveMock ==
    /\ OnMock /\ ui.view # "spinner" /\ Goto(MocksRoute, net)
    /\ UNCHANGED <<mishaps, mockTables, mailTables>>

MockClick == \/ (\E t \in Tabs : TabTo(t)) \/ Refresh \/ SaveResponse
             \/ \E k \in Kinds : \/ \E c \in Children \cup {"new"} : EditChild(k, c)
                                 \/ CancelEdit(k) \/ SaveChild(k) \/ DropChild(k)
             \/ LeaveMock
MockAnswered == \E q \in DOMAIN net : \/ MockLoaded(q) \/ LogsLoaded(q) \/ ResponseSaved(q)
                                      \/ ChildRefused(q)
=============================================================================
