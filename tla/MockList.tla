------------------------------ MODULE MockList ------------------------------
(***************************************************************************)
(* workspace/[id]/mocks/page.tsx: the list of mock endpoints behind its    *)
(* filters, a card with a switch for each (MockEndpointCard.tsx), the      *)
(* dialog that creates one and the one that imports a YAML file            *)
(* (YamlConfigImport.tsx).                                                 *)
(*                                                                         *)
(* The answer to an import has the field endpoints_created; the dialog     *)
(* that shows it reads result.endpoints.length.  There is no error         *)
(* boundary, so the whole page is gone until it is reloaded.               *)
(***************************************************************************)
EXTENDS MockServer

OnMocks == page.at = "mocks"
Broken  == OnMocks /\ ui.dialog = "yaml" /\ ui.result

\* What is clicked through an open dialog hits the dialog.
Behind == OnMocks /\ ~ui.loading /\ ui.dialog = "none"

(* A card starts from its row and then keeps a switch of its own, for as long as the *)
(* filter lets it.                                                                    *)
Visible(st) == IF st.loading THEN {}
               ELSE {m \in Mocks : st.rows[m] # None /\ st.filter \in {None, st.rows[m].key}}
Cards(st) ==
    [st EXCEPT !.card = [m \in Mocks |->
        CASE m \notin Visible(st)                   -> None
          [] m \in Visible(st) /\ st.card[m] = None -> [active |-> st.rows[m].active, busy |-> FALSE]
          [] OTHER                                  -> st.card[m]]]

\* A switch that has left the screen hears no answer, even if the card comes back.
Hides(st, S) == [q \in DOMAIN S |-> IF S[q].op = "flip" /\ S[q].home /\ st.card[S[q].arg.mock] = None
                                      THEN [S[q] EXCEPT !.arg.card = FALSE] ELSE S[q]]

\* The page goes on with st, and the requests S.
Becomes(st, S) == ui' = Cards(st) /\ net' = Hides(ui', S) /\ PageStep

\* fetchMocks, when the answer is there: an error changes nothing.
MocksLoaded(q) ==
    /\ q \in Answered("mocks") /\ ~Broken
    /\ Becomes(IF net[q].at = "ok" THEN [ui EXCEPT !.rows = net[q].ans, !.loading = FALSE]
               ELSE [ui EXCEPT !.loading = FALSE], Done(q))

\* The method and the search field.
Filter(k) == Behind /\ ui.filter # k /\ Becomes([ui EXCEPT !.filter = k], net)

(* ------------------------------ the switch ----------------------------- *)

\* handleToggle of the card.  seen is the list of the render that was clicked.
FlipSwitch(m) ==
    /\ Behind /\ ui.card[m] # None /\ RoomToAct
    /\ ~ui.card[m].busy
    /\ Becomes([ui EXCEPT !.card[m].busy = TRUE],
               Sent(net, "flip", [mock |-> m, to |-> ~ui.card[m].active,
                                  seen |-> ui.rows, card |-> TRUE]))

\* Deviation: a failed switch stays disabled (no `finally`).
SettledWhenDone(a, done) ==
    IF ~a.card \/ ~done THEN ui
    ELSE [ui EXCEPT !.card[a.mock] = [active |-> a.to, busy |-> FALSE]]

Settled(a, done) ==
    IF ~a.card THEN ui
    ELSE [ui EXCEPT !.card[a.mock] = [active |-> IF done THEN a.to ELSE @.active, busy |-> FALSE]]

\* The list becomes what it was at the click, but for the row that was switched.
Flipped(q) ==
    /\ q \in Answered("flip") /\ ~Broken
    /\ LET a    == net[q].arg
           done == net[q].at = "ok"
       IN  IF ~net[q].home THEN net' = Done(q) /\ UNCHANGED ui /\ PageStep
           ELSE IF done
             THEN Becomes([Settled(a, done) EXCEPT !.rows =
                             [a.seen EXCEPT ![a.mock].active = a.to]], Done(q))
             ELSE Becomes(Settled(a, done), Done(q))

(* ------------------------------ the dialogs ---------------------------- *)

OpenCreate == Behind /\ Becomes([ui EXCEPT !.dialog = "create"], net)
OpenYaml   == Behind /\ Becomes([ui EXCEPT !.dialog = "yaml"], net)

\* Cancel, Escape, the backdrop: what is under way goes on.
CloseCreate == /\ OnMocks /\ ui.dialog = "create" /\ Becomes([ui EXCEPT !.dialog = "none"], net)
CloseYaml   == /\ OnMocks /\ ui.dialog = "yaml" /\ ~Broken
               /\ Becomes([ui EXCEPT !.dialog = "none", !.result = FALSE], net)

\* Bound: as many endpoints on their way as there are rows left.
RoomForMock == Cardinality(FreeMocks) > Cardinality(Pending("endpoint") \cup Pending("import"))

CreateMock(k) ==
    /\ OnMocks /\ ui.dialog = "create" /\ ~ui.creating
    /\ RoomToAct /\ RoomForMock
    /\ Becomes([ui EXCEPT !.creating = TRUE], Sent(net, "endpoint", [key |-> k]))

\* The rest of handleCreate: the tab goes to the new endpoint, wherever it is by now.
Created(q) ==
    /\ q \in Answered("endpoint") /\ ~Broken
    /\ IF net[q].at = "ok" /\ page # EditorRoute(net[q].ans)
         THEN /\ Goto(EditorRoute(net[q].ans), Done(q))
              /\ UNCHANGED <<mishaps, mockTables, mailTables>>
         ELSE IF net[q].home THEN Becomes([ui EXCEPT !.creating = FALSE], Done(q))
         ELSE net' = Done(q) /\ UNCHANGED ui /\ PageStep

Import(k, overwrite) ==
    /\ OnMocks /\ ui.dialog = "yaml" /\ ~ui.importing /\ ~ui.result
    /\ RoomToAct /\ RoomForMock
    /\ Becomes([ui EXCEPT !.importing = TRUE],
               Sent(net, "import", [key |-> k, overwrite |-> overwrite]))

\* The rest of handleImport, and onSuccess, also when the dialog has been closed.
Imported(q) ==
    /\ q \in Answered("import") /\ ~Broken /\ Room(Done(q), 1)
    /\ IF ~net[q].home THEN net' = Done(q) /\ UNCHANGED ui /\ PageStep
       ELSE IF net[q].at = "ok"
         THEN Becomes([ui EXCEPT !.importing = FALSE, !.result = TRUE], Sent(Done(q), "mocks", None))
         ELSE Becomes([ui EXCEPT !.importing = FALSE], Done(q))

\* All that is left to do; answers still on their way go nowhere.
Reload ==
    /\ Broken /\ \A q \in DOMAIN net : net[q].at \in {"ok", "failed"}
    /\ ui' = MocksInit /\ net' = MountRequests(page, <<>>)
    /\ PageStep

LeaveMocks ==
    /\ Behind /\ \E m \in Visible(ui) : Goto(EditorRoute(m), net)
    /\ UNCHANGED <<mishaps, mockTables, mailTables>>

MocksClick == \/ (\E k \in Keys \cup {None} : Filter(k)) \/ (\E m \in Mocks : FlipSwitch(m))
              \/ OpenCreate \/ CloseCreate \/ (\E k \in Keys : CreateMock(k))
              \/ OpenYaml \/ CloseYaml \/ (\E k \in Keys, o \in BOOLEAN : Import(k, o))
              \/ Reload \/ LeaveMocks
MocksAnswered == \E q \in DOMAIN net : MocksLoaded(q) \/ Flipped(q) \/ Created(q) \/ Imported(q)
=============================================================================
