--------------------------- MODULE ScenarioPages ---------------------------
(***************************************************************************)
(* The scenario pages in one tab, against the server they share with       *)
(* everybody else.                                                         *)
(***************************************************************************)
EXTENDS ScenarioList, ScenarioEditor, RunPage

Init ==
    /\ \E s \in {ScenarioOf[r] : r \in Runs} : row = [t \in Scenarios |->
            IF t = s THEN [slug |-> <<CHOOSE n \in Names : TRUE, 1>>,
                           name |-> CHOOSE n \in Names : TRUE, active |-> TRUE]
            ELSE None]
    /\ status = [r \in Runs |-> "none"]
    /\ page = ListRoute /\ net = MountRequests(ListRoute, <<>>)
    /\ list = ListInit /\ editor = EditorInit /\ detail = DetailInit
    /\ mishaps = 0 /\ edits = 0

Click   == ListClick \/ EditorClick \/ Cancel \/ LeaveRun
Poll    == PollHistory \/ PollRun
Handle  == ListAnswered \/ EditorAnswered
Environment == WorkerStep \/ OtherStep \/ (\E q \in DOMAIN net : Outage(q))

Next == \/ Click \/ Poll \/ Handle \/ HistoryAnswered \/ RunAnswered
        \/ ReadStep \/ WriteStep \/ Environment
Spec == Init /\ [][Next]_vars

-----------------------------------------------------------------------------
Fields == {"op", "arg", "at", "ans", "home"}

\* A request has the arguments its handler reads, what a transaction has picked is
\* what its write needs, and an answer is what the code behind the await reads.
TypedRequest(q) ==
    /\ DOMAIN q = Fields /\ q.op \in Ops /\ q.at \in Stages /\ q.home \in BOOLEAN
    /\ q.at = "picked" => q.op \in {"create", "save"}
    /\ q.op = "create" => /\ q.arg \in Names
                          /\ q.at = "picked" => q.ans \in Slugs
                          /\ q.at = "ok" => q.ans.slug \in Slugs
    /\ q.op = "save" => /\ q.arg \in Content
                        /\ q.at = "picked" => /\ q.ans.id \in Scenarios
                                              /\ q.ans.was \in Content /\ q.ans.new \in Content
                                              /\ q.ans.was.slug = q.arg.slug
                        /\ q.at = "ok" => q.ans \in Content
    /\ q.op \in {"trigger", "delete", "scenario"} => q.arg \in Slugs
    /\ q.op = "cancel" => q.arg \in Runs
    /\ q.at = "ok" => /\ q.op = "scenario" => q.ans \in Content
                      /\ q.op = "list" => \A g \in q.ans : g.slug \in Slugs
                      /\ q.op = "history" => q.ans \in [Runs -> Lifecycle!Visible \cup {"none"}]
                      /\ q.op = "run" => q.ans \in Lifecycle!Visible

ListTyped ==
    /\ DOMAIN list = DOMAIN ListInit
    /\ list.name \in Names \cup {None}
    /\ \A g \in list.scenarios : g.slug \in Slugs

EditorTyped ==
    /\ DOMAIN editor = DOMAIN EditorInit
    /\ editor.loading \in BOOLEAN /\ editor.loadError \in BOOLEAN
    /\ editor.scenario \in Content \cup {None}
    /\ editor.scenario # None => editor.name \in Names /\ editor.active \in BOOLEAN
    /\ editor.runs \in [Runs -> Lifecycle!Visible \cup {"none"}]

DetailTyped ==
    /\ DOMAIN detail = DOMAIN DetailInit
    /\ detail.run \in Lifecycle!Visible \cup {None}

RowsTyped == /\ row \in [Scenarios -> Content \cup {None}]
             /\ status \in [Runs -> Lifecycle!Statuses]

TypeOK ==
    /\ page \in Routes
    /\ mishaps \in 0..MaxMishaps /\ edits \in 0..MaxEdits
    /\ RowsTyped /\ ListTyped /\ EditorTyped /\ DetailTyped
    /\ DOMAIN net \subseteq Ids /\ Cardinality(DOMAIN net) <= MaxInFlight
    /\ \A q \in DOMAIN net : TypedRequest(net[q])

\* Two scenarios of a workspace never share a slug, whoever creates or renames
\* one between the moment a create reads the taken slugs and the moment it
\* inserts (scenario_service.allocate_slug, scenarios.py create_scenario_endpoint).
SlugsDistinct ==
    \A s, t \in Scenarios :
        Exists(s) /\ Exists(t) /\ row[s].slug = row[t].slug => s = t

\* A verdict on screen, in the history or on the page of a run, is one the run
\* has: no page shows as finished, out of a stale answer or ahead of the server,
\* a run that is still queued or executing.
ShownVerdictStands ==
    \A r \in Runs :
        \/ isTerminal(editor.runs[r])
        \/ OnRun /\ page.run = r /\ detail.run # None /\ isTerminal(detail.run)
        => status[r] \in Lifecycle!Terminal \cup {"gone"}

\* A tab left to itself addresses its scenario: once every answer is in, a form
\* on screen belongs to a slug that exists, although a save moves the slug, a
\* delete removes it, and the user may leave and come back before either is
\* carried out.
FormAddressesARow ==
    OnForm /\ net = <<>> /\ mishaps = 0 => AtSlug(page.slug) # {}

Draft == <<editor.name, editor.active, editor.steps, editor.variables>>

\* "A failure here must not blank the page someone is mid-edit in": no answer,
\* late or failed, takes the form away from a tab that stays on its page, and
\* only the user, or the answer to their own save, changes what is in it.
FormSurvives ==
    [][OnForm /\ page' = page /\ net' # net =>
          /\ EditorView' = "form"
          /\ Draft' # Draft => \E q \in Answered("save") : q \notin DOMAIN net']_vars

=============================================================================
