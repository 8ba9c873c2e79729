---------------------------- MODULE ScenarioTab ----------------------------
(***************************************************************************)
(* The scenario pages of a workspace, and what they share: the rows behind *)
(* them, the page on screen, and the moves between pages.  The pages are   *)
(* ScenarioList, ScenarioEditor and RunPage; what answers them is          *)
(* ScenarioServer; ScenarioPages puts them together.                       *)
(***************************************************************************)
EXTENDS Tab

CONSTANTS
    Scenarios,    \* the rows a workspace may have
    Names,        \* names a scenario may be given; each slugifies to itself
    Suffixes,     \* bound: how often one name may be taken; never the limit
    Runs,         \* the runs that may be started
    ScenarioOf,   \* Runs -> Scenarios
    Outcomes,     \* verdicts a worker may reach
    TypedTexts,   \* what the user may type into the steps
    MaxActs,      \* bound: mutations under way at a time
    MaxEdits      \* bound: changes made to the form

ASSUME ScenarioAssumption ==
    /\ ScenarioOf \in [Runs -> Scenarios]
    /\ Names # {}
    /\ IsFiniteSet(Scenarios) /\ Suffixes \in Nat /\ Suffixes > Cardinality(Scenarios)
    /\ Outcomes \subseteq {"passed", "failed", "error", "timeout"}
    /\ MaxActs \in Nat /\ MaxEdits \in Nat

VARIABLES
    row,      \* the scenarios table: None, or a record, for each row
    status,   \* the scenario_runs table
    list,     \* state of the list page
    editor,   \* state of the editor
    detail,   \* state of the page of one run
    edits     \* changes made to the form so far

serverVars == <<row, status>>
pageVars   == <<list, editor, detail>>
vars       == <<page, net, mishaps, row, status, list, editor, detail, edits>>

Lifecycle == INSTANCE RunLifecycle

\* types/scenario.ts: isTerminal, and the statuses a run can be shown with.
isTerminal(s) == s \in Lifecycle!Terminal

\* "checkout", "checkout-2", ...: the name and its suffix.
Slugs   == Names \X (1..Suffixes)
Content == [slug : Slugs, name : Names, active : BOOLEAN]

ASSUME NullIsNoRow == None \notin Content

Routes == [at : {"list"}] \cup [at : {"editor"}, slug : Slugs]
          \cup [at : {"run"}, slug : Slugs, run : Runs]

(* ----------------------- what a page starts with ----------------------- *)

ListInit == [scenarios |-> {}, loading |-> TRUE, loadError |-> FALSE,
             showCreate |-> FALSE, name |-> None]

EditorInit == [scenario |-> None, loading |-> TRUE, loadError |-> FALSE,
               name |-> None, active |-> TRUE, steps |-> "blank", variables |-> "blank",
               saving |-> FALSE,
               runs |-> [r \in Runs |-> "none"], timer |-> FALSE,
               triggering |-> FALSE]

DetailInit == [run |-> None, loading |-> TRUE, error |-> FALSE,
               cancelling |-> FALSE, timer |-> FALSE]

(* ------------------------------ navigation ----------------------------- *)

Mutations == {"create", "save", "trigger", "delete", "cancel"}
Ops       == Mutations \cup {"list", "scenario", "history", "run"}
Ids       == IdsOf(Ops)

\* The bounds leave room for one more.
RoomToAct == Room(net, 1) /\ Cardinality({q \in DOMAIN net : net[q].op \in Mutations}) < MaxActs

\* What a page asks for when it mounts.
MountRequests(p, S) ==
    CASE p.at = "list"   -> Sent(S, "list", None)
      [] p.at = "editor" -> Sent(Sent(S, "scenario", p.slug), "history", "mount")
      [] p.at = "run"    -> Sent(S, "run", "mount")

\* A move to another route: the old page unmounts, its timers are cleared, and
\* the new one mounts with fresh state.  A move to the route on screen is none.
Goto(p, S) ==
    IF p = page
      THEN net' = S /\ UNCHANGED <<page, pageVars>>
      ELSE LET left == Orphaned(S, Mutations)
           IN  /\ Room(left, IF p.at = "editor" THEN 2 ELSE 1)
               /\ page' = p
               /\ net' = MountRequests(p, left)
               /\ list' = ListInit /\ editor' = EditorInit /\ detail' = DetailInit

EditorRoute(slug) == [at |-> "editor", slug |-> slug]
ListRoute         == [at |-> "list"]
RunRoute(slug, r) == [at |-> "run", slug |-> slug, run |-> r]
=============================================================================
