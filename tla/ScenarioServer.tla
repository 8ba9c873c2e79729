--------------------------- MODULE ScenarioServer ---------------------------
(***************************************************************************)
(* The scenario endpoints of the API as the pages meet them, and everybody *)
(* else who changes the same rows: the workers that execute runs (as far   *)
(* as RunLifecycle lets a reader see them), other members, the CLI.        *)
(***************************************************************************)
EXTENDS ScenarioTab

Exists(s)   == row[s] # None
AtSlug(g)   == {s \in Scenarios : Exists(s) /\ row[s].slug = g}
TakenSlugs  == {row[s].slug : s \in {t \in Scenarios : Exists(t)}}

\* scenario_service.allocate_slug: the first suffix that is free in this snapshot.
FreeSuffixes(n) == {k \in 1..Suffixes : <<n, k>> \notin TakenSlugs}
FreeSuffix(n) == CHOOSE k \in FreeSuffixes(n) : \A j \in FreeSuffixes(n) : k <= j
\* Deviation: numbered from the last suffix in use, starting at none.
NumberedFromZero(n) == <<n, FreeSuffix(n) - 1>>
AllocateSlug(n) == <<n, FreeSuffix(n)>>

\* scenarios.py update_scenario: a name that slugifies to the slug at hand keeps it.
SlugAfter(s, n) == IF n = row[s].name \/ <<n, 1>> = row[s].slug
                     THEN row[s].slug ELSE AllocateSlug(n)

\* Ids for a new row: no row has them, and none that a save has read had them.
Unused == {s \in Scenarios : ~Exists(s) /\ \A q \in DOMAIN net :
             net[q].op = "save" /\ net[q].at = "picked" => net[q].ans.id # s}

RunsOf(s) == {r \in Runs : ScenarioOf[r] = s}
Queueable(s) == {r \in RunsOf(s) : status[r] = "none"}

Delete(s) ==
    /\ row' = [row EXCEPT ![s] = None]
    /\ status' = [r \in Runs |-> IF r \in RunsOf(s) /\ status[r] # "none"
                                   THEN "gone" ELSE status[r]]

\* A read: q is answered from the rows as they are now.
ListAnswer(q)     == Reply(q, {[slug |-> row[s].slug] : s \in {t \in Scenarios : Exists(t)}})
ScenarioAnswer(q) == \E s \in AtSlug(net[q].arg) : Reply(q, row[s])
HistoryAnswer(q)  == \E s \in AtSlug(page.slug) :
    Reply(q, [r \in Runs |-> IF r \in RunsOf(s) /\ status[r] # "gone"
                               THEN status[r] ELSE "none"])
RunAnswer(q)      == status[page.run] \notin {"none", "gone"} /\ Reply(q, status[page.run])

\* The row a read asks for is not there (404).
Missing(q) ==
    CASE net[q].op = "scenario" -> AtSlug(net[q].arg) = {}
      [] net[q].op = "history"  -> AtSlug(page.slug) = {}
      [] net[q].op = "run"      -> status[page.run] \in {"none", "gone"}
      [] OTHER             -> FALSE

Read(q) ==
    /\ net[q].at = "sent"
    /\ \/ net[q].op = "list"     /\ ListAnswer(q)
       \/ net[q].op = "scenario" /\ ScenarioAnswer(q)
       \/ net[q].op = "history"  /\ HistoryAnswer(q)
       \/ net[q].op = "run"      /\ RunAnswer(q)
       \/ Missing(q) /\ Refuse(q)
    /\ UNCHANGED <<page, mishaps, serverVars, pageVars, edits>>

\* create_scenario_endpoint reads the taken slugs ...
CreatePick(q) ==
    /\ net[q].op = "create" /\ net[q].at = "sent"
    /\ net' = Moved(q, "picked", AllocateSlug(net[q].arg))
    /\ UNCHANGED <<page, mishaps, serverVars, pageVars, edits>>

\* Deviation: an insert that trusts the slug it picked.
InsertUnchecked(q) ==
    /\ net[q].op = "create" /\ net[q].at = "picked"
    /\ \E s \in Unused :
         /\ row' = [row EXCEPT ![s] = [slug |-> net[q].ans, name |-> net[q].arg, active |-> TRUE]]
         /\ Carry(q, [slug |-> net[q].ans])
    /\ UNCHANGED <<page, status, pageVars, edits>>

\* ... and inserts: the unique constraint turns the loser of a race into a 409.
CreateInsert(q) ==
    /\ net[q].op = "create" /\ net[q].at = "picked"
    /\ IF net[q].ans \in TakenSlugs
         THEN Refuse(q) /\ UNCHANGED <<row, mishaps>>
         ELSE \E s \in Unused :
                /\ row' = [row EXCEPT ![s] = [slug |-> net[q].ans, name |-> net[q].arg, active |-> TRUE]]
                /\ Carry(q, [slug |-> net[q].ans])
    /\ UNCHANGED <<page, status, pageVars, edits>>

\* update_scenario reads the row (404 if nothing has the slug) and picks a slug for
\* a new name ...
SavePick(q) ==
    /\ net[q].op = "save" /\ net[q].at = "sent"
    /\ \/ AtSlug(net[q].arg.slug) = {} /\ Refuse(q)
       \/ \E s \in AtSlug(net[q].arg.slug) :
            net' = Moved(q, "picked",
                         [id |-> s, was |-> row[s],
                          new |-> [net[q].arg EXCEPT !.slug = SlugAfter(s, net[q].arg.name)]])
    /\ UNCHANGED <<page, mishaps, serverVars, pageVars, edits>>

\* The flush writes the columns that differ from what was read, and no others.
Merged(now, was, new) == [c \in DOMAIN now |-> IF new[c] = was[c] THEN now[c] ELSE new[c]]

\* ... and writes.  The loser of a race for a slug, and whoever finds no row left,
\* get an error that nothing catches (500).
SaveWrite(q) ==
    /\ net[q].op = "save" /\ net[q].at = "picked"
    /\ LET s   == net[q].ans.id
           new == Merged(row[s], net[q].ans.was, net[q].ans.new)
       IN  IF ~Exists(s) \/ new.slug \in TakenSlugs \ {row[s].slug}
             THEN Refuse(q) /\ UNCHANGED <<row, mishaps>>
             ELSE row' = [row EXCEPT ![s] = new] /\ Carry(q, new)
    /\ UNCHANGED <<page, status, pageVars, edits>>

\* trigger_run: a queued run, unless the scenario is gone or inactive (404, 409)
\* or the month's runs are used up (429; Runs is the quota too).
TriggerAnswer(q) ==
    /\ net[q].op = "trigger" /\ net[q].at = "sent"
    /\ \/ /\ \A s \in AtSlug(net[q].arg) : ~row[s].active \/ Queueable(s) = {}
          /\ Refuse(q) /\ UNCHANGED <<status, mishaps>>
       \/ \E s \in AtSlug(net[q].arg) :
            /\ row[s].active
            /\ \E r \in Queueable(s) : Lifecycle!Submit(r)
            /\ Carry(q, None)
    /\ UNCHANGED <<page, row, pageVars, edits>>

DeleteAnswer(q) ==
    /\ net[q].op = "delete" /\ net[q].at = "sent"
    /\ \/ AtSlug(net[q].arg) = {} /\ Refuse(q) /\ UNCHANGED <<serverVars, mishaps>>
       \/ \E s \in AtSlug(net[q].arg) : Delete(s) /\ Carry(q, None)
    /\ UNCHANGED <<page, pageVars, edits>>

\* cancel_run_endpoint: 404 without the row, 409 once it has finished.
CancelAnswer(q) ==
    /\ net[q].op = "cancel" /\ net[q].at = "sent"
    /\ \/ /\ status[net[q].arg] \notin {"pending", "running"}
          /\ Refuse(q) /\ UNCHANGED <<status, mishaps>>
       \/ /\ Lifecycle!Move(net[q].arg, {"pending", "running"}, "cancelled")
          /\ Carry(q, None)
    /\ UNCHANGED <<page, row, pageVars, edits>>

Outage(q) == Fail(q) /\ UNCHANGED <<page, serverVars, pageVars, edits>>

ReadStep  == \E q \in DOMAIN net : Read(q)
WriteStep == \E q \in DOMAIN net : \/ CreatePick(q) \/ CreateInsert(q)
                                 \/ SavePick(q) \/ SaveWrite(q)
                                 \/ TriggerAnswer(q) \/ DeleteAnswer(q) \/ CancelAnswer(q)

(* ------------------------------ the others ----------------------------- *)

\* The worker loops, seen through the table: one run starts, one run ends.
WorkerStep ==
    /\ \E r \in Runs : \/ Lifecycle!Move(r, {"pending"}, "running")
                       \/ \E v \in Outcomes : Lifecycle!Move(r, {"running"}, v)
    /\ UNCHANGED <<page, net, mishaps, row, pageVars, edits>>

\* Another member, or the CLI, on the same rows.
OtherRename(s, n) ==
    /\ Exists(s) /\ n # row[s].name
    /\ row' = [row EXCEPT ![s].slug = SlugAfter(s, n), ![s].name = n]
    /\ UNCHANGED status
OtherCreate(s, n) ==
    /\ s \in Unused
    /\ row' = [row EXCEPT ![s] = [slug |-> AllocateSlug(n), name |-> n, active |-> TRUE]]
    /\ UNCHANGED status
OtherDelete(s)  == Exists(s) /\ Delete(s)
OtherToggle(s)  == Exists(s) /\ row' = [row EXCEPT ![s].active = ~@] /\ UNCHANGED status
OtherTrigger(s) == /\ Exists(s) /\ row[s].active
                   /\ \E r \in Queueable(s) : Lifecycle!Submit(r)
                   /\ UNCHANGED row

OtherStep ==
    /\ mishaps < MaxMishaps /\ mishaps' = mishaps + 1
    /\ \E s \in Scenarios : \/ \E n \in Names : OtherRename(s, n) \/ OtherCreate(s, n)
                            \/ OtherDelete(s) \/ OtherToggle(s) \/ OtherTrigger(s)
    /\ UNCHANGED <<page, net, pageVars, edits>>
=============================================================================
