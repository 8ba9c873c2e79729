----------------------------- MODULE MockServer -----------------------------
(***************************************************************************)
(* The endpoints of the API that keep mock endpoints, their rules and      *)
(* their sequences, as the pages meet them, and everybody else who works   *)
(* on the same rows.                                                       *)
(***************************************************************************)
EXTENDS DashboardTab

MockExists(m) == endpoint[m] \notin {None, Gone}
Holders(k)    == {m \in Mocks : MockExists(m) /\ endpoint[m].key = k}
OnPath(k)     == {m \in Mocks : MockExists(m) /\ PathOf[endpoint[m].key] = PathOf[k]}
ChildrenOf(m) == {c \in Children : child[c] = m}

MockServerStep == UNCHANGED <<page, ui, mailTables>>

(* -------------------------------- reads -------------------------------- *)

\* get_mock_endpoint lists the sequences without their steps.
MockRead(q) ==
    /\ net[q].at = "sent"
    /\ LET r == net[q] IN
       \/ r.op = "mocks" /\ Reply(q, [m \in Mocks |-> IF MockExists(m) THEN endpoint[m] ELSE None])
       \/ r.op = "mock" /\ MockExists(r.arg) /\ Reply(q, ChildrenOf(r.arg))
       \/ r.op = "mock" /\ ~MockExists(r.arg) /\ Refuse(q)
    /\ UNCHANGED <<mishaps, mockTables>> /\ MockServerStep

(* -------------------------------- writes ------------------------------- *)

\* update_mock_endpoint, for the switch of a card and for a response.
MockUpdate(q) ==
    /\ net[q].op \in {"flip", "response"} /\ net[q].at = "sent"
    /\ LET r == net[q] IN
       IF ~MockExists(r.arg.mock) THEN Refuse(q) /\ UNCHANGED <<endpoint, mishaps>>
       ELSE /\ endpoint' = IF r.op = "flip" THEN [endpoint EXCEPT ![r.arg.mock].active = r.arg.to]
                           ELSE endpoint
            /\ Carry(q, None)
    /\ UNCHANGED child /\ MockServerStep

\* create_mock_endpoint looks whether the method and path are taken ...
EndpointCheck(q) ==
    /\ net[q].op = "endpoint" /\ net[q].at = "sent"
    /\ IF Holders(net[q].arg.key) # {} THEN Refuse(q) ELSE net' = Moved(q, "picked", {})
    /\ UNCHANGED <<mishaps, mockTables>> /\ MockServerStep

\* import_yaml_config skips what is there already, or first deletes what is on the
\* path, whatever its method.  Bound: one endpoint is generated.
ImportCheck(q) ==
    /\ net[q].op = "import" /\ net[q].at = "sent"
    /\ LET r == net[q].arg IN
       \/ r.overwrite /\ net' = Moved(q, "picked", OnPath(r.key)) /\ UNCHANGED mishaps
       \/ ~r.overwrite /\ Holders(r.key) = {} /\ net' = Moved(q, "picked", {}) /\ UNCHANGED mishaps
       \/ ~r.overwrite /\ Holders(r.key) # {} /\ Carry(q, None)
    /\ UNCHANGED mockTables /\ MockServerStep

\* Rows are taken in some order, and never again.
FreeMocks      == {m \in Mocks : endpoint[m] = None}
NextMock       == CHOOSE m \in FreeMocks : TRUE
NewEndpoint(k) == [endpoint EXCEPT ![NextMock] = [key |-> k, active |-> TRUE]]

\* The children go with their endpoint (ON DELETE CASCADE).
Cascade(old) == [c \in Children |-> IF child[c] \in old THEN Gone ELSE child[c]]

\* A commit: of the rows the transaction has deleted, and of those it leaves.
Commits(old, rows) ==
    /\ endpoint' = [m \in Mocks |-> IF m \in old THEN Gone ELSE rows[m]]
    /\ child' = Cascade(old)

\* Deviation: an insert that trusts the check.
EndpointInsertUnchecked(q) ==
    /\ net[q].op \in {"endpoint", "import"} /\ net[q].at = "picked"
    /\ FreeMocks # {} /\ Commits(net[q].ans, NewEndpoint(net[q].arg.key)) /\ Carry(q, NextMock)
    /\ MockServerStep

\* Either inserts and commits: the partial unique index fails the loser of a race
\* (500, nothing deleted), unless an import that deletes finds the other row in time
\* and skips.  What happens to a row between its deletion and the commit waits for the
\* lock of the row; here it comes before or after.
EndpointInsert(q) ==
    /\ net[q].op \in {"endpoint", "import"} /\ net[q].at = "picked"
    /\ LET old  == net[q].ans
           k    == net[q].arg.key
           lost == ~(Holders(k) \subseteq old)
       IN  \/ ~lost /\ FreeMocks # {} /\ Commits(old, NewEndpoint(k)) /\ Carry(q, NextMock)
           \/ lost /\ Refuse(q) /\ UNCHANGED <<mishaps, mockTables>>
           \/ lost /\ net[q].op = "import" /\ net[q].arg.overwrite
              /\ Commits(old, endpoint) /\ Carry(q, None)
    /\ MockServerStep

\* The editor asks for rules, sequences and logs under /workspaces/{id}/mocks/{id},
\* where there are no such routes (they are under /mocks/{id}): 404.
Unrouted(q) ==
    /\ net[q].op \in {"add", "change", "drop", "logs"} /\ net[q].at = "sent"
    /\ Refuse(q) /\ UNCHANGED <<mishaps, mockTables>> /\ MockServerStep

MockOutage(q) == Fail(q) /\ UNCHANGED mockTables /\ MockServerStep

MockAnswer(q) == \/ MockRead(q) \/ MockUpdate(q) \/ EndpointCheck(q) \/ EndpointInsert(q)
                 \/ ImportCheck(q) \/ Unrouted(q)
MockServe == \E q \in DOMAIN net : MockAnswer(q)

(* ------------------------------ the others ----------------------------- *)

\* Another member, or a client of the API: rules and sequences come from there only.
OtherMockDelete(m) ==
    MockExists(m) /\ endpoint' = [endpoint EXCEPT ![m] = Gone] /\ child' = Cascade({m})
\* Bound: a row is left for each that may still need one.
OtherMockCreate(k) ==
    /\ Holders(k) = {}
    /\ Cardinality(FreeMocks) >
          Cardinality({q \in Pending("endpoint") : net[q].arg.key # k} \cup Pending("import"))
    /\ endpoint' = NewEndpoint(k) /\ UNCHANGED child
\* PATCH with a method or path does not look, and leaves the rest to the index; a row
\* an import is deleting is locked until it is gone.
OtherMockRename(m, k) ==
    /\ MockExists(m) /\ endpoint[m].key # k /\ Holders(k) = {}
    /\ \A q \in Pending("import") : net[q].at = "picked" => m \notin net[q].ans
    /\ endpoint' = [endpoint EXCEPT ![m].key = k] /\ UNCHANGED child
OtherChildAdd(c, m) ==
    /\ MockExists(m) /\ child[c] = None
    /\ child' = [child EXCEPT ![c] = m] /\ UNCHANGED endpoint
OtherChildDelete(c) ==
    /\ child[c] \in Mocks
    /\ child' = [child EXCEPT ![c] = Gone] /\ UNCHANGED endpoint

MockOtherStep ==
    /\ mishaps < MaxMishaps /\ mishaps' = mishaps + 1
    /\ \/ \E m \in Mocks : OtherMockDelete(m)
       \/ \E k \in Keys : OtherMockCreate(k)
       \/ \E m \in Mocks, k \in Keys : OtherMockRename(m, k)
       \/ \E c \in Children, m \in Mocks : OtherChildAdd(c, m)
       \/ \E c \in Children : OtherChildDelete(c)
    /\ UNCHANGED net /\ MockServerStep
=============================================================================
