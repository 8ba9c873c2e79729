----------------------------- MODULE MailServer -----------------------------
(***************************************************************************)
(* The inbox and sandbox endpoints of the API as the pages meet them, the  *)
(* SMTP side that delivers (see SmtpSession), and everybody else who works *)
(* on the same rows.                                                       *)
(***************************************************************************)
EXTENDS DashboardTab

Exists(b) == b \in Boxes => box[b] \notin {None, Gone}
Taken     == {box[b].prefix : b \in {c \in Boxes : Exists(c)}}

\* Deviation: a query without the box.
MailsInAny(b) == {m \in Mails : IF b = None THEN at[m] = None ELSE at[m] \notin {None, Gone}}

MailsIn(b) == {m \in Mails : at[m] = b}

ServerStep == UNCHANGED <<page, ui, mockTables>>

(* -------------------------------- reads -------------------------------- *)

\* GET .../inbox and .../emails: the rows of one box, how many, how many unread.
Listing(b) ==
    [emails |-> [m \in Mails |-> IF m \notin MailsIn(b) THEN "absent"
                                 ELSE IF m \in read THEN "read" ELSE "unread"],
     total |-> Cardinality(MailsIn(b)), unread |-> Cardinality(MailsIn(b) \ read)]

\* GET /sandboxes?tag=
BoxRows(tag) ==
    [b \in Boxes |-> IF ~Exists(b) \/ (tag /\ b \notin Tagged) THEN "absent"
                     ELSE IF box[b].active THEN "on" ELSE "off"]

\* check_prefix_endpoint, with suggest_prefix; Prefixes are well formed.
CheckAnswer(p) ==
    IF p \notin Taken THEN {[available |-> TRUE, suggestion |-> None]}
    ELSE {[available |-> FALSE, suggestion |-> s] :
             s \in IF Prefixes \subseteq Taken THEN {None} ELSE Prefixes \ Taken}

Read(q) ==
    /\ net[q].at = "sent"
    /\ LET r == net[q] IN
       \/ r.op = "mails" /\ Exists(r.arg) /\ Reply(q, Listing(r.arg))
       \/ r.op \in {"box", "creds"} /\ Exists(r.arg) /\ Reply(q, None)
       \/ r.op \in {"mails", "box", "creds"} /\ ~Exists(r.arg) /\ Refuse(q)
       \/ r.op = "boxes" /\ Reply(q, BoxRows(r.arg))
       \/ r.op = "check" /\ \E a \in CheckAnswer(r.arg) : Reply(q, a)
    /\ UNCHANGED <<mishaps, mailTables>> /\ ServerStep

(* -------------------------------- writes ------------------------------- *)

\* GET of one message marks it as read; 404 when it is not in that box.
OpenAnswer(q) ==
    /\ net[q].op = "open" /\ net[q].at = "sent"
    /\ IF at[net[q].arg.mail] = net[q].arg.box
         THEN read' = read \cup {net[q].arg.mail} /\ Carry(q, None)
         ELSE Refuse(q) /\ UNCHANGED <<read, mishaps>>
    /\ UNCHANGED <<box, at>> /\ ServerStep

RemoveAnswer(q) ==
    /\ net[q].op = "remove" /\ net[q].at = "sent"
    /\ IF at[net[q].arg.mail] = net[q].arg.box
         THEN at' = [at EXCEPT ![net[q].arg.mail] = Gone] /\ Carry(q, None)
         ELSE Refuse(q) /\ UNCHANGED <<at, mishaps>>
    /\ UNCHANGED <<box, read>> /\ ServerStep

\* Everything in the box goes, also what arrived after the page last looked.
ClearAnswer(q) ==
    /\ net[q].op = "clear" /\ net[q].at = "sent"
    /\ IF Exists(net[q].arg)
         THEN /\ at' = [m \in Mails |-> IF m \in MailsIn(net[q].arg) THEN Gone ELSE at[m]]
              /\ Carry(q, None)
         ELSE Refuse(q) /\ UNCHANGED <<at, mishaps>>
    /\ UNCHANGED <<box, read>> /\ ServerStep

\* send_smtp_test: through SMTP with the login of the workspace, so what arrives
\* is stored in its inbox before the answer; 502 when the listener refuses.
TestAnswer(q) ==
    /\ net[q].op = "test" /\ net[q].at = "sent"
    /\ IF MailsIn(None) = {} THEN Refuse(q) /\ UNCHANGED <<at, mishaps>>
       ELSE \E m \in MailsIn(None) : at' = [at EXCEPT ![m] = Inbox] /\ Carry(q, None)
    /\ UNCHANGED <<box, read>> /\ ServerStep

ToggleAnswer(q) ==
    /\ net[q].op = "toggle" /\ net[q].at = "sent"
    /\ IF Exists(net[q].arg.box)
         THEN /\ box' = [box EXCEPT ![net[q].arg.box].active = net[q].arg.active]
              /\ Carry(q, None)
         ELSE Refuse(q) /\ UNCHANGED <<box, mishaps>>
    /\ UNCHANGED <<at, read>> /\ ServerStep

\* create_sandbox_endpoint looks whether the prefix is free ...
CreateCheck(q) ==
    /\ net[q].op = "create" /\ net[q].at = "sent"
    /\ IF net[q].arg \in Taken THEN Refuse(q) ELSE net' = Moved(q, "picked", None)
    /\ UNCHANGED <<mishaps, mailTables>> /\ ServerStep

\* Rows are taken in some order, and never again.
FreeRows  == {b \in Boxes : box[b] = None}
NextRow   == CHOOSE b \in FreeRows : TRUE
NewRow(p) == box' = [box EXCEPT ![NextRow] = [prefix |-> p, active |-> TRUE]]

\* Deviation: an insert that trusts the check.
InsertUnchecked(q) ==
    /\ net[q].op = "create" /\ net[q].at = "picked"
    /\ FreeRows # {} /\ NewRow(net[q].arg) /\ Carry(q, NextRow)
    /\ UNCHANGED <<at, read>> /\ ServerStep

\* ... and inserts: the unique constraint fails the loser of a race (500).
CreateInsert(q) ==
    /\ net[q].op = "create" /\ net[q].at = "picked"
    /\ IF net[q].arg \in Taken THEN Refuse(q) /\ UNCHANGED <<box, mishaps>>
       ELSE FreeRows # {} /\ NewRow(net[q].arg) /\ Carry(q, NextRow)
    /\ UNCHANGED <<at, read>> /\ ServerStep

Outage(q) == Fail(q) /\ UNCHANGED mailTables /\ ServerStep

Answer(q) == \/ Read(q) \/ OpenAnswer(q) \/ RemoveAnswer(q) \/ ClearAnswer(q)
             \/ TestAnswer(q) \/ ToggleAnswer(q) \/ CreateCheck(q) \/ CreateInsert(q)
Serve == \E q \in DOMAIN net : Answer(q)

(* ------------------------------ the others ----------------------------- *)

\* A message comes in; a sandbox that is paused takes none.
Deliver(m, b) ==
    /\ at[m] = None /\ Exists(b) /\ (b # Inbox => box[b].active)
    /\ at' = [at EXCEPT ![m] = b]
    /\ UNCHANGED <<net, mishaps, box, read>> /\ ServerStep

\* The same account elsewhere, another member, or the CLI.
OtherDelete(b) ==
    /\ Exists(b)
    /\ box' = [box EXCEPT ![b] = Gone]
    /\ at' = [m \in Mails |-> IF at[m] = b THEN Gone ELSE at[m]]
OtherCreate(p) == /\ p \notin Taken /\ Cardinality(FreeRows) > Cardinality(Pending("create"))
                  /\ NewRow(p) /\ UNCHANGED at
OtherRemove(m) == at[m] \notin {None, Gone} /\ at' = [at EXCEPT ![m] = Gone] /\ UNCHANGED box

OtherStep ==
    /\ mishaps < MaxMishaps /\ mishaps' = mishaps + 1
    /\ \/ \E b \in Boxes : OtherDelete(b)
       \/ \E p \in Prefixes : OtherCreate(p)
       \/ \E m \in Mails : OtherRemove(m)
    /\ UNCHANGED <<net, read>> /\ ServerStep
=============================================================================
