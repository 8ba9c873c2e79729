---------------------------- MODULE SmtpSession ----------------------------
(***************************************************************************)
(* The SMTP inbox: services/smtp_server.py, with the API calls that change *)
(* the boxes it stores mail in.                                            *)
(*                                                                         *)
(* AUTH, RCPT and DATA are handled in the controller's own thread by       *)
(* functions that never await, so each is one step.  What a connection     *)
(* learns is kept on its session object, which outlives a message; the     *)
(* API changes the boxes in between.  aiosmtpd is external: one successful *)
(* AUTH per connection, a new envelope after DATA, RSET or EHLO, no DATA   *)
(* without a RCPT.                                                         *)
(***************************************************************************)
EXTENDS Integers, FiniteSets, FiniteSetsExt

CONSTANTS Connections,
          Workspaces, Sandboxes,  \* boxes; a sandbox stands for its address too
          Strangers,              \* addresses of nobody here
          Users, Owner,           \* Owner[b]: workspaces.owner_id, sandboxes.user_id
          Counted,                \* Counted[u]: the boxes whose rows u's quota counts
          Limit,                  \* PLANS[owner.plan]["quotas"]["emails"]
          None,
          MaxTaken                \* bound: messages stored for one user

Boxes     == Workspaces \cup Sandboxes
Addresses == Sandboxes \cup Strangers

ASSUME BoxesAreDistinct == Workspaces \cap Sandboxes = {} /\ None \notin Boxes
ASSUME BoxesAreFinite   == IsFiniteSet(Boxes)
ASSUME StrangersHaveNoBox == Strangers \cap Boxes = {}
ASSUME OwnerIsFunction  == Owner \in [Boxes -> Users]
ASSUME OwnBoxesCount    == /\ Counted \in [Users -> SUBSET Boxes]
                           /\ \A b \in Boxes : b \in Counted[Owner[b]]
ASSUME BoundsAreNumbers == Limit \in Nat /\ MaxTaken \in Nat

VARIABLES state,       \* of a box: active, paused (is_active = false) or gone
          rows,        \* its emails received this month
          workspace, sandbox,  \* session.workspace_id, session.sandbox_id
          login,       \* the account the connection authenticated as
          rcpts,       \* envelope.rcpt_tos
          verified,    \* history: sandboxes this connection was seen to address
          reach,       \* history: boxes active at some time of this connection
          last,        \* history: the message stored last, and what it came with
          taken        \* history: messages stored this month, by owner

boxes   == <<state, rows>>
session == <<workspace, sandbox, login>>
history == <<verified, reach, last, taken>>
vars    == <<boxes, session, rcpts, history>>

Active == {b \in Boxes : state[b] = "active"}
NoMail == [login |-> None, box |-> None, verified |-> {}, reach |-> {}]

Init ==
    /\ state = [b \in Boxes |-> "active"] /\ rows = [b \in Boxes |-> 0]
    /\ workspace = [c \in Connections |-> None]
    /\ sandbox = [c \in Connections |-> None]
    /\ login = [c \in Connections |-> None]
    /\ rcpts = [c \in Connections |-> {}]
    /\ verified = [c \in Connections |-> {}]
    /\ reach = [c \in Connections |-> Boxes]
    /\ last = NoMail /\ taken = [u \in Users |-> 0]

\* Deviation: the next connection of the peer finds the sandbox again.
NewSession_keepsSandbox(c) ==
    workspace' = [workspace EXCEPT ![c] = None] /\ UNCHANGED sandbox

NewSession(c) == /\ workspace' = [workspace EXCEPT ![c] = None]
                 /\ sandbox' = [sandbox EXCEPT ![c] = None]

\* The client leaves, and another one connects.
Reconnect(c) ==
    /\ NewSession(c)
    /\ login' = [login EXCEPT ![c] = None]
    /\ rcpts' = [rcpts EXCEPT ![c] = {}]
    /\ verified' = [verified EXCEPT ![c] = {}]
    /\ reach' = [reach EXCEPT ![c] = Active]
    /\ UNCHANGED <<boxes, last, taken>>

\* A workspace's credentials, whatever is_active would say of it.
AuthWorkspace(c, w) ==
    /\ login[c] = None /\ state[w] # "gone"
    /\ workspace' = [workspace EXCEPT ![c] = w]
    /\ login' = [login EXCEPT ![c] = w]
    /\ UNCHANGED <<boxes, sandbox, rcpts, history>>

\* Deviation: `and sandbox.is_active` is missing.
MayLogIn_paused(s) == state[s] # "gone"

MayLogIn(s) == state[s] = "active"

AuthSandbox(c, s) ==
    /\ login[c] = None /\ MayLogIn(s)
    /\ sandbox' = [sandbox EXCEPT ![c] = s]
    /\ login' = [login EXCEPT ![c] = s]
    /\ UNCHANGED <<boxes, workspace, rcpts, history>>

\* RSET or EHLO: the envelope is new, the session is not.
NewEnvelope(c) == rcpts' = [rcpts EXCEPT ![c] = {}]

Reset(c) == NewEnvelope(c) /\ UNCHANGED <<boxes, session, history>>

Known(c) == workspace[c] # None \/ sandbox[c] # None

\* handle_RCPT appends the address before it decides, and looks it up only on a
\* session that has no box yet.
RcptKnown(c, a) ==
    /\ Known(c)
    /\ rcpts' = [rcpts EXCEPT ![c] = @ \cup {a}]
    /\ UNCHANGED <<boxes, session, history>>

RcptFound(c, s) ==
    /\ ~Known(c) /\ s \in Active
    /\ rcpts' = [rcpts EXCEPT ![c] = @ \cup {s}]
    /\ sandbox' = [sandbox EXCEPT ![c] = s]
    /\ verified' = [verified EXCEPT ![c] = @ \cup {s}]
    /\ UNCHANGED <<boxes, workspace, login, reach, last, taken>>

\* 550: no active sandbox has the address, or the lookup failed.
RcptUnknown(c, a) ==
    /\ ~Known(c)
    /\ rcpts' = [rcpts EXCEPT ![c] = @ \cup {a}]
    /\ UNCHANGED <<boxes, session, history>>

\* Deviation: the sandbox comes first.
Target_sandboxFirst(c) == IF sandbox[c] # None THEN sandbox[c] ELSE workspace[c]

Target(c) == IF workspace[c] # None THEN workspace[c] ELSE sandbox[c]

Used(u) == MapThenSumSet(LAMBDA b : rows[b], Counted[u])

\* Deviation: one more is stored.
Exceeded_onceMore(u) == Used(u) > Limit

Exceeded(u) == Used(u) >= Limit

\* Deviation: rows of a deleted box are stored.
Referenced_unchecked(b) == TRUE

\* The foreign key of the stored row.
Referenced(b) == state[b] # "gone"

\* handle_DATA: the quota's count and the insert are one step of the only thread that
\* adds rows.
DataStored(c) ==
    LET b == Target(c) IN
    /\ rcpts[c] # {} /\ Known(c)
    /\ Referenced(b) /\ ~Exceeded(Owner[b]) /\ taken[Owner[b]] < MaxTaken
    /\ rows' = [rows EXCEPT ![b] = @ + 1]
    /\ taken' = [taken EXCEPT ![Owner[b]] = @ + 1]
    /\ last' = [login |-> login[c], box |-> b,
                verified |-> verified[c], reach |-> reach[c]]
    /\ NewEnvelope(c)
    /\ UNCHANGED <<state, session, verified, reach>>

\* 550 without a box, 452 past the quota, 451 when anything fails.
DataRefused(c) ==
    /\ rcpts[c] # {}
    /\ NewEnvelope(c)
    /\ UNCHANGED <<boxes, session, history>>

(* The API.                                                                *)

Pause(s) ==
    /\ state[s] = "active"
    /\ state' = [state EXCEPT ![s] = "paused"]
    /\ UNCHANGED <<rows, session, rcpts, history>>

Activate(s) ==
    /\ state[s] = "paused"
    /\ state' = [state EXCEPT ![s] = "active"]
    /\ reach' = [c \in Connections |-> reach[c] \cup {s}]
    /\ UNCHANGED <<rows, session, rcpts, verified, last, taken>>

\* delete_sandbox, delete_workspace: the emails go with the box.
DeleteBox(b) ==
    /\ state[b] # "gone"
    /\ state' = [state EXCEPT ![b] = "gone"]
    /\ rows' = [rows EXCEPT ![b] = 0]
    /\ UNCHANGED <<session, rcpts, history>>

\* An email is deleted, the inbox cleared, or retention purges it.
DeleteEmails(b) ==
    /\ rows[b] > 0
    /\ rows' \in {[rows EXCEPT ![b] = n] : n \in 0..(rows[b] - 1)}
    /\ UNCHANGED <<state, session, rcpts, history>>

Smtp(c) ==
    \/ Reconnect(c) \/ Reset(c) \/ DataStored(c) \/ DataRefused(c)
    \/ \E w \in Workspaces : AuthWorkspace(c, w)
    \/ \E s \in Sandboxes : AuthSandbox(c, s) \/ RcptFound(c, s)
    \/ \E a \in Addresses : RcptKnown(c, a) \/ RcptUnknown(c, a)

Api ==
    \/ \E s \in Sandboxes : Pause(s) \/ Activate(s)
    \/ \E b \in Boxes : DeleteBox(b) \/ DeleteEmails(b)

Next == (\E c \in Connections : Smtp(c)) \/ Api

Spec == Init /\ [][Next]_vars

-----------------------------------------------------------------------------

TypeOK ==
    /\ state \in [Boxes -> {"active", "paused", "gone"}]
    /\ rows \in [Boxes -> Nat]
    /\ workspace \in [Connections -> Workspaces \cup {None}]
    /\ sandbox \in [Connections -> Sandboxes \cup {None}]
    /\ login \in [Connections -> Boxes \cup {None}]
    /\ rcpts \in [Connections -> SUBSET Addresses]
    /\ verified \in [Connections -> SUBSET Sandboxes]
    /\ reach \in [Connections -> SUBSET Boxes]
    /\ last \in [login : Boxes \cup {None}, box : Boxes \cup {None},
                 verified : SUBSET Sandboxes, reach : SUBSET Boxes]
    /\ taken \in [Users -> Nat]
    /\ \A b \in Boxes : state[b] = "gone" => rows[b] = 0

\* Mail of a connection that logged in is stored in the box of that login and
\* nowhere else, also when the same connection addressed a sandbox before.
LoginMailStaysHome == last.login # None => last.box = last.login

\* Mail of a connection that never logged in is stored only in a sandbox which a
\* RCPT of that connection named while it was active, never in a workspace.
AnonymousMailWasAsked ==
    last.box # None /\ last.login = None => last.box \in last.verified

\* Pausing a sandbox takes effect for every connection opened later (one that is
\* open keeps its session, and goes on storing).
PauseStopsNewConnections ==
    last.box \in Sandboxes => last.box \in last.reach

\* No interleaving of connections stores more rows of a user's own boxes than
\* the plan allows.
QuotaHolds ==
    \A u \in Users :
        MapThenSumSet(LAMBDA b : rows[b], {b \in Boxes : Owner[b] = u}) <= Limit
=============================================================================
