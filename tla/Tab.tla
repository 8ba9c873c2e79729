-------------------------------- MODULE Tab --------------------------------
(***************************************************************************)
(* What every page of the dashboard is built on: one browser tab, which    *)
(* shows one page at a time, and the requests its pages have in flight.    *)
(*                                                                         *)
(* A request is sent, the server acts on it at some later moment, and its  *)
(* answer reaches the page later still.  Nothing orders two requests, on   *)
(* the way out or on the way back, and nothing cancels one: a page that    *)
(* has been left behind still has its mutations carried out, and the code  *)
(* that follows their `await` still runs.  Its state updates go nowhere    *)
(* then (React drops them), but a router.push or replace takes effect.     *)
(***************************************************************************)
EXTENDS Naturals, FiniteSets, Functions

CONSTANTS
    MaxInFlight,   \* bound: requests in flight at a time
    MaxMishaps,    \* bound: requests that fail, and changes made by somebody else
    None           \* null

ASSUME TabAssumption == MaxInFlight \in Nat \ {0} /\ MaxMishaps \in Nat

VARIABLES
    page,      \* the route on screen
    net,       \* the requests in flight, answered or not
    mishaps    \* failures and foreign changes so far

(* net is a function from the ids in use to requests: what is asked for     *)
(* (op), for which argument, how far it is (at), the answer, and whether    *)
(* the component that sent it is still mounted (home).  "picked" is a       *)
(* server transaction that has read and not yet written.                    *)
Stages == {"sent", "picked", "ok", "failed"}

IdsOf(Ops) == Ops \X (1..MaxInFlight)

\* How many more requests the bound leaves room for.
Room(S, k) == Cardinality(DOMAIN S) + k <= MaxInFlight

\* lib/api.ts request(): every call of a page goes through it.
Sent(S, op, arg) ==
    LET i == CHOOSE j \in IdsOf({op}) : j \notin DOMAIN S
        r == [op |-> op, arg |-> arg, at |-> "sent", ans |-> None, home |-> TRUE]
    IN  [j \in DOMAIN S \cup {i} |-> IF j = i THEN r ELSE S[j]]

\* The page has dealt with q.
Done(q) == Restrict(net, DOMAIN net \ {q})

Moved(q, at, ans) == [net EXCEPT ![q].at = at, ![q].ans = ans]

\* The server answers q: 2xx with a body, or an error the page sees as a throw.
Reply(q, ans) == net' = Moved(q, "ok", ans)
Refuse(q)     == net' = Moved(q, "failed", None)

\* The server did what q asks for, and the answer may still get lost.
Carry(q, ans) ==
    \/ Reply(q, ans) /\ UNCHANGED mishaps
    \/ mishaps < MaxMishaps /\ mishaps' = mishaps + 1 /\ Refuse(q)

\* q never reaches the server, or the server fails before it acts (5xx, 429).
Fail(q) ==
    /\ net[q].at = "sent"
    /\ mishaps < MaxMishaps
    /\ mishaps' = mishaps + 1
    /\ Refuse(q)

Answered(op) == {q \in DOMAIN net : net[q].op = op /\ net[q].at \in {"ok", "failed"}}
Pending(op)  == {q \in DOMAIN net : net[q].op = op /\ net[q].at \in {"sent", "picked"}}

\* The requests that outlive the page that sent them: the answer to any other
\* would only set the state of a component that is gone.
Orphaned(S, Lasting) ==
    [q \in {i \in DOMAIN S : S[i].op \in Lasting} |-> [S[q] EXCEPT !.home = FALSE]]
=============================================================================
