---------------------------- MODULE MockSequence ----------------------------
(***************************************************************************)
(* The response sequence of one mock endpoint: step 5 of _serve in         *)
(* api/mock_serve.py, and the edits of api/v1/mock_rules.py.               *)
(*                                                                         *)
(* The sequence and its steps are rows; the position is a Redis key of the *)
(* endpoint that lives an hour.  A request reads the sequence, the steps   *)
(* and the position, picks its step and writes the next position: four     *)
(* awaits, between which other requests and edits run.                     *)
(***************************************************************************)
EXTENDS Integers, FiniteSets

CONSTANTS Handlers,     \* requests that may be in flight at the same time
          MaxSteps,     \* bound: steps of a sequence
          MaxCalls,     \* bound: requests answered with a step
          MaxExpiries,  \* bound: times the key expires or is evicted
          MaxEdits,     \* bound: edits of the sequence
          MaxFailures   \* bound: calls of Redis that fail

ASSUME StepsArePositive == MaxSteps \in Nat \ {0}
ASSUME BoundsAreNumbers == /\ MaxCalls \in Nat /\ MaxExpiries \in Nat
                           /\ MaxEdits \in Nat /\ MaxFailures \in Nat

VARIABLES length, loop,  \* of the active sequence; length 0: none, or no steps
          ambiguous,     \* two sequences of the endpoint are active
          position,      \* value of the key; 0 when it is absent
          pc,            \* where each request is
          sawLoop, sawLength, current,  \* its locals
          expiries, edits,
          calls, last, seen,  \* history: answers, the last step given, all of them
          failed,        \* history: requests answered 500
          serial         \* history: no two requests have overlapped

sequence == <<length, loop, ambiguous>>
locals   == <<sawLoop, sawLength, current>>
history  == <<calls, last, seen, failed, serial>>
vars     == <<sequence, position, pc, locals, expiries, edits, history>>

Init ==
    /\ length \in 1..MaxSteps /\ loop \in BOOLEAN /\ ambiguous = FALSE
    /\ position = 0
    /\ pc = [h \in Handlers |-> "idle"]
    /\ sawLoop = [h \in Handlers |-> FALSE]
    /\ sawLength = [h \in Handlers |-> 0]
    /\ current = [h \in Handlers |-> 0]
    /\ expiries = 0 /\ edits = 0
    /\ calls = 0 /\ last = 0 /\ seen = {} /\ failed = 0 /\ serial = TRUE

Goto(h, place) == pc' = [pc EXCEPT ![h] = place]

\* get_active_sequence
Lookup(h) ==
    /\ pc[h] = "idle" /\ ~ambiguous /\ calls + Cardinality(Handlers) <= MaxCalls
    /\ sawLoop' = [sawLoop EXCEPT ![h] = loop]
    /\ sawLength' = [sawLength EXCEPT ![h] = length]
    /\ serial' = (serial /\ \A g \in Handlers : pc[g] = "idle")
    /\ Goto(h, "steps")
    /\ UNCHANGED <<sequence, position, current, expiries, edits, calls, last, seen, failed>>

\* get_sequence_steps: of the sequence found, whose steps an edit may have replaced
\* since, or left alone by making another one active.  Without steps the rules answer.
ReadSteps(h) ==
    /\ pc[h] = "steps"
    /\ \E n \in {sawLength[h], length} :
          /\ sawLength' = [sawLength EXCEPT ![h] = n]
          /\ Goto(h, IF n > 0 THEN "get" ELSE "idle")
    /\ UNCHANGED <<sequence, position, sawLoop, current, expiries, edits, history>>

\* redis_client.get
Get(h) ==
    /\ pc[h] = "get"
    /\ current' = [current EXCEPT ![h] = position]
    /\ Goto(h, "set")
    /\ UNCHANGED <<sequence, position, sawLoop, sawLength, expiries, edits, history>>

\* steps[current_step], or the last one.
Picked(p, n) == IF p < n THEN p ELSE n - 1

\* Deviation: the sequence starts again although it does not loop.
NextStep_loops(p, n, looping) == IF p + 1 < n THEN p + 1 ELSE 0

\* Deviation: one step too many.
NextStep_pastTheEnd(p, n, looping) ==
    IF p + 1 <= n THEN p + 1 ELSE IF looping THEN 0 ELSE n - 1

\* Deviation: a step is left out.
NextStep_skips(p, n, looping) ==
    IF p + 2 < n THEN p + 2 ELSE IF looping THEN 0 ELSE n - 1

NextStep(p, n, looping) ==
    IF p + 1 < n THEN p + 1 ELSE IF looping THEN 0 ELSE n - 1

\* redis_client.setex; the rest of the request changes nothing of this.
Advance(h) ==
    /\ pc[h] = "set"
    /\ position' = NextStep(current[h], sawLength[h], sawLoop[h])
    /\ last' = Picked(current[h], sawLength[h])
    /\ seen' = seen \cup {last'}
    /\ calls' = calls + 1
    /\ Goto(h, "idle")
    /\ UNCHANGED <<sequence, locals, expiries, edits, failed, serial>>

\* Redis is unreachable: the exception of GET or SETEX is not caught, the request
\* is answered 500, and the SETEX may have happened.
RedisFails(h) ==
    /\ failed < MaxFailures /\ failed' = failed + 1
    /\ pc[h] \in {"get", "set"}
    /\ \/ UNCHANGED position
       \/ /\ pc[h] = "set"
          /\ position' = NextStep(current[h], sawLength[h], sawLoop[h])
    /\ Goto(h, "idle")
    /\ UNCHANGED <<sequence, locals, expiries, edits, calls, last, seen, serial>>

\* scalar_one_or_none raises when two sequences are active.
LookupFails(h) ==
    /\ failed < MaxFailures /\ failed' = failed + 1
    /\ pc[h] = "idle" /\ ambiguous
    /\ UNCHANGED <<sequence, position, pc, locals, expiries, edits, calls, last, seen, serial>>

\* An hour without a request, or an eviction.
Expire ==
    /\ expiries < MaxExpiries /\ expiries' = expiries + 1
    /\ position' = 0
    /\ UNCHANGED <<sequence, pc, locals, edits, history>>

\* update_sequence, create_sequence, delete_sequence: the position stays, and
\* nothing keeps a second sequence from being active.
Edit ==
    /\ edits < MaxEdits /\ edits' = edits + 1
    /\ length' \in 0..MaxSteps /\ loop' \in BOOLEAN /\ ambiguous' \in BOOLEAN
    /\ UNCHANGED <<position, pc, locals, expiries, history>>

Serve(h) == Lookup(h) \/ ReadSteps(h) \/ Get(h) \/ Advance(h)
            \/ RedisFails(h) \/ LookupFails(h)

Next == (\E h \in Handlers : Serve(h)) \/ Expire \/ Edit

Spec == Init /\ [][Next]_vars

-----------------------------------------------------------------------------

TypeOK ==
    /\ length \in 0..MaxSteps /\ loop \in BOOLEAN /\ ambiguous \in BOOLEAN
    /\ position \in 0..(MaxSteps - 1)
    /\ pc \in [Handlers -> {"idle", "steps", "get", "set"}]
    /\ sawLoop \in [Handlers -> BOOLEAN]
    /\ sawLength \in [Handlers -> 0..MaxSteps]
    /\ current \in [Handlers -> 0..(MaxSteps - 1)]
    /\ expiries \in Nat /\ edits \in Nat /\ calls \in Nat /\ failed \in Nat
    /\ serial \in BOOLEAN
    /\ last \in 0..(MaxSteps - 1) /\ seen \in SUBSET (0..(MaxSteps - 1))
    /\ \A h \in Handlers : pc[h] \in {"get", "set"} => sawLength[h] > 0

\* "returned in order": however requests overlap and whenever the key expires, a
\* step is only given after the one before it was.  An edit keeps the position,
\* and a failed SETEX may have advanced it: those may skip.
NoStepSkipped ==
    edits = 0 /\ failed = 0 => \A p \in seen : 0..p \subseteq seen

\* The i-th answer of a sequence of n steps.
Reference(i, n, looping) ==
    IF looping THEN i % n ELSE IF i < n THEN i ELSE n - 1

\* "one per request": requests that do not overlap get the steps in order, over
\* and over when the sequence loops, up to the last one when it does not.
SuccessiveCallsInOrder ==
    serial /\ expiries + edits + failed = 0 /\ calls > 0
        => last = Reference(calls - 1, length, loop)
=============================================================================
