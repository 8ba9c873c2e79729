---------------------------- MODULE Quota_proofs ----------------------------
(***************************************************************************)
(* Theorems about Quota, for any set of handlers, any limit and any number *)
(* of requests, evictions and failures.                                    *)
(***************************************************************************)
EXTENDS Quota, FiniteSetTheorems, TLAPS

\* A handler that goes to another place leaves or joins the set of handlers at
\* given places, and nobody else does.
LEMMA AtAfterGoto ==
    ASSUME TypeOK, NEW q \in Requests, NEW place \in Places, Goto(q, place),
           NEW S \in SUBSET Places
    PROVE  /\ Cardinality(At(S)) \in Nat /\ Cardinality(At(S))' \in Nat
           /\ Cardinality(At(S))' = Cardinality(At(S))
                + (IF place \in S THEN 1 ELSE 0) - (IF pc[q] \in S THEN 1 ELSE 0)
<1> DEFINE T == {r \in Requests : pc[r] \in S}
           U == {r \in Requests : pc'[r] \in S}
<1>1. Cardinality(At(S)) = Cardinality(T) /\ Cardinality(At(S))' = Cardinality(U)
  BY DEF At
<1>2. IsFiniteSet(T) /\ Cardinality(T) \in Nat
  BY RequestsAreFinite, FS_Subset, FS_CardinalityType
<1>3. q \in T <=> pc[q] \in S
  OBVIOUS
<1>4. CASE place \in S
  <2>1. U = T \cup {q}
    BY <1>4 DEF Goto, TypeOK
  <2> HIDE DEF T, U
  <2>2. Cardinality(T \cup {q}) = IF q \in T THEN Cardinality(T) ELSE Cardinality(T) + 1
    BY <1>2, FS_AddElement
  <2> QED
    BY <1>1, <1>2, <1>3, <1>4, <2>1, <2>2
<1>5. CASE place \notin S
  <2>1. U = T \ {q}
    BY <1>5 DEF Goto, TypeOK
  <2>2. q \in T => Cardinality(T) # 0
    BY <1>2, FS_EmptySet
  <2> HIDE DEF T, U
  <2>3. Cardinality(T \ {q}) = IF q \in T THEN Cardinality(T) - 1 ELSE Cardinality(T)
    BY <1>2, FS_RemoveElement
  <2> QED
    BY <1>1, <1>2, <1>3, <1>5, <2>1, <2>2, <2>3
<1> QED
  BY <1>4, <1>5

\* Where a decision leads.
LEMMA DecidePlace ==
    ASSUME NEW q \in Requests, NEW n, Decide(q, n)
    PROVE  /\ Allowed(n) => Goto(q, "serve") /\ granted' = granted + 1
           /\ ~Allowed(n) => Goto(q, "refused") /\ granted' = granted
BY DEF Decide

LEMMA Numbers ==
    ASSUME TypeOK
    PROVE  /\ \A n \in Nat : Charged(n) \in Nat /\ Reconciled(n) \in Nat \ {0}
           /\ \A n \in Nat : Replaced(n) \in Nat /\ Dropped(n) \in Nat
           /\ Limit \in Nat /\ Limit >= 1
BY LimitIsPositive DEF TypeOK, Charged, Reconciled, Replaced, Dropped

-----------------------------------------------------------------------------
(***************************************************************************)
(* Type correctness.                                                       *)
(***************************************************************************)

LEMMA InitType == Init => TypeOK
BY DEF Init, TypeOK, Places

LEMMA NextType == TypeOK /\ [Next]_vars => TypeOK'
<1> SUFFICES ASSUME TypeOK, [Next]_vars PROVE TypeOK'
  OBVIOUS
<1> USE Numbers DEF Places
<1>1. ASSUME NEW q \in Requests, Incr(q) PROVE TypeOK'
  <2>1. CASE counter = 0
    BY <1>1, <2>1 DEF TypeOK, Incr, Goto
  <2>2. CASE counter # 0
    BY <1>1, <2>2 DEF TypeOK, Incr, Goto, Decide
  <2> QED
    BY <2>1, <2>2
<1>2. ASSUME NEW q \in Requests, Count(q) PROVE TypeOK'
  <2>1. StoredRows \in Nat
    BY DEF TypeOK, StoredRows
  <2>2. Reconciled(StoredRows) \in Nat \ {0}
    BY <2>1
  <2> QED
    BY <1>2, <2>2 DEF TypeOK, Count, Goto, data, history
<1>3. ASSUME NEW q \in Requests, Set(q) PROVE TypeOK'
  <2>1. used[q] \in Nat
    BY DEF TypeOK
  <2>2. Replaced(used[q]) \in Nat /\ Dropped(Replaced(used[q])) \in Nat
    BY <2>1
  <2> QED
    BY <1>3, <2>2 DEF TypeOK, Set, Decide, Goto
<1>4. ASSUME NEW q \in Requests, Record(q) PROVE TypeOK'
  BY <1>4 DEF TypeOK, Record, Goto, history
<1>5. ASSUME NEW q \in Requests, Miss(q) PROVE TypeOK'
  BY <1>5 DEF TypeOK, Miss, Goto, data
<1>6. ASSUME NEW q \in Requests, Refuse(q) PROVE TypeOK'
  BY <1>6 DEF TypeOK, Refuse, Goto, data, history
<1>7. ASSUME NEW q \in Requests, Unavailable(q) PROVE TypeOK'
  <2>1. used[q] \in Nat
    BY DEF TypeOK
  <2>2. Replaced(used[q]) \in Nat /\ Dropped(Replaced(used[q])) \in Nat
    BY <2>1
  <2>3. /\ counter' = counter \/ counter' = Replaced(used[q])
        /\ forgotten' = forgotten \/ forgotten' = forgotten + Dropped(Replaced(used[q]))
        /\ arrivals' = arrivals \/ arrivals' = arrivals + 1
    BY <1>7 DEF Unavailable
  <2>4. serial' \in BOOLEAN
    <3>1. CASE serial' = (serial /\ Alone(q))
      BY <3>1
    <3>2. CASE serial' = serial
      BY <3>2 DEF TypeOK
    <3> QED
      BY <1>7, <3>1, <3>2 DEF Unavailable
  <2>5. /\ counter' \in Nat /\ forgotten' \in Nat /\ arrivals' \in Nat
    BY <2>2, <2>3 DEF TypeOK
  <2>6. /\ pc' = [pc EXCEPT ![q] = "serve"] /\ used' = used
        /\ own' = own /\ foreign' = foreign /\ evictions' = evictions /\ missed' = missed
        /\ failures' = failures + 1 /\ granted' = granted + 1 /\ unmetered' = unmetered + 1
    BY <1>7 DEF Unavailable, Goto
  <2> QED
    BY <2>4, <2>5, <2>6 DEF TypeOK
<1>8. ASSUME NEW q \in Requests, Die(q) PROVE TypeOK'
  BY <1>8 DEF TypeOK, Die, Goto, data, history
<1>9. CASE Evict
  BY <1>9 DEF TypeOK, Evict
<1>10. CASE Purge
  BY <1>10 DEF TypeOK, Purge, history
<1>11. CASE StoreForeign
  BY <1>11 DEF TypeOK, StoreForeign, history
<1>12. CASE UNCHANGED vars
  BY <1>12 DEF TypeOK, vars, data, history
<1> QED
  BY <1>1, <1>2, <1>3, <1>4, <1>5, <1>6, <1>7, <1>8, <1>9, <1>10, <1>11, <1>12
  DEF Next, Handle

\* The state of the counter, the rows and the handlers is always well formed; a
\* handler that reconciles has counted at least its own unit (usage_service.py
\* consume_quota).
THEOREM TypeCorrect == Spec => []TypeOK
BY InitType, NextType, PTL DEF Spec

-----------------------------------------------------------------------------
(***************************************************************************)
(* Admissions.                                                             *)
(***************************************************************************)

Pending == {"count", "set"}

LEMMA InitAccounted == Init => AdmissionsAccountedFor
<1> SUFFICES ASSUME Init PROVE AdmissionsAccountedFor
  OBVIOUS
<1>1. At({"count", "set"}) = {}
  BY DEF Init, At
<1> QED
  BY <1>1, FS_EmptySet, LimitIsPositive DEF Init, AdmissionsAccountedFor, Charged

\* While no handler moves, the number of those that reconcile stays.
LEMMA AtUnchanged ==
    ASSUME TypeOK, pc' = pc, NEW S
    PROVE  /\ At(S)' = At(S)
           /\ Cardinality(At(S)) \in Nat
<1>1. At(S) \in SUBSET Requests
  BY DEF At
<1> QED
  BY <1>1, RequestsAreFinite, FS_Subset, FS_CardinalityType DEF At

LEMMA NextAccounted ==
    TypeOK /\ AdmissionsAccountedFor /\ [Next]_vars => AdmissionsAccountedFor'
<1> SUFFICES ASSUME TypeOK, AdmissionsAccountedFor, [Next]_vars
             PROVE  AdmissionsAccountedFor'
  OBVIOUS
<1> DEFINE waiting == Cardinality(At({"count", "set"}))
<1>a. granted + waiting <= Charged(counter) + forgotten + unmetered
  BY DEF AdmissionsAccountedFor
<1>b. SUFFICES granted' + waiting' <= Charged(counter)' + forgotten' + unmetered'
  BY DEF AdmissionsAccountedFor
<1>c. /\ granted \in Nat /\ counter \in Nat /\ forgotten \in Nat /\ unmetered \in Nat
      /\ Limit \in Nat /\ Limit >= 1
  BY LimitIsPositive DEF TypeOK
\* What a handler's move does to the number of waiting ones.
<1>d. ASSUME NEW q \in Requests, NEW place \in Places, Goto(q, place)
      PROVE  /\ waiting \in Nat /\ waiting' \in Nat
             /\ waiting' = waiting + (IF place \in Pending THEN 1 ELSE 0)
                                   - (IF pc[q] \in Pending THEN 1 ELSE 0)
  BY <1>d, AtAfterGoto DEF Pending, Places
<1>e. ASSUME pc' = pc PROVE waiting' = waiting /\ waiting \in Nat
  BY <1>e, AtUnchanged
<1> HIDE DEF waiting
\* The slack that a replaced counter leaves is never less than before.
<1>f. ASSUME NEW n \in Nat
      PROVE  /\ Charged(n) + Dropped(n) >= Charged(counter)
             /\ Charged(n) + Dropped(n) >= Charged(n)
             /\ Charged(n) \in Nat /\ Dropped(n) \in Nat /\ Charged(counter) \in Nat
  BY <1>c DEF Charged, Dropped
<1>1. ASSUME NEW q \in Requests, Incr(q) PROVE <1>b!1
  <2>1. CASE counter = 0
    <3>1. Goto(q, "count")
      BY <1>1, <2>1 DEF Incr
    <3>2. waiting' = waiting + 1 /\ waiting \in Nat
      BY <1>d, <1>1, <3>1 DEF Incr, Places, Pending
    <3> QED
      BY <1>1, <2>1, <3>2, <1>a, <1>c DEF Incr, Charged
  <2>2. CASE counter # 0
    <3>1. Decide(q, counter + 1)
      BY <1>1, <2>2 DEF Incr
    <3>2. waiting' = waiting /\ waiting \in Nat
      BY <1>d, <1>1, <3>1, DecidePlace DEF Incr, Places, Pending
    <3> QED
      BY <1>1, <2>2, <3>1, <3>2, <1>a, <1>c DEF Incr, Charged, Decide, Allowed
  <2> QED
    BY <2>1, <2>2
<1>2. ASSUME NEW q \in Requests, Count(q) PROVE <1>b!1
  <2>1. waiting' = waiting /\ waiting \in Nat
    BY <1>d, <1>2 DEF Count, Places, Pending
  <2> QED
    BY <1>2, <2>1, <1>a, <1>c DEF Count, data, history, Charged
<1>3. ASSUME NEW q \in Requests, Set(q) PROVE <1>b!1
  <2>1. used[q] \in Nat /\ used[q] >= 1
    BY <1>3 DEF TypeOK, Set
  <2> DEFINE n == Replaced(used[q])
  <2>2. n \in Nat /\ counter' = n /\ forgotten' = forgotten + Dropped(n)
    BY <1>3, <2>1, <1>c DEF Set, Replaced
  <2>3. /\ waiting' = waiting - 1 /\ waiting \in Nat
    BY <1>d, <1>3, DecidePlace DEF Set, Places, Pending
  <2>4. granted' \in {granted, granted + 1}
    BY <1>3 DEF Set, Decide
  <2>5. Charged(counter)' = Charged(n)
    BY <2>2 DEF Charged
  <2>6. unmetered' = unmetered
    BY <1>3 DEF Set
  <2> HIDE DEF n
  <2> QED
    BY <2>2, <2>3, <2>4, <2>5, <2>6, <1>a, <1>c, <1>f
<1>4. ASSUME NEW q \in Requests, Record(q) \/ Miss(q) \/ Refuse(q) PROVE <1>b!1
  <2>1. waiting' = waiting /\ waiting \in Nat
    BY <1>d, <1>4 DEF Record, Miss, Refuse, Places, Pending
  <2> QED
    BY <1>4, <2>1, <1>a, <1>c DEF Record, Miss, Refuse, data, history, Charged
<1>5. ASSUME NEW q \in Requests, Unavailable(q) PROVE <1>b!1
  <2>1. Goto(q, "serve") /\ granted' = granted + 1 /\ unmetered' = unmetered + 1
    BY <1>5 DEF Unavailable
  <2>2. waiting \in Nat /\ waiting' \in Nat /\ waiting' <= waiting
    BY <1>d, <2>1 DEF Places, Pending
  <2>3. CASE counter' = counter /\ forgotten' = forgotten
    <3>1. Charged(counter)' = Charged(counter) /\ Charged(counter) \in Nat
      BY <2>3, <1>c DEF Charged
    <3> QED
      BY <2>1, <2>2, <2>3, <3>1, <1>a, <1>c
  <2>4. CASE /\ pc[q] = "set" /\ counter' = Replaced(used[q])
             /\ forgotten' = forgotten + Dropped(Replaced(used[q]))
    <3>1. Replaced(used[q]) \in Nat
      BY <1>c DEF TypeOK, Replaced
    <3>2. Charged(counter)' = Charged(Replaced(used[q]))
      BY <2>4 DEF Charged
    <3> QED
      BY <2>1, <2>2, <2>4, <3>1, <3>2, <1>a, <1>c, <1>f
  <2> QED
    BY <1>5, <2>3, <2>4 DEF Unavailable
<1>6. ASSUME NEW q \in Requests, Die(q) PROVE <1>b!1
  <2>1. waiting \in Nat /\ waiting' \in Nat /\ waiting' <= waiting
    BY <1>d, <1>6 DEF Die, Places, Pending
  <2>2. Charged(counter)' = Charged(counter) /\ Charged(counter) \in Nat
    BY <1>6, <1>c DEF Die, data, Charged
  <2> QED
    BY <1>6, <2>1, <2>2, <1>a, <1>c DEF Die, history
<1>7. CASE Evict
  BY <1>7, <1>a, <1>c, <1>e DEF Evict, Charged
<1>8. CASE Purge \/ StoreForeign \/ UNCHANGED vars
  BY <1>8, <1>a, <1>c, <1>e DEF Purge, StoreForeign, vars, data, history, Charged
<1> QED
  BY <1>1, <1>2, <1>3, <1>4, <1>5, <1>6, <1>7, <1>8 DEF Next, Handle

\* However many handlers interleave, every unit admitted beyond the limit is one
\* that an eviction or a SET dropped or that a failing call let through.
THEOREM AdmissionsAreBounded == Spec => []AdmissionsAccountedFor
BY InitType, NextType, InitAccounted, NextAccounted, PTL DEF Spec

-----------------------------------------------------------------------------
(***************************************************************************)
(* Refusals.                                                               *)
(***************************************************************************)

Admitted == {"count", "set", "serve"}

\* Every row has an arrival behind it, which no handler still in flight shares,
\* so neither the counter nor what a handler read of it exceeds what was asked for.
CountsWhatWasAskedFor ==
    /\ own + Cardinality(At({"count", "set", "serve"})) <= arrivals
    /\ counter <= arrivals + foreign
    /\ \A q \in Requests :
         /\ pc[q] \in {"count", "set", "refused"} => used[q] <= arrivals + foreign
         /\ pc[q] = "refused" => used[q] > Limit

LEMMA InitAskedFor == Init => CountsWhatWasAskedFor
<1> SUFFICES ASSUME Init PROVE CountsWhatWasAskedFor
  OBVIOUS
<1>1. At({"count", "set", "serve"}) = {}
  BY DEF Init, At
<1> QED
  BY <1>1, FS_EmptySet DEF Init, CountsWhatWasAskedFor

LEMMA NextAskedFor ==
    TypeOK /\ CountsWhatWasAskedFor /\ [Next]_vars => CountsWhatWasAskedFor'
<1> SUFFICES ASSUME TypeOK, CountsWhatWasAskedFor, [Next]_vars
             PROVE  CountsWhatWasAskedFor'
  OBVIOUS
<1> DEFINE busy  == Cardinality(At({"count", "set", "serve"}))
           asked == arrivals + foreign
           Reads(q) == /\ pc[q] \in {"count", "set", "refused"} => used[q] <= asked
                       /\ pc[q] = "refused" => used[q] > Limit
<1>g. own + busy <= arrivals
  BY DEF CountsWhatWasAskedFor
<1>a. counter <= asked /\ \A q \in Requests : Reads(q)
  BY DEF CountsWhatWasAskedFor
<1>b. SUFFICES /\ own' + busy' <= arrivals' /\ counter' <= asked'
               /\ \A q \in Requests : Reads(q)'
  BY DEF CountsWhatWasAskedFor
<1>c. /\ own \in Nat /\ counter \in Nat /\ arrivals \in Nat /\ foreign \in Nat
      /\ used \in [Requests -> Nat] /\ pc \in [Requests -> Places]
      /\ Limit \in Nat /\ Limit >= 1
  BY LimitIsPositive DEF TypeOK
<1>h. own \in Nat /\ arrivals \in Nat
  BY DEF TypeOK
<1>d. ASSUME NEW q \in Requests, NEW place \in Places, Goto(q, place)
      PROVE  /\ busy \in Nat /\ busy' \in Nat
             /\ busy' = busy + (IF place \in Admitted THEN 1 ELSE 0)
                             - (IF pc[q] \in Admitted THEN 1 ELSE 0)
  BY <1>d, AtAfterGoto DEF Admitted, Places
<1>e. ASSUME pc' = pc PROVE busy' = busy /\ busy \in Nat
  BY <1>e, AtUnchanged
<1>f. busy \in Nat
  <2>1. At({"count", "set", "serve"}) \in SUBSET Requests
    BY DEF At
  <2> QED
    BY <2>1, RequestsAreFinite, FS_Subset, FS_CardinalityType
<1> HIDE DEF busy
<1>1. ASSUME NEW q \in Requests, Incr(q) PROVE <1>b!1
  <2>1. \E place \in {"count", "serve", "refused"} :
            Goto(q, place) /\ (place = "refused" => counter + 1 > Limit)
    <3>1. CASE counter = 0
      BY <1>1, <3>1 DEF Incr
    <3>2. CASE counter # 0
      <4>1. Decide(q, counter + 1)
        BY <1>1, <3>2 DEF Incr
      <4> QED
        BY <4>1, DecidePlace, <1>c DEF Allowed
    <3> QED
      BY <3>1, <3>2
  <2>2. PICK place \in {"count", "serve", "refused"} :
            Goto(q, place) /\ (place = "refused" => counter + 1 > Limit)
    BY <2>1
  <2>3. busy' = busy \/ busy' = busy + 1
    <3>1. place \in Places /\ pc[q] \notin Admitted
      BY <1>1 DEF Incr, Places, Admitted
    <3>2. /\ busy' \in Nat
          /\ busy' = busy + (IF place \in Admitted THEN 1 ELSE 0)
                          - (IF pc[q] \in Admitted THEN 1 ELSE 0)
      BY <1>d, <2>2, <3>1
    <3> QED
      BY <1>f, <3>1, <3>2
  <2>4. own' + busy' <= arrivals'
    BY <1>1, <2>3, <1>g, <1>h, <1>f DEF Incr
  <2>6. counter' <= asked'
    BY <1>1, <1>a, <1>c DEF Incr
  <2>5. ASSUME NEW r \in Requests PROVE Reads(r)'
    BY <1>1, <2>2, <1>a, <1>c DEF Incr, Goto
  <2> QED
    BY <2>4, <2>5, <2>6
<1>2. ASSUME NEW q \in Requests, Count(q) PROVE <1>b!1
  <2>1. busy' = busy
    BY <1>d, <1>2 DEF Count, Places, Admitted
  <2>2. busy >= 1
    <3>1. q \in At({"count", "set", "serve"})
      BY <1>2 DEF Count, At
    <3>2. IsFiniteSet(At({"count", "set", "serve"}))
      BY RequestsAreFinite, FS_Subset DEF At
    <3> QED
      BY <3>1, <3>2, <1>f, FS_EmptySet DEF busy
  <2>3. Reconciled(StoredRows) <= asked
    BY <2>2, <1>g, <1>c, <1>f DEF Reconciled, StoredRows
  <2>4. ASSUME NEW r \in Requests PROVE Reads(r)'
    BY <1>2, <2>3, <1>a, <1>c DEF Count, Goto, data, history
  <2> QED
    BY <1>2, <2>1, <2>4, <1>a, <1>g, <1>c DEF Count, data, history
<1>3. ASSUME NEW q \in Requests, Set(q) PROVE <1>b!1
  <2>1. \E place \in {"serve", "refused"} :
            Goto(q, place) /\ (place = "refused" => used[q] > Limit)
    BY <1>3, <1>c DEF Set, Decide, Allowed
  <2>2. PICK place \in {"serve", "refused"} :
            Goto(q, place) /\ (place = "refused" => used[q] > Limit)
    BY <2>1
  <2>3. busy' = busy \/ busy' = busy - 1
    BY <1>d, <1>f, <1>3, <2>2 DEF Set, Places, Admitted
  <2>4. counter' <= asked'
    BY <1>3, <1>a, <1>c DEF Set, Replaced
  <2>5. ASSUME NEW r \in Requests PROVE Reads(r)'
    BY <1>3, <2>2, <1>a, <1>c DEF Set, Goto
  <2>6. own' = own /\ arrivals' = arrivals
    BY <1>3 DEF Set
  <2>7. own' + busy' <= arrivals'
    BY <2>3, <2>6, <1>g, <1>h, <1>f
  <2> QED
    BY <2>4, <2>5, <2>7
<1>4. ASSUME NEW q \in Requests, Record(q) PROVE <1>b!1
  <2>1. busy' = busy - 1
    BY <1>d, <1>4 DEF Record, Places, Admitted
  <2>2. ASSUME NEW r \in Requests PROVE Reads(r)'
    BY <1>4, <1>a, <1>c DEF Record, Goto, history
  <2> QED
    BY <1>4, <2>1, <2>2, <1>a, <1>g, <1>c, <1>f DEF Record, history
<1>5. ASSUME NEW q \in Requests, Miss(q) \/ Refuse(q) \/ Die(q) PROVE <1>b!1
  <2>1. Goto(q, "idle")
    BY <1>5 DEF Miss, Refuse, Die
  <2>2. busy' = busy \/ busy' = busy - 1
    BY <1>d, <2>1, <1>f DEF Places, Admitted
  <2>3. /\ own' = own /\ counter' = counter /\ foreign' = foreign
        /\ arrivals' = arrivals /\ used' = used
    BY <1>5 DEF Miss, Refuse, Die, data, history
  <2>4. ASSUME NEW r \in Requests PROVE Reads(r)'
    BY <2>1, <2>3, <1>a, <1>c DEF Goto
  <2>5. own' + busy' <= arrivals'
    BY <2>2, <2>3, <1>g, <1>h, <1>f
  <2>6. counter' <= asked'
    BY <2>3, <1>a
  <2> QED
    BY <2>4, <2>5, <2>6
<1>6. ASSUME NEW q \in Requests, Unavailable(q) PROVE <1>b!1
  <2>1. /\ Goto(q, "serve") /\ own' = own /\ foreign' = foreign /\ used' = used
        /\ \/ pc[q] = "idle" /\ arrivals' = arrivals + 1
           \/ pc[q] \in {"count", "set"} /\ arrivals' = arrivals
        /\ \/ counter' = counter
           \/ pc[q] = "set" /\ counter' = Replaced(used[q])
    BY <1>6 DEF Unavailable
  <2>2. own' + busy' <= arrivals'
    BY <1>d, <2>1, <1>g, <1>c, <1>f DEF Places, Admitted
  <2>3. counter' <= asked'
    BY <2>1, <1>a, <1>c DEF Replaced
  <2>4. ASSUME NEW r \in Requests PROVE Reads(r)'
    BY <2>1, <1>a, <1>c DEF Goto
  <2> QED
    BY <2>2, <2>3, <2>4
<1>7. CASE Evict
  BY <1>7, <1>a, <1>g, <1>c, <1>e DEF Evict
<1>8. CASE Purge
  BY <1>8, <1>a, <1>g, <1>c, <1>e DEF Purge, history
<1>9. CASE StoreForeign
  BY <1>9, <1>a, <1>g, <1>c, <1>e DEF StoreForeign, history
<1>10. CASE UNCHANGED vars
  BY <1>10, <1>a, <1>g, <1>c, <1>e DEF vars, data, history
<1> QED
  BY <1>1, <1>2, <1>3, <1>4, <1>5, <1>6, <1>7, <1>8, <1>9, <1>10 DEF Next, Handle

LEMMA AskedForMeansNotEarly ==
    TypeOK /\ CountsWhatWasAskedFor => NobodyIsRefusedEarly
BY LimitIsPositive DEF TypeOK, CountsWhatWasAskedFor, NobodyIsRefusedEarly, At

\* Nobody is refused before more than Limit units were asked for, whatever was
\* evicted, reconciled twice or lost.
THEOREM RefusalsAreEarned == Spec => []NobodyIsRefusedEarly
BY InitType, NextType, InitAskedFor, NextAskedFor, AskedForMeansNotEarly, PTL DEF Spec

-----------------------------------------------------------------------------
(***************************************************************************)
(* Requests that never overlap.                                            *)
(***************************************************************************)

\* The rows, with the one a handler is about to store.
Held(q) == own + (IF pc[q] = "serve" THEN 1 ELSE 0)

Reconciling == \E q \in Requests : pc[q] \in {"count", "set"}

\* At most one handler is in flight.  The counter trails the rows by one unit at
\* most, except while that handler reconciles it; what it read then covers every
\* row.
OneInFlight == \A p, q \in Requests : pc[p] # "idle" /\ pc[q] # "idle" => p = q
TrailsByOne ==
    /\ own <= Limit + 1
    /\ \A q \in Requests : Held(q) <= Limit + 1
    /\ ~Reconciling /\ counter > 0 => /\ own <= counter + 1
                                      /\ \A q \in Requests : Held(q) <= counter + 1
    /\ \A q \in Requests : pc[q] = "set" => own <= used[q]

SerialInv == serial /\ failures = 0 => OneInFlight /\ TrailsByOne

LEMMA InitSerial == Init => SerialInv
BY LimitIsPositive DEF Init, SerialInv, OneInFlight, TrailsByOne, Held, Reconciling

\* Only a request that arrives alone keeps the history serial.
LEMMA ArrivesAlone ==
    ASSUME TypeOK, SerialInv, NEW h \in Requests, Incr(h), serial', failures' = 0
    PROVE  /\ \A q \in Requests : pc[q] = "idle"
           /\ TrailsByOne
<1>1. serial /\ Alone(h)
  BY Zenon DEF Incr
<1>2. pc[h] = "idle" /\ failures = 0
  BY DEF Incr
<1> QED
  BY <1>1, <1>2 DEF Alone, SerialInv

LEMMA NextSerial ==
    ASSUME TypeOK, SerialInv, [Next]_vars
    PROVE  SerialInv'
<1> SUFFICES ASSUME serial', failures' = 0 PROVE (OneInFlight /\ TrailsByOne)'
  BY DEF SerialInv
<1>a. /\ own \in Nat /\ counter \in Nat /\ foreign \in Nat /\ failures \in Nat
      /\ used \in [Requests -> Nat] /\ pc \in [Requests -> Places]
      /\ Limit \in Nat /\ Limit >= 1
      /\ \A q \in Requests : pc[q] \in {"count", "set"} => used[q] >= 1
  BY LimitIsPositive DEF TypeOK
<1>b. ASSUME serial, failures = 0 PROVE OneInFlight /\ TrailsByOne
  BY <1>b DEF SerialInv
<1> USE DEF OneInFlight, TrailsByOne, Held, Reconciling
<1>1. ASSUME NEW h \in Requests, Incr(h) PROVE (OneInFlight /\ TrailsByOne)'
  <2>1. TrailsByOne /\ \A q \in Requests : pc[q] = "idle"
    BY <1>1, ArrivesAlone
  <2>2. CASE counter = 0
    BY <1>1, <2>1, <2>2, <1>a DEF Incr, Goto
  <2>3. CASE counter # 0
    <3>1. CASE Allowed(counter + 1)
      <4>1. Goto(h, "serve") /\ counter + 1 <= Limit
        BY <1>1, <2>3, <3>1, DecidePlace DEF Incr, Allowed
      <4> QED
        BY <1>1, <2>1, <2>3, <4>1, <1>a DEF Incr, Goto
    <3>2. CASE ~Allowed(counter + 1)
      <4>1. Goto(h, "refused")
        BY <1>1, <2>3, <3>2, DecidePlace DEF Incr
      <4> QED
        BY <1>1, <2>1, <2>3, <4>1, <1>a DEF Incr, Goto
    <3> QED
      BY <3>1, <3>2
  <2> QED
    BY <2>2, <2>3
<1>2. ASSUME NEW h \in Requests, Count(h) PROVE (OneInFlight /\ TrailsByOne)'
  <2>1. own <= Reconciled(StoredRows) /\ Reconciled(StoredRows) \in Nat
    BY <1>a DEF Reconciled, StoredRows
  <2>2. OneInFlight /\ TrailsByOne
    BY <1>2, <1>b DEF Count, history
  <2> QED
    BY <1>2, <2>1, <2>2, <1>a DEF Count, Goto, data
<1>3. ASSUME NEW h \in Requests, Set(h) PROVE (OneInFlight /\ TrailsByOne)'
  <2>1. OneInFlight /\ TrailsByOne
    BY <1>3, <1>b DEF Set
  <2>2. own' = own /\ counter' = (IF used[h] > 1 THEN used[h] ELSE counter) /\ used' = used
    BY <1>3 DEF Set, Replaced
  <2>3. own <= used[h] /\ used[h] >= 1 /\ pc[h] = "set"
    BY <1>3, <1>a, <2>1 DEF Set
  <2>4. CASE Allowed(used[h])
    <3>1. Goto(h, "serve") /\ used[h] <= Limit
      BY <1>3, <2>4, DecidePlace DEF Set, Allowed
    <3> QED
      BY <2>1, <2>2, <2>3, <3>1, <1>a DEF Goto
  <2>5. CASE ~Allowed(used[h])
    <3>1. Goto(h, "refused")
      BY <1>3, <2>5, DecidePlace DEF Set
    <3> QED
      BY <2>1, <2>2, <2>3, <3>1, <1>a DEF Goto
  <2> QED
    BY <2>4, <2>5
<1>4. ASSUME NEW h \in Requests, Record(h) PROVE (OneInFlight /\ TrailsByOne)'
  <2>1. OneInFlight /\ TrailsByOne
    BY <1>4, <1>b DEF Record, history
  <2>2. pc[h] = "serve" /\ \A q \in Requests : q # h => pc[q] = "idle"
    BY <1>4, <2>1 DEF Record
  <2>3. own' <= Limit + 1 /\ (counter > 0 => own' <= counter + 1)
    BY <1>4, <2>1, <2>2, <1>a DEF Record
  <2>4. \A q \in Requests : pc'[q] = "idle"
    BY <1>4, <2>2, <1>a DEF Record, Goto
  <2> QED
    BY <1>4, <2>3, <2>4, <1>a DEF Record
<1>5. ASSUME NEW h \in Requests, Miss(h) \/ Refuse(h) PROVE (OneInFlight /\ TrailsByOne)'
  <2>1. OneInFlight /\ TrailsByOne
    BY <1>5, <1>b DEF Miss, Refuse, history
  <2>2. pc[h] \notin {"idle", "count", "set"} /\ \A q \in Requests : q # h => pc[q] = "idle"
    BY <1>5, <2>1 DEF Miss, Refuse
  <2>3. /\ \A q \in Requests : pc'[q] = "idle"
        /\ own' = own /\ counter' = counter
    BY <1>5, <2>2, <1>a DEF Miss, Refuse, Goto, data
  <2> QED
    BY <2>1, <2>2, <2>3, <1>a
<1>6. CASE (\E h \in Requests : Unavailable(h) \/ Die(h)) \/ Purge
  <2>1. failures' = failures + 1
    BY <1>6 DEF Unavailable, Die, Purge
  <2> QED
    BY <2>1, <1>a
<1>7. CASE Evict
  <2>1. OneInFlight /\ TrailsByOne
    BY <1>7, <1>b DEF Evict
  <2> QED
    BY <1>7, <2>1, <1>a DEF Evict
<1>8. CASE StoreForeign \/ UNCHANGED vars
  BY <1>8, <1>a, <1>b DEF StoreForeign, vars, data, history
<1> QED
  BY <1>1, <1>2, <1>3, <1>4, <1>5, <1>6, <1>7, <1>8 DEF Next, Handle

LEMMA SerialMeansOneOver == TypeOK /\ SerialInv => OneOverAtMost
BY DEF SerialInv, TrailsByOne, OneOverAtMost

\* Requests that never overlap and do not fail get at most one unit more than
\* the plan, however often the key is evicted.
THEOREM OneUnitOverAtMost == Spec => []OneOverAtMost
BY InitType, NextType, InitSerial, NextSerial, SerialMeansOneOver, PTL DEF Spec
=============================================================================
