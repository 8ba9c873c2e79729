------------------------- MODULE SmtpSession_proofs -------------------------
(***************************************************************************)
(* Theorems about SmtpSession, for any connections, boxes, users and       *)
(* limit.                                                                  *)
(***************************************************************************)
EXTENDS SmtpSession, FiniteSetTheorems, WellFoundedInduction, TLAPS

USE DEF Boxes, Addresses, boxes, session, history, vars

-----------------------------------------------------------------------------
(* Type correctness.                                                       *)

LEMMA InitTypeOK == Init => TypeOK
  BY BoxesAreDistinct DEF Init, TypeOK, NoMail

\* The steps of a connection: they change its own session and envelope, and one
\* of them stores a row.
LEMMA SmtpTypeOK ==
  ASSUME TypeOK, NEW c \in Connections, Smtp(c)
  PROVE  TypeOK'
  <1> USE BoxesAreDistinct, OwnerIsFunction
  <1>1. CASE Reconnect(c)
    BY <1>1 DEF Reconnect, NewSession, TypeOK, Active
  <1>2. CASE Reset(c)
    BY <1>2 DEF Reset, NewEnvelope, TypeOK
  <1>3. CASE DataStored(c)
    <2>1. Target(c) \in Boxes
      BY <1>3 DEF DataStored, Known, Target, TypeOK
    <2>2. rows' \in [Boxes -> Nat] /\ UNCHANGED <<state, session, verified, reach>>
      BY <1>3, <2>1 DEF DataStored, TypeOK
    <2>3. taken' \in [Users -> Nat]
      BY <1>3, <2>1 DEF DataStored, TypeOK
    <2>4. last' \in [login : Boxes \cup {None}, box : Boxes \cup {None},
                     verified : SUBSET Sandboxes, reach : SUBSET Boxes]
      BY <1>3, <2>1 DEF DataStored, TypeOK
    <2>5. /\ rcpts' \in [Connections -> SUBSET Addresses]
      BY <1>3 DEF DataStored, NewEnvelope, TypeOK
    <2>6. \A b \in Boxes : state'[b] = "gone" => rows'[b] = 0
      BY <1>3, <2>1 DEF DataStored, Referenced, TypeOK
    <2> QED
      BY <2>2, <2>3, <2>4, <2>5, <2>6 DEF TypeOK
  <1>4. CASE DataRefused(c)
    BY <1>4 DEF DataRefused, NewEnvelope, TypeOK
  <1>5. ASSUME NEW w \in Workspaces, AuthWorkspace(c, w)  PROVE TypeOK'
    BY <1>5 DEF AuthWorkspace, TypeOK
  <1>6. ASSUME NEW s \in Sandboxes, AuthSandbox(c, s)  PROVE TypeOK'
    BY <1>6 DEF AuthSandbox, TypeOK
  <1>7. ASSUME NEW s \in Sandboxes, RcptFound(c, s)  PROVE TypeOK'
    BY <1>7 DEF RcptFound, TypeOK
  <1>8. ASSUME NEW a \in Addresses, RcptKnown(c, a)  PROVE TypeOK'
    BY <1>8 DEF RcptKnown, TypeOK
  <1>9. ASSUME NEW a \in Addresses, RcptUnknown(c, a)  PROVE TypeOK'
    BY <1>9 DEF RcptUnknown, TypeOK
  <1> QED
    BY <1>1, <1>2, <1>3, <1>4, <1>5, <1>6, <1>7, <1>8, <1>9 DEF Smtp

\* The calls of the API change the boxes.
LEMMA ApiTypeOK ==
  ASSUME TypeOK, Api
  PROVE  TypeOK'
  <1>1. ASSUME NEW s \in Sandboxes, Pause(s)  PROVE TypeOK'
    BY <1>1 DEF Pause, TypeOK
  <1>2. ASSUME NEW s \in Sandboxes, Activate(s)  PROVE TypeOK'
    BY <1>2 DEF Activate, TypeOK
  <1>3. ASSUME NEW b \in Boxes, DeleteBox(b)  PROVE TypeOK'
    BY <1>3 DEF DeleteBox, TypeOK
  <1>4. ASSUME NEW b \in Boxes, DeleteEmails(b)  PROVE TypeOK'
    <2>1. PICK n \in 0..(rows[b] - 1) : rows' = [rows EXCEPT ![b] = n]
      BY <1>4 DEF DeleteEmails
    <2>2. rows' \in [Boxes -> Nat] /\ state[b] # "gone"
      BY <1>4, <2>1 DEF TypeOK, DeleteEmails
    <2> QED
      BY <1>4, <2>1, <2>2 DEF TypeOK, DeleteEmails
  <1> QED
    BY <1>1, <1>2, <1>3, <1>4 DEF Api

\* The type invariant, for every instance.
THEOREM TypeCorrect == Spec => []TypeOK
  <1>1. TypeOK /\ [Next]_vars => TypeOK'
    <2> SUFFICES ASSUME TypeOK, [Next]_vars  PROVE TypeOK'
      OBVIOUS
    <2>1. CASE UNCHANGED vars
      BY <2>1 DEF TypeOK
    <2> QED
      BY <2>1, SmtpTypeOK, ApiTypeOK DEF Next
  <1> QED
    BY <1>1, InitTypeOK, PTL DEF Spec

-----------------------------------------------------------------------------
(* What a session knows.                                                   *)

\* The session attributes agree with the login, and without a login the sandbox
\* is one that a RCPT found.
SessionIsLogin(c) ==
    /\ login[c] \in Workspaces => workspace[c] = login[c]
    /\ login[c] \in Sandboxes => workspace[c] = None /\ sandbox[c] = login[c]
    /\ login[c] = None => workspace[c] = None /\ sandbox[c] \in verified[c] \cup {None}

\* A connection only knows sandboxes that were active during it.
SessionIsReached(c) ==
    /\ Active \subseteq reach[c]
    /\ sandbox[c] # None => sandbox[c] \in reach[c]

SessionInv == \A c \in Connections : SessionIsLogin(c) /\ SessionIsReached(c)

StoredInv == LoginMailStaysHome /\ AnonymousMailWasAsked /\ PauseStopsNewConnections

LEMMA InitInv == Init => SessionInv /\ StoredInv
  BY BoxesAreDistinct
  DEF Init, NoMail, SessionInv, SessionIsLogin, SessionIsReached, Active, StoredInv,
      LoginMailStaysHome, AnonymousMailWasAsked, PauseStopsNewConnections

\* A step of one connection: the others keep their sessions, and the boxes do
\* not change state.
LEMMA SmtpSessionInv ==
  ASSUME TypeOK, SessionInv, NEW c \in Connections, Smtp(c)
  PROVE  SessionInv'
  <1> USE BoxesAreDistinct DEF SessionInv, SessionIsLogin, SessionIsReached, Active, TypeOK
  <1>1. CASE Reconnect(c)
    BY <1>1 DEF Reconnect, NewSession
  <1>2. CASE Reset(c)
    BY <1>2 DEF Reset
  <1>3. CASE DataStored(c)
    BY <1>3 DEF DataStored
  <1>4. CASE DataRefused(c)
    BY <1>4 DEF DataRefused
  <1>5. ASSUME NEW w \in Workspaces, AuthWorkspace(c, w)  PROVE SessionInv'
    BY <1>5 DEF AuthWorkspace
  <1>6. ASSUME NEW s \in Sandboxes, AuthSandbox(c, s)  PROVE SessionInv'
    BY <1>6 DEF AuthSandbox, MayLogIn
  <1>7. ASSUME NEW s \in Sandboxes, RcptFound(c, s)  PROVE SessionInv'
    BY <1>7 DEF RcptFound, Known
  <1>8. ASSUME NEW a \in Addresses, RcptKnown(c, a)  PROVE SessionInv'
    BY <1>8 DEF RcptKnown
  <1>9. ASSUME NEW a \in Addresses, RcptUnknown(c, a)  PROVE SessionInv'
    BY <1>9 DEF RcptUnknown
  <1> QED
    BY <1>1, <1>2, <1>3, <1>4, <1>5, <1>6, <1>7, <1>8, <1>9 DEF Smtp

\* The API never touches a session; a sandbox that becomes active is reached by
\* every open connection.
LEMMA ApiSessionInv ==
  ASSUME TypeOK, SessionInv, Api
  PROVE  SessionInv'
  <1> USE DEF SessionInv, SessionIsLogin, SessionIsReached, Active, TypeOK
  <1>1. ASSUME NEW s \in Sandboxes, Pause(s)  PROVE SessionInv'
    BY <1>1 DEF Pause
  <1>2. ASSUME NEW s \in Sandboxes, Activate(s)  PROVE SessionInv'
    BY <1>2 DEF Activate
  <1>3. ASSUME NEW b \in Boxes, DeleteBox(b)  PROVE SessionInv'
    BY <1>3 DEF DeleteBox
  <1>4. ASSUME NEW b \in Boxes, DeleteEmails(b)  PROVE SessionInv'
    BY <1>4 DEF DeleteEmails
  <1> QED
    BY <1>1, <1>2, <1>3, <1>4 DEF Api

\* Only DataStored stores, in the box its session knows.
LEMMA StepStoredInv ==
  ASSUME TypeOK, SessionInv, StoredInv, Next
  PROVE  StoredInv'
  <1> USE BoxesAreDistinct
      DEF StoredInv, LoginMailStaysHome, AnonymousMailWasAsked, PauseStopsNewConnections
  <1>1. CASE last' = last
    BY <1>1
  <1>2. ASSUME NEW c \in Connections, DataStored(c)  PROVE StoredInv'
    <2>1. last' = [login |-> login[c], box |-> Target(c),
                   verified |-> verified[c], reach |-> reach[c]]
      BY <1>2 DEF DataStored
    <2>2. SessionIsLogin(c) /\ SessionIsReached(c)
      BY DEF SessionInv
    <2>3. login[c] \in Boxes \cup {None} /\ Target(c) \in Boxes
      BY <1>2 DEF DataStored, Known, Target, TypeOK
    <2>4. login[c] # None => Target(c) = login[c]
      BY <2>2, <2>3 DEF SessionIsLogin, Target
    <2>5. login[c] = None => Target(c) \in verified[c]
      BY <2>2, <2>3 DEF SessionIsLogin, Target
    <2>6. Target(c) \in Sandboxes => Target(c) \in reach[c]
      BY <2>2, <2>3 DEF SessionIsReached, Target, TypeOK
    <2> QED
      BY <2>1, <2>4, <2>5, <2>6
  <1>3. last' = last \/ \E c \in Connections : DataStored(c)
    BY DEF Next, Smtp, Api, Reconnect, Reset, DataRefused, AuthWorkspace, AuthSandbox,
           RcptFound, RcptKnown, RcptUnknown, Pause, Activate, DeleteBox, DeleteEmails
  <1> QED
    BY <1>1, <1>2, <1>3

\* The three guarantees about stored mail, in one induction.
LEMMA StoredMail == Spec => [](SessionInv /\ StoredInv)
  <1>1. TypeOK /\ SessionInv /\ StoredInv /\ [Next]_vars => SessionInv' /\ StoredInv'
    <2> SUFFICES ASSUME TypeOK, SessionInv, StoredInv, [Next]_vars
                 PROVE  SessionInv' /\ StoredInv'
      OBVIOUS
    <2>1. CASE UNCHANGED vars
      BY <2>1
      DEF SessionInv, SessionIsLogin, SessionIsReached, Active, StoredInv,
          LoginMailStaysHome, AnonymousMailWasAsked, PauseStopsNewConnections
    <2>2. CASE Next
      BY <2>2, SmtpSessionInv, ApiSessionInv, StepStoredInv DEF Next
    <2> QED
      BY <2>1, <2>2
  <1> QED
    BY <1>1, InitInv, TypeCorrect, PTL DEF Spec

\* Mail of a connection that logged in goes to the box of its login.
THEOREM LoginDecides == Spec => []LoginMailStaysHome
  BY StoredMail, PTL DEF StoredInv

\* Mail of a connection that never logged in goes to a sandbox it addressed.
THEOREM AnonymousIsAddressed == Spec => []AnonymousMailWasAsked
  BY StoredMail, PTL DEF StoredInv

\* A paused sandbox receives nothing over a connection opened after the pause.
THEOREM PauseHolds == Spec => []PauseStopsNewConnections
  BY StoredMail, PTL DEF StoredInv

-----------------------------------------------------------------------------
(* Sums over finite sets.                                                  *)

\* A set of numbers has a least one.
LEMMA LeastNumber ==
  ASSUME NEW N, N \subseteq Nat, N # {}
  PROVE  \E k \in N : \A j \in N : k <= j
  <1> DEFINE below == OpToRel(<, Nat)
  <1>1. IsWellFoundedOn(below, Nat)
    BY NatLessThanWellFounded
  <1>2. \A j, k \in Nat : j < k => <<j, k>> \in below
    BY Zenon DEF OpToRel
  <1> HIDE DEF below
  <1>3. PICK k \in N : \A j \in N : ~(<<j, k>> \in below)
    BY ONLY <1>1, N \subseteq Nat, N # {}, WFMin
  <1>4. \A j \in N : j \in Nat /\ k \in Nat /\ ~(j < k)
    BY <1>2, <1>3
  <1>5. \A j \in N : k <= j
    BY <1>4
  <1> QED
    BY <1>5

\* Among some subsets of a finite set there is one that leaves them whichever of its
\* elements is removed.
LEMMA LeastSet ==
  ASSUME NEW B, IsFiniteSet(B), NEW C \in SUBSET SUBSET B, C # {}
  PROVE  \E T \in C : \A x \in T : T \ {x} \notin C
  <1> DEFINE N == {Cardinality(T) : T \in C}
  <1>1. \A T \in C : /\ Cardinality(T) \in Nat
                     /\ \A x \in T : Cardinality(T \ {x}) < Cardinality(T)
    <2> SUFFICES ASSUME NEW T \in C
                 PROVE  /\ Cardinality(T) \in Nat
                        /\ \A x \in T : Cardinality(T \ {x}) < Cardinality(T)
      OBVIOUS
    <2>1. IsFiniteSet(T)
      BY FS_Subset
    <2>2. Cardinality(T) \in Nat
      BY <2>1, FS_CardinalityType
    <2>3. \A x \in T : Cardinality(T \ {x}) = Cardinality(T) - 1
      BY <2>1, FS_RemoveElement
    <2> QED
      BY <2>2, <2>3
  <1>2. N \in SUBSET Nat /\ N # {}
    BY <1>1
  <1>3. PICK k \in N : \A j \in N : k <= j
    BY ONLY <1>2, LeastNumber
  <1>4. PICK T \in C : k = Cardinality(T)
    OBVIOUS
  <1>5. \A U \in C : Cardinality(T) <= Cardinality(U)
    BY <1>3, <1>4
  <1>6. ASSUME NEW x \in T, T \ {x} \in C PROVE FALSE
    <2>1. Cardinality(T) <= Cardinality(T \ {x})
      BY ONLY <1>5, <1>6
    <2>2. Cardinality(T \ {x}) < Cardinality(T)
      BY ONLY <1>1, <1>6, T \in C
    <2>3. Cardinality(T) \in Nat /\ Cardinality(T \ {x}) \in Nat
      BY ONLY <1>1, <1>6, T \in C
    <2> QED
      BY ONLY <2>1, <2>2, <2>3
  <1> QED
    BY <1>6

First(T) == CHOOSE x \in T : TRUE

SumOver(f, T) == MapThenSumSet(LAMBDA x : f[x], T)

\* g sums f over the sets of D, in the order the fold takes their elements.
IsSum(g, f, D) ==
  g = [T \in D |-> IF T = {} THEN 0 ELSE f[First(T)] + g[T \ {First(T)}]]

LEMMA SumIsChosen ==
  ASSUME NEW f, NEW T
  PROVE  SumOver(f, T) = (CHOOSE g : IsSum(g, f, SUBSET T))[T]
  BY DEF SumOver, MapThenSumSet, MapThenFoldSet, First, IsSum

\* The recursion has a solution: one for the sets of at most n elements gives one
\* for those of at most n + 1.
LEMMA SumExists ==
  ASSUME NEW B, IsFiniteSet(B), NEW f \in [B -> Nat]
  PROVE  \E g \in [SUBSET B -> Nat] : IsSum(g, f, SUBSET B)
  <1> DEFINE D(n) == {T \in SUBSET B : Cardinality(T) <= n}
             Solved(n) == \E g \in [D(n) -> Nat] : IsSum(g, f, D(n))
             Unsolved == {n \in Nat : ~Solved(n)}
  <1>1. \A T \in SUBSET B : /\ Cardinality(T) \in Nat
                            /\ Cardinality(T) <= Cardinality(B)
                            /\ Cardinality(T) = 0 => T = {}
                            /\ T # {} => First(T) \in T /\ f[First(T)] \in Nat
                            /\ \A x \in T : Cardinality(T \ {x}) = Cardinality(T) - 1
    <2> SUFFICES ASSUME NEW T \in SUBSET B
                 PROVE  /\ Cardinality(T) \in Nat
                        /\ Cardinality(T) <= Cardinality(B)
                        /\ Cardinality(T) = 0 => T = {}
                        /\ T # {} => First(T) \in T /\ f[First(T)] \in Nat
                        /\ \A x \in T : Cardinality(T \ {x}) = Cardinality(T) - 1
      OBVIOUS
    <2>1. IsFiniteSet(T) /\ Cardinality(T) <= Cardinality(B)
      BY FS_Subset
    <2>2. Cardinality(T) \in Nat
      BY <2>1, FS_CardinalityType
    <2>3. Cardinality(T) = 0 => T = {}
      BY <2>1, FS_EmptySet
    <2>4. T # {} => First(T) \in T
      BY DEF First
    <2>5. \A x \in T : Cardinality(T \ {x}) = Cardinality(T) - 1
      BY <2>1, FS_RemoveElement
    <2> QED
      BY <2>1, <2>2, <2>3, <2>4, <2>5
  <1>2. Solved(0)
    <2> DEFINE g == [T \in D(0) |-> 0]
    <2>1. \A T \in D(0) : T = {}
      BY <1>1
    <2>2. g \in [D(0) -> Nat] /\ IsSum(g, f, D(0))
      BY <2>1 DEF IsSum
    <2> QED
      BY <2>2
  <1>3. ASSUME NEW n \in Nat, Solved(n) PROVE Solved(n + 1)
    <2>1. PICK g \in [D(n) -> Nat] : IsSum(g, f, D(n))
      BY <1>3
    <2> DEFINE h == [T \in D(n + 1) |->
                       IF T = {} THEN 0 ELSE f[First(T)] + g[T \ {First(T)}]]
    <2>2. \A T \in D(n + 1) : T # {} => T \ {First(T)} \in D(n)
      BY <1>1
    <2>3. \A T \in D(n) : T \in D(n + 1) /\ h[T] = g[T]
      <3>1. \A T \in D(n) : T \in D(n + 1)
        BY <1>1
      <3>2. \A T \in D(n) :
              g[T] = IF T = {} THEN 0 ELSE f[First(T)] + g[T \ {First(T)}]
        BY <2>1 DEF IsSum
      <3> QED
        BY <3>1, <3>2
    <2>4. h \in [D(n + 1) -> Nat]
      BY <1>1, <2>2
    <2>5. IsSum(h, f, D(n + 1))
      BY <2>2, <2>3 DEF IsSum
    <2> QED
      BY <2>4, <2>5
  <1>4. ASSUME NEW n \in Nat PROVE Solved(n)
    <2> HIDE DEF Solved
    <2> SUFFICES ASSUME Unsolved # {} PROVE FALSE
      OBVIOUS
    <2>1. PICK m \in Unsolved : \A k \in Unsolved : m <= k
      BY LeastNumber
    <2>2. m \in Nat /\ m # 0 /\ ~Solved(m)
      BY <1>2
    <2>3. m - 1 \in Nat /\ (m - 1) + 1 = m
      BY <2>2
    <2>4. Solved(m - 1)
      BY <2>1, <2>3
    <2>5. Solved((m - 1) + 1)
      BY ONLY <2>3, <2>4, <1>3
    <2> QED
      BY <2>2, <2>3, <2>5
  <1>5. Cardinality(B) \in Nat /\ D(Cardinality(B)) = SUBSET B
    BY <1>1
  <1>6. Solved(Cardinality(B))
    BY ONLY <1>4, <1>5
  <1> QED
    BY <1>5, <1>6

\* The sum over a set does not depend on the larger set it is summed in.
LEMMA SumIsUnique ==
  ASSUME NEW B, IsFiniteSet(B), NEW f, NEW S \in SUBSET B,
         NEW g, IsSum(g, f, SUBSET B), NEW h, IsSum(h, f, SUBSET S)
  PROVE  h[S] = g[S]
  <1> DEFINE C == {T \in SUBSET S : h[T] # g[T]}
  <1> SUFFICES ASSUME C # {} PROVE FALSE
    OBVIOUS
  <1>1. IsFiniteSet(S) /\ C \in SUBSET SUBSET S
    BY FS_Subset
  <1>2. PICK T \in C : \A x \in T : T \ {x} \notin C
    BY ONLY <1>1, C # {}, LeastSet
  <1>3. T \in SUBSET S /\ T \in SUBSET B /\ h[T] # g[T]
    OBVIOUS
  <1>4. /\ h[T] = IF T = {} THEN 0 ELSE f[First(T)] + h[T \ {First(T)}]
        /\ g[T] = IF T = {} THEN 0 ELSE f[First(T)] + g[T \ {First(T)}]
    BY <1>3 DEF IsSum
  <1>5. T # {} => First(T) \in T
    BY DEF First
  <1> QED
    BY <1>2, <1>3, <1>4, <1>5

\* The sum is a number that satisfies the equation of the fold.
LEMMA SumEquation ==
  ASSUME NEW B, IsFiniteSet(B), NEW f \in [B -> Nat], NEW T \in SUBSET B
  PROVE  /\ SumOver(f, T) \in Nat
         /\ T = {} => SumOver(f, T) = 0
         /\ T # {} => /\ First(T) \in T
                      /\ SumOver(f, T) = f[First(T)] + SumOver(f, T \ {First(T)})
  <1>1. PICK g \in [SUBSET B -> Nat] : IsSum(g, f, SUBSET B)
    BY SumExists
  <1>2. ASSUME NEW S \in SUBSET B PROVE SumOver(f, S) = g[S]
    <2> DEFINE h == CHOOSE h : IsSum(h, f, SUBSET S)
               part == [U \in SUBSET S |-> g[U]]
    <2>1. \A U \in SUBSET S : U \in SUBSET B /\ U \ {First(U)} \in SUBSET S
      OBVIOUS
    <2>2. IsSum(part, f, SUBSET S)
      <3>1. \A U \in SUBSET S :
              part[U] = IF U = {} THEN 0 ELSE f[First(U)] + part[U \ {First(U)}]
        BY <1>1, <2>1 DEF IsSum
      <3> QED
        BY <3>1 DEF IsSum
    <2>3. IsSum(h, f, SUBSET S)
      BY <2>2
    <2> HIDE DEF h
    <2>4. h[S] = g[S]
      BY <1>1, <2>3, SumIsUnique
    <2> QED
      BY <2>4, SumIsChosen DEF h
  <1>3. First(T) \in T \/ T = {}
    BY DEF First
  <1>4. /\ g[T] \in Nat /\ SumOver(f, T) = g[T]
        /\ SumOver(f, T \ {First(T)}) = g[T \ {First(T)}]
    BY <1>1, <1>2
  <1> QED
    BY <1>1, <1>3, <1>4 DEF IsSum

\* Any element may be taken first.
LEMMA SumRemove ==
  ASSUME NEW B, IsFiniteSet(B), NEW f \in [B -> Nat]
  PROVE  \A T \in SUBSET B : \A x \in T :
           SumOver(f, T) = f[x] + SumOver(f, T \ {x})
  <1> DEFINE C == {T \in SUBSET B : \E x \in T : SumOver(f, T) # f[x] + SumOver(f, T \ {x})}
  <1> SUFFICES ASSUME C # {} PROVE FALSE
    OBVIOUS
  <1>1. PICK T \in C : \A x \in T : T \ {x} \notin C
    BY LeastSet
  <1>2. PICK x \in T : SumOver(f, T) # f[x] + SumOver(f, T \ {x})
    OBVIOUS
  <1> DEFINE p == First(T)
  <1>3. p \in T /\ SumOver(f, T) = f[p] + SumOver(f, T \ {p})
    BY SumEquation
  <1>4. p # x
    BY <1>2, <1>3
  <1>5. /\ SumOver(f, T \ {p}) = f[x] + SumOver(f, (T \ {p}) \ {x})
        /\ SumOver(f, T \ {x}) = f[p] + SumOver(f, (T \ {x}) \ {p})
    BY <1>1, <1>2, <1>3, <1>4
  <1>6. (T \ {p}) \ {x} = (T \ {x}) \ {p}
    OBVIOUS
  <1>7. f[p] \in Nat /\ f[x] \in Nat /\ SumOver(f, (T \ {x}) \ {p}) \in Nat
    BY <1>3, SumEquation
  <1> DEFINE rest == SumOver(f, (T \ {x}) \ {p})
  <1>8. SumOver(f, T) = f[p] + (f[x] + rest)
    BY ONLY <1>3, <1>5, <1>6
  <1>9. f[x] + SumOver(f, T \ {x}) = f[x] + (f[p] + rest)
    BY ONLY <1>5
  <1>10. f[p] + (f[x] + rest) = f[x] + (f[p] + rest)
    <2> HIDE DEF p, rest
    <2>1. \A a, b, c \in Nat : a + (b + c) = b + (a + c)
      OBVIOUS
    <2>2. rest \in Nat
      BY ONLY <1>7 DEF rest
    <2> QED
      BY ONLY <1>7, <2>1, <2>2
  <1> QED
    BY ONLY <1>2, <1>8, <1>9, <1>10

\* A sum over more elements, of larger numbers, is not less.
LEMMA SumMonotone ==
  ASSUME NEW B, IsFiniteSet(B), NEW f \in [B -> Nat], NEW h \in [B -> Nat]
  PROVE  \A T \in SUBSET B : \A U \in SUBSET T :
           (\A x \in U : f[x] <= h[x]) => SumOver(f, U) <= SumOver(h, T)
  <1> DEFINE Below(U) == \A x \in U : f[x] <= h[x]
             C == {T \in SUBSET B : 
                     \E U \in SUBSET T : Below(U) /\ ~(SumOver(f, U) <= SumOver(h, T))}
  <1> SUFFICES ASSUME C # {} PROVE FALSE
    OBVIOUS
  <1>1. PICK T \in C : \A x \in T : T \ {x} \notin C
    <2>1. C \in SUBSET SUBSET B
      OBVIOUS
    <2> HIDE DEF C
    <2> QED
      BY <2>1, LeastSet
  <1>2. PICK U \in SUBSET T : Below(U) /\ ~(SumOver(f, U) <= SumOver(h, T))
    OBVIOUS
  <1>3. \A S \in SUBSET B : SumOver(f, S) \in Nat /\ SumOver(h, S) \in Nat
    BY SumEquation
  <1>4. T # {}
    BY <1>2, <1>3, SumEquation
  <1>5. PICK x \in T : TRUE
    BY <1>4
  <1>6. SumOver(h, T) = h[x] + SumOver(h, T \ {x}) /\ h[x] \in Nat
    BY SumRemove
  <1>7. T \ {x} \in SUBSET B /\ U \ {x} \in SUBSET (T \ {x}) /\ Below(U \ {x})
    BY <1>2
  <1>8. SumOver(f, U \ {x}) <= SumOver(h, T \ {x})
    BY <1>1, <1>5, <1>7
  <1>9. /\ SumOver(f, U) \in Nat /\ SumOver(f, U \ {x}) \in Nat
        /\ SumOver(h, T) \in Nat /\ SumOver(h, T \ {x}) \in Nat
    BY <1>3, <1>7
  <1>10. CASE x \in U
    <2>1. SumOver(f, U) = f[x] + SumOver(f, U \ {x}) /\ f[x] \in Nat /\ f[x] <= h[x]
      BY <1>2, <1>10, SumRemove
    <2> QED
      BY ONLY <1>2, <1>6, <1>8, <1>9, <2>1
  <1>11. CASE x \notin U
    <2>1. U \ {x} = U
      BY <1>11
    <2> QED
      BY ONLY <1>2, <1>6, <1>8, <1>9, <2>1
  <1> QED
    BY <1>10, <1>11

\* One more in one place is at most one more in the sum.
LEMMA SumIncrement ==
  ASSUME NEW B, IsFiniteSet(B), NEW f \in [B -> Nat], NEW b \in B, NEW T \in SUBSET B
  PROVE  SumOver([f EXCEPT ![b] = @ + 1], T) <= SumOver(f, T) + 1
  <1> DEFINE h == [f EXCEPT ![b] = @ + 1]
  <1>1. h \in [B -> Nat] /\ h[b] = f[b] + 1 /\ \A x \in B \ {b} : h[x] = f[x]
    OBVIOUS
  <1> HIDE DEF h
  <1>2. SumOver(h, T \ {b}) <= SumOver(f, T \ {b})
    <2>1. T \ {b} \in SUBSET B /\ \A x \in T \ {b} : h[x] <= f[x]
      BY <1>1
    <2> QED
      BY ONLY IsFiniteSet(B), f \in [B -> Nat], <1>1, <2>1, SumMonotone
  <1>3. SumOver(h, T \ {b}) \in Nat /\ SumOver(f, T \ {b}) \in Nat /\ SumOver(f, T) \in Nat
    BY <1>1, SumEquation
  <1>4. SumOver(h, T) <= SumOver(f, T) + 1
    <2>1. CASE b \in T
      <3>1. SumOver(h, T) = h[b] + SumOver(h, T \ {b})
        BY <1>1, <2>1, SumRemove
      <3>2. SumOver(f, T) = f[b] + SumOver(f, T \ {b})
        BY <2>1, SumRemove
      <3> QED
        BY <1>1, <1>2, <1>3, <3>1, <3>2
    <2>2. CASE b \notin T
      <3>1. T \ {b} = T
        BY <2>2
      <3> QED
        BY <1>2, <1>3, <3>1
    <2> QED
      BY <2>1, <2>2
  <1> QED
    BY <1>4 DEF h

-----------------------------------------------------------------------------
(* The quota.                                                              *)

OwnBoxes(u) == {b \in Boxes : Owner[b] = u}

\* What is counted and what is promised are sums over a user's boxes, and every box
\* of the user is among the counted ones.
LEMMA QuotaIsSum ==
  /\ \A u : Used(u) = SumOver(rows, Counted[u])
  /\ QuotaHolds <=> \A u \in Users : SumOver(rows, OwnBoxes(u)) <= Limit
  /\ \A u \in Users : OwnBoxes(u) \in SUBSET Counted[u] /\ Counted[u] \in SUBSET Boxes
  <1>1. \A u : Used(u) = SumOver(rows, Counted[u])
    BY DEF Used, SumOver
  <1>2. QuotaHolds <=> \A u \in Users : SumOver(rows, OwnBoxes(u)) <= Limit
    BY DEF QuotaHolds, SumOver, OwnBoxes
  <1>3. \A u \in Users : OwnBoxes(u) \in SUBSET Counted[u] /\ Counted[u] \in SUBSET Boxes
    BY OwnBoxesCount DEF OwnBoxes
  <1> QED
    BY <1>1, <1>2, <1>3

\* The same of the state after a step.
LEMMA QuotaAfterStep ==
  ASSUME \A u \in Users : SumOver(rows', OwnBoxes(u)) <= Limit
  PROVE  QuotaHolds'
  BY DEF QuotaHolds, SumOver, OwnBoxes, MapThenSumSet, MapThenFoldSet

LEMMA InitQuota == Init => QuotaHolds
  <1> SUFFICES ASSUME Init, NEW u \in Users PROVE SumOver(rows, OwnBoxes(u)) <= Limit
    BY QuotaIsSum
  <1> DEFINE nothing == [b \in Boxes |-> 0]
             C == {T \in SUBSET Boxes : SumOver(nothing, T) # 0}
  <1>1. C = {}
    <2> SUFFICES ASSUME C # {} PROVE FALSE
      OBVIOUS
    <2>1. PICK T \in C : \A x \in T : T \ {x} \notin C
      BY BoxesAreFinite, LeastSet
    <2>2. nothing \in [Boxes -> Nat] /\ \A x \in Boxes : nothing[x] = 0
      OBVIOUS
    <2> HIDE DEF nothing
    <2>3. T = {} => SumOver(nothing, T) = 0
      BY BoxesAreFinite, <2>2, SumEquation
    <2>4. T # {} => SumOver(nothing, T) = SumOver(nothing, T \ {First(T)})
      <3>1. ASSUME T # {}
            PROVE  /\ First(T) \in T
                   /\ SumOver(nothing, T) = nothing[First(T)] + SumOver(nothing, T \ {First(T)})
        BY BoxesAreFinite, <2>2, <3>1, SumEquation
      <3>2. SumOver(nothing, T \ {First(T)}) \in Nat
        BY BoxesAreFinite, <2>2, SumEquation
      <3> QED
        BY <2>2, <3>1, <3>2
    <2>5. T # {} => First(T) \in T
      BY DEF First
    <2> QED
      BY <2>1, <2>3, <2>4, <2>5
  <1>2. rows = nothing /\ OwnBoxes(u) \in SUBSET Boxes
    BY DEF Init, OwnBoxes
  <1>3. SumOver(rows, OwnBoxes(u)) = 0
    BY <1>1, <1>2
  <1> QED
    BY <1>3, BoundsAreNumbers

\* Where no box has more rows than before, the quota goes on holding.
LEMMA FewerRows ==
  ASSUME TypeOK, QuotaHolds, rows' \in [Boxes -> Nat], \A b \in Boxes : rows'[b] <= rows[b]
  PROVE  QuotaHolds'
  <1> DEFINE now == rows
             then == rows'
  <1>1. now \in [Boxes -> Nat] /\ then \in [Boxes -> Nat]
        /\ \A b \in Boxes : then[b] <= now[b]
    BY DEF TypeOK
  <1>2. \A u \in Users : SumOver(now, OwnBoxes(u)) <= Limit
    BY QuotaIsSum
  <1>3. ASSUME NEW u \in Users PROVE SumOver(then, OwnBoxes(u)) <= Limit
    <2> HIDE DEF now, then
    <2>1. OwnBoxes(u) \in SUBSET Boxes /\ OwnBoxes(u) \in SUBSET OwnBoxes(u)
      BY DEF OwnBoxes
    <2>2. SumOver(then, OwnBoxes(u)) <= SumOver(now, OwnBoxes(u))
      BY BoxesAreFinite, <1>1, <2>1, SumMonotone
    <2>3. SumOver(then, OwnBoxes(u)) \in Nat /\ SumOver(now, OwnBoxes(u)) \in Nat
      BY BoxesAreFinite, <1>1, <2>1, SumEquation
    <2> QED
      BY <1>2, <2>2, <2>3, BoundsAreNumbers
  <1> QED
    BY <1>3, QuotaAfterStep DEF then

\* The message that is stored was counted with the boxes of its owner.
LEMMA StoredQuota ==
  ASSUME TypeOK, QuotaHolds, NEW c \in Connections, DataStored(c)
  PROVE  QuotaHolds'
  <1> DEFINE b == Target(c)
             now == rows
             then == rows'
  <1>1. /\ b \in Boxes /\ Owner[b] \in Users /\ now \in [Boxes -> Nat]
        /\ then = [now EXCEPT ![b] = @ + 1]
        /\ Limit \in Nat
    BY OwnerIsFunction, BoundsAreNumbers DEF DataStored, Known, Target, TypeOK
  <1>2. ~(SumOver(now, Counted[Owner[b]]) >= Limit)
    BY QuotaIsSum DEF DataStored, Exceeded
  <1>3. \A u \in Users : SumOver(now, OwnBoxes(u)) <= Limit
    BY QuotaIsSum
  <1>4. then \in [Boxes -> Nat] /\ \A x \in Boxes : x # b => then[x] = now[x]
    BY <1>1
  <1> HIDE DEF b, now, then
  <1>5. ASSUME NEW u \in Users PROVE SumOver(then, OwnBoxes(u)) <= Limit
    <2>1. OwnBoxes(u) \in SUBSET Counted[u] /\ Counted[u] \in SUBSET Boxes
      BY QuotaIsSum
    <2>2. \A T \in SUBSET Boxes : SumOver(then, T) \in Nat /\ SumOver(now, T) \in Nat
      BY BoxesAreFinite, <1>1, <1>4, SumEquation
    <2>3. CASE u = Owner[b]
      <3>1. SumOver(then, OwnBoxes(u)) <= SumOver(then, Counted[u])
        BY BoxesAreFinite, <1>4, <2>1, SumMonotone
      <3>2. SumOver(then, Counted[u]) <= SumOver(now, Counted[u]) + 1
        BY BoxesAreFinite, <1>1, <2>1, SumIncrement
      <3>3. /\ SumOver(then, OwnBoxes(u)) \in Nat /\ SumOver(then, Counted[u]) \in Nat
            /\ SumOver(now, Counted[u]) \in Nat
        BY <2>1, <2>2
      <3> QED
        BY ONLY <1>1, <1>2, <2>3, <3>1, <3>2, <3>3
    <2>4. CASE u # Owner[b]
      <3>1. \A x \in OwnBoxes(u) : then[x] <= now[x]
        BY <1>1, <1>4, <2>4 DEF OwnBoxes
      <3>2. SumOver(then, OwnBoxes(u)) <= SumOver(now, OwnBoxes(u))
        BY BoxesAreFinite, <1>1, <1>4, <2>1, <3>1, SumMonotone
      <3>3. SumOver(then, OwnBoxes(u)) \in Nat /\ SumOver(now, OwnBoxes(u)) \in Nat
        BY <2>1, <2>2
      <3> QED
        BY ONLY <1>1, <1>3, <3>2, <3>3, u \in Users
    <2> QED
      BY <2>3, <2>4
  <1> QED
    BY <1>5, QuotaAfterStep DEF then

LEMMA StepQuota ==
  ASSUME TypeOK, TypeOK', QuotaHolds, [Next]_vars
  PROVE  QuotaHolds'
  <1>1. CASE rows' = rows
    <2>1. \A b \in Boxes : rows'[b] <= rows[b]
      BY <1>1 DEF TypeOK
    <2> QED
      BY <2>1, FewerRows DEF TypeOK
  <1>2. ASSUME NEW c \in Connections, DataStored(c)  PROVE QuotaHolds'
    BY <1>2, StoredQuota
  <1>3. ASSUME NEW b \in Boxes, DeleteBox(b)  PROVE QuotaHolds'
    <2>1. \A x \in Boxes : rows'[x] <= rows[x]
      BY <1>3 DEF DeleteBox, TypeOK
    <2> QED
      BY <2>1, FewerRows DEF TypeOK
  <1>4. ASSUME NEW b \in Boxes, DeleteEmails(b)  PROVE QuotaHolds'
    <2>1. PICK n \in 0..(rows[b] - 1) : rows' = [rows EXCEPT ![b] = n]
      BY <1>4 DEF DeleteEmails
    <2>2. \A x \in Boxes : rows'[x] <= rows[x]
      BY <2>1 DEF TypeOK
    <2> QED
      BY <2>2, FewerRows DEF TypeOK
  <1>5. \/ rows' = rows
        \/ \E c \in Connections : DataStored(c)
        \/ \E b \in Boxes : DeleteBox(b) \/ DeleteEmails(b)
    BY DEF Next, Smtp, Api, Reconnect, Reset, DataRefused, AuthWorkspace, AuthSandbox,
           RcptFound, RcptKnown, RcptUnknown, Pause, Activate
  <1> QED
    BY <1>1, <1>2, <1>3, <1>4, <1>5

\* However many connections deliver, and whichever boxes the count takes in beside a
\* user's own, the rows of the user's own boxes stay within the plan.
THEOREM QuotaIsKept == Spec => []QuotaHolds
  <1>1. TypeOK /\ TypeOK' /\ QuotaHolds /\ [Next]_vars => QuotaHolds'
    BY StepQuota
  <1> QED
    BY <1>1, InitQuota, TypeCorrect, PTL DEF Spec
=============================================================================
