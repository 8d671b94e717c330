--------------------------- MODULE LoginKeyProofs ---------------------------
(***************************************************************************)
(* Proofs about LoginKeys for every set of keys, requests and browsers.    *)
(* The inductive invariant is KeyInv.                                      *)
(***************************************************************************)
EXTENDS LoginKeyProperties, FiniteSetTheorems, TLAPS

USE LifetimeAssumption, AbsenceAssumption

-----------------------------------------------------------------------------
(* The initial state and the steps. *)

\* Nothing is issued, locked or owed at first.
LEMMA InitInv == Init => KeyInv
<1> SUFFICES ASSUME Init PROVE KeyInv
  OBVIOUS
<1>1. TypeOK
  BY DEF Init, TypeOK, NoReq, Request, KeyRow
<1>2. \A p \in Requests : RequestShape(p)
  BY DEF Init, RequestShape
<1>3. LocksHeld
  BY DEF Init, LocksHeld
<1>4. \A k \in Keys : Once(k)
  BY DEF Init, Once, Owing
<1>5. QED
  BY <1>1, <1>2, <1>3, <1>4 DEF KeyInv

\* Every step keeps the types.
LEMMA TypesStep == KeyInv /\ [Next]_vars => TypeOK'
<1> SUFFICES ASSUME KeyInv, [Next]_vars PROVE TypeOK'
  OBVIOUS
<1> USE DEF KeyInv
<1>1. ASSUME NEW p \in Requests, NEW k \in Keys, NEW ttl \in Lifetimes, BeginIssue(p, k, ttl) PROVE TypeOK'
  BY <1>1 DEF BeginIssue, TypeOK, Request, KeyRow
<1>2. ASSUME NEW p \in Requests, NEW b \in Browsers, NEW k \in Keys, Present(p, b, k) PROVE TypeOK'
  BY <1>2 DEF Present, TypeOK, Request, KeyRow
<1>3. ASSUME NEW p \in Requests, Sweep(p) PROVE TypeOK'
  BY <1>3 DEF Sweep, Swept, TypeOK, Request, KeyRow
<1>4. ASSUME NEW p \in Requests, Create(p) PROVE TypeOK'
  <2>1. req[p].key \in Keys /\ req[p].ttl \in Nat
    BY <1>4 DEF Create, TypeOK, RequestShape
  <2>2. now + req[p].ttl \in Nat
    BY <2>1 DEF TypeOK
  <2>3. [expires |-> now + req[p].ttl, used |-> FALSE] \in KeyRow
    BY <2>2 DEF KeyRow
  <2>4. key' \in [Keys -> KeyRow \cup {None}] /\ offered' \in [Keys -> Nat \cup {None}]
    BY <1>4, <2>1, <2>2, <2>3 DEF Create, TypeOK
  <2>5. QED
    BY <1>4, <2>4 DEF Create, Forget, NoReq, TypeOK, Request
<1>5. ASSUME NEW p \in Requests, Refuse(p) PROVE TypeOK'
  BY <1>5 DEF Refuse, Redeemable, Forget, NoReq, TypeOK, Request, KeyRow
<1>6. ASSUME NEW p \in Requests, Select(p) PROVE TypeOK'
  BY <1>6 DEF Select, Redeemable, TypeOK, Request, KeyRow
<1>7. ASSUME NEW p \in Requests, Consume(p) PROVE TypeOK'
  <2>1. req[p].key \in Keys /\ key[req[p].key] \in KeyRow
    BY <1>7 DEF Consume, TypeOK, RequestShape, LocksHeld
  <2>2. [key[req[p].key] EXCEPT !.used = TRUE] \in KeyRow
    BY <2>1 DEF KeyRow
  <2>3. key' \in [Keys -> KeyRow \cup {None}]
    BY <1>7, <2>1, <2>2 DEF Consume, TypeOK
  <2>4. QED
    BY <1>7, <2>3 DEF Consume, TypeOK
<1>8. ASSUME NEW p \in Requests, Login(p) PROVE TypeOK'
  <2>1. req[p].key \in Keys /\ req[p].browser \in Browsers
    BY <1>8 DEF Login, RequestShape
  <2>2. logins' \in [Keys -> Nat] /\ signedIn' \subseteq Browsers
    BY <1>8, <2>1 DEF Login, TypeOK
  <2>3. QED
    BY <1>8, <2>2 DEF Login, Forget, NoReq, TypeOK, Request
<1>9. ASSUME NEW p \in Requests, Abort(p) PROVE TypeOK'
  BY <1>9 DEF Abort, Forget, NoReq, TypeOK, Request, KeyRow
<1>10. ASSUME NEW b \in Browsers, SignOut(b) PROVE TypeOK'
  BY <1>10 DEF SignOut, TypeOK, Request, KeyRow
<1>11. ASSUME Tick PROVE TypeOK'
  BY <1>11 DEF Tick, TypeOK, Request, KeyRow
<1>12. CASE UNCHANGED vars
  BY <1>12 DEF vars, TypeOK, Request, KeyRow
<1>13. QED
  BY <1>1, <1>2, <1>3, <1>4, <1>5, <1>6, <1>7, <1>8, <1>9, <1>10, <1>11, <1>12 DEF Next, Begin, Wait, Work

\* Every step keeps what the requests carry.
LEMMA ShapesStep == KeyInv /\ [Next]_vars => \A q \in Requests : RequestShape(q)'
<1> SUFFICES ASSUME KeyInv, [Next]_vars PROVE \A q \in Requests : RequestShape(q)'
  OBVIOUS
<1> USE DEF KeyInv
<1>1. ASSUME NEW p \in Requests, NEW k \in Keys, NEW ttl \in Lifetimes, BeginIssue(p, k, ttl) PROVE \A q \in Requests : RequestShape(q)'
  BY <1>1 DEF BeginIssue, TypeOK, RequestShape, Request
<1>2. ASSUME NEW p \in Requests, NEW b \in Browsers, NEW k \in Keys, Present(p, b, k) PROVE \A q \in Requests : RequestShape(q)'
  BY <1>2 DEF Present, TypeOK, RequestShape, Request
<1>3. ASSUME NEW p \in Requests, Sweep(p) PROVE \A q \in Requests : RequestShape(q)'
  BY <1>3 DEF Sweep, Swept, TypeOK, RequestShape, Request
<1>4. ASSUME NEW p \in Requests, Create(p) PROVE \A q \in Requests : RequestShape(q)'
  BY <1>4 DEF Create, Forget, NoReq, TypeOK, RequestShape, Request
<1>5. ASSUME NEW p \in Requests, Refuse(p) PROVE \A q \in Requests : RequestShape(q)'
  BY <1>5 DEF Refuse, Redeemable, Forget, NoReq, TypeOK, RequestShape, Request
<1>6. ASSUME NEW p \in Requests, Select(p) PROVE \A q \in Requests : RequestShape(q)'
  BY <1>6 DEF Select, Redeemable, TypeOK, RequestShape, Request
<1>7. ASSUME NEW p \in Requests, Consume(p) PROVE \A q \in Requests : RequestShape(q)'
  BY <1>7 DEF Consume, TypeOK, RequestShape, Request
<1>8. ASSUME NEW p \in Requests, Login(p) PROVE \A q \in Requests : RequestShape(q)'
  BY <1>8 DEF Login, Forget, NoReq, TypeOK, RequestShape, Request
<1>9. ASSUME NEW p \in Requests, Abort(p) PROVE \A q \in Requests : RequestShape(q)'
  BY <1>9 DEF Abort, Forget, NoReq, TypeOK, RequestShape, Request
<1>10. ASSUME NEW b \in Browsers, SignOut(b) PROVE \A q \in Requests : RequestShape(q)'
  BY <1>10 DEF SignOut, TypeOK, RequestShape, Request
<1>11. ASSUME Tick PROVE \A q \in Requests : RequestShape(q)'
  BY <1>11 DEF Tick, TypeOK, RequestShape, Request
<1>12. CASE UNCHANGED vars
  BY <1>12 DEF vars, TypeOK, RequestShape, Request
<1>13. QED
  BY <1>1, <1>2, <1>3, <1>4, <1>5, <1>6, <1>7, <1>8, <1>9, <1>10, <1>11, <1>12 DEF Next, Begin, Wait, Work

\* Every step keeps the row locks with their redemptions.
LEMMA LocksStep == KeyInv /\ [Next]_vars => LocksHeld'
<1> SUFFICES ASSUME KeyInv, [Next]_vars PROVE LocksHeld'
  OBVIOUS
<1> USE DEF KeyInv
<1>1. ASSUME NEW p \in Requests, NEW k \in Keys, NEW ttl \in Lifetimes, BeginIssue(p, k, ttl) PROVE LocksHeld'
  BY <1>1 DEF BeginIssue, TypeOK, RequestShape, LocksHeld, Request, KeyRow
<1>2. ASSUME NEW p \in Requests, NEW b \in Browsers, NEW k \in Keys, Present(p, b, k) PROVE LocksHeld'
  BY <1>2 DEF Present, TypeOK, RequestShape, LocksHeld, Request, KeyRow
<1>3. ASSUME NEW p \in Requests, Sweep(p) PROVE LocksHeld'
  BY <1>3 DEF Sweep, Swept, TypeOK, RequestShape, LocksHeld, Request, KeyRow
<1>4. ASSUME NEW p \in Requests, Create(p) PROVE LocksHeld'
  BY <1>4 DEF Create, Forget, NoReq, TypeOK, RequestShape, LocksHeld, Request, KeyRow
<1>5. ASSUME NEW p \in Requests, Refuse(p) PROVE LocksHeld'
  BY <1>5 DEF Refuse, Redeemable, Forget, NoReq, TypeOK, RequestShape, LocksHeld, Request, KeyRow
<1>6. ASSUME NEW p \in Requests, Select(p) PROVE LocksHeld'
  BY <1>6 DEF Select, Redeemable, TypeOK, RequestShape, LocksHeld, Request, KeyRow
<1>7. ASSUME NEW p \in Requests, Consume(p) PROVE LocksHeld'
  BY <1>7 DEF Consume, TypeOK, RequestShape, LocksHeld, Request, KeyRow
<1>8. ASSUME NEW p \in Requests, Login(p) PROVE LocksHeld'
  BY <1>8 DEF Login, Forget, NoReq, TypeOK, RequestShape, LocksHeld, Request, KeyRow
<1>9. ASSUME NEW p \in Requests, Abort(p) PROVE LocksHeld'
  BY <1>9 DEF Abort, Forget, NoReq, TypeOK, RequestShape, LocksHeld, Request, KeyRow
<1>10. ASSUME NEW b \in Browsers, SignOut(b) PROVE LocksHeld'
  BY <1>10 DEF SignOut, TypeOK, RequestShape, LocksHeld, Request, KeyRow
<1>11. ASSUME Tick PROVE LocksHeld'
  BY <1>11 DEF Tick, TypeOK, RequestShape, LocksHeld, Request, KeyRow
<1>12. CASE UNCHANGED vars
  BY <1>12 DEF vars, TypeOK, RequestShape, LocksHeld, Request, KeyRow
<1>13. QED
  BY <1>1, <1>2, <1>3, <1>4, <1>5, <1>6, <1>7, <1>8, <1>9, <1>10, <1>11, <1>12 DEF Next, Begin, Wait, Work

\* Every step keeps the count of sessions owed and opened.
LEMMA CountsStep == KeyInv /\ [Next]_vars => \A l \in Keys : Once(l)'
<1> SUFFICES ASSUME KeyInv, [Next]_vars PROVE \A l \in Keys : Once(l)'
  OBVIOUS
<1> USE DEF KeyInv
<1>1. ASSUME NEW p \in Requests, NEW k \in Keys, NEW ttl \in Lifetimes, BeginIssue(p, k, ttl) PROVE \A l \in Keys : Once(l)'
  BY <1>1 DEF BeginIssue, TypeOK, RequestShape, LocksHeld, Once, Owing, Request, KeyRow
<1>2. ASSUME NEW p \in Requests, NEW b \in Browsers, NEW k \in Keys, Present(p, b, k) PROVE \A l \in Keys : Once(l)'
  BY <1>2 DEF Present, TypeOK, RequestShape, LocksHeld, Once, Owing, Request, KeyRow
<1>3. ASSUME NEW p \in Requests, Sweep(p) PROVE \A l \in Keys : Once(l)'
  BY <1>3 DEF Sweep, Swept, TypeOK, RequestShape, LocksHeld, Once, Owing, Request, KeyRow
<1>4. ASSUME NEW p \in Requests, Create(p) PROVE \A l \in Keys : Once(l)'
  <2> TAKE l \in Keys
  <2>1. pc[p] = "creating" /\ req[p].key \in Keys /\ offered[req[p].key] = None
    BY <1>4 DEF Create, RequestShape
  <2>2. Owing(l)' = Owing(l)
    BY <1>4, <2>1 DEF Create, Forget, NoReq, Owing, TypeOK
  <2>3. logins' = logins
    BY <1>4 DEF Create
  <2>4. CASE l = req[p].key
    <3>1. logins[l] = 0 /\ Owing(l) = {}
      BY <2>1, <2>4 DEF Once
    <3>2. offered'[l] = now + req[p].ttl /\ now + req[p].ttl \in Nat
      <4>1. req[p].ttl \in Nat /\ now \in Nat
        BY <1>4 DEF Create, TypeOK, RequestShape
      <4>2. offered'[l] = now + req[p].ttl
        BY <1>4, <2>4 DEF Create, TypeOK
      <4>3. QED
        BY <4>1, <4>2
    <3>3. QED
      BY <2>2, <2>3, <3>1, <3>2 DEF Once
  <2>5. CASE l # req[p].key
    <3>1. key'[l] = key[l] /\ offered'[l] = offered[l]
      BY <1>4, <2>5 DEF Create, TypeOK
    <3>2. QED
      BY <2>2, <2>3, <3>1 DEF Once
  <2>6. QED
    BY <2>4, <2>5
<1>5. ASSUME NEW p \in Requests, Refuse(p) PROVE \A l \in Keys : Once(l)'
  BY <1>5 DEF Refuse, Redeemable, Forget, NoReq, TypeOK, RequestShape, LocksHeld, Once, Owing, Request, KeyRow
<1>6. ASSUME NEW p \in Requests, Select(p) PROVE \A l \in Keys : Once(l)'
  BY <1>6 DEF Select, Redeemable, TypeOK, RequestShape, LocksHeld, Once, Owing, Request, KeyRow
<1>7. ASSUME NEW p \in Requests, Consume(p) PROVE \A l \in Keys : Once(l)'
  BY <1>7 DEF Consume, TypeOK, RequestShape, LocksHeld, Once, Owing, Request, KeyRow
<1>8. ASSUME NEW p \in Requests, Login(p) PROVE \A l \in Keys : Once(l)'
  BY <1>8 DEF Login, Forget, NoReq, TypeOK, RequestShape, LocksHeld, Once, Owing, Request, KeyRow
<1>9. ASSUME NEW p \in Requests, Abort(p) PROVE \A l \in Keys : Once(l)'
  BY <1>9 DEF Abort, Forget, NoReq, TypeOK, RequestShape, LocksHeld, Once, Owing, Request, KeyRow
<1>10. ASSUME NEW b \in Browsers, SignOut(b) PROVE \A l \in Keys : Once(l)'
  BY <1>10 DEF SignOut, TypeOK, RequestShape, LocksHeld, Once, Owing, Request, KeyRow
<1>11. ASSUME Tick PROVE \A l \in Keys : Once(l)'
  BY <1>11 DEF Tick, TypeOK, RequestShape, LocksHeld, Once, Owing, Request, KeyRow
<1>12. CASE UNCHANGED vars
  BY <1>12 DEF vars, TypeOK, RequestShape, LocksHeld, Once, Owing, Request, KeyRow
<1>13. QED
  BY <1>1, <1>2, <1>3, <1>4, <1>5, <1>6, <1>7, <1>8, <1>9, <1>10, <1>11, <1>12 DEF Next, Begin, Wait, Work

\* KeyInv is inductive.
THEOREM KeyInvariant == Spec => []KeyInv
<1>1. KeyInv /\ [Next]_vars => KeyInv'
  BY TypesStep, ShapesStep, LocksStep, CountsStep DEF KeyInv
<1>2. QED
  BY InitInv, <1>1, PTL DEF Spec

-----------------------------------------------------------------------------
(* What it gives. *)

\* The invariant bounds the sessions of a key, opened and owed.
LEMMA OnceBounds == KeyInv => LoggedInOnce
<1> SUFFICES ASSUME KeyInv, NEW k \in Keys
             PROVE  logins[k] + Cardinality(Owing(k)) <= 1
  BY DEF LoggedInOnce
<1>1. logins[k] \in {0, 1} /\ (Owing(k) # {} => logins[k] = 0)
  BY DEF KeyInv, Once
<1>2. CASE Owing(k) = {}
  BY <1>1, <1>2, FS_EmptySet
<1>3. CASE Owing(k) # {}
  <2>1. PICK p \in Owing(k) : TRUE
    BY <1>3
  <2>2. Owing(k) = {p}
    BY <2>1 DEF KeyInv, Once
  <2>3. Cardinality(Owing(k)) = 1
    BY <2>2, FS_Singleton
  <2>4. QED
    BY <1>1, <1>3, <2>3
<1>4. QED
  BY <1>2, <1>3

\* login_key.py:31: a link opens one session at most, for any number of keys,
\* requests and browsers.
THEOREM LinksOpenOnce == Spec => []LoggedInOnce
  BY KeyInvariant, OnceBounds, PTL

-----------------------------------------------------------------------------
(* Links are neither wasted nor refused early. *)

\* A step that leaves the debts and the sessions opened as they are, and marks
\* no row, wastes no link.
LEMMA NothingSpent ==
  ASSUME SpentMeansLoggedIn, logins' = logins, failed' = failed,
         \A k \in Keys : Owing(k)' = Owing(k),
         \A k \in Keys : key'[k] # None /\ key'[k].used => key[k] # None /\ key[k].used
  PROVE  SpentMeansLoggedIn'
  BY DEF SpentMeansLoggedIn

\* Every step keeps spent links accounted for.
LEMMA SpentStep == KeyInv /\ SpentMeansLoggedIn /\ [Next]_vars => SpentMeansLoggedIn'
<1> SUFFICES ASSUME KeyInv, SpentMeansLoggedIn, [Next]_vars PROVE SpentMeansLoggedIn'
  OBVIOUS
<1> USE DEF KeyInv
<1>1. ASSUME NEW p \in Requests, NEW k \in Keys, NEW ttl \in Lifetimes, BeginIssue(p, k, ttl) PROVE SpentMeansLoggedIn'
  <2>1. \A l \in Keys : Owing(l)' = Owing(l)
    BY <1>1 DEF BeginIssue, Owing, TypeOK
  <2>2. QED
    BY <1>1, <2>1, NothingSpent DEF BeginIssue
<1>2. ASSUME NEW p \in Requests, NEW b \in Browsers, NEW k \in Keys, Present(p, b, k) PROVE SpentMeansLoggedIn'
  <2>1. \A l \in Keys : Owing(l)' = Owing(l)
    BY <1>2 DEF Present, Owing, TypeOK
  <2>2. QED
    BY <1>2, <2>1, NothingSpent DEF Present
<1>3. ASSUME NEW p \in Requests, Sweep(p) PROVE SpentMeansLoggedIn'
  <2>1. \A l \in Keys : Owing(l)' = Owing(l)
    BY <1>3 DEF Sweep, Owing, TypeOK
  <2>2. QED
    BY <1>3, <2>1, NothingSpent DEF Sweep
<1>4. ASSUME NEW p \in Requests, Create(p) PROVE SpentMeansLoggedIn'
  <2>1. pc[p] = "creating"
    BY <1>4 DEF Create
  <2>2. \A l \in Keys : Owing(l)' = Owing(l)
    BY <1>4, <2>1 DEF Create, Forget, NoReq, Owing, TypeOK
  <2>3. \A l \in Keys : key'[l] # None /\ key'[l].used => key[l] # None /\ key[l].used
    BY <1>4 DEF Create, TypeOK
  <2>4. QED
    BY <1>4, <2>2, <2>3, NothingSpent DEF Create
<1>5. ASSUME NEW p \in Requests, Refuse(p) PROVE SpentMeansLoggedIn'
  <2>1. \A l \in Keys : Owing(l)' = Owing(l)
    BY <1>5 DEF Refuse, Forget, NoReq, Owing, TypeOK
  <2>2. QED
    BY <1>5, <2>1, NothingSpent DEF Refuse, Forget, NoReq
<1>6. ASSUME NEW p \in Requests, Select(p) PROVE SpentMeansLoggedIn'
  <2>1. \A l \in Keys : Owing(l)' = Owing(l)
    BY <1>6 DEF Select, Owing, TypeOK
  <2>2. QED
    BY <1>6, <2>1, NothingSpent DEF Select
<1>7. ASSUME NEW p \in Requests, Consume(p) PROVE SpentMeansLoggedIn'
  <2>1. PICK k \in Keys : k = req[p].key
    BY <1>7 DEF Consume, RequestShape
  <2>2. p \in Owing(k)'
    BY <1>7, <2>1 DEF Consume, Owing, TypeOK
  <2>3. \A l \in Keys \ {k} : Owing(l)' = Owing(l) /\ key'[l] = key[l]
    BY <1>7, <2>1 DEF Consume, Owing, TypeOK
  <2>4. logins' = logins /\ failed' = failed
    BY <1>7 DEF Consume
  <2>5. Owing(k)' # {}
    BY <2>2
  <2>6. QED
    BY <2>3, <2>4, <2>5 DEF SpentMeansLoggedIn
<1>8. ASSUME NEW p \in Requests, Login(p) PROVE SpentMeansLoggedIn'
  <2>1. req[p].key \in Keys /\ p \in Owing(req[p].key)
    BY <1>8 DEF Login, RequestShape, Owing
  <2>2. logins[req[p].key] = 0
    BY <2>1 DEF Once
  <2>3. logins'[req[p].key] = 1
    BY <1>8, <2>1, <2>2 DEF Login, TypeOK
  <2>4. \A l \in Keys \ {req[p].key} : logins'[l] = logins[l] /\ Owing(l)' = Owing(l)
    BY <1>8 DEF Login, Forget, NoReq, Owing, TypeOK
  <2>5. key' = key /\ failed' = failed
    BY <1>8 DEF Login
  <2>6. QED
    BY <2>3, <2>4, <2>5 DEF SpentMeansLoggedIn
<1>9. ASSUME NEW p \in Requests, Abort(p) PROVE SpentMeansLoggedIn'
  BY <1>9 DEF Abort, SpentMeansLoggedIn
<1>10. ASSUME NEW b \in Browsers, SignOut(b) PROVE SpentMeansLoggedIn'
  <2>1. \A l \in Keys : Owing(l)' = Owing(l)
    BY <1>10 DEF SignOut, Owing, TypeOK
  <2>2. QED
    BY <1>10, <2>1, NothingSpent DEF SignOut
<1>11. ASSUME Tick PROVE SpentMeansLoggedIn'
  <2>1. \A l \in Keys : Owing(l)' = Owing(l)
    BY <1>11 DEF Tick, Owing, TypeOK
  <2>2. QED
    BY <1>11, <2>1, NothingSpent DEF Tick
<1>12. CASE UNCHANGED vars
  BY <1>12 DEF vars, SpentMeansLoggedIn, Owing, TypeOK
<1>13. QED
  BY <1>1, <1>2, <1>3, <1>4, <1>5, <1>6, <1>7, <1>8, <1>9, <1>10, <1>11, <1>12 DEF Next, Begin, Wait, Work

\* Every step keeps the deadlines true.
LEMMA DeadlinesStep == KeyInv /\ DeadlinesTrue /\ [Next]_vars => DeadlinesTrue'
<1> SUFFICES ASSUME KeyInv, DeadlinesTrue, [Next]_vars PROVE DeadlinesTrue'
  OBVIOUS
<1> USE DEF KeyInv
<1>1. ASSUME NEW p \in Requests, NEW k \in Keys, NEW ttl \in Lifetimes, BeginIssue(p, k, ttl) PROVE DeadlinesTrue'
  BY <1>1 DEF BeginIssue, TypeOK, DeadlinesTrue
<1>2. ASSUME NEW p \in Requests, NEW b \in Browsers, NEW k \in Keys, Present(p, b, k) PROVE DeadlinesTrue'
  BY <1>2 DEF Present, TypeOK, DeadlinesTrue
<1>3. ASSUME NEW p \in Requests, Sweep(p) PROVE DeadlinesTrue'
  <2>1. \A l \in Swept(p) : key[l].expires < now /\ (offered[l] # None => offered[l] < now)
    <3>1. ASSUME NEW l \in Swept(p) PROVE key[l].expires < now /\ (offered[l] # None => offered[l] < now)
      <4>1. key[l].expires \in Nat /\ asOf[p] \in Nat /\ now \in Nat
        BY <3>1 DEF Swept, TypeOK, KeyRow
      <4>2. key[l].expires < asOf[p] /\ asOf[p] <= now
        BY <3>1 DEF Swept, DeadlinesTrue
      <4>3. offered[l] # None => key[l].expires = offered[l]
        BY <3>1 DEF Swept, DeadlinesTrue
      <4>4. QED
        BY <4>1, <4>2, <4>3
    <3>2. QED
      BY <3>1
  <2>2. \A l \in Keys : key'[l] = IF l \in Swept(p) THEN None ELSE key[l]
    BY <1>3 DEF Sweep
  <2>3. offered' = offered /\ now' = now /\ asOf' = asOf
    BY <1>3 DEF Sweep
  <2>4. QED
    BY <2>1, <2>2, <2>3 DEF DeadlinesTrue
<1>4. ASSUME NEW p \in Requests, Create(p) PROVE DeadlinesTrue'
  <2> DEFINE l == req[p].key
             deadline == now + req[p].ttl
  <2>1. l \in Keys /\ now \in Nat /\ req[p].ttl \in Nat
    BY <1>4 DEF Create, TypeOK, RequestShape
  <2>2. key'[l] = [expires |-> deadline, used |-> FALSE] /\ offered'[l] = deadline
    BY <1>4, <2>1 DEF Create, TypeOK
  <2>3. key'[l] # None
    <3>1. deadline \in Nat
      BY <2>1
    <3>2. key'[l] \in [expires : Nat, used : BOOLEAN]
      BY <2>2, <3>1
    <3>3. QED
      BY <3>2
  <2>4. key'[l].expires = offered'[l]
    BY <2>2
  <2>5. \A m \in Keys \ {l} : key'[m] = key[m] /\ offered'[m] = offered[m]
    BY <1>4 DEF Create, TypeOK
  <2>6. now' = now /\ \A q \in Requests : asOf'[q] <= now
    BY <1>4 DEF Create, Forget, TypeOK, DeadlinesTrue
  <2>7. QED
    BY <2>3, <2>4, <2>5, <2>6 DEF DeadlinesTrue
<1>5. ASSUME NEW p \in Requests, Refuse(p) PROVE DeadlinesTrue'
  BY <1>5 DEF Refuse, Forget, NoReq, TypeOK, DeadlinesTrue
<1>6. ASSUME NEW p \in Requests, Select(p) PROVE DeadlinesTrue'
  BY <1>6 DEF Select, TypeOK, DeadlinesTrue
<1>7. ASSUME NEW p \in Requests, Consume(p) PROVE DeadlinesTrue'
  <2>1. key' = [key EXCEPT ![req[p].key].used = TRUE] /\ req[p].key \in Keys
        /\ key[req[p].key] \in KeyRow
    BY <1>7 DEF Consume, RequestShape, LocksHeld, TypeOK
  <2>2. key'[req[p].key].expires = key[req[p].key].expires /\ key'[req[p].key] # None
    <3>1. key'[req[p].key] = [key[req[p].key] EXCEPT !.used = TRUE]
      BY <2>1 DEF TypeOK
    <3>2. key'[req[p].key] \in KeyRow
      BY <2>1, <3>1 DEF KeyRow
    <3>3. QED
      BY <2>1, <3>1, <3>2 DEF KeyRow
  <2>3. \A l \in Keys \ {req[p].key} : key'[l] = key[l]
    BY <2>1 DEF TypeOK
  <2>4. key[req[p].key] # None
    BY <2>1 DEF KeyRow
  <2>5. QED
    BY <1>7, <2>2, <2>3, <2>4 DEF Consume, DeadlinesTrue
<1>8. ASSUME NEW p \in Requests, Login(p) PROVE DeadlinesTrue'
  BY <1>8 DEF Login, Forget, NoReq, TypeOK, DeadlinesTrue
<1>9. ASSUME NEW p \in Requests, Abort(p) PROVE DeadlinesTrue'
  BY <1>9 DEF Abort, Forget, NoReq, TypeOK, DeadlinesTrue
<1>10. ASSUME NEW b \in Browsers, SignOut(b) PROVE DeadlinesTrue'
  BY <1>10 DEF SignOut, TypeOK, DeadlinesTrue
<1>11. ASSUME Tick PROVE DeadlinesTrue'
  <2>1. now' = now + 1 /\ now \in Nat
    BY <1>11 DEF Tick, TypeOK
  <2>2. \A q \in Requests : asOf[q] \in Nat /\ asOf[q] <= now
    BY DEF TypeOK, DeadlinesTrue
  <2>3. \A l \in Keys : offered[l] # None => offered[l] \in Nat
    BY DEF TypeOK
  <2>4. \A q \in Requests : asOf[q] <= now'
    BY <2>1, <2>2
  <2>5. \A l \in Keys : offered[l] # None /\ key[l] = None => offered[l] < now'
    BY <2>1, <2>3 DEF DeadlinesTrue
  <2>6. QED
    BY <1>11, <2>4, <2>5 DEF Tick, DeadlinesTrue
<1>12. CASE UNCHANGED vars
  BY <1>12 DEF vars, TypeOK, DeadlinesTrue
<1>13. QED
  BY <1>1, <1>2, <1>3, <1>4, <1>5, <1>6, <1>7, <1>8, <1>9, <1>10, <1>11, <1>12 DEF Next, Begin, Wait, Work

\* LinkInv is inductive.
THEOREM LinkInvariant == Spec => []LinkInv
<1>1. Init => LinkInv
  BY InitInv DEF Init, LinkInv, SpentMeansLoggedIn, DeadlinesTrue
<1>2. LinkInv /\ [Next]_vars => LinkInv'
  BY TypesStep, ShapesStep, LocksStep, CountsStep, SpentStep, DeadlinesStep DEF LinkInv, KeyInv
<1>3. QED
  BY <1>1, <1>2, PTL DEF Spec

\* views/users.py:229-233: redeem commits and then the view logs in, so a link
\* marked used has opened its session, will, or a request died in between.
THEOREM NoLinkWasted == Spec => []SpentMeansLoggedIn
<1>1. LinkInv => SpentMeansLoggedIn
  BY DEF LinkInv
<1>2. QED
  BY LinkInvariant, <1>1, PTL

\* A refusal has one of the reasons the promise names.
LEMMA RefusalHasReason ==
  ASSUME LinkInv, [Next]_vars, NEW p \in Requests, pc[p] = "presented", pc'[p] = "idle"
  PROVE  LET k == req[p].key
         IN  \/ offered[k] <= now
             \/ logins[k] = 1 \/ Owing(k) # {}
             \/ failed'
<1> USE DEF LinkInv, KeyInv
<1>1. Refuse(p) \/ Abort(p)
  <2>1. ASSUME NEW q \in Requests, q # p, Begin(q) \/ Wait(q) \/ Work(q) \/ Abort(q)
        PROVE  pc'[p] = pc[p]
    BY <2>1 DEF Begin, Wait, Work, BeginIssue, Present, Sweep, Create, Select, Consume,
                Login, Refuse, Abort, Forget, TypeOK
  <2>2. ~(Begin(p) \/ Sweep(p) \/ Select(p) \/ Work(p))
    BY DEF Begin, Work, BeginIssue, Present, Sweep, Create, Select, Consume, Login, TypeOK
  <2>3. ~(Tick \/ (\E b \in Browsers : SignOut(b)) \/ UNCHANGED vars)
    BY DEF Tick, SignOut, vars
  <2>4. QED
    BY <2>1, <2>2, <2>3 DEF Next, Wait
<1>2. CASE Abort(p)
  BY <1>2 DEF Abort
<1>3. CASE Refuse(p)
  <2> DEFINE k == req[p].key
  <2>1. k \in Keys /\ offered[k] # None /\ ~Redeemable(k, asOf[p]) /\ failed' = failed
    BY <1>3 DEF Refuse, RequestShape
  <2>2. asOf[p] \in Nat /\ now \in Nat /\ asOf[p] <= now /\ offered[k] \in Nat
    BY <2>1 DEF TypeOK, DeadlinesTrue
  <2>3. CASE key[k] = None
    BY <2>1, <2>2, <2>3 DEF DeadlinesTrue
  <2>4. CASE key[k] # None /\ key[k].used
    BY <2>1, <2>4 DEF SpentMeansLoggedIn
  <2>5. CASE key[k] # None /\ ~(key[k].expires > asOf[p])
    <3>1. key[k].expires = offered[k]
      BY <2>1, <2>5 DEF DeadlinesTrue
    <3>2. offered[k] <= now
      BY <2>2, <2>5, <3>1
    <3>3. QED
      BY <3>2
  <2>6. QED
    BY <2>1, <2>3, <2>4, <2>5 DEF Redeemable
<1>4. QED
  BY <1>1, <1>2, <1>3

\* login_key.py:61 and 81-91: no sweep and no stale clock reading takes a link
\* back before the deadline issue returned, for any number of requests.
THEOREM LinksKeepTheirDeadline == Spec => DeadlineKept
<1> DEFINE Reason(p) ==
             LET k == req[p].key
             IN  pc[p] = "presented" /\ pc'[p] = "idle" =>
                   \/ offered[k] <= now
                   \/ logins[k] = 1 \/ Owing(k) # {}
                   \/ failed'
<1>1. LinkInv /\ [Next]_vars => [\A p \in Requests : Reason(p)]_vars
  BY RefusalHasReason
<1>2. QED
  BY LinkInvariant, <1>1, PTL DEF Spec, DeadlineKept

-----------------------------------------------------------------------------
(* The refinement. *)

\* A step that leaves the rows, the deadlines, the sessions opened and the
\* sessions owed as they are changes no key.
LEMMA Unseen ==
  ASSUME key' = key, offered' = offered, logins' = logins,
         \A k \in Keys : Owing(k)' = Owing(k)
  PROVE  UNCHANGED Promise!keyVars
<1>1. \A k \in Keys : Status(k)' = Status(k)
  BY DEF Status
<1>2. QED
  BY <1>1 DEF Promise!keyVars

\* An insert issues its key.
LEMMA CreateIssues ==
  ASSUME KeyInv, NEW p \in Requests, Create(p), NEW k \in Keys, k = req[p].key
  PROVE  Promise!Issue(k)
<1>1. pc[p] = "creating" /\ offered[k] = None
  BY DEF Create, KeyInv, RequestShape
<1>2. \A l \in Keys : Owing(l)' = Owing(l)
  BY <1>1 DEF Create, Forget, NoReq, Owing, KeyInv, TypeOK
<1>3. Status(k) = "new"
  BY <1>1 DEF Status
<1>4. Status(k)' = "open"
  <2>1. now \in Nat /\ req[p].ttl \in Nat
    BY <1>1 DEF KeyInv, TypeOK, RequestShape
  <2>2. offered'[k] = now + req[p].ttl
        /\ key'[k] = [expires |-> now + req[p].ttl, used |-> FALSE]
    BY <1>1 DEF Create, KeyInv, TypeOK
  <2>3. now + req[p].ttl \in Nat
    BY <2>1
  <2>4. offered'[k] # None /\ key'[k] # None
    <3>1. offered'[k] \in Nat /\ key'[k] \in [expires : Nat, used : BOOLEAN]
      BY <2>2, <2>3
    <3>2. QED
      BY <3>1
  <2>5. QED
    BY <2>2, <2>4 DEF Status
<1>5. \A l \in Keys \ {k} : Status(l)' = Status(l)
  BY <1>1 DEF Create, Status, KeyInv, TypeOK
<1>6. logins' = logins
  BY DEF Create
<1>7. QED
  BY <1>1, <1>2, <1>3, <1>4, <1>5, <1>6 DEF Promise!Issue

\* A sweep withdraws the keys it deletes.
LEMMA SweepWithdraws ==
  ASSUME KeyInv, NEW p \in Requests, Sweep(p)
  PROVE  Promise!Withdraw
<1> DEFINE gone == Swept(p)
           open == {l \in Keys : Status(l) \in {"open", "spent"}}
<1>1. \A l \in Keys : Owing(l)' = Owing(l)
  BY DEF Sweep, Owing, KeyInv, TypeOK
<1>2. \A l \in gone : Status(l) \in {"open", "spent"} /\ Status(l)' = "gone"
  BY DEF Sweep, Swept, Status, KeyInv, TypeOK, Once
<1>3. \A l \in Keys \ gone : Status(l)' = Status(l)
  BY DEF Sweep, Status, KeyInv, TypeOK
<1>4. gone \subseteq open
  BY <1>2 DEF Swept
<1>5. logins' = logins
  BY DEF Sweep
<1>6. [l \in Keys |-> Status(l)]' = [l \in Keys |-> IF l \in gone THEN "gone" ELSE Status(l)]
  BY <1>2, <1>3
<1>7. QED
  <2> HIDE DEF gone
  <2>1. gone \in SUBSET {l \in Keys : [i \in Keys |-> Status(i)][l] \in {"open", "spent"}}
    BY <1>4
  <2>2. QED
    BY <1>1, <1>5, <1>6, <2>1 DEF Promise!Withdraw

\* The commit of a redemption spends its key.
LEMMA ConsumeSpends ==
  ASSUME KeyInv, NEW p \in Requests, Consume(p), NEW k \in Keys, k = req[p].key
  PROVE  Promise!Spend(k)
<1>1. pc[p] = "holding" /\ key[k] # None /\ ~key[k].used
  BY DEF Consume, KeyInv, RequestShape, LocksHeld
<1>2. \A l \in Keys \ {k} : Owing(l)' = Owing(l)
  BY DEF Consume, Owing, KeyInv, TypeOK
<1>3. Owing(k)' # {}
  BY <1>1 DEF Consume, Owing, KeyInv, TypeOK
<1>4. Status(k) = "open"
  BY <1>1 DEF Status, KeyInv, Once
<1>5. Status(k)' = "spent"
  <2>1. key[k] \in KeyRow
    BY <1>1 DEF KeyInv, TypeOK
  <2>2. key'[k] = [key[k] EXCEPT !.used = TRUE] /\ key'[k] \in KeyRow
    BY <1>1, <2>1 DEF Consume, KeyInv, TypeOK, KeyRow
  <2>3. key'[k] # None /\ key'[k].used
    BY <2>1, <2>2 DEF KeyRow
  <2>4. offered'[k] # None
    BY <1>1 DEF Consume, KeyInv, RequestShape
  <2>5. QED
    BY <2>3, <2>4 DEF Status
<1>6. \A l \in Keys \ {k} : Status(l)' = Status(l)
  BY <1>1 DEF Consume, Status, KeyInv, TypeOK
<1>7. logins' = logins
  BY DEF Consume
<1>8. QED
  BY <1>1, <1>2, <1>3, <1>4, <1>5, <1>6, <1>7 DEF Promise!Spend

\* A request that has redeemed a key is the only one, and once it ends
\* nothing is owed for the key.
LEMMA OnlyDebtor ==
  ASSUME KeyInv, NEW p \in Requests, pc[p] = "redeemed", Forget(p),
         NEW k \in Keys, k = req[p].key
  PROVE  /\ Owing(k) # {}
         /\ Owing(k)' = {}
         /\ \A l \in Keys \ {k} : Owing(l)' = Owing(l)
<1>1. Owing(k) = {p}
  BY DEF KeyInv, Once, Owing
<1>2. \A q \in Requests : pc'[q] = "redeemed" =>
         q # p /\ pc[q] = "redeemed" /\ req'[q] = req[q]
  BY DEF Forget, KeyInv, TypeOK
<1>3. Owing(k)' = {}
  BY <1>1, <1>2 DEF Owing
<1>4. \A l \in Keys \ {k} : Owing(l)' = Owing(l)
  BY DEF Forget, Owing, KeyInv, TypeOK
<1>5. QED
  BY <1>1, <1>3, <1>4

\* A login, or the death of a redeemed request, settles what is owed.
LEMMA EndSettles ==
  ASSUME KeyInv, NEW p \in Requests, pc[p] = "redeemed", Forget(p),
         NEW k \in Keys, k = req[p].key,
         key' = key, offered' = offered,
         logins' \in {logins, [logins EXCEPT ![k] = @ + 1]}
  PROVE  Promise!Settle(k)
<1>1. \A l \in Keys : Status(l)' = Status(l)
  BY DEF Status
<1>2. QED
  BY <1>1, OnlyDebtor DEF Promise!Settle

\* Nothing else is seen: requests that begin, are refused, get their lock or
\* die with no debt leave every key as it was.
LEMMA OthersUnseen ==
  ASSUME KeyInv,
         \/ Tick
         \/ \E b \in Browsers : SignOut(b)
         \/ \E p \in Requests :
              \/ Begin(p) \/ Refuse(p) \/ Select(p)
              \/ Abort(p) /\ pc[p] # "redeemed"
         \/ UNCHANGED vars
  PROVE  UNCHANGED Promise!keyVars
<1>1. key' = key /\ offered' = offered /\ logins' = logins
  BY DEF Tick, SignOut, Begin, BeginIssue, Present, Refuse, Select, Abort, vars
<1>2. \A p \in Requests :
         (pc'[p] = "redeemed") = (pc[p] = "redeemed")
         /\ (pc[p] = "redeemed" => req'[p] = req[p])
  BY DEF Tick, SignOut, Begin, BeginIssue, Present, Refuse, Select, Abort, vars,
         Forget, KeyInv, TypeOK
<1>3. \A k \in Keys : Owing(k)' = Owing(k)
  BY <1>2 DEF Owing
<1>4. QED
  BY <1>1, <1>3, Unseen

\* The initial states correspond.
LEMMA InitMaps == Init => Promise!Init
<1> SUFFICES ASSUME Init PROVE Promise!Init
  OBVIOUS
<1>1. \A k \in Keys : Status(k) = "new" /\ Owing(k) = {}
  BY DEF Init, Status, Owing
<1>2. QED
  BY <1>1 DEF Init, Promise!Init

\* Every step of a request is a step of the keys, or unseen.
LEMMA NextMaps == KeyInv /\ [Next]_vars => [Promise!Next]_Promise!keyVars
<1> SUFFICES ASSUME KeyInv, [Next]_vars
             PROVE  Promise!Next \/ UNCHANGED Promise!keyVars
  OBVIOUS
<1>1. ASSUME NEW p \in Requests, Create(p) \/ Consume(p) \/ Login(p) \/ (Abort(p) /\ pc[p] = "redeemed")
      PROVE  Promise!Next
  <2>1. PICK k \in Keys : k = req[p].key
    BY <1>1 DEF KeyInv, RequestShape, Create, Consume, Login
  <2>2. CASE Create(p)
    BY <2>1, <2>2, CreateIssues DEF Promise!Next
  <2>3. CASE Consume(p)
    BY <2>1, <2>3, ConsumeSpends DEF Promise!Next
  <2>4. CASE Login(p)
    <3>1. Promise!Settle(k)
      BY <2>1, <2>4, EndSettles DEF Login
    <3>2. QED
      BY <3>1 DEF Promise!Next
  <2>5. CASE Abort(p) /\ pc[p] = "redeemed"
    <3>1. Promise!Settle(k)
      BY <2>1, <2>5, EndSettles DEF Abort
    <3>2. QED
      BY <3>1 DEF Promise!Next
  <2>6. QED
    BY <1>1, <2>2, <2>3, <2>4, <2>5
<1>2. ASSUME NEW p \in Requests, Sweep(p) PROVE Promise!Next
  BY <1>2, SweepWithdraws DEF Promise!Next
<1>3. QED
  BY <1>1, <1>2, OthersUnseen DEF Next, Wait, Work

\* LoginKey's docstring as a whole: the rows, the locked read and the login
\* that follows the commit are one-time keys, for any number of requests.
THEOREM LinksAreOneTimeKeys == Spec => ImplementsOneTimeKeys
<1>1. Spec => Promise!Init /\ [][Promise!Next]_Promise!keyVars
  BY KeyInvariant, InitMaps, NextMaps, PTL DEF Spec
<1>2. QED
  BY <1>1 DEF ImplementsOneTimeKeys, Promise!Spec

=============================================================================
