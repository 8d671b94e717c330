---------------------------- MODULE RebindProofs ----------------------------
(***************************************************************************)
(* Proofs about PushDelivery for every set of sessions, users, endpoints,  *)
(* requests and notifications.  The inductive invariant is RebindInv: what *)
(* the statements of subscribe, taken one by one, may rely on.             *)
(***************************************************************************)
EXTENDS PushDelivery, TLAPS

USE OwnerAssumption, AbsenceAssumption

Statuses == {"unused", "live", "expired", "ended"}
Points   == {"idle", "indexing", "dropping", "binding", "unsubscribing"}

Types ==
  /\ status \in [Sessions -> Statuses]
  /\ index \subseteq Sessions
  /\ sub \in [Endpoints -> Row \cup {None}]
  /\ rows \in Nat
  /\ pc \in [Requests -> Points]
  /\ req \in [Requests -> [sid : Sessions \cup {None}, endpoint : Endpoints \cup {None}]]
  /\ \A p \in Requests : pc[p] # "idle" => req[p].sid \in Sessions /\ req[p].endpoint \in Endpoints
  /\ kept \subseteq Sessions
  /\ crashed \in BOOLEAN

\* An index row is its session's, and goes with it.
IndexedAreStored == \A s \in index : Stored(s)

\* The unique one-to-one link from a subscription to its session.
OneEndpoint ==
  \A e, d \in Endpoints : sub[e] # None /\ sub[d] # None /\ sub[e].sid = sub[d].sid => e = d

\* A request that has dropped the session's row is about to bind another.
Rebinding(s) == \E p \in Requests : pc[p] = "binding" /\ req[p].sid = s

\* Who subscribed has a row, or a request that is about to make one.
KeptHaveARow == \A s \in kept : s \in index /\ (crashed \/ Bound(s) # {} \/ Rebinding(s))

RebindInv == Types /\ IndexedAreStored /\ HangsOnSession /\ OneEndpoint /\ KeptHaveARow

-----------------------------------------------------------------------------
(* What the statements do to the rows *)

\* Taking rows away leaves the rest as it was.
LEMMA Dropping ==
  ASSUME RebindInv, NEW removed, sub' = Without(removed)
  PROVE  /\ sub' \in [Endpoints -> Row \cup {None}]
         /\ \A e \in Endpoints : sub'[e] # None => e \notin removed /\ sub'[e] = sub[e]
         /\ \A s : Bound(s)' = Bound(s) \ removed
<1>1. sub' = [e \in Endpoints |-> IF e \in removed THEN None ELSE sub[e]]
  BY DEF Without
<1>2. sub' \in [Endpoints -> Row \cup {None}]
  BY <1>1 DEF RebindInv, Types
<1>3. \A e \in Endpoints : sub'[e] # None => e \notin removed /\ sub'[e] = sub[e]
  BY <1>1
<1>4. ASSUME NEW s PROVE Bound(s)' = Bound(s) \ removed
  BY <1>1 DEF Bound
<1>5. QED
  BY <1>2, <1>3, <1>4

\* A step that only takes rows away, and no session, index row or request,
\* keeps the invariant if it takes those that lose their row out of kept.
LEMMA TakingAway ==
  ASSUME RebindInv, NEW removed, sub' = Without(removed),
         UNCHANGED <<status, index, rows, crashed>>,
         kept' = {t \in kept : Bound(t) \cap removed = {}},
         pc' \in [Requests -> Points],
         req' \in [Requests -> [sid : Sessions \cup {None}, endpoint : Endpoints \cup {None}]],
         \A p \in Requests : pc'[p] # "idle" =>
           req'[p].sid \in Sessions /\ req'[p].endpoint \in Endpoints,
         \A s : Rebinding(s) => Rebinding(s)'
  PROVE  RebindInv'
<1>1. Types'
  BY Dropping DEF RebindInv, Types
<1>2. IndexedAreStored'
  BY DEF RebindInv, IndexedAreStored, Stored
<1>3. HangsOnSession'
  BY Dropping DEF RebindInv, HangsOnSession, Stored
<1>4. OneEndpoint'
  BY Dropping DEF RebindInv, OneEndpoint
<1>5. KeptHaveARow'
  <2>1. ASSUME NEW s \in kept' PROVE s \in index' /\ (crashed' \/ Bound(s)' # {} \/ Rebinding(s)')
    <3>1. s \in kept /\ Bound(s) \cap removed = {}
      OBVIOUS
    <3>2. Bound(s)' = Bound(s) \ removed
      BY Dropping
    <3>3. Bound(s)' = Bound(s)
      BY <3>1, <3>2
    <3>4. QED
      BY <3>1, <3>3 DEF RebindInv, KeptHaveARow
  <2>2. QED
    BY <2>1 DEF KeptHaveARow
<1>6. QED
  BY <1>1, <1>2, <1>3, <1>4, <1>5 DEF RebindInv

\* What a step leaves alone, the invariant's parts do not notice.
LEMMA Untouched ==
  ASSUME RebindInv, UNCHANGED <<status, index, sub, rows, pc, req, kept, crashed>>
  PROVE  RebindInv'
BY DEF RebindInv, Types, IndexedAreStored, HangsOnSession, OneEndpoint, KeptHaveARow, Rebinding,
       Bound, Stored

-----------------------------------------------------------------------------
(* The initial state and the steps *)

\* Nothing is subscribed at first.
LEMMA InitInv == Init => RebindInv
<1> SUFFICES ASSUME Init PROVE RebindInv
  OBVIOUS
<1>1. Types
  BY DEF Init, NoReq, Statuses, Points, Types
<1>2. IndexedAreStored /\ HangsOnSession /\ OneEndpoint /\ KeptHaveARow
  BY DEF Init, IndexedAreStored, HangsOnSession, OneEndpoint, KeptHaveARow
<1>3. QED
  BY <1>1, <1>2 DEF RebindInv

\* A session comes, or passes its deadline.
LEMMA SessionStep ==
  ASSUME RebindInv, NEW s \in Sessions, Expire(s) \/ \E i \in BOOLEAN : SignIn(s, i)
  PROVE  RebindInv'
<1> USE DEF RebindInv
<1>1. /\ status' \in [Sessions -> Statuses]
      /\ index \subseteq index' /\ index' \subseteq index \cup {s}
      /\ \A t \in Sessions : Stored(t) => Stored(t)'
      /\ s \in index' => s \in index \/ Stored(s)'
      /\ UNCHANGED <<sub, rows, pc, req, kept, crashed>>
  BY DEF Expire, SignIn, Types, Statuses, Stored
<1>2. Types'
  BY <1>1 DEF Types
<1>3. IndexedAreStored'
  BY <1>1 DEF IndexedAreStored, Types
<1>4. HangsOnSession'
  BY <1>1 DEF HangsOnSession, Types
<1>5. OneEndpoint' /\ KeptHaveARow'
  BY <1>1 DEF OneEndpoint, KeptHaveARow, Rebinding, Bound
<1>6. QED
  BY <1>2, <1>3, <1>4, <1>5

\* A session ends, and takes its index row and its subscription along.
LEMMA EndStep == ASSUME RebindInv, NEW s \in Sessions, EndSession(s) PROVE RebindInv'
<1> USE DEF RebindInv
<1>1. /\ status' = [status EXCEPT ![s] = "ended"]
      /\ index' = index \ {s} /\ kept' = kept \ {s}
      /\ sub' = Without(Bound(s))
      /\ UNCHANGED <<rows, pc, req, crashed>>
  BY DEF EndSession
<1>2. /\ sub' \in [Endpoints -> Row \cup {None}]
      /\ \A e \in Endpoints : sub'[e] # None => e \notin Bound(s) /\ sub'[e] = sub[e]
      /\ \A t : Bound(t)' = Bound(t) \ Bound(s)
  BY <1>1, Dropping
<1>3. Types'
  BY <1>1, <1>2 DEF Types, Statuses
<1>4. \A t \in Sessions \ {s} : Stored(t) => Stored(t)'
  BY <1>1 DEF Stored, Types
<1>5. IndexedAreStored'
  BY <1>1, <1>4 DEF IndexedAreStored, Types
<1>6. HangsOnSession'
  <2>1. ASSUME NEW e \in Endpoints, sub'[e] # None
        PROVE  (sub[e].sid \in index /\ Stored(sub[e].sid) /\ sub[e].user = Owner[sub[e].sid])'
    <3>1. sub'[e] = sub[e] /\ sub[e] # None /\ sub[e].sid # s
      BY <1>2, <2>1 DEF Bound
    <3>2. sub[e].sid \in index /\ sub[e].sid \in Sessions /\ sub[e].user = Owner[sub[e].sid]
      BY <3>1 DEF HangsOnSession, Types
    <3>3. QED
      BY <1>1, <1>5, <3>1, <3>2 DEF IndexedAreStored
  <2>2. QED
    BY <2>1 DEF HangsOnSession
<1>7. OneEndpoint'
  BY <1>2 DEF OneEndpoint
<1>8. KeptHaveARow'
  <2>1. ASSUME NEW t \in kept' PROVE t \in index' /\ (crashed' \/ Bound(t)' # {} \/ Rebinding(t)')
    <3>1. t \in kept /\ t # s
      BY <1>1
    <3>2. Bound(t) \cap Bound(s) = {}
      BY <3>1 DEF Bound
    <3>3. Bound(t)' = Bound(t)
      BY <1>2, <3>2
    <3>4. Rebinding(t) => Rebinding(t)'
      BY <1>1 DEF Rebinding
    <3>5. QED
      BY <1>1, <3>1, <3>3, <3>4 DEF KeptHaveARow
  <2>2. QED
    BY <2>1 DEF KeptHaveARow
<1>9. QED
  BY <1>3, <1>5, <1>6, <1>7, <1>8
\* A request that begins, moves on or ends without touching a row.
LEMMA RequestStep ==
  ASSUME RebindInv, NEW p \in Requests,
         \/ \E s \in Sessions, e \in Endpoints, w \in {"indexing", "unsubscribing"} : Begin(p, s, e, w)
         \/ Crash(p)
  PROVE  RebindInv'
<1> USE DEF RebindInv
<1>1. CASE \E s \in Sessions, e \in Endpoints, w \in {"indexing", "unsubscribing"} : Begin(p, s, e, w)
  <2>1. UNCHANGED <<status, index, sub, rows, kept, crashed>> /\ pc[p] = "idle"
    BY <1>1 DEF Begin
  <2>2. Types'
    BY <1>1 DEF Begin, Types, Points
  <2>3. \A s : Rebinding(s) => Rebinding(s)'
    BY <1>1 DEF Begin, Rebinding, Types
  <2>4. QED
    BY <2>1, <2>2, <2>3 DEF IndexedAreStored, HangsOnSession, OneEndpoint, KeptHaveARow, Stored, Bound
<1>2. CASE Crash(p)
  <2>1. UNCHANGED <<status, index, sub, rows, kept>> /\ crashed'
    BY <1>2 DEF Crash
  <2>2. Types'
    BY <1>2 DEF Crash, End, NoReq, Types, Points
  <2>3. QED
    BY <2>1, <2>2 DEF IndexedAreStored, HangsOnSession, OneEndpoint, KeptHaveARow, Stored
<1>3. QED
  BY <1>1, <1>2

\* The session is looked at once more, and indexed.
LEMMA IndexStep == ASSUME RebindInv, NEW p \in Requests, IndexSession(p) PROVE RebindInv'
<1> USE DEF RebindInv
<1>1. /\ index \subseteq index' /\ \A s \in index' : s \in index \/ (s = req[p].sid /\ Stored(s))
      /\ UNCHANGED <<status, sub, rows, kept, crashed>> /\ pc[p] = "indexing"
  BY DEF IndexSession
<1>2. Types'
  <2>1. CASE Stored(req[p].sid)
    <3>1. pc[p] # "idle" /\ pc' = [pc EXCEPT ![p] = "dropping"] /\ req' = req
      BY <2>1 DEF IndexSession, Go
    <3>2. req[p].sid \in Sessions /\ index' = index \cup {req[p].sid}
      BY <2>1, <3>1 DEF IndexSession, Types
    <3>3. QED
      BY <1>1, <3>1, <3>2 DEF Types, Points
  <2>2. CASE ~Stored(req[p].sid)
    BY <1>1, <2>2 DEF IndexSession, End, NoReq, Types, Points
  <2>3. QED
    BY <2>1, <2>2
<1>3. \A s : Rebinding(s) => Rebinding(s)'
  BY DEF IndexSession, End, Go, Rebinding, Types
<1>4. IndexedAreStored' /\ HangsOnSession' /\ OneEndpoint'
  BY <1>1 DEF IndexedAreStored, HangsOnSession, OneEndpoint, Stored
<1>5. KeptHaveARow'
  BY <1>1, <1>3 DEF KeptHaveARow, Bound
<1>6. QED
  BY <1>2, <1>4, <1>5

\* The session's other row goes, and the request is about to bind.
LEMMA DropStep == ASSUME RebindInv, NEW p \in Requests, DropStale(p) PROVE RebindInv'
<1> USE DEF RebindInv
<1> DEFINE stale == Stale(req[p].sid, req[p].endpoint)
<1>1. /\ pc[p] = "dropping" /\ pc' = [pc EXCEPT ![p] = "binding"]
      /\ sub' = Without(stale)
      /\ UNCHANGED <<status, index, rows, req, kept, crashed>>
  BY DEF DropStale, Go
<1>2. /\ sub' \in [Endpoints -> Row \cup {None}]
      /\ \A e \in Endpoints : sub'[e] # None => e \notin stale /\ sub'[e] = sub[e]
      /\ \A s : Bound(s)' = Bound(s) \ stale
  BY <1>1, Dropping
<1>3. Types'
  BY <1>1, <1>2 DEF Types, Points
<1>4. IndexedAreStored' /\ HangsOnSession' /\ OneEndpoint'
  BY <1>1, <1>2 DEF IndexedAreStored, HangsOnSession, OneEndpoint, Stored
<1>5. KeptHaveARow'
  <2>1. ASSUME NEW s \in kept PROVE Bound(s)' # {} \/ Rebinding(s)' \/ Bound(s) = {}
    <3>1. CASE s = req[p].sid
      BY <1>1, <3>1 DEF Rebinding, Types
    <3>2. CASE s # req[p].sid
      <4>1. Bound(s) \cap stale = {}
        BY <3>2 DEF Stale, Bound
      <4>2. QED
        BY <1>2, <4>1
    <3>3. QED
      BY <3>1, <3>2
  <2>2. \A s : Rebinding(s) => Rebinding(s)'
    BY <1>1 DEF Rebinding, Types
  <2>3. QED
    BY <1>1, <2>1, <2>2 DEF KeptHaveARow
<1>6. QED
  BY <1>3, <1>4, <1>5

\* The row is inserted or rebound, unless the session or its index row is gone
\* or another row is in the way.
LEMMA BindStep == ASSUME RebindInv, NEW p \in Requests, Bind(p) PROVE RebindInv'
<1> USE DEF RebindInv
<1> DEFINE s == req[p].sid
           e == req[p].endpoint
<1>1. /\ pc[p] = "binding" /\ s \in Sessions /\ e \in Endpoints
      /\ UNCHANGED <<status, index, crashed>>
      /\ pc' = [pc EXCEPT ![p] = "idle"] /\ req' = [req EXCEPT ![p] = NoReq]
  BY DEF Bind, End, Types
<1>2. \A t : t # s /\ Rebinding(t) => Rebinding(t)'
  BY <1>1 DEF Rebinding, Types
<1>3. /\ pc' \in [Requests -> Points]
      /\ req' \in [Requests -> [sid : Sessions \cup {None}, endpoint : Endpoints \cup {None}]]
      /\ \A q \in Requests : pc'[q] # "idle" => req'[q].sid \in Sessions /\ req'[q].endpoint \in Endpoints
  BY <1>1 DEF Types, Points, NoReq
<1>4. CASE s \in index /\ Stale(s, e) = {}
  <2> DEFINE row == [sid |-> s, user |-> Owner[s], pk |-> IF sub[e] = None THEN rows ELSE sub[e].pk]
  <2>1. /\ sub' = [sub EXCEPT ![e] = row]
        /\ rows' = IF sub[e] = None THEN rows + 1 ELSE rows
        /\ kept' = {s} \cup {t \in kept : e \notin Bound(t)}
    BY <1>4 DEF Bind
  <2>2. row \in Row /\ row # None /\ rows' \in Nat
    BY <1>1, <2>1 DEF Types, Row
  <2>3. sub' \in [Endpoints -> Row \cup {None}] /\ sub'[e] = row
    BY <1>1, <2>1, <2>2 DEF Types
  <2>4. \A d \in Endpoints \ {e} : sub'[d] = sub[d]
    BY <2>1 DEF Types
  <2>5. Types'
    BY <1>1, <1>3, <2>1, <2>2, <2>3 DEF Types
  <2>6. IndexedAreStored' /\ HangsOnSession'
    BY <1>1, <1>4, <2>3, <2>4 DEF IndexedAreStored, HangsOnSession, Stored
  <2>7. OneEndpoint'
    <3>1. \A d \in Endpoints \ {e} : sub[d] # None => sub[d].sid # s
      BY <1>4 DEF Stale, Bound
    <3>2. QED
      BY <2>3, <2>4, <3>1 DEF OneEndpoint
  <2>8. KeptHaveARow'
    <3>1. ASSUME NEW t \in kept' PROVE t \in index' /\ (crashed' \/ Bound(t)' # {} \/ Rebinding(t)')
      <4>1. CASE t = s
        <5>1. e \in Bound(t)'
          BY <1>1, <2>2, <2>3, <4>1 DEF Bound
        <5>2. QED
          BY <1>1, <1>4, <4>1, <5>1
      <4>2. CASE t # s
        <5>1. t \in kept /\ e \notin Bound(t)
          BY <2>1, <3>1, <4>2
        <5>2. Bound(t) \subseteq Bound(t)'
          BY <2>4, <5>1 DEF Bound
        <5>3. QED
          BY <1>1, <1>2, <4>2, <5>1, <5>2 DEF KeptHaveARow
      <4>3. QED
        BY <4>1, <4>2
    <3>2. QED
      BY <3>1 DEF KeptHaveARow
  <2>9. QED
    BY <2>5, <2>6, <2>7, <2>8
<1>5. CASE ~(s \in index /\ Stale(s, e) = {})
  <2>1. UNCHANGED <<sub, rows, kept>>
    BY <1>5 DEF Bind
  <2>2. Types' /\ IndexedAreStored' /\ HangsOnSession' /\ OneEndpoint'
    BY <1>1, <1>3, <2>1 DEF Types, IndexedAreStored, HangsOnSession, OneEndpoint, Stored
  <2>3. s \in kept => Bound(s) # {}
    BY <1>5 DEF KeptHaveARow, Stale
  <2>4. KeptHaveARow'
    BY <1>1, <1>2, <2>1, <2>3 DEF KeptHaveARow, Bound
  <2>5. QED
    BY <2>2, <2>4
<1>6. QED
  BY <1>4, <1>5

\* The user's own row of the endpoint goes.
LEMMA UnsubscribeStep == ASSUME RebindInv, NEW p \in Requests, Unsubscribe(p) PROVE RebindInv'
<1> DEFINE own == IF sub[req[p].endpoint] # None /\ sub[req[p].endpoint].user = Owner[req[p].sid]
                  THEN {req[p].endpoint} ELSE {}
<1>1. /\ sub' = Without(own) /\ kept' = {t \in kept : Bound(t) \cap own = {}}
      /\ UNCHANGED <<status, index, rows, crashed>>
      /\ pc[p] = "unsubscribing"
      /\ pc' = [pc EXCEPT ![p] = "idle"] /\ req' = [req EXCEPT ![p] = NoReq]
  BY DEF Unsubscribe, End
<1>2. /\ pc' \in [Requests -> Points]
      /\ req' \in [Requests -> [sid : Sessions \cup {None}, endpoint : Endpoints \cup {None}]]
      /\ \A q \in Requests : pc'[q] # "idle" => req'[q].sid \in Sessions /\ req'[q].endpoint \in Endpoints
  BY <1>1 DEF RebindInv, Types, Points, NoReq
<1>3. \A s : Rebinding(s) => Rebinding(s)'
  BY <1>1 DEF RebindInv, Types, Rebinding
<1> HIDE DEF own
<1>4. QED
  BY <1>1, <1>2, <1>3, TakingAway

\* The row that the fan-out read goes, if it is still that row.
LEMMA PruneStep == ASSUME RebindInv, NEW n \in Notes, NEW item, Prune(n, item) PROVE RebindInv'
<1> DEFINE same == IF sub[item.endpoint] # None /\ sub[item.endpoint].pk = item.pk
                   THEN {item.endpoint} ELSE {}
<1>1. /\ sub' = Without(same) /\ kept' = {t \in kept : Bound(t) \cap same = {}}
      /\ UNCHANGED <<status, index, rows, pc, req, crashed>>
  BY DEF Prune
<1>2. /\ pc' \in [Requests -> Points]
      /\ req' \in [Requests -> [sid : Sessions \cup {None}, endpoint : Endpoints \cup {None}]]
      /\ \A q \in Requests : pc'[q] # "idle" => req'[q].sid \in Sessions /\ req'[q].endpoint \in Endpoints
  BY <1>1 DEF RebindInv, Types
<1>3. \A s : Rebinding(s) => Rebinding(s)'
  BY <1>1 DEF Rebinding
<1> HIDE DEF same
<1>4. QED
  BY <1>1, <1>2, <1>3, TakingAway

-----------------------------------------------------------------------------
(* The theorems *)

\* What holds between the statements of subscribe holds for ever, whoever comes
\* between them (djangoapp/views/notifications.py, models/notifications.py).
THEOREM RebindInvariant == Spec => []RebindInv
<1>1. ASSUME RebindInv, [Next]_vars PROVE RebindInv'
  <2>1. ASSUME NEW s \in Sessions, Expire(s) \/ EndSession(s) \/ \E i \in BOOLEAN : SignIn(s, i)
        PROVE  RebindInv'
    BY <1>1, <2>1, SessionStep, EndStep
  <2>2. ASSUME NEW p \in Requests,
               \E s \in Sessions, e \in Endpoints, w \in {"indexing", "unsubscribing"} : Begin(p, s, e, w)
        PROVE  RebindInv'
    BY <1>1, <2>2, RequestStep
  <2>3. ASSUME NEW p \in Requests, Serve(p) \/ Crash(p) PROVE RebindInv'
    BY <1>1, <2>3, RequestStep, IndexStep, DropStep, BindStep, UnsubscribeStep DEF Serve
  <2>4. ASSUME NEW n \in Notes, ReadRows(n) \/ Finish(n) \/ \E q \in BOOLEAN : Record(n, q)
        PROVE  RebindInv'
    BY <1>1, <2>4, Untouched DEF ReadRows, Finish, Record
  <2>5. ASSUME NEW n \in Notes, NEW item \in todo[n], Push(n, item) PROVE RebindInv'
    BY <1>1, <2>5, Untouched DEF Push
  <2>6. ASSUME NEW n \in Notes, NEW item \in todo[n], Prune(n, item) PROVE RebindInv'
    BY <1>1, <2>6, PruneStep
  <2>7. ASSUME NEW e \in Endpoints, Drop(e) PROVE RebindInv'
    BY <1>1, <2>7, Untouched DEF Drop
  <2>8. CASE UNCHANGED vars
    BY <1>1, <2>8, Untouched DEF vars
  <2>9. QED
    BY <1>1, <2>1, <2>2, <2>3, <2>4, <2>5, <2>6, <2>7, <2>8 DEF Next
<1>2. QED
  BY <1>1, InitInv, PTL DEF Spec

\* Any session's end takes exactly its browser's subscription along, and a row
\* is always its session's user's (the CASCADE chain, subscribe's rebind).
THEOREM SubscriptionsHang == Spec => []HangsOnSession
<1>1. RebindInv => HangsOnSession
  BY DEF RebindInv
<1>2. QED
  BY <1>1, RebindInvariant, PTL

\* A session has one endpoint at most, and who subscribed keeps one, however
\* many subscribes meet (subscribe's drop and rebind).
THEOREM SubscribersKeepOne == Spec => []KeepsAnEndpoint
<1>1. RebindInv => KeepsAnEndpoint
  BY DEF RebindInv, OneEndpoint, KeptHaveARow, Rebinding, KeepsAnEndpoint
<1>2. QED
  BY <1>1, RebindInvariant, PTL

=============================================================================
