---------------------------- MODULE SessionProofs ----------------------------
(***************************************************************************)
(* Proofs about Sessions for every set of users, sessions and requests and *)
(* every window of two units or more, without a bound on the clock.  The   *)
(* inductive invariant is SessionInv: how far a session and its index row  *)
(* may part while requests are between their statements.                   *)
(***************************************************************************)
EXTENDS SessionProperties, TLAPS

USE WindowAssumption, KindAssumption, AbsenceAssumption

SessionRow == [user : Users, expire : Nat, fresh : BOOLEAN]
IndexRow   == [user : Users, expire : Nat]
Points     == {"idle", "view", "collected", "respond", "backfill", "touch", "save"}
Request    == [sid : Sids \cup {None}, kind : AllKinds \cup {"none"}, target : Users \cup {None}]
Memory     == [fresh : BOOLEAN, expire : Nat, victims : SUBSET Sids, modified : BOOLEAN]

Types ==
  /\ now \in Nat
  /\ session \in [Sids -> SessionRow \cup {None}]
  /\ index \in [Sids -> IndexRow \cup {None}]
  /\ drawn \subseteq Sids
  /\ seen \in [Sids -> Nat]
  /\ pc \in [Requests -> Points]
  /\ req \in [Requests -> Request]
  /\ mem \in [Requests -> Memory]
  /\ \A p \in Requests : pc[p] # "idle" => req[p].sid \in drawn

\* A touch has moved the session's index row, and its save is to come.
Pending(s) == \E p \in Requests : pc[p] = "save" /\ mem[p].modified /\ req[p].sid = s

\* A row is at most a window ahead; an index row is its session's, and less
\* than a window behind it. They agree, and half a window is left from the last
\* request, but for what is upset or has a save to come.
SessionOK(s) ==
  /\ session[s] # None => s \in drawn /\ session[s].expire <= now + Window
  /\ index[s] # None =>
       /\ session[s] # None /\ index[s].user = session[s].user
       /\ index[s].expire <= now + Window /\ session[s].expire < index[s].expire + Window
       /\ index[s].expire < session[s].expire + Window
       /\ s \in ahead \/ Pending(s) \/ index[s].expire <= session[s].expire
  /\ s \notin upset /\ session[s] # None =>
       /\ index[s] # None /\ session[s].expire <= index[s].expire
       /\ \/ Pending(s)
          \/ index[s].expire <= session[s].expire /\ session[s].expire >= seen[s] + Window \div 2

\* What a request has found out, as far as its session is still there.
Stands(p, s) ==
  /\ session[s].expire > now
  /\ pc[p] = "touch" => index[s] # None
  /\ pc[p] = "save" => index[s] # None
  /\ pc[p] \in {"backfill", "save"} /\ index[s] # None => index[s].expire > now
  /\ pc[p] = "backfill" => mem[p].expire <= session[s].expire
  /\ mem[p].modified => index[s].expire = now + Window
  /\ pc[p] \in {"backfill", "save"} /\ ~mem[p].modified /\ s \notin upset =>
       Pending(s) \/ session[s].expire >= now + Window \div 2

RequestOK(p) ==
  /\ mem[p].modified => pc[p] = "save"
  /\ pc[p] = "backfill" => mem[p].expire > now /\ mem[p].expire <= now + Window
  /\ pc[p] # "idle" /\ session[req[p].sid] # None => Stands(p, req[p].sid)

SessionInv ==
  Types /\ (\A s \in Sids : SessionOK(s)) /\ (\A p \in Requests : RequestOK(p))

-----------------------------------------------------------------------------
(* What the steps have in common *)

\* The last parts of the invariant, for a session that a step leaves alone.
LEMMA SessionFrame ==
  ASSUME Types, NEW s \in Sids, SessionOK(s), now' = now, drawn \subseteq drawn',
         session'[s] = session[s], index'[s] = index[s], seen'[s] = seen[s],
         s \in upset => s \in upset', s \in ahead => s \in ahead',
         Pending(s) => Pending(s)' \/ (s \in upset' /\ s \in ahead')
  PROVE  SessionOK(s)'
BY DEF SessionOK

\* And for a request that a step leaves alone, with its session or without it.
LEMMA RequestFrame ==
  ASSUME Types, NEW p \in Requests, RequestOK(p), now' = now,
         pc'[p] = pc[p], req'[p] = req[p], mem'[p] = mem[p],
         \/ session'[req[p].sid] = None
         \/ /\ session'[req[p].sid] = session[req[p].sid]
            /\ index'[req[p].sid] = index[req[p].sid]
            /\ req[p].sid \in upset => req[p].sid \in upset'
            /\ req[p].sid \notin upset' => (Pending(req[p].sid) => Pending(req[p].sid)')
  PROVE  RequestOK(p)'
BY DEF RequestOK, Stands

\* Deleted sessions take what the invariant says of them along.
LEMMA DropStep ==
  ASSUME SessionInv, NEW S, Drop(S), UNCHANGED <<now, drawn, seen, upset, ahead>>, Types',
         \A s \in Sids : Pending(s) => Pending(s)',
         \A p \in Requests : \/ UNCHANGED <<pc[p], req[p], mem[p]>>
                             \/ RequestOK(p)'
  PROVE  SessionInv'
<1>1. /\ \A s \in Sids \ S : session'[s] = session[s] /\ index'[s] = index[s]
      /\ \A s \in Sids \cap S : session'[s] = None /\ index'[s] = None
  BY DEF Drop
<1>2. ASSUME NEW s \in Sids PROVE SessionOK(s)'
  <2>1. CASE s \in S
    BY <1>1, <2>1 DEF SessionOK
  <2>2. CASE s \notin S
    BY <1>1, <2>2, SessionFrame DEF SessionInv
  <2>3. QED
    BY <2>1, <2>2
<1>3. ASSUME NEW p \in Requests PROVE RequestOK(p)'
  <2>1. CASE UNCHANGED <<pc[p], req[p], mem[p]>>
    <3>1. CASE pc[p] = "idle"
      BY <2>1, <3>1 DEF SessionInv, RequestOK
    <3>2. CASE pc[p] # "idle"
      <4>1. req[p].sid \in Sids
        BY <3>2 DEF SessionInv, Types
      <4>2. \/ session'[req[p].sid] = None
            \/ session'[req[p].sid] = session[req[p].sid] /\ index'[req[p].sid] = index[req[p].sid]
        BY <1>1, <4>1
      <4>3. QED
        BY <2>1, <4>1, <4>2, RequestFrame DEF SessionInv
    <3>3. QED
      BY <3>1, <3>2
  <2>2. QED
    BY <2>1
<1>4. QED
  BY <1>2, <1>3 DEF SessionInv

\* A request's step that changes nothing but what the request knows.
LEMMA OwnStep ==
  ASSUME SessionInv, NEW p \in Requests, UNCHANGED <<now, session, index, drawn, seen, upset, ahead>>,
         ~(pc[p] = "save" /\ mem[p].modified), Types', RequestOK(p)',
         \A q \in Requests \ {p} : UNCHANGED <<pc[q], req[q], mem[q]>>
  PROVE  SessionInv'
<1>1. \A s : Pending(s) => Pending(s)'
  BY DEF Pending
<1>2. ASSUME NEW s \in Sids PROVE SessionOK(s)'
  BY <1>1, SessionFrame DEF SessionInv
<1>3. ASSUME NEW q \in Requests, q # p PROVE RequestOK(q)'
  BY <1>1, <1>3, RequestFrame DEF SessionInv
<1>4. QED
  BY <1>2, <1>3 DEF SessionInv

\* A step that changes one session: the rest of the invariant stays.
LEMMA OneSession ==
  ASSUME SessionInv, Types', now' = now, drawn \subseteq drawn', NEW s \in Sids, SessionOK(s)',
         \A t \in Sids \ {s} : /\ UNCHANGED <<session[t], index[t], seen[t]>>
                               /\ (t \in upset <=> t \in upset') /\ (t \in ahead <=> t \in ahead')
                               /\ (Pending(t) => Pending(t)'),
         \A q \in Requests : pc[q] = "idle" \/ req[q].sid = s => RequestOK(q)',
         \A q \in Requests : pc[q] # "idle" /\ req[q].sid # s => UNCHANGED <<pc[q], req[q], mem[q]>>
  PROVE  SessionInv'
<1>1. ASSUME NEW t \in Sids, t # s PROVE SessionOK(t)'
  BY <1>1, SessionFrame DEF SessionInv
<1>2. ASSUME NEW q \in Requests, pc[q] # "idle", req[q].sid # s PROVE RequestOK(q)'
  <2>1. req[q].sid \in Sids
    BY <1>2 DEF SessionInv, Types
  <2>2. QED
    BY <1>2, <2>1, RequestFrame DEF SessionInv
<1>3. QED
  BY <1>1, <1>2 DEF SessionInv

\* A request that has ended owes nothing.
LEMMA Ended ==
  ASSUME Types, NEW p \in Requests, End(p)
  PROVE  /\ pc' \in [Requests -> Points] /\ req' \in [Requests -> Request] /\ mem' \in [Requests -> Memory]
         /\ \A q \in Requests : pc'[q] # "idle" => req'[q].sid \in drawn
         /\ pc'[p] = "idle" /\ RequestOK(p)'
         /\ \A q \in Requests \ {p} : UNCHANGED <<pc[q], req[q], mem[q]>>
<1>1. NoReq \in Request /\ NoMem \in Memory
  BY DEF NoReq, NoMem, Request, Memory
<1>2. pc' = [pc EXCEPT ![p] = "idle"] /\ req' = [req EXCEPT ![p] = NoReq] /\ mem' = [mem EXCEPT ![p] = NoMem]
  BY DEF End
<1>3. /\ pc' \in [Requests -> Points] /\ req' \in [Requests -> Request] /\ mem' \in [Requests -> Memory]
      /\ pc'[p] = "idle" /\ mem'[p] = NoMem
      /\ \A q \in Requests \ {p} : UNCHANGED <<pc[q], req[q], mem[q]>>
  BY <1>1, <1>2 DEF Types, Points
<1>4. RequestOK(p)'
  BY <1>3 DEF RequestOK, NoMem
<1>5. \A q \in Requests : pc'[q] # "idle" => req'[q].sid \in drawn
  BY <1>3 DEF Types
<1>6. QED
  BY <1>3, <1>4, <1>5

-----------------------------------------------------------------------------
(* The steps *)

\* At first there is no session.
LEMMA InitInv == Init => SessionInv
<1> SUFFICES ASSUME Init PROVE SessionInv
  OBVIOUS
<1>1. NoReq \in Request /\ NoMem \in Memory
  BY DEF NoReq, NoMem, Request, Memory
<1>2. Types
  BY <1>1 DEF Init, Types, Points
<1>3. \A s \in Sids : SessionOK(s)
  BY DEF Init, SessionOK
<1>4. \A p \in Requests : RequestOK(p)
  BY DEF Init, RequestOK, NoMem
<1>5. QED
  BY <1>2, <1>3, <1>4 DEF SessionInv

\* The clock only moves when no request is in flight.
LEMMA TickStep == ASSUME SessionInv, Tick PROVE SessionInv'
<1>1. /\ now' = now + 1 /\ \A p \in Requests : pc[p] = "idle"
      /\ UNCHANGED <<session, index, drawn, seen, pc, req, mem, upset, ahead>>
  BY DEF Tick
<1>2. Types'
  BY <1>1 DEF SessionInv, Types
<1>3. \A s \in Sids : ~Pending(s)
  BY <1>1 DEF Pending
<1>4. ASSUME NEW s \in Sids PROVE SessionOK(s)'
  <2>1. /\ session[s] # None => session[s].expire \in Nat
        /\ index[s] # None => index[s].expire \in Nat
        /\ now \in Nat /\ Window \in Nat
    BY DEF SessionInv, Types, SessionRow, IndexRow
  <2>2. QED
    BY <1>1, <1>3, <2>1 DEF SessionInv, SessionOK
<1>5. \A p \in Requests : RequestOK(p)'
  BY <1>1 DEF SessionInv, RequestOK
<1>6. QED
  BY <1>2, <1>4, <1>5 DEF SessionInv

\* The sweep takes sessions and their index rows together.
LEMMA SweepStep == ASSUME SessionInv, ClearExpired PROVE SessionInv'
<1> DEFINE S == {s \in Sids : session[s] # None /\ session[s].expire < now}
<1>1. Drop(S) /\ UNCHANGED <<now, drawn, seen, pc, req, mem, upset, ahead>>
  BY DEF ClearExpired
<1>2. Types'
  BY <1>1 DEF SessionInv, Types, Drop
<1>3. \A s \in Sids : Pending(s) => Pending(s)'
  BY <1>1 DEF Pending
<1> HIDE DEF S
<1>4. QED
  BY <1>1, <1>2, <1>3, DropStep

\* An anonymous browser signs in: session and index row agree.
LEMMA LoginStep ==
  ASSUME SessionInv, NEW u \in Users, NEW s \in Sids, Login(u, s) PROVE SessionInv'
<1>1. /\ s \notin drawn /\ drawn' = drawn \cup {s}
      /\ session' = [session EXCEPT ![s] = NewSession(u)]
      /\ index' = [index EXCEPT ![s] = [user |-> u, expire |-> now + Window]]
      /\ seen' = [seen EXCEPT ![s] = now]
      /\ UNCHANGED <<now, pc, req, mem, upset, ahead>>
  BY DEF Login
<1>2. NewSession(u) \in SessionRow /\ [user |-> u, expire |-> now + Window] \in IndexRow
  BY DEF NewSession, SessionRow, IndexRow, SessionInv, Types
<1>3. Types'
  BY <1>1, <1>2 DEF SessionInv, Types
<1>4. ASSUME NEW t \in Sids PROVE SessionOK(t)'
  <2>1. CASE t = s
    <3>1. /\ session'[s] = NewSession(u) /\ index'[s] = [user |-> u, expire |-> now + Window]
          /\ seen'[s] = now /\ s \in drawn' /\ now' = now
      BY <1>1 DEF SessionInv, Types
    <3>2. /\ session'[s].expire = now + Window /\ session'[s].user = u /\ index'[s] # None
          /\ index'[s].expire = now + Window /\ index'[s].user = u
      BY <1>2, <3>1 DEF NewSession, IndexRow
    <3>3. /\ now \in Nat /\ Window \in Nat \ {0} /\ Window \div 2 \in Nat
          /\ Window \div 2 <= Window /\ now + Window < now + Window + Window
      BY DEF SessionInv, Types
    <3>4. session'[s].expire >= seen'[s] + Window \div 2
      BY <3>1, <3>2, <3>3
    <3>5. session'[s] # None
      BY <1>2, <3>1 DEF SessionRow
    <3>6. QED
      BY <2>1, <3>1, <3>2, <3>3, <3>4, <3>5 DEF SessionOK
  <2>2. CASE t # s
    <3>1. session'[t] = session[t] /\ index'[t] = index[t] /\ seen'[t] = seen[t] /\ (Pending(t) => Pending(t)')
      BY <1>1, <2>2 DEF SessionInv, Types, Pending
    <3>2. QED
      BY <1>1, <3>1, SessionFrame DEF SessionInv
  <2>3. QED
    BY <2>1, <2>2
<1>5. ASSUME NEW p \in Requests PROVE RequestOK(p)'
  <2>1. CASE pc[p] = "idle"
    BY <1>1, <2>1 DEF SessionInv, RequestOK
  <2>2. CASE pc[p] # "idle"
    <3>1. req[p].sid \in drawn /\ req[p].sid \in Sids
      BY <2>2 DEF SessionInv, Types
    <3>2. /\ session'[req[p].sid] = session[req[p].sid] /\ index'[req[p].sid] = index[req[p].sid]
          /\ (Pending(req[p].sid) => Pending(req[p].sid)')
      BY <1>1, <3>1 DEF SessionInv, Types, Pending
    <3>3. QED
      BY <1>1, <3>2, RequestFrame DEF SessionInv
  <2>3. QED
    BY <2>1, <2>2
<1>6. QED
  BY <1>3, <1>4, <1>5 DEF SessionInv

\* A browser signs in over another user's session: that one goes, and the new
\* one is upset until it is indexed and touched.
LEMMA ReloginStep ==
  ASSUME SessionInv, NEW u \in Users, NEW s \in Sids, NEW old \in Sids, Relogin(u, s, old)
  PROVE  SessionInv'
<1>1. /\ s \notin drawn /\ drawn' = drawn \cup {s} /\ session[old] # None
      /\ session' = [session EXCEPT ![old] = None, ![s] = NewSession(u)]
      /\ index' = [index EXCEPT ![old] = None]
      /\ seen' = [seen EXCEPT ![s] = now] /\ upset' = upset \cup {s}
      /\ UNCHANGED <<now, pc, req, mem, ahead>>
  BY DEF Relogin, Live
<1>2. NewSession(u) \in SessionRow /\ NewSession(u).expire = now + Window
  BY DEF NewSession, SessionRow, SessionInv, Types
<1>3. Types'
  BY <1>1, <1>2 DEF SessionInv, Types
<1>4. old # s /\ session[s] = None /\ index[s] = None
  BY <1>1 DEF SessionInv, SessionOK
<1>5. /\ session'[s] = NewSession(u) /\ session'[old] = None /\ index'[s] = None /\ index'[old] = None
      /\ \A t \in Sids \ {s, old} : UNCHANGED <<session[t], index[t], seen[t]>>
  BY <1>1, <1>4 DEF SessionInv, Types
<1>6. \A t \in Sids : Pending(t) => Pending(t)'
  BY <1>1 DEF Pending
<1>7. ASSUME NEW t \in Sids PROVE SessionOK(t)'
  <2>1. CASE t = s
    BY <1>1, <1>2, <1>5, <2>1 DEF SessionOK, SessionInv, Types
  <2>2. CASE t = old
    BY <1>5, <2>2 DEF SessionOK
  <2>3. CASE t \notin {s, old}
    BY <1>1, <1>5, <1>6, <2>3, SessionFrame DEF SessionInv
  <2>4. QED
    BY <2>1, <2>2, <2>3
<1>8. ASSUME NEW p \in Requests PROVE RequestOK(p)'
  <2>1. CASE pc[p] = "idle"
    BY <1>1, <2>1 DEF SessionInv, RequestOK
  <2>2. CASE pc[p] # "idle"
    <3>1. req[p].sid \in drawn /\ req[p].sid \in Sids /\ req[p].sid # s
      BY <1>1, <2>2 DEF SessionInv, Types
    <3>2. \/ session'[req[p].sid] = None
          \/ session'[req[p].sid] = session[req[p].sid] /\ index'[req[p].sid] = index[req[p].sid]
      BY <1>1, <1>5, <3>1
    <3>3. QED
      BY <1>1, <1>6, <3>1, <3>2, RequestFrame DEF SessionInv
  <2>3. QED
    BY <2>1, <2>2
<1>9. QED
  BY <1>3, <1>7, <1>8 DEF SessionInv

\* A request begins with a live session.
LEMMA BeginStep ==
  ASSUME SessionInv, NEW p \in Requests, Arrive(p) PROVE SessionInv'
<1>1. PICK s \in Sids, k \in Kinds, u \in Users \cup {None} : Begin(p, s, k, u)
  BY DEF Arrive
<1>2. /\ pc[p] = "idle" /\ Live(s)
      /\ pc' = [pc EXCEPT ![p] = "view"]
      /\ req' = [req EXCEPT ![p] = [sid |-> s, kind |-> k, target |-> u]]
      /\ mem' = [mem EXCEPT ![p].fresh = session[s].fresh]
      /\ UNCHANGED <<now, session, index, drawn, seen, upset, ahead>>
  BY <1>1 DEF Begin
<1>3. s \in drawn /\ session[s] \in SessionRow /\ session[s].expire > now
  BY <1>2 DEF Live, SessionInv, SessionOK, Types
<1>4. /\ mem' \in [Requests -> Memory] /\ mem'[p].modified = mem[p].modified
      /\ \A q \in Requests \ {p} : mem'[q] = mem[q]
  BY <1>2, <1>3 DEF SessionInv, Types, Memory, SessionRow
<1>5. Types'
  BY <1>2, <1>3, <1>4 DEF SessionInv, Types, Points, Request
<1>6. ~mem[p].modified
  BY <1>2 DEF SessionInv, RequestOK
<1>7. pc'[p] = "view" /\ req'[p].sid = s
  BY <1>2 DEF SessionInv, Types
<1>8. RequestOK(p)'
  BY <1>2, <1>3, <1>4, <1>6, <1>7 DEF RequestOK, Stands
<1>9. \A q \in Requests \ {p} : UNCHANGED <<pc[q], req[q], mem[q]>>
  BY <1>2, <1>4 DEF SessionInv, Types
<1>10. QED
  BY <1>2, <1>5, <1>6, <1>8, <1>9, OwnStep

\* The view's steps that leave the sessions alone.
LEMMA ViewStep ==
  ASSUME SessionInv, NEW p \in Requests, View(p) \/ Collect(p) PROVE SessionInv'
<1>1. /\ pc[p] = "view" /\ UNCHANGED <<now, session, index, drawn, seen, req, upset, ahead>>
      /\ \/ pc' = [pc EXCEPT ![p] = "respond"]
         \/ pc' = [pc EXCEPT ![p] = "collected"]
  BY DEF View, Collect
<1>2. /\ mem' \in [Requests -> Memory] /\ mem'[p].modified = mem[p].modified
      /\ \A q \in Requests \ {p} : mem'[q] = mem[q]
  <2>1. CASE View(p)
    BY <2>1 DEF View, SessionInv, Types
  <2>2. CASE Collect(p)
    BY <2>2 DEF Collect, SessionInv, Types, Memory
  <2>3. QED
    BY <2>1, <2>2
<1>3. Types'
  BY <1>1, <1>2 DEF SessionInv, Types, Points
<1>4. ~mem[p].modified /\ pc'[p] \in {"respond", "collected"}
  BY <1>1 DEF SessionInv, RequestOK, Types
<1>5. RequestOK(p)'
  BY <1>1, <1>2, <1>4 DEF SessionInv, RequestOK, Stands
<1>6. \A q \in Requests \ {p} : UNCHANGED <<pc[q], req[q], mem[q]>>
  BY <1>1, <1>2 DEF SessionInv, Types
<1>7. QED
  BY <1>1, <1>3, <1>4, <1>5, <1>6, OwnStep

\* A logout, or the second statement of a "log out everywhere".
LEMMA EndStep ==
  ASSUME SessionInv, NEW p \in Requests, Logout(p) \/ EndSessions(p) PROVE SessionInv'
<1>1. CASE Logout(p)
  <2>1. /\ pc[p] = "view" /\ Drop({req[p].sid}) /\ End(p)
        /\ UNCHANGED <<now, drawn, seen, upset, ahead>>
    BY <1>1 DEF Logout
  <2>2. Types'
    BY <2>1, Ended DEF SessionInv, Types, Drop
  <2>3. \A s \in Sids : Pending(s) => Pending(s)'
    BY <2>1, Ended DEF SessionInv, Pending
  <2>4. \A q \in Requests : UNCHANGED <<pc[q], req[q], mem[q]>> \/ RequestOK(q)'
    BY <2>1, Ended DEF SessionInv
  <2>5. QED
    BY <2>1, <2>2, <2>3, <2>4, DropStep
<1>2. CASE EndSessions(p)
  <2>1. /\ pc[p] = "collected" /\ Drop(mem[p].victims)
        /\ pc' = [pc EXCEPT ![p] = "respond"]
        /\ UNCHANGED <<now, drawn, seen, req, mem, upset, ahead>>
    BY <1>2 DEF EndSessions
  <2>2. Types'
    BY <2>1 DEF SessionInv, Types, Drop, Points
  <2>3. \A s \in Sids : Pending(s) => Pending(s)'
    BY <2>1 DEF SessionInv, Types, Pending
  <2>4. ~mem[p].modified /\ pc'[p] = "respond"
    BY <2>1 DEF SessionInv, RequestOK, Types
  <2>5. RequestOK(p)'
    <3>1. req[p].sid \in Sids
      BY <2>1 DEF SessionInv, Types
    <3>2. session'[req[p].sid] # None => session'[req[p].sid] = session[req[p].sid]
      BY <2>1, <3>1 DEF Drop
    <3>3. QED
      BY <2>1, <2>4, <3>2 DEF SessionInv, RequestOK, Stands
  <2>6. \A q \in Requests : UNCHANGED <<pc[q], req[q], mem[q]>> \/ RequestOK(q)'
    BY <2>1, <2>5 DEF SessionInv, Types
  <2>7. QED
    BY <2>1, <2>2, <2>3, <2>6, DropStep
<1>3. QED
  BY <1>1, <1>2

\* The response looks at the index row: with half a window gone it will touch,
\* otherwise half a window is left.
LEMMA TouchReadStep ==
  ASSUME Window > 1, SessionInv, NEW p \in Requests, TouchRead(p) PROVE SessionInv'
<1> DEFINE s == req[p].sid
<1>1. /\ pc[p] = "respond" /\ s \in Sids
      /\ UNCHANGED <<now, session, index, drawn, seen, req, upset, ahead>>
  BY DEF TouchRead, SessionInv, Types
<1>2. ~mem[p].modified /\ (session[s] # None => session[s].expire > now /\ session[s] \in SessionRow)
  BY <1>1 DEF SessionInv, RequestOK, Stands, Types
<1>3. now \in Nat /\ Window \div 2 \in Nat /\ 1 <= Window \div 2 /\ SessionOK(s)
  BY <1>1 DEF SessionInv, Types
<1>4. CASE index[s] = None /\ session[s] # None
  <2>1. /\ pc' = [pc EXCEPT ![p] = "backfill"]
        /\ mem' = [mem EXCEPT ![p].expire = session[s].expire]
    BY <1>4 DEF TouchRead
  <2>2. /\ mem' \in [Requests -> Memory] /\ mem'[p].modified = mem[p].modified
        /\ mem'[p].expire = session[s].expire
    BY <1>2, <1>4, <2>1 DEF SessionInv, Types, Memory, SessionRow
  <2>3. Types' /\ pc'[p] = "backfill"
    BY <1>1, <2>1, <2>2 DEF SessionInv, Types, Points
  <2>4. RequestOK(p)'
    <3>1. s \in upset /\ session[s].expire <= now + Window /\ session[s].expire \in Nat
      BY <1>2, <1>3, <1>4 DEF SessionOK, SessionRow
    <3>2. QED
      BY <1>1, <1>2, <1>3, <1>4, <2>2, <2>3, <3>1 DEF RequestOK, Stands
  <2>5. \A q \in Requests \ {p} : UNCHANGED <<pc[q], req[q], mem[q]>>
    BY <1>1, <2>1 DEF SessionInv, Types
  <2>6. QED
    BY <1>1, <1>2, <2>3, <2>4, <2>5, OwnStep
<1>5. CASE ~(index[s] = None /\ session[s] # None)
  <2>1. /\ mem' = mem
        /\ pc' = [pc EXCEPT ![p] = IF index[s] = None THEN "save"
                                  ELSE IF Due(index[s].expire) THEN "touch" ELSE "save"]
    BY <1>5 DEF TouchRead
  <2>2. Types'
    BY <1>1, <2>1 DEF SessionInv, Types, Points
  <2>3. \A t : Pending(t) => Pending(t)'
    BY <1>1, <1>2, <2>1 DEF Pending, SessionInv, Types
  <2>4. RequestOK(p)'
    <3>1. CASE index[s] = None
      <4>1. session[s] = None /\ pc'[p] = "save"
        BY <1>1, <1>5, <2>1, <3>1 DEF SessionInv, Types
      <4>2. QED
        BY <1>1, <1>2, <2>1, <4>1 DEF RequestOK
    <3>2. CASE index[s] # None /\ Due(index[s].expire)
      <4>1. pc'[p] = "touch"
        BY <2>1, <3>2 DEF SessionInv, Types
      <4>2. QED
        BY <1>1, <1>2, <2>1, <3>2, <4>1 DEF RequestOK, Stands
    <3>3. CASE index[s] # None /\ ~Due(index[s].expire)
      <4>1. pc'[p] = "save" /\ index[s].expire \in Nat
        BY <1>1, <2>1, <3>3 DEF SessionInv, Types, IndexRow
      <4>2. index[s].expire >= now + Window \div 2
        BY <1>3, <3>3, <4>1 DEF Due
      <4>3. session[s] # None
        BY <1>3, <3>3 DEF SessionOK
      <4>4. s \notin upset => Pending(s) \/ session[s].expire >= now + Window \div 2
        BY <1>2, <1>3, <3>3, <4>1, <4>2, <4>3 DEF SessionOK, SessionRow
      <4>5. QED
        BY <1>1, <1>2, <1>3, <2>1, <2>3, <3>3, <4>1, <4>2, <4>4 DEF RequestOK, Stands
    <3>4. QED
      BY <3>1, <3>2, <3>3
  <2>5. \A q \in Requests \ {p} : UNCHANGED <<pc[q], req[q], mem[q]>>
    BY <1>1, <2>1 DEF SessionInv, Types
  <2>6. QED
    BY <1>1, <1>2, <2>2, <2>4, <2>5, OwnStep
<1>6. QED
  BY <1>4, <1>5

\* The index row that was missing is made from a deadline that still holds.
LEMMA BackfillStep ==
  ASSUME SessionInv, NEW p \in Requests, Backfill(p) PROVE SessionInv'
<1>1. /\ pc[p] = "backfill" /\ req[p].sid \in Sids
      /\ UNCHANGED <<now, session, drawn, seen, upset, ahead>>
  BY DEF Backfill, SessionInv, Types
<1> PICK s \in Sids : req[p].sid = s
  BY <1>1
<1>2. /\ ~mem[p].modified
      /\ mem[p].expire > now /\ mem[p].expire <= now + Window /\ mem[p].expire \in Nat
  BY <1>1 DEF SessionInv, RequestOK, Types, Memory
<1>3. CASE session[s] = None
  <2>1. End(p) /\ index' = index
    BY <1>3 DEF Backfill
  <2>2. Types'
    BY <1>1, <2>1, Ended DEF SessionInv, Types
  <2>3. QED
    BY <1>1, <1>2, <2>1, <2>2, Ended, OwnStep DEF SessionInv
<1>4. CASE session[s] # None
  <2> DEFINE row == [user |-> session[s].user, expire |-> mem[p].expire]
  <2>1. /\ index' = IF index[s] # None THEN index ELSE [index EXCEPT ![s] = row]
        /\ pc' = [pc EXCEPT ![p] = "save"] /\ UNCHANGED <<req, mem>>
    BY <1>4 DEF Backfill
  <2>2. session[s] \in SessionRow /\ session[s].expire > now /\ s \in drawn
    BY <1>1, <1>4 DEF SessionInv, Types, RequestOK, Stands
  <2>3. row \in IndexRow /\ row # None
    BY <1>2, <2>2 DEF SessionRow, IndexRow
  <2>4. /\ index' \in [Sids -> IndexRow \cup {None}] /\ pc' \in [Requests -> Points]
        /\ index'[s] = IF index[s] # None THEN index[s] ELSE row
        /\ \A t \in Sids \ {s} : index'[t] = index[t]
        /\ pc'[p] = "save" /\ \A q \in Requests \ {p} : pc'[q] = pc[q]
    BY <1>1, <2>1, <2>3 DEF SessionInv, Types, Points
  <2>5. Types'
    BY <1>1, <2>1, <2>4 DEF SessionInv, Types
  <2>6. \A t : Pending(t) => Pending(t)'
    BY <1>2, <2>1, <2>4 DEF Pending
  <2>7. now \in Nat /\ Window \in Nat \ {0} /\ SessionOK(s) /\ session[s].expire \in Nat
    BY <1>1, <2>2 DEF SessionInv, Types, SessionRow
  <2>8. SessionOK(s)'
    <3>1. CASE index[s] # None
      <4>1. index'[s] = index[s] /\ (Pending(s) => Pending(s)')
        BY <2>4, <2>6, <3>1
      <4>2. QED
        BY <1>1, <2>7, <4>1, SessionFrame DEF SessionInv
    <3>2. CASE index[s] = None
      <4>1. s \in upset /\ session[s].expire <= now + Window
        BY <1>4, <2>7, <3>2 DEF SessionOK
      <4>2. index'[s].expire = mem[p].expire /\ index'[s].user = session[s].user
        BY <2>4, <3>2
      <4>3. session[s].expire < mem[p].expire + Window
        BY <1>2, <2>7, <4>1
      <4>4. index'[s].expire <= now + Window /\ session[s].expire < index'[s].expire + Window
        BY <1>2, <4>2, <4>3
      <4>5. mem[p].expire <= session[s].expire
        BY <1>1, <1>4 DEF SessionInv, RequestOK, Stands
      <4>6. index'[s].expire <= session[s].expire /\ index'[s].expire < session[s].expire + Window
        BY <1>2, <2>7, <4>2, <4>5
      <4>7. QED
        BY <1>1, <1>4, <2>2, <4>1, <4>2, <4>4, <4>6 DEF SessionOK
    <3>3. QED
      BY <3>1, <3>2
  <2>9. ASSUME NEW q \in Requests, pc[q] = "idle" \/ req[q].sid = s PROVE RequestOK(q)'
    <3>1. CASE q = p
      <4>1. index'[s] # None /\ index'[s].expire > now
        BY <1>1, <1>2, <1>4, <2>3, <2>4 DEF SessionInv, RequestOK, Stands
      <4>2. s \notin upset => Pending(s) \/ session[s].expire >= now + Window \div 2
        BY <1>1, <1>2, <1>4 DEF SessionInv, RequestOK, Stands
      <4>3. QED
        BY <1>1, <1>2, <2>1, <2>2, <2>4, <2>6, <3>1, <4>1, <4>2 DEF RequestOK, Stands
    <3>2. CASE q # p
      BY <1>1, <1>2, <1>4, <2>1, <2>3, <2>4, <2>6, <2>9, <3>2 DEF SessionInv, RequestOK, Stands
    <3>3. QED
      BY <3>1, <3>2
  <2>10. QED
    BY <1>1, <2>1, <2>4, <2>5, <2>6, <2>8, <2>9, OneSession
<1>5. QED
  BY <1>3, <1>4

\* The index row is re-armed, and the save of the session is to come.
LEMMA TouchStep == ASSUME SessionInv, NEW p \in Requests, Touch(p) PROVE SessionInv'
<1>1. /\ pc[p] = "touch" /\ req[p].sid \in Sids
      /\ UNCHANGED <<now, session, drawn, seen, req, upset, ahead>>
  BY DEF Touch, SessionInv, Types
<1> PICK s \in Sids : req[p].sid = s
  BY <1>1
<1>2. /\ index' = IF index[s] = None THEN index ELSE [index EXCEPT ![s].expire = now + Window]
      /\ mem' = [mem EXCEPT ![p].modified = TRUE]
      /\ pc' = [pc EXCEPT ![p] = "save"]
  BY DEF Touch
<1>3. /\ pc' \in [Requests -> Points] /\ mem' \in [Requests -> Memory]
      /\ pc'[p] = "save" /\ mem'[p].modified
      /\ \A q \in Requests \ {p} : UNCHANGED <<pc[q], mem[q]>>
  <2>1. mem[p] \in Memory
    BY DEF SessionInv, Types
  <2>2. [mem[p] EXCEPT !.modified = TRUE] \in Memory
    BY <2>1 DEF Memory
  <2>3. mem'[p] = [mem[p] EXCEPT !.modified = TRUE]
    BY <1>2 DEF SessionInv, Types
  <2>4. mem'[p].modified
    BY <2>1, <2>3 DEF Memory
  <2>5. QED
    BY <1>2, <2>2, <2>4 DEF SessionInv, Types, Points
<1>4. now \in Nat /\ Window \in Nat \ {0} /\ now + Window \in Nat
  BY DEF SessionInv, Types
<1>5. /\ index' \in [Sids -> IndexRow \cup {None}]
      /\ \A t \in Sids \ {s} : index'[t] = index[t]
      /\ index[s] = None => index'[s] = None
      /\ index[s] # None => /\ index'[s] # None
                           /\ index'[s].expire = now + Window /\ index'[s].user = index[s].user
  <2>1. CASE index[s] = None
    BY <1>2, <2>1 DEF SessionInv, Types
  <2>2. CASE index[s] # None
    <3>1. index[s] \in IndexRow
      BY <2>2 DEF SessionInv, Types
    <3>2. [index[s] EXCEPT !.expire = now + Window] \in IndexRow
      BY <1>4, <3>1 DEF IndexRow
    <3>3. index' = [index EXCEPT ![s] = [index[s] EXCEPT !.expire = now + Window]]
      BY <1>2, <2>2
    <3>4. index'[s] = [index[s] EXCEPT !.expire = now + Window]
      BY <3>3 DEF SessionInv, Types
    <3>5. index'[s].expire = now + Window /\ index'[s].user = index[s].user
      BY <3>1, <3>4 DEF IndexRow
    <3>6. index' \in [Sids -> IndexRow \cup {None}] /\ \A t \in Sids \ {s} : index'[t] = index[t]
      BY <3>2, <3>3 DEF SessionInv, Types
    <3>7. index'[s] # None
      BY <3>2, <3>4 DEF IndexRow
    <3>8. QED
      BY <2>2, <3>5, <3>6, <3>7
  <2>3. QED
    BY <2>1, <2>2
<1>6. Types'
  BY <1>1, <1>3, <1>5 DEF SessionInv, Types
<1>7. (\A t : Pending(t) => Pending(t)') /\ Pending(s)'
  BY <1>1, <1>3 DEF Pending
<1>8. session[s] # None => index[s] # None /\ session[s].expire > now /\ session[s].expire \in Nat
  BY <1>1 DEF SessionInv, RequestOK, Stands, Types, SessionRow
<1>9. SessionOK(s)'
  <2>1. CASE session[s] = None
    BY <1>1, <1>5, <2>1 DEF SessionInv, SessionOK
  <2>2. CASE session[s] # None
    <3>1. /\ s \in drawn /\ session[s].expire <= now + Window
          /\ index[s] # None /\ index[s].user = session[s].user
      BY <1>8, <2>2 DEF SessionInv, SessionOK
    <3>2. index'[s].expire <= now + Window /\ session[s].expire < index'[s].expire + Window
      BY <1>4, <1>5, <1>8, <2>2, <3>1
    <3>3. session[s].expire <= index'[s].expire
      BY <1>5, <3>1
    <3>4. index'[s].expire < session[s].expire + Window
      BY <1>4, <1>5, <1>8, <2>2, <3>1
    <3>5. QED
      BY <1>1, <1>5, <1>7, <2>2, <3>1, <3>2, <3>3, <3>4 DEF SessionOK
  <2>3. QED
    BY <2>1, <2>2
<1>10. ASSUME NEW q \in Requests, pc[q] = "idle" \/ req[q].sid = s PROVE RequestOK(q)'
  <2>1. CASE q = p
    <3>1. session[s] # None => Stands(p, s)'
      BY <1>1, <1>3, <1>4, <1>5, <1>8 DEF Stands
    <3>2. QED
      BY <1>1, <1>3, <2>1, <3>1 DEF RequestOK
  <2>2. CASE q # p /\ pc[q] = "idle"
    BY <1>1, <1>3, <2>2 DEF SessionInv, RequestOK
  <2>3. CASE q # p /\ pc[q] # "idle"
    <3>1. req[q].sid = s /\ UNCHANGED <<pc[q], mem[q], req[q]>>
      BY <1>1, <1>3, <1>10, <2>3
    <3>2. session[s] # None => Stands(q, s)
      BY <2>3, <3>1 DEF SessionInv, RequestOK
    <3>3. session[s] # None => Stands(q, s)'
      BY <1>1, <1>4, <1>5, <1>7, <1>8, <3>1, <3>2 DEF Stands
    <3>4. QED
      BY <1>1, <3>1, <3>3 DEF SessionInv, RequestOK
  <2>4. QED
    BY <2>1, <2>2, <2>3
<1>11. QED
  BY <1>1, <1>3, <1>5, <1>6, <1>7, <1>9, <1>10, OneSession

\* A request dies; what it has touched is upset.
LEMMA AbortStep == ASSUME SessionInv, NEW p \in Requests, Abort(p) PROVE SessionInv'
<1>1. /\ pc[p] # "idle" /\ End(p) /\ req[p].sid \in Sids
      /\ upset' = IF mem[p].modified THEN upset \cup {req[p].sid} ELSE upset
      /\ ahead' = IF mem[p].modified THEN ahead \cup {req[p].sid} ELSE ahead
      /\ UNCHANGED <<now, session, index, drawn, seen>>
  BY DEF Abort, SessionInv, Types
<1>2. Types'
  BY <1>1, Ended DEF SessionInv, Types
<1>3. \A t \in Sids : (t \in upset => t \in upset') /\ (t \in ahead => t \in ahead')
  BY <1>1
<1>4. ASSUME NEW t \in Sids, ~(t \in upset' /\ t \in ahead'), Pending(t) PROVE Pending(t)'
  <2>1. PICK q \in Requests : pc[q] = "save" /\ mem[q].modified /\ req[q].sid = t
    BY <1>4 DEF Pending
  <2>2. q # p
    BY <1>1, <1>4, <2>1
  <2>3. QED
    BY <1>1, <2>1, <2>2, Ended DEF SessionInv, Pending
<1>5. ASSUME NEW t \in Sids PROVE SessionOK(t)'
  BY <1>1, <1>3, <1>4, SessionFrame DEF SessionInv
<1>6. ASSUME NEW q \in Requests PROVE RequestOK(q)'
  <2>1. CASE q = p
    BY <1>1, <2>1, Ended DEF SessionInv
  <2>2. CASE q # p /\ pc[q] = "idle"
    BY <1>1, <2>2, Ended DEF SessionInv, RequestOK
  <2>3. CASE q # p /\ pc[q] # "idle"
    <3>1. req[q].sid \in Sids /\ UNCHANGED <<pc[q], req[q], mem[q]>>
      BY <1>1, <2>3, Ended DEF SessionInv, Types
    <3>2. QED
      BY <1>1, <1>3, <1>4, <3>1, RequestFrame DEF SessionInv
  <2>4. QED
    BY <2>1, <2>2, <2>3
<1>7. QED
  BY <1>2, <1>5, <1>6 DEF SessionInv

\* The session is saved with a new deadline, if it is still there: a touched one
\* meets its index row again, one that was only popped is upset.
LEMMA SaveStep == ASSUME Window > 1, SessionInv, NEW p \in Requests, Save(p) PROVE SessionInv'
<1>1. /\ pc[p] = "save" /\ End(p) /\ req[p].sid \in Sids /\ req[p].sid \in drawn
      /\ UNCHANGED <<now, index, drawn>>
  BY DEF Save, SessionInv, Types
<1> PICK s \in Sids : req[p].sid = s
  BY <1>1
<1> DEFINE writes == session[s] # None /\ (mem[p].modified \/ Pops(p))
           saved == [session[s] EXCEPT !.expire = now + Window, !.fresh = mem[p].fresh /\ ~Pops(p)]
<1>2. /\ session' = IF writes THEN [session EXCEPT ![s] = saved] ELSE session
      /\ seen' = [seen EXCEPT ![s] = now]
      /\ upset' = IF mem[p].modified THEN upset \ {s} ELSE IF Pops(p) THEN upset \cup {s} ELSE upset
      /\ ahead' = IF mem[p].modified \/ Pops(p) THEN ahead \ {s} ELSE ahead
  BY DEF Save, Parted, CaughtUp
<1>3. /\ now \in Nat /\ Window \in Nat \ {0} /\ now + Window \in Nat /\ Window \div 2 \in Nat
      /\ Window \div 2 <= Window /\ now < now + Window
  BY DEF SessionInv, Types
<1>4. writes => /\ saved \in SessionRow /\ saved.expire = now + Window /\ saved.user = session[s].user
                /\ saved # None
  <2>1. SUFFICES ASSUME writes
                 PROVE  /\ saved \in SessionRow /\ saved.expire = now + Window
                        /\ saved.user = session[s].user /\ saved # None
    OBVIOUS
  <2>2. session[s] \in SessionRow
    BY <2>1 DEF SessionInv, Types
  <2>3. (mem[p].fresh /\ ~Pops(p)) \in BOOLEAN
    OBVIOUS
  <2> HIDE DEF writes
  <2>4. saved \in SessionRow /\ saved.expire = now + Window /\ saved.user = session[s].user
    BY <1>3, <2>2, <2>3 DEF SessionRow
  <2>5. QED
    BY <2>4 DEF SessionRow
<1> HIDE DEF saved
<1>5. /\ session' \in [Sids -> SessionRow \cup {None}]
      /\ session'[s] = IF writes THEN saved ELSE session[s]
      /\ \A t \in Sids \ {s} : session'[t] = session[t]
  BY <1>2, <1>4 DEF SessionInv, Types
<1>6. /\ seen' \in [Sids -> Nat] /\ seen'[s] = now /\ \A t \in Sids \ {s} : seen'[t] = seen[t]
  BY <1>2, <1>3 DEF SessionInv, Types
<1>7. \A t \in Sids \ {s} : (t \in upset <=> t \in upset') /\ (t \in ahead <=> t \in ahead')
  BY <1>2
<1>8. Types'
  BY <1>1, <1>5, <1>6, Ended DEF SessionInv, Types
<1>9. ASSUME NEW t \in Sids, t # s \/ ~mem[p].modified, Pending(t) PROVE Pending(t)'
  <2>1. PICK q \in Requests : pc[q] = "save" /\ mem[q].modified /\ req[q].sid = t
    BY <1>9 DEF Pending
  <2>2. q # p
    BY <1>1, <1>9, <2>1
  <2>3. QED
    BY <1>1, <2>1, <2>2, Ended DEF SessionInv, Pending
<1>10. session[s] # None =>
         /\ session[s].expire > now /\ session[s].expire \in Nat
         /\ index[s] # None /\ index[s].expire > now /\ index[s].expire \in Nat
         /\ index[s].user = session[s].user /\ index[s].expire <= now + Window
         /\ mem[p].modified => index[s].expire = now + Window
         /\ ~mem[p].modified /\ s \notin upset => Pending(s) \/ session[s].expire >= now + Window \div 2
  BY <1>1 DEF SessionInv, SessionOK, RequestOK, Stands, Types, SessionRow, IndexRow
<1>11. SessionOK(s)'
  <2>1. CASE session[s] = None
    <3>1. session'[s] = None /\ index'[s] = None
      BY <1>1, <1>5, <2>1 DEF SessionInv, SessionOK
    <3>2. QED
      BY <3>1 DEF SessionOK
  <2>2. CASE session[s] # None /\ mem[p].modified
    <3>1. session'[s] = saved /\ s \notin upset'
      BY <1>2, <1>5, <2>2
    <3>2. /\ session'[s].expire = now + Window /\ session'[s].user = index[s].user /\ session'[s] # None
          /\ index'[s] = index[s] /\ index[s].expire = now + Window
      BY <1>1, <1>4, <1>10, <2>2, <3>1
    <3>3. QED
      BY <1>1, <1>3, <1>6, <1>10, <2>2, <3>2 DEF SessionOK
  <2>3. CASE session[s] # None /\ ~mem[p].modified /\ Pops(p)
    <3>1. session'[s] = saved /\ s \in upset'
      BY <1>2, <1>5, <2>3
    <3>2. /\ session'[s].expire = now + Window /\ session'[s].user = index[s].user /\ session'[s] # None
          /\ index'[s] = index[s] /\ now + Window < index[s].expire + Window
      BY <1>1, <1>3, <1>4, <1>10, <2>3, <3>1
    <3>3. QED
      BY <1>1, <1>3, <1>10, <2>3, <3>1, <3>2 DEF SessionOK
  <2>4. CASE session[s] # None /\ ~mem[p].modified /\ ~Pops(p)
    <3>1. session'[s] = session[s] /\ upset' = upset /\ ahead' = ahead /\ index' = index
      BY <1>1, <1>2, <1>5, <2>4
    <3>2. Pending(s) => Pending(s)'
      BY <1>9, <2>4
    <3>3. SessionOK(s)
      BY DEF SessionInv
    <3>4. QED
      BY <1>1, <1>6, <1>10, <2>4, <3>1, <3>2, <3>3 DEF SessionOK
  <2>5. QED
    BY <2>1, <2>2, <2>3, <2>4
<1>12. ASSUME NEW q \in Requests, pc[q] = "idle" \/ req[q].sid = s PROVE RequestOK(q)'
  <2>1. CASE q = p
    BY <1>1, <2>1, Ended DEF SessionInv
  <2>2. CASE q # p /\ pc[q] = "idle"
    BY <1>1, <2>2, Ended DEF SessionInv, RequestOK
  <2>3. CASE q # p /\ pc[q] # "idle"
    <3>1. req[q].sid = s /\ UNCHANGED <<pc[q], mem[q], req[q]>>
      BY <1>1, <1>12, <2>3, Ended DEF SessionInv
    <3>2. session[s] # None => Stands(q, s)
      BY <2>3, <3>1 DEF SessionInv, RequestOK
    <3>3. session'[s] # None => session[s] # None
      BY <1>5
    <3>4. CASE session[s] # None /\ writes
      <4>1. session'[s].expire = now + Window
        BY <1>4, <1>5, <3>4
      <4>2. pc[q] = "backfill" => mem[q].expire <= now + Window
        BY DEF SessionInv, RequestOK
      <4>3. Stands(q, s)'
        BY <1>1, <1>3, <3>1, <3>2, <3>4, <4>1, <4>2 DEF Stands
      <4>4. QED
        BY <1>1, <3>1, <4>3 DEF SessionInv, RequestOK
    <3>5. CASE session[s] # None /\ ~writes
      <4>1. session'[s] = session[s] /\ upset' = upset /\ ~mem[p].modified
        BY <1>2, <1>5, <3>5
      <4>2. Pending(s) => Pending(s)'
        BY <1>9, <4>1
      <4>3. Stands(q, s)'
        BY <1>1, <3>1, <3>2, <3>5, <4>1, <4>2 DEF Stands
      <4>4. QED
        BY <1>1, <3>1, <4>3 DEF SessionInv, RequestOK
    <3>6. CASE session[s] = None
      BY <1>1, <3>1, <3>3, <3>6 DEF SessionInv, RequestOK
    <3>7. QED
      BY <3>4, <3>5, <3>6
  <2>4. QED
    BY <2>1, <2>2, <2>3
<1>13. \A q \in Requests : pc[q] # "idle" /\ req[q].sid # s => UNCHANGED <<pc[q], req[q], mem[q]>>
  BY <1>1, Ended DEF SessionInv
<1>14. \A t \in Sids \ {s} : /\ UNCHANGED <<session[t], index[t], seen[t]>>
                             /\ (t \in upset <=> t \in upset') /\ (t \in ahead <=> t \in ahead')
                             /\ (Pending(t) => Pending(t)')
  BY <1>1, <1>5, <1>6, <1>7, <1>9
<1>15. QED
  BY <1>1, <1>8, <1>11, <1>12, <1>13, <1>14, OneSession

-----------------------------------------------------------------------------
(* The theorems *)

\* Every step keeps SessionInv.
LEMMA NextStep == ASSUME Window > 1, SessionInv, [Next]_vars PROVE SessionInv'
<1>1. CASE Tick \/ ClearExpired
  BY <1>1, TickStep, SweepStep
<1>2. CASE SignIn
  BY <1>2, LoginStep, ReloginStep DEF SignIn
<1>3. ASSUME NEW p \in Requests, Arrive(p) \/ Abort(p) PROVE SessionInv'
  BY <1>3, BeginStep, AbortStep
<1>4. ASSUME NEW p \in Requests, Serve(p) PROVE SessionInv'
  BY <1>4, ViewStep, EndStep, TouchReadStep, BackfillStep, TouchStep, SaveStep DEF Serve
<1>5. CASE UNCHANGED vars
  BY <1>5 DEF vars, SessionInv, Types, SessionOK, RequestOK, Stands, Pending
<1>6. QED
  BY <1>1, <1>2, <1>3, <1>4, <1>5 DEF Next

\* How far a session and its index row may part, at any time
\* (djangoapp/middleware.py, models/base.py).
THEOREM SessionInvariant == ASSUME Window > 1 PROVE Spec => []SessionInv
<1>1. SessionInv /\ [Next]_vars => SessionInv'
  BY NextStep
<1>2. QED
  BY <1>1, InitInv, PTL DEF Spec

\* The index row is less than a window behind its session (the throttled touch).
THEOREM IndexLags == ASSUME Window > 1 PROVE Spec => []LagBounded
<1>1. SessionInv => LagBounded
  BY DEF SessionInv, SessionOK, LagBounded
<1>2. QED
  BY <1>1, SessionInvariant, PTL

\* Who was not upset has half a window left from the last request (the
\* half-life touch of SessionIdleTouchMiddleware).
THEOREM TouchKeepsHalf == ASSUME Window > 1 PROVE Spec => []HalfWindowGuaranteed
<1>1. SessionInv => HalfWindowGuaranteed
  <2>1. ASSUME SessionInv, Quiet, NEW s \in Sids \ upset, session[s] # None
        PROVE  session[s].expire >= seen[s] + Window \div 2
    <3>1. ~Pending(s)
      BY <2>1 DEF Quiet, Pending
    <3>2. QED
      BY <2>1, <3>1 DEF SessionInv, SessionOK
  <2>2. QED
    BY <2>1 DEF HalfWindowGuaranteed
<1>2. QED
  BY <1>1, SessionInvariant, PTL

\* The index counts no dead session as live, but for one that a request re-armed
\* and then died, and that by less than a window (the count of active sessions,
\* models/base.py:473).
THEOREM IndexUndercounts == ASSUME Window > 1 PROVE Spec => []DriftOnlyUndercounts
<1>1. SessionInv => DriftOnlyUndercounts
  <2>1. ASSUME SessionInv, NEW s \in Sids, index[s] # None
        PROVE  index[s].expire < session[s].expire + Window
    BY <2>1 DEF SessionInv, SessionOK
  <2>2. ASSUME SessionInv, NEW s \in Sids \ ahead, index[s] # None, index[s].expire > now
        PROVE  session[s].expire > now
    <3>1. session[s] # None /\ session[s] \in SessionRow /\ index[s] \in IndexRow /\ now \in Nat
      BY <2>2 DEF SessionInv, SessionOK, Types
    <3>2. CASE Pending(s)
      BY <2>2, <3>1, <3>2 DEF Pending, SessionInv, RequestOK, Stands
    <3>3. CASE ~Pending(s)
      BY <2>2, <3>1, <3>3 DEF SessionInv, SessionOK, SessionRow, IndexRow
    <3>4. QED
      BY <3>2, <3>3
  <2>3. QED
    BY <2>1, <2>2 DEF DriftOnlyUndercounts
<1>2. QED
  BY <1>1, SessionInvariant, PTL

\* No late response brings an ended session or its index row back (the UPDATE of
\* SessionMiddleware, get_or_create of the index row).
THEOREM EndIsFinal == ASSUME Window > 1 PROVE Spec => EndedStaysEnded
<1> DEFINE Stays == \A s \in drawn : session[s] = None => session'[s] = None /\ index'[s] = None
<1>1. ASSUME SessionInv, SessionInv', [Next]_vars PROVE Stays
  <2>1. ASSUME NEW s \in drawn, session[s] = None PROVE session'[s] = None
    <3>1. s \in Sids
      BY <1>1, <2>1 DEF SessionInv, Types
    <3>2. ASSUME NEW S, Drop(S) PROVE session'[s] = None
      BY <2>1, <3>1, <3>2 DEF Drop
    <3>3. CASE Tick \/ UNCHANGED vars
      BY <2>1, <3>3 DEF Tick, vars
    <3>4. CASE ClearExpired
      BY <3>2, <3>4 DEF ClearExpired
    <3>5. CASE SignIn
      BY <1>1, <2>1, <3>1, <3>5 DEF SignIn, Login, Relogin, SessionInv, Types
    <3>6. ASSUME NEW p \in Requests, Arrive(p) \/ Abort(p) PROVE session'[s] = None
      BY <2>1, <3>6 DEF Arrive, Begin, Abort
    <3>7. ASSUME NEW p \in Requests, Logout(p) \/ EndSessions(p) PROVE session'[s] = None
      BY <3>2, <3>7 DEF Logout, EndSessions
    <3>8. ASSUME NEW p \in Requests, View(p) \/ Collect(p) \/ TouchRead(p) \/ Backfill(p) \/ Touch(p)
          PROVE  session'[s] = None
      BY <2>1, <3>8 DEF View, Collect, TouchRead, Backfill, Touch
    <3>9. ASSUME NEW p \in Requests, Save(p) PROVE session'[s] = None
      <4>1. \/ session' = session
            \/ session[req[p].sid] # None /\ \E row : session' = [session EXCEPT ![req[p].sid] = row]
        BY <3>9 DEF Save
      <4>2. QED
        BY <1>1, <2>1, <3>1, <4>1 DEF SessionInv, Types
    <3>10. QED
      BY <1>1, <3>3, <3>4, <3>5, <3>6, <3>7, <3>8, <3>9 DEF Next, Serve
  <2>2. ASSUME NEW s \in drawn, session'[s] = None PROVE index'[s] = None
    BY <1>1, <2>2 DEF SessionInv, SessionOK, Types
  <2>3. QED
    BY <2>1, <2>2
<1>2. SessionInv /\ SessionInv' /\ [Next]_vars => [Stays]_vars
  BY <1>1
<1>3. QED
  BY <1>2, SessionInvariant, PTL DEF Spec, EndedStaysEnded

\* "Log out everywhere" passes no steady session by (force_logout).
THEOREM LogoutFinds == ASSUME Window > 1 PROVE Spec => LogoutFindsSteady
<1> DEFINE Finds == \A p \in Requests : Collects(p) => Missed(p, mem'[p].victims) \subseteq upset
<1>1. ASSUME SessionInv, [Next]_vars PROVE Finds
  <2>1. SUFFICES ASSUME NEW p \in Requests, Collects(p),
                        NEW s \in Missed(p, mem'[p].victims), s \notin upset
                 PROVE  FALSE
    OBVIOUS
  <2>2. Collect(p)
    <3>1. pc[p] = "view" /\ pc'[p] = "collected"
      BY <2>1 DEF Collects
    <3>2. pc' # pc
      BY <3>1
    <3>3. PICK q \in Requests : Arrive(q) \/ Serve(q) \/ Abort(q)
      BY <1>1, <3>2 DEF Next, Tick, ClearExpired, SignIn, Login, Relogin, vars
    <3>4. CASE q # p
      <4>1. pc'[p] = pc[p]
        BY <1>1, <3>3, <3>4 DEF Arrive, Begin, Serve, View, Logout, Collect, EndSessions, TouchRead, Backfill,
                         Touch, Save, Abort, End, SessionInv, Types
      <4>2. QED
        BY <3>1, <4>1
    <3>5. CASE q = p
      BY <1>1, <3>1, <3>3, <3>5 DEF Arrive, Begin, Serve, View, Logout, EndSessions, TouchRead, Backfill,
                         Touch, Save, Abort, End, SessionInv, Types
    <3>6. QED
      BY <3>4, <3>5
  <2>3. mem'[p].victims = {t \in Sids : index[t] # None /\ index[t].user = req[p].target
                                                        /\ index[t].expire > now}
    BY <1>1, <2>2 DEF Collect, SessionInv, Types, Memory
  <2>4. /\ s \in Sids /\ session[s] # None /\ session[s].expire > now /\ index[s] # None
        /\ session[s].user = req[p].target
        /\ ~(index[s].user = req[p].target /\ index[s].expire > now)
    BY <2>1, <2>3 DEF Missed, Live
  <2>5. /\ index[s].user = session[s].user /\ session[s].expire <= index[s].expire
        /\ session[s].expire \in Nat /\ index[s].expire \in Nat /\ now \in Nat
    BY <1>1, <2>1, <2>4 DEF SessionInv, SessionOK, Types, SessionRow, IndexRow
  <2>6. QED
    BY <2>4, <2>5
<1>2. SessionInv /\ [Next]_vars => [Finds]_vars
  BY <1>1
<1>3. QED
  BY <1>2, SessionInvariant, PTL DEF Spec, LogoutFindsSteady

=============================================================================
