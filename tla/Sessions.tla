------------------------------ MODULE Sessions ------------------------------
(***************************************************************************)
(* Login sessions and their index: the session rows Django keeps, the      *)
(* UserSessionIndex rows that map users to them (djangoapp/models/base.py),*)
(* the middleware that slides both deadlines (djangoapp/middleware.py),    *)
(* and the admin's "log out everywhere" (force_logout of                   *)
(* djangoapp/views/users.py).                                              *)
(*                                                                         *)
(* The unit of time is a fraction of the idle window, days; a request is   *)
(* short beside it, so the clock does not move while one is in flight.     *)
(***************************************************************************)
EXTENDS Integers

CONSTANTS
  Users, Admins,  \* accounts, and those that are superusers
  Sids,           \* session keys, each drawn once
  Requests,       \* requests in flight
  Kinds,          \* what requests do here: "page", "api", "logout", "logoutall"
  Disorder,       \* may a browser sign in over another user's session, and a
                  \* request die half-way?
  Window,         \* SESSION_COOKIE_AGE
  MaxTime,        \* bound on the clock
  None

AllKinds == {"page", "api", "logout", "logoutall"}

ASSUME WindowAssumption == Window \in Nat \ {0} /\ MaxTime \in Nat
ASSUME KindAssumption ==
  Kinds \subseteq AllKinds /\ Admins \subseteq Users /\ Disorder \in BOOLEAN
ASSUME AbsenceAssumption ==
  /\ None \notin Users \cup Sids \cup Nat
  /\ None \notin [user : Users, expire : Nat, fresh : BOOLEAN]
  /\ None \notin [user : Users, expire : Nat]

VARIABLES
  now,      \* the clock
  session,  \* session rows: None, or [user, expire, fresh]; fresh is the
            \* just_logged_in flag
  index,    \* UserSessionIndex rows: None, or [user, expire]
  drawn,    \* the session keys that have been used
  seen,     \* when each session's last request was served
  pc, req,  \* where each request is; its session, kind and target
  mem,      \* what a request has read: the flag, an expiry, the sessions to
            \* end; and whether it has touched the session
  \* No state of the code; these say where its promises end:
  upset,    \* sessions whose index row has parted from them, until a touch
  ahead     \* those whose index row was re-armed by a request that died before
            \* its save, until the next save

vars == <<now, session, index, drawn, seen, pc, req, mem, upset, ahead>>

NoReq == [sid |-> None, kind |-> "none", target |-> None]
NoMem == [fresh |-> FALSE, expire |-> 0, victims |-> {}, modified |-> FALSE]

Init ==
  /\ now = 0
  /\ session = [s \in Sids |-> None]
  /\ index = [s \in Sids |-> None]
  /\ drawn = {}
  /\ seen = [s \in Sids |-> 0]
  /\ pc = [p \in Requests |-> "idle"]
  /\ req = [p \in Requests |-> NoReq]
  /\ mem = [p \in Requests |-> NoMem]
  /\ upset = {} /\ ahead = {}

Live(s) == session[s] # None /\ session[s].expire > now

\* Deleting sessions takes their index rows along (on_delete=CASCADE).
Drop(S) ==
  /\ session' = [s \in Sids |-> IF s \in S THEN None ELSE session[s]]
  /\ index' = [s \in Sids |-> IF s \in S THEN None ELSE index[s]]

End(p) ==
  /\ pc' = [pc EXCEPT ![p] = "idle"]
  /\ req' = [req EXCEPT ![p] = NoReq]
  /\ mem' = [mem EXCEPT ![p] = NoMem]

-----------------------------------------------------------------------------
(* Signing in: auth_login and on_user_logged_in. *)

NewSession(u) == [user |-> u, expire |-> now + Window, fresh |-> TRUE]

\* An anonymous browser: the session's key is cycled, its row stored at once,
\* and the same response indexes it.
Login(u, s) ==
  /\ s \notin drawn
  /\ session' = [session EXCEPT ![s] = NewSession(u)]
  /\ index' = [index EXCEPT ![s] = [user |-> u, expire |-> now + Window]]
  /\ drawn' = drawn \cup {s}
  /\ seen' = [seen EXCEPT ![s] = now]
  /\ UNCHANGED <<now, pc, req, mem, upset, ahead>>

\* A browser signed in as somebody else: its session is flushed, and the new
\* one has no key for the index until the response has stored it.
Relogin(u, s, old) ==
  /\ Disorder
  /\ s \notin drawn
  /\ Live(old) /\ session[old].user # u
  /\ session' = [session EXCEPT ![old] = None, ![s] = NewSession(u)]
  /\ index' = [index EXCEPT ![old] = None]
  /\ drawn' = drawn \cup {s}
  /\ upset' = upset \cup {s}
  /\ seen' = [seen EXCEPT ![s] = now]
  /\ UNCHANGED <<now, pc, req, mem, ahead>>

-----------------------------------------------------------------------------
(* A request of a signed-in browser. *)

Begin(p, s, k, u) ==
  /\ pc[p] = "idle"
  /\ Live(s)
  /\ k \in Kinds
  /\ IF k = "logoutall" THEN session[s].user \in Admins /\ u \in Users
                        ELSE u = None
  /\ pc' = [pc EXCEPT ![p] = "view"]
  /\ req' = [req EXCEPT ![p] = [sid |-> s, kind |-> k, target |-> u]]
  /\ mem' = [mem EXCEPT ![p].fresh = session[s].fresh]
  /\ UNCHANGED <<now, session, index, drawn, seen, upset, ahead>>

\* A view that leaves the sessions alone.
View(p) ==
  /\ pc[p] = "view" /\ req[p].kind \in {"page", "api"}
  /\ pc' = [pc EXCEPT ![p] = "respond"]
  /\ UNCHANGED <<now, session, index, drawn, seen, req, mem, upset, ahead>>

\* A logout flushes the session and answers an anonymous viewer.
Logout(p) ==
  /\ pc[p] = "view" /\ req[p].kind = "logout"
  /\ Drop({req[p].sid})
  /\ End(p)
  /\ UNCHANGED <<now, drawn, seen, upset, ahead>>

\* Fault: sessions past their half-life are left out.
CollectYoung(p) ==
  /\ pc[p] = "view" /\ req[p].kind = "logoutall"
  /\ mem' = [mem EXCEPT ![p].victims =
               {s \in Sids : index[s] # None /\ index[s].user = req[p].target
                                             /\ index[s].expire > now + Window \div 2}]
  /\ pc' = [pc EXCEPT ![p] = "collected"]
  /\ UNCHANGED <<now, session, index, drawn, seen, req, upset, ahead>>

\* force_logout finds the target's sessions by the index and its deadlines...
Collect(p) ==
  /\ pc[p] = "view" /\ req[p].kind = "logoutall"
  /\ mem' = [mem EXCEPT ![p].victims =
               {s \in Sids : index[s] # None /\ index[s].user = req[p].target
                                             /\ index[s].expire > now}]
  /\ pc' = [pc EXCEPT ![p] = "collected"]
  /\ UNCHANGED <<now, session, index, drawn, seen, req, upset, ahead>>

\* ... and deletes them in a later statement.
EndSessions(p) ==
  /\ pc[p] = "collected"
  /\ Drop(mem[p].victims)
  /\ pc' = [pc EXCEPT ![p] = "respond"]
  /\ UNCHANGED <<now, drawn, seen, req, mem, upset, ahead>>

-----------------------------------------------------------------------------
(* SessionIdleTouchMiddleware.process_response *)

\* Fault: the touch waits for the last quarter of the window.
DueLate(expire) == now > expire - Window \div 4

\* More than half of the window has gone by.
Due(expire) == now > expire - Window \div 2

TouchRead(p) ==
  LET s == req[p].sid
  IN  /\ pc[p] = "respond"
      /\ IF index[s] = None /\ session[s] # None
         THEN /\ pc' = [pc EXCEPT ![p] = "backfill"]
              /\ mem' = [mem EXCEPT ![p].expire = session[s].expire]
         ELSE /\ pc' = [pc EXCEPT ![p] =
                          IF index[s] = None THEN "save"
                          ELSE IF Due(index[s].expire) THEN "touch" ELSE "save"]
              /\ UNCHANGED mem
      /\ UNCHANGED <<now, session, index, drawn, seen, req, upset, ahead>>

\* get_or_create of the index row, from the expiry read before. A session
\* that has gone meanwhile fails the insert, and with it the request.
Backfill(p) ==
  LET s == req[p].sid
  IN  /\ pc[p] = "backfill"
      /\ IF session[s] = None
         THEN End(p) /\ UNCHANGED index
         ELSE /\ index' = IF index[s] # None THEN index
                          ELSE [index EXCEPT ![s] = [user |-> session[s].user,
                                                     expire |-> mem[p].expire]]
              /\ pc' = [pc EXCEPT ![p] = "save"]
              /\ UNCHANGED <<req, mem>>
      /\ UNCHANGED <<now, session, drawn, seen, upset, ahead>>

\* Fault: the session is re-armed and its index row is not.
TouchSessionOnly(p) ==
  /\ pc[p] = "touch"
  /\ mem' = [mem EXCEPT ![p].modified = TRUE]
  /\ pc' = [pc EXCEPT ![p] = "save"]
  /\ UNCHANGED <<now, session, index, drawn, seen, req, upset, ahead>>

\* Fault: the index row is re-armed and the session is not.
TouchIndexOnly(p) ==
  LET s == req[p].sid
  IN  /\ pc[p] = "touch"
      /\ index' = IF index[s] = None THEN index
                  ELSE [index EXCEPT ![s].expire = now + Window]
      /\ pc' = [pc EXCEPT ![p] = "save"]
      /\ UNCHANGED <<now, session, drawn, seen, req, mem, upset, ahead>>

\* The index row is re-armed at once, the session when it is saved.
Touch(p) ==
  LET s == req[p].sid
  IN  /\ pc[p] = "touch"
      /\ index' = IF index[s] = None THEN index
                  ELSE [index EXCEPT ![s].expire = now + Window]
      /\ mem' = [mem EXCEPT ![p].modified = TRUE]
      /\ pc' = [pc EXCEPT ![p] = "save"]
      /\ UNCHANGED <<now, session, drawn, seen, req, upset, ahead>>

-----------------------------------------------------------------------------
(* SharedPropsMiddleware, then SessionMiddleware, on the way out. *)

\* A full page that was shown the just_logged_in flag pops it.
Pops(p) == req[p].kind = "page" /\ mem[p].fresh

\* A save that was touched brings session and index together; one that only
\* pops the flag moves the session alone.
Parted(p) ==
  IF mem[p].modified THEN upset \ {req[p].sid}
  ELSE IF Pops(p) THEN upset \cup {req[p].sid}
  ELSE upset

\* Either way the session is no longer behind its index row.
CaughtUp(p) == IF mem[p].modified \/ Pops(p) THEN ahead \ {req[p].sid} ELSE ahead

\* Fault: the row is written whether or not it is still there.
SaveInserting(p) ==
  LET s == req[p].sid
      saved == [user |-> CHOOSE u \in Users : TRUE, expire |-> now + Window,
                fresh |-> mem[p].fresh /\ ~Pops(p)]
  IN  /\ pc[p] = "save"
      /\ session' = IF mem[p].modified \/ Pops(p)
                    THEN [session EXCEPT ![s] = saved] ELSE session
      /\ seen' = [seen EXCEPT ![s] = now]
      /\ upset' = Parted(p) /\ ahead' = CaughtUp(p)
      /\ End(p)
      /\ UNCHANGED <<now, index, drawn>>

\* A modified session is saved as it is in memory, with a new deadline, by an
\* UPDATE that a deleted row fails (SessionInterrupted).
Save(p) ==
  LET s == req[p].sid
      saved == [session[s] EXCEPT !.expire = now + Window,
                                  !.fresh = mem[p].fresh /\ ~Pops(p)]
  IN  /\ pc[p] = "save"
      /\ session' = IF session[s] # None /\ (mem[p].modified \/ Pops(p))
                    THEN [session EXCEPT ![s] = saved] ELSE session
      /\ seen' = [seen EXCEPT ![s] = now]
      /\ upset' = Parted(p) /\ ahead' = CaughtUp(p)
      /\ End(p)
      /\ UNCHANGED <<now, index, drawn>>

-----------------------------------------------------------------------------
\* clear_expired_sessions, the nightly task.
ClearExpired ==
  /\ \E s \in Sids : session[s] # None /\ session[s].expire < now
  /\ Drop({s \in Sids : session[s] # None /\ session[s].expire < now})
  /\ UNCHANGED <<now, drawn, seen, pc, req, mem, upset, ahead>>

\* A request dies, or its view answers with a server error, which skips the
\* touch and the save.
Abort(p) ==
  /\ Disorder
  /\ pc[p] # "idle"
  /\ IF mem[p].modified
     THEN upset' = upset \cup {req[p].sid} /\ ahead' = ahead \cup {req[p].sid}
     ELSE UNCHANGED <<upset, ahead>>
  /\ End(p)
  /\ UNCHANGED <<now, session, index, drawn, seen>>

Tick ==
  /\ now < MaxTime
  /\ \A p \in Requests : pc[p] = "idle"
  /\ now' = now + 1
  /\ UNCHANGED <<session, index, drawn, seen, pc, req, mem, upset, ahead>>

Serve(p) ==
  \/ View(p) \/ Logout(p) \/ Collect(p) \/ EndSessions(p)
  \/ TouchRead(p) \/ Backfill(p) \/ Touch(p) \/ Save(p)

SignIn ==
  \E u \in Users, s \in Sids : Login(u, s) \/ \E old \in Sids : Relogin(u, s, old)

Arrive(p) ==
  \E s \in Sids, k \in Kinds, u \in Users \cup {None} : Begin(p, s, k, u)

Next ==
  \/ Tick \/ ClearExpired \/ SignIn
  \/ \E p \in Requests : Arrive(p) \/ Serve(p) \/ Abort(p)

Spec == Init /\ [][Next]_vars

=============================================================================
