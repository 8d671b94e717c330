---------------------------- MODULE PushDelivery ----------------------------
(***************************************************************************)
(* Web Push: subscribe and unsubscribe of djangoapp/views/notifications.py,*)
(* Notification.record, notify_sessions and _deliver of                    *)
(* djangoapp/models/notifications.py, and the deliver_push task.           *)
(*                                                                         *)
(* A subscription row hangs on its session's index row and dies with the   *)
(* session.  subscribe is three autocommit statements; a fan-out reads its *)
(* rows once and pushes to them one by one.  Sessions.tla has the sessions *)
(* in detail; here one begins, may pass its deadline, and ends.            *)
(***************************************************************************)
EXTENDS Naturals

CONSTANTS
  Sessions, Owner,   \* sessions, and the user of each
  Notes, Recipient,  \* notifications, and the user each is for
  Endpoints,         \* push endpoints
  Requests,          \* requests in flight
  MaxRows,           \* bound on the subscription rows ever inserted
  Users, None

ASSUME OwnerAssumption == Owner \in [Sessions -> Users] /\ Recipient \in [Notes -> Users]
ASSUME AbsenceAssumption ==
  /\ MaxRows \in Nat
  /\ None \notin Sessions \cup Endpoints
  /\ None \notin [sid : Sessions, user : Users, pk : Nat]

VARIABLES
  status,   \* each session: "unused", "live", "expired", "ended"
  index,    \* the sessions that have an index row
  sub,      \* PushSubscription rows by endpoint: None, or [sid, user, pk]
  rows,     \* rows inserted so far
  dead,     \* endpoints the push service has dropped
  pc, req,  \* where each request is; its session and endpoint
  note,     \* each notification: "none", "queued", "sending", "done"
  todo,     \* the rows a fan-out has read and not yet pushed to
  kept,     \* sessions that subscribed, and nobody took their endpoint since
  crashed   \* has a request died?

vars == <<status, index, sub, rows, dead, pc, req, note, todo, kept, crashed>>

Row  == [sid : Sessions, user : Users, pk : Nat]
NoReq == [sid |-> None, endpoint |-> None]

Init ==
  /\ status = [s \in Sessions |-> "unused"]
  /\ index = {}
  /\ sub = [e \in Endpoints |-> None]
  /\ rows = 0
  /\ dead = {}
  /\ pc = [p \in Requests |-> "idle"]
  /\ req = [p \in Requests |-> NoReq]
  /\ note = [n \in Notes |-> "none"]
  /\ todo = [n \in Notes |-> {}]
  /\ kept = {}
  /\ crashed = FALSE

Bound(s) == {e \in Endpoints : sub[e] # None /\ sub[e].sid = s}
Without(removed) == [e \in Endpoints |-> IF e \in removed THEN None ELSE sub[e]]

End(p) ==
  /\ pc' = [pc EXCEPT ![p] = "idle"]
  /\ req' = [req EXCEPT ![p] = NoReq]

Go(p, next) ==
  /\ pc' = [pc EXCEPT ![p] = next]
  /\ UNCHANGED req

-----------------------------------------------------------------------------
(* Sessions *)

\* The index row comes with the login, or with a later request.
SignIn(s, indexed) ==
  /\ status[s] = "unused"
  /\ status' = [status EXCEPT ![s] = "live"]
  /\ index' = IF indexed THEN index \cup {s} ELSE index
  /\ UNCHANGED <<sub, rows, dead, pc, req, note, todo, kept, crashed>>

Expire(s) ==
  /\ status[s] = "live"
  /\ status' = [status EXCEPT ![s] = "expired"]
  /\ UNCHANGED <<index, sub, rows, dead, pc, req, note, todo, kept, crashed>>

\* Fault: a session's end leaves its subscription.
EndSessionOnly(s) ==
  /\ status[s] \in {"live", "expired"}
  /\ status' = [status EXCEPT ![s] = "ended"]
  /\ index' = index \ {s}
  /\ kept' = kept \ {s}
  /\ UNCHANGED <<sub, rows, dead, pc, req, note, todo, crashed>>

\* A logout, a "log out everywhere" or the nightly sweep: the CASCADE chain.
EndSession(s) ==
  /\ status[s] \in {"live", "expired"}
  /\ status' = [status EXCEPT ![s] = "ended"]
  /\ index' = index \ {s}
  /\ sub' = Without(Bound(s))
  /\ kept' = kept \ {s}
  /\ UNCHANGED <<rows, dead, pc, req, note, todo, crashed>>

-----------------------------------------------------------------------------
(* subscribe and unsubscribe *)

\* The user is read here; what follows no longer looks at the session.
Begin(p, s, e, what) ==
  /\ pc[p] = "idle"
  /\ status[s] = "live"
  /\ pc' = [pc EXCEPT ![p] = what]
  /\ req' = [req EXCEPT ![p] = [sid |-> s, endpoint |-> e]]
  /\ UNCHANGED <<status, index, sub, rows, dead, note, todo, kept, crashed>>

Stored(s) == status[s] \in {"live", "expired"}

\* _session_index: a session that has gone is refused.
IndexSession(p) ==
  LET s == req[p].sid
  IN  /\ pc[p] = "indexing"
      /\ IF Stored(s) THEN index' = index \cup {s} /\ Go(p, "dropping")
                      ELSE UNCHANGED index /\ End(p)
      /\ UNCHANGED <<status, sub, rows, dead, note, todo, kept, crashed>>

\* The session's row under another endpoint, which the browser has rotated.
Stale(s, e) == Bound(s) \ {e}

DropStale(p) ==
  /\ pc[p] = "dropping"
  /\ sub' = Without(Stale(req[p].sid, req[p].endpoint))
  /\ Go(p, "binding")
  /\ UNCHANGED <<status, index, rows, dead, note, todo, kept, crashed>>

\* Fault: a session may have two rows.
BindSecond(p) ==
  LET s == req[p].sid
      e == req[p].endpoint
      fresh == sub[e] = None
  IN  /\ pc[p] = "binding"
      /\ IF s \in index
         THEN /\ fresh => rows < MaxRows
              /\ sub' = [sub EXCEPT ![e] =
                           [sid |-> s, user |-> Owner[s],
                            pk |-> IF fresh THEN rows ELSE sub[e].pk]]
              /\ rows' = IF fresh THEN rows + 1 ELSE rows
              /\ kept' = {s} \cup {t \in kept : e \notin Bound(t)}
         ELSE UNCHANGED <<sub, rows, kept>>
      /\ End(p)
      /\ UNCHANGED <<status, index, dead, note, todo, crashed>>

\* update_or_create by endpoint: an existing row keeps its key.  The insert or
\* update fails without the index row, and on a second row of the session.
Bind(p) ==
  LET s == req[p].sid
      e == req[p].endpoint
      fresh == sub[e] = None
  IN  /\ pc[p] = "binding"
      /\ IF s \in index /\ Stale(s, e) = {}
         THEN /\ fresh => rows < MaxRows
              /\ sub' = [sub EXCEPT ![e] =
                           [sid |-> s, user |-> Owner[s],
                            pk |-> IF fresh THEN rows ELSE sub[e].pk]]
              /\ rows' = IF fresh THEN rows + 1 ELSE rows
              /\ kept' = {s} \cup {t \in kept : e \notin Bound(t)}
         ELSE UNCHANGED <<sub, rows, kept>>
      /\ End(p)
      /\ UNCHANGED <<status, index, dead, note, todo, crashed>>

\* Deletes the user's row of the endpoint, whichever session it hangs on.
Unsubscribe(p) ==
  LET e == req[p].endpoint
      own == IF sub[e] # None /\ sub[e].user = Owner[req[p].sid] THEN {e} ELSE {}
  IN  /\ pc[p] = "unsubscribing"
      /\ sub' = Without(own)
      /\ kept' = {t \in kept : Bound(t) \cap own = {}}
      /\ End(p)
      /\ UNCHANGED <<status, index, rows, dead, note, todo, crashed>>

Crash(p) ==
  /\ pc[p] # "idle"
  /\ End(p)
  /\ crashed' = TRUE
  /\ UNCHANGED <<status, index, sub, rows, dead, note, todo, kept>>

-----------------------------------------------------------------------------
(* The fan-out *)

\* The row is committed and deliver_push enqueued, or the enqueue is lost.
Record(n, enqueued) ==
  /\ note[n] = "none"
  /\ note' = [note EXCEPT ![n] = IF enqueued THEN "queued" ELSE "done"]
  /\ UNCHANGED <<status, index, sub, rows, dead, pc, req, todo, kept, crashed>>

\* notify_sessions: every row of the recipient, read once.
ReadRows(n) ==
  /\ note[n] = "queued"
  /\ note' = [note EXCEPT ![n] = "sending"]
  /\ todo' = [todo EXCEPT ![n] =
       {[endpoint |-> e, sid |-> sub[e].sid, pk |-> sub[e].pk] :
          e \in {d \in Endpoints : sub[d] # None /\ sub[d].user = Recipient[n]}}]
  /\ UNCHANGED <<status, index, sub, rows, dead, pc, req, kept, crashed>>

\* One push; it reaches the browser, or fails and is left for the next time.
Push(n, item) ==
  /\ note[n] = "sending"
  /\ item \in todo[n]
  /\ item.endpoint \notin dead
  /\ todo' = [todo EXCEPT ![n] = @ \ {item}]
  /\ UNCHANGED <<status, index, sub, rows, dead, pc, req, note, kept, crashed>>

\* 404 or 410: the row that was read is deleted, by its key.
Prune(n, item) ==
  LET e == item.endpoint
      same == IF sub[e] # None /\ sub[e].pk = item.pk THEN {e} ELSE {}
  IN  /\ note[n] = "sending"
      /\ item \in todo[n]
      /\ e \in dead
      /\ todo' = [todo EXCEPT ![n] = @ \ {item}]
      /\ sub' = Without(same)
      /\ kept' = {t \in kept : Bound(t) \cap same = {}}
      /\ UNCHANGED <<status, index, rows, dead, pc, req, note, crashed>>

\* All rows are done, or the worker dies: a task runs at most once.
Finish(n) ==
  /\ note[n] = "sending"
  /\ note' = [note EXCEPT ![n] = "done"]
  /\ todo' = [todo EXCEPT ![n] = {}]
  /\ UNCHANGED <<status, index, sub, rows, dead, pc, req, kept, crashed>>

\* The browser drops or rotates its subscription.
Drop(e) ==
  /\ e \notin dead
  /\ dead' = dead \cup {e}
  /\ UNCHANGED <<status, index, sub, rows, pc, req, note, todo, kept, crashed>>

Serve(p) == IndexSession(p) \/ DropStale(p) \/ Bind(p) \/ Unsubscribe(p)

Next ==
  \/ \E s \in Sessions : Expire(s) \/ EndSession(s) \/ \E i \in BOOLEAN : SignIn(s, i)
  \/ \E p \in Requests :
       \/ \E s \in Sessions, e \in Endpoints, w \in {"indexing", "unsubscribing"} : Begin(p, s, e, w)
       \/ Serve(p)
       \/ Crash(p)
  \/ \E n \in Notes :
       \/ ReadRows(n) \/ Finish(n) \/ \E q \in BOOLEAN : Record(n, q)
       \/ \E item \in todo[n] : Push(n, item) \/ Prune(n, item)
  \/ \E e \in Endpoints : Drop(e)

Spec == Init /\ [][Next]_vars

-----------------------------------------------------------------------------
(* Properties *)

\* Each subscription hangs on a stored session of its own user: one that was
\* being made when the session ended does not outlive it, and a browser that
\* changes hands takes the row along ("the CASCADE chain makes ANY session
\* death drop exactly that browser's subscription", models/notifications.py).
HangsOnSession ==
  \A e \in Endpoints : sub[e] # None =>
    /\ sub[e].sid \in index /\ Stored(sub[e].sid)
    /\ sub[e].user = Owner[sub[e].sid]

\* A session has one endpoint at most, and one that subscribed keeps having
\* one, however the statements of several subscribes met: it loses it only to
\* an unsubscribe, a prune or another session's subscribe (subscribe's rebind).
KeepsAnEndpoint ==
  /\ \A e, d \in Endpoints : sub[e] # None /\ sub[d] # None /\ sub[e].sid = sub[d].sid => e = d
  /\ ~crashed /\ (\A p \in Requests : pc[p] = "idle") => \A s \in kept : Bound(s) # {}

=============================================================================
