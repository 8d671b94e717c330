----------------------------- MODULE LoginKeys -----------------------------
(***************************************************************************)
(* One-time login links: LoginKey.issue and LoginKey.redeem of             *)
(* djangoapp/models/login_key.py, with the view that redeems them,         *)
(* redeem_login_key of djangoapp/views/users.py.                           *)
(*                                                                         *)
(* issue is two autocommit statements, a sweep and an insert; redeem is    *)
(* one transaction around a locked read; the login follows it outside the  *)
(* transaction. Several requests run at once and any may die.              *)
(***************************************************************************)
EXTENDS Integers, FiniteSets

CONSTANTS
  Keys,         \* raw keys, each drawn once
  Requests,     \* requests, and commands, in flight
  Browsers,     \* cookie jars
  Lifetimes,    \* the lifetimes asked for
  MinLifetime,  \* LOGIN_LINK_MIN_MINUTES
  MaxTime,      \* bound on the clock
  None

ASSUME LifetimeAssumption == Lifetimes \subseteq Nat /\ MinLifetime \in Nat /\ MaxTime \in Nat
ASSUME AbsenceAssumption ==
  /\ None \notin Keys \cup Requests \cup Browsers \cup Nat
  /\ None \notin [expires : Nat, used : BOOLEAN]

VARIABLES
  now,       \* the clock
  key,       \* LoginKey rows: None, or [expires, used]
  offered,   \* the deadline issue has returned for a key, or None
  lock,      \* the redemption that holds a row's lock, or None
  signedIn,  \* browsers whose session is authenticated
  logins,    \* sessions opened with each key
  pc, req,   \* where each request is, and what it carries
  asOf,      \* the clock reading a request's filter was built with
  failed     \* has a request ever died?

vars == <<now, key, offered, lock, signedIn, logins, pc, req, asOf, failed>>

NoReq == [key |-> None, browser |-> None, ttl |-> 0]

Init ==
  /\ now = 0
  /\ key = [k \in Keys |-> None]
  /\ offered = [k \in Keys |-> None]
  /\ lock = [k \in Keys |-> None]
  /\ signedIn = {}
  /\ logins = [k \in Keys |-> 0]
  /\ pc = [p \in Requests |-> "idle"]
  /\ req = [p \in Requests |-> NoReq]
  /\ asOf = [p \in Requests |-> 0]
  /\ failed = FALSE

Forget(p) ==
  /\ pc' = [pc EXCEPT ![p] = "idle"]
  /\ req' = [req EXCEPT ![p] = NoReq]
  /\ asOf' = [asOf EXCEPT ![p] = 0]

-----------------------------------------------------------------------------
(* LoginKey.issue *)

\* A lifetime below the floor is refused before anything is written.
BeginIssue(p, k, ttl) ==
  /\ pc[p] = "idle"
  /\ ttl >= MinLifetime
  /\ key[k] = None /\ offered[k] = None
  /\ \A q \in Requests : req[q].key # k
  /\ pc' = [pc EXCEPT ![p] = "sweeping"]
  /\ req' = [req EXCEPT ![p] = [key |-> k, browser |-> None, ttl |-> ttl]]
  /\ asOf' = [asOf EXCEPT ![p] = now]
  /\ UNCHANGED <<now, key, offered, lock, signedIn, logins, failed>>

\* Fault: the sweep takes every row that will expire within the floor.
SweptEarly(p) ==
  {k \in Keys : key[k] # None /\ key[k].expires < asOf[p] + MinLifetime}

\* The rows an issue sweeps: expires_at < now.
Swept(p) == {k \in Keys : key[k] # None /\ key[k].expires < asOf[p]}

\* One DELETE statement; it waits for the rows a redemption has locked.
Sweep(p) ==
  /\ pc[p] = "sweeping"
  /\ \A k \in Swept(p) : lock[k] = None
  /\ key' = [k \in Keys |-> IF k \in Swept(p) THEN None ELSE key[k]]
  /\ pc' = [pc EXCEPT ![p] = "creating"]
  /\ UNCHANGED <<now, offered, lock, signedIn, logins, req, asOf, failed>>

Create(p) ==
  /\ pc[p] = "creating"
  /\ LET deadline == now + req[p].ttl
     IN  /\ key' = [key EXCEPT ![req[p].key] = [expires |-> deadline, used |-> FALSE]]
         /\ offered' = [offered EXCEPT ![req[p].key] = deadline]
  /\ Forget(p)
  /\ UNCHANGED <<now, lock, signedIn, logins, failed>>

-----------------------------------------------------------------------------
(* redeem_login_key and LoginKey.redeem *)

\* A signed-in viewer is refused (409) before the key is looked at. Only who
\* was given a link presents its key; any other string finds no row.
Present(p, b, k) ==
  /\ pc[p] = "idle"
  /\ offered[k] # None
  /\ b \notin signedIn
  /\ pc' = [pc EXCEPT ![p] = "presented"]
  /\ req' = [req EXCEPT ![p] = [key |-> k, browser |-> b, ttl |-> 0]]
  /\ asOf' = [asOf EXCEPT ![p] = now]
  /\ UNCHANGED <<now, key, offered, lock, signedIn, logins, failed>>

Redeemable(k, t) == key[k] # None /\ ~key[k].used /\ key[k].expires > t

\* The locked read finds no row: 404.
Refuse(p) ==
  LET k == req[p].key
  IN  /\ pc[p] = "presented"
      /\ lock[k] = None
      /\ ~Redeemable(k, asOf[p])
      /\ Forget(p)
      /\ UNCHANGED <<now, key, offered, lock, signedIn, logins, failed>>

\* Fault: the row is read without select_for_update.
SelectUnlocked(p) ==
  LET k == req[p].key
  IN  /\ pc[p] = "presented"
      /\ Redeemable(k, asOf[p])
      /\ pc' = [pc EXCEPT ![p] = "holding"]
      /\ UNCHANGED <<now, key, offered, lock, signedIn, logins, req, asOf, failed>>

\* A waiter looks at the row again once it gets the lock.
Select(p) ==
  LET k == req[p].key
  IN  /\ pc[p] = "presented"
      /\ lock[k] = None
      /\ Redeemable(k, asOf[p])
      /\ lock' = [lock EXCEPT ![k] = p]
      /\ pc' = [pc EXCEPT ![p] = "holding"]
      /\ UNCHANGED <<now, key, offered, signedIn, logins, req, asOf, failed>>

\* Fault: used_at is not stored.
ConsumeUnmarked(p) ==
  /\ pc[p] = "holding"
  /\ lock' = [lock EXCEPT ![req[p].key] = None]
  /\ pc' = [pc EXCEPT ![p] = "redeemed"]
  /\ UNCHANGED <<now, key, offered, signedIn, logins, req, asOf, failed>>

\* Fault: the lock outlives the commit.
ConsumeHolding(p) ==
  /\ pc[p] = "holding"
  /\ key' = [key EXCEPT ![req[p].key].used = TRUE]
  /\ pc' = [pc EXCEPT ![p] = "redeemed"]
  /\ UNCHANGED <<now, offered, lock, signedIn, logins, req, asOf, failed>>

\* used_at is saved and the transaction commits.
Consume(p) ==
  /\ pc[p] = "holding"
  /\ key' = [key EXCEPT ![req[p].key].used = TRUE]
  /\ lock' = [lock EXCEPT ![req[p].key] = None]
  /\ pc' = [pc EXCEPT ![p] = "redeemed"]
  /\ UNCHANGED <<now, offered, signedIn, logins, req, asOf, failed>>

\* Fault: the browser signed in meanwhile, so the login is skipped.
LoginUnlessSignedIn(p) ==
  /\ pc[p] = "redeemed"
  /\ signedIn' = signedIn \cup {req[p].browser}
  /\ logins' = IF req[p].browser \in signedIn
               THEN logins
               ELSE [logins EXCEPT ![req[p].key] = @ + 1]
  /\ Forget(p)
  /\ UNCHANGED <<now, key, offered, lock, failed>>

\* auth_login, whose session the response stores.
Login(p) ==
  /\ pc[p] = "redeemed"
  /\ signedIn' = signedIn \cup {req[p].browser}
  /\ logins' = [logins EXCEPT ![req[p].key] = @ + 1]
  /\ Forget(p)
  /\ UNCHANGED <<now, key, offered, lock, failed>>

-----------------------------------------------------------------------------
\* A request dies; an open transaction rolls back.
Abort(p) ==
  /\ pc[p] # "idle"
  /\ lock' = [k \in Keys |-> IF lock[k] = p THEN None ELSE lock[k]]
  /\ failed' = TRUE
  /\ Forget(p)
  /\ UNCHANGED <<now, key, offered, signedIn, logins>>

SignOut(b) ==
  /\ b \in signedIn
  /\ signedIn' = signedIn \ {b}
  /\ UNCHANGED <<now, key, offered, lock, logins, pc, req, asOf, failed>>

Tick ==
  /\ now < MaxTime
  /\ now' = now + 1
  /\ UNCHANGED <<key, offered, lock, signedIn, logins, pc, req, asOf, failed>>

Begin(p) ==
  \E k \in Keys : \/ \E ttl \in Lifetimes : BeginIssue(p, k, ttl)
                  \/ \E b \in Browsers : Present(p, b, k)

Wait(p) == Sweep(p) \/ Refuse(p) \/ Select(p)

Work(p) == Create(p) \/ Consume(p) \/ Login(p)

Next ==
  \/ Tick
  \/ \E b \in Browsers : SignOut(b)
  \/ \E p \in Requests : Begin(p) \/ Wait(p) \/ Work(p) \/ Abort(p)

Spec == Init /\ [][Next]_vars

\* Row locks are queued; a request that can go on does.
FairSpec == Spec /\ \A p \in Requests : SF_vars(Wait(p)) /\ WF_vars(Work(p))

=============================================================================
