------------------------- MODULE LoginKeyProperties -------------------------
(* What LoginKeys must do, and the abstract specification it implements.     *)
EXTENDS LoginKeys

KeyRow == [expires : Nat, used : BOOLEAN]

Request == [key : Keys \cup {None}, browser : Browsers \cup {None},
            ttl : Lifetimes \cup {0}]

\* Type invariant of the key rows and the requests.
TypeOK ==
  /\ now \in Nat
  /\ key \in [Keys -> KeyRow \cup {None}]
  /\ offered \in [Keys -> Nat \cup {None}]
  /\ lock \in [Keys -> Requests \cup {None}]
  /\ signedIn \subseteq Browsers
  /\ logins \in [Keys -> Nat]
  /\ pc \in [Requests -> {"idle", "sweeping", "creating",
                          "presented", "holding", "redeemed"}]
  /\ req \in [Requests -> Request]
  /\ asOf \in [Requests -> Nat]
  /\ failed \in BOOLEAN

\* The redemptions of a key that have committed and not logged in yet.
Owing(k) == {p \in Requests : pc[p] = "redeemed" /\ req[p].key = k}

\* "a link logs its user in exactly once, ever" (login_key.py:35): however
\* many requests present a key at once, and whatever the sweeps do meanwhile,
\* it opens one session at the most.
LoggedInOnce == \A k \in Keys : logins[k] + Cardinality(Owing(k)) <= 1

\* What has become of a key.
Status(k) ==
  IF offered[k] = None THEN "new"
  ELSE IF key[k] = None THEN "gone"
  ELSE IF key[k].used THEN "spent"
  ELSE "open"

\* The key rows, the locked read and the login after the commit implement
\* keys that go from new to open to spent, each step atomic.
Promise == INSTANCE OneTimeKeys WITH
  status <- [k \in Keys |-> Status(k)],
  owed <- {k \in Keys : Owing(k) # {}}

ImplementsOneTimeKeys == Promise!Spec

\* No link is wasted: a key that is marked used has logged its user in, or is
\* about to, unless a request has died between the two (redeem commits before
\* auth_login runs).
SpentMeansLoggedIn ==
  \A k \in Keys : key[k] # None =>
    (key[k].used => logins[k] = 1 \/ Owing(k) # {} \/ failed)

\* The deadline issue returns is kept: a link is refused only if the deadline
\* has passed by then, the link has been spent, or a request has died. No sweep
\* by a concurrent issue takes a row that could still be redeemed.
DeadlineKept ==
  [][\A p \in Requests :
       LET k == req[p].key
       IN  pc[p] = "presented" /\ pc'[p] = "idle" =>
             \/ offered[k] <= now
             \/ logins[k] = 1 \/ Owing(k) # {}
             \/ failed']_vars

\* Every redemption and every issue returns, however many wait for a row.
RequestsReturn == \A p \in Requests : pc[p] # "idle" ~> pc[p] = "idle"

-----------------------------------------------------------------------------
(* The inductive invariant behind LoginKeyProofs. *)

\* What a request carries at each of its steps.
RequestShape(p) ==
  /\ pc[p] # "idle" => req[p].key \in Keys
  /\ pc[p] \in {"presented", "holding", "redeemed"} =>
       req[p].browser \in Browsers /\ offered[req[p].key] # None
  /\ pc[p] \in {"sweeping", "creating"} =>
       /\ req[p].ttl \in Lifetimes
       /\ offered[req[p].key] = None
       /\ \A q \in Requests \ {p} : req[q].key # req[p].key

\* A redemption holds its row's lock, on an unused row, until it commits.
LocksHeld ==
  /\ \A p \in Requests : pc[p] = "holding" =>
       /\ lock[req[p].key] = p
       /\ key[req[p].key] # None /\ ~key[req[p].key].used
  /\ \A k \in Keys : lock[k] # None => pc[lock[k]] = "holding" /\ req[lock[k]].key = k

\* A key owes or has opened one session, and none before it is used.
Once(k) ==
  /\ logins[k] \in {0, 1}
  /\ \A p, q \in Owing(k) : p = q
  /\ Owing(k) # {} => logins[k] = 0
  /\ offered[k] = None => key[k] = None
  /\ offered[k] = None \/ (key[k] # None /\ ~key[k].used) =>
       logins[k] = 0 /\ Owing(k) = {}

\* Strengthens LoggedInOnce and the refinement to an inductive invariant.
KeyInv ==
  /\ TypeOK
  /\ \A p \in Requests : RequestShape(p)
  /\ LocksHeld
  /\ \A k \in Keys : Once(k)

\* No clock reading is of the future, a row expires when its link was said to,
\* and a row that is gone had expired.
DeadlinesTrue ==
  /\ \A p \in Requests : asOf[p] <= now
  /\ \A k \in Keys : offered[k] # None =>
       IF key[k] = None THEN offered[k] < now ELSE key[k].expires = offered[k]

\* Strengthens SpentMeansLoggedIn and DeadlineKept to an inductive invariant.
LinkInv == KeyInv /\ SpentMeansLoggedIn /\ DeadlinesTrue

=============================================================================
