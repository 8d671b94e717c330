----------------------------- MODULE UserAdmin -----------------------------
(***************************************************************************)
(* Accounts and who may manage them: User.create_by_email and User.update  *)
(* (djangoapp/models/base.py), the edit form's edit_submit                 *)
(* (djangoapp/views/users.py), the createuser and promotetosuperuser       *)
(* commands, and the social signup (djangoapp/adapters.py).                *)
(*                                                                         *)
(* edit_submit and the commands are sequences of autocommit statements:    *)
(* the check of the viewer, the load of the target, the full-row save and  *)
(* the audit entry are steps others come between.                          *)
(***************************************************************************)
EXTENDS Integers, SequencesExt

CONSTANTS
  Accounts,  \* accounts, each created once
  Editors,   \* web requests in flight
  Shells,    \* management commands in flight
  MaxEdits,  \* bound on the entries that follow a creation, of all accounts
  MaxAtWork, \* bound on the requests and commands at work together
  SignupFirst, \* may a social signup make the first account?
  Forms,     \* bound: what the edit forms may hold
  None

\* The two flags that gate management, and one field for the other six.
Fields == [superuser : BOOLEAN, active : BOOLEAN, other : BOOLEAN]
Procs == Editors \cup Shells

ASSUME AdminAssumption ==
  /\ MaxEdits \in Nat /\ MaxAtWork \in Nat /\ SignupFirst \in BOOLEAN /\ Forms \subseteq Fields
  /\ None \notin Accounts \cup Fields
  /\ Editors \cap Shells = {}

VARIABLES
  user,   \* User rows: None, or their fields
  audit,  \* the UserHistory entries of each account, oldest first
  pc,     \* where each request or command is
  req,    \* its viewer (None for a command) and its target
  self,   \* the fields it will save
  old,    \* the fields it loaded
  torn    \* accounts whose edits have met, or died half-way: no state of the
          \* code, it says where the audit's promise ends

vars == <<user, audit, pc, req, self, old, torn>>

Events == {"login", "login_link", "logout_all"}
NoReq == [viewer |-> None, target |-> None]
Ordinary == [superuser |-> FALSE, active |-> TRUE, other |-> FALSE]
Super    == [superuser |-> TRUE, active |-> TRUE, other |-> FALSE]

Entry(action, changes) == [action |-> action, changes |-> changes]

\* as_new: the whole snapshot is the "created" entry's change.
Created(fields) == Entry("created", fields)

\* Fault: a field is forgotten.
DifferenceButActive(was, is) ==
  [f \in {g \in {"superuser", "other"} : was[g] # is[g]} |-> is[f]]

\* UserSnapshot.difference, the new half: the fields that changed.
Difference(was, is) == [f \in {g \in DOMAIN was : was[g] # is[g]} |-> is[f]]

Init ==
  /\ user = [a \in Accounts |-> None]
  /\ audit = [a \in Accounts |-> <<>>]
  /\ pc = [p \in Procs |-> "idle"]
  /\ req = [p \in Procs |-> NoReq]
  /\ self = [p \in Procs |-> Ordinary]
  /\ old = [p \in Procs |-> Ordinary]
  /\ torn = {}

Exists(a) == user[a] # None
Manages(a) == Exists(a) /\ user[a].superuser /\ user[a].active
\* Bounds: a load, and the entry of an event, start only while there is room,
\* and there is one event.
Room == MapThenSumSet(LAMBDA a : Len(audit[a]) - 1, {a \in Accounts : Exists(a)}) < MaxEdits

\* Bound: a request or a command begins.
Begins(p) == pc[p] = "idle" /\ Cardinality({q \in Procs : pc[q] # "idle"}) < MaxAtWork

Forget(p) ==
  /\ req' = [req EXCEPT ![p] = NoReq]
  /\ self' = [self EXCEPT ![p] = Ordinary]
  /\ old' = [old EXCEPT ![p] = Ordinary]

-----------------------------------------------------------------------------
(* create_by_email, from the createuser command. *)

\* "The first user must be a superuser".
MayCreate(fields) == fields.superuser \/ \E a \in Accounts : Exists(a)

CheckFirst(p, a, fields) ==
  /\ Begins(p) /\ p \in Shells
  /\ ~Exists(a) /\ \A q \in Procs : req[q].target # a
  /\ MayCreate(fields)
  /\ pc' = [pc EXCEPT ![p] = "creating"]
  /\ req' = [req EXCEPT ![p].target = a]
  /\ self' = [self EXCEPT ![p] = fields]
  /\ UNCHANGED <<user, audit, old, torn>>

\* Fault: the audit entry is left to a later statement.
CreateThenRecord(p) ==
  LET a == req[p].target
  IN  /\ pc[p] = "creating"
      /\ user' = [user EXCEPT ![a] = self[p]]
      /\ pc' = [pc EXCEPT ![p] = "saved"]
      /\ UNCHANGED <<audit, req, self, old, torn>>

\* The row, its flags and its "created" entry in one transaction.
Create(p) ==
  LET a == req[p].target
  IN  /\ pc[p] = "creating"
      /\ user' = [user EXCEPT ![a] = self[p]]
      /\ audit' = [audit EXCEPT ![a] = <<Created(self[p])>>]
      /\ pc' = [pc EXCEPT ![p] = "idle"]
      /\ Forget(p)
      /\ UNCHANGED torn

\* SocialAccountAdapter.save_user: the same, with no check of the table.
SignUp(a) ==
  /\ SignupFirst \/ \E b \in Accounts : Exists(b)
  /\ ~Exists(a) /\ \A q \in Procs : req[q].target # a
  /\ user' = [user EXCEPT ![a] = Ordinary]
  /\ audit' = [audit EXCEPT ![a] = <<Created(Ordinary)>>]
  /\ UNCHANGED <<pc, req, self, old, torn>>

-----------------------------------------------------------------------------
(* edit_submit *)

\* superuser_or_404: the viewer as the request's session loads it.
Admit(p, v) ==
  /\ Begins(p) /\ p \in Editors
  /\ Manages(v)
  /\ pc' = [pc EXCEPT ![p] = "admitted"]
  /\ req' = [req EXCEPT ![p].viewer = v]
  /\ UNCHANGED <<user, audit, self, old, torn>>

\* Fault: the viewer may lock itself out.
AnyEdit(v, a, fields) == TRUE

\* The self_lockout guard.
Allowed(v, a, fields) == v = a => fields.superuser /\ fields.active

\* get_user_or_404, the guard, and User.update on the instance.
LoadToEdit(p, a, fields) ==
  /\ pc[p] = "admitted"
  /\ Exists(a) /\ Room
  /\ Allowed(req[p].viewer, a, fields)
  /\ pc' = [pc EXCEPT ![p] = "loaded"]
  /\ req' = [req EXCEPT ![p].target = a]
  /\ old' = [old EXCEPT ![p] = user[a]]
  /\ self' = [self EXCEPT ![p] = fields]
  /\ UNCHANGED <<user, audit, torn>>

\* promotetosuperuser: everything but the flag is saved as it was loaded. Who
\* is a superuser but not staff, which has no part here, is promoted too.
LoadToPromote(p, a) ==
  /\ Begins(p) /\ p \in Shells
  /\ Exists(a) /\ Room
  /\ pc' = [pc EXCEPT ![p] = "loaded"]
  /\ req' = [req EXCEPT ![p].target = a]
  /\ old' = [old EXCEPT ![p] = user[a]]
  /\ self' = [self EXCEPT ![p] = [user[a] EXCEPT !.superuser = TRUE]]
  /\ UNCHANGED <<user, audit, torn>>

\* self.save() writes the whole row, whatever became of it since.
Save(p) ==
  /\ pc[p] = "loaded"
  /\ user' = [user EXCEPT ![req[p].target] = self[p]]
  /\ pc' = [pc EXCEPT ![p] = "saved"]
  /\ torn' = torn \cup {a \in {req[p].target} : \E q \in Procs \ {p} :
                          req[q].target = a /\ pc[q] \in {"loaded", "saved"}}
  /\ UNCHANGED <<audit, req, self, old>>

\* record_edited, unless nothing changed.
Record(p) ==
  LET changes == Difference(old[p], self[p])
  IN  /\ pc[p] = "saved"
      /\ audit' = IF changes = <<>> THEN audit
                  ELSE [audit EXCEPT ![req[p].target] = Append(@, Entry("edited", changes))]
      /\ pc' = [pc EXCEPT ![p] = "idle"]
      /\ Forget(p)
      /\ UNCHANGED <<user, torn>>

\* record_login, record_login_link and record_logout_all, from the views that
\* sign users in, hand out links and end sessions: no field changes.
RecordEvent(a, action) ==
  /\ Exists(a) /\ Room
  /\ \A b \in Accounts : \A i \in DOMAIN audit[b] : audit[b][i].action \notin Events
  /\ audit' = [audit EXCEPT ![a] = Append(@, Entry(action, <<>>))]
  /\ UNCHANGED <<user, pc, req, self, old, torn>>

\* The request or command dies.
Abort(p) ==
  /\ pc[p] # "idle"
  /\ pc' = [pc EXCEPT ![p] = "idle"]
  /\ torn' = torn \cup {a \in {req[p].target} : pc[p] = "saved"}
  /\ Forget(p)
  /\ UNCHANGED <<user, audit>>

Step(p) ==
  \/ \E a \in Accounts :
       \/ \E fields \in {Ordinary, Super} : CheckFirst(p, a, fields)
       \/ \E fields \in Forms : LoadToEdit(p, a, fields)
       \/ Admit(p, a) \/ LoadToPromote(p, a)
  \/ Create(p) \/ Save(p) \/ Record(p) \/ Abort(p)

Next ==
  \/ \E a \in Accounts : SignUp(a) \/ \E what \in Events : RecordEvent(a, what)
  \/ (\E p \in Procs : Step(p))

Spec == Init /\ [][Next]_vars

-----------------------------------------------------------------------------

\* Somebody can manage accounts as soon as there are any: createuser insists
\* that the first be a superuser (base.py:176-188), and after that "the
\* active-superuser count can never fall to zero" through the edit form
\* (views/users.py:359-362).
NotLockedOut ==
  (\E a \in Accounts : Exists(a)) => \E a \in Accounts : Manages(a)

\* A superuser's form that has been demoted since it was let in, or a command
\* whose row has changed since it loaded it.
Stale(p) ==
  IF p \in Editors THEN ~Manages(req[p].viewer) ELSE user[req[p].target] # old[p]

\* What takes the last manager away, with any forms and commands at work: a save
\* that was allowed on what is no longer so, or a signup before there was any
\* account. The guards (the self-lockout guard and the superuser gate,
\* views/users.py:357-365; the first-user rule, base.py:181-187; a promotion
\* keeps the other fields) let no other step do it.
OnlyStaleSavesLockOut ==
  [][NotLockedOut /\ ~NotLockedOut' =>
       \/ \E p \in Procs : pc[p] = "loaded" /\ pc'[p] = "saved" /\ Stale(p)
       \/ (\A a \in Accounts : ~Exists(a)) /\ UNCHANGED pc]_vars

\* No account without its "created" entry, wherever its creation stopped
\* ("must not strand an unaudited user", base.py:191-193).
BornAudited ==
  \A a \in Accounts : Exists(a) => audit[a] # <<>> /\ audit[a][1].action = "created"

\* Entry i is the last that says what became of field f.
LastChange(entries, i, f) ==
  /\ f \in DOMAIN entries[i].changes
  /\ \A k \in (i + 1)..Len(entries) : f \notin DOMAIN entries[k].changes

\* The entries tell these fields: the first one says all of them, and of each
\* the last word is what it is.
Tell(entries, fields) ==
  /\ entries # <<>> /\ DOMAIN entries[1].changes = DOMAIN fields
  /\ \A i \in 1..Len(entries) : \A f \in DOMAIN fields :
       LastChange(entries, i, f) => entries[i].changes[f] = fields[f]

\* The audit tells what became of an account: its entries, applied one after
\* the other, end in the row as it stands. It fails only for accounts whose
\* edits met on a row each had read before ("self.save()" writes all fields,
\* base.py:155), or died before their entry.
TrailTells ==
  \A a \in Accounts :
    Exists(a) /\ a \notin torn /\ (\A p \in Procs : pc[p] = "saved" => req[p].target # a)
      => Tell(audit[a], user[a])

=============================================================================
