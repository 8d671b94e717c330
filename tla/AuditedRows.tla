---------------------------- MODULE AuditedRows ----------------------------
(***************************************************************************)
(* What save_plus and delete_plus of djangoapp/models/base.py promise to   *)
(* the code that calls them, with no locks, loads, transactions or files:  *)
(* every write of a row is one atomic step that edits the CURRENT value,   *)
(* bumps row_version by one and leaves exactly one audit entry (none when  *)
(* nothing an audit can show changed); a delete replaces the row's whole   *)
(* history by one tombstone, and a deleted primary key never comes back.   *)
(***************************************************************************)
EXTENDS AuditLog

CONSTANT Rows   \* primary keys; a sequence hands each out once

VARIABLES
  rows,   \* [Rows -> [ver, data]], or None before creation and after delete
  log     \* the BaseModelUpdateLog entries of each row, oldest first

vars == <<rows, log>>

Init ==
  /\ rows = [r \in Rows |-> None]
  /\ log  = [r \in Rows |-> <<>>]

Create(r, d) ==
  /\ rows[r] = None
  /\ log[r] = <<>>
  /\ rows' = [rows EXCEPT ![r] = [ver |-> 0, data |-> d]]
  /\ log'  = [log EXCEPT ![r] = <<Entry("created", Empty, d)>>]

\* One column of the current value changes, or none (a replaced file).
Edit(r, c, v) ==
  /\ rows[r] # None
  /\ LET old == rows[r].data
         new == [old EXCEPT ![c] = v]
     IN  /\ rows' = [rows EXCEPT ![r] = [ver |-> rows[r].ver + 1, data |-> new]]
         /\ log'  = [log EXCEPT ![r] = Logged(log[r], old, new)]

Delete(r) ==
  /\ rows[r] # None
  /\ rows' = [rows EXCEPT ![r] = None]
  /\ log'  = [log EXCEPT ![r] = <<Tombstone>>]

Next ==
  \E r \in Rows :
    \/ \E d \in Data : Create(r, d)
    \/ \E c \in Cols, v \in Vals : Edit(r, c, v)
    \/ Delete(r)

Spec == Init /\ [][Next]_vars

=============================================================================
