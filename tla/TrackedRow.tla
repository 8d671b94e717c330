----------------------------- MODULE TrackedRow -----------------------------
(***************************************************************************)
(* The tracked write pair of djangoapp/models/base.py, save_plus and       *)
(* delete_plus, called by request threads and background tasks that share  *)
(* one autocommit READ COMMITTED database and one file storage.            *)
(*                                                                         *)
(* A caller first loads the row in a statement of its own, then calls the  *)
(* tracked method, which opens a transaction, locks the row, writes, and   *)
(* commits; file deletions queued in the transaction run after the commit. *)
(* Every gap between those steps is a place where another caller may run,  *)
(* and where the call may fail.                                            *)
(***************************************************************************)
EXTENDS AuditLog, FiniteSets

CONSTANTS
  Procs,      \* threads that serve requests or run tasks
  Rows,       \* primary keys; a sequence hands each out once
  Names,      \* the names the storage can give a stored file
  Kinds,      \* the calls made in this instance: "create", "edit", "file", "delete"
  Skippers,   \* the single writer that passes SKIP_ROW_VERSION_CHECK, if any
  Meetings,   \* may a row be deleted while its file is being replaced?
  MaxVersion, \* bound on row_version
  Upload      \* the name of an assigned upload before the storage names it

AllKinds == {"create", "edit", "file", "delete"}

ASSUME KindsAssumption == Kinds \subseteq AllKinds /\ Meetings \in BOOLEAN
\* None and Upload are told apart from what they stand beside.
ASSUME NameAssumption ==
  /\ None \notin Procs \cup Rows \cup Names
  /\ None \notin [ver : Nat, data : Data, file : Names \cup {None}]
  /\ None \notin [ver : Nat, data : Data]
  /\ Upload \notin Names \cup {None}
\* SKIP_ROW_VERSION_CHECK is for "single-writer flows that own the row".
ASSUME SkipperAssumption ==
  /\ Skippers \subseteq Procs
  /\ \A p, q \in Skippers : p = q

VARIABLES
  row,     \* committed rows: None, or [ver, data, file]
  log,     \* committed BaseModelUpdateLog entries of each row, oldest first
  disk,    \* the names that have bytes in the storage
  lock,    \* the transaction that holds each row's lock, or None
  pc,      \* where each call is
  req,     \* the call: its kind, row, expected version
  self,    \* the in-memory instance the call writes from
  old,     \* the pre-edit snapshot an update took
  doomed,  \* how many log entries the purge of a delete saw
  queued,  \* file deletions that wait for the commit, or follow it
  failed   \* has a call ever stopped half-way?

vars == <<row, log, disk, lock, pc, req, self, old, doomed, queued, failed>>

-----------------------------------------------------------------------------
\* The file named by a column, as the set to delete: an empty column has none.
FileSet(name) == {name} \ {None}

\* Uploads that have not been given a stored name yet.
Uploading == {p \in Procs : pc[p] \in {"loaded", "locked"} /\ self[p].file = Upload}

\* Bound: an upload starts only if the storage will have a name for it.
RoomForUpload == Cardinality(Uploading) < Cardinality(Names \ disk)

-----------------------------------------------------------------------------
NoRow == [ver |-> 0, data |-> Empty, file |-> None]
NoReq == [kind |-> "none", row |-> None, expected |-> 0]

Init ==
  /\ row    = [r \in Rows |-> None]
  /\ log    = [r \in Rows |-> <<>>]
  /\ disk   = {}
  /\ lock   = [r \in Rows |-> None]
  /\ pc     = [p \in Procs |-> "idle"]
  /\ req    = [p \in Procs |-> NoReq]
  /\ self   = [p \in Procs |-> NoRow]
  /\ old    = [p \in Procs |-> Empty]
  /\ doomed = [p \in Procs |-> 0]
  /\ queued = [p \in Procs |-> {}]
  /\ failed = FALSE

\* What the end of a call forgets, whatever its outcome.
Forget(p) ==
  /\ req'    = [req EXCEPT ![p] = NoReq]
  /\ self'   = [self EXCEPT ![p] = NoRow]
  /\ old'    = [old EXCEPT ![p] = Empty]
  /\ doomed' = [doomed EXCEPT ![p] = 0]

(***************************************************************************)
(* save_plus on an instance that is being added: no row to lock yet. The   *)
(* primary key is fresh; a key whose insert rolled back may stay unused in *)
(* the database, which no caller can tell from its being handed out here.  *)
(***************************************************************************)
BeginCreate(p, r, d, f) ==
  /\ "create" \in Kinds
  /\ pc[p] = "idle"
  /\ row[r] = None /\ log[r] = <<>>
  /\ \A q \in Procs : req[q].row # r
  /\ f = Upload => RoomForUpload
  /\ pc'   = [pc EXCEPT ![p] = "locked"]
  /\ req'  = [req EXCEPT ![p] = [kind |-> "create", row |-> r, expected |-> 0]]
  /\ self' = [self EXCEPT ![p] = [ver |-> 0, data |-> d, file |-> f]]
  /\ UNCHANGED <<row, log, disk, lock, old, doomed, queued, failed>>

(***************************************************************************)
(* The caller's own load of the row, with the version its client sends.    *)
(* The client has read that version off an earlier reply, so it is one the *)
(* row has already reached: any number up to the loaded one.               *)
(***************************************************************************)
Load(p, r, k, e, instance) ==
  /\ pc[p] = "idle"
  /\ row[r] # None
  /\ k \in Kinds
  /\ e \in 0..row[r].ver
  /\ pc'   = [pc EXCEPT ![p] = "loaded"]
  /\ req'  = [req EXCEPT ![p] = [kind |-> k, row |-> r, expected |-> e]]
  /\ self' = [self EXCEPT ![p] = instance]
  /\ UNCHANGED <<row, log, disk, lock, old, doomed, queued, failed>>

\* Only the single writer updates a row family that has one.
MayUpdate(p, r) ==
  /\ row[r] # None
  /\ Skippers = {} \/ p \in Skippers
  /\ row[r].ver < MaxVersion

LoadToEdit(p, r, e, c, v) ==
  /\ MayUpdate(p, r)
  /\ Load(p, r, "edit", e, [row[r] EXCEPT !.data[c] = v])

\* Bound: no call of the other kind is under way on the row, unless Meetings.
Alone(r, k) == Meetings \/ \A q \in Procs : req[q].row = r => req[q].kind # k

\* A file column is reassigned (Upload) or cleared (None).
LoadToReplaceFile(p, r, e, f) ==
  /\ MayUpdate(p, r)
  /\ Alone(r, "delete")
  /\ f = Upload => RoomForUpload
  /\ Load(p, r, "file", e, [row[r] EXCEPT !.file = f])

\* delete_plus takes no version.
LoadToDelete(p, r) ==
  /\ row[r] # None
  /\ Alone(r, "file")
  /\ Load(p, r, "delete", 0, row[r])

-----------------------------------------------------------------------------
(* The locked read: select_for_update().get(pk=...). *)

\* Fault: the version is not compared.
StaleUnlessGone(p) == row[req[p].row] = None

\* The row is gone: DoesNotExist. Or its version moved: Http404.
Stale(p) ==
  LET r == req[p].row
  IN  row[r] # None => /\ req[p].kind # "delete"
                       /\ p \notin Skippers
                       /\ req[p].expected # row[r].ver

Refuse(p) ==
  /\ pc[p] = "loaded"
  /\ lock[req[p].row] = None
  /\ Stale(p)
  /\ pc' = [pc EXCEPT ![p] = "idle"]
  /\ Forget(p)
  /\ UNCHANGED <<row, log, disk, lock, queued, failed>>

\* Fault: the row is read without select_for_update.
LockToSaveUnlocked(p) ==
  LET r == req[p].row
  IN  /\ pc[p] = "loaded" /\ req[p].kind # "delete"
      /\ ~Stale(p)
      /\ pc'     = [pc EXCEPT ![p] = "locked"]
      /\ self'   = [self EXCEPT ![p].ver = row[r].ver + 1]
      /\ queued' = [queued EXCEPT ![p] =
                      FileSet(row[r].file) \ {self[p].file}]
      /\ UNCHANGED <<row, log, disk, lock, req, old, doomed, failed>>

\* Fault: the old file is deleted at once, not on commit.
LockToSaveEagerly(p) ==
  LET r == req[p].row
  IN  /\ pc[p] = "loaded" /\ req[p].kind # "delete"
      /\ lock[r] = None
      /\ ~Stale(p)
      /\ lock' = [lock EXCEPT ![r] = p]
      /\ pc'   = [pc EXCEPT ![p] = "locked"]
      /\ self' = [self EXCEPT ![p].ver = row[r].ver + 1]
      /\ disk' = disk \ (FileSet(row[r].file) \ {self[p].file})
      /\ UNCHANGED <<row, log, req, old, doomed, queued, failed>>

\* Fault: only a reassigned file is cleaned up, a cleared one is not.
LockToSaveKeepsCleared(p) ==
  LET r == req[p].row
  IN  /\ pc[p] = "loaded" /\ req[p].kind # "delete"
      /\ lock[r] = None
      /\ ~Stale(p)
      /\ lock'   = [lock EXCEPT ![r] = p]
      /\ pc'     = [pc EXCEPT ![p] = "locked"]
      /\ self'   = [self EXCEPT ![p].ver = row[r].ver + 1]
      /\ queued' = [queued EXCEPT ![p] =
                      IF self[p].file = Upload THEN FileSet(row[r].file) ELSE {}]
      /\ UNCHANGED <<row, log, disk, req, old, doomed, failed>>

\* The old file names come from the locked read, the new ones from self.
LockToSave(p) ==
  LET r == req[p].row
  IN  /\ pc[p] = "loaded" /\ req[p].kind # "delete"
      /\ lock[r] = None
      /\ ~Stale(p)
      /\ lock'   = [lock EXCEPT ![r] = p]
      /\ pc'     = [pc EXCEPT ![p] = "locked"]
      /\ self'   = [self EXCEPT ![p].ver = row[r].ver + 1]
      /\ queued' = [queued EXCEPT ![p] =
                      FileSet(row[r].file) \ {self[p].file}]
      /\ UNCHANGED <<row, log, disk, req, old, doomed, failed>>

\* Fault: the purge does not wait for the row's lock.
LockToDeleteUnlocked(p) ==
  /\ pc[p] = "loaded" /\ req[p].kind = "delete"
  /\ ~Stale(p)
  /\ pc'     = [pc EXCEPT ![p] = "locked"]
  /\ queued' = [queued EXCEPT ![p] = FileSet(self[p].file)]
  /\ UNCHANGED <<row, log, disk, lock, req, self, old, doomed, failed>>

\* The file names come from self, which was loaded before the lock.
LockToDelete(p) ==
  LET r == req[p].row
  IN  /\ pc[p] = "loaded" /\ req[p].kind = "delete"
      /\ lock[r] = None
      /\ ~Stale(p)
      /\ lock'   = [lock EXCEPT ![r] = p]
      /\ pc'     = [pc EXCEPT ![p] = "locked"]
      /\ queued' = [queued EXCEPT ![p] = FileSet(self[p].file)]
      /\ UNCHANGED <<row, log, disk, req, self, old, doomed, failed>>

-----------------------------------------------------------------------------
(* Inside the transaction. *)

\* Fault: the storage overwrites a file whose name is taken.
SaveOverwriting(p) ==
  LET r == req[p].row
  IN  /\ pc[p] = "locked" /\ req[p].kind # "delete"
      /\ pc'  = [pc EXCEPT ![p] = "saved"]
      /\ old' = [old EXCEPT ![p] = IF row[r] = None THEN Empty ELSE row[r].data]
      /\ IF self[p].file = Upload
         THEN \E n \in Names :
                /\ disk' = disk \cup {n}
                /\ self' = [self EXCEPT ![p].file = n]
         ELSE UNCHANGED <<disk, self>>
      /\ UNCHANGED <<row, log, lock, req, doomed, queued, failed>>

\* Fault: the row is written before the storage has named its upload.
SaveUnnamed(p) ==
  LET r == req[p].row
  IN  /\ pc[p] = "locked" /\ req[p].kind # "delete"
      /\ pc'  = [pc EXCEPT ![p] = "saved"]
      /\ old' = [old EXCEPT ![p] = IF row[r] = None THEN Empty ELSE row[r].data]
      /\ UNCHANGED <<row, log, disk, lock, req, self, doomed, queued, failed>>

\* The pre-edit snapshot, then super().save(): an upload's bytes go to a
\* name nobody has before the row is written.
Save(p) ==
  LET r == req[p].row
  IN  /\ pc[p] = "locked" /\ req[p].kind # "delete"
      /\ pc'  = [pc EXCEPT ![p] = "saved"]
      /\ old' = [old EXCEPT ![p] = IF row[r] = None THEN Empty ELSE row[r].data]
      /\ IF self[p].file = Upload
         THEN \E n \in Names \ disk :
                /\ disk' = disk \cup {n}
                /\ self' = [self EXCEPT ![p].file = n]
         ELSE UNCHANGED <<disk, self>>
      /\ UNCHANGED <<row, log, lock, req, doomed, queued, failed>>

\* The purge deletes the committed entries its statement can see.
Purge(p) ==
  /\ pc[p] = "locked" /\ req[p].kind = "delete"
  /\ pc'     = [pc EXCEPT ![p] = "saved"]
  /\ doomed' = [doomed EXCEPT ![p] = Len(log[req[p].row])]
  /\ UNCHANGED <<row, log, disk, lock, req, self, old, queued, failed>>

\* The calls' post-commit callbacks run before the call returns.
EndOrCleanUp(p) ==
  pc' = [pc EXCEPT ![p] = IF queued[p] = {} THEN "idle" ELSE "committed"]

CommitCreate(p) ==
  LET r == req[p].row
  IN  /\ pc[p] = "saved" /\ req[p].kind = "create"
      /\ row' = [row EXCEPT ![r] = self[p]]
      /\ log' = [log EXCEPT ![r] = <<Entry("created", Empty, self[p].data)>>]
      /\ EndOrCleanUp(p)
      /\ Forget(p)
      /\ UNCHANGED <<disk, lock, queued, failed>>

\* Fault: the row stays locked after the commit.
CommitSaveHolding(p) ==
  LET r == req[p].row
  IN  /\ pc[p] = "saved" /\ req[p].kind \in {"edit", "file"}
      /\ row'  = [row EXCEPT ![r] = self[p]]
      /\ log'  = [log EXCEPT ![r] = Logged(log[r], old[p], self[p].data)]
      /\ EndOrCleanUp(p)
      /\ Forget(p)
      /\ UNCHANGED <<disk, lock, queued, failed>>

CommitSave(p) ==
  LET r == req[p].row
  IN  /\ pc[p] = "saved" /\ req[p].kind \in {"edit", "file"}
      /\ row'  = [row EXCEPT ![r] = self[p]]
      /\ log'  = [log EXCEPT ![r] = Logged(log[r], old[p], self[p].data)]
      /\ lock' = [lock EXCEPT ![r] = None]
      /\ EndOrCleanUp(p)
      /\ Forget(p)
      /\ UNCHANGED <<disk, queued, failed>>

CommitDelete(p) ==
  LET r == req[p].row
  IN  /\ pc[p] = "saved" /\ req[p].kind = "delete"
      /\ lock[r] \in {p, None}   \* the DELETE needs the row lock too
      /\ row'  = [row EXCEPT ![r] = None]
      /\ log'  = [log EXCEPT ![r] =
                    Append(SubSeq(log[r], doomed[p] + 1, Len(log[r])), Tombstone)]
      /\ lock' = [lock EXCEPT ![r] = None]
      /\ EndOrCleanUp(p)
      /\ Forget(p)
      /\ UNCHANGED <<disk, queued, failed>>

-----------------------------------------------------------------------------
(* After the commit, and failures. *)

\* storage.delete(name) from transaction.on_commit; a missing file is fine.
RunCallback(p) ==
  /\ pc[p] = "committed"
  /\ \E n \in queued[p] :
       /\ disk'   = disk \ {n}
       /\ queued' = [queued EXCEPT ![p] = @ \ {n}]
       /\ pc'     = [pc EXCEPT ![p] = IF queued[p] = {n} THEN "idle" ELSE "committed"]
  /\ UNCHANGED <<row, log, lock, req, self, old, doomed, failed>>

(***************************************************************************)
(* A call that stops: an error in the transaction or in an enclosing one,  *)
(* or the death of its process. An open transaction rolls back and its     *)
(* callbacks never run; after the commit the remaining callbacks are lost. *)
(***************************************************************************)
Abort(p) ==
  /\ pc[p] # "idle"
  /\ pc'     = [pc EXCEPT ![p] = "idle"]
  /\ lock'   = [r \in Rows |-> IF lock[r] = p THEN None ELSE lock[r]]
  /\ queued' = [queued EXCEPT ![p] = {}]
  /\ failed' = TRUE
  /\ Forget(p)
  /\ UNCHANGED <<row, log, disk>>

Begin(p) ==
  \E r \in Rows :
    \/ \E d \in Data, f \in {None, Upload} : BeginCreate(p, r, d, f)
    \/ \E e \in 0..MaxVersion, c \in Cols, v \in Vals : LoadToEdit(p, r, e, c, v)
    \/ \E e \in 0..MaxVersion, f \in {None, Upload} : LoadToReplaceFile(p, r, e, f)
    \/ LoadToDelete(p, r)

Lock(p) == Refuse(p) \/ LockToSave(p) \/ LockToDelete(p)

Work(p) ==
  \/ Save(p) \/ Purge(p)
  \/ CommitCreate(p) \/ CommitSave(p) \/ CommitDelete(p)
  \/ RunCallback(p)

Next == \E p \in Procs : Begin(p) \/ Lock(p) \/ Work(p) \/ Abort(p)

Spec == Init /\ [][Next]_vars

\* A running call goes on, and the database queues lock requests fairly;
\* nothing makes a call begin or fail.
Fairness == \A p \in Procs : SF_vars(Lock(p)) /\ WF_vars(Work(p))

FairSpec == Spec /\ Fairness

=============================================================================
