------------------------ MODULE TrackedRowProperties ------------------------
(* What TrackedRow must do: safety, the abstract specification it            *)
(* implements, and liveness.                                                 *)
EXTENDS TrackedRow

RowValue == [ver : Nat, data : Data, file : Names \cup {None}]

Diff == UNION {[D -> Vals] : D \in SUBSET Cols}

LogEntry == [action : {"created", "updated", "deleted"}, old : Diff, new : Diff]

Request == [kind : AllKinds \cup {"none"}, row : Rows \cup {None}, expected : Nat]

Instance == [ver : Nat, data : Data \cup {Empty}, file : Names \cup {None, Upload}]

\* Type invariant of the database, the storage and the running calls.
TypeOK ==
  /\ row \in [Rows -> RowValue \cup {None}]
  /\ log \in [Rows -> Seq(LogEntry)]
  /\ disk \subseteq Names
  /\ lock \in [Rows -> Procs \cup {None}]
  /\ pc \in [Procs -> {"idle", "loaded", "locked", "saved", "committed"}]
  /\ req \in [Procs -> Request]
  /\ self \in [Procs -> Instance]
  /\ old \in [Procs -> Data \cup {Empty}]
  /\ doomed \in [Procs -> Nat]
  /\ queued \in [Procs -> SUBSET Names]
  /\ failed \in BOOLEAN

Live == {r \in Rows : row[r] # None}

\* Entry j is the last one before position i that sets column c.
LastWrite(history, i, j, c) ==
  /\ j < i
  /\ c \in DOMAIN history[j].new
  /\ \A k \in (j + 1)..(i - 1) : c \notin DOMAIN history[k].new

\* A live row's history is complete: it opens with the creation, every update
\* starts from what the entries before it left, and together they give the
\* row's present value. No write of save_plus escapes the audit, and none is
\* recorded that did not happen.
AuditChain ==
  \A r \in Live :
    /\ log[r] # <<>>
    /\ log[r][1].action = "created" /\ DOMAIN log[r][1].new = Cols
    /\ \A i \in 2..Len(log[r]) : log[r][i].action = "updated"
    /\ \A i, j \in 1..Len(log[r]) : \A c \in DOMAIN log[r][i].old :
         LastWrite(log[r], i, j, c) => log[r][i].old[c] = log[r][j].new[c]
    /\ \A j \in 1..Len(log[r]), c \in Cols :
         LastWrite(log[r], Len(log[r]) + 1, j, c) => row[r].data[c] = log[r][j].new[c]

\* Erasure (delete_plus): of a row that is gone, no field value survives in
\* the log, whatever save was in flight; only the tombstone does, and it is
\* never purged.
Erasure ==
  \A r \in Rows \ Live : log[r] # <<>> => log[r] = <<Tombstone>>

\* The whole pair implements atomic, audited writes of the current value: no
\* accepted full-row save ever reverts a column that another call changed
\* between this call's load and its lock (base.py save_plus, the optimistic
\* lock together with the in-memory instance).
Promise == INSTANCE AuditedRows WITH
  rows <- [r \in Rows |-> IF row[r] = None
                          THEN None
                          ELSE [ver |-> row[r].ver, data |-> row[r].data]]

ImplementsAuditedRows == Promise!Spec

Referenced == UNION {FileSet(row[r].file) : r \in Live}

\* The bytes of every committed row are in the storage: no post-commit
\* deletion, rollback or reuse of a freed name ever takes a live row's file.
LiveFilesOnDisk == Referenced \subseteq disk

\* Two rows never name the same stored file, so deleting one row's bytes
\* cannot reach another's.
OneOwnerPerFile ==
  \A r, s \in Live : r # s => FileSet(row[r].file) \cap FileSet(row[s].file) = {}

\* Once all calls have returned, and if none stopped half-way, the storage
\* holds exactly the files that rows name: replaced, cleared and deleted files
\* are gone ("delete_plus removes every file of the row with it").
NoOrphans ==
  (\A p \in Procs : pc[p] = "idle") /\ ~failed => disk \subseteq Referenced

\* Every call returns, however the row locks are contended: it is refused, or
\* commits and runs its clean-up, or fails.
CallsReturn == \A p \in Procs : pc[p] # "idle" ~> pc[p] = "idle"

-----------------------------------------------------------------------------
(* The inductive invariant behind TrackedRowProofs. *)

Updating == {"edit", "file"}

InTransaction == {"locked", "saved"}

\* What a call is doing, and the instance it holds, at each of its steps.
CallShape(p) ==
  /\ pc[p] \in {"idle", "committed"} => req[p] = NoReq
  /\ pc[p] \in {"loaded", "locked", "saved"} =>
       /\ req[p].kind \in AllKinds
       /\ req[p].row \in Rows
       /\ self[p].data \in Data
  /\ pc[p] = "loaded" => req[p].kind # "create"
  /\ pc[p] = "saved" \/ req[p].kind = "delete" => self[p].file # Upload

\* A transaction on an existing row holds that row's lock, and nothing else
\* holds one.
LocksHeld ==
  /\ \A p \in Procs :
       pc[p] \in InTransaction /\ req[p].kind # "create" =>
         lock[req[p].row] = p /\ row[req[p].row] # None
  /\ \A r \in Rows : lock[r] # None =>
       /\ req[lock[r]].row = r
       /\ pc[lock[r]] \in InTransaction
       /\ req[lock[r]].kind # "create"

\* A row being created is nobody else's, and does not exist yet.
FreshKeys ==
  \A p \in Procs : req[p].kind = "create" =>
    /\ row[req[p].row] = None
    /\ log[req[p].row] = <<>>
    /\ \A q \in Procs \ {p} : req[q].row # req[p].row

\* A row exists or is gone, and its log says which.
LogShape ==
  \A r \in Rows :
    /\ row[r] = None => log[r] \in {<<>>, <<Tombstone>>}
    /\ row[r] # None => log[r] # <<>>

\* to is from with at most one column set.
OneColumnEdit(from, to) ==
  \E c \in Cols, v \in Vals : to = [from EXCEPT ![c] = v]

\* What is in memory is as old as its version says: an instance whose version
\* is still the row's differs from the row by the call's own edit only.
LoadedFresh(p) ==
  LET r == req[p].row
  IN  pc[p] = "loaded" /\ req[p].kind \in Updating /\ row[r] # None =>
        /\ req[p].expected \in 0..self[p].ver
        /\ self[p].ver <= row[r].ver
        /\ p \in Skippers => self[p].ver = row[r].ver
        /\ self[p].ver = row[r].ver => OneColumnEdit(row[r].data, self[p].data)

\* With a single version-skipping writer there is no other updater.
SingleWriter ==
  \A p \in Procs : req[p].kind \in Updating => Skippers = {} \/ p \in Skippers

\* What an update is about to write, and a delete about to purge, is based on
\* the row and the log as they are.
WriteFresh(p) ==
  LET r == req[p].row
  IN  /\ pc[p] \in InTransaction /\ req[p].kind \in Updating =>
           /\ self[p].ver = row[r].ver + 1
           /\ OneColumnEdit(row[r].data, self[p].data)
      /\ pc[p] = "saved" /\ req[p].kind \in Updating => old[p] = row[r].data
      /\ pc[p] = "saved" /\ req[p].kind = "delete" => doomed[p] = Len(log[r])
      /\ req[p].kind = "create" => self[p].ver = 0

\* Strengthens TypeOK, Erasure and the refinement to an inductive invariant.
WriteInv ==
  /\ TypeOK
  /\ \A p \in Procs : CallShape(p)
  /\ LocksHeld
  /\ FreshKeys
  /\ LogShape
  /\ SingleWriter
  /\ \A p \in Procs : LoadedFresh(p) /\ WriteFresh(p)

-----------------------------------------------------------------------------
(* The inductive invariant behind the proofs about the stored files. *)

\* The name a save has just been given: on disk, and in no row until it commits.
Fresh(p) ==
  IF pc[p] = "saved" /\ req[p].kind \in {"create", "file"} THEN FileSet(self[p].file) ELSE {}

\* The names a committed call is still to delete.
CleanUp(p) == IF pc[p] = "committed" THEN queued[p] ELSE {}

Held(p) == Fresh(p) \cup CleanUp(p)

\* What a call writes or deletes is the file its row has now: an edit carries
\* it along, a replacement and a delete queue it.
FilesFresh(p) ==
  LET r == req[p].row
  IN  /\ pc[p] \in {"idle", "loaded"} => queued[p] = {}
      /\ req[p].kind = "create" => queued[p] = {}
      /\ req[p].kind \in {"create", "file"} /\ pc[p] # "saved" => self[p].file \in {None, Upload}
      /\ req[p].kind = "edit" /\ row[r] # None =>
           (pc[p] \in InTransaction \/ self[p].ver = row[r].ver => self[p].file = row[r].file)
      /\ req[p].kind = "delete" /\ row[r] # None => self[p].file = row[r].file
      /\ pc[p] \in InTransaction /\ req[p].kind = "edit" => queued[p] = {}
      /\ pc[p] \in InTransaction /\ req[p].kind \in {"file", "delete"} =>
           queued[p] = FileSet(row[r].file)

\* No row is deleted while its file is being replaced.
NoMeeting ==
  \A p, q \in Procs : req[p].kind = "delete" /\ req[q].kind = "file" => req[p].row # req[q].row

\* Every name on disk has one owner: a row, a save that has not committed, or
\* a clean-up that is to come; or its owner died.
FileInv ==
  /\ LiveFilesOnDisk
  /\ OneOwnerPerFile
  /\ \A p \in Procs : Held(p) \subseteq disk \ Referenced
  /\ \A p, q \in Procs : p # q => Held(p) \cap Held(q) = {}
  /\ \A p \in Procs : FilesFresh(p)
  /\ NoMeeting
  /\ ~failed => disk \subseteq Referenced \cup UNION {Held(p) : p \in Procs}

=============================================================================
