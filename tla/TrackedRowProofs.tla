-------------------------- MODULE TrackedRowProofs --------------------------
(***************************************************************************)
(* Proofs about TrackedRow for every set of callers, rows, columns, values *)
(* and file names. The inductive invariants are WriteInv and, for the      *)
(* stored files, FileInv.                                                  *)
(***************************************************************************)
EXTENDS TrackedRowProperties, SequenceTheorems, TLAPS

-----------------------------------------------------------------------------
(* The audit log. *)

\* A restriction of a snapshot to some columns is a diff.
LEMMA DiffType ==
  ASSUME NEW D \in SUBSET Cols, NEW d \in Data
  PROVE  [c \in D |-> d[c]] \in Diff
<1>1. [c \in D |-> d[c]] \in [D -> Vals]
  BY DEF Data
<1>2. QED
  BY <1>1 DEF Diff

\* The empty diff is one.
LEMMA EmptyType == Empty \in Diff
<1>1. Empty \in [{} -> Vals]
  BY DEF Empty
<1>2. {} \in SUBSET Cols
  OBVIOUS
<1>3. QED
  BY <1>1, <1>2 DEF Diff

\* A whole snapshot is a diff.
LEMMA DataIsDiff == Data \subseteq Diff
  BY DEF Data, Diff

\* An update keeps the log a sequence of entries.
LEMMA LoggedType ==
  ASSUME NEW h \in Seq(LogEntry), NEW a \in Data, NEW b \in Data
  PROVE  Logged(h, a, b) \in Seq(LogEntry)
<1> DEFINE D == Changed(a, b)
           e == Entry("updated", [c \in D |-> a[c]], [c \in D |-> b[c]])
<1>1. D \in SUBSET Cols
  BY DEF Changed
<1>2. [c \in D |-> a[c]] \in Diff /\ [c \in D |-> b[c]] \in Diff
  <2> HIDE DEF D
  <2> QED BY <1>1, DiffType
<1>3. e \in LogEntry
  <2> HIDE DEF D
  <2> QED BY <1>2 DEF Entry, LogEntry
<1>4. Append(h, e) \in Seq(LogEntry)
  <2> HIDE DEF e
  <2> QED BY <1>3
<1>5. Logged(h, a, b) = h \/ Logged(h, a, b) = Append(h, e)
  BY DEF Logged
<1>6. QED
  BY <1>4, <1>5

\* A log with an entry keeps one.
LEMMA LoggedNonEmpty ==
  ASSUME NEW h \in Seq(LogEntry), NEW a \in Data, NEW b \in Data, h # <<>>
  PROVE  Logged(h, a, b) # <<>>
<1> DEFINE D == Changed(a, b)
           e == Entry("updated", [c \in D |-> a[c]], [c \in D |-> b[c]])
<1>1. Logged(h, a, b) = h \/ Logged(h, a, b) = Append(h, e)
  BY DEF Logged
<1>2. Append(h, e) # <<>>
  <2> HIDE DEF e
  <2> QED OBVIOUS
<1>3. QED
  BY <1>1, <1>2

\* The tombstone is an entry, and a purge of all entries leaves only it.
LEMMA TombstoneType == Tombstone \in LogEntry
  BY EmptyType DEF Tombstone, Entry, LogEntry

LEMMA PurgeAll ==
  ASSUME NEW h \in Seq(LogEntry)
  PROVE  Append(SubSeq(h, Len(h) + 1, Len(h)), Tombstone) = <<Tombstone>>
<1>1. SubSeq(h, Len(h) + 1, Len(h)) = <<>>
  OBVIOUS
<1>2. <<>> \in Seq(LogEntry) /\ <<Tombstone>> \in Seq(LogEntry)
  BY TombstoneType
<1>3. Append(<<>>, Tombstone) = <<>> \o <<Tombstone>>
  BY <1>2, TombstoneType, AppendIsConcat
<1>4. <<>> \o <<Tombstone>> = <<Tombstone>>
  BY <1>2, ConcatEmptySeq
<1>5. QED
  BY <1>1, <1>3, <1>4

-----------------------------------------------------------------------------
(* The inductive invariant. *)

LEMMA InitInv == Init => WriteInv
<1> SUFFICES ASSUME Init PROVE WriteInv
  OBVIOUS
<1> USE DEF Init
<1>1. TypeOK
  <2>1. NoRow \in Instance
    BY DEF NoRow, Instance
  <2>2. NoReq \in Request
    BY DEF NoReq, Request
  <2>3. \A r \in Rows : log[r] \in Seq(LogEntry)
    OBVIOUS
  <2>4. QED
    BY <2>1, <2>2, <2>3 DEF TypeOK
<1>2. \A p \in Procs : CallShape(p)
  BY DEF CallShape, NoReq
<1>3. LocksHeld /\ LogShape
  BY DEF LocksHeld, LogShape, InTransaction
<1>4. FreshKeys /\ SingleWriter
  BY DEF FreshKeys, SingleWriter, NoReq, Updating
<1>5. \A p \in Procs : LoadedFresh(p) /\ WriteFresh(p)
  BY DEF LoadedFresh, WriteFresh, NoReq, Updating, InTransaction
<1>6. QED
  BY <1>1, <1>2, <1>3, <1>4, <1>5 DEF WriteInv

\* A call that a step does not touch, on a row and a log it does not touch.
LEMMA UntouchedFresh ==
  ASSUME NEW q \in Procs, LoadedFresh(q), WriteFresh(q),
         pc'[q] = pc[q], req'[q] = req[q], self'[q] = self[q],
         old'[q] = old[q], doomed'[q] = doomed[q],
         row'[req[q].row] = row[req[q].row], log'[req[q].row] = log[req[q].row]
  PROVE  LoadedFresh(q)' /\ WriteFresh(q)'
BY DEF LoadedFresh, WriteFresh, OneColumnEdit, Updating, InTransaction

LEMMA BeginCreateInv ==
  ASSUME WriteInv, NEW p \in Procs, NEW r \in Rows, NEW d \in Data,
         NEW f \in {None, Upload}, BeginCreate(p, r, d, f)
  PROVE  WriteInv'
<1> USE DEF WriteInv, BeginCreate
<1>1. TypeOK'
  <2>1. [kind |-> "create", row |-> r, expected |-> 0] \in Request
    BY DEF Request, AllKinds
  <2>2. [ver |-> 0, data |-> d, file |-> f] \in Instance
    BY DEF Instance
  <2>3. QED
    BY <2>1, <2>2 DEF TypeOK
<1>2. (\A q \in Procs : CallShape(q))'
  BY DEF CallShape, TypeOK, AllKinds
<1>3. LocksHeld'
  BY NameAssumption DEF LocksHeld, TypeOK, CallShape, InTransaction, NoReq
<1>4. FreshKeys'
  BY DEF FreshKeys, TypeOK
<1>5. LogShape'
  BY DEF LogShape
<1>6. SingleWriter'
  BY DEF SingleWriter, TypeOK, Updating
<1>7. (\A q \in Procs : LoadedFresh(q) /\ WriteFresh(q))'
  BY DEF LoadedFresh, WriteFresh, TypeOK, Updating, InTransaction
<1>8. QED
  BY <1>1, <1>2, <1>3, <1>4, <1>5, <1>6, <1>7

LEMMA LoadInv ==
  ASSUME WriteInv, NEW p \in Procs, NEW r \in Rows, NEW k \in {"edit", "file", "delete"},
         NEW e \in Nat, NEW i \in Instance, Load(p, r, k, e, i),
         i.data \in Data, i.ver = row[r].ver,
         k = "delete" => i.file # Upload,
         k \in Updating => Skippers = {} \/ p \in Skippers,
         k \in Updating => OneColumnEdit(row[r].data, i.data)
  PROVE  WriteInv'
<1> USE DEF WriteInv, Load
<1>1. TypeOK'
  <2>1. [kind |-> k, row |-> r, expected |-> e] \in Request
    BY DEF Request, AllKinds
  <2>2. QED
    BY <2>1 DEF TypeOK
<1>2. (\A q \in Procs : CallShape(q))'
  BY DEF CallShape, TypeOK, AllKinds
<1>3. LocksHeld'
  BY NameAssumption DEF LocksHeld, TypeOK, CallShape, InTransaction, NoReq
<1>4. FreshKeys'
  BY DEF FreshKeys, TypeOK
<1>5. LogShape'
  BY DEF LogShape
<1>6. SingleWriter'
  BY DEF SingleWriter, TypeOK, Updating
<1>7. (\A q \in Procs : LoadedFresh(q) /\ WriteFresh(q))'
  <2>1. row[r].ver \in Nat
    BY DEF TypeOK, RowValue
  <2> SUFFICES ASSUME NEW q \in Procs PROVE LoadedFresh(q)' /\ WriteFresh(q)'
    OBVIOUS
  <2>2. CASE q = p
    <3>1. /\ pc'[p] = "loaded" /\ self'[p] = i /\ row' = row
          /\ req'[p].kind = k /\ req'[p].row = r /\ req'[p].expected = e
      BY DEF TypeOK
    <3>2. WriteFresh(p)'
      BY <3>1 DEF WriteFresh, InTransaction
    <3>3. e \in 0..i.ver /\ i.ver <= row[r].ver
      BY <2>1
    <3>4. k \in Updating => OneColumnEdit(row'[r].data, self'[p].data)
      BY <3>1
    <3>5. LoadedFresh(p)'
      <4> HIDE DEF WriteInv, Load
      <4> QED BY <3>1, <3>3, <3>4 DEF LoadedFresh
    <3>6. QED
      BY <2>2, <3>2, <3>5
  <2>3. CASE q # p
    BY <2>3, UntouchedFresh DEF TypeOK
  <2>4. QED
    BY <2>2, <2>3
<1>8. QED
  BY <1>1, <1>2, <1>3, <1>4, <1>5, <1>6, <1>7

LEMMA LoadKindsInv ==
  ASSUME WriteInv, NEW p \in Procs, NEW r \in Rows,
         \/ \E e \in 0..MaxVersion, c \in Cols, v \in Vals : LoadToEdit(p, r, e, c, v)
         \/ \E e \in 0..MaxVersion, f \in {None, Upload} : LoadToReplaceFile(p, r, e, f)
         \/ LoadToDelete(p, r)
  PROVE  WriteInv'
<1>1. row[r] # None => row[r] \in RowValue
  BY DEF WriteInv, TypeOK
<1>2. ASSUME NEW e \in 0..MaxVersion, NEW c \in Cols, NEW v \in Vals, LoadToEdit(p, r, e, c, v)
      PROVE  WriteInv'
  <2> DEFINE i == [row[r] EXCEPT !.data[c] = v]
  <2>1. row[r] \in RowValue /\ (Skippers = {} \/ p \in Skippers)
    BY <1>1, <1>2 DEF LoadToEdit, MayUpdate
  <2>2. i \in Instance /\ i.data \in Data /\ i.ver = row[r].ver
    BY <2>1 DEF RowValue, Instance, Data
  <2>3. OneColumnEdit(row[r].data, i.data)
    BY <2>1 DEF OneColumnEdit, RowValue
  <2>4. e \in Nat /\ Load(p, r, "edit", e, i)
    BY <1>2 DEF LoadToEdit
  <2> HIDE DEF i
  <2>5. QED
    BY <2>1, <2>2, <2>3, <2>4, LoadInv
<1>3. ASSUME NEW e \in 0..MaxVersion, NEW f \in {None, Upload}, LoadToReplaceFile(p, r, e, f)
      PROVE  WriteInv'
  <2> DEFINE i == [row[r] EXCEPT !.file = f]
  <2>1. row[r] \in RowValue /\ (Skippers = {} \/ p \in Skippers)
    BY <1>1, <1>3 DEF LoadToReplaceFile, MayUpdate
  <2>2. i \in Instance /\ i.data \in Data /\ i.ver = row[r].ver /\ i.data = row[r].data
    BY <2>1 DEF RowValue, Instance
  <2>3. OneColumnEdit(row[r].data, i.data)
    <3>1. PICK c \in Cols : TRUE
      BY DataAssumption
    <3>2. row[r].data[c] \in Vals /\ row[r].data = [row[r].data EXCEPT ![c] = row[r].data[c]]
      BY <2>1 DEF RowValue, Data
    <3>3. QED
      BY <2>2, <3>2 DEF OneColumnEdit
  <2>4. e \in Nat /\ Load(p, r, "file", e, i)
    BY <1>3 DEF LoadToReplaceFile
  <2> HIDE DEF i
  <2>5. QED
    BY <2>1, <2>2, <2>3, <2>4, LoadInv
<1>4. ASSUME LoadToDelete(p, r)
      PROVE  WriteInv'
  <2>1. row[r] \in RowValue
    BY <1>1, <1>4 DEF LoadToDelete
  <2>2. row[r] \in Instance /\ row[r].data \in Data /\ row[r].file # Upload
    BY <2>1, NameAssumption DEF RowValue, Instance
  <2>3. 0 \in Nat /\ Load(p, r, "delete", 0, row[r])
    BY <1>4 DEF LoadToDelete
  <2>4. "delete" \notin Updating
    BY DEF Updating
  <2>5. QED
    BY <2>2, <2>3, <2>4, LoadInv
<1>5. QED
  BY <1>2, <1>3, <1>4

\* Forgetting a call restores the types of what it forgets.
LEMMA ForgetType ==
  ASSUME TypeOK, NEW p \in Procs, Forget(p)
  PROVE  /\ req' \in [Procs -> Request] /\ self' \in [Procs -> Instance]
         /\ old' \in [Procs -> Data \cup {Empty}] /\ doomed' \in [Procs -> Nat]
         /\ req'[p] = NoReq
         /\ \A q \in Procs \ {p} : /\ req'[q] = req[q] /\ self'[q] = self[q]
                                   /\ old'[q] = old[q] /\ doomed'[q] = doomed[q]
<1>1. NoReq \in Request /\ NoRow \in Instance
  BY DEF NoReq, NoRow, Request, Instance
<1>2. QED
  BY <1>1 DEF Forget, TypeOK

\* A call that has ended says nothing about rows and logs.
LEMMA EndedFresh ==
  ASSUME NEW p \in Procs, req'[p] = NoReq, pc'[p] \in {"idle", "committed"}
  PROVE  CallShape(p)' /\ LoadedFresh(p)' /\ WriteFresh(p)'
BY DEF CallShape, LoadedFresh, WriteFresh, NoReq, Updating, InTransaction

\* A row being created stays fresh when another call ends without touching it.
LEMMA EndedFreshKeys ==
  ASSUME WriteInv, NEW p \in Procs, req'[p] = NoReq,
         \A q \in Procs \ {p} : req'[q] = req[q],
         \A q \in Procs \ {p} : req[q].kind = "create" =>
            row'[req[q].row] = row[req[q].row] /\ log'[req[q].row] = log[req[q].row]
  PROVE  FreshKeys'
<1> SUFFICES ASSUME NEW q \in Procs, req'[q].kind = "create"
             PROVE  /\ row'[req'[q].row] = None /\ log'[req'[q].row] = <<>>
                    /\ \A s \in Procs \ {q} : req'[s].row # req'[q].row
  BY DEF FreshKeys
<1>1. q # p /\ req'[q] = req[q]
  BY DEF NoReq
<1>2. pc[q] \in {"loaded", "locked", "saved"}
  <2>1. req[q].kind = "create" /\ req[q] # NoReq
    BY <1>1 DEF NoReq
  <2>2. pc[q] \in {"idle", "loaded", "locked", "saved", "committed"} /\ CallShape(q)
    BY DEF WriteInv, TypeOK
  <2>3. QED
    BY <2>1, <2>2 DEF CallShape
<1>3. req[q].row \in Rows
  BY <1>1, <1>2 DEF WriteInv, CallShape
<1>4. req[q].row # None /\ NoReq.row = None
  BY <1>3, NameAssumption DEF NoReq
<1>5. /\ row[req[q].row] = None /\ log[req[q].row] = <<>>
      /\ \A s \in Procs \ {q} : req[s].row # req[q].row
  BY <1>1 DEF WriteInv, FreshKeys
<1>6. QED
  BY <1>1, <1>4, <1>5

LEMMA RefuseInv ==
  ASSUME WriteInv, NEW p \in Procs, Refuse(p)
  PROVE  WriteInv'
<1> USE DEF WriteInv, Refuse
<1>1. TypeOK'
  BY ForgetType DEF TypeOK
<1>2. (\A q \in Procs : CallShape(q))'
  BY ForgetType, EndedFresh DEF CallShape, TypeOK
<1>3. LocksHeld'
  BY ForgetType, NameAssumption DEF LocksHeld, TypeOK, InTransaction
<1>4. FreshKeys'
  BY ForgetType, EndedFreshKeys
<1>5. LogShape'
  BY DEF LogShape
<1>6. SingleWriter'
  BY ForgetType DEF SingleWriter, TypeOK, Updating, NoReq
<1>7. (\A q \in Procs : LoadedFresh(q) /\ WriteFresh(q))'
  BY ForgetType, EndedFresh, UntouchedFresh DEF TypeOK
<1>8. QED
  BY <1>1, <1>2, <1>3, <1>4, <1>5, <1>6, <1>7

LEMMA LockToSaveInv ==
  ASSUME WriteInv, NEW p \in Procs, LockToSave(p)
  PROVE  WriteInv'
<1> DEFINE r == req[p].row
<1>1. /\ pc[p] = "loaded" /\ req[p].kind \in Updating /\ r \in Rows
      /\ row[r] \in RowValue /\ row[r] # None /\ lock[r] = None
  BY DEF WriteInv, TypeOK, LockToSave, Stale, CallShape, AllKinds, Updating
<1>2. \* the version that was checked is the one in memory
      self[p].ver = row[r].ver
  <2>1. /\ req[p].expected \in 0..self[p].ver /\ self[p].ver <= row[r].ver
        /\ p \in Skippers => self[p].ver = row[r].ver
    BY <1>1 DEF WriteInv, LoadedFresh
  <2>2. p \in Skippers \/ req[p].expected = row[r].ver
    BY <1>1 DEF LockToSave, Stale
  <2>3. row[r].ver \in Nat /\ self[p].ver \in Nat
    BY <1>1 DEF WriteInv, TypeOK, RowValue, Instance
  <2>4. QED
    BY <2>1, <2>2, <2>3
<1>3. OneColumnEdit(row[r].data, self[p].data)
  BY <1>1, <1>2 DEF WriteInv, LoadedFresh
<1>4. /\ pc' = [pc EXCEPT ![p] = "locked"] /\ lock' = [lock EXCEPT ![r] = p]
      /\ self' = [self EXCEPT ![p].ver = row[r].ver + 1]
      /\ queued' = [queued EXCEPT ![p] = FileSet(row[r].file) \ {self[p].file}]
      /\ UNCHANGED <<row, log, disk, req, old, doomed, failed>>
  BY DEF LockToSave
<1>5. TypeOK'
  <2>1. row[r].ver + 1 \in Nat /\ FileSet(row[r].file) \in SUBSET Names
    BY <1>1 DEF RowValue, FileSet
  <2>2. [self[p] EXCEPT !.ver = row[r].ver + 1] \in Instance
    BY <2>1 DEF WriteInv, TypeOK, Instance
  <2>3. QED
    BY <1>4, <2>1, <2>2 DEF WriteInv, TypeOK
<1>6. (\A q \in Procs : CallShape(q))'
  BY <1>1, <1>4 DEF WriteInv, CallShape, TypeOK, Instance, Updating
<1>7. LocksHeld'
  BY <1>1, <1>4, NameAssumption DEF WriteInv, LocksHeld, TypeOK, InTransaction, Updating
<1>8. FreshKeys' /\ LogShape' /\ SingleWriter'
  BY <1>4 DEF WriteInv, FreshKeys, LogShape, SingleWriter, Updating
<1>9. (\A q \in Procs : LoadedFresh(q) /\ WriteFresh(q))'
  <2> SUFFICES ASSUME NEW q \in Procs PROVE LoadedFresh(q)' /\ WriteFresh(q)'
    OBVIOUS
  <2>1. CASE q = p
    <3>1. /\ pc'[p] = "locked" /\ row' = row /\ req' = req
          /\ self'[p].ver = row[r].ver + 1 /\ self'[p].data = self[p].data
      BY <1>4 DEF WriteInv, TypeOK, Instance
    <3>2. LoadedFresh(p)'
      BY <3>1 DEF LoadedFresh
    <3>3. WriteFresh(p)'
      BY <1>1, <1>3, <3>1 DEF WriteFresh, OneColumnEdit, Updating, InTransaction
    <3>4. QED
      BY <2>1, <3>2, <3>3
  <2>2. CASE q # p
    BY <1>4, <2>2, UntouchedFresh DEF WriteInv, TypeOK
  <2>3. QED
    BY <2>1, <2>2
<1>10. QED
  BY <1>5, <1>6, <1>7, <1>8, <1>9 DEF WriteInv

LEMMA LockToDeleteInv ==
  ASSUME WriteInv, NEW p \in Procs, LockToDelete(p)
  PROVE  WriteInv'
<1> DEFINE r == req[p].row
<1>1. /\ pc[p] = "loaded" /\ req[p].kind = "delete" /\ r \in Rows
      /\ row[r] # None /\ lock[r] = None /\ self[p].file # Upload
  BY DEF WriteInv, LockToDelete, Stale, CallShape
<1>2. /\ pc' = [pc EXCEPT ![p] = "locked"] /\ lock' = [lock EXCEPT ![r] = p]
      /\ queued' = [queued EXCEPT ![p] = FileSet(self[p].file)]
      /\ UNCHANGED <<row, log, disk, req, self, old, doomed, failed>>
  BY DEF LockToDelete
<1>3. TypeOK'
  <2>1. FileSet(self[p].file) \in SUBSET Names
    BY <1>1 DEF WriteInv, TypeOK, Instance, FileSet
  <2>2. QED
    BY <1>1, <1>2, <2>1 DEF WriteInv, TypeOK
<1>4. (\A q \in Procs : CallShape(q))'
  BY <1>1, <1>2 DEF WriteInv, CallShape, TypeOK
<1>5. LocksHeld'
  BY <1>1, <1>2, NameAssumption DEF WriteInv, LocksHeld, TypeOK, InTransaction
<1>6. FreshKeys' /\ LogShape' /\ SingleWriter'
  BY <1>2 DEF WriteInv, FreshKeys, LogShape, SingleWriter, Updating
<1>7. (\A q \in Procs : LoadedFresh(q) /\ WriteFresh(q))'
  <2> SUFFICES ASSUME NEW q \in Procs PROVE LoadedFresh(q)' /\ WriteFresh(q)'
    OBVIOUS
  <2>1. CASE q = p
    BY <1>1, <1>2, <2>1 DEF LoadedFresh, WriteFresh, WriteInv, TypeOK, Updating, InTransaction
  <2>2. CASE q # p
    BY <1>2, <2>2, UntouchedFresh DEF WriteInv, TypeOK
  <2>3. QED
    BY <2>1, <2>2
<1>8. QED
  BY <1>3, <1>4, <1>5, <1>6, <1>7 DEF WriteInv

LEMMA SaveInv ==
  ASSUME WriteInv, NEW p \in Procs, Save(p)
  PROVE  WriteInv'
<1> DEFINE r == req[p].row
<1>1. /\ pc[p] = "locked" /\ req[p].kind # "delete" /\ r \in Rows
      /\ req[p].kind \in AllKinds /\ self[p].data \in Data
  BY DEF WriteInv, Save, CallShape
<1>2. /\ pc' = [pc EXCEPT ![p] = "saved"]
      /\ old' = [old EXCEPT ![p] = IF row[r] = None THEN Empty ELSE row[r].data]
      /\ UNCHANGED <<row, log, lock, req, doomed, queued, failed>>
  BY DEF Save
<1>3. /\ disk' \subseteq Names
      /\ self' \in [Procs -> Instance]
      /\ self'[p].ver = self[p].ver /\ self'[p].data = self[p].data
      /\ self'[p].file # Upload
      /\ \A q \in Procs \ {p} : self'[q] = self[q]
  <2>1. CASE self[p].file = Upload
    <3>1. PICK n \in Names \ disk : /\ disk' = disk \cup {n}
                                    /\ self' = [self EXCEPT ![p].file = n]
      BY <2>1 DEF Save
    <3>2. [self[p] EXCEPT !.file = n] \in Instance
      BY DEF WriteInv, TypeOK, Instance
    <3>3. QED
      BY <3>1, <3>2, NameAssumption DEF WriteInv, TypeOK, Instance
  <2>2. CASE self[p].file # Upload
    BY <2>2 DEF Save, WriteInv, TypeOK
  <2>3. QED
    BY <2>1, <2>2
<1>4. TypeOK'
  <2>1. (IF row[r] = None THEN Empty ELSE row[r].data) \in Data \cup {Empty}
    BY <1>1 DEF WriteInv, TypeOK, RowValue
  <2>2. QED
    BY <1>2, <1>3, <2>1 DEF WriteInv, TypeOK
<1>5. (\A q \in Procs : CallShape(q))'
  BY <1>1, <1>2, <1>3 DEF WriteInv, CallShape, TypeOK
<1>6. LocksHeld'
  BY <1>1, <1>2 DEF WriteInv, LocksHeld, TypeOK, InTransaction
<1>7. FreshKeys' /\ LogShape' /\ SingleWriter'
  BY <1>2 DEF WriteInv, FreshKeys, LogShape, SingleWriter, Updating
<1>8. (\A q \in Procs : LoadedFresh(q) /\ WriteFresh(q))'
  <2> SUFFICES ASSUME NEW q \in Procs PROVE LoadedFresh(q)' /\ WriteFresh(q)'
    OBVIOUS
  <2>1. CASE q = p
    <3>1. pc'[p] = "saved" /\ req' = req /\ row' = row
      BY <1>2 DEF WriteInv, TypeOK
    <3>2. req[p].kind \in Updating => row[r] # None /\ old'[p] = row[r].data
      BY <1>1, <1>2 DEF WriteInv, TypeOK, LocksHeld, InTransaction, Updating
    <3>3. LoadedFresh(p)'
      BY <3>1 DEF LoadedFresh
    <3>4. WriteFresh(p)
      BY DEF WriteInv
    <3>5. WriteFresh(p)'
      BY <1>1, <1>3, <3>1, <3>2, <3>4 DEF WriteFresh, OneColumnEdit, Updating, InTransaction
    <3>6. QED
      BY <2>1, <3>3, <3>5
  <2>2. CASE q # p
    BY <1>2, <1>3, <2>2, UntouchedFresh DEF WriteInv, TypeOK
  <2>3. QED
    BY <2>1, <2>2
<1>9. QED
  BY <1>4, <1>5, <1>6, <1>7, <1>8 DEF WriteInv

LEMMA PurgeInv ==
  ASSUME WriteInv, NEW p \in Procs, Purge(p)
  PROVE  WriteInv'
<1> DEFINE r == req[p].row
<1>1. pc[p] = "locked" /\ req[p].kind = "delete" /\ r \in Rows
  BY DEF WriteInv, Purge, CallShape
<1>2. /\ pc' = [pc EXCEPT ![p] = "saved"]
      /\ doomed' = [doomed EXCEPT ![p] = Len(log[r])]
      /\ UNCHANGED <<row, log, disk, lock, req, self, old, queued, failed>>
  BY DEF Purge
<1>3. TypeOK'
  <2>1. Len(log[r]) \in Nat
    BY <1>1 DEF WriteInv, TypeOK
  <2>2. QED
    BY <1>2, <2>1 DEF WriteInv, TypeOK
<1>4. (\A q \in Procs : CallShape(q))'
  BY <1>1, <1>2 DEF WriteInv, CallShape, TypeOK
<1>5. LocksHeld'
  BY <1>1, <1>2 DEF WriteInv, LocksHeld, TypeOK, InTransaction
<1>6. FreshKeys' /\ LogShape' /\ SingleWriter'
  BY <1>2 DEF WriteInv, FreshKeys, LogShape, SingleWriter, Updating
<1>7. (\A q \in Procs : LoadedFresh(q) /\ WriteFresh(q))'
  <2> SUFFICES ASSUME NEW q \in Procs PROVE LoadedFresh(q)' /\ WriteFresh(q)'
    OBVIOUS
  <2>1. CASE q = p
    BY <1>1, <1>2, <2>1 DEF LoadedFresh, WriteFresh, WriteInv, TypeOK, Updating, InTransaction
  <2>2. CASE q # p
    BY <1>2, <2>2, UntouchedFresh DEF WriteInv, TypeOK
  <2>3. QED
    BY <2>1, <2>2
<1>8. QED
  BY <1>3, <1>4, <1>5, <1>6, <1>7 DEF WriteInv

LEMMA RunCallbackInv ==
  ASSUME WriteInv, NEW p \in Procs, RunCallback(p)
  PROVE  WriteInv'
<1>1. PICK n \in queued[p] :
        /\ disk' = disk \ {n}
        /\ queued' = [queued EXCEPT ![p] = @ \ {n}]
        /\ pc' = [pc EXCEPT ![p] = IF queued[p] = {n} THEN "idle" ELSE "committed"]
  BY DEF RunCallback
<1>2. pc[p] = "committed" /\ UNCHANGED <<row, log, lock, req, self, old, doomed, failed>>
  BY DEF RunCallback
<1>3. req[p] = NoReq
  BY <1>2 DEF WriteInv, CallShape
<1>4. TypeOK'
  BY <1>1, <1>2 DEF WriteInv, TypeOK
<1>5. pc'[p] \in {"idle", "committed"} /\ \A q \in Procs \ {p} : pc'[q] = pc[q]
  BY <1>1 DEF WriteInv, TypeOK
<1>6. (\A q \in Procs : CallShape(q))'
  BY <1>2, <1>3, <1>5, EndedFresh DEF WriteInv, CallShape
<1>7. LocksHeld'
  <2>1. ASSUME NEW q \in Procs, pc'[q] \in InTransaction, req'[q].kind # "create"
        PROVE  lock'[req'[q].row] = q /\ row'[req'[q].row] # None
    BY <1>2, <1>5, <2>1 DEF WriteInv, LocksHeld, InTransaction
  <2>2. ASSUME NEW r \in Rows, lock'[r] # None
        PROVE  /\ req'[lock'[r]].row = r
               /\ pc'[lock'[r]] \in InTransaction
               /\ req'[lock'[r]].kind # "create"
    <3>1. lock[r] \in Procs /\ pc[lock[r]] \in InTransaction
      BY <1>2, <2>2 DEF WriteInv, LocksHeld, TypeOK
    <3>2. lock[r] # p
      BY <1>2, <3>1 DEF InTransaction
    <3>3. QED
      BY <1>2, <1>5, <2>2, <3>1, <3>2 DEF WriteInv, LocksHeld
  <2>3. QED
    BY <2>1, <2>2 DEF LocksHeld, InTransaction
<1>8. FreshKeys' /\ LogShape' /\ SingleWriter'
  BY <1>2 DEF WriteInv, FreshKeys, LogShape, SingleWriter, Updating
<1>9. (\A q \in Procs : LoadedFresh(q) /\ WriteFresh(q))'
  BY <1>2, <1>3, <1>5, EndedFresh, UntouchedFresh DEF WriteInv
<1>10. QED
  BY <1>4, <1>6, <1>7, <1>8, <1>9 DEF WriteInv

LEMMA AbortInv ==
  ASSUME WriteInv, NEW p \in Procs, Abort(p)
  PROVE  WriteInv'
<1>1. /\ pc' = [pc EXCEPT ![p] = "idle"]
      /\ lock' = [r \in Rows |-> IF lock[r] = p THEN None ELSE lock[r]]
      /\ queued' = [queued EXCEPT ![p] = {}]
      /\ failed' = TRUE
      /\ UNCHANGED <<row, log, disk>>
      /\ Forget(p)
  BY DEF Abort
<1>2. TypeOK
  BY DEF WriteInv
<1>3. /\ req'[p] = NoReq
      /\ \A q \in Procs \ {p} : /\ req'[q] = req[q] /\ self'[q] = self[q]
                                /\ old'[q] = old[q] /\ doomed'[q] = doomed[q]
  BY <1>1, <1>2, ForgetType
<1>4. pc'[p] = "idle" /\ \A q \in Procs \ {p} : pc'[q] = pc[q]
  BY <1>1, <1>2 DEF TypeOK
<1>5. TypeOK'
  BY <1>1, <1>2, ForgetType DEF TypeOK
<1>6. (\A q \in Procs : CallShape(q))'
  BY <1>3, <1>4, EndedFresh DEF WriteInv, CallShape
<1>7. LocksHeld'
  <2>1. ASSUME NEW q \in Procs, pc'[q] \in InTransaction, req'[q].kind # "create"
        PROVE  lock'[req'[q].row] = q /\ row'[req'[q].row] # None
    <3>1. q # p
      BY <1>4, <2>1 DEF InTransaction
    <3>2. lock[req[q].row] = q /\ row[req[q].row] # None /\ req[q].row \in Rows
      BY <1>3, <1>4, <2>1, <3>1 DEF WriteInv, LocksHeld, CallShape, InTransaction
    <3>3. QED
      BY <1>1, <1>3, <3>1, <3>2
  <2>2. ASSUME NEW r \in Rows, lock'[r] # None
        PROVE  /\ req'[lock'[r]].row = r
               /\ pc'[lock'[r]] \in InTransaction
               /\ req'[lock'[r]].kind # "create"
    <3>1. lock'[r] = lock[r] /\ lock[r] # p /\ lock[r] \in Procs
      BY <1>1, <1>2, <2>2 DEF TypeOK
    <3>2. QED
      BY <1>3, <1>4, <2>2, <3>1 DEF WriteInv, LocksHeld, InTransaction
  <2>3. QED
    BY <2>1, <2>2 DEF LocksHeld, InTransaction
<1>8. FreshKeys'
  BY <1>1, <1>3, EndedFreshKeys
<1>9. LogShape' /\ SingleWriter'
  BY <1>1, <1>3 DEF WriteInv, LogShape, SingleWriter, Updating, NoReq
<1>10. (\A q \in Procs : LoadedFresh(q) /\ WriteFresh(q))'
  BY <1>1, <1>3, <1>4, EndedFresh, UntouchedFresh DEF WriteInv
<1>11. QED
  BY <1>5, <1>6, <1>7, <1>8, <1>9, <1>10 DEF WriteInv

\* A commit on a row ends the call, frees the row's lock, and leaves every
\* other row and log as it was.
CommitsOn(p, r) ==
  /\ row' = [row EXCEPT ![r] = row'[r]]
  /\ log' = [log EXCEPT ![r] = log'[r]]
  /\ lock' = [lock EXCEPT ![r] = None]
  /\ pc' = [pc EXCEPT ![p] = pc'[p]]
  /\ pc'[p] \in {"idle", "committed"}
  /\ Forget(p)
  /\ UNCHANGED <<disk, queued, failed>>

\* While a call is in a transaction on an existing row, or creates the row, the
\* other calls on it have only loaded it.
LEMMA OthersOnlyLoaded ==
  ASSUME WriteInv, NEW p \in Procs, pc[p] \in InTransaction,
         NEW q \in Procs \ {p}, req[q].row = req[p].row
  PROVE  pc[q] = "loaded" /\ req[p].kind # "create"
<1>1. req[p].row \in Rows /\ CallShape(p) /\ CallShape(q)
  BY DEF WriteInv, CallShape, InTransaction
<1>2. req[q] # NoReq
  BY <1>1, NameAssumption DEF NoReq
<1>3. pc[q] \in {"loaded", "locked", "saved"}
  BY <1>1, <1>2 DEF WriteInv, TypeOK, CallShape
<1>4. req[p].kind # "create" /\ req[q].kind # "create"
  BY DEF WriteInv, FreshKeys
<1>5. lock[req[p].row] = p
  BY <1>4 DEF WriteInv, LocksHeld
<1>6. pc[q] \notin InTransaction
  BY <1>4, <1>5 DEF WriteInv, LocksHeld
<1>7. QED
  BY <1>3, <1>4, <1>6 DEF InTransaction

LEMMA CommitInv ==
  ASSUME WriteInv, NEW p \in Procs, pc[p] = "saved", NEW r \in Rows, req[p].row = r,
         CommitsOn(p, r),
         row'[r] \in RowValue \cup {None},
         log'[r] \in Seq(LogEntry),
         row'[r] = None => log'[r] \in {<<>>, <<Tombstone>>},
         row'[r] # None => log'[r] # <<>>,
         \A q \in Procs \ {p} : req[q].row = r => LoadedFresh(q)'
  PROVE  WriteInv'
<1> USE DEF CommitsOn
<1>1. TypeOK
  BY DEF WriteInv
<1>2. /\ req'[p] = NoReq
      /\ \A q \in Procs \ {p} : /\ req'[q] = req[q] /\ self'[q] = self[q]
                                /\ old'[q] = old[q] /\ doomed'[q] = doomed[q]
  BY <1>1, ForgetType
<1>3. \A q \in Procs \ {p} : pc'[q] = pc[q]
  BY <1>1 DEF TypeOK
<1>4. TypeOK'
  <2>1. row' \in [Rows -> RowValue \cup {None}] /\ log' \in [Rows -> Seq(LogEntry)]
    BY <1>1 DEF TypeOK
  <2>2. lock' \in [Rows -> Procs \cup {None}]
    BY <1>1 DEF TypeOK
  <2>3. pc' \in [Procs -> {"idle", "loaded", "locked", "saved", "committed"}]
    BY <1>1 DEF TypeOK
  <2>4. QED
    BY <1>1, <2>1, <2>2, <2>3, ForgetType DEF TypeOK
<1>5. \A q \in Procs \ {p} : req[q].row = r =>
        pc[q] = "loaded" /\ req[q].kind # "create"
  BY OthersOnlyLoaded DEF WriteInv, CallShape, InTransaction
<1>6. \A s \in Rows \ {r} : row'[s] = row[s] /\ log'[s] = log[s] /\ lock'[s] = lock[s]
  BY <1>1 DEF TypeOK
<1>7. (\A q \in Procs : CallShape(q))'
  BY <1>2, <1>3, EndedFresh DEF WriteInv, CallShape
<1>8. LocksHeld'
  <2>1. ASSUME NEW q \in Procs, pc'[q] \in InTransaction, req'[q].kind # "create"
        PROVE  lock'[req'[q].row] = q /\ row'[req'[q].row] # None
    <3>1. q # p /\ pc[q] \in InTransaction
      BY <1>3, <2>1 DEF InTransaction
    <3>2. lock[req[q].row] = q /\ row[req[q].row] # None /\ req[q].row \in Rows
      BY <1>2, <2>1, <3>1 DEF WriteInv, LocksHeld, CallShape, InTransaction
    <3>3. req[q].row # r
      BY <1>5, <3>1 DEF InTransaction
    <3>4. QED
      BY <1>2, <1>6, <3>1, <3>2, <3>3
  <2>2. ASSUME NEW s \in Rows, lock'[s] # None
        PROVE  /\ req'[lock'[s]].row = s
               /\ pc'[lock'[s]] \in InTransaction
               /\ req'[lock'[s]].kind # "create"
    <3>1. s # r /\ lock'[s] = lock[s]
      BY <1>1, <1>6, <2>2 DEF TypeOK
    <3>2. lock[s] \in Procs /\ req[lock[s]].row = s
      BY <1>1, <2>2, <3>1 DEF TypeOK, WriteInv, LocksHeld
    <3>3. lock[s] # p
      BY <3>1, <3>2
    <3>4. QED
      BY <1>2, <1>3, <2>2, <3>1, <3>2, <3>3 DEF WriteInv, LocksHeld
  <2>3. QED
    BY <2>1, <2>2 DEF LocksHeld, InTransaction
<1>9. FreshKeys'
  <2>1. ASSUME NEW q \in Procs \ {p}, req[q].kind = "create"
        PROVE  row'[req[q].row] = row[req[q].row] /\ log'[req[q].row] = log[req[q].row]
    <3>1. req[q].row # r
      BY <1>5, <2>1
    <3>2. req[q].row \in Rows
      <4>1. req[q] # NoReq /\ CallShape(q)
        BY <2>1 DEF NoReq, WriteInv
      <4>2. QED
        BY <1>1, <4>1 DEF CallShape, TypeOK
    <3>3. QED
      BY <1>6, <3>1, <3>2
  <2>2. QED
    BY <1>2, <2>1, EndedFreshKeys
<1>10. LogShape'
  BY <1>6 DEF WriteInv, LogShape
<1>11. SingleWriter'
  BY <1>2 DEF WriteInv, SingleWriter, Updating, NoReq
<1>12. (\A q \in Procs : LoadedFresh(q) /\ WriteFresh(q))'
  <2> SUFFICES ASSUME NEW q \in Procs PROVE LoadedFresh(q)' /\ WriteFresh(q)'
    OBVIOUS
  <2>1. CASE q = p
    BY <1>2, <2>1, EndedFresh
  <2>2. CASE q # p /\ req[q].row = r
    <3>1. pc'[q] = "loaded" /\ req'[q].kind # "create"
      BY <1>2, <1>3, <1>5, <2>2
    <3>2. WriteFresh(q)'
      BY <3>1 DEF WriteFresh, InTransaction
    <3>3. QED
      BY <2>2, <3>2
  <2>3. CASE q # p /\ req[q].row \in Rows \ {r}
    BY <1>2, <1>3, <1>6, <2>3, UntouchedFresh DEF WriteInv
  <2>4. CASE q # p /\ req[q].row \notin Rows
    <3>1. pc[q] \in {"idle", "committed"} /\ req[q] = NoReq
      BY <1>1, <2>4 DEF WriteInv, CallShape, TypeOK
    <3>2. QED
      BY <1>2, <1>3, <2>4, <3>1, EndedFresh
  <2>5. QED
    BY <2>1, <2>2, <2>3, <2>4
<1>13. QED
  BY <1>4, <1>7, <1>8, <1>9, <1>10, <1>11, <1>12 DEF WriteInv

LEMMA CommitCreateInv ==
  ASSUME WriteInv, NEW p \in Procs, CommitCreate(p)
  PROVE  WriteInv'
<1> DEFINE r == req[p].row
<1>1. /\ pc[p] = "saved" /\ req[p].kind = "create" /\ r \in Rows
      /\ self[p].data \in Data /\ self[p].file # Upload
  BY DEF WriteInv, CommitCreate, CallShape
<1>2. TypeOK /\ lock[r] = None
  <2>1. ASSUME lock[r] # None PROVE FALSE
    <3>1. /\ lock[r] \in Procs /\ req[lock[r]].row = r
          /\ req[lock[r]].kind # "create"
      BY <1>1, <2>1 DEF WriteInv, TypeOK, LocksHeld
    <3>2. lock[r] # p
      BY <1>1, <3>1
    <3>3. QED
      BY <1>1, <3>1, <3>2 DEF WriteInv, FreshKeys
  <2>2. QED
    BY <2>1 DEF WriteInv
<1>3. self[p] \in RowValue
  BY <1>1, <1>2 DEF TypeOK, Instance, RowValue
<1>4. <<Entry("created", Empty, self[p].data)>> \in Seq(LogEntry)
  BY <1>1, EmptyType, DataIsDiff DEF Entry, LogEntry
<1>5. row'[r] = self[p] /\ log'[r] = <<Entry("created", Empty, self[p].data)>>
  BY <1>1, <1>2 DEF CommitCreate, TypeOK
<1>6. self[p] # None /\ log'[r] # <<>>
  BY <1>3, <1>5, NameAssumption DEF RowValue
<1>7. CommitsOn(p, r)
  BY <1>1, <1>2, <1>5 DEF CommitCreate, CommitsOn, EndOrCleanUp, TypeOK
<1>8. \A q \in Procs \ {p} : req[q].row # r
  BY <1>1, OthersOnlyLoaded DEF InTransaction
<1>9. QED
  BY <1>1, <1>3, <1>4, <1>5, <1>6, <1>7, <1>8, CommitInv

LEMMA CommitSaveInv ==
  ASSUME WriteInv, NEW p \in Procs, CommitSave(p)
  PROVE  WriteInv'
<1> DEFINE r == req[p].row
<1>1. /\ pc[p] = "saved" /\ req[p].kind \in Updating /\ r \in Rows
      /\ self[p].data \in Data /\ self[p].file # Upload
  BY DEF WriteInv, CommitSave, CallShape, Updating
<1>2. TypeOK
  BY DEF WriteInv
<1>3. self[p] \in RowValue
  BY <1>1, <1>2 DEF TypeOK, Instance, RowValue
<1>4. /\ row[r] \in RowValue /\ row[r] # None /\ log[r] # <<>>
      /\ old[p] = row[r].data /\ self[p].ver = row[r].ver + 1
  BY <1>1, <1>2 DEF WriteInv, TypeOK, LocksHeld, LogShape, WriteFresh, InTransaction, Updating
<1>5. row'[r] = self[p] /\ log'[r] = Logged(log[r], old[p], self[p].data)
  BY <1>1, <1>2 DEF CommitSave, TypeOK
<1>6. log'[r] \in Seq(LogEntry) /\ log'[r] # <<>>
  <2>1. log[r] \in Seq(LogEntry) /\ old[p] \in Data
    BY <1>1, <1>2, <1>4 DEF TypeOK, RowValue
  <2>2. QED
    BY <1>1, <1>4, <1>5, <2>1, LoggedType, LoggedNonEmpty
<1>7. self[p] # None
  BY <1>3, NameAssumption DEF RowValue
<1>8. CommitsOn(p, r)
  BY <1>1, <1>2, <1>5 DEF CommitSave, CommitsOn, EndOrCleanUp, TypeOK
<1>9. ASSUME NEW q \in Procs \ {p}, req[q].row = r
      PROVE  LoadedFresh(q)'
  <2>1. pc[q] = "loaded" /\ pc'[q] = "loaded" /\ req'[q] = req[q] /\ self'[q] = self[q]
    BY <1>1, <1>2, <1>8, <1>9, OthersOnlyLoaded, ForgetType DEF InTransaction, CommitsOn, TypeOK
  <2>2. req[q].kind \in Updating => q \notin Skippers
    BY <1>1, SkipperAssumption DEF WriteInv, SingleWriter
  <2>3. req[q].kind \in Updating => /\ req[q].expected \in 0..self[q].ver
                                    /\ self[q].ver <= row[r].ver
    BY <1>4, <1>9, <2>1 DEF WriteInv, LoadedFresh
  <2>4. row'[r].ver = row[r].ver + 1 /\ row[r].ver \in Nat /\ self[q].ver \in Nat
    BY <1>2, <1>4, <1>5 DEF RowValue, TypeOK, Instance
  <2>5. QED
    BY <1>9, <2>1, <2>2, <2>3, <2>4 DEF LoadedFresh, Updating
<1>10. QED
  BY <1>1, <1>3, <1>5, <1>6, <1>7, <1>8, <1>9, CommitInv

LEMMA CommitDeleteInv ==
  ASSUME WriteInv, NEW p \in Procs, CommitDelete(p)
  PROVE  WriteInv'
<1> DEFINE r == req[p].row
<1>1. pc[p] = "saved" /\ req[p].kind = "delete" /\ r \in Rows
  BY DEF WriteInv, CommitDelete, CallShape
<1>2. TypeOK /\ log[r] \in Seq(LogEntry) /\ doomed[p] = Len(log[r])
  BY <1>1 DEF WriteInv, TypeOK, WriteFresh
<1>3. row'[r] = None /\ log'[r] = <<Tombstone>>
  BY <1>1, <1>2, PurgeAll DEF CommitDelete, TypeOK
<1>4. log'[r] \in Seq(LogEntry)
  BY <1>3, TombstoneType
<1>5. CommitsOn(p, r)
  BY <1>1, <1>2, <1>3 DEF CommitDelete, CommitsOn, EndOrCleanUp, TypeOK
<1>6. ASSUME NEW q \in Procs \ {p}, req[q].row = r
      PROVE  LoadedFresh(q)'
  <2>1. req'[q] = req[q]
    BY <1>2, <1>5, ForgetType DEF CommitsOn
  <2>2. QED
    BY <1>3, <1>6, <2>1 DEF LoadedFresh
<1>7. QED
  BY <1>1, <1>3, <1>4, <1>5, <1>6, CommitInv

LEMMA NextInv == WriteInv /\ [Next]_vars => WriteInv'
<1> SUFFICES ASSUME WriteInv, [Next]_vars PROVE WriteInv'
  OBVIOUS
<1>1. ASSUME NEW p \in Procs, Begin(p) PROVE WriteInv'
  BY <1>1, BeginCreateInv, LoadKindsInv DEF Begin
<1>2. ASSUME NEW p \in Procs, Lock(p) PROVE WriteInv'
  BY <1>2, RefuseInv, LockToSaveInv, LockToDeleteInv DEF Lock
<1>3. ASSUME NEW p \in Procs, Work(p) PROVE WriteInv'
  BY <1>3, SaveInv, PurgeInv, CommitCreateInv, CommitSaveInv, CommitDeleteInv,
     RunCallbackInv DEF Work
<1>4. ASSUME NEW p \in Procs, Abort(p) PROVE WriteInv'
  BY <1>4, AbortInv
<1>5. CASE UNCHANGED vars
  <2> USE <1>5 DEF vars
  <2>1. TypeOK'
    BY DEF WriteInv, TypeOK
  <2>2. (\A q \in Procs : CallShape(q))' /\ LocksHeld'
    BY DEF WriteInv, CallShape, LocksHeld, InTransaction
  <2>3. FreshKeys' /\ LogShape' /\ SingleWriter'
    BY DEF WriteInv, FreshKeys, LogShape, SingleWriter, Updating
  <2>4. (\A q \in Procs : LoadedFresh(q) /\ WriteFresh(q))'
    BY UntouchedFresh DEF WriteInv
  <2>5. QED
    BY <2>1, <2>2, <2>3, <2>4 DEF WriteInv
<1>6. QED
  BY <1>1, <1>2, <1>3, <1>4, <1>5 DEF Next

-----------------------------------------------------------------------------
(* The theorems. *)

THEOREM WriteInvariant == Spec => []WriteInv
BY InitInv, NextInv, PTL DEF Spec

\* Types of the database, the storage and the calls: in particular no row is
\* ever committed whose upload the storage has not named.
THEOREM TypeCorrect == Spec => []TypeOK
<1>1. WriteInv => TypeOK
  BY DEF WriteInv
<1>2. QED
  BY <1>1, WriteInvariant, PTL

\* Erasure: after a delete no field value of the row is left in the log, for
\* any number of saves in flight around it (delete_plus locks before it purges).
THEOREM DeletesErase == Spec => []Erasure
<1>1. WriteInv => Erasure
  BY DEF WriteInv, LogShape, Erasure, Live
<1>2. QED
  BY <1>1, WriteInvariant, PTL

-----------------------------------------------------------------------------
(* The history of a row. *)

\* A history is complete for data: what AuditChain says of one row.
Complete(h, data) ==
  /\ h # <<>>
  /\ h[1].action = "created" /\ DOMAIN h[1].new = Cols
  /\ \A i \in 2..Len(h) : h[i].action = "updated"
  /\ \A i, j \in 1..Len(h) : \A c \in DOMAIN h[i].old :
       LastWrite(h, i, j, c) => h[i].old[c] = h[j].new[c]
  /\ \A j \in 1..Len(h), c \in Cols :
       LastWrite(h, Len(h) + 1, j, c) => data[c] = h[j].new[c]

\* A creation starts a complete history.
LEMMA CreationComplete ==
  ASSUME NEW d \in Data
  PROVE  Complete(<<Entry("created", Empty, d)>>, d)
<1> DEFINE e == Entry("created", Empty, d)
           h == <<e>>
<1>1. e.action = "created" /\ e.old = Empty /\ e.new = d /\ DOMAIN e.new = Cols
  BY DEF Entry, Data
<1>2. Len(h) = 1 /\ h[1] = e /\ h # <<>>
  OBVIOUS
<1>3. DOMAIN e.old = {}
  BY <1>1 DEF Empty
<1> HIDE DEF e
<1>4. \A j \in 1..Len(h), c \in Cols : d[c] = h[j].new[c]
  BY <1>1, <1>2
<1>5. QED
  BY <1>1, <1>2, <1>3, <1>4 DEF Complete, e

\* An entry that starts from the value the history has reached, and is the
\* value's change, keeps the history complete.
LEMMA EntryCompletes ==
  ASSUME NEW h \in Seq(LogEntry), NEW a \in Data, NEW b \in Data, Complete(h, a),
         NEW e \in LogEntry, e.action = "updated",
         DOMAIN e.old = DOMAIN e.new,
         \A c \in DOMAIN e.new : c \in Cols /\ e.old[c] = a[c] /\ e.new[c] = b[c],
         \A c \in Cols \ DOMAIN e.new : a[c] = b[c]
  PROVE  Complete(Append(h, e), b)
<1> DEFINE n == Len(h)
           g == Append(h, e)
<1>1. /\ n \in Nat \ {0} /\ Len(g) = n + 1 /\ g[n + 1] = e /\ g # <<>>
      /\ \A i \in 1..n : g[i] = h[i]
  BY DEF Complete
<1>2. \A i \in 1..(n + 1), j \in 1..n : \A c : LastWrite(g, i, j, c) => LastWrite(h, i, j, c)
  <2> SUFFICES ASSUME NEW i \in 1..(n + 1), NEW j \in 1..n, NEW c, LastWrite(g, i, j, c)
               PROVE  LastWrite(h, i, j, c)
    OBVIOUS
  <2>1. \A k \in (j + 1)..(i - 1) : k \in 1..n
    BY <1>1
  <2> HIDE DEF g, n
  <2>2. QED
    BY <1>1, <2>1 DEF LastWrite
<1> HIDE DEF g
<1>3. g[1].action = "created" /\ DOMAIN g[1].new = Cols
  BY <1>1 DEF Complete
<1>4. \A i \in 2..Len(g) : g[i].action = "updated"
  BY <1>1 DEF Complete
<1>5. ASSUME NEW i \in 1..Len(g), NEW j \in 1..Len(g), NEW c \in DOMAIN g[i].old, LastWrite(g, i, j, c)
      PROVE  g[i].old[c] = g[j].new[c]
  <2>1. j < i /\ j \in 1..n
    BY <1>1, <1>5 DEF LastWrite
  <2>2. LastWrite(h, i, j, c) /\ g[j] = h[j]
    BY <1>1, <1>2, <1>5, <2>1
  <2>3. CASE i \in 1..n
    BY <1>1, <2>1, <2>2, <2>3 DEF Complete
  <2>4. CASE i = n + 1
    <3>1. c \in DOMAIN e.new /\ g[i].old[c] = a[c]
      BY <1>1, <2>4
    <3>2. a[c] = h[j].new[c]
      BY <2>1, <2>2, <2>4, <3>1 DEF Complete
    <3>3. QED
      BY <2>2, <3>1, <3>2
  <2>5. QED
    BY <1>1, <2>3, <2>4
<1>6. ASSUME NEW j \in 1..Len(g), NEW c \in Cols, LastWrite(g, Len(g) + 1, j, c)
      PROVE  b[c] = g[j].new[c]
  <2>1. CASE j = n + 1
    BY <1>1, <1>6, <2>1 DEF LastWrite
  <2>2. CASE j \in 1..n
    <3>1. c \notin DOMAIN e.new
      <4>1. n + 1 \in (j + 1)..((Len(g) + 1) - 1)
        BY <1>1, <2>2
      <4>2. QED
        BY <1>1, <1>6, <4>1 DEF LastWrite
    <3>2. LastWrite(g, n + 1, j, c)
      <4>1. \A k \in (j + 1)..((n + 1) - 1) : k \in (j + 1)..((Len(g) + 1) - 1)
        BY <1>1, <2>2
      <4>2. QED
        BY <1>6, <2>2, <4>1 DEF LastWrite
    <3>3. a[c] = h[j].new[c]
      BY <1>1, <1>2, <2>2, <3>2 DEF Complete
    <3>4. QED
      BY <1>1, <2>2, <3>1, <3>3
  <2>3. QED
    BY <1>1, <2>1, <2>2
<1>7. QED
  BY <1>1, <1>3, <1>4, <1>5, <1>6 DEF Complete, g

\* An update from what the history has reached keeps it complete, a no-op
\* writes no entry and needs none.
LEMMA LoggedComplete ==
  ASSUME NEW h \in Seq(LogEntry), NEW a \in Data, NEW b \in Data, Complete(h, a)
  PROVE  Complete(Logged(h, a, b), b)
<1> DEFINE D == Changed(a, b)
           e == Entry("updated", [c \in D |-> a[c]], [c \in D |-> b[c]])
<1>1. D \in SUBSET Cols /\ \A c \in Cols \ D : a[c] = b[c]
  BY DEF Changed
<1>2. CASE D = {}
  <2>1. a = b
    BY <1>1, <1>2 DEF Data
  <2>2. QED
    BY <1>2, <2>1 DEF Logged
<1>3. CASE D # {}
  <2> HIDE DEF D
  <2>1. e \in LogEntry
    BY <1>1, DiffType DEF Entry, LogEntry
  <2>2. /\ e.action = "updated" /\ DOMAIN e.old = D /\ DOMAIN e.new = D
        /\ \A c \in D : e.old[c] = a[c] /\ e.new[c] = b[c]
    BY DEF Entry
  <2>3. Logged(h, a, b) = Append(h, e)
    BY <1>3 DEF Logged, D
  <2> HIDE DEF e
  <2>4. QED
    BY <1>1, <2>1, <2>2, <2>3, EntryCompletes
<1>4. QED
  BY <1>2, <1>3

\* A commit on one row leaves the histories of the others.
LEMMA ChainElsewhere ==
  ASSUME AuditChain, NEW r \in Rows,
         \A s \in Rows \ {r} : row'[s] = row[s] /\ log'[s] = log[s],
         row'[r] # None => Complete(log'[r], row'[r].data)
  PROVE  AuditChain'
<1>1. \A s \in Live : Complete(log[s], row[s].data)
  BY DEF AuditChain, Complete
<1>2. \A s \in Rows : row'[s] # None => Complete(log'[s], row'[s].data)
  BY <1>1 DEF Live
<1>3. QED
  BY <1>2 DEF AuditChain, Complete, Live, LastWrite

\* Every step keeps every history complete.
LEMMA ChainStep == WriteInv /\ AuditChain /\ [Next]_vars => AuditChain'
<1> SUFFICES ASSUME WriteInv, AuditChain, [Next]_vars PROVE AuditChain'
  OBVIOUS
<1>1. ASSUME row' = row, log' = log PROVE AuditChain'
  BY <1>1 DEF AuditChain, Live, LastWrite
<1>2. ASSUME NEW p \in Procs, CommitCreate(p) PROVE AuditChain'
  <2>1. req[p].row \in Rows /\ self[p].data \in Data
    BY <1>2 DEF CommitCreate, WriteInv, CallShape
  <2>2. /\ row'[req[p].row] = self[p]
        /\ log'[req[p].row] = <<Entry("created", Empty, self[p].data)>>
        /\ \A s \in Rows \ {req[p].row} : row'[s] = row[s] /\ log'[s] = log[s]
    BY <1>2, <2>1 DEF CommitCreate, WriteInv, TypeOK
  <2>3. QED
    BY <2>1, <2>2, CreationComplete, ChainElsewhere
<1>3. ASSUME NEW p \in Procs, CommitSave(p) PROVE AuditChain'
  <2>1. PICK r \in Rows : r = req[p].row
    BY <1>3 DEF CommitSave, WriteInv, CallShape
  <2>2. /\ self[p].data \in Data /\ row[r] \in RowValue /\ row[r] # None
        /\ old[p] = row[r].data /\ log[r] \in Seq(LogEntry)
    BY <1>3, <2>1 DEF CommitSave, WriteInv, CallShape, WriteFresh, LocksHeld, TypeOK,
                      InTransaction, Updating
  <2>3. /\ row'[r] = self[p]
        /\ log'[r] = Logged(log[r], old[p], self[p].data)
        /\ \A s \in Rows \ {r} : row'[s] = row[s] /\ log'[s] = log[s]
    BY <1>3, <2>1 DEF CommitSave, WriteInv, TypeOK
  <2>4. Complete(log[r], row[r].data) /\ row[r].data \in Data
    BY <2>2 DEF AuditChain, Complete, Live, RowValue
  <2>5. Complete(log'[r], row'[r].data)
    BY <2>2, <2>3, <2>4, LoggedComplete
  <2>6. QED
    BY <2>3, <2>5, ChainElsewhere
<1>4. ASSUME NEW p \in Procs, CommitDelete(p) PROVE AuditChain'
  <2>1. req[p].row \in Rows
    BY <1>4 DEF CommitDelete, WriteInv, CallShape
  <2>2. /\ row'[req[p].row] = None
        /\ \A s \in Rows \ {req[p].row} : row'[s] = row[s] /\ log'[s] = log[s]
    BY <1>4, <2>1 DEF CommitDelete, WriteInv, TypeOK
  <2>3. QED
    BY <2>1, <2>2, ChainElsewhere
<1>5. ASSUME NEW p \in Procs, Begin(p) \/ Lock(p) \/ Abort(p) \/ Save(p) \/ Purge(p) \/ RunCallback(p)
      PROVE  row' = row /\ log' = log
  BY <1>5 DEF Begin, BeginCreate, LoadToEdit, LoadToReplaceFile, LoadToDelete, Load,
              Lock, Refuse, LockToSave, LockToDelete, Abort, Save, Purge, RunCallback
<1>6. CASE UNCHANGED vars
  BY <1>1, <1>6 DEF vars
<1>7. QED
  BY <1>1, <1>2, <1>3, <1>4, <1>5, <1>6 DEF Next, Work

\* save_plus: the audit of a live row is complete. It opens with the creation,
\* every update starts from what the entries before it left, and together they
\* give the row's present value, for any number of callers, rows and entries.
THEOREM HistoriesAreComplete == Spec => []AuditChain
<1>1. Init => AuditChain
  BY DEF Init, AuditChain, Live
<1>2. QED
  BY <1>1, WriteInvariant, ChainStep, PTL DEF Spec

-----------------------------------------------------------------------------
(* The refinement. *)

\* The abstract rows: the committed ones without their files.
LEMMA AbstractCommit ==
  ASSUME TypeOK, NEW r \in Rows, NEW x,
         row' = [row EXCEPT ![r] = x],
         x = None \/ (x \in RowValue /\ x # None)
  PROVE  [s \in Rows |-> IF row[s] = None THEN None
                         ELSE [ver |-> row[s].ver, data |-> row[s].data]]'
         = [[s \in Rows |-> IF row[s] = None THEN None
                            ELSE [ver |-> row[s].ver, data |-> row[s].data]]
            EXCEPT ![r] = IF x = None THEN None ELSE [ver |-> x.ver, data |-> x.data]]
BY DEF TypeOK

\* Each abstract write is an abstract step.
LEMMA AbstractStep ==
  ASSUME NEW r \in Rows
  PROVE  /\ \A d \in Promise!Data : Promise!Create(r, d) => Promise!Next
         /\ \A c \in Cols, v \in Vals : Promise!Edit(r, c, v) => Promise!Next
         /\ Promise!Delete(r) => Promise!Next
BY DEF Promise!Next

\* Every step of the calls is one atomic audited write, or none.
LEMMA StepSimulation ==
  ASSUME WriteInv, [Next]_vars
  PROVE  [Promise!Next]_(Promise!vars)
<1> DEFINE abs == [s \in Rows |-> IF row[s] = None THEN None
                                  ELSE [ver |-> row[s].ver, data |-> row[s].data]]
<1>1. TypeOK
  BY DEF WriteInv
<1>2. ASSUME UNCHANGED <<row, log>> PROVE UNCHANGED Promise!vars
  BY <1>2 DEF Promise!vars
<1>3. ASSUME NEW p \in Procs, Begin(p) PROVE UNCHANGED <<row, log>>
  BY <1>3 DEF Begin, BeginCreate, LoadToEdit, LoadToReplaceFile, LoadToDelete, Load
<1>4. ASSUME NEW p \in Procs, Lock(p) PROVE UNCHANGED <<row, log>>
  BY <1>4 DEF Lock, Refuse, LockToSave, LockToDelete
<1>5. ASSUME NEW p \in Procs, Save(p) \/ Purge(p) \/ RunCallback(p) \/ Abort(p)
      PROVE  UNCHANGED <<row, log>>
  BY <1>5 DEF Save, Purge, RunCallback, Abort
<1>6. ASSUME NEW p \in Procs, CommitCreate(p) PROVE Promise!Next
  <2> DEFINE r == req[p].row
  <2>1. /\ r \in Rows /\ self[p].data \in Data /\ self[p] \in RowValue /\ self[p].ver = 0
    BY <1>6 DEF WriteInv, CommitCreate, CallShape, TypeOK, Instance, RowValue, WriteFresh
  <2>2. row[r] = None /\ log[r] = <<>>
    BY <1>6 DEF WriteInv, CommitCreate, FreshKeys
  <2>3. self[p] # None
    BY <2>1, NameAssumption DEF RowValue
  <2>4. abs' = [abs EXCEPT ![r] = [ver |-> 0, data |-> self[p].data]]
    BY <1>1, <1>6, <2>1, <2>3, AbstractCommit DEF CommitCreate
  <2>5. log' = [log EXCEPT ![r] = <<Promise!Entry("created", Promise!Empty, self[p].data)>>]
    BY <1>6 DEF CommitCreate, Entry, Empty, Promise!Entry, Promise!Empty
  <2>6. PICK s \in Rows, d \in Data : s = r /\ d = self[p].data
    BY <2>1
  <2>7. Promise!Create(s, d)
    BY <2>1, <2>2, <2>4, <2>5, <2>6 DEF Promise!Create
  <2>8. d \in Promise!Data
    BY DEF Data, Promise!Data
  <2>9. QED
    BY <2>7, <2>8, AbstractStep
<1>7. ASSUME NEW p \in Procs, CommitSave(p) PROVE Promise!Next
  <2> DEFINE r == req[p].row
  <2>1. /\ r \in Rows /\ self[p].data \in Data /\ self[p] \in RowValue
        /\ req[p].kind \in Updating /\ pc[p] = "saved"
    BY <1>7 DEF WriteInv, CommitSave, CallShape, TypeOK, Instance, RowValue, Updating
  <2>2. row[r] # None /\ row[r] \in RowValue
    BY <1>7, <2>1 DEF WriteInv, LocksHeld, TypeOK, InTransaction, Updating
  <2>3. /\ old[p] = row[r].data /\ self[p].ver = row[r].ver + 1
        /\ OneColumnEdit(row[r].data, self[p].data)
    BY <2>1 DEF WriteInv, WriteFresh, InTransaction, Updating
  <2>4. PICK c \in Cols, v \in Vals : self[p].data = [row[r].data EXCEPT ![c] = v]
    BY <2>3 DEF OneColumnEdit
  <2>5. self[p] # None
    BY <2>1, NameAssumption DEF RowValue
  <2>6. abs' = [abs EXCEPT ![r] = [ver |-> row[r].ver + 1, data |-> self[p].data]]
    <3>1. row' = [row EXCEPT ![r] = self[p]]
      BY <1>7 DEF CommitSave
    <3>2. abs' = [abs EXCEPT ![r] = IF self[p] = None THEN None
                                    ELSE [ver |-> self[p].ver, data |-> self[p].data]]
      BY <1>1, <2>1, <2>5, <3>1, AbstractCommit
    <3>3. QED
      BY <2>3, <2>5, <3>2
  <2>7. abs[r] # None /\ abs[r].ver = row[r].ver /\ abs[r].data = row[r].data
    <3>1. abs[r] = [ver |-> row[r].ver, data |-> row[r].data]
      BY <2>1, <2>2
    <3>2. abs[r] # None
      BY <2>1, <2>2, <3>1, NameAssumption DEF RowValue
    <3>3. QED
      BY <3>1, <3>2
  <2>8. log' = [log EXCEPT ![r] = Promise!Logged(log[r], row[r].data, self[p].data)]
    BY <1>7, <2>3 DEF CommitSave, Logged, Changed, Entry,
       Promise!Logged, Promise!Changed, Promise!Entry
  <2>9. PICK s \in Rows : s = r
    BY <2>1
  <2>10. Promise!Edit(s, c, v)
    BY <2>4, <2>6, <2>7, <2>8, <2>9 DEF Promise!Edit
  <2>11. QED
    BY <2>10, AbstractStep
<1>8. ASSUME NEW p \in Procs, CommitDelete(p) PROVE Promise!Next
  <2> DEFINE r == req[p].row
  <2>1. /\ r \in Rows /\ row[r] # None /\ log[r] \in Seq(LogEntry) /\ doomed[p] = Len(log[r])
    BY <1>1, <1>8 DEF WriteInv, CommitDelete, CallShape, LocksHeld, WriteFresh, TypeOK, InTransaction
  <2>2. abs' = [abs EXCEPT ![r] = None]
    BY <1>1, <1>8, <2>1, AbstractCommit DEF CommitDelete
  <2>3. log' = [log EXCEPT ![r] = <<Promise!Tombstone>>]
    BY <1>8, <2>1, PurgeAll DEF CommitDelete, Tombstone, Entry, Empty,
       Promise!Tombstone, Promise!Entry, Promise!Empty
  <2>4. abs[r] # None
    BY <1>1, <2>1, NameAssumption DEF TypeOK, RowValue
  <2>5. PICK s \in Rows : s = r
    BY <2>1
  <2>6. Promise!Delete(s)
    BY <2>2, <2>3, <2>4, <2>5 DEF Promise!Delete
  <2>7. QED
    BY <2>6, AbstractStep
<1>9. QED
  BY <1>2, <1>3, <1>4, <1>5, <1>6, <1>7, <1>8 DEF Next, Work, vars

\* save_plus and delete_plus implement atomic, audited edits of the current
\* value, for any number of callers, rows, columns and values: the version
\* check turns a full-row save of an instance loaded earlier into an edit of
\* the row as it is.
THEOREM TrackedWritesAreAtomic == Spec => ImplementsAuditedRows
<1>1. Init => Promise!Init
  BY DEF Init, Promise!Init
<1>2. WriteInv /\ [Next]_vars => [Promise!Next]_(Promise!vars)
  BY StepSimulation
<1>3. QED
  BY <1>1, <1>2, WriteInvariant, PTL DEF Spec, ImplementsAuditedRows, Promise!Spec

-----------------------------------------------------------------------------
(* The stored files. A name on disk is owned by one row, by one save that  *)
(* has not committed or by one clean-up that is to come: FileInv. Each     *)
(* step leaves that as it is or hands a name from one owner to another.    *)

\* The name a row owns.
Owned(r) == IF row[r] = None THEN {} ELSE FileSet(row[r].file)

\* The referenced names are the owned ones.
LEMMA OwnedNames ==
  \A n : n \in Referenced <=> \E r \in Rows : n \in Owned(r)
BY DEF Owned, Referenced, Live

\* What a row owns differs from what the others own.
LEMMA OwnersApart ==
  OneOwnerPerFile <=> \A r, s \in Rows : r # s => Owned(r) \cap Owned(s) = {}
BY DEF Owned, OneOwnerPerFile, Live

LEMMA InitFiles == Init => FileInv
<1> SUFFICES ASSUME Init PROVE FileInv
  OBVIOUS
<1>1. Live = {} /\ Referenced = {}
  BY DEF Init, Live, Referenced
<1>2. \A p \in Procs : Held(p) = {}
  BY DEF Init, Held, Fresh, CleanUp
<1>3. LiveFilesOnDisk /\ OneOwnerPerFile
  BY <1>1 DEF LiveFilesOnDisk, OneOwnerPerFile
<1>4. \A p \in Procs : FilesFresh(p)
  BY DEF Init, FilesFresh, NoReq, InTransaction
<1>5. NoMeeting
  BY DEF Init, NoMeeting, NoReq
<1>6. disk \subseteq Referenced \cup UNION {Held(p) : p \in Procs}
  BY DEF Init
<1>7. QED
  BY <1>1, <1>2, <1>3, <1>4, <1>5, <1>6 DEF FileInv

-----------------------------------------------------------------------------
(* What a step leaves alone. *)

\* A call that a step does not touch holds what it held.
LEMMA UntouchedHeld ==
  ASSUME NEW q \in Procs, pc'[q] = pc[q], req'[q] = req[q], self'[q] = self[q],
         queued'[q] = queued[q]
  PROVE  Held(q)' = Held(q)
BY DEF Held, Fresh, CleanUp

\* A call that a step does not touch, on a row it does not touch.
LEMMA UntouchedFiles ==
  ASSUME NEW q \in Procs, FilesFresh(q), pc'[q] = pc[q], req'[q] = req[q],
         self'[q] = self[q], queued'[q] = queued[q],
         row'[req[q].row] = row[req[q].row]
  PROVE  FilesFresh(q)'
BY DEF FilesFresh, InTransaction

\* A call that has ended says nothing about files but those it is to delete.
LEMMA EndedFiles ==
  ASSUME NEW q \in Procs, req'[q] = NoReq, pc'[q] \in {"idle", "committed"},
         pc'[q] = "idle" => queued'[q] = {}
  PROVE  FilesFresh(q)'
BY DEF FilesFresh, NoReq, InTransaction

\* Ending a call makes no deletion meet a replacement.
LEMMA EndedMeetings ==
  ASSUME NoMeeting, NEW p \in Procs, req'[p] = NoReq,
         \A q \in Procs \ {p} : req'[q] = req[q]
  PROVE  NoMeeting'
BY DEF NoMeeting, NoReq

\* A step that leaves the rows and the storage alone and lets go of no name,
\* or is a failure.
LEMMA QuietFiles ==
  ASSUME FileInv, UNCHANGED <<row, disk>>,
         \A q \in Procs : Held(q)' \subseteq Held(q),
         failed' \in BOOLEAN,
         ~failed' => ~failed /\ \A q \in Procs : Held(q)' = Held(q),
         \A q \in Procs : FilesFresh(q)',
         NoMeeting'
  PROVE  FileInv'
<1>1. Referenced' = Referenced /\ LiveFilesOnDisk'
  BY DEF FileInv, Referenced, Live, LiveFilesOnDisk
<1>2. OneOwnerPerFile'
  BY DEF FileInv, OneOwnerPerFile, Live
<1>3. (\A p \in Procs : Held(p) \subseteq disk \ Referenced)'
  BY <1>1 DEF FileInv
<1>4. (\A p, q \in Procs : p # q => Held(p) \cap Held(q) = {})'
  BY DEF FileInv
<1>5. (~failed => disk \subseteq Referenced \cup UNION {Held(p) : p \in Procs})'
  BY <1>1 DEF FileInv
<1>6. QED
  BY <1>1, <1>2, <1>3, <1>4, <1>5 DEF FileInv

-----------------------------------------------------------------------------
(* Before the transaction, and its end without a commit. *)

LEMMA BeginCreateFiles ==
  ASSUME WriteInv, FileInv, NEW p \in Procs, NEW r \in Rows, NEW d \in Data,
         NEW f \in {None, Upload}, BeginCreate(p, r, d, f)
  PROVE  FileInv'
<1>1. /\ pc[p] = "idle" /\ pc'[p] = "locked"
      /\ req'[p] = [kind |-> "create", row |-> r, expected |-> 0]
      /\ self'[p].file = f /\ queued' = queued /\ row' = row
      /\ UNCHANGED <<row, disk, failed>>
  BY DEF WriteInv, TypeOK, BeginCreate
<1>2. \A q \in Procs \ {p} : pc'[q] = pc[q] /\ req'[q] = req[q] /\ self'[q] = self[q]
  BY DEF WriteInv, TypeOK, BeginCreate
<1>3. Held(p)' = {} /\ Held(p) = {}
  BY <1>1 DEF Held, Fresh, CleanUp
<1>4. \A q \in Procs : Held(q)' = Held(q)
  BY <1>1, <1>2, <1>3, UntouchedHeld
<1>5. FilesFresh(p)'
  BY <1>1 DEF FilesFresh, FileInv, InTransaction
<1>6. \A q \in Procs : FilesFresh(q)'
  BY <1>1, <1>2, <1>5, UntouchedFiles DEF FileInv
<1>7. NoMeeting'
  BY <1>1, <1>2 DEF NoMeeting, FileInv
<1>8. QED
  BY <1>1, <1>4, <1>6, <1>7, QuietFiles DEF WriteInv, TypeOK

LEMMA LoadFiles ==
  ASSUME WriteInv, FileInv, NEW p \in Procs, NEW r \in Rows,
         NEW k \in {"edit", "file", "delete"}, NEW e, NEW i, Load(p, r, k, e, i),
         k = "file" => i.file \in {None, Upload},
         k # "file" => i.file = row[r].file,
         k = "file" => \A q \in Procs : req[q].row = r => req[q].kind # "delete",
         k = "delete" => \A q \in Procs : req[q].row = r => req[q].kind # "file"
  PROVE  FileInv'
<1>1. /\ pc[p] = "idle" /\ pc'[p] = "loaded"
      /\ req'[p] = [kind |-> k, row |-> r, expected |-> e]
      /\ self'[p] = i /\ queued' = queued
      /\ UNCHANGED <<row, disk, failed>>
  BY DEF WriteInv, TypeOK, Load
<1>2. \A q \in Procs \ {p} : pc'[q] = pc[q] /\ req'[q] = req[q] /\ self'[q] = self[q]
  BY DEF WriteInv, TypeOK, Load
<1>3. Held(p)' = {} /\ Held(p) = {}
  BY <1>1 DEF Held, Fresh, CleanUp
<1>4. \A q \in Procs : Held(q)' = Held(q)
  BY <1>1, <1>2, <1>3, UntouchedHeld
<1>5. FilesFresh(p)'
  <2>1. queued[p] = {}
    BY <1>1 DEF FileInv, FilesFresh
  <2>2. QED
    BY <1>1, <2>1 DEF FilesFresh, InTransaction
<1>6. \A q \in Procs : FilesFresh(q)'
  BY <1>1, <1>2, <1>5, UntouchedFiles DEF FileInv
<1>7. NoMeeting'
  BY <1>1, <1>2 DEF NoMeeting, FileInv
<1>8. QED
  BY <1>1, <1>4, <1>6, <1>7, QuietFiles DEF WriteInv, TypeOK

LEMMA LoadKindsFiles ==
  ASSUME ~Meetings, WriteInv, FileInv, NEW p \in Procs, NEW r \in Rows,
         \/ \E e \in 0..MaxVersion, c \in Cols, v \in Vals : LoadToEdit(p, r, e, c, v)
         \/ \E e \in 0..MaxVersion, f \in {None, Upload} : LoadToReplaceFile(p, r, e, f)
         \/ LoadToDelete(p, r)
  PROVE  FileInv'
<1>1. row[r] \in RowValue
  BY DEF WriteInv, TypeOK, LoadToEdit, LoadToReplaceFile, LoadToDelete, MayUpdate
<1>2. ASSUME NEW e \in 0..MaxVersion, NEW c \in Cols, NEW v \in Vals, LoadToEdit(p, r, e, c, v)
      PROVE  FileInv'
  <2> DEFINE i == [row[r] EXCEPT !.data[c] = v]
  <2>1. i.file = row[r].file
    BY <1>1 DEF RowValue
  <2>2. Load(p, r, "edit", e, i)
    BY <1>2 DEF LoadToEdit
  <2> HIDE DEF i
  <2>3. QED
    BY <2>1, <2>2, LoadFiles
<1>3. ASSUME NEW e \in 0..MaxVersion, NEW f \in {None, Upload}, LoadToReplaceFile(p, r, e, f)
      PROVE  FileInv'
  <2> DEFINE i == [row[r] EXCEPT !.file = f]
  <2>1. i.file \in {None, Upload}
    BY <1>1 DEF RowValue
  <2>2. Load(p, r, "file", e, i) /\ Alone(r, "delete")
    BY <1>3 DEF LoadToReplaceFile
  <2> HIDE DEF i
  <2>3. QED
    BY <2>1, <2>2, LoadFiles DEF Alone
<1>4. ASSUME LoadToDelete(p, r) PROVE FileInv'
  BY <1>4, LoadFiles DEF LoadToDelete, Alone
<1>5. QED
  BY <1>2, <1>3, <1>4

LEMMA RefuseFiles ==
  ASSUME WriteInv, FileInv, NEW p \in Procs, Refuse(p)
  PROVE  FileInv'
<1>1. /\ pc[p] = "loaded" /\ pc'[p] = "idle" /\ queued' = queued
      /\ UNCHANGED <<row, disk, failed>>
      /\ \A q \in Procs \ {p} : pc'[q] = pc[q]
  BY DEF WriteInv, TypeOK, Refuse
<1>2. req'[p] = NoReq /\ \A q \in Procs \ {p} : req'[q] = req[q] /\ self'[q] = self[q]
  BY ForgetType DEF WriteInv, Refuse
<1>3. Held(p)' = {} /\ Held(p) = {}
  BY <1>1 DEF Held, Fresh, CleanUp
<1>4. \A q \in Procs : Held(q)' = Held(q)
  BY <1>1, <1>2, <1>3, UntouchedHeld
<1>5. queued[p] = {}
  BY <1>1 DEF FileInv, FilesFresh
<1>6. \A q \in Procs : FilesFresh(q)'
  BY <1>1, <1>2, <1>5, EndedFiles, UntouchedFiles DEF FileInv
<1>7. NoMeeting'
  BY <1>2, EndedMeetings DEF FileInv
<1>8. QED
  BY <1>1, <1>4, <1>6, <1>7, QuietFiles DEF WriteInv, TypeOK

LEMMA AbortFiles ==
  ASSUME WriteInv, FileInv, NEW p \in Procs, Abort(p)
  PROVE  FileInv'
<1>1. /\ pc'[p] = "idle" /\ queued'[p] = {} /\ failed' = TRUE
      /\ UNCHANGED <<row, disk>>
      /\ \A q \in Procs \ {p} : pc'[q] = pc[q] /\ queued'[q] = queued[q]
  BY DEF WriteInv, TypeOK, Abort
<1>2. req'[p] = NoReq /\ \A q \in Procs \ {p} : req'[q] = req[q] /\ self'[q] = self[q]
  BY ForgetType DEF WriteInv, Abort
<1>3. Held(p)' = {}
  BY <1>1 DEF Held, Fresh, CleanUp
<1>4. \A q \in Procs : Held(q)' \subseteq Held(q)
  BY <1>1, <1>2, <1>3, UntouchedHeld
<1>5. \A q \in Procs : FilesFresh(q)'
  BY <1>1, <1>2, EndedFiles, UntouchedFiles DEF FileInv
<1>6. NoMeeting'
  BY <1>2, EndedMeetings DEF FileInv
<1>7. QED
  BY <1>1, <1>4, <1>5, <1>6, QuietFiles

LEMMA LockToSaveFiles ==
  ASSUME WriteInv, FileInv, NEW p \in Procs, LockToSave(p)
  PROVE  FileInv'
<1> DEFINE r == req[p].row
<1>1. /\ pc[p] = "loaded" /\ pc'[p] = "locked" /\ req[p].kind \in Updating
      /\ row[r] \in RowValue /\ row[r] # None /\ req' = req
      /\ self'[p].file = self[p].file
      /\ queued'[p] = FileSet(row[r].file) \ {self[p].file}
      /\ UNCHANGED <<row, disk, failed>>
  BY DEF WriteInv, TypeOK, LockToSave, Stale, CallShape, AllKinds, Updating, Instance
<1>2. \A q \in Procs \ {p} : pc'[q] = pc[q] /\ self'[q] = self[q] /\ queued'[q] = queued[q]
  BY DEF WriteInv, TypeOK, LockToSave
<1>3. Held(p)' = {} /\ Held(p) = {}
  BY <1>1 DEF Held, Fresh, CleanUp
<1>4. \A q \in Procs : Held(q)' = Held(q)
  BY <1>1, <1>2, <1>3, UntouchedHeld
<1>5. \* an edit carries the row's file along, for it has the row's version
      req[p].kind = "edit" => self[p].file = row[r].file
  <2>1. /\ req[p].expected \in 0..self[p].ver /\ self[p].ver <= row[r].ver
        /\ p \in Skippers => self[p].ver = row[r].ver
    BY <1>1 DEF WriteInv, LoadedFresh
  <2>2. p \in Skippers \/ req[p].expected = row[r].ver
    BY <1>1 DEF LockToSave, Stale, Updating
  <2>3. row[r].ver \in Nat /\ self[p].ver \in Nat
    BY <1>1 DEF WriteInv, TypeOK, RowValue, Instance
  <2>4. self[p].ver = row[r].ver
    BY <2>1, <2>2, <2>3
  <2>5. QED
    BY <1>1, <2>4 DEF FileInv, FilesFresh
<1>6. req[p].kind = "file" => self[p].file \in {None, Upload}
  BY <1>1 DEF FileInv, FilesFresh
<1>7. FilesFresh(p)'
  <2>1. req[p].kind = "edit" => queued'[p] = {}
    BY <1>1, <1>5 DEF FileSet
  <2>2. req[p].kind = "file" => queued'[p] = FileSet(row[r].file)
    BY <1>1, <1>6, NameAssumption DEF FileSet, RowValue
  <2>3. QED
    BY <1>1, <1>5, <1>6, <2>1, <2>2 DEF FilesFresh, Updating, InTransaction
<1>8. \A q \in Procs : FilesFresh(q)'
  BY <1>1, <1>2, <1>7, UntouchedFiles DEF FileInv
<1>9. NoMeeting'
  BY <1>1 DEF FileInv, NoMeeting
<1>10. QED
  BY <1>1, <1>4, <1>8, <1>9, QuietFiles DEF WriteInv, TypeOK

LEMMA LockToDeleteFiles ==
  ASSUME WriteInv, FileInv, NEW p \in Procs, LockToDelete(p)
  PROVE  FileInv'
<1> DEFINE r == req[p].row
<1>1. /\ pc[p] = "loaded" /\ pc'[p] = "locked" /\ req[p].kind = "delete"
      /\ row[r] # None /\ req' = req /\ self' = self
      /\ queued'[p] = FileSet(self[p].file)
      /\ UNCHANGED <<row, disk, failed>>
  BY DEF WriteInv, TypeOK, LockToDelete, Stale
<1>2. \A q \in Procs \ {p} : pc'[q] = pc[q] /\ queued'[q] = queued[q]
  BY DEF WriteInv, TypeOK, LockToDelete
<1>3. Held(p)' = {} /\ Held(p) = {}
  BY <1>1 DEF Held, Fresh, CleanUp
<1>4. \A q \in Procs : Held(q)' = Held(q)
  BY <1>1, <1>2, <1>3, UntouchedHeld
<1>5. self[p].file = row[r].file
  BY <1>1 DEF FileInv, FilesFresh
<1>6. FilesFresh(p)'
  BY <1>1, <1>5 DEF FilesFresh, InTransaction
<1>7. \A q \in Procs : FilesFresh(q)'
  BY <1>1, <1>2, <1>6, UntouchedFiles DEF FileInv
<1>8. NoMeeting'
  BY <1>1 DEF FileInv, NoMeeting
<1>9. QED
  BY <1>1, <1>4, <1>7, <1>8, QuietFiles DEF WriteInv, TypeOK

-----------------------------------------------------------------------------
(* Inside the transaction. *)

LEMMA PurgeFiles ==
  ASSUME WriteInv, FileInv, NEW p \in Procs, Purge(p)
  PROVE  FileInv'
<1>1. /\ pc[p] = "locked" /\ pc'[p] = "saved" /\ req[p].kind = "delete"
      /\ UNCHANGED <<row, disk, req, self, queued, failed>>
      /\ \A q \in Procs \ {p} : pc'[q] = pc[q]
  BY DEF WriteInv, TypeOK, Purge
<1>2. Held(p)' = {} /\ Held(p) = {}
  BY <1>1 DEF Held, Fresh, CleanUp
<1>3. \A q \in Procs : Held(q)' = Held(q)
  BY <1>1, <1>2, UntouchedHeld
<1>4. FilesFresh(p)'
  BY <1>1 DEF FileInv, FilesFresh, InTransaction
<1>5. \A q \in Procs : FilesFresh(q)'
  BY <1>1, <1>4, UntouchedFiles DEF FileInv
<1>6. NoMeeting'
  BY <1>1 DEF FileInv, NoMeeting
<1>7. QED
  BY <1>1, <1>3, <1>5, <1>6, QuietFiles DEF WriteInv, TypeOK

\* The only step that puts a name on disk: the storage takes one that is not
\* there, so it has no owner yet, and the save becomes its owner.
LEMMA SaveFiles ==
  ASSUME WriteInv, FileInv, NEW p \in Procs, Save(p)
  PROVE  FileInv'
<1> DEFINE r == req[p].row
<1>1. /\ pc[p] = "locked" /\ pc'[p] = "saved" /\ req[p].kind \in {"create", "edit", "file"}
      /\ UNCHANGED <<row, req, queued, failed>>
      /\ \A q \in Procs \ {p} : pc'[q] = pc[q]
  BY DEF WriteInv, TypeOK, CallShape, AllKinds, Save
<1>2. Held(p) = {}
  BY <1>1 DEF Held, Fresh, CleanUp
<1>3. req[p].kind = "edit" => row[r] # None /\ self[p].file = row[r].file
  BY <1>1 DEF WriteInv, LocksHeld, FileInv, FilesFresh, InTransaction
<1>4. req[p].kind = "edit" => self[p].file # Upload
  <2>1. req[p].row \in Rows
    BY <1>1 DEF WriteInv, CallShape
  <2>2. req[p].kind = "edit" => row[r] \in RowValue
    BY <1>3, <2>1 DEF WriteInv, TypeOK
  <2>3. QED
    BY <1>3, <2>2, NameAssumption DEF RowValue
<1>5. /\ disk' = disk \cup Held(p)' /\ Held(p)' \cap disk = {}
      /\ req[p].kind = "edit" => self'[p] = self[p]
      /\ \A q \in Procs \ {p} : self'[q] = self[q]
  <2>1. CASE self[p].file = Upload
    <3>1. PICK n \in Names \ disk : /\ disk' = disk \cup {n}
                                    /\ self' = [self EXCEPT ![p].file = n]
      BY <2>1 DEF Save
    <3>2. self'[p].file = n /\ n # None
      BY <3>1, NameAssumption DEF WriteInv, TypeOK, Instance
    <3>3. Held(p)' = {n}
      BY <1>1, <1>4, <2>1, <3>2 DEF Held, Fresh, CleanUp, FileSet
    <3>4. QED
      BY <1>4, <2>1, <3>1, <3>3 DEF WriteInv, TypeOK
  <2>2. CASE self[p].file # Upload
    <3>1. disk' = disk /\ self' = self
      BY <2>2 DEF Save
    <3>2. req[p].kind # "edit" => self[p].file = None
      BY <1>1, <2>2 DEF FileInv, FilesFresh
    <3>3. Held(p)' = {}
      BY <1>1, <3>1, <3>2 DEF Held, Fresh, CleanUp, FileSet
    <3>4. QED
      BY <3>1, <3>3
  <2>3. QED
    BY <2>1, <2>2
<1>6. \A q \in Procs \ {p} : Held(q)' = Held(q)
  BY <1>1, <1>5, UntouchedHeld
<1>7. Referenced' = Referenced
  BY <1>1 DEF Referenced, Live
<1>8. LiveFilesOnDisk' /\ OneOwnerPerFile'
  BY <1>1, <1>5, <1>7 DEF FileInv, LiveFilesOnDisk, OneOwnerPerFile, Live
<1>9. (\A q \in Procs : Held(q) \subseteq disk \ Referenced)'
  BY <1>5, <1>6, <1>7 DEF FileInv, LiveFilesOnDisk
<1>10. (\A q, s \in Procs : q # s => Held(q) \cap Held(s) = {})'
  BY <1>5, <1>6 DEF FileInv
<1>11. FilesFresh(p)'
  BY <1>1, <1>5 DEF FileInv, FilesFresh, InTransaction
<1>12. (\A q \in Procs : FilesFresh(q))'
  BY <1>1, <1>5, <1>11, UntouchedFiles DEF FileInv
<1>13. NoMeeting'
  BY <1>1 DEF FileInv, NoMeeting
<1>14. (~failed => disk \subseteq Referenced \cup UNION {Held(q) : q \in Procs})'
  <2> SUFFICES ASSUME ~failed', NEW n \in disk'
               PROVE  n \in Referenced' \/ \E q \in Procs : n \in Held(q)'
    OBVIOUS
  <2>1. n \in disk => n \in Referenced \/ \E q \in Procs \ {p} : n \in Held(q)
    BY <1>1, <1>2 DEF FileInv
  <2>2. QED
    BY <1>5, <1>6, <1>7, <2>1
<1>15. QED
  BY <1>8, <1>9, <1>10, <1>12, <1>13, <1>14 DEF FileInv

\* A commit hands names over: what the row and the call owned before, they own
\* after, and no other row or call owns more or less.
LEMMA CommitFiles ==
  ASSUME WriteInv, FileInv, NEW p \in Procs, NEW r \in Rows, CommitsOn(p, r),
         pc'[p] = "idle" => queued[p] = {},
         Held(p)' \cup Owned(r)' = Held(p) \cup Owned(r),
         Held(p)' \cap Owned(r)' = {},
         \A q \in Procs \ {p} : req[q].row = r => FilesFresh(q)'
  PROVE  FileInv'
<1>1. /\ UNCHANGED <<disk, queued, failed>>
      /\ \A q \in Procs \ {p} : pc'[q] = pc[q]
      /\ pc'[p] \in {"idle", "committed"}
      /\ \A s \in Rows \ {r} : row'[s] = row[s]
      /\ row' = [row EXCEPT ![r] = row'[r]]
  BY DEF WriteInv, TypeOK, CommitsOn
<1>2. req'[p] = NoReq /\ \A q \in Procs \ {p} : req'[q] = req[q] /\ self'[q] = self[q]
  BY ForgetType DEF WriteInv, CommitsOn
<1>3. \A q \in Procs \ {p} : Held(q)' = Held(q)
  BY <1>1, <1>2, UntouchedHeld
<1>4. \A s \in Rows \ {r} : Owned(s)' = Owned(s)
  BY <1>1 DEF Owned
<1>5. /\ \A n : n \in Referenced <=> \E s \in Rows : n \in Owned(s)
      /\ \A n : n \in Referenced' <=> \E s \in Rows : n \in Owned(s)'
  BY OwnedNames DEF Owned, Referenced, Live
<1>6. /\ \A s, t \in Rows : s # t => Owned(s) \cap Owned(t) = {}
      /\ \A q \in Procs, s \in Rows : Held(q) \cap Owned(s) = {}
      /\ \A q, s \in Procs : q # s => Held(q) \cap Held(s) = {}
      /\ Referenced \subseteq disk /\ \A q \in Procs : Held(q) \subseteq disk
  BY <1>5, OwnersApart DEF FileInv, LiveFilesOnDisk
<1>7. (\A s, t \in Rows : s # t => Owned(s) \cap Owned(t) = {})'
  BY <1>4, <1>6
<1>8. OneOwnerPerFile'
  BY <1>7 DEF Owned, OneOwnerPerFile, Live
<1>9. LiveFilesOnDisk'
  BY <1>1, <1>4, <1>5, <1>6 DEF LiveFilesOnDisk
<1>10. (\A q \in Procs : Held(q) \subseteq disk \ Referenced)'
  BY <1>1, <1>3, <1>4, <1>5, <1>6
<1>11. (\A q, s \in Procs : q # s => Held(q) \cap Held(s) = {})'
  BY <1>3, <1>6
<1>12. (\A q \in Procs : FilesFresh(q))'
  <2> SUFFICES ASSUME NEW q \in Procs PROVE FilesFresh(q)'
    OBVIOUS
  <2>1. CASE q = p
    BY <1>1, <1>2, <2>1, EndedFiles
  <2>2. CASE q # p /\ req[q].row \in Rows \ {r}
    BY <1>1, <1>2, <2>2, UntouchedFiles DEF FileInv
  <2>3. CASE q # p /\ req[q].row \notin Rows
    <3>1. pc[q] \in {"idle", "committed"} /\ req[q] = NoReq
      BY <2>3 DEF WriteInv, CallShape, TypeOK
    <3>2. pc[q] = "idle" => queued[q] = {}
      BY DEF FileInv, FilesFresh
    <3>3. QED
      BY <1>1, <1>2, <2>3, <3>1, <3>2, EndedFiles
  <2>4. QED
    BY <2>1, <2>2, <2>3
<1>13. NoMeeting'
  BY <1>2, EndedMeetings DEF FileInv
<1>14. (~failed => disk \subseteq Referenced \cup UNION {Held(q) : q \in Procs})'
  <2> SUFFICES ASSUME ~failed', NEW n \in disk'
               PROVE  n \in Referenced' \/ \E q \in Procs : n \in Held(q)'
    OBVIOUS
  <2>1. (\E s \in Rows : n \in Owned(s)) \/ \E q \in Procs : n \in Held(q)
    BY <1>1, <1>5 DEF FileInv
  <2>2. QED
    BY <1>3, <1>4, <1>5, <2>1
<1>15. QED
  BY <1>8, <1>9, <1>10, <1>11, <1>12, <1>13, <1>14 DEF FileInv

LEMMA CommitCreateFiles ==
  ASSUME WriteInv, FileInv, NEW p \in Procs, CommitCreate(p)
  PROVE  FileInv'
<1>0. PICK r \in Rows : r = req[p].row
  BY DEF WriteInv, CommitCreate, CallShape
<1> USE <1>0
<1>1. /\ pc[p] = "saved" /\ req[p].kind = "create" /\ r \in Rows
      /\ self[p].file # Upload
  BY DEF WriteInv, CommitCreate, CallShape
<1>2. TypeOK /\ row[r] = None /\ \A q \in Procs \ {p} : req[q].row # r
  BY <1>1 DEF WriteInv, FreshKeys
<1>3. lock[r] = None
  <2>1. ASSUME lock[r] # None PROVE FALSE
    <3>1. lock[r] \in Procs /\ req[lock[r]].row = r /\ req[lock[r]].kind # "create"
      BY <1>1, <2>1 DEF WriteInv, TypeOK, LocksHeld
    <3>2. QED
      BY <1>1, <1>2, <3>1
  <2>2. QED
    BY <2>1
<1>4. row'[r] = self[p] /\ queued' = queued
  BY <1>1, <1>2 DEF CommitCreate, TypeOK
<1>5. CommitsOn(p, r)
  BY <1>1, <1>2, <1>3 DEF CommitCreate, CommitsOn, EndOrCleanUp, TypeOK
<1>6. queued[p] = {}
  BY <1>1 DEF FileInv, FilesFresh
<1>7. self[p] # None
  BY <1>1, <1>2, NameAssumption DEF TypeOK, Instance, WriteInv, CallShape
<1>8. Owned(r) = {} /\ Owned(r)' = FileSet(self[p].file)
  BY <1>2, <1>4, <1>7 DEF Owned
<1>9. Held(p) = FileSet(self[p].file)
  BY <1>1 DEF Held, Fresh, CleanUp
<1>10. Held(p)' = {}
  BY <1>4, <1>5, <1>6 DEF CommitsOn, Held, Fresh, CleanUp
<1>11. QED
  BY <1>1, <1>2, <1>5, <1>6, <1>8, <1>9, <1>10, CommitFiles

LEMMA CommitSaveFiles ==
  ASSUME WriteInv, FileInv, NEW p \in Procs, CommitSave(p)
  PROVE  FileInv'
<1>0. PICK r \in Rows : r = req[p].row
  BY DEF WriteInv, CommitSave, CallShape
<1> USE <1>0
<1>1. /\ pc[p] = "saved" /\ req[p].kind \in Updating /\ r \in Rows
      /\ self[p].data \in Data /\ self[p].file # Upload
  BY DEF WriteInv, CommitSave, CallShape, Updating
<1>2. TypeOK
  BY DEF WriteInv
<1>3. /\ row[r] # None /\ row[r] \in RowValue /\ self[p].ver = row[r].ver + 1
      /\ self[p] \in RowValue
  BY <1>1, <1>2 DEF WriteInv, TypeOK, LocksHeld, WriteFresh, InTransaction, Updating,
     Instance, RowValue
<1>4. row'[r] = self[p] /\ queued' = queued
  BY <1>1, <1>2 DEF CommitSave, TypeOK
<1>5. CommitsOn(p, r) /\ pc' = [pc EXCEPT ![p] = IF queued[p] = {} THEN "idle" ELSE "committed"]
  BY <1>1, <1>2, <1>4 DEF CommitSave, CommitsOn, EndOrCleanUp, TypeOK
<1>6. pc'[p] = IF queued[p] = {} THEN "idle" ELSE "committed"
  BY <1>2, <1>5 DEF TypeOK
<1>7. self[p] # None
  BY <1>3, NameAssumption DEF RowValue
<1>8. Owned(r) = FileSet(row[r].file) /\ Owned(r)' = FileSet(self[p].file)
  BY <1>3, <1>4, <1>7 DEF Owned
<1>9. Held(p)' = queued[p]
  BY <1>4, <1>6 DEF Held, Fresh, CleanUp
<1>10. /\ Held(p)' \cup Owned(r)' = Held(p) \cup Owned(r)
       /\ Held(p)' \cap Owned(r)' = {}
  <2>1. CASE req[p].kind = "edit"
    <3>1. self[p].file = row[r].file /\ queued[p] = {}
      BY <1>1, <1>3, <2>1 DEF FileInv, FilesFresh, InTransaction
    <3>2. Held(p) = {}
      BY <1>1, <2>1 DEF Held, Fresh, CleanUp
    <3>3. QED
      BY <1>8, <1>9, <3>1, <3>2
  <2>2. CASE req[p].kind = "file"
    <3>1. queued[p] = FileSet(row[r].file)
      BY <1>1, <2>2 DEF FileInv, FilesFresh, InTransaction
    <3>2. Held(p) = FileSet(self[p].file)
      BY <1>1, <2>2 DEF Held, Fresh, CleanUp
    <3>3. Held(p) \cap Referenced = {} /\ Owned(r) \subseteq Referenced
      BY <1>1, OwnedNames DEF FileInv
    <3>4. QED
      BY <1>8, <1>9, <3>1, <3>2, <3>3
  <2>3. QED
    BY <1>1, <2>1, <2>2 DEF Updating
<1>11. ASSUME NEW q \in Procs \ {p}, req[q].row = r
       PROVE  FilesFresh(q)'
  <2>1. /\ pc[q] = "loaded" /\ pc'[q] = "loaded" /\ req'[q] = req[q]
        /\ self'[q] = self[q] /\ queued'[q] = queued[q]
    BY <1>1, <1>2, <1>4, <1>5, <1>11, OthersOnlyLoaded, ForgetType
    DEF InTransaction, CommitsOn, TypeOK
  <2>2. FilesFresh(q)
    BY DEF FileInv
  <2>3. \* an edit that was loaded before is stale now
        req[q].kind = "edit" => self[q].ver # row'[r].ver
    <3>1. req[q].kind = "edit" => self[q].ver <= row[r].ver
      BY <1>3, <1>11, <2>1 DEF WriteInv, LoadedFresh, Updating
    <3>2. row[r].ver \in Nat /\ self[q].ver \in Nat
      BY <1>2, <1>3 DEF RowValue, TypeOK, Instance
    <3>3. QED
      BY <1>3, <1>4, <3>1, <3>2
  <2>4. \* a deletion met no replacement
        req[q].kind = "delete" => self[q].file = row'[r].file
    <3>1. req[q].kind = "delete" => req[p].kind = "edit"
      BY <1>1, <1>11 DEF FileInv, NoMeeting, Updating
    <3>2. req[p].kind = "edit" => self[p].file = row[r].file
      BY <1>1, <1>3 DEF FileInv, FilesFresh, InTransaction
    <3>3. req[q].kind = "delete" => self[q].file = row[r].file
      BY <1>3, <1>11, <2>2 DEF FilesFresh
    <3>4. QED
      BY <1>4, <3>1, <3>2, <3>3
  <2>5. QED
    BY <1>11, <2>1, <2>2, <2>3, <2>4 DEF FilesFresh, InTransaction
<1>12. QED
  BY <1>1, <1>5, <1>6, <1>10, <1>11, CommitFiles

LEMMA CommitDeleteFiles ==
  ASSUME WriteInv, FileInv, NEW p \in Procs, CommitDelete(p)
  PROVE  FileInv'
<1>0. PICK r \in Rows : r = req[p].row
  BY DEF WriteInv, CommitDelete, CallShape
<1> USE <1>0
<1>1. /\ pc[p] = "saved" /\ req[p].kind = "delete" /\ r \in Rows
      /\ TypeOK /\ row[r] # None
  BY DEF WriteInv, CommitDelete, CallShape, LocksHeld, InTransaction
<1>2. row'[r] = None /\ queued' = queued
  BY <1>1 DEF CommitDelete, TypeOK
<1>3. /\ log' = [log EXCEPT ![r] = log'[r]]
      /\ pc' = [pc EXCEPT ![p] = IF queued[p] = {} THEN "idle" ELSE "committed"]
  BY <1>1 DEF CommitDelete, EndOrCleanUp, TypeOK
<1>4. pc'[p] = IF queued[p] = {} THEN "idle" ELSE "committed"
  BY <1>1, <1>3 DEF TypeOK
<1>5. CommitsOn(p, r)
  BY <1>1, <1>2, <1>3, <1>4 DEF CommitDelete, CommitsOn, TypeOK
<1>6. queued[p] = FileSet(row[r].file)
  BY <1>1 DEF FileInv, FilesFresh, InTransaction
<1>7. Held(p) = {} /\ Held(p)' = queued[p]
  BY <1>1, <1>2, <1>4 DEF Held, Fresh, CleanUp
<1>8. Owned(r) = FileSet(row[r].file) /\ Owned(r)' = {}
  BY <1>1, <1>2 DEF Owned
<1>9. ASSUME NEW q \in Procs \ {p}, req[q].row = r
      PROVE  FilesFresh(q)'
  <2>1. /\ pc[q] = "loaded" /\ pc'[q] = "loaded" /\ req'[q] = req[q]
        /\ self'[q] = self[q] /\ queued'[q] = queued[q]
    BY <1>1, <1>2, <1>3, <1>5, <1>9, OthersOnlyLoaded, ForgetType
    DEF InTransaction, CommitsOn, TypeOK
  <2>2. QED
    BY <1>2, <1>9, <2>1 DEF FileInv, FilesFresh, InTransaction
<1>10. QED
  BY <1>1, <1>4, <1>5, <1>6, <1>7, <1>8, <1>9, CommitFiles

\* A clean-up deletes a name that it alone owns.
LEMMA RunCallbackFiles ==
  ASSUME WriteInv, FileInv, NEW p \in Procs, RunCallback(p)
  PROVE  FileInv'
<1>1. PICK n \in queued[p] :
        /\ disk' = disk \ {n}
        /\ queued' = [queued EXCEPT ![p] = @ \ {n}]
        /\ pc' = [pc EXCEPT ![p] = IF queued[p] = {n} THEN "idle" ELSE "committed"]
  BY DEF RunCallback
<1>2. pc[p] = "committed" /\ UNCHANGED <<row, req, self, failed>>
  BY DEF RunCallback
<1>3. /\ queued'[p] = queued[p] \ {n}
      /\ pc'[p] = IF queued[p] = {n} THEN "idle" ELSE "committed"
      /\ \A q \in Procs \ {p} : pc'[q] = pc[q] /\ queued'[q] = queued[q]
  BY <1>1 DEF WriteInv, TypeOK
<1>4. req[p] = NoReq
  BY <1>2 DEF WriteInv, CallShape
<1>5. Held(p) = queued[p] /\ Held(p)' = queued[p] \ {n}
  BY <1>1, <1>2, <1>3 DEF Held, Fresh, CleanUp
<1>6. \A q \in Procs \ {p} : Held(q)' = Held(q) /\ n \notin Held(q)
  BY <1>1, <1>2, <1>3, <1>5, UntouchedHeld DEF FileInv
<1>7. Referenced' = Referenced /\ n \notin Referenced
  BY <1>1, <1>2, <1>5 DEF FileInv, Referenced, Live
<1>8. LiveFilesOnDisk' /\ OneOwnerPerFile'
  BY <1>1, <1>2, <1>7 DEF FileInv, LiveFilesOnDisk, OneOwnerPerFile, Live
<1>9. (\A q \in Procs : Held(q) \subseteq disk \ Referenced)'
  BY <1>1, <1>5, <1>6, <1>7 DEF FileInv
<1>10. (\A q, s \in Procs : q # s => Held(q) \cap Held(s) = {})'
  BY <1>5, <1>6 DEF FileInv
<1>11. FilesFresh(p)'
  BY <1>2, <1>3, <1>4, EndedFiles
<1>12. (\A q \in Procs : FilesFresh(q))'
  BY <1>2, <1>3, <1>11, UntouchedFiles DEF FileInv
<1>13. NoMeeting'
  BY <1>2 DEF FileInv, NoMeeting
<1>14. (~failed => disk \subseteq Referenced \cup UNION {Held(q) : q \in Procs})'
  <2> SUFFICES ASSUME ~failed', NEW m \in disk'
               PROVE  m \in Referenced' \/ \E q \in Procs : m \in Held(q)'
    OBVIOUS
  <2>1. m # n /\ (m \in Referenced \/ \E q \in Procs : m \in Held(q))
    BY <1>1, <1>2 DEF FileInv
  <2>2. QED
    BY <1>5, <1>6, <1>7, <2>1
<1>15. QED
  BY <1>8, <1>9, <1>10, <1>12, <1>13, <1>14 DEF FileInv

-----------------------------------------------------------------------------
(* The theorems. Where a row may be deleted while its file is being         *)
(* replaced (Meetings), the run TrackedRowReusedName shows them false.       *)

LEMMA NextFiles ==
  ASSUME ~Meetings
  PROVE  WriteInv /\ FileInv /\ [Next]_vars => FileInv'
<1> SUFFICES ASSUME WriteInv, FileInv, [Next]_vars PROVE FileInv'
  OBVIOUS
<1>1. ASSUME NEW p \in Procs, Begin(p) PROVE FileInv'
  BY <1>1, BeginCreateFiles, LoadKindsFiles DEF Begin
<1>2. ASSUME NEW p \in Procs, Lock(p) PROVE FileInv'
  BY <1>2, RefuseFiles, LockToSaveFiles, LockToDeleteFiles DEF Lock
<1>3. ASSUME NEW p \in Procs, Work(p) PROVE FileInv'
  BY <1>3, SaveFiles, PurgeFiles, CommitCreateFiles, CommitSaveFiles,
     CommitDeleteFiles, RunCallbackFiles DEF Work
<1>4. ASSUME NEW p \in Procs, Abort(p) PROVE FileInv'
  BY <1>4, AbortFiles
<1>5. CASE UNCHANGED vars
  <2> USE <1>5 DEF vars
  <2>1. \A q \in Procs : Held(q)' = Held(q)
    BY UntouchedHeld
  <2>2. \A q \in Procs : FilesFresh(q)'
    BY UntouchedFiles DEF FileInv
  <2>3. NoMeeting'
    BY DEF FileInv, NoMeeting
  <2>4. QED
    BY <2>1, <2>2, <2>3, QuietFiles DEF WriteInv, TypeOK
<1>6. QED
  BY <1>1, <1>2, <1>3, <1>4, <1>5 DEF Next

\* Every name on disk has one owner, a row, a save or a clean-up, unless a
\* call that stopped half-way was to delete it.
THEOREM FilesHaveOneOwner ==
  ASSUME ~Meetings
  PROVE  Spec => []FileInv
<1>1. WriteInv /\ FileInv /\ [Next]_vars => FileInv'
  BY NextFiles
<1>2. QED
  BY <1>1, InitFiles, WriteInvariant, PTL DEF Spec

\* No post-commit deletion, roll-back or reuse of a freed name takes the bytes
\* of a live row, for any number of replacements, deletions and failures.
THEOREM LiveFilesStay ==
  ASSUME ~Meetings
  PROVE  Spec => []LiveFilesOnDisk
<1>1. FileInv => LiveFilesOnDisk
  BY DEF FileInv
<1>2. QED
  BY <1>1, FilesHaveOneOwner, PTL

\* No two rows ever name the same stored file.
THEOREM NamesAreNotShared ==
  ASSUME ~Meetings
  PROVE  Spec => []OneOwnerPerFile
<1>1. FileInv => OneOwnerPerFile
  BY DEF FileInv
<1>2. QED
  BY <1>1, FilesHaveOneOwner, PTL

\* When all calls have returned and none stopped half-way, what is on disk is
\* what the rows name.
THEOREM NothingIsOrphaned ==
  ASSUME ~Meetings
  PROVE  Spec => []NoOrphans
<1>1. FileInv => NoOrphans
  <2> SUFFICES ASSUME FileInv, \A p \in Procs : pc[p] = "idle", ~failed
               PROVE  disk \subseteq Referenced
    BY DEF NoOrphans
  <2>1. \A p \in Procs : Held(p) = {}
    BY DEF Held, Fresh, CleanUp
  <2>2. QED
    BY <2>1 DEF FileInv
<1>2. QED
  BY <1>1, FilesHaveOneOwner, PTL

=============================================================================
