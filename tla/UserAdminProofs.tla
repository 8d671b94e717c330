--------------------------- MODULE UserAdminProofs ---------------------------
(***************************************************************************)
(* Proofs about UserAdmin, for every set of accounts, requests and         *)
(* commands. TrailInv is the inductive invariant of the audit, WorkInv     *)
(* that of what a form or a command has been let do.                       *)
(***************************************************************************)
EXTENDS UserAdmin, TLAPS

-----------------------------------------------------------------------------
(* The audit trail. *)

FieldNames == {"superuser", "active", "other"}

\* A diff: some fields and what they became.
Changes == UNION {[D -> BOOLEAN] : D \in SUBSET FieldNames}

Actions == {"created", "edited"} \cup Events

History == Seq([action : Actions, changes : Changes])

Working(p) == pc[p] \in {"loaded", "saved"}

TypeOK ==
  /\ user \in [Accounts -> Fields \cup {None}]
  /\ audit \in [Accounts -> History]
  /\ pc \in [Procs -> {"idle", "creating", "admitted", "loaded", "saved"}]
  /\ req \in [Procs -> [viewer : Accounts \cup {None}, target : Accounts \cup {None}]]
  /\ self \in [Procs -> Fields]
  /\ old \in [Procs -> Fields]
  /\ torn \subseteq Accounts

\* What is created or edited: an account that does not exist yet and that
\* nobody else creates, or one that does.
Targets ==
  \A p \in Procs :
    /\ pc[p] = "idle" => req[p].target = None
    /\ pc[p] = "creating" =>
         /\ req[p].target \in Accounts /\ ~Exists(req[p].target)
         /\ \A q \in Procs \ {p} : req[q].target # req[p].target
    /\ Working(p) => req[p].target \in Accounts /\ Exists(req[p].target)

\* On an account that no edits have met on, at most one edit has saved and
\* not been recorded; every other is based on the row as it is.
Untorn(a) ==
  /\ \A p, q \in Procs :
       req[p].target = a /\ pc[p] = "saved" /\ req[q].target = a /\ pc[q] = "saved" => p = q
  /\ \A p \in Procs : req[p].target = a /\ pc[p] = "loaded" => old[p] = user[a]
  /\ \A p \in Procs :
       req[p].target = a /\ pc[p] = "saved" => self[p] = user[a] /\ Tell(audit[a], old[p])
  /\ (\A p \in Procs : req[p].target = a => pc[p] # "saved") => Tell(audit[a], user[a])

TrailInv ==
  /\ TypeOK
  /\ Targets
  /\ BornAudited
  /\ \A a \in Accounts \ torn : Exists(a) => Untorn(a)

\* A row is its fields.
LEMMA FieldsAreFunctions ==
  ASSUME NEW u \in Fields
  PROVE  /\ DOMAIN u = FieldNames
         /\ \A f \in FieldNames : u[f] \in BOOLEAN
BY DEF Fields, FieldNames

LEMMA SameFields ==
  ASSUME NEW u \in Fields, NEW v \in Fields, \A f \in FieldNames : u[f] = v[f]
  PROVE  u = v
<1>1. u["superuser"] = v["superuser"] /\ u["active"] = v["active"] /\ u["other"] = v["other"]
  BY DEF FieldNames
<1>2. QED
  BY <1>1 DEF Fields

\* A difference holds what changed, as it became.
LEMMA DifferenceDef ==
  ASSUME NEW u \in Fields, NEW v \in Fields
  PROVE  /\ Difference(u, v) \in Changes
         /\ \A f \in FieldNames : f \in DOMAIN Difference(u, v) <=> u[f] # v[f]
         /\ \A f \in DOMAIN Difference(u, v) : Difference(u, v)[f] = v[f]
<1> DEFINE D == {g \in DOMAIN u : u[g] # v[g]}
<1>1. DOMAIN u = FieldNames /\ \A f \in FieldNames : v[f] \in BOOLEAN
  BY FieldsAreFunctions
<1>2. D \in SUBSET FieldNames /\ \A f \in D : v[f] \in BOOLEAN
  BY <1>1
<1>3. Difference(u, v) = [f \in D |-> v[f]]
  BY DEF Difference
<1>4. \A f \in FieldNames : f \in D <=> u[f] # v[f]
  BY <1>1
<1> HIDE DEF D
<1>5. Difference(u, v) \in [D -> BOOLEAN]
  BY <1>2, <1>3
<1>6. QED
  BY <1>2, <1>3, <1>4, <1>5 DEF Changes

LEMMA SnapshotIsChanges == Fields \subseteq Changes
<1> SUFFICES ASSUME NEW u \in Fields PROVE u \in Changes
  OBVIOUS
<1>1. u \in [FieldNames -> BOOLEAN]
  BY DEF Fields, FieldNames
<1>2. QED
  BY <1>1 DEF Changes

\* A creation tells all fields.
LEMMA CreatedTells ==
  ASSUME NEW u \in Fields
  PROVE  /\ <<Created(u)>> \in History /\ Tell(<<Created(u)>>, u)
         /\ <<Created(u)>>[1].action = "created"
<1> DEFINE e == Created(u)
<1>1. e = [action |-> "created", changes |-> u] /\ e \in [action : Actions, changes : Changes]
  BY SnapshotIsChanges DEF Created, Entry, Actions
<1> HIDE DEF e
<1>2. <<e>> \in History /\ Len(<<e>>) = 1 /\ <<e>>[1] = e /\ <<e>> # <<>>
  BY <1>1 DEF History
<1>3. e.action = "created" /\ e.changes = u
  BY <1>1
<1>4. Tell(<<e>>, u)
  BY <1>2, <1>3 DEF Tell
<1>5. QED
  BY <1>2, <1>3, <1>4 DEF e

\* An entry of what changed carries the trail from the old row to the new.
LEMMA EntryTells ==
  ASSUME NEW h \in History, NEW u \in Fields, NEW v \in Fields, Tell(h, u),
         NEW e \in [action : Actions, changes : Changes],
         \A f \in FieldNames : f \in DOMAIN e.changes => e.changes[f] = v[f],
         \A f \in FieldNames : f \notin DOMAIN e.changes => u[f] = v[f]
  PROVE  Tell(Append(h, e), v)
<1> DEFINE n == Len(h)
           g == Append(h, e)
<1>1. /\ n \in Nat \ {0} /\ Len(g) = n + 1 /\ g[n + 1] = e /\ g # <<>>
      /\ \A i \in 1..n : g[i] = h[i]
  BY DEF Tell, History
<1>2. DOMAIN u = FieldNames /\ DOMAIN v = FieldNames
  BY FieldsAreFunctions
<1> HIDE DEF g
<1>3. DOMAIN g[1].changes = DOMAIN v
  BY <1>1, <1>2 DEF Tell
<1>4. ASSUME NEW i \in 1..Len(g), NEW f \in FieldNames, LastChange(g, i, f)
      PROVE  g[i].changes[f] = v[f]
  <2>1. CASE i = n + 1
    BY <1>1, <1>4, <2>1 DEF LastChange
  <2>2. CASE i \in 1..n
    <3>1. f \notin DOMAIN e.changes
      <4>1. n + 1 \in (i + 1)..Len(g)
        BY <1>1, <2>2
      <4>2. QED
        BY <1>1, <1>4, <4>1 DEF LastChange
    <3>2. LastChange(h, i, f)
      <4>1. \A k \in (i + 1)..Len(h) : k \in (i + 1)..Len(g) /\ k \in 1..n
        BY <1>1, <2>2
      <4>2. QED
        BY <1>1, <1>4, <2>2, <4>1 DEF LastChange
    <3>3. h[i].changes[f] = u[f]
      BY <1>2, <2>2, <3>2 DEF Tell
    <3>4. QED
      BY <1>1, <2>2, <3>1, <3>3
  <2>3. QED
    BY <1>1, <2>1, <2>2
<1>5. QED
  BY <1>1, <1>2, <1>3, <1>4 DEF Tell, g


\* The entry of an event changes no field.
LEMMA NoChanges == <<>> \in Changes /\ DOMAIN <<>> = {}
<1>1. <<>> \in [{} -> BOOLEAN]
  OBVIOUS
<1>2. QED
  BY <1>1 DEF Changes

LEMMA EventTells ==
  ASSUME NEW h \in History, NEW u \in Fields, NEW what \in Events
  PROVE  /\ Append(h, Entry(what, <<>>)) \in History
         /\ Tell(h, u) => Tell(Append(h, Entry(what, <<>>)), u)
         /\ h # <<>> => Append(h, Entry(what, <<>>)) # <<>>
                        /\ Append(h, Entry(what, <<>>))[1] = h[1]
<1> DEFINE e == Entry(what, <<>>)
<1>1. e = [action |-> what, changes |-> <<>>] /\ e \in [action : Actions, changes : Changes]
  BY NoChanges DEF Entry, Actions
<1>2. DOMAIN e.changes = {}
  BY <1>1, NoChanges
<1> HIDE DEF e
<1>3. Append(h, e) \in History
  BY <1>1 DEF History
<1>4. Tell(h, u) => Tell(Append(h, e), u)
  BY <1>1, <1>2, EntryTells
<1>5. h # <<>> => Append(h, e) # <<>> /\ Append(h, e)[1] = h[1]
  BY <1>1 DEF History
<1>6. QED
  BY <1>3, <1>4, <1>5 DEF e

\* What Record makes of the entries of an account.
Recorded(h, u, v) ==
  IF Difference(u, v) = <<>> THEN h ELSE Append(h, Entry("edited", Difference(u, v)))

\* What Record does to the trail: it carries it from what was loaded to what
\* was saved, also where nothing changed and no entry is written.
LEMMA RecordTells ==
  ASSUME NEW h \in History, NEW u \in Fields, NEW v \in Fields
  PROVE  /\ Recorded(h, u, v) \in History
         /\ Tell(h, u) => Tell(Recorded(h, u, v), v)
         /\ h # <<>> => Recorded(h, u, v) # <<>> /\ Recorded(h, u, v)[1] = h[1]
<1> DEFINE e == Entry("edited", Difference(u, v))
           g == Recorded(h, u, v)
<1>1. CASE Difference(u, v) = <<>>
  <2>1. \A f \in FieldNames : u[f] = v[f]
    BY <1>1, DifferenceDef, NoChanges
  <2>2. u = v
    BY <2>1, SameFields
  <2>3. QED
    BY <1>1, <2>2 DEF Recorded
<1>2. CASE Difference(u, v) # <<>>
  <2>1. e = [action |-> "edited", changes |-> Difference(u, v)]
        /\ e \in [action : Actions, changes : Changes]
    BY DifferenceDef DEF Entry, Actions
  <2>2. /\ \A f \in FieldNames : f \in DOMAIN e.changes => e.changes[f] = v[f]
        /\ \A f \in FieldNames : f \notin DOMAIN e.changes => u[f] = v[f]
    BY <2>1, DifferenceDef
  <2>3. g = Append(h, e)
    BY <1>2 DEF Recorded
  <2> HIDE DEF e, g
  <2>4. Tell(h, u) => Tell(g, v)
    BY <2>1, <2>2, <2>3, EntryTells
  <2>5. e \in [action : Actions, changes : Changes]
    BY <2>1
  <2>6. Append(h, e) \in History
    BY <2>5 DEF History
  <2>7. h # <<>> => Append(h, e) # <<>> /\ Append(h, e)[1] = h[1]
    BY <2>5 DEF History
  <2>8. QED
    BY <2>3, <2>4, <2>6, <2>7 DEF g
<1>3. QED
  BY <1>1, <1>2

-----------------------------------------------------------------------------
(* The steps, for the trail. *)

\* The rows a command creates are rows.
LEMMA NewFields == Ordinary \in Fields /\ Super \in Fields
BY DEF Ordinary, Super, Fields

LEMMA InitTrail == Init => TrailInv
<1> SUFFICES ASSUME Init PROVE TrailInv
  OBVIOUS
<1>1. TypeOK
  BY NewFields DEF Init, TypeOK, NoReq, History
<1>2. Targets /\ BornAudited
  BY DEF Init, Targets, BornAudited, Exists, NoReq, Working
<1>3. \A a \in Accounts : ~Exists(a)
  BY DEF Init, Exists
<1>4. QED
  BY <1>1, <1>2, <1>3 DEF TrailInv

\* The end of a call forgets it.
LEMMA Forgotten ==
  ASSUME TypeOK, NEW p \in Procs, Forget(p)
  PROVE  /\ req' \in [Procs -> [viewer : Accounts \cup {None}, target : Accounts \cup {None}]]
         /\ self' \in [Procs -> Fields] /\ old' \in [Procs -> Fields]
         /\ req'[p] = NoReq
         /\ \A q \in Procs \ {p} : req'[q] = req[q] /\ self'[q] = self[q] /\ old'[q] = old[q]
<1>1. NoReq \in [viewer : Accounts \cup {None}, target : Accounts \cup {None}]
  BY DEF NoReq
<1>2. QED
  BY <1>1, NewFields DEF Forget, TypeOK

\* An account whose row and entries a step leaves alone, and whose saved edits
\* it neither ends nor adds to; who loads it loads it as it is.
LEMMA KeptUntorn ==
  ASSUME NEW a \in Accounts, Untorn(a), user'[a] = user[a], audit'[a] = audit[a],
         \A p \in Procs : /\ req'[p].target = a /\ pc'[p] = "saved"
                             <=> req[p].target = a /\ pc[p] = "saved"
                          /\ req[p].target = a /\ pc[p] = "saved" =>
                             self'[p] = self[p] /\ old'[p] = old[p]
                          /\ req'[p].target = a /\ pc'[p] = "loaded" => old'[p] = user[a]
  PROVE  Untorn(a)'
BY DEF Untorn

\* A step of one call that edits nothing: it begins, loads, or ends without
\* having saved.
LEMMA QuietTrail ==
  ASSUME TrailInv, NEW p \in Procs, UNCHANGED <<user, audit>>,
         TypeOK', Targets', torn \subseteq torn',
         \A q \in Procs \ {p} : /\ pc'[q] = pc[q] /\ req'[q] = req[q]
                                /\ self'[q] = self[q] /\ old'[q] = old[q],
         pc'[p] # "saved",
         pc[p] = "saved" => req[p].target \in torn',
         pc'[p] = "loaded" => old'[p] = user[req'[p].target]
  PROVE  TrailInv'
<1>1. BornAudited'
  BY DEF TrailInv, BornAudited, Exists
<1>2. ASSUME NEW a \in Accounts \ torn', Exists(a)'
      PROVE  Untorn(a)'
  <2>1. Untorn(a)
    BY <1>2 DEF TrailInv, Exists
  <2>2. \A q \in Procs : req'[q].target = a /\ pc'[q] = "loaded" => old'[q] = user[a]
    BY <2>1 DEF Untorn
  <2>3. \A q \in Procs : /\ req'[q].target = a /\ pc'[q] = "saved"
                            <=> req[q].target = a /\ pc[q] = "saved"
                         /\ req[q].target = a /\ pc[q] = "saved" =>
                            self'[q] = self[q] /\ old'[q] = old[q]
    BY <1>2
  <2>4. QED
    BY <2>1, <2>2, <2>3, KeptUntorn
<1>3. QED
  BY <1>1, <1>2 DEF TrailInv

LEMMA CheckFirstTrail ==
  ASSUME TrailInv, NEW p \in Procs, NEW a \in Accounts, NEW fields \in {Ordinary, Super},
         CheckFirst(p, a, fields)
  PROVE  TrailInv'
<1>1. TypeOK' /\ pc'[p] = "creating" /\ req'[p].target = a
  BY NewFields DEF TrailInv, TypeOK, CheckFirst
<1>2. \A q \in Procs \ {p} : /\ pc'[q] = pc[q] /\ req'[q] = req[q]
                             /\ self'[q] = self[q] /\ old'[q] = old[q]
  BY DEF TrailInv, TypeOK, CheckFirst
<1>3. /\ pc[p] = "idle" /\ UNCHANGED <<user, audit, torn>>
      /\ ~Exists(a) /\ \A q \in Procs : req[q].target # a
  BY DEF CheckFirst, Begins
<1>4. Targets'
  BY <1>1, <1>2, <1>3 DEF TrailInv, Targets, Working, Exists
<1>5. QED
  BY <1>1, <1>2, <1>3, <1>4, QuietTrail

LEMMA AdmitTrail ==
  ASSUME TrailInv, NEW p \in Procs, NEW v \in Accounts, Admit(p, v)
  PROVE  TrailInv'
<1>1. TypeOK' /\ pc'[p] = "admitted" /\ req'[p].target = req[p].target
  BY DEF TrailInv, TypeOK, Admit
<1>2. \A q \in Procs \ {p} : /\ pc'[q] = pc[q] /\ req'[q] = req[q]
                             /\ self'[q] = self[q] /\ old'[q] = old[q]
  BY DEF TrailInv, TypeOK, Admit
<1>3. pc[p] = "idle" /\ UNCHANGED <<user, audit, torn>>
  BY DEF Admit, Begins
<1>4. Targets'
  BY <1>1, <1>2, <1>3 DEF TrailInv, Targets, Working, Exists
<1>5. QED
  BY <1>1, <1>2, <1>3, <1>4, QuietTrail

\* Both loads take the account as it is.
LEMMA LoadTrail ==
  ASSUME TrailInv, NEW p \in Procs, NEW a \in Accounts, pc[p] \in {"idle", "admitted"},
         Exists(a), NEW fields \in Fields,
         pc' = [pc EXCEPT ![p] = "loaded"],
         req' = [req EXCEPT ![p].target = a],
         old' = [old EXCEPT ![p] = user[a]],
         self' = [self EXCEPT ![p] = fields],
         UNCHANGED <<user, audit, torn>>
  PROVE  TrailInv'
<1>1. user[a] \in Fields
  BY DEF TrailInv, TypeOK, Exists
<1>2. TypeOK' /\ pc'[p] = "loaded" /\ req'[p].target = a /\ old'[p] = user[a]
  BY <1>1 DEF TrailInv, TypeOK
<1>3. \A q \in Procs \ {p} : /\ pc'[q] = pc[q] /\ req'[q] = req[q]
                             /\ self'[q] = self[q] /\ old'[q] = old[q]
  BY DEF TrailInv, TypeOK
<1>4. Targets'
  BY <1>2, <1>3 DEF TrailInv, Targets, Working, Exists
<1>5. QED
  BY <1>2, <1>3, <1>4, QuietTrail

LEMMA LoadToEditTrail ==
  ASSUME TrailInv, NEW p \in Procs, NEW a \in Accounts, NEW fields \in Fields,
         LoadToEdit(p, a, fields)
  PROVE  TrailInv'
BY LoadTrail DEF LoadToEdit

LEMMA LoadToPromoteTrail ==
  ASSUME TrailInv, NEW p \in Procs, NEW a \in Accounts, LoadToPromote(p, a)
  PROVE  TrailInv'
<1>1. user[a] \in Fields
  BY DEF TrailInv, TypeOK, Exists, LoadToPromote
<1>2. [user[a] EXCEPT !.superuser = TRUE] \in Fields
  BY <1>1 DEF Fields
<1>3. QED
  BY <1>2, LoadTrail DEF LoadToPromote, Begins

LEMMA AbortTrail ==
  ASSUME TrailInv, NEW p \in Procs, Abort(p)
  PROVE  TrailInv'
<1>1. TypeOK
  BY DEF TrailInv
<1>2. /\ pc'[p] = "idle" /\ \A q \in Procs \ {p} : pc'[q] = pc[q]
      /\ pc' = [pc EXCEPT ![p] = "idle"]
      /\ UNCHANGED <<user, audit>> /\ Forget(p)
      /\ torn' = torn \cup {a \in {req[p].target} : pc[p] = "saved"}
  BY <1>1 DEF Abort, TypeOK
<1>3. /\ req'[p] = NoReq
      /\ \A q \in Procs \ {p} : req'[q] = req[q] /\ self'[q] = self[q] /\ old'[q] = old[q]
  BY <1>1, <1>2, Forgotten
<1>4. torn' \subseteq Accounts
  BY <1>2 DEF TrailInv, TypeOK, Targets, Working
<1>5. TypeOK'
  BY <1>1, <1>2, <1>4, Forgotten DEF TypeOK
<1>6. Targets'
  <2>1. \A q \in Procs : pc[q] = "creating" => req[q].target # None
    BY AdminAssumption DEF TrailInv, Targets
  <2>2. QED
    BY <1>2, <1>3, <2>1 DEF TrailInv, Targets, Working, Exists, NoReq
<1>7. QED
  BY <1>2, <1>3, <1>5, <1>6, QuietTrail

\* A new account is nobody's target, and its entry tells its row.
LEMMA BirthTrail ==
  ASSUME TrailInv, NEW a \in Accounts, NEW u \in Fields, ~Exists(a),
         user' = [user EXCEPT ![a] = u],
         audit' = [audit EXCEPT ![a] = <<Created(u)>>],
         torn' = torn, TypeOK', Targets',
         \A q \in Procs : req'[q].target # a,
         \A q \in Procs : \/ /\ pc'[q] = pc[q] /\ req'[q] = req[q]
                             /\ self'[q] = self[q] /\ old'[q] = old[q]
                          \/ ~Working(q) /\ ~Working(q)'
  PROVE  TrailInv'
<1>1. TypeOK
  BY DEF TrailInv
<1>2. /\ user'[a] = u /\ audit'[a] = <<Created(u)>>
      /\ \A b \in Accounts \ {a} : user'[b] = user[b] /\ audit'[b] = audit[b]
  BY <1>1 DEF TypeOK
<1>3. <<Created(u)>> # <<>> /\ Tell(<<Created(u)>>, u) /\ <<Created(u)>>[1].action = "created"
  BY CreatedTells DEF Tell
<1>4. BornAudited'
  BY <1>2, <1>3 DEF TrailInv, BornAudited, Exists
<1>5. ASSUME NEW b \in Accounts \ torn', Exists(b)'
      PROVE  Untorn(b)'
  <2>1. CASE b = a
    BY <1>2, <1>3, <2>1 DEF Untorn
  <2>2. CASE b # a
    <3>1. Untorn(b)
      BY <1>2, <1>5, <2>2 DEF TrailInv, Exists
    <3>2. user'[b] = user[b] /\ audit'[b] = audit[b]
      BY <1>2, <2>2
    <3>3. \A q \in Procs : /\ req'[q].target = b /\ pc'[q] = "saved"
                              <=> req[q].target = b /\ pc[q] = "saved"
                           /\ req[q].target = b /\ pc[q] = "saved" =>
                              self'[q] = self[q] /\ old'[q] = old[q]
                           /\ req'[q].target = b /\ pc'[q] = "loaded" => old'[q] = user[b]
      BY <3>1 DEF Working, Untorn
    <3>4. QED
      BY <3>1, <3>2, <3>3, KeptUntorn
  <2>3. QED
    BY <2>1, <2>2
<1>6. QED
  BY <1>4, <1>5 DEF TrailInv

LEMMA CreateTrail ==
  ASSUME TrailInv, NEW p \in Procs, Create(p)
  PROVE  TrailInv'
<1>1. TypeOK /\ pc[p] = "creating"
  BY DEF TrailInv, Create
<1>2. PICK a \in Accounts : a = req[p].target
  BY <1>1 DEF TrailInv, Targets
<1>3. PICK u \in Fields : u = self[p]
  BY <1>1 DEF TypeOK
<1>4. ~Exists(a) /\ \A q \in Procs \ {p} : req[q].target # a
  BY <1>1, <1>2 DEF TrailInv, Targets
<1>5. /\ user' = [user EXCEPT ![a] = u] /\ audit' = [audit EXCEPT ![a] = <<Created(u)>>]
      /\ pc' = [pc EXCEPT ![p] = "idle"] /\ torn' = torn /\ Forget(p)
  BY <1>2, <1>3 DEF Create
<1>6. pc'[p] = "idle" /\ \A q \in Procs \ {p} : pc'[q] = pc[q]
  BY <1>1, <1>5 DEF TypeOK
<1>7. /\ req'[p] = NoReq
      /\ \A q \in Procs \ {p} : req'[q] = req[q] /\ self'[q] = self[q] /\ old'[q] = old[q]
  BY <1>1, <1>5, Forgotten
<1>8. TypeOK'
  BY <1>1, <1>5, Forgotten, CreatedTells DEF TypeOK
<1>9. Targets'
  <2>1. \A b \in Accounts \ {a} : user'[b] = user[b]
    BY <1>1, <1>5 DEF TypeOK
  <2>2. a # None /\ user'[a] # None
    BY <1>1, <1>5, AdminAssumption DEF TypeOK
  <2>3. \A q \in Procs : pc[q] = "creating" => req[q].target # None
    BY AdminAssumption DEF TrailInv, Targets
  <2>4. QED
    BY <1>4, <1>6, <1>7, <2>1, <2>2, <2>3 DEF TrailInv, Targets, Working, Exists, NoReq
<1>10. a # None
  BY AdminAssumption
<1>11. \A q \in Procs : req'[q].target # a
  BY <1>4, <1>7, <1>10 DEF NoReq
<1>12. \A q \in Procs : \/ /\ pc'[q] = pc[q] /\ req'[q] = req[q]
                           /\ self'[q] = self[q] /\ old'[q] = old[q]
                        \/ ~Working(q) /\ ~Working(q)'
  BY <1>1, <1>6, <1>7 DEF Working
<1>13. QED
  BY <1>4, <1>5, <1>8, <1>9, <1>11, <1>12, BirthTrail

LEMMA SignUpTrail ==
  ASSUME TrailInv, NEW a \in Accounts, SignUp(a)
  PROVE  TrailInv'
<1>1. TypeOK /\ ~Exists(a) /\ \A q \in Procs : req[q].target # a
  BY DEF TrailInv, SignUp
<1>2. /\ user' = [user EXCEPT ![a] = Ordinary]
      /\ audit' = [audit EXCEPT ![a] = <<Created(Ordinary)>>]
      /\ UNCHANGED <<pc, req, self, old, torn>>
  BY DEF SignUp
<1>3. TypeOK'
  BY <1>1, <1>2, NewFields, CreatedTells DEF TypeOK
<1>4. Targets'
  <2>1. \A b \in Accounts \ {a} : user'[b] = user[b]
    BY <1>1, <1>2 DEF TypeOK
  <2>2. QED
    BY <1>1, <1>2, <2>1 DEF TrailInv, Targets, Working, Exists
<1>5. QED
  BY <1>1, <1>2, <1>3, <1>4, NewFields, BirthTrail

LEMMA RecordEventTrail ==
  ASSUME TrailInv, NEW a \in Accounts, NEW what \in Events, RecordEvent(a, what)
  PROVE  TrailInv'
<1> DEFINE h == Append(audit[a], Entry(what, <<>>))
<1>1. TypeOK /\ Exists(a) /\ user[a] \in Fields /\ audit[a] \in History
  BY DEF TrailInv, RecordEvent, TypeOK, Exists
<1>2. audit' = [audit EXCEPT ![a] = h] /\ UNCHANGED <<user, pc, req, self, old, torn>>
  BY DEF RecordEvent
<1>3. /\ h \in History /\ (audit[a] # <<>> => h # <<>> /\ h[1] = audit[a][1])
      /\ \A u \in Fields : Tell(audit[a], u) => Tell(h, u)
  BY <1>1, EventTells
<1> HIDE DEF h
<1>4. audit'[a] = h /\ \A b \in Accounts \ {a} : audit'[b] = audit[b]
  BY <1>1, <1>2 DEF TypeOK
<1>5. TypeOK' /\ Targets'
  BY <1>1, <1>2, <1>3 DEF TrailInv, TypeOK, Targets, Working, Exists
<1>6. BornAudited'
  BY <1>2, <1>3, <1>4 DEF TrailInv, BornAudited, Exists
<1>7. ASSUME NEW b \in Accounts \ torn', Exists(b)'
      PROVE  Untorn(b)'
  <2>1. Untorn(b)
    BY <1>2, <1>7 DEF TrailInv, Exists
  <2>2. CASE b = a
    <3>1. \A q \in Procs : old[q] \in Fields
      BY <1>1 DEF TypeOK
    <3>2. QED
      BY <1>1, <1>2, <1>3, <1>4, <2>1, <2>2, <3>1 DEF Untorn
  <2>3. CASE b # a
    BY <1>2, <1>4, <2>1, <2>3 DEF Untorn
  <2>4. QED
    BY <2>2, <2>3
<1>8. QED
  BY <1>5, <1>6, <1>7 DEF TrailInv

\* A save that meets no other edit of the account is based on the row as it
\* was, which the trail told.
LEMMA SaveTrail ==
  ASSUME TrailInv, NEW p \in Procs, Save(p)
  PROVE  TrailInv'
<1>1. TypeOK /\ pc[p] = "loaded"
  BY DEF TrailInv, Save
<1>2. PICK a \in Accounts : a = req[p].target
  BY <1>1 DEF TrailInv, Targets, Working
<1>3. Exists(a)
  BY <1>1, <1>2 DEF TrailInv, Targets, Working
<1>4. /\ user' = [user EXCEPT ![a] = self[p]] /\ pc' = [pc EXCEPT ![p] = "saved"]
      /\ torn' = torn \cup {b \in {a} : \E q \in Procs \ {p} :
                              req[q].target = b /\ pc[q] \in {"loaded", "saved"}}
      /\ UNCHANGED <<audit, req, self, old>>
  BY <1>2 DEF Save
<1>5. /\ user'[a] = self[p] /\ \A b \in Accounts \ {a} : user'[b] = user[b]
      /\ pc'[p] = "saved" /\ \A q \in Procs \ {p} : pc'[q] = pc[q]
  BY <1>1, <1>4 DEF TypeOK
<1>6. self[p] \in Fields /\ self[p] # None
  BY <1>1, AdminAssumption DEF TypeOK
<1>7. TypeOK'
  BY <1>1, <1>4, <1>6 DEF TypeOK
<1>8. Targets' /\ BornAudited'
  BY <1>1, <1>2, <1>3, <1>4, <1>5, <1>6 DEF TrailInv, Targets, Working, Exists, BornAudited
<1>9. ASSUME NEW b \in Accounts \ torn', Exists(b)'
      PROVE  Untorn(b)'
  <2>1. b \notin torn /\ Exists(b)
    BY <1>3, <1>4, <1>5, <1>9 DEF Exists
  <2>2. Untorn(b)
    BY <2>1 DEF TrailInv
  <2>3. CASE b = a
    <3>1. \A q \in Procs \ {p} : req[q].target = a => ~Working(q)
      BY <1>4, <1>9, <2>3 DEF Working
    <3>2. old[p] = user[a] /\ Tell(audit[a], user[a])
      BY <1>1, <1>2, <2>2, <2>3, <3>1 DEF Untorn, Working
    <3>3. QED
      BY <1>2, <1>4, <1>5, <2>3, <3>1, <3>2 DEF Untorn, Working
  <2>4. CASE b # a
    BY <1>1, <1>2, <1>4, <1>5, <2>2, <2>4, KeptUntorn DEF Untorn
  <2>5. QED
    BY <2>3, <2>4
<1>10. QED
  BY <1>7, <1>8, <1>9 DEF TrailInv

LEMMA RecordTrail ==
  ASSUME TrailInv, NEW p \in Procs, Record(p)
  PROVE  TrailInv'
<1>1. TypeOK /\ pc[p] = "saved" /\ old[p] \in Fields /\ self[p] \in Fields
  BY DEF TrailInv, TypeOK, Record
<1>2. PICK a \in Accounts : a = req[p].target
  BY <1>1 DEF TrailInv, Targets, Working
<1>3. Exists(a) /\ audit[a] \in History
  BY <1>1, <1>2 DEF TrailInv, TypeOK, Targets, Working
<1>4. PICK h : h = Recorded(audit[a], old[p], self[p])
  OBVIOUS
<1>5. /\ h \in History
      /\ Tell(audit[a], old[p]) => Tell(h, self[p])
      /\ audit[a] # <<>> => h # <<>> /\ h[1] = audit[a][1]
  BY <1>1, <1>3, <1>4, RecordTells
<1>6. /\ audit' = [audit EXCEPT ![a] = h] /\ pc' = [pc EXCEPT ![p] = "idle"]
      /\ Forget(p) /\ UNCHANGED <<user, torn>>
  BY <1>1, <1>2, <1>4 DEF Record, Recorded, TypeOK
<1>7. /\ audit'[a] = h /\ \A b \in Accounts \ {a} : audit'[b] = audit[b]
      /\ pc'[p] = "idle" /\ \A q \in Procs \ {p} : pc'[q] = pc[q]
  BY <1>1, <1>6 DEF TypeOK
<1>8. /\ req'[p] = NoReq
      /\ \A q \in Procs \ {p} : req'[q] = req[q] /\ self'[q] = self[q] /\ old'[q] = old[q]
  BY <1>1, <1>6, Forgotten
<1>9. TypeOK'
  BY <1>1, <1>5, <1>6, Forgotten DEF TypeOK
<1>10. Targets'
  <2>1. \A q \in Procs : pc[q] = "creating" => req[q].target # None
    BY AdminAssumption DEF TrailInv, Targets
  <2>2. QED
    BY <1>6, <1>7, <1>8, <2>1 DEF TrailInv, Targets, Working, Exists, NoReq
<1>11. BornAudited'
  BY <1>5, <1>6, <1>7 DEF TrailInv, BornAudited, Exists
<1>12. ASSUME NEW b \in Accounts \ torn', Exists(b)'
       PROVE  Untorn(b)'
  <2>1. Untorn(b)
    BY <1>6, <1>12 DEF TrailInv, Exists
  <2>2. CASE b = a
    <3>1. self[p] = user[a] /\ Tell(h, self[p])
      BY <1>1, <1>2, <1>5, <2>1, <2>2 DEF Untorn
    <3>2. \A q \in Procs : req'[q].target = a => pc'[q] # "saved"
      BY <1>1, <1>2, <1>7, <1>8, <2>1, <2>2 DEF Untorn
    <3>3. \A q \in Procs : req'[q].target = a /\ pc'[q] = "loaded" => old'[q] = user[a]
      BY <1>7, <1>8, <2>1, <2>2 DEF Untorn
    <3>4. QED
      BY <1>6, <1>7, <2>2, <3>1, <3>2, <3>3 DEF Untorn
  <2>3. CASE b # a
    <3>1. b # None
      BY AdminAssumption
    <3>2. QED
      BY <1>1, <1>2, <1>6, <1>7, <1>8, <2>1, <2>3, <3>1, KeptUntorn DEF Untorn, NoReq
  <2>4. QED
    BY <2>2, <2>3
<1>13. QED
  BY <1>9, <1>10, <1>11, <1>12 DEF TrailInv

LEMMA NextTrail == TrailInv /\ [Next]_vars => TrailInv'
<1> SUFFICES ASSUME TrailInv, [Next]_vars PROVE TrailInv'
  OBVIOUS
<1>1. ASSUME NEW p \in Procs, Step(p) PROVE TrailInv'
  BY <1>1, AdminAssumption, CheckFirstTrail, LoadToEditTrail, AdmitTrail, LoadToPromoteTrail, CreateTrail,
     SaveTrail, RecordTrail, AbortTrail DEF Step
<1>2. ASSUME NEW a \in Accounts, SignUp(a) PROVE TrailInv'
  BY <1>2, SignUpTrail
<1>3. ASSUME NEW a \in Accounts, NEW what \in Events, RecordEvent(a, what) PROVE TrailInv'
  BY <1>3, RecordEventTrail
<1>4. CASE UNCHANGED vars
  BY <1>4 DEF vars, TrailInv, TypeOK, Targets, Working, BornAudited, Exists, Untorn
<1>5. QED
  BY <1>1, <1>2, <1>3, <1>4 DEF Next

\* The trail's invariant.
THEOREM TrailInvariant == Spec => []TrailInv
BY InitTrail, NextTrail, PTL DEF Spec

\* No account without its creation in the audit, wherever its creation, by a
\* command or a sign-up, was cut short.
THEOREM AccountsAreBornAudited == Spec => []BornAudited
<1>1. TrailInv => BornAudited
  BY DEF TrailInv
<1>2. QED
  BY <1>1, TrailInvariant, PTL

\* The audit of an account, for any number of edits, promotions and events,
\* ends in the row as it stands, unless edits met or died on it.
THEOREM TrailsTell == Spec => []TrailTells
<1>1. TrailInv => TrailTells
  <2> SUFFICES ASSUME TrailInv, NEW a \in Accounts, Exists(a), a \notin torn,
                      \A p \in Procs : pc[p] = "saved" => req[p].target # a
               PROVE  Tell(audit[a], user[a])
    BY DEF TrailTells
  <2>1. Untorn(a)
    BY DEF TrailInv
  <2>2. QED
    BY <2>1 DEF Untorn
<1>2. QED
  BY <1>1, TrailInvariant, PTL

-----------------------------------------------------------------------------
(* The right to manage. *)

\* What a form is let do: its viewer may save what it holds.
FormKept(p) ==
  /\ pc[p] # "creating"
  /\ pc[p] \in {"admitted", "loaded"} => req[p].viewer \in Accounts
  /\ pc[p] = "loaded" => Allowed(req[p].viewer, req[p].target, self[p])

\* What a command is let do: create beside others, or promote what it loaded.
CommandKept(p) ==
  /\ pc[p] # "admitted"
  /\ pc[p] = "creating" => self[p] \in {Ordinary, Super} /\ MayCreate(self[p])
  /\ pc[p] = "loaded" => self[p] = [old[p] EXCEPT !.superuser = TRUE]

WorkInv ==
  /\ \A p \in Editors : FormKept(p)
  /\ \A p \in Shells : CommandKept(p)

LEMMA InitWork == Init => WorkInv
BY DEF Init, WorkInv, FormKept, CommandKept, Procs

\* No account goes.
LEMMA AccountsStay ==
  ASSUME TrailInv, [Next]_vars, NEW a \in Accounts, Exists(a)
  PROVE  Exists(a)'
<1>1. TypeOK /\ user[a] # None
  BY DEF TrailInv, Exists
<1>2. ASSUME NEW b, NEW u \in Fields, user' = [user EXCEPT ![b] = u]
      PROVE  user'[a] # None
  BY <1>1, <1>2, AdminAssumption DEF TypeOK
<1>3. ASSUME NEW p \in Procs, Step(p) PROVE user'[a] # None
  <2>1. self[p] \in Fields
    BY <1>1 DEF TypeOK
  <2>2. CASE Create(p) \/ Save(p)
    BY <1>2, <2>1, <2>2 DEF Create, Save
  <2>3. CASE user' = user
    BY <1>1, <2>3
  <2>4. QED
    BY <1>3, <2>2, <2>3
    DEF Step, CheckFirst, LoadToEdit, Admit, LoadToPromote, Record, Abort
<1>4. ASSUME NEW b \in Accounts, SignUp(b) PROVE user'[a] # None
  BY <1>2, <1>4, NewFields DEF SignUp
<1>5. QED
  BY <1>1, <1>3, <1>4 DEF Next, RecordEvent, vars, Exists

\* A first user, once there, stays the first.
LEMMA FirstStays ==
  ASSUME TrailInv, [Next]_vars, NEW u, MayCreate(u)
  PROVE  MayCreate(u)'
BY AccountsStay DEF MayCreate

\* A step of p leaves the others with what they hold.
LEMMA OthersKeep ==
  ASSUME TypeOK, NEW p \in Procs, Step(p)
  PROVE  \A q \in Procs \ {p} : /\ pc'[q] = pc[q] /\ req'[q] = req[q]
                                /\ self'[q] = self[q] /\ old'[q] = old[q]
<1>1. \A q \in Procs \ {p} : pc'[q] = pc[q]
  BY DEF Step, CheckFirst, LoadToEdit, Admit, LoadToPromote, Create, Save, Record, Abort, TypeOK
<1>2. CASE Forget(p)
  BY <1>1, <1>2, Forgotten
<1>3. CASE ~Forget(p)
  BY <1>1, <1>3
  DEF Step, CheckFirst, LoadToEdit, Admit, LoadToPromote, Create, Save, Record, Abort, TypeOK
<1>4. QED
  BY <1>2, <1>3

\* Forms and commands keep what they were let do: the acting one by its guards,
\* the others because they hold what they held.
LEMMA NextWork == TrailInv /\ WorkInv /\ [Next]_vars => WorkInv'
<1> SUFFICES ASSUME TrailInv, WorkInv, [Next]_vars PROVE WorkInv'
  OBVIOUS
<1>1. TypeOK
  BY DEF TrailInv
<1>2. ASSUME NEW q \in Procs, pc'[q] = pc[q], req'[q] = req[q], self'[q] = self[q], old'[q] = old[q]
      PROVE  (q \in Editors => FormKept(q)') /\ (q \in Shells => CommandKept(q)')
  <2>1. \A u : MayCreate(u) => MayCreate(u)'
    BY FirstStays
  <2>2. q \in Editors => FormKept(q)'
    BY <1>2 DEF WorkInv, FormKept, Allowed
  <2>3. q \in Shells => CommandKept(q)'
    BY <1>2, <2>1 DEF WorkInv, CommandKept, MayCreate, Exists
  <2>4. QED
    BY <2>2, <2>3
<1>3. ASSUME NEW p \in Procs, Step(p) PROVE WorkInv'
  <2>1. SUFFICES (p \in Editors => FormKept(p)') /\ (p \in Shells => CommandKept(p)')
    BY <1>1, <1>2, <1>3, OthersKeep DEF WorkInv, Procs
  <2>2. ASSUME NEW a \in Accounts, NEW fields \in {Ordinary, Super}, CheckFirst(p, a, fields)
        PROVE  p \notin Editors /\ CommandKept(p)'
    <3>1. pc'[p] = "creating" /\ self'[p] = fields /\ MayCreate(fields) /\ p \in Shells
      BY <1>1, <2>2 DEF CheckFirst, TypeOK
    <3>2. MayCreate(fields)'
      BY <3>1, FirstStays
    <3>3. QED
      BY <3>1, <3>2, AdminAssumption DEF CommandKept, MayCreate
  <2>3. ASSUME NEW a \in Accounts, NEW fields \in Forms, LoadToEdit(p, a, fields)
        PROVE  p \notin Shells /\ FormKept(p)'
    <3>1. /\ pc'[p] = "loaded" /\ self'[p] = fields
          /\ req'[p].viewer = req[p].viewer /\ req'[p].target = a
          /\ Allowed(req[p].viewer, a, fields) /\ pc[p] = "admitted"
      BY <1>1, <2>3 DEF LoadToEdit, TypeOK
    <3>2. p \in Editors /\ p \notin Shells
      BY <3>1, AdminAssumption DEF WorkInv, CommandKept, Procs
    <3>3. QED
      BY <3>1, <3>2 DEF WorkInv, FormKept, Allowed
  <2>4. ASSUME NEW v \in Accounts, Admit(p, v)
        PROVE  p \notin Shells /\ FormKept(p)'
    <3>1. pc'[p] = "admitted" /\ req'[p].viewer = v /\ p \in Editors
      BY <1>1, <2>4 DEF Admit, TypeOK
    <3>2. QED
      BY <3>1, AdminAssumption DEF FormKept
  <2>5. ASSUME NEW a \in Accounts, LoadToPromote(p, a)
        PROVE  p \notin Editors /\ CommandKept(p)'
    <3>1. /\ pc'[p] = "loaded" /\ p \in Shells /\ old'[p] = user[a]
          /\ self'[p] = [user[a] EXCEPT !.superuser = TRUE]
      BY <1>1, <2>5 DEF LoadToPromote, TypeOK
    <3>2. QED
      BY <3>1, AdminAssumption DEF CommandKept
  <2>6. CASE Create(p) \/ Save(p) \/ Record(p) \/ Abort(p)
    <3>1. pc'[p] \in {"idle", "saved"}
      BY <1>1, <2>6 DEF Create, Save, Record, Abort, TypeOK
    <3>2. QED
      BY <3>1 DEF FormKept, CommandKept
  <2>7. QED
    BY <1>3, <2>2, <2>3, <2>4, <2>5, <2>6 DEF Step
<1>4. CASE UNCHANGED <<pc, req, self, old>>
  BY <1>2, <1>4 DEF WorkInv, Procs
<1>5. QED
  BY <1>3, <1>4 DEF Next, SignUp, RecordEvent, vars

\* Where one account is written, another that managed still does.
LEMMA ManagerKept ==
  ASSUME TypeOK, NEW a \in Accounts, NEW u \in Fields, user' = [user EXCEPT ![a] = u],
         NEW m \in Accounts, Manages(m), m = a => u.superuser /\ u.active
  PROVE  NotLockedOut'
<1>1. u # None /\ user'[a] = u /\ \A b \in Accounts \ {a} : user'[b] = user[b]
  BY AdminAssumption DEF TypeOK
<1>2. QED
  BY <1>1 DEF NotLockedOut, Manages, Exists

\* A command creates the first account as a superuser, and any other beside
\* somebody who manages.
LEMMA CreationKeeps ==
  ASSUME TrailInv, WorkInv, NotLockedOut, NEW p \in Procs, Create(p)
  PROVE  NotLockedOut'
<1>1. TypeOK /\ pc[p] = "creating"
  BY DEF TrailInv, Create
<1>2. PICK a \in Accounts : a = req[p].target /\ ~Exists(a)
  BY <1>1 DEF TrailInv, Targets
<1>3. PICK u \in {Ordinary, Super} : u = self[p] /\ MayCreate(u)
  BY <1>1 DEF WorkInv, FormKept, CommandKept, Procs
<1>4. user' = [user EXCEPT ![a] = u] /\ u \in Fields
  BY <1>2, <1>3, NewFields DEF Create
<1>5. CASE u = Super
  <2>1. user'[a] = u /\ u # None
    BY <1>1, <1>4, AdminAssumption DEF TypeOK
  <2>2. QED
    BY <1>5, <2>1 DEF NotLockedOut, Manages, Exists, Super
<1>6. CASE u = Ordinary
  <2>1. PICK m \in Accounts : Manages(m)
    BY <1>3, <1>6 DEF MayCreate, Ordinary, NotLockedOut
  <2>2. m # a
    BY <1>2, <2>1 DEF Manages
  <2>3. QED
    BY <1>1, <1>4, <2>1, <2>2, ManagerKept
<1>7. QED
  BY <1>3, <1>5, <1>6

\* A sign-up beside an account leaves a manager, as there was one.
LEMMA SignUpKeeps ==
  ASSUME TrailInv, NotLockedOut, NEW a \in Accounts, SignUp(a), NEW b \in Accounts, Exists(b)
  PROVE  NotLockedOut'
<1>1. PICK m \in Accounts : Manages(m)
  BY DEF NotLockedOut
<1>2. m # a /\ user' = [user EXCEPT ![a] = Ordinary]
  BY <1>1 DEF SignUp, Manages
<1>3. QED
  BY <1>1, <1>2, NewFields, ManagerKept DEF TrailInv

\* A save on what still holds leaves a manager: the viewer of a form, who is
\* another account or keeps the flags, or whoever a promotion finds.
LEMMA SaveKeeps ==
  ASSUME TrailInv, WorkInv, NotLockedOut, NEW p \in Procs, Save(p), ~Stale(p)
  PROVE  NotLockedOut'
<1>1. TypeOK /\ pc[p] = "loaded"
  BY DEF TrailInv, Save
<1>2. PICK a \in Accounts : a = req[p].target /\ Exists(a)
  BY <1>1 DEF TrailInv, Targets, Working
<1>3. PICK u \in Fields : u = self[p]
  BY <1>1 DEF TypeOK
<1>4. user' = [user EXCEPT ![a] = u]
  BY <1>2, <1>3 DEF Save
<1>5. CASE p \in Editors
  <2>1. PICK m \in Accounts : m = req[p].viewer /\ Manages(m) /\ Allowed(m, a, u)
    BY <1>1, <1>2, <1>3, <1>5 DEF WorkInv, FormKept, Stale
  <2>2. QED
    BY <1>1, <1>4, <2>1, ManagerKept DEF Allowed
<1>6. CASE p \in Shells
  <2>1. PICK m \in Accounts : Manages(m)
    BY <1>2 DEF NotLockedOut
  <2>2. u = [user[a] EXCEPT !.superuser = TRUE] /\ user[a] \in Fields
    BY <1>1, <1>2, <1>3, <1>6, AdminAssumption DEF WorkInv, CommandKept, Stale, TypeOK, Exists
  <2>3. u.superuser /\ u.active = user[a].active
    BY <2>2 DEF Fields
  <2>4. m = a => u.superuser /\ u.active
    BY <2>1, <2>3 DEF Manages
  <2>5. QED
    BY <1>1, <1>4, <2>1, <2>4, ManagerKept
<1>7. QED
  BY <1>5, <1>6 DEF Procs

\* For any number of accounts, forms and commands at work together: the last
\* manager is lost only to a save on what no longer holds, or to a signup that
\* came before any account.
THEOREM OnlyStaleSavesLock == Spec => OnlyStaleSavesLockOut
<1> DEFINE StaleSave == \E p \in Procs : pc[p] = "loaded" /\ pc'[p] = "saved" /\ Stale(p)
           First == (\A a \in Accounts : ~Exists(a)) /\ UNCHANGED pc
           Loss == NotLockedOut /\ ~NotLockedOut' => StaleSave \/ First
<1>1. ASSUME TrailInv, WorkInv, [Next]_vars PROVE Loss
  <2>1. SUFFICES ASSUME NotLockedOut, ~NotLockedOut' PROVE StaleSave \/ First
    OBVIOUS
  <2>2. user' # user
    BY <2>1 DEF NotLockedOut, Exists, Manages
  <2>3. ASSUME NEW p \in Procs, Step(p) PROVE StaleSave
    <3>1. Create(p) \/ Save(p)
      BY <2>2, <2>3 DEF Step, CheckFirst, LoadToEdit, Admit, LoadToPromote, Record, Abort
    <3>2. Save(p)
      BY <1>1, <2>1, <3>1, CreationKeeps
    <3>3. Stale(p)
      BY <1>1, <2>1, <3>2, SaveKeeps
    <3>4. pc[p] = "loaded" /\ pc'[p] = "saved"
      BY <1>1, <3>2 DEF Save, TrailInv, TypeOK
    <3>5. QED
      BY <3>3, <3>4
  <2>4. ASSUME NEW a \in Accounts, SignUp(a) PROVE First
    BY <1>1, <2>1, <2>4, SignUpKeeps DEF SignUp
  <2>5. QED
    BY <1>1, <2>2, <2>3, <2>4 DEF Next, RecordEvent, vars
<1>2. TrailInv /\ WorkInv /\ [Next]_vars => [Loss]_vars
  BY <1>1
<1>3. Spec => []WorkInv
  BY InitWork, NextWork, TrailInvariant, PTL DEF Spec
<1>4. QED
  BY <1>2, <1>3, TrailInvariant, PTL DEF Spec, OnlyStaleSavesLockOut

=============================================================================
