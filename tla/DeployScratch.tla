--------------------------- MODULE DeployScratch ---------------------------
(***************************************************************************)
(* The scratch loop of ops/scratch.py: createscratch copies main/ and      *)
(* freezes a baseline, people edit, deployscratch checks the copy and      *)
(* ships it over main/, then backs up, migrates, collects and restarts.    *)
(*                                                                         *)
(* The loop's commands run one at a time, and people edit and commit       *)
(* between them; backups start and end and services die at any time. A     *)
(* command may die at any step. A tree is the content of each file; a      *)
(* deleted file is a content.                                              *)
(***************************************************************************)
EXTENDS Naturals

CONSTANTS
  Backend, Frontend, Docs,  \* the files, by what classify_changed_files makes of them
  Contents, Original,
  SharedEdits,    \* are files edited in main/ that scratch/ has changes of?
  CommitsAnyTime, \* commits in main/ beside a scratch tree, or after a failed deploy
  ProbeFails,     \* can backup_in_flight miss a running backup?
  None

Files    == Backend \cup Frontend \cup Docs
Services == {"granian", "huey"}
Trees    == [Files -> Contents]

ASSUME FilesAssumption ==
  Backend \cap Frontend = {} /\ Backend \cap Docs = {} /\ Frontend \cap Docs = {}
ASSUME SettingsAssumption ==
  /\ SharedEdits \in BOOLEAN /\ CommitsAnyTime \in BOOLEAN /\ ProbeFails \in BOOLEAN
  /\ Original \in Contents /\ None \notin Contents \cup Trees

VARIABLES
  main, head,       \* main/'s working tree, and its HEAD
  scratch, base,    \* scratch/, and its scratch-baseline; None when absent
  mainDist, scratchDist,  \* the frontend each tree's dist/ was built from
  static,           \* the frontend /static/ was collected from
  live,             \* the backend each service runs
  schema, snapshot, \* the backend the database, and its last backup, is migrated to
  backup,           \* "idle", by the "unit", or by "hand"
  pc, changed,      \* the running command, and its changed-set
  wrote,            \* files shipped since the last deploy that completed
  byHand            \* files edited in main/ that are not committed and were never copied out

trees == <<main, head, scratch, base>>
built == <<mainDist, scratchDist, static>>
run   == <<pc, changed>>
data  == <<schema, snapshot, backup>>
hist  == <<wrote, byHand>>
vars  == <<trees, built, live, data, run, hist>>

Part(tree, files) == [f \in files |-> tree[f]]
Differ(t, u)      == {f \in Files : t[f] # u[f]}
EveryFile         == [f \in Files |-> Original]

Init ==
  /\ main = EveryFile /\ head = EveryFile
  /\ scratch = None /\ base = None
  /\ mainDist = Part(EveryFile, Frontend)
  /\ scratchDist = None
  /\ static = Part(EveryFile, Frontend)
  /\ live = [s \in Services |-> Part(EveryFile, Backend)]
  /\ schema = Part(EveryFile, Backend)
  /\ snapshot = None
  /\ backup = "idle"
  /\ pc = "idle" /\ changed = {}
  /\ wrote = {} /\ byHand = {}

Idle == pc' = "idle" /\ changed' = {}
Goto(next) == pc' = next /\ UNCHANGED changed

-----------------------------------------------------------------------------
(* People *)

\* What scratch/ has changed.
Carried == IF scratch = None \/ base = None THEN {} ELSE Differ(scratch, base)

\* A new content, or the committed one again.
EditMain(f, c) ==
  /\ pc = "idle"
  /\ SharedEdits \/ f \notin Carried
  /\ main[f] # c
  /\ main' = [main EXCEPT ![f] = c]
  /\ byHand' = IF c = head[f] THEN byHand \ {f} ELSE byHand \cup {f}
  /\ wrote' = wrote \ {f}
  /\ UNCHANGED <<head, scratch, base, built, live, data, run>>

EditScratch(f, c) ==
  /\ pc = "idle"
  /\ SharedEdits \/ f \notin byHand
  /\ scratch # None
  /\ scratch[f] # c
  /\ scratch' = [scratch EXCEPT ![f] = c]
  /\ UNCHANGED <<main, head, base, built, live, data, run, hist>>

Commit ==
  /\ pc = "idle"
  /\ CommitsAnyTime \/ (scratch = None /\ wrote = {})
  /\ head # main
  /\ head' = main
  /\ byHand' = {}
  /\ UNCHANGED <<main, scratch, base, built, live, data, run, wrote>>

-----------------------------------------------------------------------------
(* createscratch and cleanscratch *)

\* rmtree: how both begin.
Wipe(next) ==
  /\ pc = "idle"
  /\ scratch' = None /\ base' = None /\ scratchDist' = None
  /\ pc' = next
  /\ UNCHANGED <<main, head, mainDist, static, live, data, changed, hist>>

Cleanscratch == scratch # None /\ Wipe("idle")

\* The rsync, .git included, and the tag, which is missing when it dies between.
Copy(tagged) ==
  /\ pc = "copying"
  /\ scratch' = main
  /\ base' = IF tagged THEN head ELSE None
  /\ scratchDist' = mainDist
  /\ byHand' = {}
  /\ Goto("idle")
  /\ UNCHANGED <<main, head, mainDist, static, live, data, wrote>>

-----------------------------------------------------------------------------
(* deployscratch: what it decides from *)

\* _changed_set: git diff against the baseline, and what git does not track.
ScratchListing == Differ(scratch, base)
\* git status, without what git ignores.
MainListing    == Differ(main, head)

\* Fault: one safe file is enough.
FastPathAnyDoc(names) == names \cap (Frontend \cup Docs) # {}
\* Some change, and only to frontend/ and the top-level docs.
FastPath(names) == names # {} /\ names \subseteq Frontend \cup Docs
FrontendChanged(names) == names \cap Frontend # {}

\* Fault: a main/ file is covered by any pending change.
UncoveredIfNonePending(dirty, pending) == IF pending = {} THEN dirty ELSE {}
\* The dirty files of main/ that scratch/ does not carry, by name.
Uncovered(dirty, pending) == dirty \ pending

-----------------------------------------------------------------------------
(* deployscratch: the guards and the battery *)

\* A backup in flight refuses the deploy, unless the probe of it fails.
StartDeploy ==
  /\ pc = "idle"
  /\ scratch # None /\ base # None
  /\ backup = "idle" \/ ProbeFails
  /\ pc' = "guarding"
  /\ changed' = ScratchListing
  /\ UNCHANGED <<trees, built, live, data, hist>>

PassGuard ==
  /\ pc = "guarding"
  /\ Uncovered(MainListing, changed) = {}
  /\ Goto("checking")
  /\ UNCHANGED <<trees, built, live, data, hist>>

Refuse ==
  /\ pc = "guarding"
  /\ Uncovered(MainListing, changed) # {}
  /\ Idle
  /\ UNCHANGED <<trees, built, live, data, hist>>

\* built_frontend rebuilds what its marker does not vouch for; docs need no bundle.
BundleAfterCheck ==
  IF FastPath(changed) /\ ~FrontendChanged(changed)
  THEN scratchDist ELSE Part(scratch, Frontend)

\* A red battery ends the deploy after it may have built: see Die.
CheckBattery ==
  /\ pc = "checking"
  /\ scratchDist' = BundleAfterCheck
  /\ pc' = "shipping"
  /\ UNCHANGED <<trees, mainDist, static, live, data, changed, hist>>

-----------------------------------------------------------------------------
(* deployscratch: the tail *)

AfterShip ==
  IF ~FastPath(changed) THEN "backing up"
  ELSE IF FrontendChanged(changed) THEN "collecting" ELSE "done"

Overwrite(files) ==
  /\ main' = [f \in Files |-> IF f \in files THEN scratch[f] ELSE main[f]]
  /\ wrote' = wrote \cup {f \in files : main[f] # scratch[f]}
  /\ byHand' = byHand \ files

Ship ==
  /\ pc = "shipping"
  /\ Overwrite(Files)
  /\ mainDist' = scratchDist
  /\ Goto(AfterShip)
  /\ UNCHANGED <<head, scratch, base, scratchDist, static, live, data>>

\* An rsync that dies has written some of the files, and perhaps the bundle.
ShipPartly(files, bundle) ==
  /\ pc = "shipping"
  /\ Overwrite(files)
  /\ mainDist' = IF bundle THEN scratchDist ELSE mainDist
  /\ Idle
  /\ UNCHANGED <<head, scratch, base, scratchDist, static, live, data>>

\* Fault: systemctl start --no-block.
BackUpNoWait ==
  /\ pc = "backing up"
  /\ backup # "hand"
  /\ backup' = "unit"
  /\ Goto("migrating")
  /\ UNCHANGED <<trees, built, live, schema, snapshot, hist>>

\* systemctl start: a new run of the unit, or the one already running is joined.
\* A backup started by hand holds the stanza's lock, and the unit fails: see Die.
BackUp ==
  /\ pc = "backing up"
  /\ backup # "hand"
  /\ backup' = "unit"
  /\ Goto("awaiting backup")
  /\ UNCHANGED <<trees, built, live, schema, snapshot, hist>>

Migrate ==
  /\ pc = "migrating"
  /\ schema' = Part(main, Backend)
  /\ Goto("collecting")
  /\ UNCHANGED <<trees, built, live, snapshot, backup, hist>>

Collect ==
  /\ pc = "collecting"
  /\ static' = mainDist
  /\ Goto(IF FastPath(changed) THEN "done" ELSE "restarting granian")
  /\ UNCHANGED <<trees, mainDist, scratchDist, live, data, hist>>

Restart(s) == live' = [live EXCEPT ![s] = Part(main, Backend)]

RestartGranian ==
  /\ pc = "restarting granian"
  /\ Restart("granian")
  /\ Goto("restarting huey")
  /\ UNCHANGED <<trees, built, data, hist>>

RestartHuey ==
  /\ pc = "restarting huey"
  /\ Restart("huey")
  /\ Goto("done")
  /\ UNCHANGED <<trees, built, data, hist>>

Done ==
  /\ pc = "done"
  /\ Idle
  /\ wrote' = {}
  /\ UNCHANGED <<trees, built, live, data, byHand>>

\* A step failed, or the command was killed.
Die ==
  /\ pc \notin {"idle", "done"}
  /\ Idle
  /\ scratchDist' \in {scratchDist} \cup
       (IF pc = "checking" THEN {BundleAfterCheck} ELSE {})
  /\ UNCHANGED <<trees, mainDist, static, live, data, hist>>

-----------------------------------------------------------------------------
(* Backups, and the services' supervisor *)

\* The timer's unit, or ./run backupdb by hand.
BackupStarts(by) ==
  /\ backup = "idle"
  /\ backup' = by
  /\ UNCHANGED <<trees, built, live, schema, snapshot, run, hist>>

\* The deploy that waits for the unit goes on with its result.
BackupEnds(ok) ==
  /\ backup # "idle"
  /\ backup' = "idle"
  /\ snapshot' = IF ok THEN schema ELSE snapshot
  /\ IF backup = "unit" /\ pc = "awaiting backup"
     THEN IF ok THEN Goto("migrating") ELSE Idle
     ELSE UNCHANGED run
  /\ UNCHANGED <<trees, built, live, schema, hist>>

\* A service dies and comes back, on the files main/ has now.
Respawn(s) ==
  /\ live[s] # Part(main, Backend)
  /\ Restart(s)
  /\ UNCHANGED <<trees, built, data, run, hist>>

Next ==
  \/ \E f \in Files, c \in Contents : EditMain(f, c) \/ EditScratch(f, c)
  \/ Commit
  \/ Wipe("copying") \/ \E tagged \in BOOLEAN : Copy(tagged)
  \/ Cleanscratch
  \/ StartDeploy \/ PassGuard \/ Refuse \/ CheckBattery
  \/ Ship \/ \E files \in SUBSET Files, bundle \in BOOLEAN : ShipPartly(files, bundle)
  \/ BackUp \/ Migrate \/ Collect \/ RestartGranian \/ RestartHuey
  \/ Done \/ Die
  \/ \E by \in {"unit", "hand"} : BackupStarts(by)
  \/ \E ok \in BOOLEAN : BackupEnds(ok)
  \/ \E s \in Services : Respawn(s)

Spec == Init /\ [][Next]_vars

-----------------------------------------------------------------------------
(* Properties *)

\* When a deploy completes, every file that it, or a deploy that died before it,
\* wrote into main/ is in effect: backend files are migrated to and run by both
\* services, frontend files are in the collected bundle (deployscratch's tail,
\* and the fast path that skips parts of it).
DeployTakesEffect ==
  pc = "done" =>
    /\ \A f \in wrote \cap Backend : schema[f] = main[f] /\ \A s \in Services : live[s][f] = main[f]
    /\ \A f \in wrote \cap Frontend : static[f] = main[f]

\* At every migrate the last complete backup is of the schema migrated from,
\* however the deploy's backup and the timer's met (the pre-migration snapshot).
SafetyCopy == pc = "migrating" => snapshot = schema

\* No deploy, complete or cut short, overwrites a hand edit of main/ that was
\* neither committed nor copied to scratch/, unless scratch/ has changed that
\* file too (the deploy-loss guard, which compares names).
NoEditLost ==
  [][pc = "shipping" /\ pc' # pc => \A f \in byHand \ Carried : main'[f] = main[f]]_vars

=============================================================================
