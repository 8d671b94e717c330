---------------------------- MODULE DeployProofs ----------------------------
(***************************************************************************)
(* Proofs about DeployScratch for every set of files and contents. The     *)
(* inductive invariant is LoopInv. Its heart is what the deploy-loss guard *)
(* gives to the fast path: as long as nothing is committed beside a        *)
(* scratch tree, the baseline is main/'s HEAD, so that whatever a dead     *)
(* deploy left in main/ is dirty, and what is dirty is in the changed-set  *)
(* that the next deploy decides from.                                      *)
(***************************************************************************)
EXTENDS DeployScratch, TLAPS

USE FilesAssumption, SettingsAssumption

Guarded   == {"guarding", "checking", "shipping"}
Tail      == {"backing up", "awaiting backup", "migrating", "collecting",
              "restarting granian", "restarting huey", "done"}

Types ==
  /\ main \in Trees /\ head \in Trees
  /\ scratch \in Trees \cup {None} /\ base \in Trees \cup {None}
  /\ live \in [Services -> [Backend -> Contents]]
  /\ wrote \subseteq Files /\ byHand \subseteq Files
  /\ pc \in {"idle", "copying"} \cup Guarded \cup Tail

\* What was edited or shipped and not committed is dirty, and the baseline is HEAD.
Dirty ==
  /\ byHand \subseteq MainListing
  /\ scratch = None => base = None
  /\ ~CommitsAnyTime => wrote \subseteq MainListing /\ (base # None => base = head)

\* A deploy works on the changed-set it listed, which covers what is dirty.
Listed ==
  /\ pc \in Guarded \cup Tail => scratch # None /\ base # None /\ changed = ScratchListing
  /\ pc \in {"checking", "shipping"} => MainListing \subseteq changed

\* Docs alone, which need no bundle.
DocsOnly == FastPath(changed) /\ ~FrontendChanged(changed)

Bundled ==
  /\ pc = "shipping" => DocsOnly \/ scratchDist = Part(scratch, Frontend)
  /\ pc \in Tail => main = scratch /\ (DocsOnly \/ mainDist = Part(main, Frontend))
  /\ pc = "collecting" => ~DocsOnly
  /\ pc \in {"restarting granian", "restarting huey"} => static = mainDist
  /\ pc = "done" => DocsOnly \/ static = mainDist

\* What the full path has done so far.
InEffect ==
  /\ pc = "migrating" => snapshot = schema
  /\ pc \in {"backing up", "awaiting backup", "migrating",
             "restarting granian", "restarting huey"} => ~FastPath(changed)
  /\ pc \in {"collecting", "restarting granian", "restarting huey", "done"} =>
       FastPath(changed) \/ schema = Part(main, Backend)
  /\ pc \in {"restarting huey", "done"} => FastPath(changed) \/ live["granian"] = Part(main, Backend)
  /\ pc = "done" => FastPath(changed) \/ live["huey"] = Part(main, Backend)

LoopInv == Types /\ Dirty /\ Listed /\ Bundled /\ InEffect

-----------------------------------------------------------------------------
(* The steps. *)

\* The invariant holds at first.
LEMMA InitInv == Init => LoopInv
  BY DEF Init, LoopInv, Types, Dirty, Listed, Bundled, InEffect, Guarded, Tail,
         EveryFile, Part, Trees, Files, Services, MainListing, Differ

\* A step that changes neither the trees nor the commands keeps them in order.
LEMMA LoopStill ==
  ASSUME LoopInv, UNCHANGED <<trees, built, run, hist>>, Types', InEffect'
  PROVE  LoopInv'
  BY DEF LoopInv, trees, built, run, hist, Dirty, Listed, Bundled, MainListing,
         ScratchListing, DocsOnly, FastPath, FrontendChanged, Differ, Part

\* People edit and commit between commands only.
LEMMA PeopleStep ==
  ASSUME LoopInv, Commit \/ \E f \in Files, c \in Contents : EditMain(f, c) \/ EditScratch(f, c)
  PROVE  LoopInv'
<1> USE DEF LoopInv
<1>1. CASE Commit
  BY <1>1 DEF Commit, Types, Dirty, Listed, Bundled, InEffect, Guarded, Tail, MainListing, Differ, built, data, run
<1>2. ASSUME NEW f \in Files, NEW c \in Contents, EditMain(f, c) PROVE LoopInv'
  <2>1. Types'
    BY <1>2 DEF EditMain, Types, Trees, run
  <2>2. \A g \in Files : main'[g] = IF g = f THEN c ELSE main[g]
    BY <1>2 DEF EditMain, Types, Trees
  <2>3. Dirty'
    BY <1>2, <2>2 DEF EditMain, Types, Dirty, MainListing, Differ
  <2>4. QED
    BY <1>2, <2>1, <2>3 DEF EditMain, Listed, Bundled, InEffect, Guarded, Tail, run
<1>3. ASSUME NEW f \in Files, NEW c \in Contents, EditScratch(f, c) PROVE LoopInv'
  <2>1. scratch' \in Trees /\ scratch' # None
    BY <1>3 DEF EditScratch, Types, Trees
  <2>2. QED
    BY <1>3, <2>1 DEF EditScratch, Types, Dirty, Listed, Bundled, InEffect, Guarded, Tail,
                      run, data, hist, built, MainListing
<1>4. QED
  BY <1>1, <1>2, <1>3

\* createscratch and cleanscratch leave a baseline that is HEAD, or none.
LEMMA CopyStep ==
  ASSUME LoopInv, Wipe("copying") \/ Cleanscratch \/ \E tagged \in BOOLEAN : Copy(tagged)
  PROVE  LoopInv'
<1> USE DEF LoopInv
<1>1. CASE Wipe("copying") \/ Cleanscratch
  BY <1>1 DEF Wipe, Cleanscratch, Types, Dirty, Listed, Bundled, InEffect, Guarded, Tail, hist, data, MainListing
<1>2. ASSUME NEW tagged \in BOOLEAN, Copy(tagged) PROVE LoopInv'
  <2>1. main # None
    BY DEF Types
  <2>2. QED
    BY <1>2, <2>1 DEF Copy, Goto, Types, Dirty, Listed, Bundled, InEffect, Guarded, Tail, data, MainListing
<1>3. QED
  BY <1>1, <1>2

\* The deploy up to the rsync.
LEMMA CheckStep ==
  ASSUME LoopInv, StartDeploy \/ PassGuard \/ Refuse \/ CheckBattery
  PROVE  LoopInv'
<1> USE DEF LoopInv, trees, built, data, hist, MainListing, ScratchListing
<1>1. Types' /\ Dirty' /\ Listed'
  BY DEF StartDeploy, PassGuard, Refuse, CheckBattery, Idle, Goto, Types, Dirty, Listed,
         Guarded, Tail, Uncovered
<1>2. Bundled' /\ InEffect'
  BY DEF StartDeploy, PassGuard, Refuse, CheckBattery, BundleAfterCheck, Idle, Goto, Bundled, InEffect,
         Guarded, Tail, DocsOnly, Part, FastPath, FrontendChanged
<1>3. QED
  BY <1>1, <1>2

\* Whatever part of the files an rsync has written, main/ is dirty where it is
\* not as committed.
LEMMA OverwriteDirties ==
  ASSUME LoopInv, pc = "shipping", NEW files \in SUBSET Files, Overwrite(files),
         UNCHANGED <<head, scratch, base>>
  PROVE  Dirty' /\ main' \in Trees /\ wrote' \subseteq Files /\ byHand' \subseteq Files
<1> USE DEF LoopInv
<1>1. scratch \in Trees /\ base \in Trees /\ changed = Differ(scratch, base)
  BY DEF Types, Listed, Guarded, ScratchListing
<1>2. Differ(main, head) \subseteq changed
  BY DEF Listed, MainListing
<1>3. main' \in Trees /\ \A f \in Files : main'[f] = IF f \in files THEN scratch[f] ELSE main[f]
  BY <1>1 DEF Overwrite, Types, Trees
<1>4. byHand' \subseteq Differ(main, head)'
  BY <1>3 DEF Overwrite, Dirty, MainListing, Differ, Types
<1>5. ASSUME ~CommitsAnyTime, NEW f \in wrote' PROVE main'[f] # head[f]
  <2>1. f \in Files /\ base = head
    BY <1>1, <1>5 DEF Overwrite, Dirty, Types
  <2>2. CASE f \in files
    <3>1. main[f] # scratch[f] \/ main[f] # head[f]
      BY <1>5, <2>2 DEF Overwrite, Dirty, MainListing, Differ
    <3>2. main[f] # head[f] => scratch[f] # base[f]
      BY <1>1, <1>2, <2>1 DEF Differ
    <3>3. QED
      BY <1>3, <2>1, <2>2, <3>1, <3>2
  <2>3. CASE f \notin files
    BY <1>3, <1>5, <2>1, <2>3 DEF Overwrite, Dirty, MainListing, Differ
  <2>4. QED
    BY <2>2, <2>3
<1>6. QED
  BY <1>1, <1>3, <1>4, <1>5 DEF Overwrite, Types, Dirty, MainListing, Differ

\* A whole rsync leaves main/ as scratch/, a dead one ends the deploy.
LEMMA ShipStep ==
  ASSUME LoopInv, Ship \/ \E files \in SUBSET Files, bundle \in BOOLEAN : ShipPartly(files, bundle)
  PROVE  LoopInv'
<1>1. CASE Ship
  <2>1. Dirty' /\ main' \in Trees /\ wrote' \subseteq Files /\ byHand' \subseteq Files
    BY <1>1, OverwriteDirties DEF Ship
  <2>2. scratch \in Trees /\ scratch' = scratch /\ main' = scratch
    BY <1>1 DEF Ship, Overwrite, LoopInv, Types, Listed, Guarded, Trees
  <2>3. pc' \in {"backing up", "collecting", "done"}
    BY <1>1 DEF Ship, Goto, AfterShip
  <2>4. Types' /\ Listed'
    BY <1>1, <2>1, <2>2, <2>3 DEF Ship, Goto, LoopInv, Types, Listed, Guarded, Tail, data, ScratchListing, Differ
  <2>5. Bundled' /\ InEffect'
    BY <1>1, <2>2, <2>3 DEF Ship, Goto, AfterShip, LoopInv, Bundled, InEffect, Guarded, Tail, data,
                            DocsOnly, Part, FastPath, FrontendChanged
  <2>6. QED
    BY <2>1, <2>4, <2>5 DEF LoopInv
<1>2. ASSUME NEW files \in SUBSET Files, NEW bundle \in BOOLEAN, ShipPartly(files, bundle) PROVE LoopInv'
  <2>1. Dirty' /\ main' \in Trees /\ wrote' \subseteq Files /\ byHand' \subseteq Files
    BY <1>2, OverwriteDirties DEF ShipPartly
  <2>2. QED
    BY <1>2, <2>1 DEF ShipPartly, Idle, LoopInv, Types, Listed, Bundled, InEffect, Guarded, Tail
<1>3. QED
  BY <1>1, <1>2

\* The tail of the deploy, with the backup it waits for.
LEMMA TailStep ==
  ASSUME LoopInv, BackUp \/ Migrate \/ Collect \/ RestartGranian \/ RestartHuey \/ Done \/ Die
  PROVE  LoopInv'
<1> USE DEF LoopInv, trees, data, hist, built, Services
<1>1. Types'
  <2>1. main \in Trees => Part(main, Backend) \in [Backend -> Contents]
    BY DEF Part, Trees, Files
  <2>2. QED
    BY <2>1 DEF BackUp, Migrate, Collect, RestartGranian, RestartHuey, Restart, Done, Die, Idle, Goto,
                Types, Guarded, Tail
<1>2. Dirty' /\ Listed'
  BY DEF BackUp, Migrate, Collect, RestartGranian, RestartHuey, Restart, Done, Die, Idle, Goto,
         Dirty, Listed, Guarded, Tail, MainListing, ScratchListing, Types
<1>3. Bundled'
  BY DEF BackUp, Migrate, Collect, RestartGranian, RestartHuey, Restart, Done, Die, Idle, Goto,
         Bundled, InEffect, Guarded, Tail, DocsOnly, Part, FastPath, FrontendChanged
<1>4. InEffect'
  BY DEF BackUp, Migrate, Collect, RestartGranian, RestartHuey, Restart, Done, Die, Idle, Goto,
         InEffect, Types, Guarded, Tail, Part, FastPath
<1>5. QED
  BY <1>1, <1>2, <1>3, <1>4

\* Backups that start and end, and services that come back.
LEMMA OthersStep ==
  ASSUME LoopInv,
         \/ \E by \in {"unit", "hand"} : BackupStarts(by)
         \/ \E ok \in BOOLEAN : BackupEnds(ok)
         \/ \E s \in Services : Respawn(s)
  PROVE  LoopInv'
<1> USE DEF LoopInv
<1>1. ASSUME NEW by \in {"unit", "hand"}, BackupStarts(by) PROVE LoopInv'
  BY <1>1, LoopStill DEF BackupStarts, run, trees, hist, Types, InEffect, FastPath, Part
<1>2. ASSUME NEW ok \in BOOLEAN, BackupEnds(ok) PROVE LoopInv'
  BY <1>2 DEF BackupEnds, Goto, Idle, run, trees, hist, built, Types, Dirty, Listed, Bundled, InEffect,
              Guarded, Tail, MainListing, ScratchListing, DocsOnly, FastPath, FrontendChanged, Part
<1>3. ASSUME NEW s \in Services, Respawn(s) PROVE LoopInv'
  <2>1. Part(main, Backend) \in [Backend -> Contents]
    BY DEF Types, Part, Trees, Files
  <2>2. live' \in [Services -> [Backend -> Contents]]
        /\ \A t \in Services : live'[t] = IF t = s THEN Part(main, Backend) ELSE live[t]
    BY <1>3, <2>1 DEF Respawn, Restart, Types
  <2>3. Types'
    BY <1>3, <2>2 DEF Respawn, run, trees, hist, Types
  <2>4. InEffect'
    BY <1>3, <2>2 DEF Respawn, run, trees, data, InEffect, FastPath, Part, Services
  <2>5. QED
    BY <1>3, <2>3, <2>4, LoopStill DEF Respawn
<1>4. QED
  BY <1>1, <1>2, <1>3

\* LoopInv is inductive.
THEOREM LoopInvariant == Spec => []LoopInv
<1>1. LoopInv /\ UNCHANGED vars => LoopInv'
  BY LoopStill DEF vars, data, LoopInv, Types, InEffect, trees, run, hist, FastPath, Part
<1>2. LoopInv /\ [Next]_vars => LoopInv'
  BY <1>1, PeopleStep, CopyStep, CheckStep, ShipStep, TailStep, OthersStep DEF Next
<1>3. QED
  BY InitInv, <1>2, PTL DEF Spec

-----------------------------------------------------------------------------
(* What it gives. *)

\* scratch.py:797-839: where nothing is committed beside a scratch tree, the
\* deploy that completes leaves all that it and the deploys that died before it
\* shipped migrated, collected and running, whether or not it took the fast path.
THEOREM DeploysTakeEffect == ASSUME ~CommitsAnyTime PROVE Spec => []DeployTakesEffect
<1>1. LoopInv => DeployTakesEffect
  <2> SUFFICES ASSUME LoopInv, pc = "done" PROVE
        /\ \A f \in wrote \cap Backend : schema[f] = main[f] /\ \A s \in Services : live[s][f] = main[f]
        /\ \A f \in wrote \cap Frontend : static[f] = main[f]
    BY DEF DeployTakesEffect
  <2>1. wrote \subseteq changed
    BY DEF LoopInv, Dirty, Listed, Bundled, Tail, MainListing, ScratchListing
  <2>2. FastPath(changed) => wrote \cap Backend = {}
    BY <2>1 DEF FastPath
  <2>3. DocsOnly => wrote \cap (Frontend \cup Backend) = {}
    BY <2>1 DEF DocsOnly, FastPath, FrontendChanged
  <2>4. \A f \in wrote \cap Backend : schema[f] = main[f] /\ \A s \in Services : live[s][f] = main[f]
    BY <2>2 DEF LoopInv, InEffect, Part, Services
  <2>5. \A f \in wrote \cap Frontend : static[f] = main[f]
    BY <2>3 DEF LoopInv, Bundled, Tail, Part
  <2>6. QED
    BY <2>4, <2>5
<1>2. QED
  BY <1>1, LoopInvariant, PTL

\* scratch.py:801-805: however the deploy's backup and the timer's meet, no
\* migrate runs without a backup of the schema it starts from.
THEOREM MigratesHaveASnapshot == Spec => []SafetyCopy
<1>1. LoopInv => SafetyCopy
  BY DEF LoopInv, InEffect, SafetyCopy
<1>2. QED
  BY <1>1, LoopInvariant, PTL

\* scratch.py:703-723: no rsync, whole or cut short, overwrites a hand edit of
\* main/ that scratch/ does not carry, for any number of files, dead deploys
\* and edits.
THEOREM GuardKeepsEdits == Spec => NoEditLost
<1> DEFINE Keeps == pc = "shipping" /\ pc' # pc => \A f \in byHand \ Carried : main'[f] = main[f]
<1>1. ASSUME LoopInv, [Next]_vars PROVE Keeps
  <2> SUFFICES ASSUME pc = "shipping" PROVE byHand \subseteq Carried
    OBVIOUS
  <2>1. byHand \subseteq changed /\ scratch # None /\ base # None /\ changed = ScratchListing
    BY <1>1 DEF LoopInv, Dirty, Listed, Guarded
  <2>2. QED
    BY <2>1 DEF Carried, ScratchListing
<1>2. LoopInv /\ [Next]_vars => [Keeps]_vars
  BY <1>1
<1>3. QED
  BY <1>2, LoopInvariant, PTL DEF Spec, NoEditLost

=============================================================================
