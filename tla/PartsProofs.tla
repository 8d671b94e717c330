---------------------------- MODULE PartsProofs ----------------------------
(***************************************************************************)
(* Proofs about the parts that share no state, for every value of their     *)
(* constants. A step of Parts is a step of one part and leaves the others   *)
(* as they were: each invariant is about one part.                          *)
(***************************************************************************)
EXTENDS Parts, Integers, Sequences, SequencesExt, TLAPS

-----------------------------------------------------------------------------
(* A step of Parts, seen from one part *)

LEMMA ListMoves == ASSUME [Next]_partsVars PROVE [N!Next]_(N!listVars)
  BY DEF Next, Step, partsVars, listState, N!listVars

LEMMA FactsMove == ASSUME [Next]_partsVars PROVE [F!Next]_(F!factsVars)
  BY DEF Next, Step, partsVars, factsState, F!factsVars

LEMMA DownloadsMove == ASSUME [Next]_partsVars PROVE [D!Next]_(D!downloadVars)
  BY DEF Next, Step, partsVars, downloadState, D!downloadVars

LEMMA TodosMove == ASSUME [Next]_partsVars PROVE [T!Next]_(T!todoVars)
  BY DEF Next, Step, partsVars, todoState, T!todoVars

LEMMA KeptMoves == ASSUME [Next]_partsVars PROVE [K!Next]_(K!keptVars)
  BY DEF Next, Step, partsVars, keptState, K!keptVars

LEMMA ErrorsMove == ASSUME [Next]_partsVars PROVE [E!Next]_(E!errorVars)
  BY DEF Next, Step, partsVars, errorState, E!errorVars

LEMMA RepoMoves == ASSUME [Next]_partsVars PROVE [R!Next]_(R!repoVars)
  BY DEF Next, Step, partsVars, repoState, R!repoVars

LEMMA SdkMoves == ASSUME [Next]_partsVars PROVE [S!Next]_(S!sdkVars)
  BY DEF Next, Step, partsVars, sdkState, S!sdkVars

LEMMA AssetsMove == ASSUME [Next]_partsVars PROVE [A!Next]_(A!assetVars)
  BY DEF Next, Step, partsVars, assetState, A!assetVars

-----------------------------------------------------------------------------
(* PageAssets *)

Builds == Nat \ {0}

Thread == [named : SUBSET Nat, left : Int, at : {"stat", "read", "store"}, mtime : Nat,
           read : Nat, calm : BOOLEAN]

\* Between deploys /static/ is of the tree's build.
Collected == deploy = None => static = manifest

\* The mtime was taken before the read, and builds only go up: what is stored
\* under a build's mtime is of that build or of a later one.
CacheLags ==
  cached # None =>
    /\ cached \in [mtime : Builds, build : Builds]
    /\ manifest # None /\ cached.mtime <= cached.build /\ cached.build <= manifest

\* So far a render that no deploy has crossed names the tree's build only.
ThreadOK(p) ==
  /\ p \in Thread
  /\ p.at \in {"read", "store"} => manifest # None /\ 0 < p.mtime /\ p.mtime <= manifest
  /\ p.at = "store" => p.mtime <= p.read /\ p.read <= manifest
  /\ p.calm => /\ deploy = None
               /\ p.at = "store" => p.read = manifest
               /\ p.named \subseteq {IF manifest = None THEN A!Plain ELSE manifest}

AssetInv ==
  /\ manifest \in Builds \cup {None}
  /\ render = [r \in Renders |-> render[r]]
  /\ Collected
  /\ CacheLags
  /\ \A r \in Renders : render[r] # None => ThreadOK(render[r])

-----------------------------------------------------------------------------
\* A step of one thread that leaves the deploy and the cache alone.
LEMMA ThreadStep ==
  ASSUME AssetInv, NEW r \in Renders, NEW p, p = None \/ ThreadOK(p),
         render' = [render EXCEPT ![r] = p], UNCHANGED <<manifest, static, deploy>>, CacheLags'
  PROVE  AssetInv'
<1>1. ASSUME NEW q \in Renders, render'[q] # None PROVE ThreadOK(render[q])'
  <2>1. CASE q = r
    BY <1>1, <2>1 DEF AssetInv, ThreadOK
  <2>2. CASE q # r
    BY <1>1, <2>2 DEF AssetInv, ThreadOK
  <2>3. QED
    BY <2>1, <2>2
<1>2. QED
  BY <1>1 DEF AssetInv, Collected

\* A step of the deploy leaves no render calm.
LEMMA DeployStep ==
  ASSUME AssetInv, A!Disturb, UNCHANGED cached, manifest' \in Builds \cup {None}, Collected',
         manifest # None => manifest' # None /\ manifest <= manifest'
  PROVE  AssetInv'
<1>1. CacheLags'
  BY DEF AssetInv, CacheLags, Builds
<1>2. ASSUME NEW r \in Renders, render'[r] # None PROVE ThreadOK(render[r])'
  <2>1. render[r] # None /\ render'[r] = [render[r] EXCEPT !.calm = FALSE]
    BY <1>2 DEF A!Disturb
  <2>2. ThreadOK(render[r])
    BY <2>1 DEF AssetInv
  <2>3. QED
    <3>1. /\ render'[r] \in Thread /\ render'[r].calm = FALSE
          /\ render'[r].at = render[r].at /\ render'[r].mtime = render[r].mtime
          /\ render'[r].read = render[r].read
      BY <2>1, <2>2 DEF ThreadOK, Thread
    <3>2. QED
      BY <2>2, <3>1 DEF ThreadOK, Thread, AssetInv, Builds
<1>3. render' = [r \in Renders |-> render'[r]]
  BY DEF A!Disturb
<1>4. QED
  BY <1>1, <1>2, <1>3 DEF AssetInv

\* What a look-up adds to a render.
LEMMA Naming ==
  ASSUME NEW p \in Thread, NEW build \in Nat
  PROVE  /\ A!Named(p, build) \in Thread
         /\ A!Named(p, build).named = p.named \cup {build}
         /\ A!Named(p, build).at = "stat"
         /\ A!Named(p, build).calm = p.calm
<1>1. p.named \cup {build} \in SUBSET Nat /\ p.left - 1 \in Int
  BY DEF Thread
<1>2. [p EXCEPT !.named = p.named \cup {build}, !.left = p.left - 1, !.at = "stat"] \in Thread
  BY <1>1 DEF Thread
<1>3. QED
  BY <1>2 DEF A!Named, Thread

\* Every step keeps the invariant.
LEMMA AssetStep ==
  ASSUME AssetInv, [A!Next]_(A!assetVars)
  PROVE  AssetInv'
<1> USE AssetAssumption DEF Builds, A!Plain
<1>1. ASSUME NEW build \in 1..MaxBuilds, A!Rsync(build) PROVE AssetInv'
  <2>1. build \in Builds /\ manifest' = build /\ (manifest # None => manifest <= build)
    BY <1>1 DEF A!Rsync, AssetInv
  <2>2. Collected'
    BY <1>1 DEF A!Rsync, Collected
  <2>3. QED
    BY <1>1, <2>1, <2>2, DeployStep DEF A!Rsync
<1>2. CASE A!Clear
  BY <1>2, DeployStep DEF A!Clear, Collected, AssetInv
<1>3. CASE A!Collect
  BY <1>3, DeployStep DEF A!Collect, Collected, AssetInv
<1>4. CASE A!Restart
  BY <1>4 DEF A!Restart, AssetInv, Collected, CacheLags
<1>5. ASSUME NEW r \in Renders, A!Begin(r) PROVE AssetInv'
  <2> DEFINE p == [named |-> {}, left |-> A!Filters, at |-> "stat", mtime |-> 0, read |-> A!Plain,
                   calm |-> deploy = None]
  <2>1. ThreadOK(p)
    <3>1. (deploy = None) \in BOOLEAN
      OBVIOUS
    <3>2. p \in Thread
      BY <3>1 DEF Thread, A!Filters
    <3>3. QED
      BY <3>2 DEF ThreadOK
  <2>2. CacheLags'
    BY <1>5 DEF A!Begin, AssetInv, CacheLags
  <2>3. render' = [render EXCEPT ![r] = p] /\ UNCHANGED <<manifest, static, deploy>>
    BY <1>5 DEF A!Begin
  <2> HIDE DEF p
  <2>4. QED
    BY <2>1, <2>2, <2>3, ThreadStep
<1>6. ASSUME NEW r \in Renders, A!Stat(r) PROVE AssetInv'
  <2>1. ThreadOK(render[r]) /\ render[r].at = "stat" /\ render[r] \in Thread
    BY <1>6 DEF A!Stat, AssetInv, ThreadOK
  <2>2. PICK p : /\ render' = [render EXCEPT ![r] = p]
                 /\ p = IF manifest = None THEN A!Named(render[r], A!Plain)
                        ELSE IF cached # None /\ cached.mtime = manifest
                             THEN A!Named(render[r], cached.build)
                        ELSE [render[r] EXCEPT !.at = "read", !.mtime = manifest]
    BY <1>6 DEF A!Stat
  <2>3. ThreadOK(p)
    <3>1. CASE manifest = None
      BY <2>1, <2>2, <3>1, Naming DEF ThreadOK
    <3>2. CASE manifest # None /\ cached # None /\ cached.mtime = manifest
      <4>1. cached.build = manifest /\ manifest \in Nat
        BY <3>2 DEF AssetInv, CacheLags
      <4>2. p = A!Named(render[r], manifest)
        BY <2>2, <3>2, <4>1
      <4>3. QED
        BY <2>1, <3>2, <4>1, <4>2, Naming DEF ThreadOK
    <3>3. CASE manifest # None /\ ~(cached # None /\ cached.mtime = manifest)
      <4>1. p = [render[r] EXCEPT !.at = "read", !.mtime = manifest] /\ manifest \in Builds
        BY <2>2, <3>3 DEF AssetInv
      <4>2. QED
        <5>1. /\ p \in Thread /\ p.at = "read" /\ p.mtime = manifest
              /\ p.named = render[r].named /\ p.calm = render[r].calm
          BY <2>1, <4>1 DEF Thread
        <5>2. QED
          BY <2>1, <3>3, <4>1, <5>1 DEF ThreadOK
    <3>4. QED
      BY <3>1, <3>2, <3>3
  <2>4. CacheLags' /\ UNCHANGED <<manifest, static, deploy>>
    BY <1>6 DEF A!Stat, AssetInv, CacheLags
  <2>5. QED
    BY <2>2, <2>3, <2>4, ThreadStep
<1>7. ASSUME NEW r \in Renders, A!ReadManifest(r) PROVE AssetInv'
  <2> DEFINE p == [render[r] EXCEPT !.at = "store", !.read = manifest]
  <2>1. ThreadOK(render[r]) /\ render[r].at = "read" /\ manifest \in Builds
    BY <1>7 DEF A!ReadManifest, AssetInv, ThreadOK
  <2>2. ThreadOK(p)
    <3>1. /\ p \in Thread /\ p.at = "store" /\ p.read = manifest /\ p.mtime = render[r].mtime
          /\ p.named = render[r].named /\ p.calm = render[r].calm
      BY <2>1 DEF ThreadOK, Thread
    <3>2. QED
      BY <2>1, <3>1 DEF ThreadOK, Thread
  <2>3. CacheLags' /\ UNCHANGED <<manifest, static, deploy>>
    BY <1>7 DEF A!ReadManifest, AssetInv, CacheLags
  <2>4. render' = [render EXCEPT ![r] = p]
    BY <1>7 DEF A!ReadManifest
  <2> HIDE DEF p
  <2>5. QED
    BY <2>2, <2>3, <2>4, ThreadStep
<1>8. ASSUME NEW r \in Renders, A!Store(r) PROVE AssetInv'
  <2> DEFINE p == A!Named(render[r], render[r].read)
  <2>1. ThreadOK(render[r]) /\ render[r].at = "store" /\ manifest \in Builds
    BY <1>8 DEF A!Store, AssetInv, ThreadOK
  <2>2. ThreadOK(p)
    <3>1. render[r] \in Thread /\ render[r].read \in Nat
      BY <2>1 DEF ThreadOK, Thread
    <3>2. /\ p \in Thread /\ p.at = "stat" /\ p.calm = render[r].calm
          /\ p.named = render[r].named \cup {render[r].read}
      BY <3>1, Naming
    <3>3. QED
      BY <2>1, <3>1, <3>2 DEF ThreadOK
  <2>3. UNCHANGED <<manifest, static, deploy>> /\ cached' = [mtime |-> render[r].mtime, build |-> render[r].read]
    BY <1>8 DEF A!Store, A!Stored
  <2>4. CacheLags'
    BY <2>1, <2>3 DEF CacheLags, ThreadOK, Thread
  <2>5. render' = [render EXCEPT ![r] = p]
    BY <1>8 DEF A!Store
  <2> HIDE DEF p
  <2>6. QED
    BY <2>2, <2>3, <2>4, <2>5, ThreadStep
<1>9. ASSUME NEW r \in Renders, A!Finish(r) PROVE AssetInv'
  <2>1. CacheLags'
    BY <1>9 DEF A!Finish, AssetInv, CacheLags
  <2>2. QED
    BY <1>9, <2>1, ThreadStep DEF A!Finish
<1>10. CASE UNCHANGED A!assetVars
  BY <1>10 DEF A!assetVars, AssetInv, Collected, CacheLags, ThreadOK
<1>11. QED
  BY <1>1, <1>2, <1>3, <1>4, <1>5, <1>6, <1>7, <1>8, <1>9, <1>10 DEF A!Next

\* Once a deploy is through, every page loads, however the threads that share
\* the cache (_manifest_cache, app_static.py) met its steps.
THEOREM PagesLoadAlways == Spec => []PagesLoad
<1>1. Init => AssetInv
  BY DEF Init, A!Init, AssetInv, Collected, CacheLags
<1>2. AssetInv /\ [Next]_partsVars => AssetInv'
  BY AssetStep, AssetsMove
<1>3. AssetInv => PagesLoad
  BY DEF AssetInv, ThreadOK, Collected, PagesLoad, A!PagesLoad
<1>4. QED
  BY <1>1, <1>2, <1>3, PTL DEF Spec

-----------------------------------------------------------------------------
(* KeptDatabase *)

Run == [full : BOOLEAN, keep : BOOLEAN, at : {"setup", "tests", "mark"}]

\* A run that makes the database anew has one that the marker does not know,
\* until it is dropped.
MakingAnew == suite # None /\ ~suite.keep /\ suite.at = "tests"

KeptInv ==
  /\ tree \in K!Trees
  /\ suite # None => suite \in Run
  /\ disturbed \in BOOLEAN
  /\ suite # None /\ ~suite.keep /\ suite.at = "mark" => database = None
  /\ ~disturbed =>
       /\ suite # None /\ suite.keep => marker = tree
       /\ suite # None /\ suite.keep /\ suite.at # "setup" => database = tree
       /\ MakingAnew \/ database = None \/ database = marker

\* What has been applied already is applied.
LEMMA Reapplying == ASSUME tree \in K!Trees PROVE K!Migrated(tree) = tree
<1>1. PICK named \in SUBSET Names : tree \in [named -> Contents]
  BY DEF K!Trees
<1>2. K!Migrated(tree) = [n \in named |-> tree[n]]
  BY <1>1 DEF K!Migrated
<1>3. QED
  BY <1>1, <1>2

\* Every step keeps the invariant.
LEMMA KeptStep == ASSUME KeptInv, [K!Next]_(K!keptVars) PROVE KeptInv'
<1> USE KeptAssumption DEF KeptInv, MakingAnew
<1>1. ASSUME NEW t \in K!Trees, K!Edit(t) PROVE KeptInv'
  BY <1>1 DEF K!Edit, Run
<1>2. ASSUME NEW full \in BOOLEAN, K!StartSuite(full) PROVE KeptInv'
  <2>1. PICK keep \in BOOLEAN : keep <=> ~full /\ K!Hint
    OBVIOUS
  <2>2. suite' = [full |-> full, keep |-> ~full /\ K!Hint, at |-> "setup"]
    BY <1>2 DEF K!StartSuite
  <2>3. suite' \in Run /\ (suite'.keep => marker = tree) /\ suite'.at = "setup"
    BY <2>2, Zenon DEF Run, K!Hint
  <2>4. QED
    BY <1>2, <2>3 DEF K!StartSuite
<1>3. CASE K!SetUp
  <2>1. suite \in Run /\ suite' = [suite EXCEPT !.at = "tests"]
    BY <1>3 DEF K!SetUp
  <2>2. suite' \in Run /\ suite'.at = "tests" /\ suite'.keep = suite.keep
    BY <2>1 DEF Run
  <2>3. ~disturbed /\ suite.keep => database' = tree
    <3>1. CASE ~disturbed /\ suite.keep /\ database # None
      <4>1. suite # None /\ suite.at = "setup"
        BY <1>3 DEF K!SetUp
      <4>2. marker = tree /\ database = marker
        BY <3>1, <4>1
      <4>3. database' = K!Migrated(database)
        BY <1>3, <3>1 DEF K!SetUp
      <4>4. QED
        BY <4>2, <4>3, Reapplying
    <3>2. CASE database = None
      BY <1>3, <3>2 DEF K!SetUp
    <3>3. QED
      BY <3>1, <3>2
  <2>4. UNCHANGED <<tree, marker, disturbed>> /\ suite # None
    BY <1>3 DEF K!SetUp
  <2>5. ~disturbed' /\ suite'.keep => marker' = tree' /\ database' = tree'
    BY <2>2, <2>3, <2>4
  <2>6. QED
    BY <2>2, <2>4, <2>5 DEF Run
<1>4. ASSUME NEW passed \in BOOLEAN, K!TearDown(passed) PROVE KeptInv'
  <2>1. suite \in Run /\ suite.at = "tests" /\ suite # None
    BY <1>4 DEF K!TearDown
  <2>2. suite' = None \/ (suite' \in Run /\ suite'.at = "mark" /\ suite'.keep = suite.keep)
    BY <1>4, <2>1 DEF K!TearDown, Run
  <2>3. disturbed' \in BOOLEAN /\ (~disturbed' => ~disturbed \/ ~suite.keep)
    BY <1>4, <2>1 DEF K!TearDown, Run
  <2>4. QED
    BY <1>4, <2>1, <2>2, <2>3 DEF K!TearDown
<1>5. CASE K!WriteMarker
  BY <1>5 DEF K!WriteMarker, Run
<1>6. CASE K!Kill
  BY <1>6 DEF K!Kill, Run
<1>7. CASE UNCHANGED K!keptVars
  BY <1>7 DEF K!keptVars, Run
<1>8. QED
  BY <1>1, <1>2, <1>3, <1>4, <1>5, <1>6, <1>7 DEF K!Next

\* Whatever is edited and whichever runs fail, tests run on a database of the
\* migrations at hand (_keepdb_hint, _write_keepdb_marker, ops/testsuite.py).
THEOREM KeptDatabaseIsTheTree == Spec => []TestsRunOnTheirSchema
<1>1. Init => KeptInv
  <2>1. [n \in {} |-> None] \in K!Trees
    <3>1. [n \in {} |-> None] \in [{} -> Contents]
      OBVIOUS
    <3>2. QED
      BY <3>1 DEF K!Trees
  <2>2. QED
    BY <2>1 DEF Init, K!Init, KeptInv, MakingAnew
<1>2. KeptInv /\ [Next]_partsVars => KeptInv'
  BY KeptStep, KeptMoves
<1>3. KeptInv => TestsRunOnTheirSchema
  BY DEF KeptInv, TestsRunOnTheirSchema, K!TestsRunOnTheirSchema
<1>4. QED
  BY <1>1, <1>2, <1>3, PTL DEF Spec

-----------------------------------------------------------------------------
(* ClientErrors *)

\* The counter's end is fixed by its first report, and Redis drops it then.
BucketInv ==
  /\ second \in Nat
  /\ bucket # None =>
       /\ bucket \in [hits : Nat, first : Nat, ends : Nat]
       /\ bucket.ends = bucket.first + WindowSecs
       /\ second < bucket.ends

\* What the slot holds has not been answered.
SlotInv ==
  /\ post = [e \in Errors |-> post[e]]
  /\ slot # None => slot \in Errors /\ post[slot] # "answered"
  /\ late = {}

\* A report keeps the counter's end, or starts the counter.
LEMMA Counting ==
  ASSUME BucketInv, bucket' = E!Hit(bucket), second' = second
  PROVE  BucketInv'
<1> USE ErrorAssumption DEF BucketInv
<1>1. CASE bucket = None
  BY <1>1 DEF E!Hit, E!Ends
<1>2. CASE bucket # None
  BY <1>2 DEF E!Hit, E!Ends
<1>3. QED
  BY <1>1, <1>2

\* Nobody is shut out for longer than the window (_rate_limited,
\* client_errors.py).
THEOREM WindowEnds == Spec => []WindowKeepsItsEnd
<1>1. Init => BucketInv
  BY DEF Init, E!Init, BucketInv
<1>2. ASSUME BucketInv, [Next]_partsVars PROVE BucketInv'
  <2>0. [E!Next]_(E!errorVars)
    BY <1>2, ErrorsMove
  <2>1. CASE E!Tick
    BY <1>2, <2>1 DEF E!Tick, BucketInv
  <2>2. CASE E!Stranger \/ E!Hide
    BY <1>2, <2>2, Counting DEF E!Stranger, E!Hide
  <2>3. ASSUME NEW e \in Errors, E!Submit(e) PROVE BucketInv'
    BY <1>2, <2>3, Counting DEF E!Submit
  <2>4. ASSUME NEW e \in Errors, E!Report(e) \/ E!Answer(e) \/ E!Fail(e) PROVE BucketInv'
    BY <1>2, <2>4 DEF E!Report, E!Answer, E!Fail, BucketInv
  <2>5. CASE UNCHANGED E!errorVars
    BY <1>2, <2>5 DEF E!errorVars, BucketInv
  <2>6. QED
    BY <2>0, <2>1, <2>2, <2>3, <2>4, <2>5 DEF E!Next
<1>3. BucketInv => WindowKeepsItsEnd
  BY DEF BucketInv, WindowKeepsItsEnd, E!WindowKeepsItsEnd
<1>4. QED
  BY <1>1, <1>2, <1>3, PTL DEF Spec

\* An error that the server has acknowledged is not sent again, whichever of
\* several answers comes first (reportClientError, wirePageHide, clientError.ts).
THEOREM AnswersEndIt == Spec => []AnsweredNotResent
<1>1. Init => SlotInv
  BY DEF Init, E!Init, SlotInv
<1>2. ASSUME SlotInv, [Next]_partsVars PROVE SlotInv'
  <2>0. [E!Next]_(E!errorVars)
    BY <1>2, ErrorsMove
  <2> USE <1>2 DEF SlotInv
  <2>1. CASE E!Tick \/ E!Stranger
    BY <2>1 DEF E!Tick, E!Stranger
  <2>2. CASE E!Hide
    BY <2>2 DEF E!Hide
  <2>3. ASSUME NEW e \in Errors, E!Report(e) PROVE SlotInv'
    BY <2>3 DEF E!Report
  <2>4. ASSUME NEW e \in Errors, E!Submit(e) PROVE SlotInv'
    BY <2>4 DEF E!Submit
  <2>5. ASSUME NEW e \in Errors, E!Answer(e) PROVE SlotInv'
    BY <2>5 DEF E!Answer, E!SlotAfter
  <2>6. ASSUME NEW e \in Errors, E!Fail(e) PROVE SlotInv'
    BY <2>6 DEF E!Fail
  <2>7. CASE UNCHANGED E!errorVars
    BY <2>7 DEF E!errorVars
  <2>8. QED
    BY <2>0, <2>1, <2>2, <2>3, <2>4, <2>5, <2>6, <2>7 DEF E!Next
<1>3. SlotInv => AnsweredNotResent
  BY DEF AnsweredNotResent, SlotInv, E!AnsweredNotResent
<1>4. QED
  BY <1>1, <1>2, <1>3, PTL DEF Spec

-----------------------------------------------------------------------------
(* Todos *)

Request == [id : 1..MaxTodos, at : {"save", "record", "commit", "committed"}]

\* A request between its commit and its push holds a todo that is stored, and
\* todos and notifications are stored together.
TodoInv ==
  /\ creating \in [Creators -> Request \cup {None}]
  /\ notes = todos
  /\ told \subseteq notes
  /\ \A r \in Creators :
       creating[r] # None /\ creating[r].at = "committed" => creating[r].id \in notes

\* What every step of one request needs.
LEMMA RequestStep ==
  ASSUME TodoInv, NEW r \in Creators, NEW v \in Request \cup {None},
         creating' = [creating EXCEPT ![r] = v],
         notes' = todos', told' \subseteq notes', notes \subseteq notes',
         v # None /\ v.at = "committed" => v.id \in notes'
  PROVE  TodoInv'
<1>1. ASSUME NEW q \in Creators, creating'[q] # None, creating'[q].at = "committed"
      PROVE  creating'[q].id \in notes'
  BY <1>1 DEF TodoInv
<1>2. creating' \in [Creators -> Request \cup {None}]
  BY DEF TodoInv
<1>3. QED
  BY <1>1, <1>2 DEF TodoInv

\* A request's todo that has got as far as at.
LEMMA GettingTo ==
  ASSUME NEW v \in Request, NEW at \in {"save", "record", "commit", "committed"}
  PROVE  LET w == [v EXCEPT !.at = at] IN w \in Request /\ w.at = at /\ w.id = v.id
  BY DEF Request

LEMMA TodoStep == ASSUME TodoInv, [T!Next]_(T!todoVars) PROVE TodoInv'
<1>1. ASSUME NEW r \in Creators, NEW id \in 1..MaxTodos, T!BeginTodo(r, id) PROVE TodoInv'
  <2> DEFINE v == [id |-> id, at |-> "save"]
  <2>1. v \in Request /\ v.at # "committed" /\ creating' = [creating EXCEPT ![r] = v]
    BY <1>1 DEF T!BeginTodo, Request
  <2>2. UNCHANGED <<todos, notes, told>> /\ notes = todos /\ told \subseteq notes
    BY <1>1 DEF T!BeginTodo, TodoInv
  <2> HIDE DEF v
  <2>3. QED
    BY <2>1, <2>2, RequestStep
<1>2. ASSUME NEW r \in Creators,
             T!SaveTodo(r) \/ T!Record(r) \/ T!CommitTodo(r) \/ T!PushTodo(r) \/ T!FailTodo(r)
      PROVE  TodoInv'
  <2>1. creating[r] \in Request /\ notes = todos /\ told \subseteq notes
    BY <1>2 DEF TodoInv, T!SaveTodo, T!Record, T!CommitTodo, T!PushTodo, T!FailTodo
  <2>2. CASE T!SaveTodo(r) \/ T!Record(r)
    <3>1. PICK at \in {"record", "commit"} :
            creating' = [creating EXCEPT ![r] = [creating[r] EXCEPT !.at = at]]
      BY <2>2 DEF T!SaveTodo, T!Record
    <3>2. UNCHANGED <<todos, notes, told>>
      BY <2>2 DEF T!SaveTodo, T!Record
    <3>3. QED
      BY <2>1, <3>1, <3>2, GettingTo, RequestStep
  <2>3. CASE T!CommitTodo(r)
    <3>1. creating' = [creating EXCEPT ![r] = [creating[r] EXCEPT !.at = "committed"]]
      BY <2>3 DEF T!CommitTodo
    <3>2. /\ notes' = notes \cup {creating[r].id} /\ todos' = todos \cup {creating[r].id}
          /\ told' = told
      BY <2>3 DEF T!CommitTodo
    <3>3. PICK v \in Request : v = [creating[r] EXCEPT !.at = "committed"] /\ v.id = creating[r].id
      BY <2>1, GettingTo
    <3>4. v \in Request \cup {None} /\ creating' = [creating EXCEPT ![r] = v]
      BY <3>1, <3>3
    <3>5. told' \subseteq notes' /\ notes \subseteq notes' /\ notes' = todos' /\ v.id \in notes'
      BY <2>1, <3>2, <3>3
    <3>6. QED
      BY <3>4, <3>5, RequestStep
  <2>4. CASE T!PushTodo(r)
    BY <2>1, <2>4, RequestStep DEF T!PushTodo, TodoInv
  <2>5. CASE T!FailTodo(r)
    BY <2>1, <2>5, RequestStep DEF T!FailTodo
  <2>6. QED
    BY <1>2, <2>2, <2>3, <2>4, <2>5
<1>3. CASE UNCHANGED T!todoVars
  BY <1>3 DEF T!todoVars, TodoInv
<1>4. QED
  BY <1>1, <1>2, <1>3 DEF T!Next

\* Whichever statement a request fails at, nobody is told of a todo that is not
\* stored, and none is stored without its notification (create_todo, todos.py).
THEOREM TodosAreTold == Spec => []ToldOnlyOfTodos
<1>1. Init => TodoInv
  BY DEF Init, T!Init, TodoInv
<1>2. TodoInv /\ [Next]_partsVars => TodoInv'
  BY TodoStep, TodosMove
<1>3. TodoInv => ToldOnlyOfTodos
  BY DEF TodoInv, ToldOnlyOfTodos, T!ToldOnlyOfTodos
<1>4. QED
  BY <1>1, <1>2, <1>3, PTL DEF Spec

-----------------------------------------------------------------------------
(* Downloads *)

Row == [id : Nat, made : Nat, expires : Nat]

\* A later row than the sweep's is none of those it owes, and what it still
\* owes is on its list.
SweepInv ==
  sweep # None =>
    /\ sweep \in [left : SUBSET Row, due : SUBSET Row]
    /\ \A d \in sweep.left : d.expires <= clock
    /\ \A d \in sweep.due : d.id <= uploads
    /\ sweep.due \cap downloads \subseteq sweep.left

DownloadInv ==
  /\ clock \in Nat /\ uploads \in Nat
  /\ downloads \subseteq Row
  /\ \A d \in downloads : d.id <= uploads
  /\ SweepInv

LEMMA DownloadStep == ASSUME DownloadInv, [D!Next]_(D!downloadVars) PROVE DownloadInv'
<1> USE DEF DownloadInv, SweepInv
<1>1. CASE D!Tick
  BY <1>1 DEF D!Tick, Row
<1>2. CASE D!Upload
  <2>1. PICK t \in D!Expiries :
          downloads' = downloads \cup {[id |-> uploads', made |-> clock, expires |-> t]}
    BY <1>2 DEF D!Upload
  <2>2. t \in Nat
    BY DownloadAssumption DEF D!Expiries
  <2>3. uploads' = uploads + 1 /\ UNCHANGED <<clock, sweep>>
    BY <1>2 DEF D!Upload
  <2>4. downloads' \subseteq Row /\ \A d \in downloads' : d.id <= uploads'
    BY <2>1, <2>2, <2>3 DEF Row
  <2>5. SweepInv'
    BY <2>1, <2>3 DEF Row
  <2>6. QED
    BY <2>3, <2>4, <2>5
<1>3. ASSUME NEW d \in downloads, D!Find(d) PROVE DownloadInv'
  BY <1>3 DEF D!Find
<1>4. CASE D!Delete
  BY <1>4 DEF D!Delete
<1>5. CASE D!SweepBegin
  <2>1. sweep' = [left |-> {d \in downloads : D!Due(d)}, due |-> {d \in downloads : D!IsExpired(d)}]
    BY <1>5 DEF D!SweepBegin
  <2>2. \A d \in downloads : D!IsExpired(d) <=> D!Due(d)
    BY DEF D!IsExpired, D!Due, Row
  <2>3. SweepInv'
    BY <1>5, <2>1, <2>2 DEF D!SweepBegin, D!Due
  <2>4. QED
    BY <1>5, <2>3 DEF D!SweepBegin
<1>6. CASE D!SweepNext
  <2>1. PICK d \in sweep.left :
          IF d \in downloads
          THEN downloads' = downloads \ {d} /\ sweep' = [sweep EXCEPT !.left = @ \ {d}]
          ELSE sweep' = None /\ UNCHANGED downloads
    BY <1>6 DEF D!SweepNext
  <2>2. QED
    BY <1>6, <2>1 DEF D!SweepNext
<1>7. CASE D!SweepEnd \/ D!SweepDie
  BY <1>7 DEF D!SweepEnd, D!SweepDie
<1>8. CASE UNCHANGED D!downloadVars
  BY <1>8 DEF D!downloadVars
<1>9. QED
  BY <1>1, <1>2, <1>3, <1>4, <1>5, <1>6, <1>7, <1>8 DEF D!Next

\* Whatever admins delete under the sweep's feet, it takes no row that the gate
\* still serves, and at its end none is left of those it owed (delete_expired,
\* serve_download, downloads.py).
THEOREM LinksLiveTheirTime == Spec => ExpiryKept
<1>1. Init => DownloadInv
  BY DEF Init, D!Init, DownloadInv, SweepInv
<1>2. DownloadInv /\ [Next]_partsVars => DownloadInv'
  BY DownloadStep, DownloadsMove
<1>3. ASSUME DownloadInv, [D!Next]_(D!downloadVars)
      PROVE  [/\ \A d \in downloads \ downloads' : D!IsExpired(d) \/ d = deleting
              /\ sweep # None /\ sweep.left = {} => sweep.due \cap downloads = {}]_(D!downloadVars)
  <2>1. ASSUME NEW d \in downloads, d \notin downloads' PROVE D!IsExpired(d) \/ d = deleting
    <3>1. CASE D!Delete
      BY <2>1, <3>1 DEF D!Delete
    <3>2. CASE D!SweepNext
      BY <1>3, <2>1, <3>2 DEF D!SweepNext, DownloadInv, SweepInv, D!IsExpired, Row
    <3>3. CASE ~D!Delete /\ ~D!SweepNext
      BY <1>3, <2>1, <3>3 DEF D!Next, D!downloadVars, D!Tick, D!Upload, D!Find, D!SweepBegin,
        D!SweepEnd, D!SweepDie
    <3>4. QED
      BY <3>1, <3>2, <3>3
  <2>2. QED
    BY <1>3, <2>1 DEF DownloadInv, SweepInv
<1>4. QED
  BY <1>1, <1>2, <1>3, DownloadsMove, PTL DEF Spec, ExpiryKept, D!ExpiryKept

-----------------------------------------------------------------------------
(* Facts *)

Topic == [slug : Slugs, seed : Nat]
Fact == [topic : Topic, seed : Nat]
Pick == [fact : Fact \cup {None}]
Command == [at : {"unpick", "clear", "fill", "commit"}, unpicked : BOOLEAN,
            gone : SUBSET (Topic \cup Fact), topics : SUBSET Topic, facts : SUBSET Fact]

\* The committed tables are whole, and the pick is in them.
TablesWhole ==
  /\ topics \subseteq Topic /\ facts \subseteq Fact
  /\ \A f \in facts : f.topic \in topics
  /\ \A t \in topics : \E f \in facts : f.topic = t
  /\ daily # None => daily \in Pick /\ daily.fact \in facts \cup {None}

\* The seed's own transaction: a clearing one has deleted all there is, for
\* nobody else writes these tables, and what it is about to commit is whole.
SeedWhole ==
  /\ seeds \in Nat
  /\ \A f \in facts : f.seed <= seeds
  /\ seed # None =>
       /\ seed \in Command
       /\ \A f \in facts : f.seed < seeds
       /\ seed.gone \in {{}, topics \cup facts}
       /\ seed.unpicked /\ seed.at # "clear" => seed.gone = topics \cup facts
       /\ seed.unpicked => seed.at # "unpick"
       /\ seed.at = "commit" =>
            /\ topics \ seed.gone \subseteq seed.topics
            /\ seed.facts = [topic : seed.topics, seed : {seeds}]

PicksWhole ==
  /\ picks = [c \in Crons |-> picks[c]]
  /\ \A c \in Crons : picks[c] # None => picks[c].fact \in Fact

\* What a page has found is still there, unless a clearing seed has committed.
VisitWhole ==
  visit # None =>
    /\ visit = [of |-> visit.of, topic |-> visit.topic, fact |-> visit.fact, at |-> visit.at,
                crossed |-> visit.crossed]
    /\ ~visit.crossed =>
         /\ visit.at \in {"found", "drawn", "shown"}
         /\ visit.at = "found" => visit.topic \in topics
         /\ visit.at # "found" => visit.fact \in facts \cup {None}
         /\ visit.of = "topic" /\ visit.at # "found" => visit.fact # None

FactsInv == TablesWhole /\ SeedWhole /\ PicksWhole /\ VisitWhole

\* The steps that leave the committed tables and the seed alone.
LEMMA SeedStays ==
  ASSUME FactsInv, UNCHANGED <<topics, facts, seed, seeds>> PROVE SeedWhole'
  BY DEF FactsInv, SeedWhole

LEMMA TablesStay ==
  ASSUME FactsInv, UNCHANGED <<topics, facts, daily>> PROVE TablesWhole'
  BY DEF FactsInv, TablesWhole

LEMMA PicksStay == ASSUME FactsInv, UNCHANGED picks PROVE PicksWhole'
  BY DEF FactsInv, PicksWhole

LEMMA VisitStays == ASSUME FactsInv, UNCHANGED <<topics, facts, visit>> PROVE VisitWhole'
  BY DEF FactsInv, VisitWhole

\* What SeedCommit makes of the tables when it is not undone.
LEMMA CommitWhole ==
  ASSUME FactsInv, seed # None, seed.at = "commit",
         topics' = (topics \ seed.gone) \cup seed.topics,
         facts' = (facts \ seed.gone) \cup seed.facts,
         ~(daily # None /\ daily.fact \in seed.gone /\ ~seed.unpicked),
         daily' = IF seed.unpicked THEN [fact |-> None] ELSE daily
  PROVE  /\ TablesWhole'
         /\ topics' = seed.topics
         /\ seed.gone = {} => topics \subseteq topics' /\ facts \subseteq facts'
         /\ seed.unpicked => facts' \cap facts = {}
         /\ \A f \in facts' : f.seed <= seeds
<1> USE DEF FactsInv, TablesWhole, SeedWhole
<1>1. /\ seed \in Command /\ seed.topics \subseteq Topic
      /\ seed.facts = [topic : seed.topics, seed : {seeds}]
      /\ topics \ seed.gone \subseteq seed.topics
  BY DEF Command
<1>2. topics' = seed.topics
  BY <1>1
<1>3. seed.gone = {} \/ facts \ seed.gone = {}
  OBVIOUS
<1>4. facts' \subseteq Fact
  BY <1>1 DEF Fact
<1>5. ASSUME NEW f \in facts' PROVE f.topic \in topics' /\ f.seed <= seeds
  <2>1. CASE f \in seed.facts
    BY <1>1, <1>2, <2>1
  <2>2. CASE f \in facts \ seed.gone
    BY <1>1, <1>2, <1>3, <2>2
  <2>3. QED
    BY <2>1, <2>2
<1>6. ASSUME NEW t \in topics' PROVE \E f \in facts' : f.topic = t
  <2>1. [topic |-> t, seed |-> seeds] \in facts'
    BY <1>1, <1>2
  <2>2. QED
    BY <2>1
<1>7. daily' # None => daily' \in Pick /\ daily'.fact \in facts' \cup {None}
  BY <1>3 DEF Pick
<1>8. seed.unpicked => facts' = seed.facts /\ \A f \in facts : f.seed < seeds
  BY <1>1
<1>9. seed.unpicked => facts' \cap facts = {}
  BY <1>1, <1>8
<1>10. QED
  BY <1>1, <1>2, <1>4, <1>5, <1>6, <1>7, <1>9

\* The seed's steps before its commit.
LEMMA SeedStep ==
  ASSUME FactsInv,
         (\E keep \in BOOLEAN : F!SeedBegin(keep)) \/ F!SeedUnpick \/ F!SeedClear \/ F!SeedFill
           \/ F!SeedDie
  PROVE  FactsInv'
<1> USE DEF FactsInv, SeedWhole
<1>1. UNCHANGED <<topics, facts, daily, picks, visit>>
  BY DEF F!SeedBegin, F!SeedUnpick, F!SeedClear, F!SeedFill, F!SeedDie
<1>2. SeedWhole'
  <2>1. ASSUME NEW keep \in BOOLEAN, F!SeedBegin(keep) PROVE SeedWhole'
    <3>1. PICK at \in {"fill", "unpick"} :
            seed' = [at |-> at, unpicked |-> FALSE, gone |-> {}, topics |-> {}, facts |-> {}]
      BY <2>1 DEF F!SeedBegin
    <3>2. seed' \in Command /\ seed'.gone = {} /\ seed'.unpicked = FALSE /\ seed'.at # "commit"
      BY <3>1 DEF Command
    <3>3. seeds' \in Nat /\ \A f \in facts : f.seed < seeds'
      BY <2>1 DEF F!SeedBegin, TablesWhole, Fact
    <3>4. QED
      BY <1>1, <3>2, <3>3 DEF TablesWhole, Fact
  <2>2. CASE F!SeedUnpick
    <3>1. PICK unpicked \in BOOLEAN : seed' = [seed EXCEPT !.at = "clear", !.unpicked = unpicked]
      BY <2>2 DEF F!SeedUnpick
    <3>2. /\ seed \in Command /\ seed' \in Command
          /\ seed'.at = "clear" /\ seed'.gone = seed.gone
      BY <2>2, <3>1 DEF F!SeedUnpick, Command
    <3>3. QED
      BY <1>1, <2>2, <3>2 DEF F!SeedUnpick
  <2>3. CASE F!SeedClear
    <3>1. /\ seed \in Command /\ seed' \in Command
          /\ seed'.at = "fill" /\ seed'.gone = topics \cup facts /\ seed'.unpicked = seed.unpicked
      BY <2>3 DEF F!SeedClear, Command, TablesWhole
    <3>2. QED
      BY <1>1, <2>3, <3>1 DEF F!SeedClear
  <2>4. CASE F!SeedFill
    <3> DEFINE its == F!TopicsOf(Slugs, topics \ seed.gone)
    <3>1. its \subseteq Topic /\ topics \ seed.gone \subseteq its
      BY DEF F!TopicsOf, TablesWhole, Topic
    <3>2. [topic : its, seed : {seeds}] \subseteq Fact
      BY <3>1 DEF Fact
    <3>3. seed' = [seed EXCEPT !.at = "commit", !.topics = its, !.facts = [topic : its, seed : {seeds}]]
      BY <2>4 DEF F!SeedFill
    <3> HIDE DEF its
    <3>4. seed # None /\ seed \in Command /\ seed.at = "fill" /\ seeds' = seeds
      BY <2>4 DEF F!SeedFill
    <3>5. /\ seed' \in Command /\ seed'.at = "commit" /\ seed'.gone = seed.gone
          /\ seed'.unpicked = seed.unpicked
          /\ seed'.topics = its /\ seed'.facts = [topic : its, seed : {seeds}]
      BY <3>1, <3>2, <3>3, <3>4 DEF Command
    <3>6. QED
      BY <1>1, <3>1, <3>4, <3>5
  <2>5. CASE F!SeedDie
    BY <1>1, <2>5 DEF F!SeedDie
  <2>6. QED
    BY <2>1, <2>2, <2>3, <2>4, <2>5
<1>3. QED
  BY <1>1, <1>2, TablesStay, PicksStay, VisitStays

LEMMA SeedCommitStep == ASSUME FactsInv, F!SeedCommit PROVE FactsInv'
<1>1. /\ seed # None /\ seed.at = "commit" /\ seed' = None
      /\ UNCHANGED <<seeds, picks>>
  BY DEF F!SeedCommit
<1>2. CASE daily # None /\ daily.fact \in seed.gone /\ ~seed.unpicked
  <2>1. UNCHANGED <<topics, facts, daily, visit>>
    BY <1>2 DEF F!SeedCommit
  <2>2. SeedWhole'
    BY <1>1, <2>1 DEF FactsInv, SeedWhole
  <2>3. QED
    BY <1>1, <2>1, <2>2, TablesStay, PicksStay, VisitStays DEF FactsInv
<1>3. CASE ~(daily # None /\ daily.fact \in seed.gone /\ ~seed.unpicked)
  <2>1. /\ topics' = (topics \ seed.gone) \cup seed.topics
        /\ facts' = (facts \ seed.gone) \cup seed.facts
        /\ daily' = IF seed.unpicked THEN [fact |-> None] ELSE daily
        /\ visit' = IF visit # None /\ seed.gone # {} THEN [visit EXCEPT !.crossed = TRUE]
                    ELSE visit
    BY <1>3 DEF F!SeedCommit
  <2>2. /\ TablesWhole'
        /\ seed.gone = {} => topics \subseteq topics' /\ facts \subseteq facts'
        /\ \A f \in facts' : f.seed <= seeds
    BY <1>1, <1>3, <2>1, CommitWhole
  <2>3. SeedWhole'
    BY <1>1, <2>2 DEF FactsInv, SeedWhole
  <2>4. VisitWhole'
    <3>1. CASE seed.gone = {}
      BY <2>1, <2>2, <3>1 DEF FactsInv, VisitWhole
    <3>2. CASE seed.gone # {}
      BY <2>1, <3>2 DEF FactsInv, VisitWhole
    <3>3. QED
      BY <3>1, <3>2
  <2>5. QED
    BY <1>1, <2>2, <2>3, <2>4, PicksStay DEF FactsInv
<1>4. QED
  BY <1>2, <1>3

\* A night's task.
LEMMA CronStep ==
  ASSUME FactsInv, NEW c \in Crons, F!Draw(c) \/ F!ReadRow(c) \/ F!SavePick(c)
  PROVE  FactsInv'
<1>1. UNCHANGED <<topics, facts, seed, seeds, visit>>
  BY DEF F!Draw, F!ReadRow, F!SavePick
<1>2. PicksWhole' /\ (picks[c] # None => picks[c].fact \in Fact)
  <2>1. PICK v : picks' = [picks EXCEPT ![c] = v] /\ (v # None => v.fact \in Fact)
    <3>1. CASE F!Draw(c)
      BY <3>1 DEF F!Draw, FactsInv, TablesWhole
    <3>2. CASE F!ReadRow(c)
      <4>1. PICK row : picks' = [picks EXCEPT ![c] = [picks[c] EXCEPT !.row = row]]
        BY <3>2 DEF F!ReadRow
      <4>2. [picks[c] EXCEPT !.row = row].fact \in Fact
        BY <3>2 DEF F!ReadRow, FactsInv, PicksWhole
      <4>3. QED
        BY <4>1, <4>2
    <3>3. CASE F!SavePick(c)
      BY <3>3 DEF F!SavePick
    <3>4. QED
      BY <3>1, <3>2, <3>3
  <2>2. QED
    BY <2>1 DEF FactsInv, PicksWhole
<1>3. TablesWhole'
  <2>1. CASE F!SavePick(c)
    BY <1>1, <1>2, <2>1 DEF F!SavePick, FactsInv, TablesWhole, Pick
  <2>2. CASE F!Draw(c) \/ F!ReadRow(c)
    BY <2>2, TablesStay DEF F!Draw, F!ReadRow
  <2>3. QED
    BY <2>1, <2>2
<1>4. QED
  BY <1>1, <1>2, <1>3, SeedStays, VisitStays DEF FactsInv

\* A page, which changes nothing but itself.
LEMMA PageStep ==
  ASSUME FactsInv, F!Visit \/ F!DrawOfTopic \/ F!Serialise \/ F!Leave
  PROVE  FactsInv'
<1> USE FactAssumption DEF FactsInv, TablesWhole, VisitWhole
<1>1. UNCHANGED <<topics, facts, daily, seed, seeds, picks>>
  BY DEF F!Visit, F!DrawOfTopic, F!Serialise, F!Leave
<1>2. VisitWhole'
  <2>1. CASE F!Visit
    <3>1. PICK of, topic, fact :
            /\ F!Page(of, topic, fact)
            /\ \/ of \in {"home", "facts", "fact"} /\ fact \in facts \cup {None}
               \/ of = "topic" /\ topic \in topics /\ fact = None
      <4>1. CASE F!Page("home", None, IF daily = None THEN None ELSE daily.fact)
        BY <4>1
      <4>2. CASE \E f \in F!Random(facts) : F!Page("facts", None, f)
        BY <4>2 DEF F!Random
      <4>3. CASE \E f \in facts : F!Page("fact", None, f)
        BY <4>3
      <4>4. CASE \E t \in topics : F!Page("topic", t, None)
        BY <4>4
      <4>5. QED
        BY <2>1, <4>1, <4>2, <4>3, <4>4 DEF F!Visit
    <3>2. QED
      BY <1>1, <3>1 DEF F!Page
  <2>2. CASE F!DrawOfTopic
    <3>1. PICK f \in F!Random({g \in facts : g.topic = visit.topic}) :
            visit' = [visit EXCEPT !.fact = f, !.at = "drawn"]
      BY <2>2 DEF F!DrawOfTopic
    <3>2. ~visit.crossed => f \in facts /\ f # None
      BY <2>2, <3>1 DEF F!DrawOfTopic, F!Random, Fact, Topic
    <3>3. QED
      BY <1>1, <2>2, <3>1, <3>2 DEF F!DrawOfTopic
  <2>3. CASE F!Serialise
    BY <1>1, <2>3 DEF F!Serialise
  <2>4. CASE F!Leave
    BY <2>4 DEF F!Leave
  <2>5. QED
    BY <2>1, <2>2, <2>3, <2>4
<1>3. QED
  BY <1>1, <1>2, TablesStay, SeedStays, PicksStay

LEMMA FactsStep == ASSUME FactsInv, [F!Next]_(F!factsVars) PROVE FactsInv'
<1>1. CASE UNCHANGED F!factsVars
  BY <1>1, TablesStay, SeedStays, PicksStay, VisitStays DEF F!factsVars, FactsInv
<1>2. QED
  BY <1>1, SeedStep, SeedCommitStep, CronStep, PageStep DEF F!Next

LEMMA FactsAlways == Spec => []FactsInv
<1>1. Init => FactsInv
  BY DEF Init, F!Init, FactsInv, TablesWhole, SeedWhole, PicksWhole, VisitWhole
<1>2. FactsInv /\ [Next]_partsVars => FactsInv'
  BY FactsStep, FactsMove
<1>3. QED
  BY <1>1, <1>2, PTL DEF Spec

\* Unless a clearing seed commits while a page is served, no topic page is
\* blank and no page fails for a topic that is gone (fact_topic_page, fact_out,
\* facts.py).
THEOREM CatalogueIsWhole == Spec => []PagesHangTogether
<1>1. FactsInv => PagesHangTogether
  BY DEF FactsInv, VisitWhole, PagesHangTogether, F!PagesHangTogether
<1>2. QED
  BY <1>1, FactsAlways, PTL

\* However the nightly task and seeds cross, only a seed that clears all facts
\* takes the pick of the day away (choose_for_today, seedfacts).
THEOREM PicksAreKept == Spec => PickKept
<1>1. ASSUME FactsInv, [F!Next]_(F!factsVars)
      PROVE  [daily # None /\ daily.fact # None =>
               /\ daily' # None
               /\ daily'.fact = None => facts' \cap facts = {}]_(F!factsVars)
  <2> SUFFICES ASSUME daily # None, daily.fact # None, ~UNCHANGED F!factsVars
               PROVE  daily' # None /\ (daily'.fact = None => facts' \cap facts = {})
    OBVIOUS
  <2> USE FactAssumption
  <2>1. CASE F!SeedCommit
    <3>1. CASE UNCHANGED daily
      BY <3>1
    <3>2. CASE daily' # daily
      <4>1. /\ seed # None /\ seed.at = "commit"
            /\ topics' = (topics \ seed.gone) \cup seed.topics
            /\ facts' = (facts \ seed.gone) \cup seed.facts
            /\ ~(daily # None /\ daily.fact \in seed.gone /\ ~seed.unpicked)
            /\ daily' = IF seed.unpicked THEN [fact |-> None] ELSE daily
        BY <2>1, <3>2 DEF F!SeedCommit
      <4>2. facts' \cap facts = {}
        BY <1>1, <3>2, <4>1, CommitWhole
      <4>3. daily' # None
        BY <3>2, <4>1 DEF Fact, Topic
      <4>4. QED
        BY <4>2, <4>3
    <3>3. QED
      BY <3>1, <3>2
  <2>2. ASSUME NEW c \in Crons, F!SavePick(c) PROVE daily' # None /\ daily'.fact # None
    <3>1. daily' = daily \/ (daily' = [fact |-> picks[c].fact] /\ picks[c].fact \in Fact)
      BY <1>1, <2>2 DEF F!SavePick, FactsInv, PicksWhole
    <3>2. QED
      BY <3>1 DEF Fact, Topic
  <2>3. CASE UNCHANGED daily
    BY <2>3
  <2>4. QED
    BY <1>1, <2>1, <2>2, <2>3 DEF F!Next, F!SeedBegin, F!SeedUnpick, F!SeedClear, F!SeedFill,
      F!SeedDie, F!Draw, F!ReadRow, F!Visit, F!Page, F!DrawOfTopic, F!Serialise, F!Leave
<1>2. QED
  BY <1>1, FactsAlways, FactsMove, PTL DEF Spec, PickKept, F!PickKept

-----------------------------------------------------------------------------
(* SdkModels *)

Frame == [of : Classes \cup {None}, refs : SUBSET Classes]
Operation == [fn : Fns, response : Classes, payload : Seq(Classes)]

Ordered == ToSet(models.order)

SdkTypes ==
  /\ fields \in [Classes -> SUBSET [to : Classes, wrap : S!Wraps]]
  /\ \A c \in Classes : \A f \in fields[c] : f.to < c
  /\ models \in [done : SUBSET Classes, order : Seq(Classes)]
  /\ adding \in Seq(Frame) /\ calls \in Seq(Operation) /\ emitted \in Seq(Classes)

\* Calls of add stand inside each other in falling order of their classes,
\* since a class refers to lower ones only. So what an inner one finds done
\* already is in the list, and not merely on its way.
Falls ==
  \A i, j \in DOMAIN adding :
    i < j /\ adding[i].of # None => adding[j].of # None /\ adding[j].of < adding[i].of

\* A class whose add is under way comes later than the references it has
\* visited, but for the one that it is waiting for.
Underway(i, c) ==
  /\ c \notin Ordered
  /\ \A r \in S!ModelRefs(c) :
       \/ r \in adding[i].refs \cup Ordered
       \/ i + 1 \in DOMAIN adding /\ adding[i + 1].of = r
  /\ adding[i].refs \subseteq S!ModelRefs(c)

DoneInv ==
  models.done = Ordered \cup ({adding[i].of : i \in DOMAIN adding} \ {None})

AddingInv ==
  /\ Falls
  /\ \A i \in DOMAIN adding, c \in Classes : adding[i].of = c => Underway(i, c)
  /\ DoneInv

\* No class twice, and none before what it refers to.
OrderInv ==
  /\ IsInjective(models.order)
  /\ \A k \in DOMAIN models.order, c \in Classes : models.order[k] = c =>
       \A r \in S!ModelRefs(c) : \E j \in 1..k - 1 : models.order[j] = r

\* What is in the list, or will be once the calls of add have returned.
Coming == models.done \cup UNION {adding[i].refs : i \in DOMAIN adding}

\* What has been asked for is coming, and what is rendered is the list's start.
AskedInv ==
  /\ \A k \in DOMAIN calls : {calls[k].response} \cup ToSet(calls[k].payload) \subseteq Coming
  /\ \A k \in DOMAIN emitted : S!Met(emitted[k]) \subseteq Coming
  /\ Len(emitted) <= Len(models.order)
  /\ \A k \in DOMAIN emitted : emitted[k] = models.order[k]

StageInv ==
  /\ stage = "declare" => /\ models = [done |-> {}, order |-> <<>>]
                          /\ adding = <<>> /\ calls = <<>> /\ emitted = <<>>
  /\ stage = "written" => adding = <<>> /\ Len(emitted) = Len(models.order)

SdkInv == SdkTypes /\ AddingInv /\ OrderInv /\ AskedInv /\ StageInv

LEMMA SetOfAppended ==
  ASSUME NEW Elems, NEW s \in Seq(Elems), NEW e \in Elems
  PROVE  /\ Append(s, e) \in Seq(Elems) /\ Len(Append(s, e)) = Len(s) + 1
         /\ \A i \in DOMAIN s : Append(s, e)[i] = s[i]
         /\ Append(s, e)[Len(s) + 1] = e
         /\ ToSet(Append(s, e)) = ToSet(s) \cup {e}
<1>1. /\ Append(s, e) \in Seq(Elems) /\ Len(Append(s, e)) = Len(s) + 1
      /\ \A i \in DOMAIN s : Append(s, e)[i] = s[i]
      /\ Append(s, e)[Len(s) + 1] = e
      /\ DOMAIN Append(s, e) = DOMAIN s \cup {Len(s) + 1}
  OBVIOUS
<1>2. QED
  BY <1>1 DEF ToSet

LEMMA RefsAreLower ==
  ASSUME SdkTypes, NEW c \in Classes
  PROVE  /\ S!ModelRefs(c) \subseteq S!Met(c) /\ S!Met(c) \subseteq Classes
         /\ \A r \in S!Met(c) : r < c
BY DEF SdkTypes, S!ModelRefs, S!Met

\* One reference less for the innermost call, and no other change.
LEMMA VisitedFacts ==
  ASSUME SdkTypes, adding # <<>>, NEW r
  PROVE  LET v == S!Visited(r)
             n == Len(adding)
         IN  /\ n \in DOMAIN adding /\ n \in Nat /\ DOMAIN adding = 1..n
             /\ Last(adding) = adding[n] /\ adding[n] \in Frame
             /\ v \in Seq(Frame) /\ Len(v) = n
             /\ \A i \in DOMAIN adding : v[i].of = adding[i].of /\ (i # n => v[i] = adding[i])
             /\ v[n].refs = adding[n].refs \ {r}
<1> DEFINE n == Len(adding)
           v == S!Visited(r)
<1>1. /\ n \in DOMAIN adding /\ n \in Nat /\ DOMAIN adding = 1..n /\ adding[n] \in Frame
      /\ Last(adding) = adding[n]
  BY DEF SdkTypes, Last
<1>2. v = [adding EXCEPT ![n] = [adding[n] EXCEPT !.refs = adding[n].refs \ {r}]]
  BY DEF S!Visited
<1>3. /\ [adding[n] EXCEPT !.refs = adding[n].refs \ {r}] \in Frame
      /\ [adding[n] EXCEPT !.refs = adding[n].refs \ {r}].of = adding[n].of
      /\ [adding[n] EXCEPT !.refs = adding[n].refs \ {r}].refs = adding[n].refs \ {r}
  BY <1>1 DEF Frame
<1>4. v \in Seq(Frame) /\ Len(v) = n
  BY <1>1, <1>2, <1>3 DEF SdkTypes
<1>5. \A i \in DOMAIN adding : v[i].of = adding[i].of /\ (i # n => v[i] = adding[i])
  BY <1>1, <1>2, <1>3 DEF SdkTypes
<1>6. v[n].refs = adding[n].refs \ {r}
  BY <1>1, <1>2, <1>3 DEF SdkTypes
<1>7. QED
  BY <1>1, <1>4, <1>5, <1>6

\* What is found done is in the list, not on its way.
LEMMA DoneIsOrdered ==
  ASSUME SdkInv, NEW i \in DOMAIN adding, i = Len(adding), adding[i].of # None,
         NEW r \in adding[i].refs, r \in models.done
  PROVE  r \in Ordered
<1>0. adding[i] \in Frame
  BY DEF SdkInv, SdkTypes
<1>1. adding[i] \in Frame /\ adding[i].of \in Classes
  BY <1>0 DEF Frame
<1>2. r < adding[i].of /\ r \in Classes
  BY <1>1, RefsAreLower DEF SdkInv, AddingInv, Underway
<1>3. ASSUME NEW j \in DOMAIN adding, adding[j].of = r PROVE FALSE
  <2>1. r # None /\ r \in Nat /\ adding[i].of \in Nat
    BY <1>1, <1>2, SdkAssumption
  <2>2. j = i \/ j < i
    BY DEF SdkInv, SdkTypes
  <2>3. CASE j < i
    <3>1. adding[i].of < r
      BY <1>3, <2>1, <2>3 DEF SdkInv, AddingInv, Falls
    <3>2. QED
      BY <3>1, <1>2, <2>1
  <2>4. QED
    BY <1>2, <1>3, <2>1, <2>2, <2>3
<1>4. QED
  BY <1>3 DEF SdkInv, AddingInv, DoneInv

LEMMA OrderStays ==
  ASSUME OrderInv, UNCHANGED fields, models'.order = models.order PROVE OrderInv'
<1>1. IsInjective(models'.order)
  BY DEF OrderInv
<1>2. ASSUME NEW k \in DOMAIN models'.order, NEW c \in Classes, models'.order[k] = c,
             NEW r \in S!ModelRefs(c)'
      PROVE  \E j \in 1..k - 1 : models'.order[j] = r
  <2>1. r \in S!ModelRefs(c)
    BY <1>2 DEF S!ModelRefs
  <2>2. QED
    BY <1>2, <2>1 DEF OrderInv
<1>3. QED
  BY <1>1, <1>2 DEF OrderInv

LEMMA UnderwayStays ==
  ASSUME NEW i, NEW c, Underway(i, c), UNCHANGED <<fields, models, adding>> PROVE Underway(i, c)'
<1>1. S!ModelRefs(c)' = S!ModelRefs(c) /\ Ordered' = Ordered
  BY DEF S!ModelRefs, Ordered
<1>2. QED
  BY <1>1 DEF Underway

\* What was asked for stays asked for while nothing is forgotten.
LEMMA AskedStays ==
  ASSUME AskedInv, Coming \subseteq Coming', UNCHANGED <<fields, calls, emitted>>,
         SdkTypes, Len(models.order) <= Len(models'.order), models'.order \in Seq(Classes),
         \A k \in DOMAIN models.order : models'.order[k] = models.order[k]
  PROVE  AskedInv'
<1>1. \A k \in DOMAIN emitted : k \in DOMAIN models.order
  BY DEF AskedInv, SdkTypes
<1>2. Len(emitted) <= Len(models'.order)
  BY DEF AskedInv, SdkTypes
<1>3. QED
  BY <1>1, <1>2 DEF AskedInv, S!Met

\* All but the stage depends on these only.
LEMMA SdkStays ==
  ASSUME SdkInv, UNCHANGED <<fields, models, adding, calls, emitted>>
  PROVE  SdkTypes' /\ AddingInv' /\ OrderInv' /\ AskedInv'
<1>1. SdkTypes' /\ OrderInv'
  BY OrderStays DEF SdkInv, SdkTypes
<1>2. AddingInv'
  BY UnderwayStays DEF SdkInv, AddingInv, Falls, DoneInv, Ordered
<1>3. Coming \subseteq Coming' /\ models'.order \in Seq(Classes)
  BY DEF Coming, SdkInv, SdkTypes
<1>4. Len(models.order) \in Nat
  BY DEF SdkInv, SdkTypes
<1>5. QED
  BY <1>1, <1>2, <1>3, <1>4, AskedStays DEF SdkInv

LEMMA SkipSdk == ASSUME SdkInv, S!Skip PROVE SdkInv'
<1>0. adding # <<>> /\ UNCHANGED <<fields, models, calls, skipped, emitted, stage>>
  BY DEF S!Skip
<1>1. PICK r \in Last(adding).refs \cap models.done : adding' = S!Visited(r)
  BY DEF S!Skip, S!Last, Last
<1> DEFINE n == Len(adding)
<1>2. /\ n \in DOMAIN adding /\ n \in Nat /\ DOMAIN adding = 1..n
      /\ Last(adding) = adding[n] /\ adding[n] \in Frame
      /\ adding' \in Seq(Frame) /\ Len(adding') = n
      /\ \A i \in DOMAIN adding : adding'[i].of = adding[i].of /\ (i # n => adding'[i] = adding[i])
      /\ adding'[n].refs = adding[n].refs \ {r}
  BY <1>0, <1>1, VisitedFacts DEF SdkInv
<1>3. DOMAIN adding' = DOMAIN adding
  BY <1>2
<1> HIDE DEF n
<1>4. SdkTypes' /\ OrderInv' /\ StageInv' /\ Ordered' = Ordered
  <2>1. SdkTypes' /\ Ordered' = Ordered
    BY <1>0, <1>2 DEF SdkInv, SdkTypes, Ordered
  <2>2. OrderInv'
    BY <1>0, OrderStays DEF SdkInv
  <2>3. StageInv'
    BY <1>0 DEF SdkInv, StageInv
  <2>4. QED
    BY <2>1, <2>2, <2>3
<1>5. Falls' /\ DoneInv'
  BY <1>0, <1>2, <1>3, <1>4 DEF SdkInv, AddingInv, Falls, DoneInv
<1>6. ASSUME NEW i \in DOMAIN adding, NEW c \in Classes, adding[i].of = c
      PROVE  Underway(i, c)'
  <2>1. Underway(i, c) /\ c # None
    BY <1>6, SdkAssumption DEF SdkInv, AddingInv
  <2>2. S!ModelRefs(c)' = S!ModelRefs(c)
    BY <1>0 DEF S!ModelRefs
  <2>3. i = n => r \in Ordered
    <3>1. CASE i = n
      <4>1. i = Len(adding) /\ adding[i].of # None /\ r \in adding[i].refs /\ r \in models.done
        BY <1>1, <1>2, <1>6, <2>1, <3>1 DEF n
      <4>2. QED
        BY <4>1, DoneIsOrdered
    <3>2. QED
      BY <3>1
  <2>4. QED
    BY <1>2, <1>3, <1>4, <1>6, <2>1, <2>2, <2>3 DEF Underway
<1>7. Coming \subseteq Coming'
  <2>1. r \in models'.done
    BY <1>0, <1>1
  <2>2. QED
    BY <1>0, <1>2, <1>3, <2>1 DEF Coming
<1>8. AskedInv'
  BY <1>0, <1>7, AskedStays DEF SdkInv, SdkTypes
<1>9. QED
  BY <1>2, <1>3, <1>4, <1>5, <1>6, <1>8 DEF SdkInv, AddingInv

LEMMA EnterSdk == ASSUME SdkInv, S!Enter PROVE SdkInv'
<1>0. adding # <<>> /\ UNCHANGED <<fields, calls, skipped, emitted, stage>>
  BY DEF S!Enter
<1>1. PICK r \in Last(adding).refs \ models.done :
        /\ models' = [models EXCEPT !.done = @ \cup {r}]
        /\ adding' = Append(S!Visited(r), [of |-> r, refs |-> S!ModelRefs(r)])
  BY DEF S!Enter, S!Last, Last
<1> DEFINE n == Len(adding)
           v == S!Visited(r)
           new == [of |-> r, refs |-> S!ModelRefs(r)]
<1>2. /\ n \in DOMAIN adding /\ n \in Nat /\ DOMAIN adding = 1..n
      /\ Last(adding) = adding[n] /\ adding[n] \in Frame
      /\ v \in Seq(Frame) /\ Len(v) = n
      /\ \A i \in DOMAIN adding : v[i].of = adding[i].of /\ (i # n => v[i] = adding[i])
      /\ v[n].refs = adding[n].refs \ {r}
  BY <1>0, <1>1, VisitedFacts DEF SdkInv
<1>3. r \in Classes /\ r # None /\ r \in Nat
  BY <1>1, <1>2, SdkAssumption DEF Frame
<1>4. new \in Frame /\ new.of = r /\ new.refs = S!ModelRefs(r)
  BY <1>3, RefsAreLower DEF Frame, SdkInv
<1> HIDE DEF n, v, new
<1>5. /\ adding' \in Seq(Frame) /\ Len(adding') = n + 1 /\ DOMAIN adding' = 1..(n + 1)
      /\ adding'[n + 1] = new
      /\ \A i \in 1..n : adding'[i] = v[i]
  BY <1>1, <1>2, <1>4, SetOfAppended DEF v, new
<1>6. /\ models' = [done |-> models.done \cup {r}, order |-> models.order]
      /\ models'.done = models.done \cup {r} /\ models'.order = models.order
  BY <1>1 DEF SdkInv, SdkTypes
<1>7. SdkTypes' /\ OrderInv' /\ StageInv' /\ Ordered' = Ordered
  <2>1. models' \in [done : SUBSET Classes, order : Seq(Classes)]
    BY <1>3, <1>6 DEF SdkInv, SdkTypes
  <2>2. stage \notin {"declare", "written"}
    BY <1>0 DEF SdkInv, StageInv
  <2>3. SdkTypes' /\ Ordered' = Ordered
    BY <1>0, <1>5, <1>6, <2>1 DEF SdkInv, SdkTypes, Ordered
  <2>4. OrderInv'
    BY <1>0, <1>6, OrderStays DEF SdkInv
  <2>5. QED
    BY <1>0, <2>2, <2>3, <2>4 DEF StageInv
<1>8. adding[n].of # None => r < adding[n].of
  <2>1. CASE adding[n].of # None
    <3>1. adding[n].of \in Classes /\ r \in S!ModelRefs(adding[n].of)
      BY <1>1, <1>2, <2>1 DEF Frame, SdkInv, AddingInv, Underway
    <3>2. QED
      BY <3>1, RefsAreLower DEF SdkInv
  <2>2. QED
    BY <2>1
<1>9. Falls'
  <2> SUFFICES ASSUME NEW i \in 1..(n + 1), NEW j \in 1..(n + 1), i < j, adding'[i].of # None
               PROVE  adding'[j].of # None /\ adding'[j].of < adding'[i].of
    BY <1>5 DEF Falls
  <2>1. i \in 1..n /\ adding'[i].of = adding[i].of /\ adding[i].of # None
    BY <1>2, <1>5
  <2>2. CASE j \in 1..n
    BY <1>2, <1>5, <2>1, <2>2 DEF SdkInv, AddingInv, Falls
  <2>3. CASE j = n + 1
    <3>1. adding'[j].of = r
      BY <1>4, <1>5, <2>3
    <3>2. CASE i = n
      BY <1>3, <1>8, <2>1, <3>1, <3>2
    <3>3. CASE i < n
      <4>1. adding[n].of # None /\ adding[n].of < adding[i].of
        BY <1>2, <2>1, <3>3 DEF SdkInv, AddingInv, Falls
      <4>2. adding[i] \in Frame
        BY <1>2, <2>1 DEF SdkInv, SdkTypes
      <4>3. adding[n].of \in Nat /\ adding[i].of \in Nat
        BY <1>2, <2>1, <4>1, <4>2, SdkAssumption DEF Frame
      <4>4. QED
        BY <1>3, <1>8, <2>1, <3>1, <4>1, <4>3
    <3>4. QED
      BY <1>2, <2>1, <3>2, <3>3
  <2>4. QED
    BY <1>2, <2>2, <2>3
<1>10. {adding'[i].of : i \in DOMAIN adding'} = {adding[i].of : i \in DOMAIN adding} \cup {r}
  <2>1. \A i \in 1..n : adding'[i].of = adding[i].of
    BY <1>2, <1>5
  <2>2. adding'[n + 1].of = r /\ n + 1 \in 1..(n + 1) /\ 1..(n + 1) = 1..n \cup {n + 1}
    BY <1>2, <1>4, <1>5
  <2>3. QED
    BY <1>2, <1>5, <2>1, <2>2
<1>11. DoneInv'
  BY <1>3, <1>6, <1>7, <1>10 DEF SdkInv, AddingInv, DoneInv
<1>12. ASSUME NEW i \in DOMAIN adding', NEW c \in Classes, adding'[i].of = c
       PROVE  Underway(i, c)'
  <2>0. S!ModelRefs(c)' = S!ModelRefs(c)
    BY <1>0 DEF S!ModelRefs
  <2>1. CASE i \in 1..n
    <3>1. adding'[i].of = adding[i].of /\ adding'[i] = v[i]
      BY <1>2, <1>5, <2>1
    <3>2. Underway(i, c)
      BY <1>2, <1>12, <2>1, <3>1 DEF SdkInv, AddingInv
    <3>3. i + 1 \in DOMAIN adding'
      BY <1>2, <1>5, <2>1
    <3>4. i + 1 \in DOMAIN adding => adding'[i + 1].of = adding[i + 1].of
      BY <1>2, <1>5
    <3>5. i # n => adding'[i].refs = adding[i].refs
      BY <1>2, <2>1, <3>1
    <3>6. i = n => adding'[i].refs = adding[i].refs \ {r} /\ adding'[i + 1].of = r
      BY <1>2, <1>4, <1>5, <3>1
    <3>7. QED
      BY <1>0, <1>7, <2>0, <3>1, <3>2, <3>3, <3>4, <3>5, <3>6 DEF Underway
  <2>2. CASE i = n + 1
    <3>1. r \notin Ordered
      BY <1>1 DEF SdkInv, AddingInv, DoneInv
    <3>2. c = r /\ adding'[i].refs = S!ModelRefs(c)
      BY <1>4, <1>5, <1>12, <2>2
    <3>3. QED
      BY <1>7, <2>0, <3>1, <3>2 DEF Underway
  <2>3. QED
    BY <1>2, <1>5, <2>1, <2>2
<1>13. Coming \subseteq Coming'
  <2>1. r \in models'.done /\ models.done \subseteq models'.done
    BY <1>6
  <2>2. \A i \in 1..n : adding[i].refs \subseteq adding'[i].refs \cup {r}
    BY <1>2, <1>5
  <2>3. 1..n \subseteq DOMAIN adding'
    BY <1>2, <1>5
  <2>4. QED
    BY <1>2, <2>1, <2>2, <2>3 DEF Coming
<1>14. AskedInv'
  BY <1>0, <1>6, <1>13, AskedStays DEF SdkInv, SdkTypes
<1>15. QED
  BY <1>7, <1>9, <1>11, <1>12, <1>14 DEF SdkInv, AddingInv

LEMMA LeaveSdk == ASSUME SdkInv, S!Leave PROVE SdkInv'
<1> DEFINE n == Len(adding)
           c == adding[n].of
<1>0. /\ adding # <<>> /\ UNCHANGED <<fields, calls, skipped, emitted, stage>>
      /\ Last(adding) = adding[n] /\ adding[n].refs = {} /\ adding' = Front(adding)
      /\ n \in Nat \ {0} /\ DOMAIN adding = 1..n
  <2>1. /\ adding # <<>> /\ UNCHANGED <<fields, calls, skipped, emitted, stage>>
        /\ Last(adding).refs = {} /\ adding' = Front(adding)
    BY DEF S!Leave, S!Last, Last, S!Front, Front
  <2>2. Last(adding) = adding[n]
    BY DEF Last
  <2>3. n \in Nat \ {0} /\ DOMAIN adding = 1..n
    BY <2>1 DEF SdkInv, SdkTypes
  <2>4. QED
    BY <2>1, <2>2, <2>3
<1>1. adding[n] \in Frame /\ (c # None => c \in Classes)
  <2>1. adding[n] \in Frame
    BY <1>0 DEF SdkInv, SdkTypes
  <2>2. QED
    BY <2>1 DEF Frame
<1>2. /\ adding' \in Seq(Frame) /\ Len(adding') = n - 1 /\ DOMAIN adding' = 1..(n - 1)
      /\ \A i \in 1..(n - 1) : adding'[i] = adding[i]
  BY <1>0 DEF Front, SdkInv, SdkTypes
<1>3. /\ models'.done = models.done
      /\ models' \in [done : SUBSET Classes, order : Seq(Classes)]
      /\ c = None => models' = models
      /\ c # None => models'.order = Append(models.order, c)
  <2>1. CASE c = None
    <3>1. models' = models
      BY <1>0, <2>1 DEF S!Leave, S!Last, Last
    <3>2. QED
      BY <2>1, <3>1 DEF SdkInv, SdkTypes
  <2>2. CASE c # None
    <3>1. models' = [models EXCEPT !.order = Append(models.order, c)]
      BY <1>0, <2>2 DEF S!Leave, S!Last, Last
    <3>2. Append(models.order, c) \in Seq(Classes)
      BY <1>1, <2>2 DEF SdkInv, SdkTypes
    <3>3. QED
      BY <2>2, <3>1, <3>2 DEF SdkInv, SdkTypes
  <2>3. QED
    BY <2>1, <2>2
<1> HIDE DEF n, c
<1>4. /\ Ordered' = Ordered \cup ({c} \ {None})
      /\ Len(models.order) <= Len(models'.order)
      /\ \A k \in DOMAIN models.order : k \in DOMAIN models'.order /\ models'.order[k] = models.order[k]
  <2>0. models.order \in Seq(Classes) /\ Len(models.order) \in Nat
    BY DEF SdkInv, SdkTypes
  <2>1. CASE c = None
    BY <1>3, <2>0, <2>1 DEF Ordered
  <2>2. CASE c # None
    <3>1. c \in Classes
      BY <1>1, <2>2 DEF c
    <3>2. /\ Len(models'.order) = Len(models.order) + 1
          /\ \A k \in DOMAIN models.order : models'.order[k] = models.order[k]
          /\ ToSet(models'.order) = ToSet(models.order) \cup {c}
      <4>1. models'.order = Append(models.order, c)
        BY <1>3, <2>2
      <4>2. QED
        BY <2>0, <3>1, <4>1, SetOfAppended
    <3>3. DOMAIN models'.order = 1..Len(models'.order) /\ DOMAIN models.order = 1..Len(models.order)
      BY <1>3, <2>0
    <3>4. QED
      BY <2>0, <2>2, <3>2, <3>3 DEF Ordered
  <2>3. QED
    BY <2>1, <2>2
<1>5. SdkTypes'
  BY <1>0, <1>2, <1>3 DEF SdkInv, SdkTypes
<1>6. StageInv'
  <2>1. stage \notin {"declare", "written"}
    BY <1>0 DEF SdkInv, StageInv
  <2>2. QED
    BY <1>0, <2>1 DEF StageInv
<1>7. OrderInv'
  <2>1. CASE c = None
    BY <1>0, <1>3, <2>1 DEF SdkInv, OrderInv, S!ModelRefs
  <2>2. CASE c # None
    <3>1. Underway(n, c) /\ c \in Classes
      BY <1>0, <1>1, <2>2 DEF SdkInv, AddingInv, c
    <3>2. S!ModelRefs(c) \subseteq Ordered /\ c \notin Ordered
      BY <1>0, <3>1 DEF Underway, c
    <3>3. models.order \in Seq(Classes)
      BY DEF SdkInv, SdkTypes
    <3>4. PICK m \in Nat : m = Len(models.order)
      BY <3>3
    <3>5. /\ models'.order \in Seq(Classes) /\ DOMAIN models.order = 1..m
          /\ DOMAIN models'.order = 1..(m + 1)
          /\ models'.order[m + 1] = c
      BY <1>3, <2>2, <3>1, <3>3, <3>4
    <3>6. Ordered = {models.order[k] : k \in 1..m}
      BY <3>5 DEF Ordered, ToSet
    <3>7. IsInjective(models'.order)
      <4>1. \A i, j \in 1..m : models.order[i] = models.order[j] => i = j
        BY <3>5 DEF SdkInv, OrderInv, IsInjective
      <4>2. \A i \in 1..m : models'.order[i] # c
        BY <1>4, <3>2, <3>5, <3>6
      <4>3. ASSUME NEW i \in 1..(m + 1), NEW j \in 1..(m + 1), models'.order[i] = models'.order[j]
            PROVE  i = j
        <5>1. i \in 1..m \/ i = m + 1
          BY <3>4
        <5>2. j \in 1..m \/ j = m + 1
          BY <3>4
        <5>3. QED
          BY <1>4, <3>5, <4>1, <4>2, <4>3, <5>1, <5>2
      <4>4. QED
        BY <3>5, <4>3 DEF IsInjective
    <3>8. ASSUME NEW k \in 1..(m + 1), NEW b \in Classes, models'.order[k] = b,
                 NEW r \in S!ModelRefs(b)
          PROVE  \E j \in 1..k - 1 : models'.order[j] = r
      <4>1. CASE k = m + 1
        BY <1>4, <3>2, <3>4, <3>5, <3>6, <3>8, <4>1
      <4>2. CASE k \in 1..m
        <5>1. PICK j \in 1..k - 1 : models.order[j] = r
          BY <1>4, <3>5, <3>8, <4>2 DEF SdkInv, OrderInv
        <5>2. j \in 1..m
          BY <3>4, <4>2
        <5>3. QED
          BY <1>4, <3>5, <5>1, <5>2
      <4>3. QED
        BY <3>4, <4>1, <4>2
    <3>9. QED
      BY <1>0, <3>5, <3>7, <3>8 DEF OrderInv, S!ModelRefs
  <2>3. QED
    BY <2>1, <2>2
<1>8. Falls'
  BY <1>0, <1>2 DEF SdkInv, AddingInv, Falls
<1>9. {adding[i].of : i \in DOMAIN adding} = {adding'[i].of : i \in DOMAIN adding'} \cup {c}
  <2>1. 1..n = 1..(n - 1) \cup {n}
    BY <1>0
  <2>2. QED
    BY <1>0, <1>2, <2>1 DEF c
<1>10. DoneInv'
  BY <1>3, <1>4, <1>9 DEF SdkInv, AddingInv, DoneInv
<1>11. ASSUME NEW i \in DOMAIN adding', NEW b \in Classes, adding'[i].of = b
       PROVE  Underway(i, b)'
  <2>1. i \in 1..(n - 1) /\ i \in DOMAIN adding /\ i + 1 \in DOMAIN adding /\ adding'[i] = adding[i]
    BY <1>0, <1>2
  <2>2. Underway(i, b)
    BY <1>11, <2>1 DEF SdkInv, AddingInv
  <2>3. S!ModelRefs(b)' = S!ModelRefs(b)
    BY <1>0 DEF S!ModelRefs
  <2>4. b # None /\ b \in Nat /\ adding[i].of = b
    BY <1>11, <2>1, SdkAssumption
  <2>5. c # None /\ c < b
    BY <1>0, <1>2, <2>1, <2>4 DEF SdkInv, AddingInv, Falls, c
  <2>6. b \notin Ordered'
    BY <1>1, <1>4, <2>1, <2>2, <2>4, <2>5, SdkAssumption DEF Underway, c
  <2>7. i + 1 \in DOMAIN adding' => adding'[i + 1].of = adding[i + 1].of
    BY <1>2
  <2>8. i + 1 \notin DOMAIN adding' => adding[i + 1].of = c
    BY <1>0, <1>2, <2>1 DEF c
  <2>9. QED
    BY <1>4, <2>1, <2>2, <2>3, <2>5, <2>6, <2>7, <2>8 DEF Underway
<1>12. Coming \subseteq Coming'
  <2>1. \A i \in DOMAIN adding : i # n => i \in DOMAIN adding' /\ adding'[i] = adding[i]
    BY <1>0, <1>2
  <2>2. QED
    BY <1>0, <1>3, <2>1 DEF Coming
<1>13. AskedInv'
  BY <1>0, <1>3, <1>4, <1>12, AskedStays DEF SdkInv
<1>14. QED
  BY <1>5, <1>6, <1>7, <1>8, <1>10, <1>11, <1>13 DEF SdkInv, AddingInv

\* When nothing is being added, the list is all that is done and coming.
LEMMA Quiet == ASSUME SdkInv, adding = <<>> PROVE models.done = Ordered /\ Coming = Ordered
<1>1. DOMAIN adding = {}
  OBVIOUS
<1>2. QED
  BY <1>1 DEF SdkInv, AddingInv, DoneInv, Coming

\* New requests: frames without a class of their own.
LEMMA AskSdk ==
  ASSUME SdkInv, adding = <<>>, adding' \in Seq(Frame),
         \A i \in DOMAIN adding' : adding'[i].of = None, UNCHANGED <<fields, models>>
  PROVE  AddingInv' /\ OrderInv' /\ Coming \subseteq Coming'
<1>1. models.done = Ordered /\ Coming = Ordered /\ Ordered' = Ordered
  BY Quiet DEF Ordered
<1>2. Falls' /\ DoneInv'
  BY <1>1 DEF Falls, DoneInv
<1>3. QED
  <2>1. OrderInv'
    BY OrderStays DEF SdkInv
  <2>2. \A i \in DOMAIN adding', c \in Classes : adding'[i].of # c
    BY SdkAssumption
  <2>3. Coming \subseteq Coming'
    BY <1>1 DEF Coming
  <2>4. QED
    BY <1>2, <2>1, <2>2, <2>3 DEF AddingInv

LEMMA Payload == <<>> \in Seq(Classes) /\ [1..1 -> Classes] \subseteq Seq(Classes)
<1>1. ASSUME NEW s \in [1..1 -> Classes] PROVE s \in Seq(Classes)
  <2>1. PICK n \in Nat : n = 1
    OBVIOUS
  <2>2. s \in [1..n -> Classes]
    BY <2>1
  <2>3. QED
    BY <2>2
<1>2. QED
  BY <1>1

LEMMA AddCallSdk ==
  ASSUME SdkInv, NEW fn \in Fns, NEW response \in Classes \cup {None}, NEW payload \in S!Payloads,
         S!AddCall(fn, response, payload)
  PROVE  SdkInv'
<1>0. stage = "walk" /\ adding = <<>> /\ UNCHANGED <<fields, models, emitted>>
  BY DEF S!AddCall
<1>1. CASE UNCHANGED <<adding, calls>>
  <2>1. stage' \in {"walk", "failed"}
    BY <1>0 DEF S!AddCall
  <2>2. QED
    BY <1>0, <1>1, <2>1, SdkStays DEF SdkInv, StageInv
<1>2. CASE /\ response # None /\ Len(payload) <= 1
           /\ adding' = <<S!Asked(ToSet(payload)), S!Asked({response})>>
           /\ calls' = Append(calls, [fn |-> fn, response |-> response, payload |-> payload])
           /\ stage' = stage
  <2>1. payload \in Seq(Classes) /\ ToSet(payload) \subseteq Classes
    <3>1. payload = <<>> \/ payload \in [1..1 -> Classes] \/ payload \in [1..2 -> {1}]
      BY DEF S!Payloads
    <3>2. payload = <<>> \/ payload \in [1..1 -> Classes]
      BY <1>2, <3>1
    <3>3. payload \in Seq(Classes)
      <4>1. <<>> \in Seq(Classes) /\ [1..1 -> Classes] \subseteq Seq(Classes)
        BY Payload
      <4>2. QED
        BY <3>2, <4>1
    <3>4. QED
      BY <3>3 DEF ToSet
  <2>2. /\ adding' \in Seq(Frame) /\ DOMAIN adding' = {1, 2}
        /\ adding'[1] = [of |-> None, refs |-> ToSet(payload)]
        /\ adding'[2] = [of |-> None, refs |-> {response}]
    BY <1>2, <2>1 DEF S!Asked, Frame
  <2>3. AddingInv' /\ OrderInv' /\ Coming \subseteq Coming'
    BY <1>0, <2>2, AskSdk
  <2>4. {response} \cup ToSet(payload) \subseteq Coming'
    BY <2>2 DEF Coming
  <2> DEFINE op == [fn |-> fn, response |-> response, payload |-> payload]
  <2>5. op \in Operation
    BY <1>2, <2>1 DEF Operation
  <2> HIDE DEF op
  <2>6. calls \in Seq(Operation) /\ calls' = Append(calls, op)
    BY <1>2 DEF op, SdkInv, SdkTypes
  <2>7. /\ calls' \in Seq(Operation) /\ DOMAIN calls' = DOMAIN calls \cup {Len(calls) + 1}
        /\ \A k \in DOMAIN calls : calls'[k] = calls[k]
        /\ calls'[Len(calls) + 1] = op
    BY <2>5, <2>6
  <2>8. \A k \in DOMAIN calls' :
          {calls'[k].response} \cup ToSet(calls'[k].payload) \subseteq Coming'
    <3>1. op.response = response /\ op.payload = payload
      BY DEF op
    <3>2. ASSUME NEW k \in DOMAIN calls
          PROVE  {calls'[k].response} \cup ToSet(calls'[k].payload) \subseteq Coming'
      BY <2>3, <2>7 DEF SdkInv, AskedInv
    <3>3. {calls'[Len(calls) + 1].response} \cup ToSet(calls'[Len(calls) + 1].payload)
            \subseteq Coming'
      BY <2>4, <2>7, <3>1
    <3>4. QED
      BY <2>7, <3>2, <3>3
  <2>9. AskedInv'
    <3>1. \A k \in DOMAIN emitted : S!Met(emitted[k])' \subseteq Coming'
      BY <1>0, <2>3 DEF SdkInv, AskedInv, S!Met
    <3>2. QED
      BY <1>0, <2>8, <3>1 DEF SdkInv, AskedInv
  <2>10. SdkTypes' /\ StageInv'
    BY <1>0, <1>2, <2>2, <2>7 DEF SdkInv, SdkTypes, StageInv
  <2>11. QED
    BY <2>3, <2>9, <2>10 DEF SdkInv
<1>3. QED
  <2>1. Len(payload) \in Nat
    BY DEF S!Payloads
  <2>2. S!ToSet(payload) = ToSet(payload)
    BY DEF S!ToSet, ToSet
  <2>3. QED
    BY <1>1, <1>2, <2>1, <2>2 DEF S!AddCall

LEMMA EmitSdk == ASSUME SdkInv, S!Emit PROVE SdkInv'
<1>0. /\ stage = "render" /\ adding = <<>> /\ UNCHANGED <<fields, models, calls, skipped, stage>>
      /\ Len(emitted) < Len(models.order)
  BY DEF S!Emit
<1>1. PICK k \in Nat : k = Len(emitted) /\ emitted \in Seq(Classes) /\ DOMAIN emitted = 1..k
  BY DEF SdkInv, SdkTypes
<1>2. PICK c : c = models.order[k + 1] /\ adding' = <<S!Asked(S!Met(c))>>
               /\ emitted' = Append(emitted, c)
  BY <1>1 DEF S!Emit
<1>3. c \in Classes
  BY <1>0, <1>1, <1>2 DEF SdkInv, SdkTypes
<1>4. /\ emitted' \in Seq(Classes) /\ Len(emitted') = k + 1 /\ DOMAIN emitted' = 1..(k + 1)
      /\ \A i \in 1..k : emitted'[i] = emitted[i]
      /\ emitted'[k + 1] = c
  BY <1>1, <1>2, <1>3
<1>5. /\ adding' \in Seq(Frame) /\ DOMAIN adding' = {1}
      /\ adding'[1] = [of |-> None, refs |-> S!Met(c)]
  BY <1>2, <1>3, RefsAreLower DEF S!Asked, Frame, SdkInv
<1>6. AddingInv' /\ OrderInv' /\ Coming \subseteq Coming'
  BY <1>0, <1>5, AskSdk
<1>7. AskedInv'
  <2>1. S!Met(c) \subseteq Coming'
    BY <1>5 DEF Coming
  <2>2. \A i \in 1..(k + 1) : i \in 1..k \/ i = k + 1
    BY <1>1
  <2>3. \A i \in 1..(k + 1) : S!Met(emitted'[i]) \subseteq Coming'
    <3>1. ASSUME NEW i \in 1..k PROVE S!Met(emitted'[i]) \subseteq Coming'
      BY <1>0, <1>1, <1>4, <1>6 DEF SdkInv, AskedInv, S!Met
    <3>2. QED
      BY <1>4, <2>1, <2>2, <3>1
  <2>4. Len(emitted') <= Len(models'.order)
    BY <1>0, <1>1, <1>4 DEF SdkInv, SdkTypes
  <2>5. \A i \in 1..(k + 1) : emitted'[i] = models'.order[i]
    BY <1>0, <1>1, <1>2, <1>4, <2>2 DEF SdkInv, AskedInv
  <2>6. \A i \in DOMAIN calls' :
          {calls'[i].response} \cup ToSet(calls'[i].payload) \subseteq Coming'
    BY <1>0, <1>6 DEF SdkInv, AskedInv
  <2>7. QED
    BY <1>0, <1>4, <2>3, <2>4, <2>5, <2>6 DEF AskedInv, S!Met
<1>8. SdkTypes' /\ StageInv'
  BY <1>0, <1>4, <1>5 DEF SdkInv, SdkTypes, StageInv
<1>9. QED
  BY <1>6, <1>7, <1>8 DEF SdkInv

LEMMA DeclareSdk == ASSUME SdkInv, S!Declare PROVE SdkInv'
<1>1. PICK wrap \in [S!Pairs -> S!Wraps \cup {None}] :
        fields' = [c \in Classes |-> {[to |-> p[2], wrap |-> wrap[p]] :
                     p \in {q \in S!Pairs : q[1] = c /\ wrap[q] # None}}]
  BY DEF S!Declare
<1>2. ASSUME NEW c \in Classes, NEW f \in fields'[c]
      PROVE  f \in [to : Classes, wrap : S!Wraps] /\ f.to < c
  <2>1. PICK p \in S!Pairs : p[1] = c /\ wrap[p] # None /\ f = [to |-> p[2], wrap |-> wrap[p]]
    BY <1>1, <1>2
  <2>2. p \in Classes \X Classes /\ p[2] < p[1] /\ wrap[p] \in S!Wraps
    BY <1>1, <2>1 DEF S!Pairs
  <2>3. QED
    BY <2>1, <2>2
<1>3. fields' \in [Classes -> SUBSET [to : Classes, wrap : S!Wraps]]
  BY <1>1, <1>2
<1>4. /\ stage = "declare" /\ stage' = "walk"
      /\ UNCHANGED <<models, adding, calls, skipped, emitted>>
      /\ models.order = <<>> /\ models.done = {} /\ adding = <<>> /\ calls = <<>> /\ emitted = <<>>
  BY DEF S!Declare, SdkInv, StageInv
<1>5. SdkTypes'
  BY <1>2, <1>3, <1>4 DEF SdkInv, SdkTypes
<1>6. AddingInv' /\ OrderInv' /\ AskedInv' /\ StageInv'
  BY <1>4 DEF SdkInv, AddingInv, Falls, DoneInv, Ordered, OrderInv, AskedInv, StageInv, IsInjective
<1>7. QED
  BY <1>5, <1>6 DEF SdkInv

LEMMA NextSdk == ASSUME SdkInv, [S!Next]_(S!sdkVars) PROVE SdkInv'
<1>1. CASE S!StartRender \/ S!Write \/ UNCHANGED S!sdkVars
  <2>1. UNCHANGED <<fields, models, adding, calls, emitted>>
    BY <1>1 DEF S!StartRender, S!Write, S!sdkVars
  <2>2. StageInv'
    BY <1>1 DEF S!StartRender, S!Write, S!sdkVars, SdkInv, StageInv
  <2>3. QED
    BY <2>1, <2>2, SdkStays DEF SdkInv
<1>2. QED
  BY <1>1, SkipSdk, EnterSdk, LeaveSdk, AddCallSdk, EmitSdk, DeclareSdk DEF S!Next

\* What generatesdk writes loads: every name is declared, once, and before its
\* use, for any number of models and however their references chain and meet
\* ("deps emitted first", generatesdk.py:162).
THEOREM SdkLoads == Spec => []DependenciesFirst
<1>1. Init => SdkInv
  <2> SUFFICES ASSUME Init PROVE SdkInv
    OBVIOUS
  <2>1. /\ fields = [c \in Classes |-> {}] /\ models = [done |-> {}, order |-> <<>>]
        /\ adding = <<>> /\ calls = <<>> /\ emitted = <<>> /\ stage = "declare"
    BY DEF Init, S!Init
  <2>2. QED
    BY <2>1 DEF SdkInv, SdkTypes, AddingInv, Falls, DoneInv, Ordered, ToSet, OrderInv, IsInjective,
      AskedInv, StageInv
<1>2. SdkInv /\ [Next]_partsVars => SdkInv'
  BY SdkMoves, NextSdk
<1>3. SdkInv => DependenciesFirst
  <2> SUFFICES ASSUME SdkInv PROVE DependenciesFirst
    OBVIOUS
  <2>0. /\ emitted \in Seq(Classes) /\ models.order \in Seq(Classes) /\ Len(emitted) \in Nat
        /\ DOMAIN emitted = 1..Len(emitted) /\ DOMAIN models.order = 1..Len(models.order)
        /\ Len(emitted) <= Len(models.order) /\ Len(models.order) \in Nat
        /\ \A k \in DOMAIN emitted : emitted[k] = models.order[k] /\ emitted[k] \in Classes
    BY DEF SdkInv, SdkTypes, AskedInv
  <2>1. ASSUME NEW k \in DOMAIN emitted, NEW f \in fields[emitted[k]], f.wrap # "deep"
        PROVE  \E j \in 1..k - 1 : emitted[j] = f.to
    <3>1. f.to \in S!ModelRefs(models.order[k]) /\ k \in DOMAIN models.order
      <4>1. f.wrap \in {"plain", "wrapped"}
        BY <2>0, <2>1 DEF SdkInv, SdkTypes, S!Wraps
      <4>2. QED
        BY <2>0, <4>1 DEF S!ModelRefs
    <3>2. PICK j \in 1..k - 1 : models.order[j] = f.to
      BY <2>0, <3>1 DEF SdkInv, OrderInv
    <3>3. j \in DOMAIN emitted
      BY <2>0
    <3>4. QED
      BY <2>0, <3>2, <3>3
  <2>2. ASSUME stage = "written"
        PROVE  /\ IsInjective(emitted)
               /\ \A k \in DOMAIN calls :
                    {calls[k].response} \cup ToSet(calls[k].payload) \subseteq ToSet(emitted)
               /\ \A c \in ToSet(emitted) : S!Met(c) \subseteq ToSet(emitted)
    <3>1. adding = <<>> /\ DOMAIN emitted = DOMAIN models.order
      BY <2>0, <2>2 DEF SdkInv, StageInv
    <3>2. ToSet(emitted) = Ordered
      BY <2>0, <3>1 DEF Ordered, ToSet
    <3>3. Coming = Ordered
      BY <3>1, Quiet
    <3>4. IsInjective(emitted)
      BY <2>0, <3>1 DEF SdkInv, OrderInv, IsInjective
    <3>5. \A c \in ToSet(emitted) : \E k \in DOMAIN emitted : c = emitted[k]
      BY DEF ToSet
    <3>6. QED
      BY <3>2, <3>3, <3>4, <3>5 DEF SdkInv, AskedInv
  <2>3. QED
    BY <2>1, <2>2 DEF DependenciesFirst, S!DependenciesFirst, S!ToSet, ToSet, S!IsInjective,
      IsInjective
<1>4. QED
  BY <1>1, <1>2, <1>3, PTL DEF Spec

-----------------------------------------------------------------------------
(* RepoViewers *)

What == Texts \cup {"out", "dangling", None}
FileTree == [Paths -> What]
Places == {"list", "listed", "error", "confine", "untracked", "changed", "which", "new", "head",
           "committed", "link", "linked", "shown", "resolve", "read", "opened", "missing"}
Viewing == [of : {"uncommitted", "commit", "dir"}, commit : Nat, found : SUBSET Paths,
            path : Paths \cup {None}, at : Places,
            seen : BOOLEAN, diff : (What \X What) \cup {None}, quiet : BOOLEAN]

\* Where each kind of visit can be; a commit's list is fixed for good.
OnItsWay(v) ==
  /\ v \in Viewing
  /\ v.at \notin {"list", "listed", "error"} => v.path \in Paths
  /\ v.of = "commit" => v.commit \in 1..Len(commits) /\ v.found = R!CommitFiles(v.commit)
  /\ v.at = "committed" => v.of = "commit"
  /\ v.at \in {"untracked", "changed", "which", "new", "head"} => v.of = "uncommitted"
  /\ v.at = "list" => v.of # "commit" /\ v.path = None
  /\ v.at = "confine" => v.of # "dir"
  /\ v.at \in {"link", "shown", "linked"} /\ v.diff = None => v.of = "uncommitted" /\ ~v.quiet

\* What a visit has read still holds while nobody works on the tree.
StillTrue(v) ==
  /\ v.of = "dir" =>
       /\ v.found = {p \in Paths : work[p] # None}
       /\ v.at \notin {"list", "error"} => \A p \in v.found : R!Exists(p)
  /\ v.of = "uncommitted" =>
       v.found = IF v.at = "list" THEN R!Untracked ELSE R!Untracked \cup R!Changed
  /\ v.at = "changed" => (v.seen <=> v.path \in R!Untracked)
  /\ v.at \in {"which", "new", "head"} => v.path \in v.found
  /\ v.at = "new" => v.path \in R!Untracked
  /\ v.at = "head" => v.path \notin R!Untracked
  /\ v.at \in {"linked", "read"} => R!Exists(v.path)
  /\ v.at = "resolve" => v.of = "dir" \/ R!Exists(v.path)
  /\ v.at = "error" => v.path = None /\ \E p \in v.found : work[p] = "dangling"
  /\ v.at = "missing" => v.path \notin v.found \/ work[v.path] = "out"

RepoInv ==
  /\ work \in FileTree /\ index \in FileTree /\ commits \in Seq(FileTree)
  /\ view # None => OnItsWay(view) /\ (view.quiet => StillTrue(view))

\* A step of the visit.
LEMMA SeeStep ==
  ASSUME RepoInv, NEW v, R!See(v), v # None => OnItsWay(v) /\ (v.quiet => StillTrue(v))
  PROVE  RepoInv'
<1>1. view' = v /\ UNCHANGED <<work, index, commits, edits>>
  BY DEF R!See
<1>2. QED
  BY <1>1 DEF RepoInv, OnItsWay, StillTrue, R!CommitFiles, R!Tree, R!Untracked, R!Changed,
    R!InTree, R!Exists

\* What was committed stays so.
LEMMA CommitsStay ==
  ASSUME RepoInv, NEW tree2 \in FileTree, commits' \in {commits, Append(commits, tree2)},
         NEW k \in 1..Len(commits)
  PROVE  k \in 1..Len(commits') /\ R!CommitFiles(k)' = R!CommitFiles(k)
<1>1. commits \in Seq(FileTree)
  BY DEF RepoInv
<1>2. k \in 1..Len(commits') /\ \A j \in 1..Len(commits) : commits'[j] = commits[j]
  BY <1>1
<1>3. R!Tree(k)' = R!Tree(k) /\ R!Tree(k - 1)' = R!Tree(k - 1)
  BY <1>2 DEF R!Tree, R!Empty
<1>4. QED
  BY <1>2, <1>3 DEF R!CommitFiles

\* A step of whoever works on the tree ends the quiet.
LEMMA EditedStep ==
  ASSUME RepoInv, R!Edited, NEW tree2 \in FileTree, work' \in FileTree, index' \in FileTree,
         commits' \in {commits, Append(commits, tree2)}
  PROVE  RepoInv'
<1>1. commits' \in Seq(FileTree)
  BY DEF RepoInv
<1>2. ASSUME view' # None PROVE OnItsWay(view)' /\ ~view'.quiet
  <2>1. view # None /\ view' = [view EXCEPT !.quiet = FALSE] /\ OnItsWay(view)
    BY <1>2 DEF R!Edited, RepoInv
  <2>2. /\ view' \in Viewing /\ ~view'.quiet
        /\ view'.of = view.of /\ view'.commit = view.commit /\ view'.found = view.found
        /\ view'.path = view.path /\ view'.at = view.at /\ view'.diff = view.diff
    BY <2>1 DEF OnItsWay, Viewing
  <2>3. view'.of = "commit" =>
          view'.commit \in 1..Len(commits') /\ view'.found = R!CommitFiles(view.commit)'
    <3>1. CASE view.of = "commit"
      <4>1. view.commit \in 1..Len(commits) /\ view.found = R!CommitFiles(view.commit)
        BY <2>1, <3>1 DEF OnItsWay
      <4>2. PICK k \in 1..Len(commits) : k = view.commit
        BY <4>1
      <4>3. k \in 1..Len(commits') /\ R!CommitFiles(k)' = R!CommitFiles(k)
        BY CommitsStay
      <4>4. k = view'.commit /\ view'.found = R!CommitFiles(k)
        BY <2>2, <4>1, <4>2
      <4>5. QED
        BY <4>3, <4>4
    <3>2. QED
      BY <2>2, <3>1
  <2>4. QED
    BY <2>1, <2>2, <2>3 DEF OnItsWay
<1>3. QED
  BY <1>1, <1>2 DEF RepoInv

LEMMA TreeStep ==
  ASSUME RepoInv,
         \/ \E p \in Paths, what \in Texts \cup R!Links \cup {None} : R!Edit(p, what)
         \/ \E p \in Paths : R!Stage(p) \/ R!Unstage(p)
         \/ R!Commit
  PROVE  RepoInv'
<1>1. work \in FileTree /\ index \in FileTree
  BY DEF RepoInv
<1>2. R!Edited /\ commits' \in {commits, Append(commits, index)}
  BY DEF R!Edit, R!Stage, R!Unstage, R!Commit
<1>3. work' \in FileTree /\ index' \in FileTree
  BY <1>1 DEF R!Edit, R!Stage, R!Unstage, R!Commit, FileTree, What, R!Links
<1>4. QED
  BY <1>1, <1>2, <1>3, EditedStep

\* Opening a list.
LEMMA OpenStep ==
  ASSUME RepoInv, R!OpenUncommitted \/ R!OpenDir \/ \E k \in 1..Len(commits) : R!OpenCommit(k)
  PROVE  RepoInv'
<1>1. CASE R!OpenUncommitted \/ R!OpenDir
  <2>1. PICK v : /\ R!See(v)
                 /\ \/ v = R!Visit("uncommitted", R!Untracked)
                    \/ v = R!Visit("dir", {p \in Paths : work[p] # None})
    BY <1>1 DEF R!OpenUncommitted, R!OpenDir, R!See
  <2>2. R!Untracked \subseteq Paths
    BY DEF R!Untracked
  <2>3. PICK of \in {"uncommitted", "dir"}, found \in SUBSET Paths :
          /\ v = R!Visit(of, found)
          /\ of = "uncommitted" => found = R!Untracked
          /\ of = "dir" => found = {p \in Paths : work[p] # None}
    BY <2>1, <2>2
  <2>4. /\ v \in Viewing /\ v.of = of /\ v.found = found /\ v.at = "list" /\ v.path = None
    BY <2>3 DEF R!Visit, Viewing, Places
  <2>5. OnItsWay(v) /\ StillTrue(v)
    BY <2>3, <2>4 DEF OnItsWay, StillTrue
  <2>6. QED
    BY <2>1, <2>5, SeeStep
<1>2. ASSUME NEW k \in 1..Len(commits), R!OpenCommit(k) PROVE RepoInv'
  <2>1. PICK v : /\ R!See(v)
                 /\ v = [of |-> "commit", commit |-> k, found |-> R!CommitFiles(k), path |-> None,
                         at |-> "listed", seen |-> FALSE, diff |-> None, quiet |-> TRUE]
    BY <1>2 DEF R!OpenCommit, R!See, R!Visit
  <2>2. R!CommitFiles(k) \subseteq Paths
    BY DEF R!CommitFiles, R!Listed
  <2>3. OnItsWay(v) /\ StillTrue(v)
    BY <2>1, <2>2 DEF OnItsWay, StillTrue, Viewing, Places
  <2>4. QED
    BY <2>1, <2>3, SeeStep
<1>3. QED
  BY <1>1, <1>2

\* Two contents that differ make a difference to show.
LEMMA Differing ==
  ASSUME NEW old \in What, NEW new \in What
  PROVE  /\ R!Between(old, new) \in (What \X What) \cup {None}
         /\ old # new => R!Between(old, new) # None
<1>1. CASE old = new
  BY <1>1 DEF R!Between
<1>2. CASE old # new
  <2>1. <<old, new>> \in What \X What
    OBVIOUS
  <2>2. None \notin What \X What
    BY RepoAssumption DEF What
  <2>3. QED
    BY <1>2, <2>1, <2>2 DEF R!Between
<1>3. QED
  BY <1>1, <1>2

LEMMA Trees == ASSUME RepoInv, NEW k \in 0..Len(commits), NEW p \in Paths
               PROVE  R!Tree(k)[p] \in What /\ R!InTree(p) \in What
<1>1. R!Tree(k) \in FileTree
  BY DEF R!Tree, R!Empty, RepoInv, FileTree, What
<1>2. QED
  BY <1>1 DEF FileTree, R!InTree, RepoInv, What

\* A step of the visit that only goes on to another place.
LEMMA GoOn ==
  ASSUME NEW v \in Viewing, NEW at, [v EXCEPT !.at = at] \in Viewing
  PROVE  LET w == [v EXCEPT !.at = at]
         IN  /\ w.at = at /\ w.of = v.of /\ w.commit = v.commit /\ w.found = v.found
             /\ w.path = v.path /\ w.seen = v.seen /\ w.diff = v.diff /\ w.quiet = v.quiet
  BY DEF Viewing

LEMMA ListRestStep == ASSUME RepoInv, R!ListRest PROVE RepoInv'
<1>1. view # None /\ view.at = "list" /\ OnItsWay(view) /\ (view.quiet => StillTrue(view))
  BY DEF R!ListRest, RepoInv
<1>2. view \in Viewing /\ view.of # "commit"
  BY <1>1 DEF OnItsWay
<1>3. CASE view.of = "uncommitted"
  <2>1. PICK v : R!See(v) /\ v = [view EXCEPT !.found = @ \cup R!Changed, !.at = "listed"]
    BY <1>3 DEF R!ListRest
  <2>2. R!Changed \subseteq Paths
    BY DEF R!Changed, R!Listed
  <2>3. /\ v \in Viewing /\ v.at = "listed" /\ v.of = "uncommitted" /\ v.quiet = view.quiet
        /\ v.found = view.found \cup R!Changed
    BY <1>2, <1>3, <2>1, <2>2 DEF Viewing, Places
  <2>4. OnItsWay(v) /\ (v.quiet => StillTrue(v))
    BY <1>1, <1>3, <2>3 DEF OnItsWay, StillTrue
  <2>5. QED
    BY <2>1, <2>4, SeeStep
<1>4. CASE view.of = "dir"
  <2>1. PICK at : at = IF \A p \in view.found : R!Exists(p) THEN "listed" ELSE "error"
    OBVIOUS
  <2>2. PICK v : v = [view EXCEPT !.at = at]
    OBVIOUS
  <2>3. R!See(v)
    BY <1>4, <2>1, <2>2 DEF R!ListRest
  <2>4. v \in Viewing
    BY <1>2, <2>1, <2>2 DEF Viewing, Places
  <2>5. /\ v.at = at /\ v.of = "dir" /\ v.quiet = view.quiet
        /\ v.found = view.found /\ v.path = view.path
    BY <1>2, <1>4, <2>2, <2>4, GoOn
  <2>6. OnItsWay(v)
    BY <1>1, <2>1, <2>4, <2>5 DEF OnItsWay
  <2>7. v.quiet => StillTrue(v)
    BY <1>1, <1>2, <1>4, <2>1, <2>5 DEF OnItsWay, StillTrue, R!Exists, Viewing
  <2>8. QED
    BY <2>3, <2>6, <2>7, SeeStep
<1>5. QED
  BY <1>2, <1>3, <1>4 DEF Viewing

\* Asking for a path, of a list or any other.
LEMMA AskStep == ASSUME RepoInv, NEW p \in Paths, R!Ask(p) PROVE RepoInv'
<1>1. view # None /\ view.at = "listed" /\ OnItsWay(view) /\ (view.quiet => StillTrue(view))
  BY DEF R!Ask, RepoInv
<1>2. PICK at : at = IF view.of = "dir" THEN "resolve" ELSE "confine"
  OBVIOUS
<1>3. PICK v : v = [view EXCEPT !.path = p, !.at = at]
  OBVIOUS
<1>4. R!See(v)
  BY <1>2, <1>3 DEF R!Ask
<1>5. /\ v \in Viewing /\ v.at = at /\ v.of = view.of /\ v.quiet = view.quiet
      /\ v.found = view.found /\ v.path = p /\ v.commit = view.commit
  BY <1>1, <1>2, <1>3 DEF OnItsWay, Viewing, Places
<1>6. OnItsWay(v) /\ (v.quiet => StillTrue(v))
  BY <1>1, <1>2, <1>5 DEF OnItsWay, StillTrue
<1>7. QED
  BY <1>4, <1>6, SeeStep

\* The visit as it is, but for its place.
Moved(v, at) ==
  /\ v \in Viewing /\ v.at = at
  /\ v.of = view.of /\ v.commit = view.commit /\ v.found = view.found /\ v.path = view.path
  /\ v.seen = view.seen /\ v.diff = view.diff /\ v.quiet = view.quiet

LEMMA MoveStep ==
  ASSUME RepoInv, view # None, NEW at \in Places, R!See([view EXCEPT !.at = at]),
         ASSUME NEW v, Moved(v, at) PROVE OnItsWay(v) /\ (v.quiet => StillTrue(v))
  PROVE  RepoInv'
<1>1. view \in Viewing
  BY DEF RepoInv, OnItsWay
<1>2. PICK v : v = [view EXCEPT !.at = at]
  OBVIOUS
<1>3. v \in Viewing
  BY <1>1, <1>2 DEF Viewing, Places
<1>4. Moved(v, at)
  BY <1>1, <1>2, <1>3, GoOn DEF Moved
<1>5. OnItsWay(v) /\ (v.quiet => StillTrue(v))
  BY <1>4
<1>6. QED
  BY <1>2, <1>5, SeeStep

\* What a visit at one place knows.
LEMMA Knows ==
  ASSUME RepoInv, view # None
  PROVE  view \in Viewing /\ OnItsWay(view) /\ (view.quiet => StillTrue(view))
  BY DEF RepoInv, OnItsWay

LEMMA ConfineStep == ASSUME RepoInv, R!Confine PROVE RepoInv'
<1>1. view # None /\ view.at = "confine"
  BY DEF R!Confine
<1>2. PICK at : at = IF work[view.path] = "out" THEN "missing"
                     ELSE IF view.of = "uncommitted" THEN "untracked" ELSE "committed"
  OBVIOUS
<1>3. at \in Places /\ R!See([view EXCEPT !.at = at])
  BY <1>2 DEF R!Confine, Places
<1>4. ASSUME NEW v, Moved(v, at) PROVE OnItsWay(v) /\ (v.quiet => StillTrue(v))
  BY <1>1, <1>2, <1>4, Knows DEF Moved, OnItsWay, StillTrue, Viewing
<1>5. QED
  BY <1>1, <1>3, <1>4, MoveStep

LEMMA CheckChangedStep == ASSUME RepoInv, R!CheckChanged PROVE RepoInv'
<1>1. view # None /\ view.at = "changed"
  BY DEF R!CheckChanged
<1>2. PICK at : at = IF view.seen \/ view.path \in R!Changed THEN "which" ELSE "missing"
  OBVIOUS
<1>3. at \in Places /\ R!See([view EXCEPT !.at = at])
  BY <1>2 DEF R!CheckChanged, Places
<1>4. ASSUME NEW v, Moved(v, at) PROVE OnItsWay(v) /\ (v.quiet => StillTrue(v))
  BY <1>1, <1>2, <1>4, Knows DEF Moved, OnItsWay, StillTrue, Viewing
<1>5. QED
  BY <1>1, <1>3, <1>4, MoveStep

LEMMA ChooseDiffStep == ASSUME RepoInv, R!ChooseDiff PROVE RepoInv'
<1>1. view # None /\ view.at = "which"
  BY DEF R!ChooseDiff
<1>2. PICK at : at = R!Which(view.path)
  OBVIOUS
<1>3. at \in Places /\ R!See([view EXCEPT !.at = at])
  BY <1>2 DEF R!ChooseDiff, R!Which, Places
<1>4. ASSUME NEW v, Moved(v, at) PROVE OnItsWay(v) /\ (v.quiet => StillTrue(v))
  BY <1>1, <1>2, <1>4, Knows DEF Moved, OnItsWay, StillTrue, Viewing, R!Which
<1>5. QED
  BY <1>1, <1>3, <1>4, MoveStep

LEMMA LinkFileStep == ASSUME RepoInv, R!LinkFile PROVE RepoInv'
<1>1. view # None /\ view.at = "link"
  BY DEF R!LinkFile
<1>2. PICK at : at = IF R!Exists(view.path) THEN "linked" ELSE "shown"
  OBVIOUS
<1>3. at \in Places /\ R!See([view EXCEPT !.at = at])
  BY <1>2 DEF R!LinkFile, Places
<1>4. ASSUME NEW v, Moved(v, at) PROVE OnItsWay(v) /\ (v.quiet => StillTrue(v))
  BY <1>1, <1>2, <1>4, Knows DEF Moved, OnItsWay, StillTrue, Viewing
<1>5. QED
  BY <1>1, <1>3, <1>4, MoveStep

\* The file browser: from a link of the page, or from the directory.
LEMMA BrowseStep ==
  ASSUME RepoInv, R!FollowLink \/ R!Resolve \/ R!Read PROVE RepoInv'
<1>1. CASE R!FollowLink
  <2>1. view # None /\ view.at = "linked" /\ R!See([view EXCEPT !.at = "resolve"])
    BY <1>1 DEF R!FollowLink
  <2>2. ASSUME NEW v, Moved(v, "resolve") PROVE OnItsWay(v) /\ (v.quiet => StillTrue(v))
    BY <2>1, <2>2, Knows DEF Moved, OnItsWay, StillTrue, Viewing
  <2>3. "resolve" \in Places
    BY DEF Places
  <2>4. QED
    BY <2>1, <2>2, <2>3, MoveStep
<1>2. CASE R!Resolve
  <2>1. view # None /\ view.at = "resolve"
    BY <1>2 DEF R!Resolve
  <2>2. PICK at : at = IF work[view.path] = "out" \/ ~R!Exists(view.path) THEN "missing"
                       ELSE "read"
    OBVIOUS
  <2>3. at \in Places /\ R!See([view EXCEPT !.at = at])
    BY <1>2, <2>2 DEF R!Resolve, Places
  <2>4. ASSUME NEW v, Moved(v, at) PROVE OnItsWay(v) /\ (v.quiet => StillTrue(v))
    BY <2>1, <2>2, <2>4, Knows DEF Moved, OnItsWay, StillTrue, Viewing
  <2>5. QED
    BY <2>1, <2>3, <2>4, MoveStep
<1>3. CASE R!Read
  <2>1. view # None /\ view.at = "read"
    BY <1>3 DEF R!Read
  <2>2. PICK at \in {"opened", "error", "missing"} :
          /\ R!See([view EXCEPT !.at = at])
          /\ at # "opened" => ~R!Exists(view.path)
    BY <1>3 DEF R!Read
  <2>3. ASSUME NEW v, Moved(v, at) PROVE OnItsWay(v) /\ (v.quiet => StillTrue(v))
    BY <2>1, <2>2, <2>3, Knows DEF Moved, OnItsWay, StillTrue, Viewing
  <2>4. at \in Places
    BY DEF Places
  <2>5. QED
    BY <2>1, <2>2, <2>3, <2>4, MoveStep
<1>4. QED
  BY <1>1, <1>2, <1>3

LEMMA CheckUntrackedStep == ASSUME RepoInv, R!CheckUntracked PROVE RepoInv'
<1>1. view # None /\ view.at = "untracked"
  BY DEF R!CheckUntracked
<1>2. PICK seen \in BOOLEAN : seen <=> view.path \in R!Untracked
  OBVIOUS
<1>3. PICK v : v = [view EXCEPT !.seen = view.path \in R!Untracked, !.at = "changed"]
  OBVIOUS
<1>4. R!See(v)
  BY <1>3 DEF R!CheckUntracked
<1>5. /\ v \in Viewing /\ v.at = "changed" /\ (v.seen <=> view.path \in R!Untracked)
      /\ v.of = view.of /\ v.quiet = view.quiet
      /\ v.found = view.found /\ v.path = view.path /\ v.commit = view.commit
  BY <1>1, <1>2, <1>3, Knows DEF Viewing, Places
<1>6. OnItsWay(v) /\ (v.quiet => StillTrue(v))
  BY <1>1, <1>5, Knows DEF OnItsWay, StillTrue
<1>7. QED
  BY <1>4, <1>6, SeeStep

\* A diff of what differs, or of what no longer does.
LEMMA DiffStep ==
  ASSUME RepoInv, view # None, view.at \in {"committed", "new", "head"},
         NEW diff \in (What \X What) \cup {None},
         R!See([view EXCEPT !.at = "link", !.diff = diff]),
         diff = None => view.of = "uncommitted" /\ ~view.quiet
  PROVE  RepoInv'
<1>1. PICK v : v = [view EXCEPT !.at = "link", !.diff = diff]
  OBVIOUS
<1>2. /\ v \in Viewing /\ v.at = "link" /\ v.diff = diff
      /\ v.of = view.of /\ v.quiet = view.quiet
      /\ v.found = view.found /\ v.path = view.path /\ v.commit = view.commit
  BY <1>1, Knows DEF Viewing, Places
<1>3. OnItsWay(v) /\ (v.quiet => StillTrue(v))
  BY <1>2, Knows DEF OnItsWay, StillTrue
<1>4. QED
  BY <1>1, <1>3, SeeStep

LEMMA DiffCommitStep == ASSUME RepoInv, R!DiffCommit PROVE RepoInv'
<1>1. view # None /\ view.at = "committed" /\ view.of = "commit" /\ view.path \in Paths
      /\ view.commit \in 1..Len(commits) /\ view.found = R!CommitFiles(view.commit)
  BY Knows DEF R!DiffCommit, OnItsWay
<1>2. CASE view.path \in R!CommitFiles(view.commit)
  <2>1. PICK k \in 1..Len(commits), p \in Paths : k = view.commit /\ p = view.path
    BY <1>1
  <2>2. k - 1 \in 0..Len(commits) /\ k \in 0..Len(commits)
    BY <2>1 DEF RepoInv
  <2>3. R!Tree(k - 1)[p] \in What /\ R!Tree(k)[p] \in What
    BY <2>2, Trees
  <2>4. PICK diff : diff = R!Between(R!Tree(k - 1)[p], R!Tree(k)[p])
    OBVIOUS
  <2>5. R!Tree(k - 1)[p] # R!Tree(k)[p]
    BY <1>2, <2>1 DEF R!CommitFiles, R!Listed
  <2>6. diff \in (What \X What) \cup {None} /\ diff # None
    BY <2>3, <2>4, <2>5, Differing
  <2>7. R!See([view EXCEPT !.at = "link", !.diff = diff])
    <3>1. R!See([view EXCEPT !.diff = diff, !.at = "link"])
      BY <1>2, <2>1, <2>4 DEF R!DiffCommit
    <3>2. [view EXCEPT !.diff = diff, !.at = "link"] = [view EXCEPT !.at = "link", !.diff = diff]
      BY <1>1, Knows DEF Viewing
    <3>3. QED
      BY <3>1, <3>2
  <2>8. QED
    BY <1>1, <2>6, <2>7, DiffStep
<1>3. CASE view.path \notin R!CommitFiles(view.commit)
  <2>1. R!See([view EXCEPT !.at = "missing"])
    BY <1>3 DEF R!DiffCommit
  <2>2. ASSUME NEW v, Moved(v, "missing") PROVE OnItsWay(v) /\ (v.quiet => StillTrue(v))
    BY <1>1, <1>3, <2>2, Knows DEF Moved, OnItsWay, StillTrue, Viewing
  <2>3. "missing" \in Places
    BY DEF Places
  <2>4. QED
    BY <1>1, <2>1, <2>2, <2>3, MoveStep
<1>4. QED
  BY <1>2, <1>3

\* Of what still differs the diff is not empty.
LEMMA DiffUncommittedStep == ASSUME RepoInv, R!DiffUncommitted PROVE RepoInv'
<1>1. view # None /\ view.at \in {"new", "head"} /\ view.of = "uncommitted" /\ view.path \in Paths
  BY Knows DEF R!DiffUncommitted, OnItsWay
<1>2. PICK p \in Paths : p = view.path
  BY <1>1
<1>3. PICK old, new : /\ old = IF view.at = "new" THEN None ELSE R!Tree(Len(commits))[p]
                      /\ new = IF view.at = "new" THEN work[p] ELSE R!InTree(p)
  OBVIOUS
<1>4. Len(commits) \in 0..Len(commits)
  BY DEF RepoInv
<1>5. old \in What /\ new \in What
  <2>1. R!Tree(Len(commits))[p] \in What /\ R!InTree(p) \in What
    BY <1>4, Trees
  <2>2. None \in What /\ work[p] \in What
    BY DEF RepoInv, FileTree, What
  <2>3. QED
    BY <1>3, <2>1, <2>2
<1>6. R!See([view EXCEPT !.at = "link", !.diff = R!Between(old, new)])
  BY <1>1, <1>2, <1>3 DEF R!DiffUncommitted
<1>7. view.quiet => old # new
  <2>1. CASE view.quiet /\ view.at = "new"
    BY <1>1, <1>2, <1>3, <2>1, Knows DEF StillTrue, R!Untracked
  <2>2. CASE view.quiet /\ view.at = "head"
    <3>1. view.path \in R!Changed
      BY <1>1, <2>2, Knows DEF StillTrue
    <3>2. QED
      BY <1>2, <1>3, <2>2, <3>1 DEF R!Changed, R!Listed
  <2>3. QED
    BY <1>1, <2>1, <2>2
<1>8. R!Between(old, new) \in (What \X What) \cup {None}
      /\ (view.quiet => R!Between(old, new) # None)
  BY <1>5, <1>7, Differing
<1>9. QED
  BY <1>1, <1>6, <1>8, DiffStep

LEMMA RepoStep == ASSUME RepoInv, [R!Next]_(R!repoVars) PROVE RepoInv'
<1>1. CASE R!Leave
  BY <1>1, SeeStep DEF R!Leave
<1>2. CASE UNCHANGED R!repoVars
  BY <1>2 DEF R!repoVars, RepoInv, OnItsWay, StillTrue, R!CommitFiles, R!Tree, R!Untracked,
    R!Changed, R!InTree, R!Exists
<1>3. QED
  BY <1>1, <1>2, TreeStep, OpenStep, ListRestStep, AskStep, ConfineStep, DiffCommitStep,
    CheckUntrackedStep, CheckChangedStep, ChooseDiffStep, DiffUncommittedStep, LinkFileStep,
    BrowseStep DEF R!Next

\* What a list names opens: as long as nobody works on the tree its diff shows
\* a difference and its link a file, and of a commit it does so anyway
\* (diff_uncommitted, diff_commit, git_data.py; list_entries, files.py).
THEOREM ListsOpen == Spec => []ListedOpens
<1>1. Init => RepoInv
  <2>1. Init => work \in FileTree /\ index \in FileTree
    BY DEF Init, R!Init, R!Empty, FileTree, What
  <2>2. QED
    BY <2>1 DEF Init, R!Init, RepoInv
<1>2. RepoInv /\ [Next]_partsVars => RepoInv'
  BY RepoStep, RepoMoves
<1>3. RepoInv => ListedOpens
  BY DEF RepoInv, OnItsWay, StillTrue, ListedOpens, R!ListedOpens
<1>4. QED
  BY <1>1, <1>2, <1>3, PTL DEF Spec

=============================================================================
