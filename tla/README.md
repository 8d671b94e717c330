# Verification of desmo

desmo is a Django 6 application served by granian, with Inertia/Vue pages, Huey
background tasks, Postgres and Redis, and an operations layer (`ops/`, `run`)
through which an agent edits a scratch copy of the tree and deploys it over the
live one. This directory holds TLA+ models of the parts of it that keep state
and share it, TLC configurations that check them on small instances, and proofs
checked by TLAPS. Paths below are relative to the repository.

## 1. The system

| part | state | operations | what is hard |
|---|---|---|---|
| Tracked writes, `djangoapp/models/base.py` | rows with a `row_version`, `BaseModelUpdateLog`, stored files | `save_plus`, `delete_plus`, called by every view and task that writes | load, lock, write and clean-up are apart; files are deleted after the commit; names are reused |
| Login links, `models/login_key.py`, `views/users.py` | `LoginKey` rows | `issue` (sweep, insert), `redeem`, then `auth_login` | two requests with one link; the sweep beside a redemption; death between commit and login |
| Accounts, `models/base.py`, `views/users.py`, `adapters.py`, two commands | `User` rows and `UserHistory` | edit form, `createuser`, `promotetosuperuser`, social signup | checks and full-row saves are apart, with no lock |
| Sessions, `middleware.py`, `models/base.py`, `views/users.py`, `ourapp/tasks.py` | session rows, `UserSessionIndex` rows with a copy of the deadline, the `just_logged_in` flag | login, idle touch, page render, logout, "log out everywhere", nightly sweep | one deadline in two places, moved by several middlewares |
| Web Push, `models/notifications.py`, `views/notifications.py`, `djangoapp/tasks.py` | `Notification`, `PushSubscription` rows | `subscribe`, `unsubscribe`, `record`, `deliver_push` | rebinding between sessions; a fan-out that works from rows read long ago; the cascade from sessions |
| Scratch and deploy, `ops/scratch.py`, `run`, `deploy/*.in` | two trees, a baseline, two bundles, the static root, the schema, the last backup, two services | `createscratch`, `deployscratch`, `cleanscratch`, the backup unit | any step may fail; main/ is edited and committed meanwhile; backups run beside |
| Notification list, `views/notifications.py`, `Notifications.vue` | the user's rows; on the page a list, a cursor, an epoch, one action in flight | paging, "Load more", filter, mark read, delete, clear, partial reload | a walk over a list that others change; answers that arrive after the list was replaced |
| Client errors, `views/client_errors.py`, `utils/clientError.ts` | an hourly counter in Redis, the page's slot for an unanswered report | report, limit, answer, beacon | a beacon that repeats a POST; one slot for several reports |
| Paged listings, `views/manage.py`, `views/users.py`, `views/git_data.py` | none: a table that others change | order, count, slice, next page | a page is two statements, a walk many pages |
| Repository viewers, `views/files.py`, `views/git.py`, `views/git_data.py` | none: a worktree, an index and a history that others change | lists, diffs, the file browser | one answer is several questions to git and the disk |
| Page bundles, `templatetags/app_static.py` | the manifest cache of a process | three look-ups per render | threads share the cache while a deploy replaces the file and empties /static/ |
| SDK generation, `management/commands/generatesdk.py` | the models collected, the order they are written in | collect, render | collection and rendering do not see the same references |
| Test database reuse, `ops/testsuite.py` | a marker and a database | runs of the suites | a run that fails or is killed between the two |
| Example app, `docs/reference/ourapp/` | topics, facts, the fact of the day; downloads with a deadline; todos with a notification | seed, nightly pick, pages; upload, gate, delete, sweep; create | a seed that replaces all under readers and the task; a sweep beside admins; one request's two rows and its push |
| The rest: shell and shared props, log viewer, framework checks, provisioning and restore scripts, other Vue components | none that outlives a request or a run | | |

They interact through the database: a session's end takes its index row and,
through it, its push subscription along (`on_delete=CASCADE` twice); a login
link opens a session; force_logout reads the index that the middleware keeps;
the views of the example app are the callers of the tracked writes. Request
threads and Huey workers run concurrently under READ COMMITTED with autocommit:
what is not inside `transaction.atomic()` is a step of its own per statement,
and so it is in the models.

`PROJECT.json` lists, under "hazards", what is hard to test in this code, at its
line, with the properties that watch over it or the reason why none does.

## 2. The modules

| module | models | correspondence |
|---|---|---|
| `AuditLog` | audit entries, the diff of two snapshots | `_diff_snapshots`, the no-op rule of `save_plus` |
| `AuditedRows` | abstract: what the tracked pair promises | one atomic step per create, edit, delete |
| `TrackedRow` | `save_plus`, `delete_plus`, their callers | the caller's load (`LoadTo...`), `select_for_update` (`LockTo...`, `Refuse`), the save and purge (`Save`, `Purge`), the commits, `_queue_file_deletion` (`RunCallback`), failure anywhere (`Abort`) |
| `TrackedRowProperties` | its properties, its refinement and its inductive invariant | |
| `TrackedRowProofs` | theorems about it | |
| `OneTimeKeys` | abstract: a link is new, open, spent, gone | `Issue`, `Spend`, `Settle`, `Withdraw` |
| `LoginKeys` | `LoginKey.issue`, `redeem`, `redeem_login_key` | `BeginIssue`, `Sweep`, `Create`; `Present`, `Select`/`Refuse`, `Consume`, `Login` |
| `LoginKeyProperties`, `LoginKeyProofs` | properties, refinement, invariant; theorems | |
| `Sessions`, `SessionProperties` | sessions, index, middlewares, force_logout, the sweep | `TouchRead`, `Backfill`, `Touch` are `SessionIdleTouchMiddleware.process_response`; `Pops` and `Save` the way out through `SharedPropsMiddleware` and Django's `SessionMiddleware`; `Collect`, `EndSessions` are `force_logout` |
| `UserAdmin` | the two flags that gate management, and the audit | `Admit`, `LoadToEdit`, `Save`, `Record` are `edit_submit` and `User.update`; `CheckFirst`, `Create` are `create_by_email` |
| `DeployScratch` | the scratch loop, the backup unit, the supervisor | one action per command of the pipeline in `Deployscratch.run` |
| `PushDelivery` | subscriptions and the fan-out | `IndexSession`, `DropStale`, `Bind` are the three statements of `subscribe`; `ReadRows`, `Push`, `Prune` are `notify_sessions` and `_deliver` |
| `NotificationList` | the list on the server and on the page | `ServePage`, `ServeMore`, `ServeAct` are the server's half of a call, `ShowPage`, `AppendMore`, `ShowAct` the page's; `Draw`, `Commit` are `Notification.record` inside somebody's transaction |
| `ClientErrors` | reporter and limiter | `Report`, `Answer`, `Fail`, `Hide` are `clientError.ts`; `Submit`, `Hit`, `Limited` the view |
| `Listings` | pages of a table (the users by name, without a search) | `Count` and `Show` are the two statements of a page |
| `RepoViewers` | lists, diffs, the file browser | one action per question to git or the disk; `Listed` leaves the old side of a rename out, as `_diff_path` does |
| `PageAssets` | manifest cache, deploy, renders | `Stat`, `ReadManifest`, `Store` are `_load_manifest` |
| `SdkModels` | `generatesdk` | `Enter`, `Skip` and `Leave` are `_ModelSet.add`, its recursion a stack of calls under way (`adding`); `Emit` is one turn of `render`'s loop, which lengthens the list it runs over |
| `KeptDatabase` | marker and test database | `StartSuite`, `SetUp`, `TearDown`, `WriteMarker`, `Kill` |
| `Facts`, `Downloads`, `Todos` | the example app | one action per statement that others can come between; what the saves do to rows, versions and files is `TrackedRow`'s |
| `Parts` | the ten modules from `NotificationList` to `Todos` in one | a behaviour picks a part and stays with it, since they share nothing |
| `SessionProofs`, `RebindProofs`, `DeployProofs`, `UserAdminProofs` | theorems about `Sessions`, `PushDelivery`, `DeployScratch`, `UserAdmin` | |
| `PartsProofs`, `ListProofs` | theorems about `Parts`: `ListProofs` those on `NotificationList` and `Listings`, `PartsProofs` the others | |
| `MC...` | finite instances | |

A proof module holds its inductive invariants, unless they stand with the
properties, as those of `TrackedRow` do.

Definitions marked *Fault* are deliberate mistakes (a dropped lock, a missing
check, a swapped order); no specification uses them. For each property there is
one that, put in the place of the definition it perturbs, breaks the property
(`PROJECT.json`, "mutants").

Abstractions worth knowing: a row is a version, a few small data columns and one
file column; the name the storage gives an upload is any free one, and a freed
name may be given again; a one-time key is its row's identity, its hash is left
out; a session's contents are its user and one flag; an account is two flags;
a tree is the content of each of three files, one of each class the fast path
tells apart; the check battery is a verdict; a notification is its number, in
the order the UUID7s are drawn; a migration, a file and a build have a content
or a number, never a text. `NotificationList`, `Sessions`, `KeptDatabase`,
`Listings`, `RepoViewers`, `Facts`, `PageAssets` and `UserAdmin` keep variables
or fields that are no state of the code (`mistaken`, `swept` and `stranded`;
`upset` and `ahead`; `disturbed`, `cut`, `quiet`, `crossed`, `calm`, `torn`): each
records one of the few events that the code does not guard against, and to which
rows, sessions or accounts it happened; the property speaks of the others, or of
the time before. So each property also says that there is no further such event.

## 3. What the runs check

| run | instance | shows |
|---|---|---|
| `tracked_row_edits` | 3 callers, 1 row, 2 columns of 2 values, 3 versions | `AuditChain` (the history is complete and its diffs chain), `Erasure` (a deleted row leaves its tombstone only), `ImplementsAuditedRows` (every full-row save is an atomic edit of the current value: optimistic locking loses no update) |
| `tracked_row_files` | 2 callers, 2 rows, 3 file names, 1 version | `LiveFilesOnDisk`, `OneOwnerPerFile`, `NoOrphans` through commits, rollbacks, late clean-ups and reused names; `CallsReturn`; `TypeOK` |
| `login_keys` | 2 links, 2 requests, 1 browser, clock 0..4, lifetimes below, at and above the floor | `LoggedInOnce`, `SpentMeansLoggedIn`, `DeadlineKept`, `RequestsReturn`, `ImplementsOneTimeKeys` |
| `sessions` | 2 users, 2 session keys, 2 requests that overlap in the first window and come one by one after it, a window of 4 units, a clock that passes two windows | `EndedStaysEnded` (no late response brings an ended session back), `LagBounded`, `HalfWindowGuaranteed`, `DriftOnlyUndercounts` (the index never counts a dead session as live, drifted or not, but for what a request left that died before its save), `LogoutFindsSteady`, through re-armed and missed deadlines, expiry and the nightly sweep |
| `user_admin` | 2 accounts, 2 forms and 2 commands of which any two are at work together, forms that promote, demote, deactivate and change the rest, 2 entries after the creations, signups first or later | `OnlyStaleSavesLockOut` (the last manager goes only with a save whose viewer or row has changed since it was let in, or with a signup before any account), `BornAudited`, `TrailTells` (the audit of an account tells what its row is, wherever no two edits met) |
| `deploy` | a backend, a frontend and a docs file of two contents | `DeployTakesEffect` (whatever earlier deploys died at), `SafetyCopy`, `NoEditLost`; no deadlock |
| `push` | 2 users with a session each, 2 endpoints, 2 requests, 1 fan-out | `HangsOnSession`, `KeepsAnEndpoint` |
| `parts` | `NotificationList`: 3 rows of 2 kinds, chunks of one | `NothingHidden` (every row that was there when the list was read is on screen, gone, or still ahead of "Load more", whichever reloads, chunks and actions fail), `NewestFirstOnce`, `ReadIsTrue` (no unread row is shown as read, but for those that came between the server's "mark all read" and its answer) |
| | `Facts`: 2 topics, 3 seeds, 1 nightly task | `PagesHangTogether`, `PickKept` |
| | `Downloads`: 3 uploads, a clock 0..3 | `ExpiryKept` |
| | `Todos`: 2 requests, 2 todos | `ToldOnlyOfTodos` |
| | `KeptDatabase`: 2 migrations of 2 contents | `TestsRunOnTheirSchema` |
| | `ClientErrors`: 2 errors and strangers, a limit of 2, a clock of two windows | `WindowKeepsItsEnd`, `AnsweredNotResent` |
| | `Listings`: 3 rows, pages of 1 with 1 orphan, 7 orders | `WalkMissesNothing` |
| | `SdkModels`: 3 models with every mix of references, 2 calls | `DependenciesFirst` |
| | `RepoViewers`: 2 paths, 2 contents and 2 kinds of link, 5 steps of whoever edits | `ListedOpens` |
| | `PageAssets`: 2 threads, 3 builds | `PagesLoad` |

Four runs end in a violation: the code does what the model does, and a text in
the repository says otherwise ("findings" in `PROJECT.json` quotes it).

| run | trace |
|---|---|
| `tracked_row_reused_name` | `delete_plus` takes the file names from the instance loaded before the lock. A replace commits in between and deletes the old file; its name is given to another row's upload; the delete's own clean-up then deletes that live file. The replaced row's new file stays behind. |
| `sessions_missed` | The landing page pops `just_logged_in`, which saves the session with a new deadline; the index keeps the old one. After it has passed, "log out everywhere" passes the live, indexed session by. |
| `user_admin_demotions` | Two superusers demote each other at once; both were admitted, both full-row saves land, nobody is left. |
| `deploy_after_commit` | A backend change is committed in main/ beside a scratch tree. It is not dirty, so the guard passes; the rsync takes it out again, and the fast path of a frontend deploy neither migrates nor restarts. |

The instances of the passing runs leave out what those traces need, by named
constants, so that the rest is still checked: `Meetings = FALSE` (no delete and
replace of one row at a time) and `CommitsAnyTime = FALSE` (no commit beside a
scratch tree, or after a deploy that did not complete). In `user_admin` nothing is
left out: two forms and two commands meet and a signup may come first
(`SignupFirst`, which is FALSE only in `user_admin_demotions`, so that its trace
is that of the demotions), and `OnlyStaleSavesLockOut` says by which steps, and
no others, the right to manage is lost. Nor is anything in `sessions`: a variable
`upset` holds the sessions whose index row has parted from them through one of
three events (a request that died between the index update and the save, the
flag popped without a touch, a sign-in that could not be indexed), until the next
touch; `HalfWindowGuaranteed` and `LogoutFindsSteady` speak of the sessions outside
it, and so say that there is no fourth event. `DriftOnlyUndercounts` speaks of all
sessions: of the three events only the request that died lets the index count a
dead session as live (`ahead`, until the next save), and by less than a window.

Other departures from texts in the repository met while modelling, and left as
notes on hazards: an index row that a dead request left ahead of its session
overcounts; a social signup may make the first account; "Load more" is not
shown under an empty list, so a reload that fails after all rendered rows were
deleted leaves the older ones hidden (`NothingHidden` excepts it, `stranded`), as
does a late "clear all" the rows that came meanwhile (`swept`), and a late "mark
all read" shows such rows as read (`mistaken`); the deploy-loss guard
compares names, so an edit of a file that scratch/ changed too is overwritten
(`NoEditLost` excepts those files); scratch/ is read again by the rsync after
the battery; a non-ASCII file name is listed quoted on one side of the guard
only; a model that `generatesdk` meets only while rendering is written after the
const that names it (`DependenciesFirst` excepts those references); from the
rsync of a deploy to the end of collectstatic pages name bundles that are not
there (`PagesLoad` is about the time after it); the keepdb marker hashes the
migrations after the tests, not when the database was migrated.

### Bounds, and why they are enough

Two actors meet in every race of these protocols, each of which is a check, a
gap and an act of one actor with the act of another in the gap; three callers
stand where an actor waits for a lock that a second hands to a third. One row
suffices for edits, which touch no other; files need two rows, since they share
names, and three names, so that one is freed, one live and one being written.
Versions, edits and the clock are bounded where a counter would run on: a
client's stale version needs one bump, a touch needs more than half a window, a
sweep a deadline in the past. Deploys are not bounded: with two contents per
file any number of them, dead or complete, is explored. `MaxRows` lets a
subscription be deleted and inserted again, which a stale prune must survive.
In `sessions` requests overlap while the first window lasts, where all their
races can be had; the later windows are about the clock, for one request at a
time (`CrowdedEarly`). In `parts` a page holds one row and three rows exist, so
that a walk has a page behind it, one ahead and one being read; three models have
a chain and a diamond; three builds let a render overtake two deploys; five
edits let a file be made, staged, committed, changed and staged again, or be
renamed. In `user_admin` every race is one of two calls (`MaxAtWork`), of either
kind, with signups and events at any point.
Deadlock checking is off where a counter, the keys or the clock run out, and on
in `deploy`, where nothing does.

### Fairness

`FairSpec` of `TrackedRow` and `LoginKeys`: strong fairness of the lock step of
each call, since Postgres queues lock requests in order and every holder ends its
transaction; weak fairness of the work a call can do by itself, since a running
thread is scheduled. Nothing is assumed to begin a call, to fail, or not to. The
storage has a free name for an upload (`RoomForUpload`), as a file system has.

## 4. What is proved

For every value of the constants: any number of callers, requests, rows, files,
names, pages or threads, whatever bound a run needs. Each proof module states
an inductive invariant, shows that the initial states satisfy it and that every
action keeps it, and reads the properties off it.

- `TrackedRowProofs`: `WriteInvariant`, then `TypeCorrect`, `DeletesErase`
  (`Spec => []Erasure`) and `TrackedWritesAreAtomic`
  (`Spec => ImplementsAuditedRows`). The refinement is not inductive by itself:
  that a save is an edit of the current value rests on how fresh the caller's
  instance is. `WriteInv` says it: a call in a transaction holds its row's lock
  and only such calls hold one (`LocksHeld`); an instance in memory is as old as
  its version says, so that if the version is still the row's they differ by the
  call's own edit only (`LoadedFresh`); after the lock it differs from the row
  by that edit (`WriteFresh`); a key being created is nobody else's
  (`FreshKeys`); a row that is gone has no entry but the tombstone (`LogShape`).
  It covers the single writer that skips the version check as well
  (`SingleWriter`), which no run instantiates.
  `HistoriesAreComplete` (`Spec => []AuditChain`) is about logs of any length:
  a save appends at most one entry, whose diff starts at the row it locked, so
  the chain to the old row is lengthened to the new one.
- `TrackedRowProofs`, the files: `LiveFilesStay`, `NamesAreNotShared` and
  `NothingIsOrphaned` from `FileInv` (`FilesHaveOneOwner`): a name on disk
  belongs to one row, to one save that has not committed, or to one clean-up
  that has not run, unless its owner died, and what a clean-up will delete no
  row names. That needs the name a call has queued to be its row's still
  (`FilesFresh`), hence `~Meetings`, which the three theorems assume: where a
  delete and a replace of one row meet, it is not, and the run
  `tracked_row_reused_name` shows a live file deleted.
- `LoginKeyProofs`: `LinksOpenOnce` (`Spec => []LoggedInOnce`) and
  `LinksAreOneTimeKeys` (`Spec => ImplementsOneTimeKeys`) from `KeyInv`: a
  redemption holds its row's lock on an unused row until it commits, and a link
  owes or has opened one session at most, none before it is used. `LinkInv` adds
  that no clock reading is of the future, that a row expires when its link was
  said to and that a row that is gone had expired; from it follow
  `NoLinkWasted` (`SpentMeansLoggedIn`) and `LinksKeepTheirDeadline`.
- `SessionProofs`: `EndIsFinal`, `IndexLags`, `TouchKeepsHalf`,
  `IndexUndercounts` and `LogoutFinds`, all five properties of the run
  `sessions`, from `SessionInv`. The properties compare a session's deadline
  with its index row's between statements that move one and then the other. The
  invariant says what is true in between (`SessionOK`): both are at most a window
  ahead, the index row less than a window behind, the session not behind its row
  outside `ahead`, and outside `upset` they agree, each time unless a request that has moved the index is about to save the session
  (`Pending`); and what each request in flight still knows of its session
  (`Stands`), which is why a save that comes late does not undo another's touch.
  They ask for `Window > 1`: in a window of one unit a half is nothing.
- `RebindProofs`: `SubscriptionsHang` and `SubscribersKeepOne` from
  `RebindInv`: an index row has its session, a subscription its index row, no
  session has two endpoints, and a session that was promised an endpoint has
  one, or a request that is about to bind one, unless a request died.
- `DeployProofs`: `DeploysTakeEffect`, `MigratesHaveASnapshot`,
  `GuardKeepsEdits` from `LoopInv`. That a fast path may skip migrate and
  restarts after deploys that died anywhere rests on the guard meant for hand
  edits: what a dead deploy left in main/ is not committed, so it is dirty
  (`Dirty`), so it is in the changed-set of any deploy that passes the guard
  (`Listed`), so a backend file among it rules the fast path out. That chain
  needs the baseline to be main/'s HEAD, which is the assumption
  `~CommitsAnyTime` of the first theorem and what `deploy_after_commit` refutes
  without it. The other two theorems do without the assumption.
- `UserAdminProofs`: `AccountsAreBornAudited` and `TrailsTell` from `TrailInv`:
  an account that exists has its creation first in its audit, and outside
  `torn`, the accounts on which two edits have met or one has died, at most one
  edit has saved and not been recorded, every other is based on the row as it
  is, and the audit ends in the row, or in the row before the one save it
  still owes.
  `OnlyStaleSavesLock` (`Spec => OnlyStaleSavesLockOut`) from `WorkInv`: a form that
  has loaded holds what its viewer may save, a command what it loaded with the
  flag set, and a creation's fields were allowed beside the accounts there are,
  which never go. So a save leaves a manager as long as the viewer still manages
  (it is another account, or keeps its flags), or the row is as it was loaded;
  a creation adds a superuser or stands beside one. Nothing is assumed of how
  many forms and commands work together or of signups.
- `PartsProofs`, one invariant per part:
  - `PagesLoadAlways` (`AssetInv`): what a thread between `stat` and its store
    may hold, and how far the cache may be behind the manifest;
  - `KeptDatabaseIsTheTree` (`KeptInv`): outside `disturbed` the database is the
    marker's and, once a run has decided to keep it, the tree's;
  - `WindowEnds` (`BucketInv`), for every limit and every window of a second or
    more, and `AnswersEndIt` (`SlotInv`);
  - `CatalogueIsWhole` and `PicksAreKept` (`FactsInv`): the tables refer to what
    exists (`TablesWhole`), what a reseed has left to commit is whole and what a
    clearing one has deleted is all there was (`SeedWhole`), and what a page has
    found is still there unless such a reseed crossed it (`VisitWhole`);
  - `LinksLiveTheirTime` (`DownloadInv`): the sweep's list was due when it was
    read, and no number is given again, so that the rows which have come since
    are none of those it owes;
  - `TodosAreTold` (`TodoInv`): a todo and its notification become visible together,
    and a request between its commit and its push holds one that is there;
  - `ListsOpen` (`RepoInv`): what each kind of visit has read so far still holds while
    nobody works on the tree (`StillTrue`), step by step from the list to the
    file that is opened.
  - `SdkLoads` (`SdkInv`): calls of `add` stand inside each other in falling order
    of their classes (`Falls`), so a reference that is found done is in the list
    and not merely on its way; hence a class is appended after all it refers to
    (`Underway`, `OrderInv`), and what was asked for is in the list once the
    calls have returned (`AskedInv`). The models refer to lower numbers only:
    without a cycle, which no order could satisfy.
- `ListProofs`, for any number of rows and every size of a page:
  - `ReachIsNeverLost`, `ReadMarksAreTrue` and `WalkFallsOnly` from `ListInv`.
    Whatever the page, an answer or an act holds is settled: rows that are
    there or were (`Settled`), which those drawn later never meet. The list falls
    and marks no unread row as read that is not `mistaken` (`ScreenInv`); every row that was there at the
    last reload is on screen, gone, or older than the last row of a list that
    offers more, and will be when the answer under way is appended (`ReachInv`);
    a page on its way holds all of what the server had (`ReloadInv`), and one
    that is to be appended is older than the list it is for (`LoadInv`).
  - `WalksAreWhole` from `ListingInv`: what a walk still owes stands behind the pages it has
    passed. The place of a row is the number of rows before it, and unless the
    walk was cut across (`cut`) it only grows, whatever is made meanwhile.
  - They rest on lemmas about the models' operators, which hold for sequences
    of every length: sorting (`Sorting`, `NewestFirst`), cutting into pages
    (`ChunkFacts`, `PagesGrow`, `LastPage`), taking out and appending
    (`WithoutFacts`, `AppendFacts`), places (`PlaceFacts`, `SwapCounts`). Where
    they need induction, as for the existence of a sorted list, they take the
    least counterexample (`Smallest`), which is a statement about sets.

Assumptions are the named ones of the modules (`None` and `Upload` differ from
what they stand beside, there is a column and a value, the skipping writer is
single, the classes of files are apart, a page holds a row, numbers are natural),
which TLC
evaluates on every run, and those above that a theorem states itself; the runs
satisfy them too.

Only model-checked: liveness (`CallsReturn`, `RequestsReturn`), which rests on
ENABLED and is out of TLAPS's reach. Every other property of a passing run is a
theorem.

## 5. Not modelled

- Accounts: profile fields, the search and the duplicate-address check; of social
  signup all but the row it makes.
- Tracked writes: bulk `queryset.delete()`, which bypasses the tracked pair.
- Scratch and deploy: environment bootstrap, ownership sweeps, ignored files,
  `restoredb`, edits while a command runs, two lifecycle commands at once.
- Push: the encryption and the retries of a push service; in the browser the
  rotation of endpoints and `rebindAfterLogin`.
- Client errors: how texts are clamped and sanitised on their way to the log.
- Viewers: directory sizes, binary and media answers, byte ranges.
- `KeptDatabase`: two suites at once, which share one database and one marker.
- Provisioning and restore scripts, `settings.py`, the rendering shell and its
  shared props, the log viewer, the framework checks and the other Vue
  components: they keep no state that outlives a request or a run, or are I/O
  from end to end.

## 6. What is left

In this order, the most consequential first:

1. Abstract specifications: a session table with one deadline, which `Sessions`
   implements outside `upset`; an atomic rebind, which `PushDelivery`
   implements; `PushDelivery` over the real `Sessions` in the place of its own
   `status`.
2. The browser's half of push.
