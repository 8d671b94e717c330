------------------------------- MODULE Parts -------------------------------
(***************************************************************************)
(* The ten parts that share no state with each other, in one module: a      *)
(* behaviour picks one of them and stays with it. The properties are those  *)
(* of the modules.                                                          *)
(***************************************************************************)
EXTENDS Naturals, Sequences

CONSTANTS
  None,
  MaxRows, MaxReseeds, PageSize, KindOf, AllKinds,         \* NotificationList
  Slugs, Crons, MaxSeeds,                                  \* Facts
  DefaultWindow, LastTime, MaxUploads,                     \* Downloads
  Creators, MaxTodos,                                      \* Todos
  Names, Contents,                                         \* KeptDatabase
  Errors, RateLimit, WindowSecs, LastSecond, MaxHits,      \* ClientErrors
  PerPage, Orphans, MaxRowIds, MaxStamp,                   \* Listings
  Classes, Fns, MaxCalls,                                  \* SdkModels
  Paths, Texts, MaxEdits,                                  \* RepoViewers
  Renders, MaxBuilds                                       \* PageAssets

\* None stands for what is not there, beside what may be.
ASSUME AssetAssumption == MaxBuilds \in Nat /\ None \notin Nat \cup {"clear", "collect"}
ASSUME ListAssumption ==
  LET Kinds == {AllKinds} \cup {KindOf[r] : r \in 1..MaxRows}
      Answer == [kind : Kinds, items : Seq(Nat), more : BOOLEAN, read : SUBSET Nat,
                 known : SUBSET Nat]
  IN  MaxRows \in Nat /\ PageSize \in Nat \ {0} /\ None \notin [kind : Kinds] \cup Answer
ASSUME FactAssumption ==
  LET Topic == [slug : Slugs, seed : Nat]
      Fact == [topic : Topic, seed : Nat]
  IN  None \notin Topic \cup Fact \cup [fact : Fact \cup {None}]
ASSUME DownloadAssumption == DefaultWindow \in Nat /\ LastTime \in Nat
ASSUME KeptAssumption ==
  None \notin [full : BOOLEAN, keep : BOOLEAN, at : {"setup", "tests", "mark"}]
ASSUME ListingAssumption == PerPage \in Nat \ {0} /\ Orphans \in Nat
ASSUME SdkAssumption == Classes \subseteq Nat /\ None \notin Classes
ASSUME RepoAssumption ==
  LET What == Texts \cup {"out", "dangling", None} IN None \notin What \X What
ASSUME ErrorAssumption == WindowSecs \in Nat \ {0}

VARIABLES
  part,
  rows, unread, next, pending, list, hasMore, kind, epoch, load, reload, read, act, known,
  mistaken, swept, stranded,
  topics, facts, daily, seed, seeds, picks, visit,
  clock, uploads, downloads, sweep, deleting,
  todos, notes, told, creating,
  tree, database, marker, suite, disturbed,
  second, bucket, slot, post, logged, late,
  table, made, stamp, walk,
  fields, models, adding, calls, skipped, emitted, stage,
  work, index, commits, edits, view,
  manifest, static, deploy, cached, render

listState == <<rows, unread, next, pending, list, hasMore, kind, epoch, load, reload, read,
               act, known, mistaken, swept, stranded>>
factsState == <<topics, facts, daily, seed, seeds, picks, visit>>
downloadState == <<clock, uploads, downloads, sweep, deleting>>
todoState == <<todos, notes, told, creating>>
keptState == <<tree, database, marker, suite, disturbed>>
errorState == <<second, bucket, slot, post, logged, late>>
tableState == <<table, made, stamp, walk>>
sdkState == <<fields, models, adding, calls, skipped, emitted, stage>>
repoState == <<work, index, commits, edits, view>>
assetState == <<manifest, static, deploy, cached, render>>

N == INSTANCE NotificationList
F == INSTANCE Facts
D == INSTANCE Downloads
T == INSTANCE Todos
K == INSTANCE KeptDatabase
E == INSTANCE ClientErrors
L == INSTANCE Listings
S == INSTANCE SdkModels
R == INSTANCE RepoViewers
A == INSTANCE PageAssets

Init ==
  /\ part \in {"list", "facts", "downloads", "todos", "kept", "errors", "tables", "sdk",
               "repo", "assets"}
  /\ N!Init /\ (part # "list" => rows = {})
  /\ F!Init /\ D!Init /\ T!Init /\ K!Init /\ E!Init /\ L!Init /\ S!Init /\ R!Init /\ A!Init

Step ==
  \/ /\ part = "list" /\ N!Next
     /\ UNCHANGED <<factsState, downloadState, todoState, keptState, errorState, tableState,
                    sdkState, repoState, assetState>>
  \/ /\ part = "facts" /\ F!Next
     /\ UNCHANGED <<listState, downloadState, todoState, keptState, errorState, tableState,
                    sdkState, repoState, assetState>>
  \/ /\ part = "downloads" /\ D!Next
     /\ UNCHANGED <<listState, factsState, todoState, keptState, errorState, tableState,
                    sdkState, repoState, assetState>>
  \/ /\ part = "todos" /\ T!Next
     /\ UNCHANGED <<listState, factsState, downloadState, keptState, errorState, tableState,
                    sdkState, repoState, assetState>>
  \/ /\ part = "kept" /\ K!Next
     /\ UNCHANGED <<listState, factsState, downloadState, todoState, errorState, tableState,
                    sdkState, repoState, assetState>>
  \/ /\ part = "errors" /\ E!Next
     /\ UNCHANGED <<listState, factsState, downloadState, todoState, keptState, tableState,
                    sdkState, repoState, assetState>>
  \/ /\ part = "tables" /\ L!Next
     /\ UNCHANGED <<listState, factsState, downloadState, todoState, keptState, errorState,
                    sdkState, repoState, assetState>>
  \/ /\ part = "sdk" /\ S!Next
     /\ UNCHANGED <<listState, factsState, downloadState, todoState, keptState, errorState,
                    tableState, repoState, assetState>>
  \/ /\ part = "repo" /\ R!Next
     /\ UNCHANGED <<listState, factsState, downloadState, todoState, keptState, errorState,
                    tableState, sdkState, assetState>>
  \/ /\ part = "assets" /\ A!Next
     /\ UNCHANGED <<listState, factsState, downloadState, todoState, keptState, errorState,
                    tableState, sdkState, repoState>>

Next == Step /\ UNCHANGED part

partsVars == <<part, listState, factsState, downloadState, todoState, keptState, errorState,
               tableState, sdkState, repoState, assetState>>

Spec == Init /\ [][Next]_partsVars

-----------------------------------------------------------------------------
(* The properties of the modules                                             *)

\* NotificationList: no row of the list stays out of the user's reach.
NothingHidden == N!NothingHidden
\* NotificationList: what the page shows as read is read.
ReadIsTrue == N!ReadIsTrue
\* NotificationList: the walk shows no row twice nor out of order.
NewestFirstOnce == N!NewestFirstOnce
\* Facts: the catalogue is only ever seen whole.
PagesHangTogether == F!PagesHangTogether
\* Facts: the pick of the day is only lost to a seed that clears all facts.
PickKept == F!PickKept
\* Downloads: a link lives exactly its time.
ExpiryKept == D!ExpiryKept
\* Todos: nobody is told of a todo that is not there.
ToldOnlyOfTodos == T!ToldOnlyOfTodos
\* KeptDatabase: tests run on a database of the migrations at hand.
TestsRunOnTheirSchema == K!TestsRunOnTheirSchema
\* ClientErrors: nobody is shut out for longer than the window.
WindowKeepsItsEnd == E!WindowKeepsItsEnd
\* ClientErrors: an error that the server has acknowledged is not sent again.
AnsweredNotResent == E!AnsweredNotResent
\* Listings: who walks to the last page has seen every row that stayed.
WalkMissesNothing == L!WalkMissesNothing
\* SdkModels: each model is declared, once, before it is named.
DependenciesFirst == S!DependenciesFirst
\* RepoViewers: what a list names opens.
ListedOpens == R!ListedOpens
\* PageAssets: once a deploy is through, every page loads.
PagesLoad == A!PagesLoad

=============================================================================
