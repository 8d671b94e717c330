--------------------------- MODULE KeptDatabase ---------------------------
(***************************************************************************)
(* The test database that runs of the suites hand on to each other          *)
(* (ops/testsuite.py): a marker vouches that it may be kept, by a hash of   *)
(* the migrations, while migrations are edited, and runs fail or are        *)
(* killed. A tree of migrations gives some names a content each; the        *)
(* database has the contents it was migrated with.                          *)
(***************************************************************************)
EXTENDS Naturals, FiniteSets

CONSTANTS Names, Contents, None

Trees == UNION {[S -> Contents] : S \in SUBSET Names}

VARIABLES
  tree,     \* the migrations in the tree
  database, \* None, or what has been applied to the test database
  marker,   \* None, or the tree whose hash it holds
  suite,    \* None, or the run: [full, keep, at]
  disturbed \* may a database be left that the marker does not know? (no state
            \* of the code: it names the two events that part them)

keptVars == <<tree, database, marker, suite, disturbed>>

Init ==
  /\ tree = [n \in {} |-> None]
  /\ database = None /\ marker = None /\ suite = None
  /\ disturbed = FALSE

\* An edit amid a run that keeps the database: the marker will be of a tree
\* that the database has not seen.
Edit(t) ==
  /\ t # tree
  /\ tree' = t
  /\ disturbed' = (disturbed \/ (suite # None /\ suite.keep))
  /\ UNCHANGED <<database, marker, suite>>

\* Fault: that there is a marker is enough.
HintIfMarked == marker # None

\* _keepdb_hint
Hint == marker = tree

\* Test.run, with --full or not, and Playwrighttest.run (which is never full).
StartSuite(full) ==
  /\ suite = None
  /\ suite' = [full |-> full, keep |-> ~full /\ Hint, at |-> "setup"]
  /\ UNCHANGED <<tree, database, marker, disturbed>>

\* migrate: what has been applied stays as it was, other names are applied.
Migrated(old) ==
  [n \in DOMAIN old \cup DOMAIN tree |-> IF n \in DOMAIN old THEN old[n] ELSE tree[n]]

\* Django keeps the database and migrates it, or makes it anew.
SetUp ==
  /\ suite # None /\ suite.at = "setup"
  /\ database' = IF suite.keep /\ database # None THEN Migrated(database) ELSE tree
  /\ suite' = [suite EXCEPT !.at = "tests"]
  /\ UNCHANGED <<tree, marker, disturbed>>

\* The tests are through, and Django drops a database that is not kept; a
\* failure ends the command.
TearDown(passed) ==
  /\ suite # None /\ suite.at = "tests"
  /\ database' = IF suite.keep THEN database ELSE None
  /\ disturbed' = (disturbed /\ suite.keep)
  /\ suite' = IF passed /\ ~suite.full THEN [suite EXCEPT !.at = "mark"] ELSE None
  /\ UNCHANGED <<tree, marker>>

\* _write_keepdb_marker hashes the tree once more.
WriteMarker ==
  /\ suite # None /\ suite.at = "mark"
  /\ marker' = tree
  /\ suite' = None
  /\ UNCHANGED <<tree, database, disturbed>>

\* A run that is killed amid the tests leaves its database behind.
Kill ==
  /\ suite # None
  /\ suite' = None
  /\ disturbed' = (disturbed \/ (suite.at = "tests" /\ ~suite.keep))
  /\ UNCHANGED <<tree, database, marker>>

Next ==
  \/ (\E t \in Trees : Edit(t))
  \/ (\E full \in BOOLEAN : StartSuite(full))
  \/ SetUp \/ (\E passed \in BOOLEAN : TearDown(passed)) \/ WriteMarker \/ Kill

Spec == Init /\ [][Next]_keptVars

-----------------------------------------------------------------------------
(* Property *)

\* Whatever was edited, renamed, removed or put back between runs, and
\* whichever of them failed, tests run on a database of the migrations at
\* hand ("reuse the test database while no migration changed",
\* ops/testsuite.py). Only an edit during a kept run and a kill during one
\* that made the database anew can break it.
TestsRunOnTheirSchema ==
  suite # None /\ suite.at = "tests" /\ suite.keep /\ ~disturbed => database = tree

=============================================================================
