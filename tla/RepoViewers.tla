---------------------------- MODULE RepoViewers ----------------------------
(***************************************************************************)
(* The viewers of a repository: lists of what is uncommitted or what a       *)
(* commit changed, the diff of one path, and the file browser, each reading  *)
(* the disk several times while somebody edits, stages and commits. One of   *)
(* the two worktrees, without directories below its root; what is there is   *)
(* a content, or a link: "out" of the root, or "dangling".                   *)
(***************************************************************************)
EXTENDS Naturals, Sequences, FiniteSets

CONSTANTS
  Paths, Texts,  \* the paths, and the contents a file may have
  MaxEdits,      \* bound on the steps of whoever works on the tree
  None

Links == {"out", "dangling"}

VARIABLES
  work, index, \* per path: None or what is there
  commits,     \* the trees committed so far
  edits,
  view         \* None, or the visit: [of, commit, found, path, at, seen, diff, quiet]

repoVars == <<work, index, commits, edits, view>>

Empty == [p \in Paths |-> None]

Init ==
  /\ work = Empty /\ index = Empty /\ commits = <<>>
  /\ edits = 0 /\ view = None

-----------------------------------------------------------------------------
(* Whoever works on the tree; quiet says that nobody has since the visit     *)
(* began.                                                                    *)

Edited ==
  /\ edits < MaxEdits
  /\ edits' = edits + 1
  /\ view' = IF view = None THEN None ELSE [view EXCEPT !.quiet = FALSE]

Edit(p, what) ==
  /\ Edited
  /\ work' = [work EXCEPT ![p] = what]
  /\ UNCHANGED <<index, commits>>

Stage(p) ==
  /\ Edited
  /\ index' = [index EXCEPT ![p] = work[p]]
  /\ UNCHANGED <<work, commits>>

\* git rm --cached
Unstage(p) ==
  /\ Edited
  /\ index' = [index EXCEPT ![p] = None]
  /\ UNCHANGED <<work, commits>>

Commit ==
  /\ Edited
  /\ commits' = Append(commits, index)
  /\ UNCHANGED <<work, index>>

-----------------------------------------------------------------------------
(* What git tells *)

Tree(k) == IF k = 0 THEN Empty ELSE commits[k]

Untracked == {p \in Paths : work[p] # None /\ index[p] = None}

\* git diff HEAD takes a path that is not in the index for deleted.
InTree(p) == IF index[p] = None THEN None ELSE work[p]

\* git finds renames: one path that is gone for each new one of its content.
Renamed(was, is) ==
  LET Gone(c) == {p \in Paths : was[p] = c /\ is[p] = None}
      New(c)  == {p \in Paths : was[p] = None /\ is[p] = c}
      Pairs(n, m) == IF n < m THEN n ELSE m
  IN  CHOOSE S \in SUBSET Paths :
        /\ \A p \in S : was[p] # None /\ is[p] = None
        /\ \A c \in Texts \cup Links :
             Cardinality(S \cap Gone(c)) = Pairs(Cardinality(Gone(c)), Cardinality(New(c)))

\* _diff_path: a rename is listed under its new path alone.
Listed(was, is) == {p \in Paths : was[p] # is[p]} \ Renamed(was, is)

Changed ==
  IF commits = <<>> THEN {} ELSE Listed(Tree(Len(commits)), [p \in Paths |-> InTree(p)])

\* _commit_files: against the parent, or the empty tree.
CommitFiles(k) == Listed(Tree(k - 1), Tree(k))

Between(old, new) == IF old = new THEN None ELSE <<old, new>>

-----------------------------------------------------------------------------
(* The lists *)

Visit(of, found) == [of |-> of, commit |-> 0, found |-> found, path |-> None, at |-> "list",
                     seen |-> FALSE, diff |-> None, quiet |-> TRUE]

\* uncommitted, the first of its two questions.
OpenUncommitted ==
  /\ view = None
  /\ view' = Visit("uncommitted", Untracked)
  /\ UNCHANGED <<work, index, commits, edits>>

OpenCommit(k) ==
  /\ view = None
  /\ view' = [Visit("commit", CommitFiles(k)) EXCEPT !.commit = k, !.at = "listed"]
  /\ UNCHANGED <<work, index, commits, edits>>

\* list_entries: the names first ...
OpenDir ==
  /\ view = None
  /\ view' = Visit("dir", {p \in Paths : work[p] # None})
  /\ UNCHANGED <<work, index, commits, edits>>

See(v) == view' = v /\ UNCHANGED <<work, index, commits, edits>>

Exists(p) == work[p] \notin {None, "dangling"}

\* ... and then each is looked at, through its link: one that is gone, or
\* leads nowhere, fails the whole page.
ListRest ==
  /\ view # None /\ view.at = "list"
  /\ See(IF view.of = "uncommitted"
         THEN [view EXCEPT !.found = @ \cup Changed, !.at = "listed"]
         ELSE [view EXCEPT !.at = IF \A p \in view.found : Exists(p) THEN "listed" ELSE "error"])

-----------------------------------------------------------------------------
(* One path: its diff, which a page's link or any address may ask for *)

Ask(p) ==
  /\ view # None /\ view.at = "listed"
  /\ See([view EXCEPT !.path = p, !.at = IF view.of = "dir" THEN "resolve" ELSE "confine"])

\* _confined_to_repo resolves the path in the tree as it is now, for old
\* commits too.
Confine ==
  /\ view # None /\ view.at = "confine"
  /\ See([view EXCEPT !.at = IF work[view.path] = "out" THEN "missing"
                             ELSE IF view.of = "uncommitted" THEN "untracked" ELSE "committed"])

\* diff_commit
DiffCommit ==
  /\ view # None /\ view.at = "committed"
  /\ LET k == view.commit
         p == view.path
     IN  See(IF p \in CommitFiles(k)
             THEN [view EXCEPT !.diff = Between(Tree(k - 1)[p], Tree(k)[p]), !.at = "link"]
             ELSE [view EXCEPT !.at = "missing"])

\* diff_uncommitted asks uncommitted, in its two questions, ...
CheckUntracked ==
  /\ view # None /\ view.at = "untracked"
  /\ See([view EXCEPT !.seen = view.path \in Untracked, !.at = "changed"])

CheckChanged ==
  /\ view # None /\ view.at = "changed"
  /\ See([view EXCEPT !.at = IF view.seen \/ view.path \in Changed THEN "which" ELSE "missing"])

\* Fault: what is uncommitted always has a side in HEAD.
WhichHead(p) == "head"

\* ... then which of the two diffs it takes, ...
Which(p) == IF p \in Untracked THEN "new" ELSE "head"

ChooseDiff ==
  /\ view # None /\ view.at = "which"
  /\ See([view EXCEPT !.at = Which(view.path)])

\* ... and runs that; against /dev/null a failure is an empty diff.
DiffUncommitted ==
  /\ view # None /\ view.at \in {"new", "head"}
  /\ LET p == view.path
     IN  See([view EXCEPT !.at = "link",
                          !.diff = IF view.at = "new" THEN Between(None, work[p])
                                   ELSE Between(Tree(Len(commits))[p], InTree(p))])

\* The page of a diff links to the file, if it is on disk.
LinkFile ==
  /\ view # None /\ view.at = "link"
  /\ See([view EXCEPT !.at = IF Exists(view.path) THEN "linked" ELSE "shown"])

-----------------------------------------------------------------------------
(* The file browser *)

FollowLink ==
  /\ view # None /\ view.at = "linked"
  /\ See([view EXCEPT !.at = "resolve"])

\* PathWrapper
Resolve ==
  /\ view # None /\ view.at = "resolve"
  /\ See([view EXCEPT !.at = IF work[view.path] = "out" \/ ~Exists(view.path) THEN "missing"
                             ELSE "read"])

\* The path, resolved before, is looked at and read: gone, it is an error, or
\* no file for the routes that serve bytes; a link by now is followed.
Read ==
  /\ view # None /\ view.at = "read"
  /\ \E outcome \in IF Exists(view.path) THEN {"opened"} ELSE {"error", "missing"} :
       See([view EXCEPT !.at = outcome])

Leave ==
  /\ view # None /\ view.at \in {"listed", "shown", "linked", "opened", "missing", "error"}
  /\ See(None)

Next ==
  \/ (\E p \in Paths, what \in Texts \cup Links \cup {None} : Edit(p, what))
  \/ (\E p \in Paths : Stage(p) \/ Unstage(p) \/ Ask(p)) \/ Commit
  \/ OpenUncommitted \/ (\E k \in 1..Len(commits) : OpenCommit(k)) \/ OpenDir \/ ListRest
  \/ Confine \/ DiffCommit \/ CheckUntracked \/ CheckChanged \/ ChooseDiff
  \/ DiffUncommitted \/ LinkFile \/ FollowLink \/ Resolve \/ Read \/ Leave

Spec == Init /\ [][Next]_repoVars

-----------------------------------------------------------------------------
(* Property *)

\* Whatever was staged, unstaged, linked or committed before, what a list
\* names opens: its diff page tells a difference, and links to a file that the
\* browser shows; a commit's diff does so even while the tree changes. A link
\* out of the tree is refused everywhere, and a dangling one costs the
\* directory its page ("a deleted file has nothing to view",
\* git_uncommitted_diff; "raises Http404 for misses", files.py).
ListedOpens ==
  view # None =>
    /\ view.at = "error" /\ view.quiet =>
         view.path = None /\ \E p \in view.found : work[p] = "dangling"
    /\ view.at = "missing" /\ view.quiet =>
         view.path \notin view.found \/ work[view.path] = "out"
    /\ view.at \in {"link", "shown", "linked"} /\ view.diff = None =>
         view.of = "uncommitted" /\ ~view.quiet

=============================================================================
