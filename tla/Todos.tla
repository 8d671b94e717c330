------------------------------- MODULE Todos -------------------------------
(***************************************************************************)
(* create_todo of the example app: the todo and its notification in one     *)
(* transaction, the push scheduled on its commit, by requests that may fail *)
(* at any statement. Its other operation, toggle_todo, is a caller of       *)
(* save_plus and part of TrackedRow.                                        *)
(***************************************************************************)
EXTENDS Naturals, FiniteSets

CONSTANTS Creators, MaxTodos, None

VARIABLES
  todos, notes, \* the committed todos, and those with a committed notification
  told,         \* the todos that a push has told their owner of
  creating      \* per request: None, or its todo and what it has done

todoVars == <<todos, notes, told, creating>>

Init ==
  /\ todos = {} /\ notes = {} /\ told = {}
  /\ creating = [r \in Creators |-> None]

\* The schema has let the payload through; the new row's id is unused.
BeginTodo(r, id) ==
  /\ creating[r] = None
  /\ id \notin todos
  /\ \A q \in Creators : creating[q] # None => creating[q].id # id
  /\ creating' = [creating EXCEPT ![r] = [id |-> id, at |-> "save"]]
  /\ UNCHANGED <<todos, notes, told>>

SaveTodo(r) ==
  /\ creating[r] # None /\ creating[r].at = "save"
  /\ creating' = [creating EXCEPT ![r].at = "record"]
  /\ UNCHANGED <<todos, notes, told>>

\* Fault: the push is enqueued by record, not on the commit.
RecordAndPush(r) ==
  /\ creating[r] # None /\ creating[r].at = "record"
  /\ creating' = [creating EXCEPT ![r].at = "commit"]
  /\ told' = told \cup {creating[r].id}
  /\ UNCHANGED <<todos, notes>>

\* Notification.record: the row now, the push when all is committed.
Record(r) ==
  /\ creating[r] # None /\ creating[r].at = "record"
  /\ creating' = [creating EXCEPT ![r].at = "commit"]
  /\ UNCHANGED <<todos, notes, told>>

CommitTodo(r) ==
  /\ creating[r] # None /\ creating[r].at = "commit"
  /\ todos' = todos \cup {creating[r].id}
  /\ notes' = notes \cup {creating[r].id}
  /\ creating' = [creating EXCEPT ![r].at = "committed"]
  /\ UNCHANGED told

\* on_commit: the task is enqueued and runs.
PushTodo(r) ==
  /\ creating[r] # None /\ creating[r].at = "committed"
  /\ told' = told \cup {creating[r].id}
  /\ creating' = [creating EXCEPT ![r] = None]
  /\ UNCHANGED <<todos, notes>>

\* The request fails: what it has not committed is undone, and a push that is
\* not enqueued yet never will be.
FailTodo(r) ==
  /\ creating[r] # None
  /\ creating' = [creating EXCEPT ![r] = None]
  /\ UNCHANGED <<todos, notes, told>>

Next ==
  \E r \in Creators :
    \/ \E id \in 1..MaxTodos : BeginTodo(r, id)
    \/ SaveTodo(r) \/ Record(r) \/ CommitTodo(r) \/ PushTodo(r) \/ FailTodo(r)

Spec == Init /\ [][Next]_todoVars

-----------------------------------------------------------------------------
(* Property *)

\* A todo and its notification exist together or not at all, and nobody is
\* told of a todo that is not there ("a partial commit must never leave a todo
\* the user wasn't told about", "only ever informed AFTER the data is
\* durable", create_todo).
ToldOnlyOfTodos == notes = todos /\ told \subseteq notes

=============================================================================
