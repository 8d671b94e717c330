----------------------------- MODULE Listings -----------------------------
(***************************************************************************)
(* The paged listings: the rows of a model (views/manage.py), the users by  *)
(* name (views/users.py), the commits (views/git_data.py). A page is a      *)
(* count and then a slice of the table as it is by then; somebody walks     *)
(* from page to page while rows come, change and go.                        *)
(***************************************************************************)
EXTENDS Integers, FiniteSets

CONSTANTS
  PerPage, Orphans, \* a last page of Orphans rows or fewer joins the one before
  MaxRowIds,        \* bound on the rows ever made
  MaxStamp,         \* bound on the clock
  None

Sorts == {"id", "-id", "last_updated_at", "-last_updated_at"}
\* What a walk may ask for: an order of the rows of a model, an order that is
\* not one, the users by name, or the commits.
Requests == Sorts \cup {"bogus", "username", "commits"}

VARIABLES
  table,   \* the rows: [id, name, stamp]
  made,    \* the rows ever made
  stamp,   \* the time of the last change
  walk     \* None, or the walk: [sort, page, total, count, at, shown, owed,
           \* cut], owed being the rows that it must not miss and cut whether
           \* the table has lost, moved up or cut off a row meanwhile

listingVars == <<table, made, stamp, walk>>

Init == table = {} /\ made = 0 /\ stamp = 0 /\ walk = None

\* _resolve_sort
Resolve(sort) == IF sort \in Sorts \cup {"username", "commits"} THEN sort ELSE "-id"

\* order_by(sort, "-id"); by username, which is unique; newest commit first.
Before(sort, a, b) ==
  CASE sort = "id" -> a.id < b.id
    [] sort \in {"-id", "commits"} -> a.id > b.id
    [] sort = "username" -> a.name < b.name
    [] sort = "last_updated_at" -> a.stamp < b.stamp \/ (a.stamp = b.stamp /\ a.id > b.id)
    [] sort = "-last_updated_at" -> a.stamp > b.stamp \/ (a.stamp = b.stamp /\ a.id > b.id)

\* How many rows come before r.
Place(sort, r) == Cardinality({a \in table : Before(sort, a, r)})

\* The commits have pages of a fixed size.
OrphansOf(sort) == IF sort = "commits" THEN 0 ELSE Orphans

\* Paginator.num_pages; total_pages of commits.
NumPages(sort, count) ==
  LET hits == IF count > OrphansOf(sort) THEN count - OrphansOf(sort) ELSE 1
  IN  IF count = 0 THEN 1 ELSE (hits + PerPage - 1) \div PerPage

\* Fault: the orphans are left to a page that does not exist.
TopAlone(sort, page, count) == page * PerPage

\* Paginator.page: where the slice ends.
Top(sort, page, count) ==
  IF page * PerPage + OrphansOf(sort) >= count /\ sort # "commits" THEN count ELSE page * PerPage

Slice(sort, page, count) ==
  {r \in table : Place(sort, r) \in (page - 1) * PerPage..Top(sort, page, count) - 1}

-----------------------------------------------------------------------------
(* The table changes under the walk *)

\* What a change does to the walk's promise: rows taken out of what it owes,
\* and whether it cuts.
Meanwhile(lost, cuts) ==
  walk' = IF walk = None THEN None
          ELSE [walk EXCEPT !.owed = @ \ lost, !.cut = @ \/ cuts]

Insert(name, later) ==
  /\ made < MaxRowIds /\ stamp + later <= MaxStamp
  /\ name \notin {r.name : r \in table}
  /\ made' = made + 1 /\ stamp' = stamp + later
  /\ table' = table \cup {[id |-> made', name |-> name, stamp |-> stamp']}
  /\ Meanwhile({}, walk # None /\ walk.at = "slice")

Delete(r) ==
  /\ r \in table
  /\ table' = table \ {r}
  /\ Meanwhile({r.id}, TRUE)
  /\ UNCHANGED <<made, stamp>>

\* A save, which stamps the row.
Touch(r, later) ==
  /\ r \in table /\ stamp + later <= MaxStamp
  /\ stamp' = stamp + later
  /\ table' = (table \ {r}) \cup {[r EXCEPT !.stamp = stamp']}
  /\ Meanwhile(IF walk # None /\ walk.sort = "-last_updated_at" THEN {r.id} ELSE {},
               walk # None /\ walk.sort = "last_updated_at")
  /\ UNCHANGED made

-----------------------------------------------------------------------------
(* The walk *)

\* From the first page, by the links of the page.
Open(sort) ==
  /\ walk = None
  /\ walk' = [sort |-> Resolve(sort), page |-> 1, total |-> 1, count |-> 0, at |-> "count",
              shown |-> {}, owed |-> {r.id : r \in table}, cut |-> FALSE]
  /\ UNCHANGED <<table, made, stamp>>

\* get_page and the counting of commits: beyond the last page is the last.
Count ==
  /\ walk # None /\ walk.at = "count"
  /\ LET count == Cardinality(table)
         total == NumPages(walk.sort, count)
     IN  walk' = [walk EXCEPT !.count = count, !.total = total, !.at = "slice",
                              !.page = IF @ > total THEN total ELSE @]
  /\ UNCHANGED <<table, made, stamp>>

Show ==
  /\ walk # None /\ walk.at = "slice"
  /\ walk' = [walk EXCEPT !.at = "shown",
               !.shown = @ \cup {r.id : r \in Slice(walk.sort, walk.page, walk.count)}]
  /\ UNCHANGED <<table, made, stamp>>

Turn ==
  /\ walk # None /\ walk.at = "shown"
  /\ walk' = IF walk.page < walk.total THEN [walk EXCEPT !.page = @ + 1, !.at = "count"]
             ELSE None
  /\ UNCHANGED <<table, made, stamp>>

Next ==
  \/ (\E name \in 1..MaxRowIds, later \in 0..1 : Insert(name, later))
  \/ (\E r \in table : Delete(r) \/ \E later \in 0..1 : Touch(r, later))
  \/ (\E sort \in Requests : Open(sort))
  \/ Count \/ Show \/ Turn

Spec == Init /\ [][Next]_listingVars

-----------------------------------------------------------------------------
(* Property *)

\* Who walks to the last page has seen every row that was there all the time,
\* whatever came or was saved meanwhile; only a deletion, a save under the
\* ascending order of change, and a row that comes between a page's count and
\* its slice can hide one (model_rows_page, list_page, commits).
WalkMissesNothing ==
  walk # None /\ walk.at = "shown" /\ walk.page = walk.total /\ ~walk.cut =>
    walk.owed \subseteq walk.shown

=============================================================================
