-------------------------- MODULE NotificationList --------------------------
(***************************************************************************)
(* A user's notification list: the rows and the operations on them         *)
(* (djangoapp/views/notifications.py), and the page that shows them        *)
(* (Notifications.vue): its first chunk comes with the visit, "Load more"  *)
(* walks on from the last row on screen, bulk actions change the rows on   *)
(* the server first and on screen when the answer is there, and a partial  *)
(* reload may replace everything meanwhile.                                *)
(*                                                                         *)
(* A row is its public_id, a UUID7: a number, higher when drawn later. It  *)
(* is drawn when the row is made and shows when the transaction commits.   *)
(***************************************************************************)
EXTENDS Naturals, Sequences, SequencesExt, FiniteSets

CONSTANTS
  MaxRows,   \* bound on the rows ever made
  MaxReseeds, \* bound on the times the list is replaced
  PageSize,
  KindOf,    \* the kind of each row
  AllKinds,  \* the filter that lets every kind through
  None

Ids == 1..MaxRows
Acts == {"read", "readselected", "delete", "readall", "clear", "test"}
Filters == {AllKinds} \cup {KindOf[r] : r \in Ids}

VARIABLES
  rows, unread,  \* the user's rows, and those of them with no read_at
  next, pending, \* the next id; ids whose transaction is still open
  list,          \* the rows on screen, from the top
  hasMore, kind, \* is "Load more" offered? the filter of the page
  epoch,         \* how often the list has been replaced
  load,          \* Load more: None, [after, kind, epoch], or its answer
  reload,        \* a reload or visit: None, its filter, or its answer
  read,          \* the rows on screen that are shown as read
  act,           \* an action: None, or [what, ids, served]
  known,         \* what the server had when the list on screen was read
  \* No state of the code; these say where its promises end, until the list is
  \* replaced:
  mistaken,      \* unread rows that came after the server had marked all, and
                 \* were marked on screen with the others
  swept,         \* rows that came after the server had cleared all, and were
                 \* taken off the screen with the others
  stranded       \* has a reload failed with nothing on screen and rows left?

listVars == <<rows, unread, next, pending, list, hasMore, kind, epoch, read, load, reload,
          act, known, mistaken, swept, stranded>>

server == <<rows, unread, next, pending>>
screen == <<list, hasMore, kind, epoch, read, known>>
ends == <<mistaken, swept, stranded>>

Rendered == ToSet(list)
Matching(k, S) == {r \in S : k = AllKinds \/ KindOf[r] = k}

\* Fault: the cursor's own row is not cut off.
PageRowsFrom(k, after) == {r \in Matching(k, rows) : after = 0 \/ r <= after}

\* _page_rows: of the filter's rows those older than the cursor (0: no cursor).
PageRows(k, after) == {r \in Matching(k, rows) : after = 0 \/ r < after}

\* Fault: the flag is turned round.
ReadOfFlipped(S) == S \cap unread

\* to_item's flag.
ReadOf(S) == S \ unread

NewestFirst(S) ==
  CHOOSE s \in [1..Cardinality(S) -> S] : \A i, j \in DOMAIN s : i < j => s[i] > s[j]

\* The list without some of its rows, the others in their order.
Without(s, ids) ==
  LET kept == Reverse(NewestFirst({i \in DOMAIN s : s[i] \notin ids}))
  IN  [i \in DOMAIN kept |-> s[kept[i]]]

\* Of PAGE_SIZE + 1 rows the last only says that there are more.
Chunk(S) ==
  [items |-> IF Cardinality(S) > PageSize THEN SubSeq(NewestFirst(S), 1, PageSize)
             ELSE NewestFirst(S),
   more  |-> Cardinality(S) > PageSize]

Init ==
  /\ \E n \in 0..MaxRows : rows = 1..n /\ next = n + 1
  /\ unread = rows
  /\ pending = {}
  /\ kind = AllKinds
  /\ list = Chunk(rows).items
  /\ hasMore = Chunk(rows).more
  /\ epoch = 0
  /\ read = {}
  /\ load = None /\ reload = None /\ act = None
  /\ known = rows
  /\ mistaken = {} /\ swept = {} /\ stranded = FALSE

-----------------------------------------------------------------------------
(* The server *)

\* Notification.record inside somebody's transaction: the id is drawn first...
Draw ==
  /\ next <= MaxRows
  /\ pending' = pending \cup {next}
  /\ next' = next + 1
  /\ UNCHANGED <<rows, unread, screen, load, reload, act, ends>>

\* ... and the row shows when the transaction commits, or never.
Commit(r, rolledBack) ==
  /\ r \in pending
  /\ pending' = pending \ {r}
  /\ IF rolledBack THEN UNCHANGED <<rows, unread>>
                   ELSE rows' = rows \cup {r} /\ unread' = unread \cup {r}
  /\ UNCHANGED <<next, screen, load, reload, act, ends>>

\* What the calls do to the rows; ids are the user's own or match nothing.
MarkRead(ids)  == rows' = rows /\ unread' = unread \ ids
DeleteRows(ids) == rows' = rows \ ids /\ unread' = unread \ ids

\* The user's other browser: delete_notification, mark_read of one row, 404
\* without it.
OtherBrowser(r) ==
  /\ r \in rows
  /\ MarkRead({r}) \/ DeleteRows({r})
  /\ UNCHANGED <<next, pending, screen, load, reload, act, ends>>

-----------------------------------------------------------------------------
(* The page *)

\* A visit with another filter, or the back button; a reload keeps the filter.
Visit(k) ==
  /\ reload = None
  /\ epoch < MaxReseeds
  /\ reload' = [kind |-> k]
  /\ UNCHANGED <<server, screen, load, act, ends>>

\* notifications_page: always from the top.
ServePage ==
  /\ reload # None /\ "items" \notin DOMAIN reload
  /\ LET chunk == Chunk(PageRows(reload.kind, 0))
     IN  reload' = [kind |-> reload.kind, items |-> chunk.items, more |-> chunk.more,
                    read |-> ReadOf(ToSet(chunk.items)), known |-> rows]
  /\ UNCHANGED <<server, screen, load, act, ends>>

ShowPage ==
  /\ reload # None /\ "items" \in DOMAIN reload
  /\ list' = reload.items /\ hasMore' = reload.more /\ read' = reload.read
  /\ kind' = reload.kind
  /\ known' = reload.known
  /\ epoch' = epoch + 1
  /\ reload' = None
  /\ mistaken' = {} /\ swept' = {} /\ stranded' = FALSE
  /\ UNCHANGED <<server, load, act>>

\* A reload or a visit that fails leaves the page as it is. With no row on
\* screen there is no "Load more" either, whatever hasMore says.
ReloadFails ==
  /\ reload # None
  /\ reload' = None
  /\ stranded' = (stranded \/ (list = <<>> /\ hasMore))
  /\ UNCHANGED <<server, screen, load, act, mistaken, swept>>

\* onLoadMore: one at a time, and not from an empty list.
LoadMore ==
  /\ hasMore /\ load = None /\ list # <<>>
  /\ load' = [after |-> Last(list), kind |-> kind, epoch |-> epoch]
  /\ UNCHANGED <<server, screen, reload, act, ends>>

\* notifications_page_api
ServeMore ==
  /\ load # None /\ "items" \notin DOMAIN load
  /\ LET chunk == Chunk(PageRows(load.kind, load.after))
     IN  load' = [epoch |-> load.epoch, items |-> chunk.items, more |-> chunk.more,
                  read |-> ReadOf(ToSet(chunk.items))]
  /\ UNCHANGED <<server, screen, reload, act, ends>>

\* Fault: the answer is appended to whatever is on screen now.
Fits(answer) == answer.epoch <= epoch

\* An answer that straddles a swap of the list is dropped.
Fresh(answer) == answer.epoch = epoch

AppendMore ==
  /\ load # None /\ "items" \in DOMAIN load
  /\ IF Fresh(load)
     THEN /\ list' = list \o load.items /\ hasMore' = load.more
          /\ read' = read \cup load.read
     ELSE UNCHANGED <<list, hasMore, read>>
  /\ load' = None
  /\ UNCHANGED <<server, kind, epoch, known, reload, act, ends>>

\* The next chunk fails to come: the button is there again.
LoadFails ==
  /\ load # None
  /\ load' = None
  /\ UNCHANGED <<server, screen, reload, act, ends>>

\* The actions of the page. The page lets them overlap; here there is one at a
\* time, what two of them do to the marks and the list being the same in either
\* order.
Ask(what, ids) ==
  /\ act = None
  /\ ids \subseteq Rendered
  /\ what \in {"readselected", "delete"} => ids # {}
  /\ what = "read" => Cardinality(ids) = 1
  /\ what \in {"readall", "clear", "test"} => ids = {}
  /\ act' = [what |-> what, ids |-> ids, served |-> FALSE]
  /\ UNCHANGED <<server, screen, load, reload, ends>>

\* mark_read and mark_selected_read, delete_selected, mark_all_read,
\* clear_all, send_test_notification.
ServeAct ==
  /\ act # None /\ ~act.served
  /\ \/ act.what = "read" /\ act.ids \subseteq rows /\ MarkRead(act.ids) /\ UNCHANGED next
     \/ act.what = "readselected" /\ MarkRead(act.ids) /\ UNCHANGED next
     \/ act.what = "delete" /\ DeleteRows(act.ids) /\ UNCHANGED next
     \/ act.what = "readall" /\ MarkRead(unread) /\ UNCHANGED next
     \/ act.what = "clear" /\ DeleteRows(rows) /\ UNCHANGED next
     \/ /\ act.what = "test" /\ next <= MaxRows
        /\ rows' = rows \cup {next} /\ unread' = unread \cup {next} /\ next' = next + 1
  /\ act' = [act EXCEPT !.served = TRUE,
                        !.ids = IF act.what \in {"readall", "clear"} THEN rows ELSE act.ids]
  /\ UNCHANGED <<pending, screen, load, reload, ends>>

\* An action fails, before the server has done it (mark_read answers 404 for a
\* row that is gone) or with its answer on the way: the page does nothing.
ActFails ==
  /\ act # None
  /\ act' = None
  /\ UNCHANGED <<server, screen, load, reload, ends>>

\* A list emptied by hand with rows left behind it is fetched anew, and so is
\* the list after a test. Of two reloads under way the one that is to come last
\* counts.
Refetch(wanted) ==
  \/ wanted /\ reload' = [kind |-> kind]
  \/ (wanted => reload # None) /\ reload' = reload

\* The answer is there: the list on screen follows.
ShowAct ==
  /\ act # None /\ act.served
  /\ \/ /\ act.what \in {"read", "readselected", "readall"}
        /\ read' = read \cup IF act.what = "readall" THEN Rendered ELSE act.ids
        /\ UNCHANGED <<list, hasMore, reload>>
     \/ /\ act.what = "delete"
        /\ list' = Without(list, act.ids)
        /\ Refetch(list' = <<>> /\ hasMore)
        /\ read' = read \ act.ids
        /\ UNCHANGED hasMore
     \/ /\ act.what = "clear"
        /\ list' = <<>> /\ hasMore' = FALSE /\ read' = {}
        /\ UNCHANGED reload
     \/ /\ act.what = "test"
        /\ Refetch(TRUE)
        /\ UNCHANGED <<list, hasMore, read>>
  /\ mistaken' = mistaken \cup IF act.what = "readall" THEN (Rendered \ act.ids) \cap unread ELSE {}
  /\ swept' = swept \cup IF act.what = "clear" THEN (known \ act.ids) \cap rows ELSE {}
  /\ act' = None
  /\ UNCHANGED <<server, kind, epoch, known, load, stranded>>

Next ==
  \/ Draw \/ (\E r \in Ids : OtherBrowser(r) \/ \E b \in BOOLEAN : Commit(r, b))
  \/ (\E k \in Filters : Visit(k)) \/ ServePage \/ ShowPage
  \/ LoadMore \/ ServeMore \/ AppendMore
  \/ (\E what \in Acts, ids \in SUBSET Rendered : Ask(what, ids))
  \/ ServeAct \/ ShowAct
  \/ ReloadFails \/ LoadFails \/ ActFails

Spec == Init /\ [][Next]_listVars

-----------------------------------------------------------------------------
(* Properties *)

\* No row stays out of the user's reach, whatever fails: what the server had
\* for the list on screen, and still has, is on screen, or below the last row
\* of a list that offers more, or in a page being fetched ("stale-cursored
\* appends would land on a fresh page-1 list and silently hide the rows in
\* between", Notifications.vue; "would dead-end the list", there). Two things
\* hide rows: "clear all" takes off the rows that came after the server had
\* cleared and before its answer arrived, and the reload that follows when the
\* rendered rows were all deleted may fail.
NothingHidden ==
  reload = None /\ ~(stranded /\ hasMore /\ list = <<>>) =>
    \A r \in Matching(kind, known \cap rows) \ swept :
      r \in Rendered \/ (hasMore /\ list # <<>> /\ r < Last(list))

\* What the page shows as read is read, row by row, whatever marks, chunks and
\* reloads cross or fail; but for a row that came after the server had marked
\* all as read and was on screen when that answer arrived (onMarkAllRead marks
\* whatever is rendered by then).
ReadIsTrue == read \cap unread \subseteq mistaken

\* The walk never shows a row twice nor out of order, whatever was inserted
\* and deleted between its chunks ("no offset drift when rows shift",
\* _page_rows).
NewestFirstOnce == \A i, j \in DOMAIN list : i < j => list[i] > list[j]

=============================================================================
