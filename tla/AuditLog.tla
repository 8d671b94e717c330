------------------------------ MODULE AuditLog ------------------------------
(***************************************************************************)
(* The entries of BaseModelUpdateLog (djangoapp/models/base.py) and the    *)
(* diff that decides what an update writes.                                *)
(***************************************************************************)
EXTENDS Naturals, Sequences

CONSTANTS
  Cols,   \* the data columns an audit snapshot shows
  Vals,   \* the values of a data column
  None    \* no row, no file, no lock holder

\* An update edits a column, so there is one, and it has a value.
ASSUME DataAssumption == Cols # {} /\ Vals # {}

Data == [Cols -> Vals]

Empty == [c \in {} |-> None]

Entry(action, old, new) == [action |-> action, old |-> old, new |-> new]

Tombstone == Entry("deleted", Empty, Empty)

\* The columns that differ between two snapshots. row_version and the
\* last_updated stamps are dropped from the diff, file columns never enter it.
Changed(old, new) == {c \in Cols : old[c] # new[c]}

\* The log after an update from old to new: a no-op edit writes no entry.
Logged(history, old, new) ==
  LET diff == Changed(old, new)
  IN  IF diff = {}
      THEN history
      ELSE Append(history, Entry("updated", [c \in diff |-> old[c]],
                                            [c \in diff |-> new[c]]))

=============================================================================
