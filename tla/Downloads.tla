----------------------------- MODULE Downloads -----------------------------
(***************************************************************************)
(* Shared downloads (docs/reference/ourapp): uploads that expire, the gate  *)
(* that refuses an expired one, and the nightly sweep, which reads what is  *)
(* due once and then deletes row by row while admins delete rows as well.   *)
(* The files and their names are TrackedRow's.                              *)
(***************************************************************************)
EXTENDS Naturals, FiniteSets

CONSTANTS
  DefaultWindow, \* DEFAULT_DOWNLOAD_WINDOW, in units of the clock
  LastTime,      \* bound on the clock
  MaxUploads,    \* bound on the uploads
  None

VARIABLES
  clock,
  uploads,   \* how many there have been
  downloads, \* the rows: [id, made, expires]
  sweep,     \* None, or the night's task: the rows left of its list, and what
             \* was expired when it began
  deleting   \* None, or the row that delete_download has found

downloadVars == <<clock, uploads, downloads, sweep, deleting>>

Init ==
  /\ clock = 0 /\ uploads = 0
  /\ downloads = {}
  /\ sweep = None /\ deleting = None

Tick ==
  /\ clock < LastTime
  /\ clock' = clock + 1
  /\ UNCHANGED <<uploads, downloads, sweep, deleting>>

\* _parse_expiry: no pick is the default, a past one is refused.
Expiries == {clock + DefaultWindow} \cup {t \in 0..LastTime + 1 : t > clock}

\* upload_download
Upload ==
  /\ uploads < MaxUploads
  /\ uploads' = uploads + 1
  /\ \E t \in Expiries :
       downloads' = downloads \cup {[id |-> uploads', made |-> clock, expires |-> t]}
  /\ UNCHANGED <<clock, sweep, deleting>>

\* is_expired, the gate of serve_download: such a row is a 404.
IsExpired(d) == clock >= d.expires

\* delete_download finds the row (or 404) ...
Find(d) ==
  /\ deleting = None
  /\ d \in downloads
  /\ deleting' = d
  /\ UNCHANGED <<clock, uploads, downloads, sweep>>

\* ... and deletes it; a row gone meanwhile is an error of the request.
Delete ==
  /\ deleting # None
  /\ downloads' = downloads \ {deleting}
  /\ deleting' = None
  /\ UNCHANGED <<clock, uploads, sweep>>

\* Fault: the age is compared, whatever date was picked.
DueByAge(d) == d.made + DefaultWindow <= clock

\* The filter of delete_expired.
Due(d) == d.expires <= clock

SweepBegin ==
  /\ sweep = None
  /\ sweep' = [left |-> {d \in downloads : Due(d)}, due |-> {d \in downloads : IsExpired(d)}]
  /\ UNCHANGED <<clock, uploads, downloads, deleting>>

\* delete_plus of the next row, the latest of those left; one that is gone
\* ends the task there (DoesNotExist), and the rest waits for the next night.
SweepNext ==
  /\ sweep # None
  /\ \E d \in sweep.left :
       /\ \A e \in sweep.left : e.made <= d.made
       /\ IF d \in downloads
          THEN downloads' = downloads \ {d} /\ sweep' = [sweep EXCEPT !.left = @ \ {d}]
          ELSE sweep' = None /\ UNCHANGED downloads
  /\ UNCHANGED <<clock, uploads, deleting>>

SweepEnd ==
  /\ sweep # None /\ sweep.left = {}
  /\ sweep' = None
  /\ UNCHANGED <<clock, uploads, downloads, deleting>>

SweepDie ==
  /\ sweep # None
  /\ sweep' = None
  /\ UNCHANGED <<clock, uploads, downloads, deleting>>

Next ==
  \/ Tick \/ Upload
  \/ (\E d \in downloads : Find(d)) \/ Delete
  \/ SweepBegin \/ SweepNext \/ SweepEnd \/ SweepDie

Spec == Init /\ [][Next]_downloadVars

-----------------------------------------------------------------------------
(* Property *)

\* A link lives exactly its time: the sweep never takes one that the gate
\* still serves, an admin alone ends it early, and a sweep that runs to its
\* end leaves none of those that had expired ("exactly like a missing one",
\* serve_download; "Sweep every expired row", delete_expired).
ExpiryKept ==
  [][/\ \A d \in downloads \ downloads' : IsExpired(d) \/ d = deleting
     /\ sweep # None /\ sweep.left = {} => sweep.due \cap downloads = {}]_downloadVars

=============================================================================
