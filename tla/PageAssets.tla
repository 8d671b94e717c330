---------------------------- MODULE PageAssets ----------------------------
(***************************************************************************)
(* How a page names its bundle (templatetags/app_static.py): three filters   *)
(* of one render each look the manifest up in a cache that the threads of a  *)
(* process share, valid while the file's mtime is the one it was stored      *)
(* under, while a deploy replaces the manifest, empties /static/ and fills   *)
(* it again. The builds are numbered, and a later one has a later mtime.     *)
(***************************************************************************)
EXTENDS Naturals, FiniteSets

CONSTANTS Renders, MaxBuilds, None

\* main.css, the preloads of main.js and main.js itself, in base.html's order.
Filters == 3
\* What names no build: the plain URL, no preload.
Plain == 0

VARIABLES
  manifest, \* None, or the build whose manifest is in the tree
  static,   \* the build that /static/ holds, or None
  deploy,   \* None, or what is left of it: "clear", "collect"
  cached,   \* None, or the manifest cache: [mtime, build]
  render    \* per thread: None, or [named, left, at, mtime, read, calm]

assetVars == <<manifest, static, deploy, cached, render>>

Init ==
  /\ manifest = None /\ static = None /\ deploy = None
  /\ cached = None
  /\ render = [r \in Renders |-> None]

-----------------------------------------------------------------------------
(* The deploy *)

\* calm: no step of a deploy since the render began.
Disturb ==
  render' = [r \in Renders |-> IF render[r] = None THEN None ELSE [render[r] EXCEPT !.calm = FALSE]]

\* rsync puts the new manifest in place at once; a deploy that has died is
\* begun anew, with the build at hand or another one.
Rsync(build) ==
  /\ build \in 1..MaxBuilds /\ (manifest # None => build >= manifest)
  /\ manifest' = build /\ deploy' = "clear"
  /\ Disturb
  /\ UNCHANGED <<static, cached>>

\* collectstatic --clear
Clear ==
  /\ deploy = "clear"
  /\ static' = None /\ deploy' = "collect"
  /\ Disturb
  /\ UNCHANGED <<manifest, cached>>

Collect ==
  /\ deploy = "collect"
  /\ static' = manifest /\ deploy' = None
  /\ Disturb
  /\ UNCHANGED <<manifest, cached>>

\* A restart of the process.
Restart ==
  /\ cached' = None
  /\ render' = [r \in Renders |-> None]
  /\ UNCHANGED <<manifest, static, deploy>>

-----------------------------------------------------------------------------
(* A render *)

Begin(r) ==
  /\ render[r] = None
  /\ render' = [render EXCEPT ![r] =
       [named |-> {}, left |-> Filters, at |-> "stat", mtime |-> 0, read |-> Plain,
        calm |-> deploy = None]]
  /\ UNCHANGED <<manifest, static, deploy, cached>>

\* hashed_entry and entry_preloads use what _load_manifest returns.
Named(p, build) == [p EXCEPT !.named = @ \cup {build}, !.left = @ - 1, !.at = "stat"]

Stat(r) ==
  /\ render[r] # None /\ render[r].at = "stat" /\ render[r].left > 0
  /\ render' = [render EXCEPT ![r] =
       IF manifest = None THEN Named(@, Plain)
       ELSE IF cached # None /\ cached.mtime = manifest THEN Named(@, cached.build)
       ELSE [@ EXCEPT !.at = "read", !.mtime = manifest]]
  /\ UNCHANGED <<manifest, static, deploy, cached>>

ReadManifest(r) ==
  /\ render[r] # None /\ render[r].at = "read"
  /\ render' = [render EXCEPT ![r].at = "store", ![r].read = manifest]
  /\ UNCHANGED <<manifest, static, deploy, cached>>

\* Fault: the mtime is taken when the manifest has been read.
StoredUnderNow(p) == [mtime |-> manifest, build |-> p.read]

\* The mtime is the one from before the read.
Stored(p) == [mtime |-> p.mtime, build |-> p.read]

Store(r) ==
  /\ render[r] # None /\ render[r].at = "store"
  /\ cached' = Stored(render[r])
  /\ render' = [render EXCEPT ![r] = Named(@, render[r].read)]
  /\ UNCHANGED <<manifest, static, deploy>>

Finish(r) ==
  /\ render[r] # None /\ render[r].left = 0
  /\ render' = [render EXCEPT ![r] = None]
  /\ UNCHANGED <<manifest, static, deploy, cached>>

Next ==
  \/ (\E build \in 1..MaxBuilds : Rsync(build)) \/ Clear \/ Collect \/ Restart
  \/ \E r \in Renders : Begin(r) \/ Stat(r) \/ ReadManifest(r) \/ Store(r) \/ Finish(r)

Spec == Init /\ [][Next]_assetVars

-----------------------------------------------------------------------------
(* Property *)

\* Once a deploy is through, every page loads, whatever renders it overtook:
\* all the page's files are of one build, the one that /static/ holds ("a
\* re-read only after a build", app_static.py). From the rsync to the end of
\* collectstatic this is not so.
PagesLoad ==
  \A r \in Renders : render[r] # None /\ render[r].calm /\ static # None =>
    render[r].named \subseteq {static}

=============================================================================
