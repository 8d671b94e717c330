-------------------------- MODULE SessionProperties --------------------------
(* What Sessions must do.                                                    *)
EXTENDS Sessions

\* An ended session stays ended: a request that loaded it before a logout, a
\* "log out everywhere" or the nightly sweep and answers after it, does not
\* bring it back, and its index row goes with it.
EndedStaysEnded ==
  [][\A s \in drawn : session[s] = None => session'[s] = None /\ index'[s] = None]_vars

\* The index follows: it is less than a window behind the session it copies,
\* so a session the index holds for dead ends within a window of that.
LagBounded ==
  \A s \in Sids : index[s] # None => session[s].expire < index[s].expire + Window

Quiet == \A p \in Requests : pc[p] = "idle"

\* A session that has not been upset keeps the promise of the idle touch: once
\* its requests have been answered it has half a window left from the last of
\* them at the least ("Half-life touch, amortized", middleware.py:169-184).
\* What upsets it is a request that dies between the index update and the save,
\* the flag popped in between touches, or a sign-in that could not index it.
HalfWindowGuaranteed ==
  Quiet => \A s \in Sids \ upset : session[s] # None =>
             session[s].expire >= seen[s] + Window \div 2

\* "drift only undercounts" (base.py:473): a session that the index counts as
\* live is live, in step with its index row or not: popped, signed in over
\* another user's, backfilled. Only a request that died between the index update
\* and the save leaves a row that may outlast its session, until the next save,
\* and by less than a window even then.
DriftOnlyUndercounts ==
  \A s \in Sids : index[s] # None =>
    /\ s \notin ahead => (index[s].expire > now => session[s].expire > now)
    /\ index[s].expire < session[s].expire + Window

Missed(p, found) ==
  {s \in Sids : Live(s) /\ index[s] # None /\ session[s].user = req[p].target} \ found

Collects(p) == pc[p] = "view" /\ pc'[p] = "collected"

\* "log out everywhere" passes no indexed session of its target by, unless it
\* has been upset (force_logout and the touch keep to the same deadline).
LogoutFindsSteady ==
  [][\A p \in Requests : Collects(p) => Missed(p, mem'[p].victims) \subseteq upset]_vars

\* force_logout ends "every active session of the target" that is indexed
\* (views/users.py:427-433): its query misses none, upset or not.
LogoutFindsIndexed ==
  [][\A p \in Requests : Collects(p) => Missed(p, mem'[p].victims) = {}]_vars

=============================================================================
