----------------------------- MODULE MCSessions -----------------------------
(* Finite instances of Sessions.                                             *)
EXTENDS SessionProperties, TLC

CONSTANTS u1, u2, s1, s2, p1, p2

TwoUsers    == {u1, u2}
OneAdmin    == {u1}
TwoSids     == {s1, s2}
OneRequest  == {p1}
TwoRequests == {p1, p2}

Pages  == {"page", "logoutall"}

\* Requests overlap in the first window only: later there is one at a time, so
\* that the clock can run on over the windows that follow.
CrowdedEarly ==
  now < Window \/ \E p \in Requests : \A q \in Requests \ {p} : pc[q] = "idle"

Symmetry == Permutations(Sids) \cup Permutations(Requests)

=============================================================================
