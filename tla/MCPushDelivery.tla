--------------------------- MODULE MCPushDelivery ---------------------------
(* A finite instance of PushDelivery: two users, a session of each.          *)
EXTENDS PushDelivery, TLC

CONSTANTS s1, s2, u1, u2, n1, e1, e2, p1, p2

TwoSessions  == {s1, s2}
TwoUsers     == {u1, u2}
OwnersOfTwo  == [s \in {s1, s2} |-> IF s = s1 THEN u1 ELSE u2]
OneNote      == {n1}
ForTheFirst  == [n \in {n1} |-> u1]
TwoEndpoints == {e1, e2}
TwoRequests  == {p1, p2}

Symmetry == Permutations(Endpoints) \cup Permutations(Requests)

=============================================================================
