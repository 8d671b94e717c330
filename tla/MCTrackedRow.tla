---------------------------- MODULE MCTrackedRow ----------------------------
(* Finite instances of TrackedRow. *)
EXTENDS TrackedRowProperties, TLC

CONSTANTS p1, p2, p3, r1, r2, c1, c2, n1, n2, n3

TwoProcs   == {p1, p2}
ThreeProcs == {p1, p2, p3}
OneRow     == {r1}
TwoRows    == {r1, r2}
OneCol     == {c1}
TwoCols    == {c1, c2}
Binary     == {0, 1}
OneVal     == {0}
NoNames    == {}
TwoNames   == {n1, n2}
ThreeNames == {n1, n2, n3}
NoSkipper  == {}

Edits       == {"create", "edit", "delete"}

Symmetry == Permutations(Procs) \cup Permutations(Rows)
            \cup Permutations(Cols) \cup Permutations(Names)

=============================================================================
