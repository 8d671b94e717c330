---------------------------- MODULE MCUserAdmin ----------------------------
(* Finite instances of UserAdmin.                                            *)
EXTENDS UserAdmin, TLC

CONSTANTS a1, a2, e1, e2, h1, h2

TwoAccounts   == {a1, a2}
TwoEditors    == {e1, e2}
OneShell      == {h1}
TwoShells     == {h1, h2}

\* Forms that promote, that demote, and that deactivate and change the rest.
ThreeForms == {Super, Ordinary, [superuser |-> TRUE, active |-> FALSE, other |-> TRUE]}

Symmetry == Permutations(Accounts) \cup Permutations(Editors) \cup Permutations(Shells)

=============================================================================
