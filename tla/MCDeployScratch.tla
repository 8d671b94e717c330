-------------------------- MODULE MCDeployScratch --------------------------
(* Finite instances of DeployScratch. *)
EXTENDS DeployScratch

CONSTANTS c0, c1, c2, b1, f1, d1, d2

TwoContents   == {c0, c1}
OneBackend    == {b1}
OneFrontend   == {f1}
OneDoc        == {d1}

=============================================================================
