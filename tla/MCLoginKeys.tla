---------------------------- MODULE MCLoginKeys ----------------------------
(* A finite instance of LoginKeys.                                           *)
EXTENDS LoginKeyProperties

CONSTANTS k1, k2, p1, p2, b1

TwoKeys     == {k1, k2}
TwoRequests == {p1, p2}
OneBrowser  == {b1}
\* One lifetime below the floor, one at it, one above.
AskedFor    == {1, 2, 3}

=============================================================================
