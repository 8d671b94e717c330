------------------------------ MODULE MCParts ------------------------------
(* A finite instance of Parts.                                               *)
EXTENDS Parts

CONSTANTS x, y, z

MixedKinds == [r \in 1..MaxRows |-> IF r = 2 THEN y ELSE x]
One == {x}
Two == {x, y}
OtherTwo == {y, z}
OneTwo == {1, 2}
OneTwoThree == {1, 2, 3}

=============================================================================
