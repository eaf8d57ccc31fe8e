------------------------------ MODULE MCCommits ------------------------------
(* Account A founds with a1, account B with b1; a2 is yet to be linked to A. *)
EXTENDS Commits

CONSTANTS a1, a2, b1, A, B
TwoAndOne == {a1, a2, b1}
Accounts  == {A, B}
OwnerOf   == [d \in Device |-> IF d \in {a1, a2} THEN A ELSE B]
Pair      == {a1, b1}
OnlyA     == {a1}
=============================================================================
