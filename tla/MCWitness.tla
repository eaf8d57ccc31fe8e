----------------------------- MODULE MCWitness -----------------------------
(* One account older than the log and one to be created; two checks overlap, on one instance. *)
EXTENDS Witness, TLC
CONSTANTS a1, a2, i1, c1, c2
MCAccounts == {a1, a2}
MCInstances == {i1}
MCChecks == {c1, c2}
MCLegacy == {a1}
MCSymmetry == Permutations(MCChecks)
=============================================================================
