----------------------------- MODULE MCStorage -----------------------------
(* Two accounts share a group; two requests and a purge overlap. *)
EXTENDS Storage, TLC
CONSTANTS a1, a2, g1, r1, r2, p1
MCAccounts == {a1, a2}
MCGroups == {g1}
MCRequests == {r1, r2}
MCPurges == {p1}
MCSymmetry == Permutations(MCRequests) \cup Permutations(MCAccounts)
=============================================================================
