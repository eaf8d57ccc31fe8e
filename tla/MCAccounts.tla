----------------------------- MODULE MCAccounts -----------------------------
(* One account older than the log, with two devices, and one to be created; two requests overlap. *)
EXTENDS Accounts, TLC
CONSTANTS a1, a2, r1, r2, i1, i2, d1, d2
MCAccounts == {a1, a2}
MCRequests == {r1, r2}
MCInstances == {i1, i2}
MCLegacy == {a1}
MCDevices == {d1, d2}
MCOwner == [d \in MCDevices |-> a1]
MCSymmetry == Permutations(MCRequests) \cup Permutations(MCInstances) \cup Permutations(MCDevices)
=============================================================================
