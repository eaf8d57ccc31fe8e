------------------------------ MODULE MCMerkle ------------------------------
(* Two entries are enough to tell two logs apart at any index. *)
EXTENDS TwoLogs
MCEntries == {"x", "y"}
=============================================================================
