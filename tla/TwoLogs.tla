------------------------------ MODULE TwoLogs ------------------------------
(***************************************************************************)
(* Two logs that grow: the one a client is shown, and another one that may *)
(* have left it (a server that keeps two, or one that was restored).  What *)
(* Merkle's proofs show of one and refuse of the other.                    *)
(***************************************************************************)
EXTENDS Merkle

CONSTANTS Entries,    \* what a leaf may hold
          MaxLeaves   \* bound on the size of a log

ASSUME TwoLogsAssumption == MaxLeaves \in Nat

VARIABLES ours, theirs

logs == <<ours, theirs>>

LogsInit == ours = <<>> /\ theirs = <<>>

\* log.rs appends to the end; each log grows at its own pace.
AppendOurs(e) ==
  /\ Len(ours) < MaxLeaves
  /\ ours' = Append(ours, LeafHash(e))
  /\ UNCHANGED theirs

AppendTheirs(e) ==
  /\ Len(theirs) < MaxLeaves
  /\ theirs' = Append(theirs, LeafHash(e))
  /\ UNCHANGED ours

LogsNext == \E e \in Entries : AppendOurs(e) \/ AppendTheirs(e)

LogsSpec == LogsInit /\ [][LogsNext]_logs

----------------------------------------------------------------------------
Hashes == {LeafHash(e) : e \in Entries}
Known(leaves, n) == Root(SubSeq(leaves, 1, n))

\* Every inclusion proof the server makes verifies for its own leaf, index and tree; and no proof
\* made from either log convinces a client of a leaf that is not at that index of the tree whose
\* root it holds (inclusion_proof and verify_inclusion).
InclusionIsExact ==
  /\ \A i \in 1..Len(ours) :
       VerifyInclusion(ours[i], i - 1, Len(ours), InclusionProof(ours, i - 1), Root(ours))
  /\ \A source \in {ours, theirs} : \A i \in 1..Len(source) : \A j \in 1..Len(ours) : \A x \in Hashes :
       VerifyInclusion(x, j - 1, Len(ours), InclusionProof(source, i - 1), Root(ours))
         => x = ours[j]

\* The proof for an earlier size verifies against exactly the view it extends: a client that saw
\* a prefix is convinced, one that saw anything else of that size is not, whichever log the proof
\* is made from (consistency_proof and verify_consistency).
ConsistencyIsExact ==
  \A m \in 1..Len(ours) :
    /\ VerifyConsistency(m, Known(ours, m), Len(ours), Root(ours), ConsistencyProof(ours, m))
    /\ m <= Len(theirs) =>
         /\ VerifyConsistency(m, Known(theirs, m), Len(ours), Root(ours), ConsistencyProof(ours, m))
              => SubSeq(theirs, 1, m) = SubSeq(ours, 1, m)
         /\ VerifyConsistency(m, Known(theirs, m), Len(ours), Root(ours), ConsistencyProof(theirs, m))
              => SubSeq(theirs, 1, m) = SubSeq(ours, 1, m)
=============================================================================
