------------------------------- MODULE Merkle -------------------------------
(***************************************************************************)
(* The tree of the transparency log (src/crates/transparency): roots,      *)
(* inclusion proofs and consistency proofs after RFC 6962.                 *)
(*                                                                         *)
(* A hash is the term it hashes: SHA-256 is taken to be injective, with    *)
(* leaves and nodes told apart by their prefix.  The slice the code takes  *)
(* is a span <<a, b>>, the leaves numbered a + 1 to b, so that no index is *)
(* relative to a slice.  Heads' signatures are left out.                   *)
(***************************************************************************)
EXTENDS Integers, Sequences

LeafHash(contents)    == <<"leaf", contents>>
NodeHash(left, right) == <<"node", left, right>>
EmptyRoot             == <<>>

\* Mutant: split in the middle.
SplitPointMiddle(n) == (n + 1) \div 2

\* The largest power of two strictly below n (n > 1), found by doubling.
SplitPoint(n) ==
  LET double[k \in 1..n] == IF 2 * k < n THEN double[2 * k] ELSE k
  IN double[1]

Spans(n)  == {x \in (0..n) \X (0..n) : x[1] <= x[2]}
Size(x)   == x[2] - x[1]
Middle(x) == x[1] + SplitPoint(Size(x))
LeftOf(x)  == <<x[1], Middle(x)>>
RightOf(x) == <<Middle(x), x[2]>>

\* The root over a span of the leaves.
RootIn(leaves, span) ==
  LET r[x \in Spans(Len(leaves))] ==
        IF Size(x) = 0 THEN EmptyRoot
        ELSE IF Size(x) = 1 THEN leaves[x[2]]
        ELSE NodeHash(r[LeftOf(x)], r[RightOf(x)])
  IN r[span]

Root(leaves) == RootIn(leaves, <<0, Len(leaves)>>)

\* The spans that hold the leaf numbered `leaf`.
Holding(leaf, n) == {x \in Spans(n) : x[1] < leaf /\ leaf <= x[2]}

\* The audit path of the leaf at index (from 0, below the size), deepest sibling first.
InclusionProof(leaves, index) ==
  LET p[x \in Holding(index + 1, Len(leaves))] ==
        IF Size(x) = 1 THEN <<>>
        ELSE IF index < Middle(x) THEN Append(p[LeftOf(x)], RootIn(leaves, RightOf(x)))
        ELSE Append(p[RightOf(x)], RootIn(leaves, LeftOf(x)))
  IN p[<<0, Len(leaves)>>]

\* Mutant: the decisions taken on the way down, used in that order.
DirectionsDown(index, size) ==
  LET d[x \in Holding(index + 1, size)] ==
        IF Size(x) = 1 THEN <<>>
        ELSE IF index < Middle(x) THEN <<FALSE>> \o d[LeftOf(x)]
        ELSE <<TRUE>> \o d[RightOf(x)]
  IN d[<<0, size>>]

\* For each level whether the leaf is in the right half: taken on the way down, used from the deepest.
Directions(index, size) ==
  LET d[x \in Holding(index + 1, size)] ==
        IF Size(x) = 1 THEN <<>>
        ELSE IF index < Middle(x) THEN Append(d[LeftOf(x)], FALSE)
        ELSE Append(d[RightOf(x)], TRUE)
  IN d[<<0, size>>]

VerifyInclusion(leaf, index, size, proof, root) ==
  /\ index < size
  /\ LET up == Directions(index, size)
         climb[k \in 0..Len(proof)] ==
           IF k = 0 THEN leaf
           ELSE IF up[k] THEN NodeHash(proof[k], climb[k - 1])
           ELSE NodeHash(climb[k - 1], proof[k])
     IN Len(up) = Len(proof) /\ climb[Len(proof)] = root

\* Whether consistency can be asked for at all; both sides check it.
InRange(from, to) == 0 < from /\ from <= to

\* The proof that the tree extends its first `from` leaves.  The verifier knows the node of the last
\* of them (`complete`) when nothing but left halves led to it: it begins at 0.
ConsistencyProof(leaves, from) ==
  LET sub[x \in Holding(from, Len(leaves))] ==
        IF from = x[2] THEN (IF x[1] = 0 THEN <<>> ELSE <<RootIn(leaves, x)>>)
        ELSE IF from <= Middle(x) THEN Append(sub[LeftOf(x)], RootIn(leaves, RightOf(x)))
        ELSE Append(sub[RightOf(x)], RootIn(leaves, LeftOf(x)))
  IN IF from = Len(leaves) THEN <<>> ELSE sub[<<0, Len(leaves)>>]

\* The indices of the last nodes of the two trees, one level up.
Up(at) == <<at[1] \div 2, at[2] \div 2>>

\* The levels where the old tree ends on a right node are climbed first: they are common.
SkipCommon(from, to) ==
  LET skip[x \in (0..to) \X (0..to)] == IF x[1] % 2 = 1 THEN skip[Up(x)] ELSE x
  IN skip[<<from - 1, to - 1>>]

\* The levels where the last node has no sibling.
SkipAlone(at) ==
  LET skip[x \in (0..at[2]) \X (0..at[2])] ==
        IF x[1] # 0 /\ x[1] % 2 = 0 THEN skip[Up(x)] ELSE x
  IN skip[at]

\* One sibling of the proof taken in: the state is the two indices and the two hashes rebuilt.
Absorbed(st, sibling) ==
  LET joined == st.at[1] % 2 = 1 \/ st.at[1] = st.at[2]
  IN [at  |-> Up(IF joined THEN SkipAlone(st.at) ELSE st.at),
      old |-> IF joined THEN NodeHash(sibling, st.old) ELSE st.old,
      new |-> IF joined THEN NodeHash(sibling, st.new) ELSE NodeHash(st.new, sibling),
      ok  |-> st.ok /\ st.at[2] # 0]

VerifyConsistency(from, oldRoot, to, newRoot, proof) ==
  /\ InRange(from, to)
  /\ IF from = to THEN proof = <<>> /\ oldRoot = newRoot
     ELSE LET at    == SkipCommon(from, to)
              known == at[1] = 0
              seed  == IF known THEN oldRoot ELSE Head(proof)
              rest  == IF known THEN proof ELSE Tail(proof)
              walk[k \in 0..Len(rest)] ==
                IF k = 0 THEN [at |-> at, old |-> seed, new |-> seed, ok |-> TRUE]
                ELSE Absorbed(walk[k - 1], rest[k])
              end   == walk[Len(rest)]
          IN /\ known \/ proof # <<>>
             /\ end.ok /\ end.at[2] = 0 /\ end.old = oldRoot /\ end.new = newRoot
=============================================================================
