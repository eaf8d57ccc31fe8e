------------------------------ MODULE Witness ------------------------------
(***************************************************************************)
(* The client that watches the transparency log (transparency.ts,          *)
(* session-log.ts), and the server's reads it is answered by (log.rs,      *)
(* routes.rs): per instance the last tree read, certified by a two-number  *)
(* fingerprint.                                                            *)
(*                                                                         *)
(* A check of an account's key, or of the head a peer gossips, takes       *)
(* several requests, each several statements, and is measured against the  *)
(* anchor `seen`.  The log grows as KeyLog promises, at any moment: the    *)
(* server is the honest one, and what an alarm may rest on is the subject. *)
(* A head is the tree it is the head of; signatures and the pinned key of  *)
(* the log are left out.                                                   *)
(***************************************************************************)
EXTENDS KeyLog, Merkle

CONSTANTS Instances, Checks,
          None,       \* no head accepted yet, nothing cached, nobody
          MaxChecks   \* bound on the number of checks a client makes

\* What the table can hold: a row at some of the sequence numbers.
Tables == {{f[n] : n \in DOMAIN f} : f \in UNION {[used -> Row] : used \in SUBSET (1..MaxRows)}}

ASSUME WitnessAssumption ==
  None \notin Accounts \cup Instances \cup Tables /\ MaxChecks \in Nat

\* A check: an account's key, or a peer's head; `ask` is the request it is in the middle of.
Check == [pc : {"idle", "listed", "probe", "compare", "rebuild", "store", "have", "latest",
                "refused"},
          ask : {"proof", "head", "consistency"},
          account : Accounts \cup {None}, key : Key0, at : Instances \cup {None},
          from : Tree \cup {None},      \* the anchor it measures against
          probe : Nat \X Nat,           \* the fingerprint read
          tree : Tree \cup {None},      \* the tree of the request in progress
          head : Tree \cup {None},      \* the head received first
          row : Row \cup {None},        \* the account's latest row
          moved : BOOLEAN]              \* history: the log has grown since the check began

VARIABLES cache, chk,
          seen,     \* the head last accepted
          peer,     \* a head a correspondent has accepted and may gossip
          begun,    \* checks begun
          late      \* history: accounts back-filled after somebody else had entered them

vars == <<key, table, cache, chk, seen, peer, begun, late>>
log  == <<key, table, late>>

IdleCheck == [pc |-> "idle", ask |-> "proof", account |-> None, key |-> NoKey,
              at |-> None, from |-> None, probe |-> <<0, 0>>,
              tree |-> None, head |-> None, row |-> None, moved |-> FALSE]

Init ==
  /\ LogInit
  /\ cache = [i \in Instances |-> None]
  /\ chk = [c \in Checks |-> IdleCheck]
  /\ seen = None /\ peer = None /\ begun = 0 /\ late = {}

----------------------------------------------------------------------------
(* The log grows.                                                          *)

Noticed == chk' = [c \in Checks |-> [chk[c] EXCEPT !.moved = TRUE]]

\* An account is created, or rotates to a key that is new to the log.
Grow(a, n) ==
  LET k == IF key[a] = NoKey THEN 1 ELSE 1 + Cardinality({e \in table : e.key > 1}) + 1
  IN /\ k \in Keys
     /\ Publish([seq |-> n, account |-> a, key |-> k, by |-> key[a]])
     /\ Noticed
     /\ UNCHANGED <<cache, seen, peer, begun, late>>

\* An instance starts and enters the accounts older than the log, some of them with a key they
\* have had since.
Enter(a, n, k) ==
  /\ key[a] # NoKey /\ k <= key[a]
  /\ CatchUp({[seq |-> n, account |-> a, key |-> k, by |-> NoKey]})
  /\ Noticed
  /\ late' = IF RowsOf(a) = {} THEN late ELSE late \cup {a}
  /\ UNCHANGED <<cache, seen, peer, begun>>
----------------------------------------------------------------------------
(* The server's reads: one request of a check, statement by statement.     *)

Fingerprint(t) ==
  <<Cardinality(t), IF t = {} THEN 0 ELSE (CHOOSE e \in t : IsLast(e, t)).seq>>

ToCheck(c, with) == chk' = [chk EXCEPT ![c] = with]

\* snapshot: the fingerprint of the table, in one statement.
Probe(c) ==
  /\ chk[c].pc = "probe"
  /\ ToCheck(c, [chk[c] EXCEPT !.pc = "compare", !.probe = Fingerprint(table)])
  /\ UNCHANGED <<log, cache, seen, peer, begun>>

\* Mutant: what is cached is served.
CertifiedAlways(c) == cache[chk[c].at] # None

Certified(c) ==
  LET t == cache[chk[c].at]
  IN t # None /\ Fingerprint(t) = chk[c].probe

\* The cached tree is served if the table has not moved.
Compare(c) ==
  /\ chk[c].pc = "compare"
  /\ ToCheck(c, IF Certified(c)
                  THEN [chk[c] EXCEPT !.pc = "have", !.tree = cache[chk[c].at]]
                  ELSE [chk[c] EXCEPT !.pc = "rebuild"])
  /\ UNCHANGED <<log, cache, seen, peer, begun>>

Rebuild(c) ==
  /\ chk[c].pc = "rebuild"
  /\ ToCheck(c, [chk[c] EXCEPT !.pc = "store", !.tree = table])
  /\ UNCHANGED <<log, cache, seen, peer, begun>>

\* The rebuilt tree is cached, over whatever another request stored meanwhile.
Store(c) ==
  /\ chk[c].pc = "store"
  /\ ToCheck(c, [chk[c] EXCEPT !.pc = "have"])
  /\ cache' = [cache EXCEPT ![chk[c].at] = chk[c].tree]
  /\ UNCHANGED <<log, seen, peer, begun>>

\* Mutant: the first row of the account.
LatestFirst(e, t) == \A f \in t : e.seq <= f.seq

IsLatest(e, t) == IsLast(e, t)

\* log_proof: after the snapshot, the account's latest row.
Latest(c) ==
  /\ chk[c].pc = "have" /\ chk[c].ask = "proof"
  /\ \/ \E e \in RowsOf(chk[c].account) :
          /\ IsLatest(e, RowsOf(chk[c].account))
          /\ ToCheck(c, [chk[c] EXCEPT !.pc = "latest", !.row = e])
     \/ RowsOf(chk[c].account) = {} /\ ToCheck(c, IdleCheck)      \* 404, deferred
  /\ UNCHANGED <<log, cache, seen, peer, begun>>

----------------------------------------------------------------------------
(* The client.                                                             *)

SizeOf(t)  == Cardinality(t)
Nth(t, n)  == CHOOSE e \in t : Cardinality({f \in t : f.seq < e.seq}) = n - 1
Leaf(a, k) == LeafHash([account |-> a, key |-> k])
Leaves(t)  == [n \in 1..SizeOf(t) |-> Leaf(Nth(t, n).account, Nth(t, n).key)]
RootOf(t)  == Root(Leaves(t))

\* resolveAccount: the key served for the account, from the accounts' table.
List(c, a) ==
  /\ chk[c].pc = "idle" /\ begun < MaxChecks /\ key[a] # NoKey
  /\ ToCheck(c, [IdleCheck EXCEPT !.pc = "listed", !.account = a, !.key = key[a]])
  /\ begun' = begun + 1
  /\ UNCHANGED <<log, cache, seen, peer>>

\* witness.check: the anchor is the head last accepted as of this call.
Ask(c, i) ==
  /\ chk[c].pc = "listed"
  /\ ToCheck(c, [chk[c] EXCEPT !.pc = "probe", !.at = i, !.from = seen])
  /\ UNCHANGED <<log, cache, seen, peer, begun>>

\* checkGossip: a peer's head is the anchor, and the current head is asked for first.
AskGossip(c, i) ==
  /\ chk[c].pc = "idle" /\ begun < MaxChecks /\ peer # None
  /\ ToCheck(c, [IdleCheck EXCEPT !.pc = "probe", !.ask = "head", !.at = i, !.from = peer])
  /\ begun' = begun + 1
  /\ UNCHANGED <<log, cache, seen, peer>>

\* A correspondent accepts a head, and sends it (bound: once).
PeerSees ==
  /\ table # {} /\ peer = None
  /\ peer' = table
  /\ UNCHANGED <<log, cache, chk, seen, begun>>

\* Mutant: the head is not carried to the second request.
ExtendingHeadless(c, head, i) ==
  [chk[c] EXCEPT !.pc = "probe", !.ask = "consistency", !.at = i,
                 !.tree = None, !.row = None]

\* verifyExtends asks for the proof in a request of its own, of any instance.
Extending(c, head, i) ==
  [chk[c] EXCEPT !.pc = "probe", !.ask = "consistency", !.head = head, !.at = i,
                 !.tree = None, !.row = None]

Refuse(c) == ToCheck(c, [chk[c] EXCEPT !.pc = "refused"]) /\ UNCHANGED seen
Defer(c)  == ToCheck(c, IdleCheck) /\ UNCHANGED seen
Accept(c, head) == ToCheck(c, IdleCheck) /\ seen' = head

\* The proof of inclusion is for index_of the latest row, in the tree of the snapshot.
IncludedIn(c, index) ==
  LET t == chk[c].tree
  IN VerifyInclusion(Leaf(chk[c].account, chk[c].key), index, SizeOf(t),
                       InclusionProof(Leaves(t), index), RootOf(t))

IndexOf(e) == Cardinality({f \in table : f.seq < e.seq})

\* log_proof counts the rows before the latest, and verifyAccount checks what it is answered.
Proved(c) ==
  LET t == chk[c].tree
      index == IndexOf(chk[c].row)
  IN /\ chk[c].pc = "latest"
     /\ IF index >= SizeOf(t) THEN Defer(c)                        \* 400
        ELSE IF \/ chk[c].from # None /\ SizeOf(t) < SizeOf(chk[c].from)
                \/ ~IncludedIn(c, index)
                \/ chk[c].key # chk[c].row.key
             THEN Refuse(c)
        ELSE IF chk[c].from = None THEN Accept(c, t)
        ELSE \E i \in Instances : ToCheck(c, Extending(c, t, i)) /\ UNCHANGED seen
     /\ UNCHANGED <<log, cache, peer, begun>>

\* extendsView: the head it was given, and then the proof.
HeadAnswered(c) ==
  /\ chk[c].pc = "have" /\ chk[c].ask = "head"
  /\ IF SizeOf(chk[c].from) > SizeOf(chk[c].tree) THEN Refuse(c)
     ELSE \E i \in Instances : ToCheck(c, Extending(c, chk[c].tree, i)) /\ UNCHANGED seen
  /\ UNCHANGED <<log, cache, peer, begun>>

\* verifyExtends: the proof comes from the tree of this request, the head from the one before.
Links(c) ==
  VerifyConsistency(SizeOf(chk[c].from), RootOf(chk[c].from),
                      SizeOf(chk[c].head), RootOf(chk[c].head),
                      ConsistencyProof(Leaves(chk[c].tree), SizeOf(chk[c].from)))

\* Only the check of an account moves the anchor.
Linked(c) ==
  /\ chk[c].pc = "have" /\ chk[c].ask = "consistency"
  /\ IF ~InRange(SizeOf(chk[c].from), SizeOf(chk[c].tree)) THEN Defer(c)
     ELSE IF ~Links(c) THEN Refuse(c)
     ELSE IF chk[c].key = NoKey THEN Defer(c)
     ELSE Accept(c, chk[c].head)
  /\ UNCHANGED <<log, cache, peer, begun>>

\* The request or its answer is lost: deferred, and nothing is remembered.
Lose(c) ==
  /\ chk[c].pc \notin {"idle", "refused"}
  /\ Defer(c)
  /\ UNCHANGED <<log, cache, peer, begun>>

Read(c) == \/ Probe(c) \/ Compare(c) \/ Rebuild(c) \/ Store(c) \/ Latest(c)
           \/ \E a \in Accounts : List(c, a)
           \/ \E i \in Instances : Ask(c, i) \/ AskGossip(c, i)
           \/ Proved(c) \/ HeadAnswered(c) \/ Linked(c) \/ Lose(c)

Next ==
  \/ \E a \in Accounts, n \in 1..MaxRows : Grow(a, n)
  \/ \E a \in Legacy, n \in 1..MaxRows, k \in Keys : Enter(a, n, k)
  \/ PeerSees
  \/ \E c \in Checks : Read(c)

Spec == Init /\ [][Next]_vars

----------------------------------------------------------------------------
(* Properties.                                                             *)

\* Types; and a proof of consistency is asked for with both views in hand (verifyExtends).
TypeOK ==
  /\ key \in [Accounts -> Key0] /\ table \in Tree /\ late \in SUBSET Accounts
  /\ cache \in [Instances -> Tree \cup {None}]
  /\ chk \in [Checks -> Check]
  /\ seen \in Tree \cup {None} /\ peer \in Tree \cup {None}
  /\ begun \in 0..MaxChecks
  /\ \A c \in Checks : chk[c].ask = "consistency" => chk[c].from # None /\ chk[c].head # None

TreesHeld == ({cache[i] : i \in Instances} \cup {seen, peer}
               \cup UNION {{chk[c].from, chk[c].tree, chk[c].head} : c \in Checks}) \ {None}

\* The log is append-only as anybody sees it: every tree cached, being served, accepted by a client
\* or gossiped by a peer is a prefix of the table, whatever transactions overlap or roll back.
TreesArePrefixes == \A t \in TreesHeld : Extends(t, table)

\* An honest server is accused only by a check during which the log grew: no cache, instance,
\* concurrent check or roll-back makes one fail by itself.
AlarmsNeedAGrowth == \A c \in Checks : chk[c].pc = "refused" => 
  chk[c].moved \/ chk[c].account \in late

\* The head a check of an account is about to accept shows the key it was served as the last one
\* the account has there (verifyAccount).
AcceptedIsCurrent ==
  \A c \in Checks :
    chk[c].ask = "consistency" /\ chk[c].key # NoKey =>
      \E e \in chk[c].head : /\ e.account = chk[c].account /\ e.key = chk[c].key
                             /\ IsLast(e, {f \in chk[c].head : f.account = e.account})

\* A false alarm in a fork detector is not a lesser failure than a missed one (log.rs:94): an
\* honest server is never said to have rewritten its log.
NoFalseFork == \A c \in Checks : chk[c].ask = "consistency" => chk[c].pc # "refused"
=============================================================================
