------------------------------- MODULE Storage -------------------------------
(***************************************************************************)
(* What an account keeps on the server and the counter that says so        *)
(* (storage.rs): archives and attachments written under a ceiling, their   *)
(* deletion by their owner, and the purge, which also takes the groups     *)
(* nobody is in (lib.rs).                                                  *)
(*                                                                         *)
(* A request is a record in `tx`, one step per statement, with what it has *)
(* written but not committed; every payload counts for one.  Envelopes are *)
(* reduced to whether a group has a recent one; add_members is one step.   *)
(***************************************************************************)
EXTENDS Integers, FiniteSets

CONSTANTS Accounts, Groups,
          Seqs,         \* the envelopes an account may archive
          Requests, Purges,
          Ceiling,      \* ACCOUNT_STORAGE_BYTES, 0 for none
          MaxUploads,   \* bound on the attachments ever uploaded
          None

ASSUME StorageAssumption ==
  /\ Requests \cap Purges = {}
  /\ Ceiling \in Nat /\ MaxUploads \in Nat
  /\ IsFiniteSet(Seqs)
  /\ None \notin Accounts \cup Groups

Handlers == Requests \cup Purges
Entry == [kind : {"vault"}, account : Accounts, group : Groups, n : Seqs]
Blob  == [kind : {"attachment"}, account : Accounts, group : Groups, n : 1..MaxUploads]

Tx == [pc : {"idle", "admitted", "archived", "admitted upload", "charged upload", "dropped",
             "settled", "expired", "doomed", "credited", "groups"},
       account : Accounts \cup {None}, group : Groups \cup {None},
       asked : SUBSET Seqs,
       ins : SUBSET (Entry \cup Blob), del : SUBSET (Entry \cup Blob),
       delta : [Accounts -> Int],   \* what it has added to the counters
       gone : SUBSET Groups]        \* the groups its DELETE has chosen

VARIABLES rows,      \* vault_entries and attachments, committed
          bytes,     \* account_storage
          members,   \* group_members, by account; the groups that exist are its domain
          recent,    \* groups with an envelope younger than the retention
          old,       \* attachments past their retention
          uploads,   \* attachments uploaded so far
          tx,
          lost       \* history: payloads that went with a group, uncredited

vars == <<rows, bytes, members, recent, old, uploads, tx, lost>>
clock == <<recent, old>>

Idle == [pc |-> "idle", account |-> None, group |-> None, asked |-> {}, ins |-> {}, del |-> {},
         delta |-> [a \in Accounts |-> 0], gone |-> {}]

Init ==
  /\ rows = {} /\ bytes = [a \in Accounts |-> 0]
  /\ members = << >> /\ recent = {} /\ old = {} /\ uploads = 0
  /\ tx = [r \in Handlers |-> Idle]
  /\ lost = [a \in Accounts |-> 0]

Exists    == DOMAIN members
To(r, to) == tx' = [tx EXCEPT ![r] = to]
Of(a, R)  == Cardinality({x \in R : x.account = a})
Starts(r) == r \in Requests /\ tx[r].pc = "idle"

----------------------------------------------------------------------------
(* Groups, and time.                                                       *)

Create(g, a) ==
  /\ g \notin Exists
  /\ members' = [h \in Exists \cup {g} |-> IF h = g THEN {a} ELSE members[h]]
  /\ UNCHANGED <<rows, bytes, clock, uploads, tx, lost>>

Add(g, a) ==
  /\ g \in Exists /\ members[g] # {}
  /\ members' = [members EXCEPT ![g] = @ \cup {a}]
  /\ UNCHANGED <<rows, bytes, clock, uploads, tx, lost>>

Remove(g, a) ==
  /\ g \in Exists /\ a \in members[g]
  /\ members' = [members EXCEPT ![g] = @ \ {a}]
  /\ UNCHANGED <<rows, bytes, clock, uploads, tx, lost>>

\* An envelope is posted, and ages.
Post(g) ==
  /\ g \in Exists /\ recent' = recent \cup {g}
  /\ UNCHANGED <<rows, bytes, members, old, uploads, tx, lost>>

Silence(g) ==
  /\ recent' = recent \ {g}
  /\ UNCHANGED <<rows, bytes, members, old, uploads, tx, lost>>

Age(x) ==
  /\ x.kind = "attachment" /\ old' = old \cup {x.n}
  /\ UNCHANGED <<rows, bytes, members, recent, uploads, tx, lost>>

----------------------------------------------------------------------------
(* Rows locked until the end of a transaction.                             *)

Others(r)   == Handlers \ {r}
Touched(q)  == tx[q].ins \cup tx[q].del

\* Mutant: a row somebody else is deleting is deleted, and given back, again.
FreeAlways(r, R) == TRUE

\* Nobody else has inserted or deleted these rows without an end to its transaction.
Free(r, R) == \A q \in Others(r) : Touched(q) \cap R = {}

\* Mutant: the counter is read, then written.
CounterFreeAlways(r, a) == TRUE

\* The row of account_storage is not held by an UPDATE in progress.
Held(q, a) == \/ tx[q].delta[a] # 0
              \/ tx[q].account = a /\ tx[q].pc \in {"charged upload", "settled"}
CounterFree(r, a) == \A q \in Others(r) : ~Held(q, a)

\* charge: the condition rides on the UPDATE.
Fits(a, n) == Ceiling = 0 \/ bytes[a] + n <= Ceiling

----------------------------------------------------------------------------
(* store_vault.                                                            *)

\* Membership and account are read before the transaction.
Archive(r, a, g, S) ==
  /\ Starts(r) /\ g \in Exists /\ a \in members[g]
  /\ To(r, [Idle EXCEPT !.pc = "admitted", !.account = a, !.group = g, !.asked = S])
  /\ UNCHANGED <<rows, bytes, members, clock, uploads, lost>>

Asked(r) == {[kind |-> "vault", account |-> tx[r].account, group |-> tx[r].group, n |-> n] :
               n \in tx[r].asked}

\* ON CONFLICT DO NOTHING: waits for whoever is writing the same keys, and skips what is there.
ArchiveInsert(r) ==
  /\ tx[r].pc = "admitted" /\ Free(r, Asked(r))
  /\ To(r, [tx[r] EXCEPT !.pc = "archived", !.ins = Asked(r) \ rows])
  /\ UNCHANGED <<rows, bytes, members, clock, uploads, lost>>

\* Mutant: what was asked for is charged.
ArchiveCostAsked(r) == Cardinality(tx[r].asked)

\* What the insertion returned.
ArchiveCost(r) == Cardinality(tx[r].ins)

\* 507 rolls the insertion back.
ArchiveCharge(r) ==
  LET a == tx[r].account
      n == ArchiveCost(r)
  IN /\ tx[r].pc = "archived" /\ CounterFree(r, a)
     /\ IF Fits(a, n)
          THEN To(r, [tx[r] EXCEPT !.pc = "settled", !.delta = [@ EXCEPT ![a] = n]])
          ELSE To(r, Idle)
     /\ UNCHANGED <<rows, bytes, members, clock, uploads, lost>>

----------------------------------------------------------------------------
(* upload_attachment.                                                      *)

Upload(r, a, g) ==
  /\ Starts(r) /\ g \in Exists /\ a \in members[g] /\ uploads < MaxUploads
  /\ uploads' = uploads + 1
  /\ To(r, [Idle EXCEPT !.pc = "admitted upload", !.account = a, !.group = g,
                        !.ins = {[kind |-> "attachment", account |-> a, group |-> g,
                                  n |-> uploads + 1]}])
  /\ UNCHANGED <<rows, bytes, members, clock, lost>>

UploadCharge(r) ==
  LET a == tx[r].account
  IN /\ tx[r].pc = "admitted upload" /\ CounterFree(r, a)
     /\ IF Fits(a, 1)
          THEN To(r, [tx[r] EXCEPT !.pc = "charged upload", !.delta = [@ EXCEPT ![a] = 1]])
          ELSE To(r, Idle)
     /\ UNCHANGED <<rows, bytes, members, clock, uploads, lost>>

\* The foreign key holds the group until the end, or finds it gone.
UploadInsert(r) ==
  /\ tx[r].pc = "charged upload"
  /\ IF tx[r].group \in Exists THEN To(r, [tx[r] EXCEPT !.pc = "settled"]) ELSE To(r, Idle)
  /\ UNCHANGED <<rows, bytes, members, clock, uploads, lost>>

----------------------------------------------------------------------------
(* drop_vault.                                                             *)

Drop(r, a, g) ==
  LET mine == {x \in rows : x.kind = "vault" /\ x.account = a /\ x.group = g}
  IN /\ Starts(r) /\ Free(r, mine)
     /\ To(r, [Idle EXCEPT !.pc = "dropped", !.account = a, !.group = g, !.del = mine])
     /\ UNCHANGED <<rows, bytes, members, clock, uploads, lost>>

DropCredit(r) ==
  LET a == tx[r].account
  IN /\ tx[r].pc = "dropped" /\ CounterFree(r, a)
     /\ To(r, [tx[r] EXCEPT !.pc = "settled", !.delta = [@ EXCEPT ![a] = -Cardinality(tx[r].del)]])
     /\ UNCHANGED <<rows, bytes, members, clock, uploads, lost>>

----------------------------------------------------------------------------
(* The end of a transaction.                                               *)

Settle(r, to) ==
  /\ rows' = (rows \ tx[r].del) \cup tx[r].ins
  /\ bytes' = [a \in Accounts |-> bytes[a] + tx[r].delta[a]]
  /\ To(r, to)
  /\ UNCHANGED <<members, clock, uploads, lost>>

Commit(r) == tx[r].pc = "settled" /\ Settle(r, Idle)

\* Any error, a lost connection, the end of the process, a deadlock the database breaks.
Abort(r) ==
  /\ tx[r].pc # "idle" /\ To(r, Idle)
  /\ UNCHANGED <<rows, bytes, members, clock, uploads, lost>>

----------------------------------------------------------------------------
(* purge_once.                                                             *)

\* Attachments past their retention.
PurgeExpired(p) ==
  LET gone == {x \in rows : x.kind = "attachment" /\ x.n \in old}
  IN /\ p \in Purges /\ tx[p].pc = "idle" /\ Free(p, gone)
     /\ To(p, [Idle EXCEPT !.pc = "expired", !.del = gone])
     /\ UNCHANGED <<rows, bytes, members, clock, uploads, lost>>

Credited(p) == \A a \in Accounts : tx[p].delta[a] = -Of(a, tx[p].del)

\* Each owner is given back what it lost, in an order of the database's.
PurgeCredit(p, a) ==
  /\ tx[p].pc \in {"expired", "doomed"}
  /\ tx[p].delta[a] # -Of(a, tx[p].del) /\ CounterFree(p, a)
  /\ To(p, [tx[p] EXCEPT !.delta = [@ EXCEPT ![a] = -Of(a, tx[p].del)]])
  /\ UNCHANGED <<rows, bytes, members, clock, uploads, lost>>

Doomed == {g \in Exists : members[g] = {} /\ g \notin recent}

\* Then those of the groups about to go.
PurgeDoomed(p) ==
  LET gone == {x \in rows : x.kind = "attachment" /\ x.group \in Doomed}
  IN /\ tx[p].pc = "expired" /\ Credited(p) /\ Free(p, gone)
     /\ To(p, [tx[p] EXCEPT !.pc = "doomed", !.del = @ \cup gone])
     /\ UNCHANGED <<rows, bytes, members, clock, uploads, lost>>

PurgeCommit(p) ==
  /\ tx[p].pc = "doomed" /\ Credited(p)
  /\ Settle(p, [Idle EXCEPT !.pc = "credited"])

\* DELETE FROM groups chooses by its own snapshot.
PurgeGroups(p) ==
  /\ tx[p].pc = "credited"
  /\ To(p, [tx[p] EXCEPT !.pc = "groups", !.gone = Doomed])
  /\ UNCHANGED <<rows, bytes, members, clock, uploads, lost>>

\* Mutant: the cascade does not wait for an insertion that refers to the group.
UnreferredAlways(p) == TRUE

Unreferred(p) == \A q \in Others(p) : \A x \in tx[q].ins :
                   tx[q].pc = "settled" /\ x.kind = "attachment" => x.group \notin tx[p].gone

\* The cascade takes what is left of them, and credits nobody.
PurgeCascade(p) ==
  LET gone == {x \in rows : x.kind = "attachment" /\ x.group \in tx[p].gone}
  IN /\ tx[p].pc = "groups" /\ Free(p, gone) /\ Unreferred(p)
     /\ members' = [g \in Exists \ tx[p].gone |-> members[g]]
     /\ recent' = recent \ tx[p].gone
     /\ rows' = rows \ gone
     /\ lost' = [a \in Accounts |-> lost[a] + Of(a, gone)]
     /\ To(p, Idle)
     /\ UNCHANGED <<bytes, old, uploads>>

----------------------------------------------------------------------------
Request(r) ==
  \/ \E a \in Accounts, g \in Groups :
       Upload(r, a, g) \/ Drop(r, a, g) \/ \E S \in SUBSET Seqs \ {{}} : Archive(r, a, g, S)
  \/ ArchiveInsert(r) \/ ArchiveCharge(r) \/ UploadCharge(r) \/ UploadInsert(r)
  \/ DropCredit(r) \/ Commit(r)

Purge(p) ==
  \/ PurgeExpired(p) \/ PurgeDoomed(p) \/ PurgeCommit(p) \/ PurgeGroups(p) \/ PurgeCascade(p)
  \/ \E a \in Accounts : PurgeCredit(p, a)

Next ==
  \/ \E g \in Groups, a \in Accounts : Create(g, a) \/ Add(g, a) \/ Remove(g, a)
  \/ \E g \in Groups : Post(g) \/ Silence(g)
  \/ \E x \in rows : Age(x)
  \/ \E r \in Handlers : Abort(r)
  \/ \E r \in Requests : Request(r)
  \/ \E p \in Purges : Purge(p)

Spec == Init /\ [][Next]_vars

----------------------------------------------------------------------------
(* Properties.                                                             *)

\* Types; and no credit ever takes a counter below zero, which the table's CHECK would turn into a
\* failure of every later purge (0019_storage_quota.sql).
TypeOK ==
  /\ rows \subseteq Entry \cup Blob /\ bytes \in [Accounts -> Nat]
  /\ Exists \subseteq Groups /\ \A g \in Exists : members[g] \subseteq Accounts
  /\ recent \subseteq Exists /\ old \subseteq 1..MaxUploads /\ uploads \in 0..MaxUploads
  /\ tx \in [Handlers -> Tx] /\ lost \in [Accounts -> Nat]

\* The counter is what the tables hold and what left with a group, whatever requests, drops and
\* purges overlap, fail or find already done (charge and credit are in the transactions that write
\* and delete).
Reconciled == \A a \in Accounts : bytes[a] = Of(a, rows) + lost[a]

\* No account keeps more than the ceiling, with as many connections as it likes (charge).
CeilingHolds == Ceiling # 0 => \A a \in Accounts : Of(a, rows) <= Ceiling

\* No attachment outlives its group or is stored into one that is gone: nobody could download it,
\* and only its age would ever give its bytes back (upload_attachment, purge_once).
AttachmentsHaveAGroup == \A x \in rows : x.kind = "attachment" => x.group \in Exists

=============================================================================
