------------------------------ MODULE Accounts ------------------------------
(***************************************************************************)
(* The server's side of identity (routes.rs, log.rs): accounts and the     *)
(* rotation of their keys, the transparency log, devices, their            *)
(* attestations, revocations and stocks of key packages.                   *)
(*                                                                         *)
(* A request in progress is a record in `tx`, one step per statement or    *)
(* transaction; a signature is the number of the key that made it.         *)
(* Handles, storage counters and escrows are left out.                     *)
(***************************************************************************)
EXTENDS KeyLog

CONSTANTS Requests, Instances,
          Devices, Owner,   \* the devices that may register, and their accounts
          MaxPackages,      \* bound on the key packages published
          MaxRevoked,       \* bound on the devices revoked
          None

ASSUME AccountsAssumption ==
  /\ Requests \cap Instances = {}
  /\ Owner \in [Devices -> Accounts]
  /\ MaxPackages \in Nat /\ MaxRevoked \in Nat

Handlers == Requests \cup Instances
Packages == [id : 1..MaxPackages, device : Devices]

\* A request, or the back-fill an instance makes as it starts.
Tx == [pc : {"idle", "verified", "updated", "appended", "listed", "up",
             "attesting", "revoking", "purging", "publishing", "claiming"},
       account : Accounts \cup {None}, device : Devices \cup {None},
       key : Key0, by : Key0,
       todo : SUBSET (Accounts \X Keys), rows : Tree]

\* A row of devices: the key that signed its attestation, NoKey without one, and whether it has a
\* certificate of revocation.
Device == [att : Key0, cert : BOOLEAN]

VARIABLES seq,      \* the BIGSERIAL of log_entries
          made,     \* keys made so far
          tx,
          dev, stock,
          packed,   \* key packages published so far
          handed,   \* history: claims answered
          overlaps, \* history: claims under way as their device's certificate was written
          stray,    \* history: packages put in stock under a device already revoked
          answered, \* history: devices whose revocation went through to its answer
          raced,    \* history: accounts of which two rotations overlapped
          late      \* history: accounts back-filled after somebody else had entered them

vars == <<key, table, seq, made, tx, dev, stock, packed, handed, overlaps, stray, answered,
          raced, late>>
devices == <<dev, stock, packed, handed, overlaps, stray, answered>>

Idle == [pc |-> "idle", account |-> None, device |-> None, key |-> NoKey, by |-> NoKey,
         todo |-> {}, rows |-> {}]

Init ==
  /\ LogInit
  /\ seq = 0 /\ made = 1
  /\ tx = [r \in Handlers |-> Idle]
  /\ dev = [d \in Devices |-> [att |-> NoKey, cert |-> FALSE]]
  /\ stock = {} /\ packed = 0 /\ handed = {}
  /\ overlaps = {} /\ stray = {} /\ answered = {} /\ raced = {} /\ late = {}

Up            == {i \in Instances : tx[i].pc = "up"}
Serves(r)     == r \in Requests /\ Up # {} /\ tx[r].pc = "idle"
Registered(d) == dev[d].att # NoKey
Revoked(d)    == dev[d].cert                       \* which the extractor Signed does not look at
To(r, with)   == tx' = [tx EXCEPT ![r] = with]
Done(r)       == To(r, Idle)

----------------------------------------------------------------------------
(* Accounts and the log.                                                   *)

\* The row lock of the account (an UPDATE, or an INSERT others would conflict with) and the
\* advisory lock of the log are held until the transaction ends.
HasRow(r)     == tx[r].pc \in {"updated", "appended"}
RowLocked(a)  == \E r \in Requests : HasRow(r) /\ tx[r].account = a
Appending(r)  == tx[r].pc = "appended"
Rotating(a)   == \E r \in Requests : tx[r].account = a /\ tx[r].pc \in {"verified", "updated", "appended"}

\* Mutant: the rotation is verified under the key the account is named after.
SignerGenesis(a) == 1

Signer(a) == key[a]

\* rotate_account up to its transaction: the caller is a device of the account, the current key is read and
\* the signature of the new one verified under it.
RotateBegin(r, d) ==
  /\ Serves(r) /\ Registered(d) /\ made < MaxKeys
  /\ made' = made + 1
  /\ To(r, [Idle EXCEPT !.pc = "verified", !.account = Owner[d], !.device = d,
                        !.key = made + 1, !.by = Signer(Owner[d])])
  /\ raced' = IF Rotating(Owner[d]) THEN raced \cup {Owner[d]} ELSE raced
  /\ UNCHANGED <<key, table, seq, devices, late>>

\* UPDATE accounts SET identity_key: the row is locked, whatever key it holds by now.
RotateUpdate(r) ==
  /\ tx[r].pc = "verified" /\ ~RowLocked(tx[r].account)
  /\ To(r, [tx[r] EXCEPT !.pc = "updated"])
  /\ UNCHANGED <<key, table, seq, made, devices, raced, late>>

\* create_account: the insertion wins, or finds the account there and does nothing.
Create(r, a) ==
  /\ Serves(r) /\ key[a] = NoKey /\ ~RowLocked(a)
  /\ To(r, [Idle EXCEPT !.pc = "updated", !.account = a, !.key = 1])
  /\ UNCHANGED <<key, table, seq, made, devices, raced, late>>

\* Mutant: append without the advisory lock.
LogFreeUnlocked(r) == TRUE

LogFree(r) == \A q \in Handlers : Appending(q) => q = r

\* append: the advisory lock, then the insertion that draws the sequence.
AppendRow(r) ==
  /\ r \in Requests /\ tx[r].pc = "updated" /\ seq < MaxRows
  /\ LogFree(r)
  /\ seq' = seq + 1
  /\ To(r, [tx[r] EXCEPT !.pc = "appended",
                         !.rows = {[seq |-> seq + 1, account |-> tx[r].account,
                                    key |-> tx[r].key, by |-> tx[r].by]}])
  /\ UNCHANGED <<key, table, made, devices, raced, late>>

\* A rotation takes the other devices' key packages with it.
KeptBy(r) ==
  IF tx[r].device = None THEN stock
  ELSE {p \in stock : Owner[p.device] # tx[r].account \/ p.device = tx[r].device}

\* Mutant: only a creation is logged.
LoggedCreation(r) == {e \in tx[r].rows : e.by = NoKey}

Logged(r) == tx[r].rows

\* The commit: account, log entry and stock change together.
Commit(r) ==
  /\ r \in Requests /\ Appending(r)
  /\ table' = table \cup Logged(r)
  /\ key' = [key EXCEPT ![tx[r].account] = tx[r].key]
  /\ stock' = KeptBy(r)
  /\ Done(r)
  /\ UNCHANGED <<seq, made, dev, packed, handed, overlaps, stray, answered, raced, late>>

\* Any error path, a lost connection or the end of the process: the transaction is rolled back, its
\* sequence is not; and a revocation may stop between its two statements.
Abort(r) ==
  /\ tx[r].pc \in {"updated", "appended", "purging"}
  /\ Done(r)
  /\ UNCHANGED <<key, table, seq, made, devices, raced, late>>

\* backfill lists, outside its transaction, the accounts without an entry.
BackfillList(i) ==
  /\ i \in Instances /\ tx[i].pc = "idle"
  /\ To(i, [Idle EXCEPT !.pc = "listed",
                        !.todo = {<<a, key[a]>> : a \in {b \in Accounts : key[b] # NoKey /\ RowsOf(b) = {}}}])
  /\ UNCHANGED <<key, table, seq, made, devices, raced, late>>

BackfillAppend(i) ==
  /\ i \in Instances /\ tx[i].pc \in {"listed", "appended"}
  /\ seq < MaxRows
  /\ LogFree(i)
  /\ \E p \in tx[i].todo :
       To(i, [tx[i] EXCEPT !.pc = "appended", !.todo = @ \ {p},
                           !.rows = @ \cup {[seq |-> seq + 1, account |-> p[1],
                                             key |-> p[2], by |-> NoKey]}])
  /\ seq' = seq + 1
  /\ UNCHANGED <<key, table, made, devices, raced, late>>

\* The instance serves once its back-fill is committed.
BackfillCommit(i) ==
  /\ i \in Instances /\ tx[i].pc \in {"listed", "appended"} /\ tx[i].todo = {}
  /\ table' = table \cup tx[i].rows
  /\ To(i, [Idle EXCEPT !.pc = "up"])
  /\ late' = late \cup {a \in Accounts : RowsOf(a) # {} /\ \E e \in tx[i].rows : e.account = a}
  /\ UNCHANGED <<key, seq, made, devices, raced>>

----------------------------------------------------------------------------
(* Devices.                                                                *)

\* register_device reads the account's key and verifies the attestation under it.
RegisterBegin(r, d) ==
  /\ Serves(r) /\ key[Owner[d]] # NoKey
  /\ To(r, [Idle EXCEPT !.pc = "attesting", !.device = d, !.by = key[Owner[d]]])
  /\ UNCHANGED <<key, table, seq, made, devices, raced, late>>

\* The insertion, or on the same keys the update of the attestation alone.
RegisterWrite(r) ==
  /\ tx[r].pc = "attesting"
  /\ dev' = [dev EXCEPT ![tx[r].device].att = tx[r].by]
  /\ Done(r)
  /\ UNCHANGED <<key, table, seq, made, stock, packed, handed, overlaps, stray, answered, raced, late>>

\* The devices revoked, or about to be.
Leaving == {d \in Devices : Revoked(d) \/ \E q \in Requests : tx[q].pc = "revoking" /\ tx[q].device = d}

\* revoke_device: asked by any device of the account, this one included; the certificate verifies
\* under the key the account has.
RevokeBegin(r, d) ==
  /\ Serves(r) /\ Registered(d) /\ Cardinality(Leaving \cup {d}) <= MaxRevoked
  /\ To(r, [Idle EXCEPT !.pc = "revoking", !.device = d])
  /\ UNCHANGED <<key, table, seq, made, devices, raced, late>>

\* The claims that have passed their check of device d and not reached the stock yet.
PastCheck(d) == {q \in Requests : tx[q].pc = "claiming" /\ tx[q].device = d}

\* A second revocation does not replace the certificate.
RevokeWrite(r) ==
  /\ tx[r].pc = "revoking"
  /\ dev' = [dev EXCEPT ![tx[r].device].cert = TRUE]
  /\ overlaps' = IF Revoked(tx[r].device) THEN overlaps ELSE overlaps \cup PastCheck(tx[r].device)
  /\ To(r, [tx[r] EXCEPT !.pc = "purging"])
  /\ UNCHANGED <<key, table, seq, made, stock, packed, handed, stray, answered, raced, late>>

\* Mutant: the clause of a rotation, which keeps the packages of the device it is about.
PurgedOthers(d) == {p \in stock : Owner[p.device] # Owner[d] \/ p.device = d}

Purged(d) == {p \in stock : p.device # d}

\* The stock goes with the device, in a statement of its own.
RevokePurge(r) ==
  /\ tx[r].pc = "purging"
  /\ stock' = Purged(tx[r].device)
  /\ answered' = answered \cup {tx[r].device}
  /\ Done(r)
  /\ UNCHANGED <<key, table, seq, made, dev, packed, handed, overlaps, stray, raced, late>>

\* publish_key_packages: the signature is checked first, the packages are written later; a revoked
\* device may do so as well.
PublishBegin(r, d) ==
  /\ Serves(r) /\ Registered(d) /\ packed < MaxPackages
  /\ To(r, [Idle EXCEPT !.pc = "publishing", !.device = d])
  /\ UNCHANGED <<key, table, seq, made, devices, raced, late>>

PublishWrite(r) ==
  /\ tx[r].pc = "publishing" /\ packed < MaxPackages
  /\ packed' = packed + 1
  /\ LET p == [id |-> packed + 1, device |-> tx[r].device]
     IN  /\ stock' = stock \cup {p}
         /\ stray' = IF Revoked(p.device) THEN stray \cup {p} ELSE stray
  /\ Done(r)
  /\ UNCHANGED <<key, table, seq, made, dev, handed, overlaps, answered, raced, late>>

\* claim_key_package: a revoked device is refused.
ClaimBegin(r, d) ==
  /\ Serves(r) /\ ~Revoked(d)
  /\ To(r, [Idle EXCEPT !.pc = "claiming", !.device = d])
  /\ UNCHANGED <<key, table, seq, made, devices, raced, late>>

StockOf(d) == {p \in stock : p.device = d}

\* Mutant: selected and not deleted.
LeftAfter(p) == stock

\* DELETE .. RETURNING the oldest package, locked and skipped by any other claim.
Without(p) == stock \ {p}

ClaimTake(r) ==
  /\ tx[r].pc = "claiming"
  /\ \/ \E p \in StockOf(tx[r].device) :
          /\ \A q \in StockOf(tx[r].device) : p.id <= q.id
          /\ stock' = Without(p)
          /\ handed' = handed \cup {[package |-> p, to |-> r]}
     \/ StockOf(tx[r].device) = {} /\ UNCHANGED <<stock, handed>>
  /\ overlaps' = overlaps \ {r}
  /\ Done(r)
  /\ UNCHANGED <<key, table, seq, made, dev, packed, stray, answered, raced, late>>

----------------------------------------------------------------------------
Request(r) ==
  \/ RotateUpdate(r) \/ AppendRow(r) \/ Commit(r)
  \/ \E a \in Accounts : Create(r, a)
  \/ RegisterWrite(r) \/ RevokeWrite(r) \/ RevokePurge(r) \/ PublishWrite(r) \/ ClaimTake(r)
  \/ \E d \in Devices : \/ RotateBegin(r, d) \/ RegisterBegin(r, d) \/ RevokeBegin(r, d)
                        \/ PublishBegin(r, d) \/ ClaimBegin(r, d)

Next ==
  \/ \E r \in Requests : Request(r)
  \/ \E r \in Handlers : Abort(r)
  \/ \E i \in Instances : BackfillList(i) \/ BackfillAppend(i) \/ BackfillCommit(i)

Spec == Init /\ [][Next]_vars

----------------------------------------------------------------------------
(* Properties.                                                             *)

\* Whatever a step hands out of a revoked device goes to a claim that straddles the certificate.
Barred ==
  \A h \in handed' \ handed : Revoked(h.package.device) =>
    /\ h.to \in overlaps
    /\ h.package.device \in answered => h.package \in stray

\* Types; and whoever holds the lock of an account or of the log holds it alone: two appends are
\* never in progress together (log.rs, APPEND_LOCK).
TypeOK ==
  /\ key \in [Accounts -> Key0] /\ table \in Tree
  /\ seq \in 0..MaxRows /\ made \in Keys
  /\ tx \in [Handlers -> Tx]
  /\ dev \in [Devices -> Device] /\ stock \in SUBSET Packages /\ packed \in 0..MaxPackages
  /\ handed \in SUBSET [package : Packages, to : Requests]
  /\ overlaps \in SUBSET Requests /\ stray \in SUBSET Packages /\ answered \in SUBSET Devices
  /\ raced \in SUBSET Accounts /\ late \in SUBSET Accounts
  /\ \A r, q \in Handlers : Appending(r) /\ Appending(q) => r = q
  /\ \A r, q \in Requests : HasRow(r) /\ HasRow(q) /\ tx[r].account = tx[q].account => r = q

\* The transactions implement the log as it is promised: a key and its entry become visible
\* together, and no entry appears before one that could have been read.
ImplementsLog == LogSpec

\* The key an account has is the last one the log has for it, or it has none yet and is older than
\* the log; but for a back-fill that came after somebody else's entry (create_account,
\* rotate_account and backfill write both in one transaction).
KeyInForce ==
  \A a \in Accounts \ late :
    IF RowsOf(a) = {} THEN key[a] = NoKey \/ a \in Legacy
    ELSE \A e \in RowsOf(a) : IsLast(e, RowsOf(a)) => e.key = key[a]

\* Each rotation in the log is signed by the key before it, as account_chain tells its reader to
\* check; but for accounts two rotations of which overlapped, or that were back-filled late.
ChainLinks ==
  \A a \in Accounts \ (raced \cup late) : \A e \in RowsOf(a) :
    LET before == {f \in RowsOf(a) : f.seq < e.seq}
    IN before # {} => \A f \in before : IsLast(f, before) => e.by = f.key

\* A key package is given to one caller, once (claim_key_package: its init key is single-use).
HandedOnce ==
  /\ \A h, g \in handed : h.package = g.package => h = g
  /\ \A h \in handed : h.package \notin stock

\* Nobody is given a package of a device once its certificate is written, but a claim that had
\* passed its check by then; and once revoke_device has answered not even that one, unless the
\* device, whose signature still opens publish_key_packages, published the package after its
\* certificate. However the purge is cut short or repeated, and whatever is published, registered
\* again or rotated meanwhile (claim_key_package, "closes the window between the two queries and
\* guards against a stock republished by a stolen device").
RevokedStayOut == [][Barred]_vars

=============================================================================
