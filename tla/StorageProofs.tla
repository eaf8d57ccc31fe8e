---------------------------- MODULE StorageProofs ----------------------------
(***************************************************************************)
(* The counters of Storage agree with its tables, whatever the number of   *)
(* accounts, of groups, and of the requests and purges that overlap.       *)
(***************************************************************************)
EXTENDS Storage, TLAPS, FiniteSetTheorems

----------------------------------------------------------------------------
(* What an account has in a set of rows.                                   *)

LEMMA OfType ==
  ASSUME NEW R, IsFiniteSet(R), NEW a
  PROVE  Of(a, R) \in Nat /\ IsFiniteSet({x \in R : x.account = a})
<1>1. IsFiniteSet({x \in R : x.account = a})
  BY FS_Subset
<1> QED
  BY <1>1, FS_CardinalityType DEF Of

LEMMA OfEmpty == \A a : Of(a, {}) = 0
<1>1. \A a : {x \in {} : x.account = a} = {}
  OBVIOUS
<1> QED
  BY <1>1, FS_EmptySet DEF Of

\* Rows that are all of one account count for it, and for nobody else.
LEMMA OfOwn ==
  ASSUME NEW R, IsFiniteSet(R), NEW a, \A x \in R : x.account = a, NEW b
  PROVE  Of(b, R) = IF b = a THEN Cardinality(R) ELSE 0
<1>1. {x \in R : x.account = b} = IF b = a THEN R ELSE {}
  OBVIOUS
<1> QED
  BY <1>1, FS_EmptySet DEF Of

\* Rows taken away and rows that were not there.
LEMMA OfSettled ==
  ASSUME NEW R, IsFiniteSet(R), NEW D, IsFiniteSet(D), NEW I, IsFiniteSet(I),
         D \subseteq R, I \cap R = {}, NEW a
  PROVE  /\ IsFiniteSet((R \ D) \cup I)
         /\ Of(a, (R \ D) \cup I) = Of(a, R) - Of(a, D) + Of(a, I)
<1> DEFINE F(S) == {x \in S : x.account = a}
<1>1. IsFiniteSet(F(R)) /\ IsFiniteSet(F(D)) /\ IsFiniteSet(F(I))
  BY FS_Subset
<1>2. F((R \ D) \cup I) = (F(R) \ F(D)) \cup F(I)
  OBVIOUS
<1>3. F(R) \cap F(D) = F(D) /\ (F(R) \ F(D)) \cap F(I) = {}
  OBVIOUS
<1>4. IsFiniteSet((R \ D) \cup I)
  BY FS_Difference, FS_Union
<1>5. Of(a, (R \ D) \cup I) = Cardinality((F(R) \ F(D)) \cup F(I))
      /\ Of(a, R) = Cardinality(F(R)) /\ Of(a, D) = Cardinality(F(D)) /\ Of(a, I) = Cardinality(F(I))
  BY <1>2 DEF Of
<1> HIDE DEF F
<1>6. IsFiniteSet(F(R) \ F(D)) /\ Cardinality(F(R) \ F(D)) = Cardinality(F(R)) - Cardinality(F(D))
  BY <1>1, <1>3, FS_Difference
<1>7. Cardinality((F(R) \ F(D)) \cup F(I))
        = Cardinality(F(R) \ F(D)) + Cardinality(F(I)) - Cardinality((F(R) \ F(D)) \cap F(I))
  BY <1>1, <1>6, FS_Union
<1>8. Cardinality((F(R) \ F(D)) \cap F(I)) = 0
  BY <1>3, FS_EmptySet
<1>9. Cardinality(F(R)) \in Nat /\ Cardinality(F(D)) \in Nat /\ Cardinality(F(I)) \in Nat
  BY <1>1, FS_CardinalityType
<1> QED
  BY <1>4, <1>5, <1>6, <1>7, <1>8, <1>9

LEMMA OfTaken ==
  ASSUME NEW R, IsFiniteSet(R), NEW D, IsFiniteSet(D), D \subseteq R, NEW a
  PROVE  Of(a, R \ D) = Of(a, R) - Of(a, D)
<1> DEFINE F(S) == {x \in S : x.account = a}
<1>1. IsFiniteSet(F(R)) /\ IsFiniteSet(F(D))
  BY FS_Subset
<1>2. F(R \ D) = F(R) \ F(D) /\ F(R) \cap F(D) = F(D)
  OBVIOUS
<1>3. Of(a, R \ D) = Cardinality(F(R) \ F(D)) /\ Of(a, R) = Cardinality(F(R)) /\ Of(a, D) = Cardinality(F(D))
  BY <1>2 DEF Of
<1>4. F(R) \cap F(D) = F(D)
  BY <1>2
<1> HIDE DEF F
<1>5. Cardinality(F(R) \ F(D)) = Cardinality(F(R)) - Cardinality(F(R) \cap F(D))
  BY <1>1, FS_Difference
<1> QED
  BY <1>3, <1>4, <1>5

----------------------------------------------------------------------------
(* The inductive invariant.                                                *)

Zero(v)     == \A a \in Accounts : v.delta[a] = 0
Balanced(v) == \A a \in Accounts : v.delta[a] = Of(a, v.ins) - Of(a, v.del)
OneUpload(v) ==
  \E n \in 1..MaxUploads :
    v.ins = {[kind |-> "attachment", account |-> v.account, group |-> v.group, n |-> n]}
Owned(v)    == v.account \in Accounts /\ \A x \in v.ins \cup v.del : x.account = v.account

\* A transaction either writes or deletes; before its counters are set they are as it found them,
\* and when it is settled they are by what it changes.
TxShape(v) ==
  /\ v \in Tx /\ IsFiniteSet(v.ins) /\ IsFiniteSet(v.del) /\ (v.ins = {} \/ v.del = {})
  /\ v.pc \in {"idle", "credited", "groups", "admitted"} => v.ins = {} /\ v.del = {} /\ Zero(v)
  /\ v.pc = "admitted" => v.account \in Accounts /\ v.group \in Groups
  /\ v.pc = "archived" => v.del = {} /\ Zero(v) /\ Owned(v) /\ \A x \in v.ins : x.kind = "vault"
  /\ v.pc = "admitted upload" => Zero(v)
  /\ v.pc = "charged upload" => Balanced(v)
  /\ v.pc \in {"admitted upload", "charged upload"} =>
       /\ v.del = {} /\ Owned(v) /\ v.group \in Groups
       /\ OneUpload(v)
  /\ v.pc = "dropped" => v.ins = {} /\ Zero(v) /\ Owned(v)
  /\ v.pc = "settled" => Balanced(v)
  /\ v.pc \in {"expired", "doomed"} => v.ins = {} /\ \A a \in Accounts : v.delta[a] <= 0

\* What has been inserted and not committed is nowhere else, what is being deleted is still there,
\* and no two transactions have a hand on the same row or on the same counter.
Apart ==
  /\ \A r \in Handlers : tx[r].ins \cap rows = {} /\ tx[r].del \subseteq rows
  /\ \A r, q \in Handlers : r # q => Touched(r) \cap Touched(q) = {}
  /\ \A r, q \in Handlers, a \in Accounts : r # q => tx[r].delta[a] = 0 \/ tx[q].delta[a] = 0

\* Uploads are numbered.
Numbered ==
  /\ \A x \in rows : x.kind = "attachment" => x.n <= uploads
  /\ \A r \in Handlers : \A x \in tx[r].ins : x.kind = "attachment" => x.n <= uploads

\* A group whose attachment is about to be committed is there.
Housed ==
  /\ AttachmentsHaveAGroup
  /\ \A r \in Handlers : \A x \in tx[r].ins :
       tx[r].pc = "settled" /\ x.kind = "attachment" => x.group \in Exists

\* Nobody can be brought above the ceiling by the transaction that holds its counter.
Ceiled ==
  Ceiling # 0 =>
    \A a \in Accounts : bytes[a] <= Ceiling /\ \A r \in Handlers : bytes[a] + tx[r].delta[a] <= Ceiling

DataOK ==
  /\ rows \subseteq Entry \cup Blob /\ IsFiniteSet(rows) /\ bytes \in [Accounts -> Nat]
  /\ Exists \subseteq Groups /\ \A g \in Exists : members[g] \subseteq Accounts
  /\ recent \subseteq Exists /\ old \subseteq 1..MaxUploads /\ uploads \in 0..MaxUploads
  /\ lost \in [Accounts -> Nat]

TxOK == tx \in [Handlers -> Tx] /\ \A r \in Handlers : TxShape(tx[r])

Inv == DataOK /\ TxOK /\ Apart /\ Numbered /\ Housed /\ Ceiled /\ Reconciled

LEMMA IdleShape == TxShape(Idle) /\ \A g \in SUBSET Groups : TxShape([Idle EXCEPT !.pc = "groups", !.gone = g])
<1>1. Idle \in Tx
  BY DEF Idle, Tx
<1>2. TxShape(Idle)
  BY <1>1, FS_EmptySet DEF Idle, TxShape, Zero
<1> SUFFICES ASSUME NEW g \in SUBSET Groups PROVE TxShape([Idle EXCEPT !.pc = "groups", !.gone = g])
  BY <1>2
<1> DEFINE v == [Idle EXCEPT !.pc = "groups", !.gone = g]
<1>3. v \in Tx /\ v.pc = "groups" /\ v.ins = {} /\ v.del = {} /\ v.delta = [a \in Accounts |-> 0]
  BY <1>1 DEF Idle, Tx
<1> HIDE DEF v
<1>4. TxShape(v)
  BY <1>3, FS_EmptySet DEF TxShape, Zero
<1> QED
  BY <1>4 DEF v

LEMMA Initially == Init => Inv
<1> SUFFICES ASSUME Init PROVE Inv
  OBVIOUS
<1>1. /\ rows = {} /\ bytes = [a \in Accounts |-> 0] /\ members = << >> /\ recent = {} /\ old = {}
      /\ uploads = 0 /\ tx = [r \in Handlers |-> Idle] /\ lost = [a \in Accounts |-> 0]
  BY DEF Init
<1>2. Exists = {}
  BY <1>1 DEF Exists
<1>3. Idle.ins = {} /\ Idle.del = {} /\ (\A a \in Accounts : Idle.delta[a] = 0) /\ Idle \in Tx
  BY IdleShape DEF Idle, TxShape
<1>4. DataOK
  BY <1>1, <1>2, FS_EmptySet, StorageAssumption DEF DataOK
<1>5. TxOK
  BY <1>1, <1>3, IdleShape DEF TxOK
<1>6. Apart /\ Numbered
  BY <1>1, <1>3 DEF Apart, Numbered, Touched
<1>7. Housed
  BY <1>1, <1>3 DEF Housed, AttachmentsHaveAGroup
<1>8. Ceiled
  BY <1>1, <1>3, StorageAssumption DEF Ceiled
<1>9. Reconciled
  BY <1>1, OfEmpty DEF Reconciled
<1> QED
  BY <1>4, <1>5, <1>6, <1>7, <1>8, <1>9 DEF Inv

----------------------------------------------------------------------------
(* Inside a transaction.                                                   *)

\* Handler r goes on with v: nothing is committed.
LEMMA Moves ==
  ASSUME Inv, NEW r \in Handlers, NEW v, TxShape(v), To(r, v),
         UNCHANGED <<rows, bytes, members, clock, lost>>,
         uploads' \in 0..MaxUploads, uploads <= uploads',
         v.ins \cap rows = {}, v.del \subseteq rows,
         \A q \in Handlers : q # r => Touched(q) \cap (v.ins \cup v.del) = {},
         \A x \in v.ins : x.kind = "attachment" => x.n <= uploads',
         \A x \in v.ins : v.pc = "settled" /\ x.kind = "attachment" => x.group \in Exists,
         \A a \in Accounts : \/ v.delta[a] = 0
                             \/ v.delta[a] = tx[r].delta[a]
                             \/ \A q \in Handlers : q # r => tx[q].delta[a] = 0,
         Ceiling # 0 => \A a \in Accounts : bytes[a] + v.delta[a] <= Ceiling
  PROVE  Inv'
<1>1. tx' \in [Handlers -> Tx] /\ tx'[r] = v /\ \A q \in Handlers : q # r => tx'[q] = tx[q]
  BY DEF Inv, TxOK, To, TxShape
<1>2. rows' = rows /\ bytes' = bytes /\ members' = members /\ recent' = recent /\ old' = old /\ lost' = lost
  BY DEF clock
<1>3. DataOK'
  BY <1>2 DEF Inv, DataOK, Exists
<1>4. TxOK'
  BY <1>1 DEF Inv, TxOK
<1>5. Apart'
  BY <1>1, <1>2 DEF Inv, Apart, Touched
<1>6. Numbered'
  <2>1. \A x \in rows : x.kind = "attachment" => x.n \in Nat /\ x.n <= uploads
    BY DEF Inv, DataOK, Numbered, Entry, Blob
  <2>2. \A q \in Handlers : \A x \in tx[q].ins : x.kind = "attachment" => x.n \in Nat /\ x.n <= uploads
    <3> SUFFICES ASSUME NEW q \in Handlers, NEW x \in tx[q].ins, x.kind = "attachment"
                 PROVE  x.n \in Nat /\ x.n <= uploads
      OBVIOUS
    <3>1. x \in Entry \cup Blob
      BY DEF Inv, TxOK, Tx
    <3> QED
      BY <3>1 DEF Inv, Numbered, Entry, Blob
  <2>3. uploads \in Nat /\ uploads' \in Nat
    BY StorageAssumption DEF Inv, DataOK
  <2> QED
    BY <1>1, <1>2, <2>1, <2>2, <2>3 DEF Numbered
<1>7. Housed'
  BY <1>1, <1>2 DEF Inv, Housed, AttachmentsHaveAGroup, Exists
<1>8. Ceiled'
  BY <1>1, <1>2 DEF Inv, Ceiled
<1>9. Reconciled'
  BY <1>2 DEF Inv, Reconciled
<1> QED
  BY <1>3, <1>4, <1>5, <1>6, <1>7, <1>8, <1>9 DEF Inv

\* What a handler in progress is known to be.
LEMMA Facts ==
  ASSUME Inv, NEW r \in Handlers
  PROVE  /\ tx[r] \in Tx /\ TxShape(tx[r]) /\ tx[r].delta \in [Accounts -> Int]
         /\ tx[r].ins \cap rows = {} /\ tx[r].del \subseteq rows
         /\ \A q \in Handlers : q # r => Touched(q) \cap (tx[r].ins \cup tx[r].del) = {}
         /\ \A x \in tx[r].ins : x.kind = "attachment" => x.n <= uploads
         /\ uploads \in 0..MaxUploads /\ uploads \in Nat
         /\ Ceiling # 0 => \A a \in Accounts : bytes[a] <= Ceiling /\ bytes[a] + tx[r].delta[a] <= Ceiling
         /\ bytes \in [Accounts -> Nat] /\ rows \subseteq Entry \cup Blob /\ IsFiniteSet(rows)
         /\ Exists \subseteq Groups /\ \A g \in Exists : members[g] \subseteq Accounts
<1>1. tx[r] \in Tx /\ TxShape(tx[r])
  BY DEF Inv, TxOK
<1>2. tx[r].delta \in [Accounts -> Int]
  BY <1>1 DEF Tx
<1> QED
  BY <1>1, <1>2, StorageAssumption DEF Inv, Apart, Numbered, Ceiled, DataOK, Touched

\* A transaction that has changed no counter and ends.
LEMMA EndsIdle ==
  ASSUME Inv, NEW r \in Handlers, To(r, Idle),
         UNCHANGED <<rows, bytes, members, clock, uploads, lost>>
  PROVE  Inv'
<1>1. Idle.ins = {} /\ Idle.del = {} /\ \A a \in Accounts : Idle.delta[a] = 0
  BY DEF Idle
<1>2. Ceiling # 0 => \A a \in Accounts : bytes[a] + Idle.delta[a] <= Ceiling
  <2>1. \A a \in Accounts : bytes[a] + 0 = bytes[a]
    BY Facts
  <2> QED
    BY <1>1, <2>1, Facts
<1>3. TxShape(Idle)
  BY IdleShape
<1>4. Idle.del \subseteq rows /\ Idle.ins \cap rows = {} /\ (\A x \in Idle.ins : FALSE)
      /\ \A q \in Handlers : Touched(q) \cap (Idle.ins \cup Idle.del) = {}
  BY <1>1
<1>5. uploads' \in 0..MaxUploads /\ uploads <= uploads'
  BY Facts
<1> QED
  BY <1>1, <1>2, <1>3, <1>4, <1>5, Moves

LEMMA ArchiveStep ==
  ASSUME Inv, NEW r \in Handlers, NEW a \in Accounts, NEW g \in Groups, NEW S \in SUBSET Seqs,
         Archive(r, a, g, S)
  PROVE  Inv'
<1> DEFINE v == [Idle EXCEPT !.pc = "admitted", !.account = a, !.group = g, !.asked = S]
<1>1. /\ v \in Tx /\ v.pc = "admitted" /\ v.account = a /\ v.group = g /\ v.ins = {} /\ v.del = {}
      /\ v.delta = [b \in Accounts |-> 0]
  BY IdleShape DEF Idle, Tx, TxShape
<1>2. To(r, v) /\ UNCHANGED <<rows, bytes, members, clock, uploads, lost>>
  BY DEF Archive
<1> HIDE DEF v
<1>3. TxShape(v)
  BY <1>1, FS_EmptySet DEF TxShape, Zero
<1>4. \A b \in Accounts : v.delta[b] = 0 /\ bytes[b] + v.delta[b] = bytes[b]
  BY <1>1, Facts
<1> QED
  BY <1>1, <1>2, <1>3, <1>4, Facts, Moves

\* What is asked for is finite, and all of one account.
LEMMA AskedShape ==
  ASSUME Inv, NEW r \in Handlers, tx[r].account \in Accounts, tx[r].group \in Groups
  PROVE  /\ Asked(r) \subseteq Entry /\ IsFiniteSet(Asked(r))
         /\ \A x \in Asked(r) : x.account = tx[r].account /\ x.kind = "vault"
<1> DEFINE f == [n \in tx[r].asked |-> [kind |-> "vault", account |-> tx[r].account,
                                       group |-> tx[r].group, n |-> n]]
<1>1. tx[r].asked \subseteq Seqs
  BY Facts DEF Tx
<1>2. IsFiniteSet(tx[r].asked)
  BY <1>1, StorageAssumption, FS_Subset
<1>3. f \in Surjection(tx[r].asked, Asked(r))
  BY DEF Surjection, Asked
<1>4. IsFiniteSet(Asked(r))
  BY <1>2, <1>3, FS_Surjection
<1> QED
  BY <1>1, <1>4 DEF Asked, Entry

LEMMA ArchiveInsertStep ==
  ASSUME Inv, NEW r \in Handlers, ArchiveInsert(r)
  PROVE  Inv'
<1> DEFINE I == Asked(r) \ rows
           v == [tx[r] EXCEPT !.pc = "archived", !.ins = I]
<1>1. /\ tx[r].pc = "admitted" /\ Free(r, Asked(r)) /\ To(r, v)
      /\ UNCHANGED <<rows, bytes, members, clock, uploads, lost>>
  BY DEF ArchiveInsert
<1>2. /\ tx[r] \in Tx /\ tx[r].account \in Accounts /\ tx[r].group \in Groups /\ tx[r].del = {}
      /\ Zero(tx[r])
  BY <1>1, Facts DEF TxShape
<1>3. I \subseteq Entry /\ IsFiniteSet(I) /\ \A x \in I : x.account = tx[r].account /\ x.kind = "vault"
  BY <1>2, AskedShape, FS_Subset
<1>4. \A q \in Handlers : q # r => Touched(q) \cap I = {}
  BY <1>1 DEF Free, Others
<1>5. I \cap rows = {}
  OBVIOUS
<1> HIDE DEF I
<1>6. /\ v \in Tx /\ v.pc = "archived" /\ v.ins = I /\ v.del = {} /\ v.account = tx[r].account
      /\ v.delta = tx[r].delta
  BY <1>2, <1>3 DEF Tx
<1> HIDE DEF v
<1>7. TxShape(v)
  BY <1>2, <1>3, <1>6, FS_EmptySet DEF TxShape, Zero, Owned
<1>8. \A b \in Accounts : v.delta[b] = 0 /\ bytes[b] + v.delta[b] = bytes[b]
  BY <1>2, <1>6, Facts DEF Zero
<1>9. \A x \in v.ins : x.kind # "attachment"
  BY <1>3, <1>6
<1> QED
  BY <1>1, <1>4, <1>5, <1>6, <1>7, <1>8, <1>9, Facts, Moves

\* Where the counter is free nobody else has changed it.
LEMMA OnlyOne ==
  ASSUME Inv, NEW r \in Handlers, NEW a \in Accounts, CounterFree(r, a)
  PROVE  \A q \in Handlers : q # r => tx[q].delta[a] = 0
BY DEF CounterFree, Held, Others

LEMMA Below == \A x \in Nat, c \in Nat, d \in Int : x <= c /\ (d <= 0 \/ x + d <= c) => x + d <= c
OBVIOUS

LEMMA NotAbove == \A y : y = 0 => y <= 0
OBVIOUS

LEMMA Negated == \A y \in Nat : -y \in Int /\ -y <= 0
OBVIOUS

LEMMA PlusNone == \A x \in Nat : \A y : y = 0 => x + y = x
OBVIOUS

LEMMA NotLess == \A x \in Nat : \A y : y = x => x <= y
OBVIOUS

\* The change of a counter is by rows that are all of one account.
LEMMA BalancedOwn ==
  ASSUME NEW a \in Accounts, NEW v, IsFiniteSet(v.ins), IsFiniteSet(v.del),
         \A x \in v.ins \cup v.del : x.account = a,
         v.delta \in [Accounts -> Int], v.delta[a] = Cardinality(v.ins) - Cardinality(v.del),
         \A b \in Accounts : b # a => v.delta[b] = 0
  PROVE  Balanced(v)
<1>1. \A b : Of(b, v.ins) = IF b = a THEN Cardinality(v.ins) ELSE 0
  BY OfOwn
<1>2. \A b : Of(b, v.del) = IF b = a THEN Cardinality(v.del) ELSE 0
  BY OfOwn
<1>3. Cardinality(v.ins) \in Nat /\ Cardinality(v.del) \in Nat
  BY FS_CardinalityType
<1>4. ASSUME NEW b \in Accounts PROVE v.delta[b] = Of(b, v.ins) - Of(b, v.del)
  <2>1. CASE b = a
    <3>1. Of(b, v.ins) = Cardinality(v.ins) /\ Of(b, v.del) = Cardinality(v.del)
      BY <1>1, <1>2, <2>1
    <3> QED
      BY <2>1, <3>1
  <2>2. CASE b # a
    <3>1. Of(b, v.ins) = 0 /\ Of(b, v.del) = 0 /\ v.delta[b] = 0
      BY <1>1, <1>2, <2>2
    <3> QED
      BY <3>1
  <2> QED
    BY <2>1, <2>2
<1> QED
  BY <1>4 DEF Balanced

\* The counter of an account is set by what its transaction has done, and no other.
LEMMA ChargeStep ==
  ASSUME Inv, NEW r \in Handlers, NEW a \in Accounts,
         NEW v \in Tx, v.ins = tx[r].ins, v.del = tx[r].del, v.account = a, v.group = tx[r].group,
         v.delta[a] = Cardinality(v.ins) - Cardinality(v.del),
         \A b \in Accounts : b # a => v.delta[b] = 0,
         To(r, v), UNCHANGED <<rows, bytes, members, clock, uploads, lost>>,
         CounterFree(r, a), Owned(tx[r]), tx[r].account = a,
         v.delta[a] <= 0 \/ Fits(a, v.delta[a]),
         \/ v.pc = "settled"
         \/ tx[r].pc = "admitted upload" /\ v.pc = "charged upload",
         \A x \in tx[r].ins : v.pc = "settled" /\ x.kind = "attachment" => x.group \in Exists
  PROVE  Inv'
<1>1. tx[r] \in Tx /\ TxShape(tx[r])
  BY Facts
<1>2. v.delta \in [Accounts -> Int]
  BY DEF Tx
<1>3. Balanced(v)
  <2>1. IsFiniteSet(v.ins) /\ IsFiniteSet(v.del)
    BY <1>1 DEF TxShape
  <2>2. \A x \in v.ins \cup v.del : x.account = a
    BY DEF Owned
  <2> QED
    BY <1>2, <2>1, <2>2, BalancedOwn
<1>4. TxShape(v)
  <2>1. Owned(v) /\ (OneUpload(tx[r]) => OneUpload(v))
    BY DEF Owned, OneUpload
  <2> QED
    BY <1>1, <1>3, <2>1 DEF TxShape
<1>5. \A b \in Accounts : v.delta[b] = 0 \/ \A q \in Handlers : q # r => tx[q].delta[b] = 0
  BY OnlyOne
<1>6. Ceiling # 0 => \A b \in Accounts : bytes[b] + v.delta[b] <= Ceiling
  <2> SUFFICES ASSUME Ceiling # 0, NEW b \in Accounts PROVE bytes[b] + v.delta[b] <= Ceiling
    OBVIOUS
  <2>1. bytes[b] \in Nat /\ bytes[b] <= Ceiling /\ Ceiling \in Nat /\ v.delta[b] \in Int
    BY <1>2, Facts, StorageAssumption
  <2>2. v.delta[b] <= 0 \/ bytes[b] + v.delta[b] <= Ceiling
    <3>1. CASE b = a
      BY <3>1 DEF Fits
    <3>2. CASE b # a
      <4>1. v.delta[b] = 0
        BY <3>2
      <4> QED
        BY <4>1, NotAbove
    <3> QED
      BY <3>1, <3>2
  <2> QED
    BY <2>1, <2>2, Below
<1>7. uploads' \in 0..MaxUploads /\ uploads <= uploads' /\ uploads' = uploads
  <2>1. uploads' = uploads /\ uploads \in 0..MaxUploads /\ uploads \in Nat
    BY Facts
  <2>2. uploads <= uploads'
    BY <2>1, NotLess
  <2> QED
    BY <2>1, <2>2
<1>8. v.ins \cap rows = {} /\ v.del \subseteq rows
      /\ (\A q \in Handlers : q # r => Touched(q) \cap (v.ins \cup v.del) = {})
      /\ \A x \in v.ins : x.kind = "attachment" => x.n <= uploads'
  BY <1>7, Facts
<1>9. \A x \in v.ins : v.pc = "settled" /\ x.kind = "attachment" => x.group \in Exists
  OBVIOUS
<1> QED
  BY <1>2, <1>4, <1>5, <1>6, <1>7, <1>8, <1>9, Moves

LEMMA SetOne ==
  ASSUME NEW d \in [Accounts -> Int], NEW a \in Accounts, NEW n \in Int
  PROVE  /\ [d EXCEPT ![a] = n] \in [Accounts -> Int] /\ [d EXCEPT ![a] = n][a] = n
         /\ \A b \in Accounts : b # a => [d EXCEPT ![a] = n][b] = d[b]
OBVIOUS

LEMMA ArchiveChargeStep ==
  ASSUME Inv, NEW r \in Handlers, ArchiveCharge(r)
  PROVE  Inv'
<1> DEFINE a == tx[r].account
           n == Cardinality(tx[r].ins)
           v == [tx[r] EXCEPT !.pc = "settled", !.delta = [@ EXCEPT ![a] = n]]
<1>1. /\ tx[r].pc = "archived" /\ CounterFree(r, a)
      /\ UNCHANGED <<rows, bytes, members, clock, uploads, lost>>
      /\ \/ Fits(a, n) /\ To(r, v)
         \/ To(r, Idle)
  BY DEF ArchiveCharge, ArchiveCost
<1>2. /\ tx[r] \in Tx /\ Owned(tx[r]) /\ tx[r].del = {} /\ IsFiniteSet(tx[r].ins)
      /\ (\A b \in Accounts : tx[r].delta[b] = 0) /\ \A x \in tx[r].ins : x.kind = "vault"
  BY <1>1, Facts DEF TxShape, Zero
<1>3. a \in Accounts
  BY <1>2 DEF Owned
<1>4. n \in Nat /\ n - Cardinality({}) = n
  BY <1>2, FS_CardinalityType, FS_EmptySet
<1> HIDE DEF n
<1>5. [tx[r].delta EXCEPT ![a] = n] \in [Accounts -> Int] /\ [tx[r].delta EXCEPT ![a] = n][a] = n
      /\ \A b \in Accounts : b # a => [tx[r].delta EXCEPT ![a] = n][b] = 0
  <2>1. tx[r].delta \in [Accounts -> Int] /\ n \in Int
    BY <1>4, Facts
  <2> QED
    BY <1>2, <1>3, <2>1, SetOne
<1>6. /\ v \in Tx /\ v.ins = tx[r].ins /\ v.del = tx[r].del /\ v.account = a /\ v.group = tx[r].group
      /\ v.delta = [tx[r].delta EXCEPT ![a] = n] /\ v.pc = "settled"
  BY <1>2, <1>5 DEF Tx
<1> HIDE DEF v
<1>7. v.delta[a] = n /\ \A b \in Accounts : b # a => v.delta[b] = 0
  BY <1>5, <1>6
<1>8. v.delta[a] = Cardinality(v.ins) - Cardinality(v.del)
  BY <1>2, <1>4, <1>6, <1>7 DEF n
<1>9. CASE To(r, Idle)
  BY <1>1, <1>9, EndsIdle
<1>10. CASE Fits(a, n) /\ To(r, v)
  BY <1>1, <1>2, <1>3, <1>6, <1>7, <1>8, <1>10, ChargeStep
<1> QED
  BY <1>1, <1>9, <1>10

LEMMA UploadChargeStep ==
  ASSUME Inv, NEW r \in Handlers, UploadCharge(r)
  PROVE  Inv'
<1> DEFINE a == tx[r].account
           v == [tx[r] EXCEPT !.pc = "charged upload", !.delta = [@ EXCEPT ![a] = 1]]
<1>1. /\ tx[r].pc = "admitted upload" /\ CounterFree(r, a)
      /\ UNCHANGED <<rows, bytes, members, clock, uploads, lost>>
      /\ \/ Fits(a, 1) /\ To(r, v)
         \/ To(r, Idle)
  BY DEF UploadCharge
<1>2. /\ tx[r] \in Tx /\ Owned(tx[r]) /\ tx[r].del = {} /\ \A b \in Accounts : tx[r].delta[b] = 0
  BY <1>1, Facts DEF TxShape, Zero
<1>3. Cardinality(tx[r].ins) = 1
  <2>1. PICK k \in 1..MaxUploads :
          tx[r].ins = {[kind |-> "attachment", account |-> a, group |-> tx[r].group, n |-> k]}
    BY <1>1, Facts DEF TxShape, OneUpload
  <2> QED
    BY <2>1, FS_Singleton
<1>4. a \in Accounts
  BY <1>2 DEF Owned
<1>5. [tx[r].delta EXCEPT ![a] = 1] \in [Accounts -> Int] /\ [tx[r].delta EXCEPT ![a] = 1][a] = 1
      /\ \A b \in Accounts : b # a => [tx[r].delta EXCEPT ![a] = 1][b] = 0
  <2>1. tx[r].delta \in [Accounts -> Int] /\ 1 \in Int
    BY Facts
  <2> QED
    BY <1>2, <1>4, <2>1, SetOne
<1>6. /\ v \in Tx /\ v.ins = tx[r].ins /\ v.del = tx[r].del /\ v.account = a /\ v.group = tx[r].group
      /\ v.delta = [tx[r].delta EXCEPT ![a] = 1] /\ v.pc = "charged upload"
  BY <1>2, <1>5 DEF Tx
<1> HIDE DEF v
<1>7. v.delta[a] = 1 /\ \A b \in Accounts : b # a => v.delta[b] = 0
  BY <1>5, <1>6
<1>8. v.delta[a] = Cardinality(v.ins) - Cardinality(v.del)
  <2>1. 1 - Cardinality({}) = 1
    BY FS_EmptySet
  <2> QED
    BY <1>2, <1>3, <1>6, <1>7, <2>1
<1>9. CASE To(r, Idle)
  BY <1>1, <1>9, EndsIdle
<1>10. CASE Fits(a, 1) /\ To(r, v)
  BY <1>1, <1>2, <1>4, <1>6, <1>7, <1>8, <1>10, ChargeStep
<1> QED
  BY <1>1, <1>9, <1>10

LEMMA DropCreditStep ==
  ASSUME Inv, NEW r \in Handlers, DropCredit(r)
  PROVE  Inv'
<1> DEFINE a == tx[r].account
           n == -Cardinality(tx[r].del)
           v == [tx[r] EXCEPT !.pc = "settled", !.delta = [@ EXCEPT ![a] = n]]
<1>1. /\ tx[r].pc = "dropped" /\ CounterFree(r, a) /\ To(r, v)
      /\ UNCHANGED <<rows, bytes, members, clock, uploads, lost>>
  BY DEF DropCredit
<1>2. /\ tx[r] \in Tx /\ Owned(tx[r]) /\ tx[r].ins = {} /\ IsFiniteSet(tx[r].del)
      /\ \A b \in Accounts : tx[r].delta[b] = 0
  BY <1>1, Facts DEF TxShape, Zero
<1>3. a \in Accounts
  BY <1>2 DEF Owned
<1>4. n \in Int /\ n <= 0 /\ Cardinality({}) - Cardinality(tx[r].del) = n
  BY <1>2, FS_CardinalityType, FS_EmptySet
<1> HIDE DEF n
<1>5. tx[r].delta \in [Accounts -> Int] /\ [tx[r].delta EXCEPT ![a] = n] \in [Accounts -> Int]
      /\ [tx[r].delta EXCEPT ![a] = n][a] = n
      /\ \A b \in Accounts : b # a => [tx[r].delta EXCEPT ![a] = n][b] = 0
  <2>1. tx[r].delta \in [Accounts -> Int] /\ n \in Int
    BY <1>4, Facts
  <2> QED
    BY <1>2, <1>3, <2>1, SetOne
<1>6. /\ v \in Tx /\ v.ins = tx[r].ins /\ v.del = tx[r].del /\ v.account = a /\ v.group = tx[r].group
      /\ v.delta = [tx[r].delta EXCEPT ![a] = n] /\ v.pc = "settled"
  BY <1>2, <1>5 DEF Tx
<1> HIDE DEF v
<1>7. v.delta[a] = n /\ v.delta[a] <= 0 /\ \A b \in Accounts : b # a => v.delta[b] = 0
  BY <1>4, <1>5, <1>6
<1>8. v.delta[a] = Cardinality(v.ins) - Cardinality(v.del)
  BY <1>2, <1>4, <1>6, <1>7
<1> QED
  BY <1>1, <1>2, <1>3, <1>6, <1>7, <1>8, ChargeStep

LEMMA UploadStep ==
  ASSUME Inv, NEW r \in Handlers, NEW a \in Accounts, NEW g \in Groups, Upload(r, a, g)
  PROVE  Inv'
<1> DEFINE k == uploads + 1
           x == [kind |-> "attachment", account |-> a, group |-> g, n |-> k]
           v == [Idle EXCEPT !.pc = "admitted upload", !.account = a, !.group = g, !.ins = {x}]
<1>1. /\ uploads < MaxUploads /\ uploads' = k /\ To(r, v)
      /\ UNCHANGED <<rows, bytes, members, clock, lost>>
  BY DEF Upload
<1>2. k \in 1..MaxUploads /\ uploads \in Nat /\ uploads' \in 0..MaxUploads /\ uploads <= uploads' /\ k <= uploads'
  BY <1>1, Facts, StorageAssumption
<1>3. \A m \in Nat : m <= uploads => m # k
  BY <1>2
<1> HIDE DEF k
<1>4. /\ x \in Blob /\ x.n = k /\ x.account = a /\ x.kind = "attachment"
      /\ \E m \in 1..MaxUploads : x = [kind |-> "attachment", account |-> a, group |-> g, n |-> m]
  BY <1>2 DEF Blob
<1> HIDE DEF x
<1>5. \A y \in Entry \cup Blob : y.kind = "attachment" => y.n \in Nat
  BY DEF Entry, Blob
<1>6. x \notin rows
  BY <1>3, <1>4, <1>5, Facts DEF Inv, Numbered
<1>7. \A q \in Handlers : x \notin tx[q].ins
  <2> SUFFICES ASSUME NEW q \in Handlers, x \in tx[q].ins PROVE FALSE
    OBVIOUS
  <2>1. x.n <= uploads /\ x \in Entry \cup Blob
    BY <1>4, Facts
  <2> QED
    BY <1>3, <1>4, <1>5, <2>1
<1>8. \A q \in Handlers : x \notin tx[q].del
  BY <1>6, Facts
<1>9. /\ v \in Tx /\ v.pc = "admitted upload" /\ v.account = a /\ v.group = g /\ v.ins = {x} /\ v.del = {}
      /\ v.delta = [b \in Accounts |-> 0]
  BY <1>4, IdleShape DEF Idle, Tx, TxShape
<1> HIDE DEF v
<1>10. TxShape(v)
  <2>1. Zero(v) /\ IsFiniteSet(v.ins) /\ IsFiniteSet(v.del)
    BY <1>9, FS_EmptySet, FS_Singleton DEF Zero
  <2>2. Owned(v)
    BY <1>4, <1>9 DEF Owned
  <2>3. OneUpload(v)
    <3>1. PICK m \in 1..MaxUploads : x = [kind |-> "attachment", account |-> a, group |-> g, n |-> m]
      BY <1>4
    <3> QED
      BY <1>9, <3>1 DEF OneUpload
  <2>4. v \in Tx /\ v.pc = "admitted upload" /\ v.group \in Groups /\ v.del = {}
    BY <1>9
  <2> QED
    BY <2>1, <2>2, <2>3, <2>4 DEF TxShape
<1>11. \A b \in Accounts : v.delta[b] = 0 /\ bytes[b] + v.delta[b] = bytes[b]
  <2>1. \A b \in Accounts : v.delta[b] = 0 /\ bytes[b] \in Nat
    BY <1>9, Facts
  <2> QED
    BY <2>1, PlusNone
<1>12. /\ v.ins \cap rows = {} /\ v.del \subseteq rows
       /\ \A q \in Handlers : q # r => Touched(q) \cap (v.ins \cup v.del) = {}
  BY <1>6, <1>7, <1>8, <1>9 DEF Touched
<1>13. \A y \in v.ins : y.kind = "attachment" => y.n <= uploads'
  BY <1>2, <1>4, <1>9
<1>14. Ceiling # 0 => \A b \in Accounts : bytes[b] + v.delta[b] <= Ceiling
  BY <1>11, Facts
<1>15. \A y \in v.ins : v.pc # "settled"
  BY <1>9
<1> QED
  BY <1>1, <1>2, <1>10, <1>11, <1>12, <1>13, <1>14, <1>15, Moves

LEMMA UploadInsertStep ==
  ASSUME Inv, NEW r \in Handlers, UploadInsert(r)
  PROVE  Inv'
<1> DEFINE v == [tx[r] EXCEPT !.pc = "settled"]
<1>1. /\ tx[r].pc = "charged upload" /\ UNCHANGED <<rows, bytes, members, clock, uploads, lost>>
      /\ \/ tx[r].group \in Exists /\ To(r, v)
         \/ To(r, Idle)
  BY DEF UploadInsert
<1>2. CASE To(r, Idle)
  BY <1>1, <1>2, EndsIdle
<1>3. CASE tx[r].group \in Exists /\ To(r, v)
  <2>1. /\ tx[r] \in Tx /\ Balanced(tx[r]) /\ IsFiniteSet(tx[r].ins) /\ tx[r].del = {}
        /\ \A x \in tx[r].ins : x.group = tx[r].group
    <3>1. tx[r] \in Tx /\ Balanced(tx[r]) /\ IsFiniteSet(tx[r].ins) /\ tx[r].del = {}
      BY <1>1, Facts DEF TxShape
    <3>2. PICK k \in 1..MaxUploads :
            tx[r].ins = {[kind |-> "attachment", account |-> tx[r].account, group |-> tx[r].group, n |-> k]}
      BY <1>1, Facts DEF TxShape, OneUpload
    <3> QED
      BY <3>1, <3>2
  <2>2. /\ v \in Tx /\ v.ins = tx[r].ins /\ v.del = tx[r].del /\ v.delta = tx[r].delta /\ v.pc = "settled"
    BY <2>1 DEF Tx
  <2> HIDE DEF v
  <2>3. TxShape(v)
    BY <2>1, <2>2, FS_EmptySet DEF TxShape, Balanced
  <2>4. uploads' \in 0..MaxUploads /\ uploads <= uploads' /\ uploads' = uploads
    BY <1>1, Facts, NotLess
  <2>5. Ceiling # 0 => \A b \in Accounts : bytes[b] + v.delta[b] <= Ceiling
    BY <2>2, Facts
  <2>6. \A x \in v.ins : v.pc = "settled" /\ x.kind = "attachment" => x.group \in Exists
    BY <1>3, <2>1, <2>2
  <2>7. /\ v.ins \cap rows = {} /\ v.del \subseteq rows
        /\ (\A q \in Handlers : q # r => Touched(q) \cap (v.ins \cup v.del) = {})
        /\ \A x \in v.ins : x.kind = "attachment" => x.n <= uploads'
    BY <2>2, <2>4, Facts
  <2> QED
    BY <1>1, <1>3, <2>2, <2>3, <2>4, <2>5, <2>6, <2>7, Moves
<1> QED
  BY <1>1, <1>2, <1>3

LEMMA DropStep ==
  ASSUME Inv, NEW r \in Handlers, NEW a \in Accounts, NEW g \in Groups, Drop(r, a, g)
  PROVE  Inv'
<1> DEFINE D == {x \in rows : x.kind = "vault" /\ x.account = a /\ x.group = g}
           v == [Idle EXCEPT !.pc = "dropped", !.account = a, !.group = g, !.del = D]
<1>1. Free(r, D) /\ To(r, v) /\ UNCHANGED <<rows, bytes, members, clock, uploads, lost>>
  BY DEF Drop
<1>2. /\ D \subseteq rows /\ D \subseteq Entry \cup Blob /\ IsFiniteSet(D)
      /\ \A x \in D : x.account = a
  BY Facts, FS_Subset
<1> HIDE DEF D
<1>3. \A q \in Handlers : q # r => Touched(q) \cap D = {}
  BY <1>1 DEF Free, Others
<1>4. /\ v \in Tx /\ v.pc = "dropped" /\ v.account = a /\ v.ins = {} /\ v.del = D
      /\ v.delta = [b \in Accounts |-> 0]
  BY <1>2, IdleShape DEF Idle, Tx, TxShape
<1> HIDE DEF v
<1>5. TxShape(v)
  BY <1>2, <1>4, FS_EmptySet DEF TxShape, Zero, Owned
<1>6. \A b \in Accounts : v.delta[b] = 0 /\ bytes[b] + v.delta[b] = bytes[b]
  BY <1>4, Facts
<1>7. uploads' \in 0..MaxUploads /\ uploads <= uploads'
  BY <1>1, Facts, NotLess
<1> QED
  BY <1>1, <1>2, <1>3, <1>4, <1>5, <1>6, <1>7, Facts, Moves

LEMMA PurgeExpiredStep ==
  ASSUME Inv, NEW p \in Handlers, PurgeExpired(p)
  PROVE  Inv'
<1> DEFINE D == {x \in rows : x.kind = "attachment" /\ x.n \in old}
           v == [Idle EXCEPT !.pc = "expired", !.del = D]
<1>1. Free(p, D) /\ To(p, v) /\ UNCHANGED <<rows, bytes, members, clock, uploads, lost>>
  BY DEF PurgeExpired
<1>2. D \subseteq rows /\ D \subseteq Entry \cup Blob /\ IsFiniteSet(D)
  BY Facts, FS_Subset
<1> HIDE DEF D
<1>3. \A q \in Handlers : q # p => Touched(q) \cap D = {}
  BY <1>1 DEF Free, Others
<1>4. v \in Tx /\ v.pc = "expired" /\ v.ins = {} /\ v.del = D /\ v.delta = [b \in Accounts |-> 0]
  BY <1>2, IdleShape DEF Idle, Tx, TxShape
<1> HIDE DEF v
<1>5. TxShape(v)
  BY <1>2, <1>4, FS_EmptySet, NotAbove DEF TxShape
<1>6. \A b \in Accounts : v.delta[b] = 0 /\ bytes[b] + v.delta[b] = bytes[b]
  BY <1>4, Facts
<1>7. uploads' \in 0..MaxUploads /\ uploads <= uploads'
  BY <1>1, Facts, NotLess
<1> QED
  BY <1>1, <1>2, <1>3, <1>4, <1>5, <1>6, <1>7, Facts, Moves

LEMMA PurgeDoomedStep ==
  ASSUME Inv, NEW p \in Handlers, PurgeDoomed(p)
  PROVE  Inv'
<1> DEFINE G == {x \in rows : x.kind = "attachment" /\ x.group \in Doomed}
           v == [tx[p] EXCEPT !.pc = "doomed", !.del = tx[p].del \cup G]
<1>1. /\ tx[p].pc = "expired" /\ Free(p, G) /\ To(p, v)
      /\ UNCHANGED <<rows, bytes, members, clock, uploads, lost>>
  BY DEF PurgeDoomed
<1>2. G \subseteq rows /\ G \subseteq Entry \cup Blob /\ IsFiniteSet(G)
  BY Facts, FS_Subset
<1> HIDE DEF G
<1>3. \A q \in Handlers : q # p => Touched(q) \cap G = {}
  BY <1>1 DEF Free, Others
<1>4. tx[p] \in Tx /\ TxShape(tx[p]) /\ tx[p].ins = {} /\ IsFiniteSet(tx[p].del)
      /\ \A a \in Accounts : tx[p].delta[a] <= 0
  BY <1>1, Facts DEF TxShape
<1>5. IsFiniteSet(tx[p].del \cup G)
  BY <1>2, <1>4, FS_Union
<1>6. v \in Tx /\ v.pc = "doomed" /\ v.ins = {} /\ v.del = tx[p].del \cup G /\ v.delta = tx[p].delta
  BY <1>2, <1>4 DEF Tx
<1> HIDE DEF v
<1>7. TxShape(v)
  BY <1>4, <1>5, <1>6, FS_EmptySet DEF TxShape
<1>8. \A q \in Handlers : q # p => Touched(q) \cap (v.ins \cup v.del) = {}
  BY <1>3, <1>6, Facts
<1>9. v.ins \cap rows = {} /\ v.del \subseteq rows /\ \A x \in v.ins : FALSE
  BY <1>2, <1>6, Facts
<1>10. uploads' \in 0..MaxUploads /\ uploads <= uploads'
  BY <1>1, Facts, NotLess
<1>11. Ceiling # 0 => \A b \in Accounts : bytes[b] + v.delta[b] <= Ceiling
  BY <1>6, Facts
<1> QED
  BY <1>1, <1>6, <1>7, <1>8, <1>9, <1>10, <1>11, Moves

LEMMA PurgeGroupsStep ==
  ASSUME Inv, NEW p \in Handlers, PurgeGroups(p)
  PROVE  Inv'
<1> DEFINE v == [tx[p] EXCEPT !.pc = "groups", !.gone = Doomed]
<1>1. tx[p].pc = "credited" /\ To(p, v) /\ UNCHANGED <<rows, bytes, members, clock, uploads, lost>>
  BY DEF PurgeGroups
<1>2. Doomed \subseteq Groups
  BY Facts DEF Doomed
<1>3. tx[p] \in Tx /\ tx[p].ins = {} /\ tx[p].del = {} /\ Zero(tx[p])
  BY <1>1, Facts DEF TxShape
<1>4. v \in Tx /\ v.pc = "groups" /\ v.ins = {} /\ v.del = {} /\ v.delta = tx[p].delta
  BY <1>2, <1>3 DEF Tx
<1> HIDE DEF v
<1>5. TxShape(v)
  BY <1>3, <1>4, FS_EmptySet DEF TxShape, Zero
<1>6. \A b \in Accounts : v.delta[b] = 0 /\ bytes[b] + v.delta[b] = bytes[b]
  BY <1>3, <1>4, Facts DEF Zero
<1>7. uploads' \in 0..MaxUploads /\ uploads <= uploads'
  BY <1>1, Facts, NotLess
<1> QED
  BY <1>1, <1>4, <1>5, <1>6, <1>7, Facts, Moves

LEMMA PurgeCreditStep ==
  ASSUME Inv, NEW p \in Handlers, NEW a \in Accounts, PurgeCredit(p, a)
  PROVE  Inv'
<1> DEFINE n == -Of(a, tx[p].del)
           v == [tx[p] EXCEPT !.delta = [@ EXCEPT ![a] = n]]
<1>1. /\ tx[p].pc \in {"expired", "doomed"} /\ CounterFree(p, a) /\ To(p, v)
      /\ UNCHANGED <<rows, bytes, members, clock, uploads, lost>>
  BY DEF PurgeCredit
<1>2. /\ tx[p] \in Tx /\ tx[p].ins = {} /\ IsFiniteSet(tx[p].del)
      /\ \A b \in Accounts : tx[p].delta[b] <= 0
  BY <1>1, Facts DEF TxShape
<1>3. n \in Int /\ n <= 0
  <2>1. Of(a, tx[p].del) \in Nat
    BY <1>2, OfType
  <2> QED
    BY <2>1, Negated
<1> HIDE DEF n
<1>4. [tx[p].delta EXCEPT ![a] = n] \in [Accounts -> Int] /\ [tx[p].delta EXCEPT ![a] = n][a] = n
      /\ \A b \in Accounts : b # a => [tx[p].delta EXCEPT ![a] = n][b] = tx[p].delta[b]
  BY <1>3, Facts, SetOne
<1>5. /\ v \in Tx /\ v.ins = {} /\ v.del = tx[p].del /\ v.pc = tx[p].pc
      /\ v.delta = [tx[p].delta EXCEPT ![a] = n]
  BY <1>2, <1>4 DEF Tx
<1> HIDE DEF v
<1>6. /\ v.delta[a] = n /\ (\A b \in Accounts : b # a => v.delta[b] = tx[p].delta[b])
      /\ v.delta \in [Accounts -> Int]
  BY <1>4, <1>5
<1>7. \A b \in Accounts : v.delta[b] \in Int /\ v.delta[b] <= 0
  BY <1>2, <1>3, <1>6
<1>8. TxShape(v)
  BY <1>1, <1>2, <1>5, <1>7, FS_EmptySet DEF TxShape
<1>9. \A b \in Accounts : \/ v.delta[b] = tx[p].delta[b]
                          \/ \A q \in Handlers : q # p => tx[q].delta[b] = 0
  <2>1. \A q \in Handlers : q # p => tx[q].delta[a] = 0
    BY <1>1, OnlyOne
  <2> QED
    BY <1>6, <2>1
<1>10. Ceiling # 0 => \A b \in Accounts : bytes[b] + v.delta[b] <= Ceiling
  <2> SUFFICES ASSUME Ceiling # 0, NEW b \in Accounts PROVE bytes[b] + v.delta[b] <= Ceiling
    OBVIOUS
  <2>1. bytes[b] \in Nat /\ bytes[b] <= Ceiling /\ Ceiling \in Nat
    BY Facts, StorageAssumption
  <2> QED
    BY <1>7, <2>1, Below
<1>11. uploads' \in 0..MaxUploads /\ uploads <= uploads'
  BY <1>1, Facts, NotLess
<1>12. /\ v.ins \cap rows = {} /\ v.del \subseteq rows /\ (\A x \in v.ins : FALSE)
       /\ \A q \in Handlers : q # p => Touched(q) \cap (v.ins \cup v.del) = {}
  BY <1>2, <1>5, Facts
<1> QED
  BY <1>1, <1>8, <1>9, <1>10, <1>11, <1>12, Moves

----------------------------------------------------------------------------
(* The end of a transaction, and the cascade.                              *)

LEMMA Sums ==
  \A o, i, d, l, y \in Int : \A b, c : b = o + l /\ c = b + y /\ y = i - d => c = (o - d + i) + l
OBVIOUS

LEMMA Carried ==
  \A o, g, l \in Nat : \A b, x, y : b = o + l /\ x = o - g /\ y = l + g => b = x + y
OBVIOUS

LEMMA AtMost == \A o, l, c \in Nat : \A b : b = o + l /\ b <= c => o <= c
OBVIOUS

LEMMA SumNat == \A o, l \in Nat : \A c : c = o + l => c \in Nat
OBVIOUS

LEMMA EmptyLeaves ==
  ASSUME NEW to, to = Idle \/ to = [Idle EXCEPT !.pc = "credited"]
  PROVE  /\ TxShape(to) /\ to.ins = {} /\ to.del = {}
         /\ to.delta = [a \in Accounts |-> 0] /\ to.pc # "settled"
<1>1. CASE to = Idle
  BY <1>1, IdleShape DEF Idle
<1>2. CASE to = [Idle EXCEPT !.pc = "credited"]
  <2>1. /\ to \in Tx /\ to.pc = "credited" /\ to.ins = {} /\ to.del = {}
        /\ to.delta = [a \in Accounts |-> 0]
    BY <1>2, IdleShape DEF Idle, Tx, TxShape
  <2> QED
    BY <2>1, FS_EmptySet DEF TxShape, Zero
<1> QED
  BY <1>1, <1>2

\* What the transaction of r has done is in the tables and in the counters, at once.
LEMMA SettleStep ==
  ASSUME Inv, NEW r \in Handlers, NEW to, to = Idle \/ to = [Idle EXCEPT !.pc = "credited"],
         Settle(r, to), Balanced(tx[r]),
         \A x \in tx[r].ins : x.kind = "attachment" => x.group \in Exists
  PROVE  Inv'
<1> DEFINE I == tx[r].ins
           D == tx[r].del
           d == tx[r].delta
<1>1. /\ rows' = (rows \ D) \cup I /\ bytes' = [a \in Accounts |-> bytes[a] + d[a]]
      /\ members' = members /\ recent' = recent /\ old' = old /\ uploads' = uploads /\ lost' = lost
      /\ To(r, to)
  BY DEF Settle, clock
<1>2. /\ TxShape(to) /\ to \in Tx /\ to.ins = {} /\ to.del = {}
      /\ to.delta = [a \in Accounts |-> 0] /\ to.pc # "settled"
  BY EmptyLeaves DEF TxShape
<1>3. tx' \in [Handlers -> Tx] /\ tx'[r] = to /\ \A q \in Handlers : q # r => tx'[q] = tx[q]
  BY <1>1, <1>2 DEF Inv, TxOK, To
<1>4. /\ IsFiniteSet(rows) /\ IsFiniteSet(D) /\ IsFiniteSet(I) /\ D \subseteq rows /\ I \cap rows = {}
      /\ I \subseteq Entry \cup Blob /\ d \in [Accounts -> Int]
  BY Facts DEF TxShape, Tx
<1>5. \A q \in Handlers : q # r => Touched(q) \cap (I \cup D) = {}
  BY Facts
<1>6. \A a : Of(a, rows) \in Nat /\ Of(a, D) \in Nat /\ Of(a, I) \in Nat /\ Of(a, rows') \in Nat
             /\ IsFiniteSet(rows') /\ Of(a, rows') = Of(a, rows) - Of(a, D) + Of(a, I)
  <2> TAKE a
  <2>1. IsFiniteSet((rows \ D) \cup I) /\ Of(a, (rows \ D) \cup I) = Of(a, rows) - Of(a, D) + Of(a, I)
    BY <1>4, OfSettled
  <2> QED
    BY <1>1, <1>4, <2>1, OfType
<1> HIDE DEF I, D, d
<1>7. \A a \in Accounts : bytes'[a] = Of(a, rows') + lost[a] /\ bytes'[a] \in Nat
  <2> SUFFICES ASSUME NEW a \in Accounts PROVE bytes'[a] = Of(a, rows') + lost[a] /\ bytes'[a] \in Nat
    OBVIOUS
  <2>1. bytes[a] = Of(a, rows) + lost[a] /\ lost[a] \in Nat
    BY DEF Inv, Reconciled, DataOK
  <2>2. d[a] = Of(a, I) - Of(a, D)
    BY DEF Balanced, d, I, D
  <2>3. bytes'[a] = bytes[a] + d[a]
    BY <1>1
  <2>4. d[a] \in Int
    BY <1>4
  <2>5. bytes'[a] = (Of(a, rows) - Of(a, D) + Of(a, I)) + lost[a]
    BY <1>6, <2>1, <2>2, <2>3, <2>4, Sums
  <2>6. bytes'[a] = Of(a, rows') + lost[a]
    BY <1>6, <2>5
  <2> QED
    BY <1>6, <2>1, <2>6, SumNat
<1>8. DataOK'
  <2>1. bytes' \in [Accounts -> Nat]
    BY <1>1, <1>7
  <2>2. rows' \subseteq Entry \cup Blob
    BY <1>1, <1>4, Facts
  <2>3. IsFiniteSet(rows')
    BY <1>6
  <2>4. Exists' = Exists
    BY <1>1 DEF Exists
  <2> QED
    BY <1>1, <2>1, <2>2, <2>3, <2>4 DEF Inv, DataOK
<1>9. TxOK'
  BY <1>2, <1>3 DEF Inv, TxOK
<1>10. Apart'
  <2>1. \A q \in Handlers : tx'[q].ins \cap rows' = {} /\ tx'[q].del \subseteq rows'
    <3> SUFFICES ASSUME NEW q \in Handlers PROVE tx'[q].ins \cap rows' = {} /\ tx'[q].del \subseteq rows'
      OBVIOUS
    <3>1. CASE q = r
      BY <1>2, <1>3, <3>1
    <3>2. CASE q # r
      <4>1. tx[q].ins \cap rows = {} /\ tx[q].del \subseteq rows
        BY Facts
      <4>2. tx[q].ins \cap I = {} /\ tx[q].del \cap D = {}
        BY <1>5, <3>2 DEF Touched
      <4> QED
        BY <1>1, <1>3, <3>2, <4>1, <4>2
    <3> QED
      BY <3>1, <3>2
  <2>2. \A p, q \in Handlers : p # q => Touched(p)' \cap Touched(q)' = {}
    BY <1>2, <1>3 DEF Inv, Apart, Touched
  <2>3. \A p, q \in Handlers, a \in Accounts : p # q => tx'[p].delta[a] = 0 \/ tx'[q].delta[a] = 0
    BY <1>2, <1>3 DEF Inv, Apart
  <2> QED
    BY <2>1, <2>2, <2>3 DEF Apart
<1>11. Numbered'
  <2>1. \A x \in rows' : x.kind = "attachment" => x.n <= uploads
    BY <1>1, Facts DEF Inv, Numbered, I
  <2>2. \A q \in Handlers : \A x \in tx'[q].ins : x.kind = "attachment" => x.n <= uploads
    BY <1>2, <1>3 DEF Inv, Numbered
  <2> QED
    BY <1>1, <2>1, <2>2 DEF Numbered
<1>12. Housed'
  <2>1. \A x \in rows' : x.kind = "attachment" => x.group \in Exists
    BY <1>1 DEF Inv, Housed, AttachmentsHaveAGroup, I
  <2>2. \A q \in Handlers : \A x \in tx'[q].ins :
          tx'[q].pc = "settled" /\ x.kind = "attachment" => x.group \in Exists
    BY <1>2, <1>3 DEF Inv, Housed
  <2> QED
    BY <1>1, <2>1, <2>2 DEF Housed, AttachmentsHaveAGroup, Exists
<1>13. Ceiled'
  <2> SUFFICES ASSUME Ceiling # 0, NEW a \in Accounts
               PROVE  bytes'[a] <= Ceiling /\ \A q \in Handlers : bytes'[a] + tx'[q].delta[a] <= Ceiling
    BY DEF Ceiled
  <2>1. bytes'[a] = bytes[a] + d[a] /\ bytes'[a] \in Nat
    BY <1>1, <1>7
  <2>2. bytes[a] + d[a] <= Ceiling /\ bytes[a] <= Ceiling
    BY Facts DEF d
  <2>3. bytes'[a] <= Ceiling
    BY <2>1, <2>2
  <2>4. ASSUME NEW q \in Handlers PROVE bytes'[a] + tx'[q].delta[a] <= Ceiling
    <3>1. CASE tx'[q].delta[a] = 0
      <4>1. bytes'[a] + tx'[q].delta[a] = bytes'[a]
        BY <2>1, <3>1, PlusNone
      <4> QED
        BY <2>3, <4>1
    <3>2. CASE tx'[q].delta[a] # 0
      <4>1. q # r
        BY <1>2, <1>3, <3>2
      <4>2. tx'[q] = tx[q]
        BY <1>3, <4>1
      <4>3. d[a] = 0
        BY <3>2, <4>1, <4>2 DEF Inv, Apart, d
      <4>4. bytes'[a] = bytes[a]
        <5>1. bytes[a] \in Nat
          BY Facts
        <5> QED
          BY <2>1, <4>3, <5>1, PlusNone
      <4>5. bytes[a] + tx[q].delta[a] <= Ceiling
        BY DEF Inv, Ceiled
      <4> QED
        BY <4>2, <4>4, <4>5
    <3> QED
      BY <3>1, <3>2
  <2> QED
    BY <2>3, <2>4
<1>14. Reconciled'
  BY <1>1, <1>7 DEF Reconciled
<1> QED
  BY <1>8, <1>9, <1>10, <1>11, <1>12, <1>13, <1>14 DEF Inv

LEMMA CommitStep ==
  ASSUME Inv, NEW r \in Handlers, Commit(r)
  PROVE  Inv'
<1>1. tx[r].pc = "settled" /\ Settle(r, Idle)
  BY DEF Commit
<1>2. Balanced(tx[r])
  BY <1>1, Facts DEF TxShape
<1>3. \A x \in tx[r].ins : x.kind = "attachment" => x.group \in Exists
  BY <1>1 DEF Inv, Housed
<1> QED
  BY <1>1, <1>2, <1>3, SettleStep

LEMMA PurgeCommitStep ==
  ASSUME Inv, NEW p \in Handlers, PurgeCommit(p)
  PROVE  Inv'
<1>1. tx[p].pc = "doomed" /\ Credited(p) /\ Settle(p, [Idle EXCEPT !.pc = "credited"])
  BY DEF PurgeCommit
<1>2. tx[p].ins = {} /\ IsFiniteSet(tx[p].del)
  BY <1>1, Facts DEF TxShape
<1>3. Balanced(tx[p])
  <2> SUFFICES ASSUME NEW a \in Accounts
               PROVE  tx[p].delta[a] = Of(a, tx[p].ins) - Of(a, tx[p].del)
    BY DEF Balanced
  <2>1. Of(a, tx[p].ins) = 0
    BY <1>2, OfEmpty
  <2>2. Of(a, tx[p].del) \in Nat
    BY <1>2, OfType
  <2>3. tx[p].delta[a] = -Of(a, tx[p].del)
    BY <1>1 DEF Credited
  <2> QED
    BY <2>1, <2>2, <2>3
<1> QED
  BY <1>1, <1>2, <1>3, SettleStep

LEMMA PurgeCascadeStep ==
  ASSUME Inv, NEW p \in Handlers, PurgeCascade(p)
  PROVE  Inv'
<1> DEFINE K == tx[p].gone
           G == {x \in rows : x.kind = "attachment" /\ x.group \in K}
<1>1. /\ tx[p].pc = "groups" /\ Free(p, G) /\ Unreferred(p)
      /\ members' = [g \in Exists \ K |-> members[g]] /\ recent' = recent \ K
      /\ rows' = rows \ G /\ lost' = [a \in Accounts |-> lost[a] + Of(a, G)]
      /\ To(p, Idle) /\ bytes' = bytes /\ old' = old /\ uploads' = uploads
  BY DEF PurgeCascade
<1>2. /\ TxShape(Idle) /\ Idle \in Tx /\ Idle.ins = {} /\ Idle.del = {}
      /\ Idle.delta = [a \in Accounts |-> 0] /\ Idle.pc # "settled"
  BY EmptyLeaves DEF TxShape
<1>3. tx' \in [Handlers -> Tx] /\ tx'[p] = Idle /\ \A q \in Handlers : q # p => tx'[q] = tx[q]
  BY <1>1, <1>2 DEF Inv, TxOK, To
<1>4. IsFiniteSet(rows) /\ IsFiniteSet(G) /\ G \subseteq rows
  BY Facts, FS_Subset
<1>5. \A a : Of(a, rows) \in Nat /\ Of(a, G) \in Nat /\ Of(a, rows') \in Nat
             /\ Of(a, rows') = Of(a, rows) - Of(a, G) /\ IsFiniteSet(rows')
  <2> TAKE a
  <2>1. IsFiniteSet(rows \ G) /\ Of(a, rows \ G) = Of(a, rows) - Of(a, G)
    BY <1>4, OfTaken, FS_Difference
  <2>2. Of(a, rows) \in Nat /\ Of(a, G) \in Nat
    BY <1>4, OfType
  <2>3. IsFiniteSet(rows') /\ Of(a, rows') = Of(a, rows) - Of(a, G)
    BY <1>1, <2>1
  <2> QED
    BY <2>2, <2>3, OfType
<1>6. Exists' = Exists \ K /\ \A g \in Exists' : members'[g] = members[g]
  BY <1>1 DEF Exists
<1>7. \A x \in rows' : x \in rows /\ (x.kind = "attachment" => x.group \notin K)
  BY <1>1
<1>8. \A q \in Handlers : q # p => Touched(q) \cap G = {}
  BY <1>1 DEF Free, Others
<1> HIDE DEF G
<1>9. \A a \in Accounts : lost'[a] \in Nat /\ lost'[a] = lost[a] + Of(a, G) /\ lost[a] \in Nat
  <2> SUFFICES ASSUME NEW a \in Accounts
               PROVE  lost'[a] \in Nat /\ lost'[a] = lost[a] + Of(a, G) /\ lost[a] \in Nat
    OBVIOUS
  <2>1. lost'[a] = lost[a] + Of(a, G) /\ lost[a] \in Nat /\ Of(a, G) \in Nat
    BY <1>1, <1>5 DEF Inv, DataOK
  <2> QED
    BY <2>1, SumNat
<1>10. DataOK'
  <2>1. lost' \in [Accounts -> Nat]
    BY <1>1, <1>9
  <2>2. IsFiniteSet(rows') /\ rows' \subseteq Entry \cup Blob
    BY <1>5, <1>7, Facts
  <2>3. Exists' \subseteq Groups /\ recent' \subseteq Exists' /\ \A g \in Exists' : members'[g] \subseteq Accounts
    BY <1>1, <1>6 DEF Inv, DataOK
  <2> QED
    BY <1>1, <2>1, <2>2, <2>3 DEF Inv, DataOK
<1>11. TxOK'
  BY <1>2, <1>3 DEF Inv, TxOK
<1>12. Apart'
  <2>1. \A q \in Handlers : tx'[q].ins \cap rows' = {} /\ tx'[q].del \subseteq rows'
    <3> SUFFICES ASSUME NEW q \in Handlers PROVE tx'[q].ins \cap rows' = {} /\ tx'[q].del \subseteq rows'
      OBVIOUS
    <3>1. CASE q = p
      BY <1>2, <1>3, <3>1
    <3>2. CASE q # p
      <4>1. tx[q].ins \cap rows = {} /\ tx[q].del \subseteq rows
        BY Facts
      <4>2. tx[q].del \cap G = {}
        BY <1>8, <3>2 DEF Touched
      <4> QED
        BY <1>1, <1>3, <3>2, <4>1, <4>2
    <3> QED
      BY <3>1, <3>2
  <2>2. \A r, q \in Handlers : r # q => Touched(r)' \cap Touched(q)' = {}
    BY <1>2, <1>3 DEF Inv, Apart, Touched
  <2>3. \A r, q \in Handlers, a \in Accounts : r # q => tx'[r].delta[a] = 0 \/ tx'[q].delta[a] = 0
    BY <1>2, <1>3 DEF Inv, Apart
  <2> QED
    BY <2>1, <2>2, <2>3 DEF Apart
<1>13. Numbered'
  BY <1>1, <1>2, <1>3, <1>7 DEF Inv, Numbered
<1>14. Housed'
  <2>1. \A x \in rows' : x.kind = "attachment" => x.group \in Exists'
    BY <1>6, <1>7 DEF Inv, Housed, AttachmentsHaveAGroup
  <2>2. \A q \in Handlers : \A x \in tx'[q].ins :
          tx'[q].pc = "settled" /\ x.kind = "attachment" => x.group \in Exists'
    <3> SUFFICES ASSUME NEW q \in Handlers, NEW x \in tx'[q].ins,
                        tx'[q].pc = "settled", x.kind = "attachment"
                 PROVE  x.group \in Exists'
      OBVIOUS
    <3>1. q # p
      BY <1>2, <1>3
    <3>2. tx'[q] = tx[q]
      BY <1>3, <3>1
    <3>3. x.group \in Exists
      BY <3>2 DEF Inv, Housed
    <3>4. x.group \notin K
      BY <1>1, <3>1, <3>2 DEF Unreferred, Others
    <3> QED
      BY <1>6, <3>3, <3>4
  <2> QED
    BY <2>1, <2>2 DEF Housed, AttachmentsHaveAGroup
<1>15. Ceiled'
  <2>1. Ceiling # 0 => \A a \in Accounts : bytes[a] \in Nat /\ bytes[a] <= Ceiling
          /\ \A q \in Handlers : bytes[a] + tx[q].delta[a] <= Ceiling
    BY DEF Inv, Ceiled, DataOK
  <2>2. \A a \in Accounts : bytes[a] \in Nat /\ bytes[a] + 0 = bytes[a]
    BY Facts
  <2>3. \A a \in Accounts : Idle.delta[a] = 0
    BY <1>2
  <2> QED
    BY <1>1, <1>3, <2>1, <2>2, <2>3 DEF Ceiled
<1>16. Reconciled'
  <2> SUFFICES ASSUME NEW a \in Accounts PROVE bytes'[a] = Of(a, rows') + lost'[a]
    BY DEF Reconciled
  <2>1. bytes[a] = Of(a, rows) + lost[a]
    BY DEF Inv, Reconciled
  <2>2. bytes'[a] = Of(a, rows) + lost[a]
    BY <1>1, <2>1
  <2> QED
    BY <1>5, <1>9, <2>2, Carried
<1> QED
  BY <1>10, <1>11, <1>12, <1>13, <1>14, <1>15, <1>16 DEF Inv

----------------------------------------------------------------------------
(* Groups and time, and the whole.                                         *)

LEMMA WorldStep ==
  ASSUME Inv, UNCHANGED <<rows, bytes, uploads, tx, lost>>, Exists \subseteq Exists',
         Exists' \subseteq Groups, \A g \in Exists' : members'[g] \subseteq Accounts,
         recent' \subseteq Exists', old' \subseteq 1..MaxUploads
  PROVE  Inv'
<1>1. DataOK'
  BY DEF Inv, DataOK
<1>2. TxOK' /\ Apart' /\ Numbered'
  BY DEF Inv, TxOK, Apart, Numbered, Touched
<1>3. Housed'
  BY DEF Inv, Housed, AttachmentsHaveAGroup
<1>4. Ceiled' /\ Reconciled'
  BY DEF Inv, Ceiled, Reconciled
<1> QED
  BY <1>1, <1>2, <1>3, <1>4 DEF Inv

LEMMA GroupsStep ==
  ASSUME Inv, NEW g \in Groups, NEW a \in Accounts, Create(g, a) \/ Add(g, a) \/ Remove(g, a)
  PROVE  Inv'
<1>1. /\ UNCHANGED <<rows, bytes, uploads, tx, lost>> /\ recent' = recent /\ old' = old
  BY DEF Create, Add, Remove, clock
<1>2. /\ Exists \subseteq Groups /\ recent \subseteq Exists /\ old \subseteq 1..MaxUploads
      /\ \A h \in Exists : members[h] \subseteq Accounts
  BY DEF Inv, DataOK
<1>3. CASE Create(g, a)
  <2>1. members' = [h \in Exists \cup {g} |-> IF h = g THEN {a} ELSE members[h]]
    BY <1>3 DEF Create
  <2>2. Exists' = Exists \cup {g}
    BY <2>1 DEF Exists
  <2>3. \A h \in Exists' : members'[h] \subseteq Accounts
    BY <1>2, <2>1, <2>2
  <2> QED
    BY <1>1, <1>2, <2>2, <2>3, WorldStep
<1>4. CASE Add(g, a) \/ Remove(g, a)
  <2>1. /\ g \in Exists
        /\ \/ members' = [members EXCEPT ![g] = members[g] \cup {a}]
           \/ members' = [members EXCEPT ![g] = members[g] \ {a}]
    BY <1>4 DEF Add, Remove
  <2>2. Exists' = Exists
    BY <2>1 DEF Exists
  <2>3. \A h \in Exists' : members'[h] \subseteq Accounts
    BY <1>2, <2>1, <2>2 DEF Exists
  <2> QED
    BY <1>1, <1>2, <2>2, <2>3, WorldStep
<1> QED
  BY <1>3, <1>4

LEMMA TimeStep ==
  ASSUME Inv, \/ \E g \in Groups : Post(g) \/ Silence(g)
              \/ \E x \in rows : Age(x)
  PROVE  Inv'
<1>1. /\ Exists \subseteq Groups /\ recent \subseteq Exists /\ old \subseteq 1..MaxUploads
      /\ \A h \in Exists : members[h] \subseteq Accounts
  BY DEF Inv, DataOK
<1>2. UNCHANGED <<rows, bytes, members, uploads, tx, lost>>
  BY DEF Post, Silence, Age
<1>3. Exists' = Exists
  BY <1>2 DEF Exists
<1>4. recent' \subseteq Exists /\ old' \subseteq 1..MaxUploads
  <2>1. CASE \E g \in Groups : Post(g) \/ Silence(g)
    BY <1>1, <2>1 DEF Post, Silence
  <2>2. CASE \E x \in rows : Age(x)
    <3>1. PICK x \in rows : Age(x)
      BY <2>2
    <3>2. x \in Blob
      BY <3>1 DEF Inv, DataOK, Age, Entry
    <3>3. x.n \in 1..MaxUploads
      BY <3>2 DEF Blob
    <3> QED
      BY <1>1, <3>1, <3>3 DEF Age
  <2> QED
    BY <2>1, <2>2
<1> QED
  BY <1>1, <1>2, <1>3, <1>4, WorldStep

LEMMA AbortStep ==
  ASSUME Inv, NEW r \in Handlers, Abort(r)
  PROVE  Inv'
BY EndsIdle DEF Abort

LEMMA RequestStep ==
  ASSUME Inv, NEW r \in Requests, Request(r)
  PROVE  Inv'
<1>1. r \in Handlers
  BY DEF Handlers
<1>2. CASE \E a \in Accounts, g \in Groups : Upload(r, a, g)
  BY <1>1, <1>2, UploadStep
<1>3. CASE \E a \in Accounts, g \in Groups : Drop(r, a, g)
  BY <1>1, <1>3, DropStep
<1>4. CASE \E a \in Accounts, g \in Groups : \E S \in SUBSET Seqs \ {{}} : Archive(r, a, g, S)
  BY <1>1, <1>4, ArchiveStep
<1>5. CASE ArchiveInsert(r)
  BY <1>1, <1>5, ArchiveInsertStep
<1>6. CASE ArchiveCharge(r)
  BY <1>1, <1>6, ArchiveChargeStep
<1>7. CASE UploadCharge(r)
  BY <1>1, <1>7, UploadChargeStep
<1>8. CASE UploadInsert(r)
  BY <1>1, <1>8, UploadInsertStep
<1>9. CASE DropCredit(r)
  BY <1>1, <1>9, DropCreditStep
<1>10. CASE Commit(r)
  BY <1>1, <1>10, CommitStep
<1> QED
  BY <1>2, <1>3, <1>4, <1>5, <1>6, <1>7, <1>8, <1>9, <1>10 DEF Request

LEMMA PurgeStep ==
  ASSUME Inv, NEW p \in Purges, Purge(p)
  PROVE  Inv'
<1>1. p \in Handlers
  BY DEF Handlers
<1>2. CASE PurgeExpired(p)
  BY <1>1, <1>2, PurgeExpiredStep
<1>3. CASE PurgeDoomed(p)
  BY <1>1, <1>3, PurgeDoomedStep
<1>4. CASE PurgeCommit(p)
  BY <1>1, <1>4, PurgeCommitStep
<1>5. CASE PurgeGroups(p)
  BY <1>1, <1>5, PurgeGroupsStep
<1>6. CASE PurgeCascade(p)
  BY <1>1, <1>6, PurgeCascadeStep
<1>7. CASE \E a \in Accounts : PurgeCredit(p, a)
  BY <1>1, <1>7, PurgeCreditStep
<1> QED
  BY <1>2, <1>3, <1>4, <1>5, <1>6, <1>7 DEF Purge

LEMMA Inductive == Inv /\ [Next]_vars => Inv'
<1> SUFFICES ASSUME Inv, [Next]_vars PROVE Inv'
  OBVIOUS
<1>1. CASE UNCHANGED vars
  <2>1. UNCHANGED <<rows, bytes, uploads, tx, lost>> /\ members' = members /\ recent' = recent /\ old' = old
    BY <1>1 DEF vars
  <2>2. Exists' = Exists
    BY <2>1 DEF Exists
  <2> QED
    BY <2>1, <2>2, WorldStep DEF Inv, DataOK
<1>2. CASE \E g \in Groups, a \in Accounts : Create(g, a) \/ Add(g, a) \/ Remove(g, a)
  BY <1>2, GroupsStep
<1>3. CASE \/ \E g \in Groups : Post(g) \/ Silence(g)
           \/ \E x \in rows : Age(x)
  BY <1>3, TimeStep
<1>4. CASE \E r \in Handlers : Abort(r)
  BY <1>4, AbortStep
<1>5. CASE \E r \in Requests : Request(r)
  BY <1>5, RequestStep
<1>6. CASE \E p \in Purges : Purge(p)
  BY <1>6, PurgeStep
<1> QED
  BY <1>1, <1>2, <1>3, <1>4, <1>5, <1>6 DEF Next

LEMMA Invariant == Spec => []Inv
BY Initially, Inductive, PTL DEF Spec

----------------------------------------------------------------------------
(* Results.                                                                *)

\* No counter ever leaves the natural numbers, so no credit fails on the table's CHECK.
THEOREM TypeCorrect == Spec => []TypeOK
<1>1. Inv => TypeOK
  BY DEF Inv, DataOK, TxOK, TypeOK
<1> QED
  BY <1>1, Invariant, PTL

\* Whatever requests and purges overlap, and wherever they fail, the counter of an account is what
\* the tables hold of it and what left with a group.
THEOREM ReconciledHolds == Spec => []Reconciled
<1>1. Inv => Reconciled
  BY DEF Inv
<1> QED
  BY <1>1, Invariant, PTL

\* Nobody keeps more than the ceiling, however many connections it opens: the one UPDATE that
\* charges is the check.
THEOREM CeilingHoldsAlways == Spec => []CeilingHolds
<1>1. Inv => CeilingHolds
  <2> SUFFICES ASSUME Inv, Ceiling # 0, NEW a \in Accounts PROVE Of(a, rows) <= Ceiling
    BY DEF CeilingHolds
  <2>1. bytes[a] = Of(a, rows) + lost[a] /\ lost[a] \in Nat /\ bytes[a] <= Ceiling /\ Ceiling \in Nat
    BY StorageAssumption DEF Inv, Reconciled, DataOK, Ceiled
  <2>2. Of(a, rows) \in Nat
    BY OfType DEF Inv, DataOK
  <2> QED
    BY <2>1, <2>2, AtMost
<1> QED
  BY <1>1, Invariant, PTL

\* No attachment is stored into a group that is gone, or left behind by one: the cascade and the
\* insertion that refers to the group wait for each other.
THEOREM AttachmentsHoused == Spec => []AttachmentsHaveAGroup
<1>1. Inv => AttachmentsHaveAGroup
  BY DEF Inv, Housed
<1> QED
  BY <1>1, Invariant, PTL

=============================================================================
