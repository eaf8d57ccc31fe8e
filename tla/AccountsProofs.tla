--------------------------- MODULE AccountsProofs ---------------------------
(***************************************************************************)
(* What the run of MCAccounts checks on two requests and two instances,    *)
(* proved for any number of them, of accounts and of devices, and for any  *)
(* bounds; among it, that Accounts implements KeyLog.                      *)
(***************************************************************************)
EXTENDS Accounts, TLAPS

----------------------------------------------------------------------------
(* Types and locks.                                                        *)

Changing == {"verified", "updated", "appended"}

\* What a request in progress knows: its account and key if it is to change them, the one row it
\* has appended, or its device.
RequestShape(v) ==
  /\ v.pc \in Changing => v.account \in Accounts /\ v.key \in Keys
  /\ v.pc \in {"attesting", "revoking", "purging", "publishing", "claiming"} => v.device \in Devices
  /\ v.pc = "appended" =>
       \E n \in 1..MaxRows : v.rows = {[seq |-> n, account |-> v.account, key |-> v.key, by |-> v.by]}
  /\ v.pc # "appended" => v.rows = {}

\* A back-fill signs nothing, and enters an account once.
FillShape(v) ==
  /\ v.pc # "appended" => v.rows = {}
  /\ \A e \in v.rows : e.by = NoKey
  /\ \A e, f \in v.rows : e.account = f.account => e = f
  /\ \A p, q \in v.todo : p[1] = q[1] => p = q
  /\ \A p \in v.todo, e \in v.rows : e.account # p[1]

Shaped == /\ \A r \in Requests : RequestShape(tx[r])
          /\ \A i \in Instances : FillShape(tx[i])

\* A handler that goes on with v keeps the locks exclusive.
MayHold(r, v) ==
  /\ v.pc = "appended" => Appending(r) \/ LogFree(r)
  /\ r \in Requests /\ v.pc \in {"updated", "appended"} =>
       \/ HasRow(r) /\ tx[r].account = v.account
       \/ ~RowLocked(v.account)

\* The part of TypeOK that speaks of tx.
TxOK ==
  /\ tx \in [Handlers -> Tx]
  /\ \A r, q \in Handlers : Appending(r) /\ Appending(q) => r = q
  /\ \A r, q \in Requests : HasRow(r) /\ HasRow(q) /\ tx[r].account = tx[q].account => r = q

LEMMA TxStep ==
  ASSUME TxOK, Shaped, NEW r \in Handlers, NEW v \in Tx, To(r, v), MayHold(r, v),
         r \in Requests => RequestShape(v), r \in Instances => FillShape(v)
  PROVE  TxOK' /\ Shaped'
<1>1. /\ tx' \in [Handlers -> Tx] /\ tx'[r] = v
      /\ \A q \in Handlers : q # r => tx'[q] = tx[q]
  BY DEF To, TxOK
<1>2. \A q, p \in Handlers : Appending(q)' /\ Appending(p)' => q = p
  BY <1>1 DEF TxOK, Appending, MayHold, LogFree
<1>3. \A q, p \in Requests : HasRow(q)' /\ HasRow(p)' /\ tx'[q].account = tx'[p].account => q = p
  <2>1. SUFFICES ASSUME NEW p \in Requests, p # r, r \in Requests,
                        HasRow(r)', HasRow(p)', tx'[r].account = tx'[p].account
                 PROVE  FALSE
    BY <1>1 DEF TxOK, HasRow, Handlers
  <2>2. HasRow(p) /\ tx[p].account = v.account
    BY <1>1, <2>1 DEF HasRow, Handlers
  <2>3. v.pc \in {"updated", "appended"}
    BY <1>1, <2>1 DEF HasRow
  <2> QED
    BY <2>1, <2>2, <2>3 DEF MayHold, RowLocked, TxOK
<1>4. Shaped'
  BY <1>1 DEF Shaped, Handlers, RequestShape, FillShape
<1> QED
  BY <1>1, <1>2, <1>3, <1>4 DEF TxOK

\* The rest of TypeOK.
DataOK ==
  /\ key \in [Accounts -> Key0] /\ table \in Tree
  /\ seq \in 0..MaxRows /\ made \in Keys
  /\ dev \in [Devices -> Device] /\ stock \in SUBSET Packages /\ packed \in 0..MaxPackages
  /\ handed \in SUBSET [package : Packages, to : Requests]
  /\ overlaps \in SUBSET Requests /\ stray \in SUBSET Packages /\ answered \in SUBSET Devices
  /\ raced \in SUBSET Accounts /\ late \in SUBSET Accounts

Inv1 == TxOK /\ DataOK /\ Shaped

LEMMA Inv1Type == Inv1 => TypeOK
BY DEF Inv1, TxOK, DataOK, TypeOK

LEMMA IdleShape == Idle \in Tx /\ RequestShape(Idle) /\ FillShape(Idle)
<1>1. Idle \in Tx
  BY KeyLogAssumption DEF Idle, Tx, Key0, NoKey, Tree
<1> QED
  BY <1>1 DEF Idle, RequestShape, FillShape, Changing

LEMMA Inv1Init == Init => Inv1
<1> SUFFICES ASSUME Init PROVE Inv1
  OBVIOUS
<1> USE KeyLogAssumption, AccountsAssumption
<1>1. \A r \in Handlers : tx[r] = Idle
  BY DEF Init
<1>2. TxOK
  BY <1>1, IdleShape DEF Init, TxOK, Appending, HasRow, Idle, Handlers
<1>3. Shaped
  BY <1>1, IdleShape DEF Shaped, Handlers
<1>4. DataOK
  BY DEF Init, DataOK, LogInit, Key0, Keys, NoKey, Tree, Device
<1> QED
  BY <1>2, <1>3, <1>4 DEF Inv1

(* A handler that ends, or goes on without a lock it did not have.         *)
LEMMA ToIdle ==
  ASSUME TxOK, Shaped, NEW r \in Handlers, Done(r)
  PROVE  TxOK' /\ Shaped'
<1>1. MayHold(r, Idle)
  BY DEF MayHold, Idle
<1> QED
  BY <1>1, IdleShape, TxStep DEF Done

(* What stays when the data do.                                            *)
LEMMA DataStep ==
  ASSUME Inv1, UNCHANGED <<key, table, seq, devices, late>>, made' \in Keys, raced' \subseteq Accounts
  PROVE  DataOK'
BY DEF Inv1, DataOK, devices

(* A request begins: a rotation and a creation aside, it touches no lock.  *)
LEMMA BeginStep ==
  ASSUME Inv1, NEW r \in Requests, NEW d \in Devices, NEW v,
         \/ \E pc \in {"revoking", "publishing", "claiming"} : v = [Idle EXCEPT !.pc = pc, !.device = d]
         \/ \E by \in Key0 : v = [Idle EXCEPT !.pc = "attesting", !.device = d, !.by = by],
         To(r, v)
  PROVE  TxOK' /\ Shaped'
<1>1. v \in Tx /\ v.pc \in {"attesting", "revoking", "publishing", "claiming"} /\ v.device = d /\ v.rows = {}
  BY IdleShape DEF Idle, Tx
<1>2. RequestShape(v) /\ MayHold(r, v)
  BY <1>1 DEF RequestShape, MayHold, Changing
<1>3. r \notin Instances /\ r \in Handlers
  BY AccountsAssumption DEF Handlers
<1> QED
  BY <1>1, <1>2, <1>3, TxStep DEF Inv1

LEMMA RequestTypes ==
  ASSUME Inv1, NEW r \in Requests, Request(r)
  PROVE  Inv1'
<1> USE KeyLogAssumption, AccountsAssumption
<1>1. r \in Handlers /\ r \notin Instances /\ tx[r] \in Tx /\ RequestShape(tx[r])
  BY DEF Handlers, Inv1, TxOK, Shaped
<1>2. NoKey \in Key0 /\ Keys \subseteq Key0 /\ 1 \in Keys
  BY DEF NoKey, Key0, Keys
<1>3. TxOK /\ DataOK /\ Shaped
  BY DEF Inv1
<1>4. ASSUME NEW d \in Devices, RotateBegin(r, d) PROVE Inv1'
  <2> DEFINE v == [Idle EXCEPT !.pc = "verified", !.account = Owner[d], !.device = d,
                               !.key = made + 1, !.by = Signer(Owner[d])]
  <2>1. made + 1 \in Keys /\ Signer(Owner[d]) \in Key0 /\ Owner[d] \in Accounts
    BY <1>3, <1>4 DEF RotateBegin, DataOK, Keys, Signer
  <2>2. v \in Tx /\ v.pc = "verified" /\ v.account = Owner[d] /\ v.key = made + 1 /\ v.rows = {}
    BY <1>2, <2>1, IdleShape DEF Idle, Tx
  <2>3. RequestShape(v) /\ MayHold(r, v) /\ To(r, v)
    BY <1>4, <2>1, <2>2 DEF RequestShape, MayHold, Changing, RotateBegin
  <2> HIDE DEF v
  <2>4. TxOK' /\ Shaped'
    BY <1>1, <1>3, <2>2, <2>3, TxStep
  <2>5. DataOK'
    BY <1>3, <1>4, <2>1 DEF RotateBegin, DataOK, devices
  <2> QED
    BY <2>4, <2>5 DEF Inv1
<1>5. ASSUME RotateUpdate(r) PROVE Inv1'
  <2> DEFINE v == [tx[r] EXCEPT !.pc = "updated"]
  <2>1. v \in Tx /\ v.pc = "updated" /\ v.account = tx[r].account /\ v.key = tx[r].key /\ v.rows = tx[r].rows
    BY <1>1 DEF Tx
  <2>2. RequestShape(v) /\ MayHold(r, v) /\ To(r, v)
    BY <1>1, <1>5, <2>1 DEF RequestShape, MayHold, Changing, RotateUpdate
  <2> HIDE DEF v
  <2>3. TxOK' /\ Shaped'
    BY <1>1, <1>3, <2>1, <2>2, TxStep
  <2> QED
    BY <1>3, <1>5, <2>3 DEF RotateUpdate, DataOK, devices, Inv1
<1>6. ASSUME NEW a \in Accounts, Create(r, a) PROVE Inv1'
  <2> DEFINE v == [Idle EXCEPT !.pc = "updated", !.account = a, !.key = 1]
  <2>1. v \in Tx /\ v.pc = "updated" /\ v.account = a /\ v.key = 1 /\ v.rows = {}
    BY <1>2, IdleShape DEF Idle, Tx
  <2>2. RequestShape(v) /\ MayHold(r, v) /\ To(r, v)
    BY <1>2, <1>6, <2>1 DEF RequestShape, MayHold, Changing, Create
  <2> HIDE DEF v
  <2>3. TxOK' /\ Shaped'
    BY <1>1, <1>3, <2>1, <2>2, TxStep
  <2> QED
    BY <1>3, <1>6, <2>3 DEF Create, DataOK, devices, Inv1
<1>7. ASSUME AppendRow(r) PROVE Inv1'
  <2> DEFINE row == [seq |-> seq + 1, account |-> tx[r].account, key |-> tx[r].key, by |-> tx[r].by]
             v == [tx[r] EXCEPT !.pc = "appended", !.rows = {row}]
  <2>1. seq + 1 \in 1..MaxRows
    BY <1>3, <1>7 DEF AppendRow, DataOK
  <2>2. tx[r].pc = "updated" /\ tx[r].account \in Accounts /\ tx[r].key \in Keys /\ tx[r].by \in Key0
    BY <1>1, <1>7 DEF AppendRow, RequestShape, Changing, Tx
  <2>3. row \in Row
    BY <2>1, <2>2 DEF Row
  <2>4. /\ v \in Tx /\ v.pc = "appended" /\ v.account = tx[r].account /\ v.key = tx[r].key
        /\ v.by = tx[r].by /\ v.rows = {row}
    <3> HIDE DEF row
    <3>1. {row} \in Tree
      BY <2>3 DEF Tree
    <3> QED
      BY <1>1, <3>1 DEF Tx
  <2>5. RequestShape(v)
    BY <2>1, <2>2, <2>4 DEF RequestShape, Changing
  <2>6. MayHold(r, v) /\ To(r, v)
    BY <1>1, <1>7, <2>2, <2>4 DEF MayHold, AppendRow, HasRow
  <2> HIDE DEF v
  <2>7. TxOK' /\ Shaped'
    BY <1>1, <1>3, <2>4, <2>5, <2>6, TxStep
  <2>8. DataOK'
    BY <1>3, <1>7, <2>1 DEF AppendRow, DataOK, devices
  <2> QED
    BY <2>7, <2>8 DEF Inv1
<1>8. ASSUME Commit(r) PROVE Inv1'
  <2>1. TxOK' /\ Shaped'
    BY <1>1, <1>3, <1>8, ToIdle DEF Commit
  <2>2. tx[r].rows \in Tree /\ tx[r].account \in Accounts /\ tx[r].key \in Key0
    BY <1>1, <1>8 DEF Commit, Appending, RequestShape, Changing, Tx
  <2>3. table' \in Tree /\ key' \in [Accounts -> Key0] /\ stock' \subseteq stock
    BY <1>3, <1>8, <2>2 DEF Commit, DataOK, Tree, Logged, KeptBy
  <2> QED
    BY <1>3, <1>8, <2>1, <2>3 DEF Commit, DataOK, Inv1
<1>9. ASSUME NEW d \in Devices, RegisterBegin(r, d) PROVE Inv1'
  <2>1. key[Owner[d]] \in Key0
    BY <1>3 DEF DataOK
  <2> QED
    BY <1>3, <1>9, <2>1, BeginStep, DataStep DEF RegisterBegin, Inv1, DataOK
<1>10. ASSUME RegisterWrite(r) PROVE Inv1'
  <2>1. TxOK' /\ Shaped'
    BY <1>1, <1>3, <1>10, ToIdle DEF RegisterWrite
  <2>2. dev' \in [Devices -> Device]
    <3>1. dev \in [Devices -> Device] /\ tx[r].device \in Devices /\ tx[r].by \in Key0
      BY <1>1, <1>3, <1>10 DEF RegisterWrite, RequestShape, DataOK, Tx
    <3> QED
      BY <1>10, <3>1 DEF RegisterWrite, Device
  <2> QED
    BY <1>3, <1>10, <2>1, <2>2 DEF RegisterWrite, DataOK, Inv1
<1>11. ASSUME NEW d \in Devices, RevokeBegin(r, d) \/ PublishBegin(r, d) \/ ClaimBegin(r, d) PROVE Inv1'
  <2>1. PICK pc \in {"revoking", "publishing", "claiming"} : To(r, [Idle EXCEPT !.pc = pc, !.device = d])
    BY <1>11 DEF RevokeBegin, PublishBegin, ClaimBegin
  <2>2. UNCHANGED <<key, table, seq, made, devices, raced, late>>
    BY <1>11 DEF RevokeBegin, PublishBegin, ClaimBegin
  <2> QED
    BY <1>3, <2>1, <2>2, BeginStep, DataStep DEF Inv1, DataOK
<1>12. ASSUME RevokeWrite(r) PROVE Inv1'
  <2> DEFINE v == [tx[r] EXCEPT !.pc = "purging"]
  <2>1. v \in Tx /\ v.pc = "purging" /\ v.device = tx[r].device /\ v.rows = tx[r].rows
    BY <1>1 DEF Tx
  <2>2. RequestShape(v) /\ MayHold(r, v) /\ To(r, v)
    BY <1>1, <1>12, <2>1 DEF RequestShape, MayHold, Changing, RevokeWrite
  <2> HIDE DEF v
  <2>3. TxOK' /\ Shaped'
    BY <1>1, <1>3, <2>1, <2>2, TxStep
  <2>4. dev' \in [Devices -> Device]
    <3>1. dev \in [Devices -> Device] /\ tx[r].device \in Devices
      BY <1>1, <1>3, <1>12 DEF RevokeWrite, RequestShape, DataOK
    <3> QED
      BY <1>12, <3>1 DEF RevokeWrite, Device
  <2>5. overlaps' \in SUBSET Requests
    BY <1>3, <1>12 DEF RevokeWrite, PastCheck, DataOK
  <2> QED
    BY <1>3, <1>12, <2>3, <2>4, <2>5 DEF RevokeWrite, DataOK, Inv1
<1>13. ASSUME RevokePurge(r) PROVE Inv1'
  <2>1. TxOK' /\ Shaped'
    BY <1>1, <1>3, <1>13, ToIdle DEF RevokePurge
  <2>2. stock' \subseteq stock /\ answered' \in SUBSET Devices
    BY <1>1, <1>3, <1>13 DEF RevokePurge, Purged, RequestShape, DataOK
  <2> QED
    BY <1>3, <1>13, <2>1, <2>2 DEF RevokePurge, DataOK, Inv1
<1>14. ASSUME PublishWrite(r) PROVE Inv1'
  <2>1. TxOK' /\ Shaped'
    BY <1>1, <1>3, <1>14, ToIdle DEF PublishWrite
  <2>2. packed' \in 0..MaxPackages /\ packed + 1 \in 1..MaxPackages
    BY <1>3, <1>14 DEF PublishWrite, DataOK
  <2>3. stock' \in SUBSET Packages /\ stray' \in SUBSET Packages
    <3>1. tx[r].device \in Devices
      BY <1>1, <1>14 DEF PublishWrite, RequestShape
    <3> QED
      BY <1>3, <1>14, <2>2, <3>1 DEF PublishWrite, DataOK, Packages
  <2> QED
    BY <1>3, <1>14, <2>1, <2>2, <2>3 DEF PublishWrite, DataOK, Inv1
<1>15. ASSUME ClaimTake(r) PROVE Inv1'
  <2>1. TxOK' /\ Shaped'
    BY <1>1, <1>3, <1>15, ToIdle DEF ClaimTake
  <2>2. /\ stock' \subseteq stock /\ handed' \in SUBSET [package : Packages, to : Requests]
        /\ overlaps' \in SUBSET Requests
    BY <1>1, <1>3, <1>15 DEF ClaimTake, DataOK, Without, StockOf, Tx
  <2> QED
    BY <1>3, <1>15, <2>1, <2>2 DEF ClaimTake, DataOK, Inv1
<1> QED
  BY <1>4, <1>5, <1>6, <1>7, <1>8, <1>9, <1>10, <1>11, <1>12, <1>13, <1>14, <1>15
     DEF Request

LEMMA AbortTypes ==
  ASSUME Inv1, NEW r \in Handlers, Abort(r)
  PROVE  Inv1'
<1>1. TxOK' /\ Shaped'
  BY ToIdle DEF Inv1, Abort
<1>2. made' \in Keys /\ raced' \subseteq Accounts
  BY DEF Inv1, DataOK, Abort
<1> QED
  BY <1>1, <1>2, DataStep DEF Inv1, Abort

LEMMA BackfillTypes ==
  ASSUME Inv1, NEW i \in Instances, BackfillList(i) \/ BackfillAppend(i) \/ BackfillCommit(i)
  PROVE  Inv1'
<1> USE KeyLogAssumption, AccountsAssumption
<1>1. i \in Handlers /\ i \notin Requests /\ tx[i] \in Tx /\ FillShape(tx[i])
  BY DEF Handlers, Inv1, TxOK, Shaped
<1>2. TxOK /\ DataOK /\ Shaped
  BY DEF Inv1
<1>3. CASE BackfillList(i)
  <2> DEFINE T == {<<a, key[a]>> : a \in {b \in Accounts : key[b] # NoKey /\ RowsOf(b) = {}}}
             v == [Idle EXCEPT !.pc = "listed", !.todo = T]
  <2>1. T \in SUBSET (Accounts \X Keys) /\ \A p, q \in T : p[1] = q[1] => p = q
    BY <1>2 DEF DataOK, Key0, Keys, NoKey
  <2>2. v \in Tx /\ v.pc = "listed" /\ v.todo = T /\ v.rows = {}
    <3> HIDE DEF T
    <3> QED
      BY <2>1, IdleShape DEF Idle, Tx
  <2>3. To(i, v)
    BY <1>3 DEF BackfillList
  <2> HIDE DEF T, v
  <2>4. FillShape(v) /\ MayHold(i, v)
    BY <1>1, <2>1, <2>2 DEF FillShape, MayHold
  <2>5. TxOK' /\ Shaped'
    BY <1>1, <1>2, <2>2, <2>3, <2>4, TxStep
  <2> QED
    BY <1>2, <1>3, <2>5, DataStep DEF BackfillList, Inv1, DataOK
<1>4. CASE BackfillAppend(i)
  <2>0. /\ seq < MaxRows /\ seq' = seq + 1
        /\ UNCHANGED <<key, table, made, devices, raced, late>>
    BY <1>4, Zenon DEF BackfillAppend
  <2>1. PICK p \in tx[i].todo :
          To(i, [tx[i] EXCEPT !.pc = "appended", !.todo = @ \ {p},
                              !.rows = @ \cup {[seq |-> seq + 1, account |-> p[1],
                                                key |-> p[2], by |-> NoKey]}])
    BY <1>4 DEF BackfillAppend
  <2> DEFINE row == [seq |-> seq + 1, account |-> p[1], key |-> p[2], by |-> NoKey]
             v == [tx[i] EXCEPT !.pc = "appended", !.todo = @ \ {p}, !.rows = @ \cup {row}]
  <2>2. seq + 1 \in 1..MaxRows
    BY <1>2, <2>0 DEF DataOK
  <2>3. p[1] \in Accounts /\ p[2] \in Keys
    BY <1>1 DEF Tx
  <2>4. row \in Row /\ row.account = p[1] /\ row.by = NoKey
    BY <2>2, <2>3 DEF Row, NoKey, Key0
  <2>5. v \in Tx /\ v.pc = "appended" /\ v.todo = tx[i].todo \ {p} /\ v.rows = tx[i].rows \cup {row}
    <3> HIDE DEF row
    <3>1. tx[i].rows \cup {row} \in Tree /\ tx[i].todo \ {p} \in SUBSET (Accounts \X Keys)
      BY <1>1, <2>4 DEF Tree, Tx
    <3> QED
      BY <1>1, <3>1 DEF Tx
  <2>6. To(i, v)
    BY <2>1
  <2> HIDE DEF v, row
  <2>7. FillShape(v)
    BY <1>1, <2>4, <2>5 DEF FillShape
  <2>8. MayHold(i, v)
    BY <1>1, <1>4 DEF MayHold, BackfillAppend
  <2>9. TxOK' /\ Shaped'
    BY <1>1, <1>2, <2>5, <2>6, <2>7, <2>8, TxStep
  <2> QED
    BY <1>2, <2>0, <2>2, <2>9 DEF Inv1, DataOK, devices
<1>5. CASE BackfillCommit(i)
  <2> DEFINE v == [Idle EXCEPT !.pc = "up"]
  <2>1. v \in Tx /\ v.pc = "up" /\ v.todo = {} /\ v.rows = {}
    BY IdleShape DEF Idle, Tx
  <2>2. FillShape(v) /\ MayHold(i, v) /\ To(i, v)
    BY <1>1, <1>5, <2>1 DEF FillShape, MayHold, BackfillCommit
  <2> HIDE DEF v
  <2>3. TxOK' /\ Shaped'
    BY <1>1, <1>2, <2>1, <2>2, TxStep
  <2>4. table' \in Tree
    BY <1>1, <1>2, <1>5 DEF BackfillCommit, DataOK, Tree, Tx
  <2> QED
    BY <1>2, <1>5, <2>3, <2>4 DEF BackfillCommit, Inv1, DataOK, devices
<1> QED
  BY <1>3, <1>4, <1>5

LEMMA Inv1Step == Inv1 /\ [Next]_vars => Inv1'
<1> SUFFICES ASSUME Inv1, [Next]_vars PROVE Inv1'
  OBVIOUS
<1>1. CASE UNCHANGED vars
  BY <1>1 DEF vars, Inv1, TxOK, DataOK, Shaped, Appending, HasRow
<1>2. CASE Next
  BY <1>2, RequestTypes, AbortTypes, BackfillTypes DEF Next
<1> QED
  BY <1>1, <1>2

(* Every variable keeps its type, and the locks of accounts and of the log *)
(* have one holder at most, however many requests there are.               *)
THEOREM TypeCorrect == Spec => []TypeOK
<1>1. Spec => []Inv1
  BY Inv1Init, Inv1Step, PTL DEF Spec
<1> QED
  BY <1>1, Inv1Type, PTL

----------------------------------------------------------------------------
(* The log.                                                                *)

\* What is about to be committed comes after what has been, and below the sequence.
Ordered ==
  /\ \A e \in table : e.seq <= seq
  /\ \A r \in Handlers : \A e \in tx[r].rows : e.seq <= seq /\ \A f \in table : f.seq < e.seq

\* An account a back-fill has read still has the key it had, or has entered the log since.
Current ==
  \A i \in Instances :
    /\ \A p \in tx[i].todo : RowsOf(p[1]) = {} => p[2] = key[p[1]]
    /\ \A e \in tx[i].rows : RowsOf(e.account) = {} => e.key = key[e.account]

Inv2 == Inv1 /\ Ordered /\ Current

\* A step that appends nothing, commits nothing and lists nothing.
Aside ==
  /\ UNCHANGED <<key, table, seq>>
  /\ \A r \in Handlers : tx'[r].rows \subseteq tx[r].rows /\ tx'[r].todo \subseteq tx[r].todo

LEMMA AsideStep ==
  ASSUME Inv2, Aside
  PROVE  Ordered' /\ Current'
<1>1. Ordered'
  BY DEF Inv2, Ordered, Aside
<1>2. Current'
  BY DEF Inv2, Current, Aside, RowsOf, Handlers
<1> QED
  BY <1>1, <1>2

LEMMA IdleAside ==
  ASSUME TxOK, NEW r \in Handlers, NEW v, v.rows \subseteq tx[r].rows, v.todo \subseteq tx[r].todo,
         To(r, v), UNCHANGED <<key, table, seq>>
  PROVE  Aside
BY DEF TxOK, To, Aside

LEMMA RequestAside ==
  ASSUME Inv1, NEW r \in Requests, Request(r), ~AppendRow(r), ~Commit(r)
  PROVE  Aside
<1>1. r \in Handlers /\ TxOK /\ tx[r] \in Tx
  BY DEF Inv1, TxOK, Handlers
<1>2. ASSUME NEW d \in Devices, RotateBegin(r, d) PROVE Aside
  <2> DEFINE v == [Idle EXCEPT !.pc = "verified", !.account = Owner[d], !.device = d,
                               !.key = made + 1, !.by = Signer(Owner[d])]
  <2>1. v.rows = {} /\ v.todo = {}
    BY DEF Idle
  <2> QED
    BY <1>1, <1>2, <2>1, IdleAside DEF RotateBegin
<1>3. CASE RotateUpdate(r)
  <2>1. /\ [tx[r] EXCEPT !.pc = "updated"].rows = tx[r].rows
        /\ [tx[r] EXCEPT !.pc = "updated"].todo = tx[r].todo
    BY <1>1 DEF Tx
  <2> QED
    BY <1>1, <1>3, <2>1, IdleAside DEF RotateUpdate
<1>4. ASSUME NEW a \in Accounts, Create(r, a) PROVE Aside
  <2> DEFINE v == [Idle EXCEPT !.pc = "updated", !.account = a, !.key = 1]
  <2>1. v.rows = {} /\ v.todo = {}
    BY DEF Idle
  <2> QED
    BY <1>1, <1>4, <2>1, IdleAside DEF Create
<1>5. ASSUME NEW d \in Devices, NEW pc, NEW by, UNCHANGED <<key, table, seq>>,
             \/ To(r, [Idle EXCEPT !.pc = pc, !.device = d, !.by = by])
             \/ To(r, [Idle EXCEPT !.pc = pc, !.device = d])
      PROVE  Aside
  <2> DEFINE v == [Idle EXCEPT !.pc = pc, !.device = d, !.by = by]
             w == [Idle EXCEPT !.pc = pc, !.device = d]
  <2>1. v.rows = {} /\ v.todo = {} /\ w.rows = {} /\ w.todo = {}
    BY DEF Idle
  <2> QED
    BY <1>1, <1>5, <2>1, IdleAside
<1>6. CASE RevokeWrite(r)
  <2>1. /\ [tx[r] EXCEPT !.pc = "purging"].rows = tx[r].rows
        /\ [tx[r] EXCEPT !.pc = "purging"].todo = tx[r].todo
    BY <1>1 DEF Tx
  <2> QED
    BY <1>1, <1>6, <2>1, IdleAside DEF RevokeWrite
<1>7. ASSUME Done(r), UNCHANGED <<key, table, seq>> PROVE Aside
  <2>1. Idle.rows = {} /\ Idle.todo = {}
    BY DEF Idle
  <2> QED
    BY <1>1, <1>7, <2>1, IdleAside DEF Done
<1>8. CASE RegisterWrite(r) \/ RevokePurge(r) \/ PublishWrite(r) \/ ClaimTake(r)
  BY <1>7, <1>8 DEF RegisterWrite, RevokePurge, PublishWrite, ClaimTake
<1>9. ASSUME NEW d \in Devices,
              RegisterBegin(r, d) \/ RevokeBegin(r, d) \/ PublishBegin(r, d) \/ ClaimBegin(r, d)
       PROVE  Aside
  BY <1>5, <1>9 DEF RegisterBegin, RevokeBegin, PublishBegin, ClaimBegin
<1> QED
  BY <1>2, <1>3, <1>4, <1>6, <1>8, <1>9 DEF Request

\* The row a request puts into the log, and what else its commit changes.
LEMMA Committed ==
  ASSUME Inv1, NEW r \in Requests, Commit(r)
  PROVE  /\ tx[r].account \in Accounts /\ tx[r].key \in Keys
         /\ \E n \in 1..MaxRows :
              LET row == [seq |-> n, account |-> tx[r].account, key |-> tx[r].key, by |-> tx[r].by]
              IN  tx[r].rows = {row} /\ table' = table \cup {row} /\ row \in Row
         /\ key' = [key EXCEPT ![tx[r].account] = tx[r].key]
         /\ tx'[r] = Idle
         /\ \A q \in Handlers : q # r => tx'[q] = tx[q] /\ tx[q].rows = {}
<1>1. r \in Handlers /\ tx[r] \in Tx /\ RequestShape(tx[r]) /\ tx[r].pc = "appended"
  BY DEF Inv1, TxOK, Shaped, Handlers, Commit, Appending
<1>2. tx'[r] = Idle /\ \A q \in Handlers : q # r => tx'[q] = tx[q]
  BY <1>1 DEF Inv1, TxOK, Commit, Done, To
<1>3. \A q \in Handlers : q # r => tx[q].rows = {}
  BY <1>1 DEF Inv1, TxOK, Shaped, Handlers, Appending, RequestShape, FillShape
<1>4. tx[r].account \in Accounts /\ tx[r].key \in Keys /\ tx[r].by \in Key0
  BY <1>1 DEF RequestShape, Changing, Tx
<1>5. PICK n \in 1..MaxRows :
        tx[r].rows = {[seq |-> n, account |-> tx[r].account, key |-> tx[r].key, by |-> tx[r].by]}
  BY <1>1 DEF RequestShape
<1>6. [seq |-> n, account |-> tx[r].account, key |-> tx[r].key, by |-> tx[r].by] \in Row
  BY <1>4 DEF Row
<1> QED
  BY <1>2, <1>3, <1>4, <1>5, <1>6 DEF Commit, Logged

LEMMA Inv2Init == Init => Inv2
<1> SUFFICES ASSUME Init PROVE Inv2
  OBVIOUS
<1>1. \A r \in Handlers : tx[r].rows = {} /\ tx[r].todo = {}
  BY DEF Init, Idle
<1> QED
  BY <1>1, Inv1Init DEF Init, LogInit, Inv2, Ordered, Current, Handlers

LEMMA CommitLog ==
  ASSUME Inv2, NEW r \in Requests, Commit(r)
  PROVE  Ordered' /\ Current'
<1> DEFINE a == tx[r].account  k == tx[r].key
<1>1. PICK n \in 1..MaxRows :
        LET row == [seq |-> n, account |-> a, key |-> k, by |-> tx[r].by]
        IN  tx[r].rows = {row} /\ table' = table \cup {row} /\ row \in Row
  BY Committed DEF Inv2
<1> DEFINE row == [seq |-> n, account |-> a, key |-> k, by |-> tx[r].by]
<1>2. /\ a \in Accounts /\ key' = [key EXCEPT ![a] = k] /\ tx'[r].rows = {} /\ tx'[r].todo = {}
      /\ \A q \in Handlers : q # r => tx'[q] = tx[q] /\ tx[q].rows = {}
  BY Committed DEF Inv2, Idle
<1>3. row.account = a /\ row.seq = n /\ row.key = k
  OBVIOUS
<1>4. seq' = seq /\ row.seq <= seq
  BY <1>1 DEF Inv2, Ordered, Commit, Handlers
<1> HIDE DEF a, k, row
<1>5. table' = table \cup {row}
  BY <1>1 DEF row
<1>6. Ordered'
  <2>1. \A e \in table' : e.seq <= seq'
    BY <1>4, <1>5 DEF Inv2, Ordered
  <2>2. \A q \in Handlers : tx'[q].rows = {}
    BY <1>2
  <2> QED
    BY <2>1, <2>2 DEF Ordered
<1>7. Current'
  <2> SUFFICES ASSUME NEW i \in Instances, NEW p \in tx'[i].todo, RowsOf(p[1])' = {}
               PROVE  p[2] = key'[p[1]]
    BY <1>2 DEF Current, Handlers
  <2>1. i # r /\ i \in Handlers
    BY AccountsAssumption DEF Handlers
  <2>2. p \in tx[i].todo /\ tx[i] \in Tx
    BY <1>2, <2>1 DEF Inv2, Inv1, TxOK
  <2>3. RowsOf(p[1]) = {} /\ p[1] # a
    BY <1>3, <1>5 DEF RowsOf
  <2>4. p[1] \in Accounts /\ key \in [Accounts -> Key0]
    BY <2>2 DEF Tx, Inv2, Inv1, DataOK
  <2> QED
    BY <1>2, <2>2, <2>3, <2>4 DEF Inv2, Current
<1> QED
  BY <1>6, <1>7

LEMMA RequestLog ==
  ASSUME Inv2, NEW r \in Requests, Request(r)
  PROVE  Ordered' /\ Current'
<1>1. CASE Commit(r)
  BY <1>1, CommitLog
<1>2. CASE AppendRow(r)
  <2> DEFINE row == [seq |-> seq + 1, account |-> tx[r].account, key |-> tx[r].key, by |-> tx[r].by]
  <2>1. /\ r \in Handlers /\ r \notin Instances /\ seq' = seq + 1 /\ table' = table /\ key' = key
        /\ tx'[r].rows = {row}
        /\ \A q \in Handlers : q # r => tx'[q] = tx[q]
    BY <1>2, AccountsAssumption DEF AppendRow, Inv2, Inv1, TxOK, To, Handlers, Tx
  <2>2. row.seq = seq + 1
    OBVIOUS
  <2> HIDE DEF row
  <2>3. seq \in Nat /\ table \in Tree
    BY KeyLogAssumption DEF Inv2, Inv1, DataOK
  <2>4. \A q \in Handlers : q # r => tx[q].rows = {}
    BY <1>2 DEF AppendRow, LogFree, Appending, Inv2, Inv1, Shaped, RequestShape, FillShape, Handlers
  <2>5. Ordered'
    BY <2>1, <2>2, <2>3, <2>4 DEF Inv2, Ordered, Tree, Row
  <2>6. Current'
    BY <2>1 DEF Inv2, Current, RowsOf, Handlers
  <2> QED
    BY <2>5, <2>6
<1>3. CASE ~AppendRow(r) /\ ~Commit(r)
  BY <1>3, RequestAside, AsideStep DEF Inv2
<1> QED
  BY <1>1, <1>2, <1>3

LEMMA AbortLog ==
  ASSUME Inv2, NEW r \in Handlers, Abort(r)
  PROVE  Ordered' /\ Current'
<1>1. Idle.rows = {} /\ Idle.todo = {}
  BY DEF Idle
<1>2. Aside
  BY <1>1, IdleAside DEF Abort, Done, Inv2, Inv1
<1> QED
  BY <1>2, AsideStep

LEMMA BackfillLog ==
  ASSUME Inv2, NEW i \in Instances, BackfillList(i) \/ BackfillAppend(i) \/ BackfillCommit(i)
  PROVE  Ordered' /\ Current'
<1>1. /\ i \in Handlers /\ tx[i] \in Tx /\ FillShape(tx[i]) /\ TxOK
      /\ seq \in Nat /\ table \in Tree /\ key \in [Accounts -> Key0]
  BY KeyLogAssumption DEF Handlers, Inv2, Inv1, TxOK, DataOK, Shaped
<1>2. CASE BackfillList(i)
  <2> DEFINE T == {<<a, key[a]>> : a \in {b \in Accounts : key[b] # NoKey /\ RowsOf(b) = {}}}
             v == [Idle EXCEPT !.pc = "listed", !.todo = T]
  <2>1. v.rows = {} /\ v.todo = T
    BY DEF Idle
  <2>2. To(i, v) /\ UNCHANGED <<key, table, seq>>
    BY <1>2 DEF BackfillList
  <2>3. \A p \in T : p[2] = key[p[1]]
    OBVIOUS
  <2> HIDE DEF v, T
  <2>4. tx'[i] = v /\ \A q \in Handlers : q # i => tx'[q] = tx[q]
    BY <1>1, <2>2 DEF TxOK, To
  <2>5. Ordered'
    BY <2>1, <2>2, <2>4 DEF Inv2, Ordered
  <2>6. Current'
    BY <2>1, <2>2, <2>3, <2>4 DEF Inv2, Current, RowsOf, Handlers
  <2> QED
    BY <2>5, <2>6
<1>3. CASE BackfillAppend(i)
  <2>1. /\ seq' = seq + 1 /\ UNCHANGED <<key, table>> /\ LogFree(i)
    BY <1>3, Zenon DEF BackfillAppend
  <2>2. PICK p \in tx[i].todo :
          To(i, [tx[i] EXCEPT !.pc = "appended", !.todo = @ \ {p},
                              !.rows = @ \cup {[seq |-> seq + 1, account |-> p[1],
                                                key |-> p[2], by |-> NoKey]}])
    BY <1>3 DEF BackfillAppend
  <2> DEFINE row == [seq |-> seq + 1, account |-> p[1], key |-> p[2], by |-> NoKey]
  <2>3. row.seq = seq + 1 /\ row.account = p[1] /\ row.key = p[2]
    OBVIOUS
  <2>4. /\ tx'[i].rows = tx[i].rows \cup {row} /\ tx'[i].todo = tx[i].todo \ {p}
        /\ \A q \in Handlers : q # i => tx'[q] = tx[q]
    BY <1>1, <2>2 DEF TxOK, To, Tx
  <2> HIDE DEF row
  <2>5. \A q \in Handlers : q # i => tx[q].rows = {}
    BY <2>1 DEF LogFree, Appending, Inv2, Inv1, Shaped, RequestShape, FillShape, Handlers
  <2>6. Ordered'
    <3>1. \A e \in table : e.seq \in Nat
      BY <1>1 DEF Tree, Row
    <3>2. \A e \in tx[i].rows : e.seq \in Nat
      BY <1>1 DEF Tx, Tree, Row
    <3>3. \A e \in tx'[i].rows : e.seq <= seq + 1 /\ \A f \in table : f.seq < e.seq
      BY <1>1, <2>3, <2>4, <3>1, <3>2 DEF Inv2, Ordered
    <3>4. \A e \in table : e.seq <= seq + 1
      BY <1>1, <3>1 DEF Inv2, Ordered
    <3> QED
      BY <2>1, <2>4, <2>5, <3>3, <3>4 DEF Ordered
  <2>7. Current'
    BY <1>1, <2>1, <2>3, <2>4 DEF Inv2, Current, RowsOf, Handlers
  <2> QED
    BY <2>6, <2>7
<1>4. CASE BackfillCommit(i)
  <2>1. tx'[i].rows = {} /\ tx'[i].todo = {} /\ \A q \in Handlers : q # i => tx'[q] = tx[q]
    BY <1>1, <1>4 DEF BackfillCommit, TxOK, To, Idle
  <2>2. table' = table \cup tx[i].rows /\ seq' = seq /\ key' = key
    BY <1>4 DEF BackfillCommit
  <2>3. \A q \in Handlers : q # i /\ tx[i].rows # {} => tx[q].rows = {}
    BY <1>1 DEF TxOK, Appending, Inv2, Inv1, Shaped, RequestShape, FillShape, Handlers
  <2>4. Ordered'
    BY <1>1, <2>1, <2>2, <2>3 DEF Inv2, Ordered
  <2>5. Current'
    BY <2>1, <2>2 DEF Inv2, Current, RowsOf, Handlers
  <2> QED
    BY <2>4, <2>5
<1> QED
  BY <1>2, <1>3, <1>4

LEMMA Inv2Step == Inv2 /\ [Next]_vars => Inv2'
<1> SUFFICES ASSUME Inv2, [Next]_vars PROVE Inv2'
  OBVIOUS
<1>1. Inv1'
  BY Inv1Step DEF Inv2
<1>2. CASE UNCHANGED vars
  BY <1>1, <1>2 DEF vars, Inv2, Ordered, Current, RowsOf
<1>3. CASE Next
  BY <1>1, <1>3, RequestLog, AbortLog, BackfillLog DEF Next, Inv2
<1> QED
  BY <1>2, <1>3

\* A commit publishes one row, after all there are.
LEMMA CommitPublishes ==
  ASSUME Inv2, NEW r \in Requests, Commit(r)
  PROVE  \E row \in table' \ table : Publish(row)
<1>1. PICK n \in 1..MaxRows :
        LET row == [seq |-> n, account |-> tx[r].account, key |-> tx[r].key, by |-> tx[r].by]
        IN  tx[r].rows = {row} /\ table' = table \cup {row} /\ row \in Row
  BY Committed DEF Inv2
<1> DEFINE row == [seq |-> n, account |-> tx[r].account, key |-> tx[r].key, by |-> tx[r].by]
<1>2. row.account = tx[r].account /\ row.key = tx[r].key
  OBVIOUS
<1> HIDE DEF row
<1>3. tx[r].rows = {row} /\ table' = table \cup {row} /\ row \in Row
  BY <1>1 DEF row
<1>4. \A f \in table : f.seq < row.seq /\ f.seq \in Nat
  BY <1>3 DEF Inv2, Inv1, DataOK, Ordered, Handlers, Tree, Row
<1>5. row \notin table
  BY <1>4
<1>6. Extends(table, table \cup {row})
  BY <1>4 DEF Extends
<1>7. key' = [key EXCEPT ![row.account] = row.key]
  BY <1>2, Committed DEF Inv2
<1> QED
  BY <1>3, <1>5, <1>6, <1>7 DEF Publish

\* So does a back-fill, for accounts whose keys it does not change.
LEMMA BackfillCatchesUp ==
  ASSUME Inv2, NEW i \in Instances, BackfillCommit(i)
  PROVE  CatchUp(table' \ table)
<1>1. i \in Handlers /\ FillShape(tx[i]) /\ tx[i] \in Tx /\ table \in Tree
  BY DEF Inv2, Inv1, Shaped, TxOK, DataOK, Handlers
<1>2. table' = table \cup tx[i].rows /\ key' = key
  BY DEF BackfillCommit
<1>3. \A e \in tx[i].rows, f \in table : f.seq < e.seq
  BY <1>1 DEF Inv2, Ordered
<1>4. Extends(table, table \cup (table' \ table))
  BY <1>2, <1>3 DEF Extends
<1>5. \A e \in table' \ table : e.by = NoKey /\ (RowsOf(e.account) = {} => e.key = key[e.account])
  BY <1>1, <1>2 DEF FillShape, Inv2, Current
<1> QED
  BY <1>2, <1>4, <1>5 DEF CatchUp

\* Nothing else shows.
LEMMA LogStep == Inv2 /\ [Next]_vars => [LogNext]_<<key, table>>
<1> SUFFICES ASSUME Inv2, [Next]_vars PROVE [LogNext]_<<key, table>>
  OBVIOUS
<1>1. CASE UNCHANGED vars
  BY <1>1 DEF vars
<1>2. ASSUME NEW r \in Requests, Request(r) PROVE [LogNext]_<<key, table>>
  <2>1. CASE Commit(r)
    BY <2>1, CommitPublishes DEF LogNext
  <2>2. CASE AppendRow(r)
    BY <2>2 DEF AppendRow
  <2>3. CASE ~AppendRow(r) /\ ~Commit(r)
    BY <1>2, <2>3, RequestAside DEF Inv2, Aside
  <2> QED
    BY <2>1, <2>2, <2>3
<1>3. ASSUME NEW r \in Handlers, Abort(r) PROVE [LogNext]_<<key, table>>
  BY <1>3 DEF Abort
<1>4. ASSUME NEW i \in Instances, BackfillList(i) \/ BackfillAppend(i) \/ BackfillCommit(i)
      PROVE  [LogNext]_<<key, table>>
  <2>1. CASE BackfillCommit(i)
    BY <2>1, BackfillCatchesUp DEF LogNext
  <2>2. CASE BackfillList(i) \/ BackfillAppend(i)
    BY <2>2 DEF BackfillList, BackfillAppend
  <2> QED
    BY <1>4, <2>1, <2>2
<1> QED
  BY <1>1, <1>2, <1>3, <1>4 DEF Next

LEMMA Inv2Always == Spec => []Inv2
BY Inv2Init, Inv2Step, PTL DEF Spec

(* The transactions, their locks and their sequence implement the log that *)
(* KeyLog promises: whatever overlaps or is rolled back, a key comes into  *)
(* force with its entry, and after every entry one could have read.        *)
THEOREM LogImplemented == Spec => ImplementsLog
<1>1. Init => LogInit
  BY DEF Init
<1> QED
  BY <1>1, LogStep, Inv2Always, PTL DEF Spec, ImplementsLog, LogSpec

----------------------------------------------------------------------------
(* The chain of keys of an account.                                        *)

\* Who has devices, or rotates, has a key already.
Known ==
  /\ \A d \in Devices : Registered(d) => key[Owner[d]] # NoKey
  /\ \A r \in Requests : tx[r].pc = "attesting" => key[Owner[tx[r].device]] # NoKey
  /\ \A r \in Requests : tx[r].pc = "verified" => key[tx[r].account] # NoKey

\* Where rotations do not overlap, one request at most is changing the account, and the key it
\* signed with is still the account's.
Linked ==
  \A r \in Requests : tx[r].pc \in Changing /\ tx[r].account \notin raced =>
    /\ tx[r].by = key[tx[r].account]
    /\ \A q \in Requests : tx[q].pc \in Changing /\ tx[q].account = tx[r].account => q = r

Inv3 == Inv2 /\ Known /\ Linked

\* A step in which no key changes and nobody begins what depends on one.
Calm ==
  /\ key' = key /\ raced' = raced
  /\ \A d \in Devices : dev'[d].att = dev[d].att
  /\ \A r \in Requests :
       /\ tx'[r].pc \in Changing =>
            tx[r].pc \in Changing /\ tx'[r].account = tx[r].account /\ tx'[r].by = tx[r].by
       /\ tx'[r].pc = "verified" => tx[r].pc = "verified"
       /\ tx'[r].pc = "attesting" => tx[r].pc = "attesting" /\ tx'[r].device = tx[r].device

LEMMA CalmStep ==
  ASSUME Inv3, Calm
  PROVE  Known' /\ Linked'
<1>1. Known'
  BY DEF Inv3, Known, Calm, Registered, Changing
<1>2. Linked'
  BY DEF Inv3, Linked, Calm
<1> QED
  BY <1>1, <1>2

\* What a request does when it is none of the five that matter here.
LEMMA MoveCalm ==
  ASSUME TxOK, NEW r \in Handlers, NEW v, To(r, v), key' = key, raced' = raced,
         \A d \in Devices : dev'[d].att = dev[d].att,
         \/ v.pc \notin Changing \cup {"attesting"}
         \/ /\ v.pc \in {"updated", "appended"} /\ tx[r].pc \in Changing
            /\ v.account = tx[r].account /\ v.by = tx[r].by
         \/ r \in Instances
  PROVE  Calm
<1>1. tx'[r] = v /\ \A q \in Handlers : q # r => tx'[q] = tx[q]
  BY DEF TxOK, To
<1> QED
  BY <1>1, AccountsAssumption DEF Calm, Changing, Handlers

LEMMA RequestCalm ==
  ASSUME Inv1, NEW r \in Requests, Request(r), ~Commit(r), ~RegisterWrite(r),
         \A a \in Accounts : ~Create(r, a),
         \A d \in Devices : ~RotateBegin(r, d) /\ ~RegisterBegin(r, d)
  PROVE  Calm
<1>1. r \in Handlers /\ TxOK /\ tx[r] \in Tx /\ dev \in [Devices -> Device]
  BY DEF Inv1, TxOK, DataOK, Handlers
<1>2. CASE RotateUpdate(r)
  <2> DEFINE v == [tx[r] EXCEPT !.pc = "updated"]
  <2>1. v.pc = "updated" /\ v.account = tx[r].account /\ v.by = tx[r].by
    BY <1>1 DEF Tx
  <2> QED
    BY <1>1, <1>2, <2>1, MoveCalm DEF RotateUpdate, devices, Changing
<1>3. CASE AppendRow(r)
  <2> DEFINE v == [tx[r] EXCEPT !.pc = "appended",
                      !.rows = {[seq |-> seq + 1, account |-> tx[r].account,
                                 key |-> tx[r].key, by |-> tx[r].by]}]
  <2>1. v.pc = "appended" /\ v.account = tx[r].account /\ v.by = tx[r].by
    BY <1>1 DEF Tx
  <2>2. To(r, v) /\ tx[r].pc = "updated" /\ UNCHANGED <<key, raced, dev>>
    BY <1>3 DEF AppendRow, devices
  <2> HIDE DEF v
  <2> QED
    BY <1>1, <2>1, <2>2, MoveCalm DEF Changing
<1>4. CASE RevokeWrite(r)
  <2>1. [tx[r] EXCEPT !.pc = "purging"].pc = "purging"
    BY <1>1 DEF Tx
  <2>2. \A d \in Devices : dev'[d].att = dev[d].att
    BY <1>1, <1>4 DEF RevokeWrite, Device
  <2> QED
    BY <1>1, <1>4, <2>1, <2>2, MoveCalm DEF RevokeWrite, Changing
<1>5. ASSUME NEW d \in Devices, RevokeBegin(r, d) \/ PublishBegin(r, d) \/ ClaimBegin(r, d) PROVE Calm
  <2>1. ASSUME NEW pc, pc \notin Changing \cup {"attesting"}, UNCHANGED <<key, raced, dev>>,
               To(r, [Idle EXCEPT !.pc = pc, !.device = d])
        PROVE  Calm
    <3>1. [Idle EXCEPT !.pc = pc, !.device = d].pc = pc
      BY DEF Idle
    <3> QED
      BY <1>1, <2>1, <3>1, MoveCalm
  <2>2. "revoking" \notin Changing \cup {"attesting"} /\ "publishing" \notin Changing \cup {"attesting"}
        /\ "claiming" \notin Changing \cup {"attesting"}
    BY DEF Changing
  <2> QED
    BY <1>5, <2>1, <2>2 DEF RevokeBegin, PublishBegin, ClaimBegin, devices
<1>6. CASE RevokePurge(r) \/ PublishWrite(r) \/ ClaimTake(r)
  <2>1. Idle.pc \notin Changing \cup {"attesting"}
    BY DEF Idle, Changing
  <2> QED
    BY <1>1, <1>6, <2>1, MoveCalm DEF RevokePurge, PublishWrite, ClaimTake, Done
<1> QED
  BY <1>2, <1>3, <1>4, <1>5, <1>6 DEF Request

LEMMA RequestChain ==
  ASSUME Inv3, NEW r \in Requests, Request(r)
  PROVE  Known' /\ Linked'
<1>1. /\ r \in Handlers /\ tx[r] \in Tx /\ RequestShape(tx[r])
      /\ TxOK /\ DataOK /\ Shaped /\ Inv1 /\ Known /\ Linked
  BY DEF Inv3, Inv2, Inv1, TxOK, Shaped, Handlers
<1>2. ASSUME NEW v, To(r, v)
      PROVE  tx'[r] = v /\ \A q \in Requests : q # r => tx'[q] = tx[q]
  BY <1>1, <1>2 DEF TxOK, To, Handlers
<1>3. CASE Commit(r)
  <2>1. /\ tx[r].account \in Accounts /\ tx[r].key # NoKey
        /\ key' = [key EXCEPT ![tx[r].account] = tx[r].key] /\ tx'[r] = Idle
        /\ \A q \in Requests : q # r => tx'[q] = tx[q]
    BY <1>1, <1>3, Committed DEF Keys, NoKey, Handlers
  <2>2. UNCHANGED <<dev, raced>> /\ tx[r].pc \in Changing /\ Idle.pc = "idle"
    BY <1>3 DEF Commit, Appending, Changing, Idle
  <2>3. key \in [Accounts -> Key0]
    BY <1>1 DEF DataOK
  <2>4. \A a \in Accounts : key[a] # NoKey => key'[a] # NoKey
    BY <2>1, <2>3
  <2>5. Known'
    <3>1. \A d \in Devices : Registered(d)' => key'[Owner[d]] # NoKey
      BY <1>1, <2>2, <2>4, AccountsAssumption DEF Known, Registered
    <3>2. ASSUME NEW q \in Requests, tx'[q].pc = "attesting" PROVE key'[Owner[tx'[q].device]] # NoKey
      <4>1. q # r /\ tx'[q] = tx[q] /\ tx[q].device \in Devices
        BY <1>1, <2>1, <2>2, <3>2 DEF Shaped, RequestShape
      <4> QED
        BY <1>1, <2>4, <3>2, <4>1, AccountsAssumption DEF Known
    <3>3. ASSUME NEW q \in Requests, tx'[q].pc = "verified" PROVE key'[tx'[q].account] # NoKey
      <4>1. q # r /\ tx'[q] = tx[q] /\ tx[q].account \in Accounts
        BY <1>1, <2>1, <2>2, <3>3 DEF Shaped, RequestShape, Changing
      <4> QED
        BY <1>1, <2>4, <3>3, <4>1 DEF Known
    <3> QED
      BY <3>1, <3>2, <3>3 DEF Known
  <2>6. Linked'
    <3> SUFFICES ASSUME NEW q \in Requests, tx'[q].pc \in Changing, tx'[q].account \notin raced
                 PROVE  /\ tx'[q].by = key'[tx'[q].account]
                        /\ \A p \in Requests : tx'[p].pc \in Changing
                             /\ tx'[p].account = tx'[q].account => p = q
      BY <2>2 DEF Linked
    <3>1. q # r /\ tx'[q] = tx[q] /\ tx[q].account \in Accounts
      BY <1>1, <2>1, <2>2 DEF Shaped, RequestShape, Changing
    <3>2. tx[q].account # tx[r].account
      BY <1>1, <2>2, <3>1 DEF Linked
    <3>3. \A p \in Requests : tx'[p].pc \in Changing => p # r
      BY <2>1, <2>2 DEF Changing
    <3> QED
      BY <1>1, <2>1, <2>3, <3>1, <3>2, <3>3 DEF Linked
  <2> QED
    BY <2>5, <2>6
<1>4. ASSUME NEW d \in Devices, RotateBegin(r, d) PROVE Known' /\ Linked'
  <2> DEFINE v == [Idle EXCEPT !.pc = "verified", !.account = Owner[d], !.device = d,
                               !.key = made + 1, !.by = Signer(Owner[d])]
  <2>1. v.pc = "verified" /\ v.account = Owner[d] /\ v.by = key[Owner[d]]
    BY DEF Idle, Signer
  <2>2. To(r, v) /\ key' = key /\ dev' = dev /\ tx[r].pc = "idle" /\ Registered(d)
        /\ raced' = IF Rotating(Owner[d]) THEN raced \cup {Owner[d]} ELSE raced
    BY <1>4 DEF RotateBegin, devices, Serves
  <2> HIDE DEF v
  <2>3. tx'[r] = v /\ \A q \in Requests : q # r => tx'[q] = tx[q]
    BY <1>2, <2>2
  <2>4. Known'
    BY <1>1, <2>1, <2>2, <2>3 DEF Known, Registered
  <2>5. Linked'
    BY <1>1, <2>1, <2>2, <2>3 DEF Linked, Rotating, Changing
  <2> QED
    BY <2>4, <2>5
<1>5. ASSUME NEW a \in Accounts, Create(r, a) PROVE Known' /\ Linked'
  <2> DEFINE v == [Idle EXCEPT !.pc = "updated", !.account = a, !.key = 1]
  <2>1. v.pc = "updated" /\ v.account = a /\ v.by = NoKey
    BY DEF Idle
  <2>2. To(r, v) /\ key' = key /\ dev' = dev /\ raced' = raced /\ key[a] = NoKey /\ ~RowLocked(a)
    BY <1>5 DEF Create, devices
  <2> HIDE DEF v
  <2>3. tx'[r] = v /\ \A q \in Requests : q # r => tx'[q] = tx[q]
    BY <1>2, <2>2
  <2>4. Known'
    BY <1>1, <2>1, <2>2, <2>3 DEF Known, Registered
  <2>5. \A q \in Requests : tx[q].pc \in Changing => tx[q].account # a
    BY <1>1, <2>2 DEF Known, RowLocked, HasRow, Changing
  <2>6. Linked'
    BY <1>1, <2>1, <2>2, <2>3, <2>5 DEF Linked
  <2> QED
    BY <2>4, <2>6
<1>6. ASSUME NEW d \in Devices, RegisterBegin(r, d) PROVE Known' /\ Linked'
  <2> DEFINE v == [Idle EXCEPT !.pc = "attesting", !.device = d, !.by = key[Owner[d]]]
  <2>1. v.pc = "attesting" /\ v.device = d
    BY DEF Idle
  <2>2. To(r, v) /\ UNCHANGED <<key, dev, raced>> /\ key[Owner[d]] # NoKey
    BY <1>6 DEF RegisterBegin, devices
  <2> HIDE DEF v
  <2>3. tx'[r] = v /\ \A q \in Requests : q # r => tx'[q] = tx[q]
    BY <1>2, <2>2
  <2>4. Known'
    BY <1>1, <2>1, <2>2, <2>3 DEF Known, Registered
  <2>5. Linked'
    BY <1>1, <2>1, <2>2, <2>3 DEF Linked, Changing
  <2> QED
    BY <2>4, <2>5
<1>7. CASE RegisterWrite(r)
  <2>1. tx'[r] = Idle /\ (\A q \in Requests : q # r => tx'[q] = tx[q]) /\ Idle.pc = "idle"
    BY <1>2, <1>7 DEF RegisterWrite, Done, Idle
  <2>2. /\ UNCHANGED <<key, raced>> /\ tx[r].pc = "attesting" /\ tx[r].device \in Devices
        /\ \A d \in Devices : d # tx[r].device => dev'[d].att = dev[d].att
    BY <1>1, <1>7 DEF RegisterWrite, RequestShape, DataOK, Device
  <2>3. Known'
    BY <1>1, <2>1, <2>2 DEF Known, Registered
  <2>4. Linked'
    BY <1>1, <2>1, <2>2 DEF Linked, Changing
  <2> QED
    BY <2>3, <2>4
<1> QED
  BY <1>1, <1>3, <1>4, <1>5, <1>6, <1>7, RequestCalm, CalmStep

LEMMA HandlerCalm ==
  ASSUME Inv1, NEW r \in Handlers,
         \/ Abort(r)
         \/ r \in Instances /\ (BackfillList(r) \/ BackfillAppend(r) \/ BackfillCommit(r))
  PROVE  Calm
<1>1. TxOK /\ Idle.pc \notin Changing \cup {"attesting"}
  BY DEF Inv1, Idle, Changing
<1>2. CASE Abort(r)
  BY <1>1, <1>2, MoveCalm DEF Abort, Done, devices
<1>3. CASE r \in Instances /\ BackfillAppend(r)
  <2>1. UNCHANGED <<key, raced, dev>> /\ \E v : To(r, v)
    BY <1>3 DEF BackfillAppend, devices
  <2> QED
    BY <1>1, <1>3, <2>1, MoveCalm
<1>4. CASE r \in Instances /\ (BackfillList(r) \/ BackfillCommit(r))
  <2>1. UNCHANGED <<key, raced, dev>> /\ \E v : To(r, v)
    BY <1>4 DEF BackfillList, BackfillCommit, devices
  <2> QED
    BY <1>1, <1>4, <2>1, MoveCalm
<1> QED
  BY <1>2, <1>3, <1>4

LEMMA Inv3Init == Init => Inv3
<1> SUFFICES ASSUME Init PROVE Inv3
  OBVIOUS
<1>1. \A r \in Requests : tx[r].pc = "idle"
  BY DEF Init, Idle, Handlers
<1>2. Known
  BY <1>1 DEF Known, Init, Registered
<1>3. Linked
  BY <1>1 DEF Linked, Changing
<1> QED
  BY <1>2, <1>3, Inv2Init DEF Inv3

LEMMA Inv3Step == Inv3 /\ [Next]_vars => Inv3'
<1> SUFFICES ASSUME Inv3, [Next]_vars PROVE Inv3'
  OBVIOUS
<1>1. Inv2'
  BY Inv2Step DEF Inv3
<1>2. CASE UNCHANGED vars
  BY <1>1, <1>2 DEF vars, Inv3, Known, Linked, Registered
<1>3. CASE Next
  <2>1. ASSUME NEW r \in Requests, Request(r) PROVE Known' /\ Linked'
    BY <2>1, RequestChain
  <2>2. ASSUME NEW r \in Handlers, Abort(r) PROVE Known' /\ Linked'
    BY <2>2, HandlerCalm, CalmStep DEF Inv3, Inv2
  <2>3. ASSUME NEW i \in Instances, BackfillList(i) \/ BackfillAppend(i) \/ BackfillCommit(i)
        PROVE  Known' /\ Linked'
    BY <2>3, HandlerCalm, CalmStep DEF Inv3, Inv2, Handlers
  <2> QED
    BY <1>1, <1>3, <2>1, <2>2, <2>3 DEF Next, Inv3
<1> QED
  BY <1>2, <1>3

\* What readers see of the log changes by a commit or by a back-fill, and not otherwise.
LEMMA Shows ==
  ASSUME Inv2, [Next]_vars
  PROVE  \/ UNCHANGED <<key, table, raced, late>>
         \/ UNCHANGED <<key, table, late>> /\ raced \subseteq raced'
         \/ \E r \in Requests : Commit(r)
         \/ \E i \in Instances : BackfillCommit(i)
<1>1. CASE UNCHANGED vars
  BY <1>1 DEF vars
<1>2. ASSUME NEW r \in Requests, Request(r), ~Commit(r)
      PROVE  UNCHANGED <<key, table, late>> /\ raced \subseteq raced'
  BY <1>2 DEF Request, RotateBegin, RotateUpdate, Create, AppendRow, RegisterBegin, RegisterWrite,
              RevokeBegin, RevokeWrite, RevokePurge, PublishBegin, PublishWrite, ClaimBegin, ClaimTake
<1>3. ASSUME NEW r \in Handlers, Abort(r) PROVE UNCHANGED <<key, table, raced, late>>
  BY <1>3 DEF Abort
<1>4. ASSUME NEW i \in Instances, BackfillList(i) \/ BackfillAppend(i)
      PROVE  UNCHANGED <<key, table, raced, late>>
  BY <1>4 DEF BackfillList, BackfillAppend
<1> QED
  BY <1>1, <1>2, <1>3, <1>4 DEF Next

\* Where rows are added after all there are, the rows of an account before an old one are the same.
LEMMA OldRows ==
  ASSUME table \in Tree, NEW new \in Tree, table' = table \cup new,
         \A e \in new, f \in table : f.seq < e.seq
  PROVE  \A x : \A e \in RowsOf(x) :
           {f \in RowsOf(x)' : f.seq < e.seq} = {f \in RowsOf(x) : f.seq < e.seq}
<1>1. (\A f \in table : f.seq \in Nat) /\ \A f \in new : f.seq \in Nat
  BY DEF Tree, Row
<1> QED
  BY <1>1 DEF RowsOf

LEMMA KeyStep == Inv3 /\ KeyInForce /\ [Next]_vars => KeyInForce'
<1> SUFFICES ASSUME Inv3, KeyInForce, [Next]_vars PROVE KeyInForce'
  OBVIOUS
<1>1. CASE UNCHANGED <<key, table, late>>
  BY <1>1 DEF KeyInForce, RowsOf, IsLast
<1>2. ASSUME NEW r \in Requests, Commit(r) PROVE KeyInForce'
  <2> DEFINE a == tx[r].account
  <2>1. PICK n \in 1..MaxRows :
          LET row == [seq |-> n, account |-> a, key |-> tx[r].key, by |-> tx[r].by]
          IN  tx[r].rows = {row} /\ table' = table \cup {row} /\ row \in Row
    BY <1>2, Committed DEF Inv3, Inv2
  <2> DEFINE row == [seq |-> n, account |-> a, key |-> tx[r].key, by |-> tx[r].by]
  <2>2. row.account = a /\ row.key = tx[r].key
    OBVIOUS
  <2> HIDE DEF row
  <2>3. tx[r].rows = {row} /\ table' = table \cup {row} /\ row \in Row
    BY <2>1 DEF row
  <2>4. \A f \in table : f.seq < row.seq /\ f.seq \in Nat
    BY <2>3 DEF Inv3, Inv2, Inv1, DataOK, Ordered, Handlers, Tree, Row
  <2>5. a \in Accounts /\ key' = [key EXCEPT ![a] = tx[r].key] /\ late' = late
    BY <1>2, Committed DEF Inv3, Inv2, Commit
  <2>6. key \in [Accounts -> Key0] /\ row.seq \in Nat
    BY <2>3 DEF Inv3, Inv2, Inv1, DataOK, Row
  <2> SUFFICES ASSUME NEW x \in Accounts \ late
               PROVE  IF RowsOf(x)' = {} THEN key'[x] = NoKey \/ x \in Legacy
                      ELSE \A e \in RowsOf(x)' : IsLast(e, RowsOf(x)') => e.key = key'[x]
    BY <2>5 DEF KeyInForce, IsLast
  <2>7. CASE x = a
    <3>1. row \in RowsOf(x)'
      BY <2>2, <2>3, <2>7 DEF RowsOf
    <3>2. \A e \in RowsOf(x)' : IsLast(e, RowsOf(x)') => e = row
      <4> SUFFICES ASSUME NEW e \in RowsOf(x)', IsLast(e, RowsOf(x)'), e # row PROVE FALSE
        OBVIOUS
      <4>1. row.seq <= e.seq
        BY <3>1 DEF IsLast
      <4> QED
        BY <2>3, <2>4, <2>6, <4>1 DEF RowsOf
    <3> QED
      BY <2>2, <2>5, <2>6, <2>7, <3>1, <3>2
  <2>8. CASE x # a
    <3>1. RowsOf(x)' = RowsOf(x) /\ key'[x] = key[x]
      BY <2>2, <2>3, <2>5, <2>6, <2>8 DEF RowsOf
    <3> QED
      BY <3>1 DEF KeyInForce, IsLast
  <2> QED
    BY <2>7, <2>8
<1>3. ASSUME NEW i \in Instances, BackfillCommit(i) PROVE KeyInForce'
  <2>1. table' = table \cup tx[i].rows /\ key' = key
        /\ late' = late \cup {a \in Accounts : RowsOf(a) # {} /\ \E e \in tx[i].rows : e.account = a}
    BY <1>3 DEF BackfillCommit
  <2> SUFFICES ASSUME NEW x \in Accounts, x \notin late'
               PROVE  IF RowsOf(x)' = {} THEN key[x] = NoKey \/ x \in Legacy
                      ELSE \A e \in RowsOf(x)' : IsLast(e, RowsOf(x)') => e.key = key[x]
    BY <2>1 DEF KeyInForce, IsLast
  <2>2. CASE RowsOf(x) # {}
    <3>1. RowsOf(x)' = RowsOf(x)
      BY <2>1, <2>2 DEF RowsOf
    <3> QED
      BY <2>1, <2>2, <3>1 DEF KeyInForce, IsLast
  <2>3. CASE RowsOf(x) = {}
    <3>1. \A e \in RowsOf(x)' : e \in tx[i].rows /\ e.account = x
      BY <2>1, <2>3 DEF RowsOf
    <3>2. \A e \in RowsOf(x)' : e.key = key[x]
      BY <2>3, <3>1 DEF Inv3, Inv2, Current
    <3> QED
      BY <2>1, <2>3, <3>2 DEF KeyInForce
  <2> QED
    BY <2>2, <2>3
<1> QED
  BY <1>1, <1>2, <1>3, Shows DEF Inv3

LEMMA ChainStep == Inv3 /\ KeyInForce /\ ChainLinks /\ [Next]_vars => ChainLinks'
<1> SUFFICES ASSUME Inv3, KeyInForce, ChainLinks, [Next]_vars PROVE ChainLinks'
  OBVIOUS
<1>0. table \in Tree /\ late \subseteq late' /\ raced \subseteq raced'
  <2>1. ASSUME NEW r \in Requests, Commit(r) PROVE late' = late /\ raced' = raced
    BY <2>1 DEF Commit
  <2>2. ASSUME NEW i \in Instances, BackfillCommit(i) PROVE late \subseteq late' /\ raced' = raced
    BY <2>2 DEF BackfillCommit
  <2> QED
    BY <2>1, <2>2, Shows DEF Inv3, Inv2, Inv1, DataOK
<1>1. CASE UNCHANGED <<key, table, late>>
  BY <1>0, <1>1 DEF ChainLinks, RowsOf, IsLast
<1>2. ASSUME NEW x \in Accounts, x \notin raced' \cup late', NEW new \in Tree, table' = table \cup new,
             \A e \in new, f \in table : f.seq < e.seq, NEW e \in RowsOf(x)
      PROVE  LET before == {f \in RowsOf(x)' : f.seq < e.seq}
             IN  before # {} => \A f \in before : IsLast(f, before) => e.by = f.key
  <2>1. {f \in RowsOf(x)' : f.seq < e.seq} = {f \in RowsOf(x) : f.seq < e.seq}
    BY <1>0, <1>2, OldRows
  <2> QED
    BY <1>0, <1>2, <2>1 DEF ChainLinks
<1>3. ASSUME NEW r \in Requests, Commit(r) PROVE ChainLinks'
  <2> DEFINE a == tx[r].account
  <2>1. PICK n \in 1..MaxRows :
          LET row == [seq |-> n, account |-> a, key |-> tx[r].key, by |-> tx[r].by]
          IN  tx[r].rows = {row} /\ table' = table \cup {row} /\ row \in Row
    BY <1>3, Committed DEF Inv3, Inv2
  <2> DEFINE row == [seq |-> n, account |-> a, key |-> tx[r].key, by |-> tx[r].by]
  <2>2. row.account = a /\ row.by = tx[r].by
    OBVIOUS
  <2> HIDE DEF row
  <2>3. tx[r].rows = {row} /\ table' = table \cup {row} /\ row \in Row
    BY <2>1 DEF row
  <2>4. \A f \in table : f.seq < row.seq /\ f.seq \in Nat
    BY <2>3 DEF Inv3, Inv2, Inv1, DataOK, Ordered, Handlers, Tree, Row
  <2>5. {row} \in Tree /\ row.seq \in Nat /\ late' = late /\ raced' = raced
        /\ tx[r].pc \in Changing
    BY <1>3, <2>3 DEF Tree, Row, Commit, Appending, Changing
  <2> SUFFICES ASSUME NEW x \in Accounts, x \notin raced \cup late, NEW e \in RowsOf(x)'
               PROVE  LET before == {f \in RowsOf(x)' : f.seq < e.seq}
                      IN  before # {} => \A f \in before : IsLast(f, before) => e.by = f.key
    BY <2>5 DEF ChainLinks, IsLast
  <2>6. CASE e \in RowsOf(x)
    BY <1>2, <2>3, <2>4, <2>5, <2>6
  <2>7. CASE e \notin RowsOf(x)
    <3>1. e = row /\ x = a
      BY <2>2, <2>3, <2>7 DEF RowsOf
    <3>2. {f \in RowsOf(x)' : f.seq < e.seq} = RowsOf(x)
      BY <2>2, <2>3, <2>4, <2>5, <3>1 DEF RowsOf
    <3>3. row.by = key[x]
      BY <2>2, <2>5, <3>1 DEF Inv3, Linked
    <3>4. RowsOf(x) # {} => \A f \in RowsOf(x) : IsLast(f, RowsOf(x)) => f.key = key[x]
      BY DEF KeyInForce
    <3> QED
      BY <3>1, <3>2, <3>3, <3>4
  <2> QED
    BY <2>6, <2>7
<1>4. ASSUME NEW i \in Instances, BackfillCommit(i) PROVE ChainLinks'
  <2>1. table' = table \cup tx[i].rows
        /\ late' = late \cup {a \in Accounts : RowsOf(a) # {} /\ \E e \in tx[i].rows : e.account = a}
    BY <1>4 DEF BackfillCommit
  <2>2. i \in Handlers /\ tx[i].rows \in Tree /\ FillShape(tx[i])
    BY DEF Inv3, Inv2, Inv1, TxOK, Shaped, Tx, Handlers
  <2>3. \A e \in tx[i].rows, f \in table : f.seq < e.seq
    BY <2>2 DEF Inv3, Inv2, Ordered
  <2> SUFFICES ASSUME NEW x \in Accounts, x \notin raced' \cup late', NEW e \in RowsOf(x)'
               PROVE  LET before == {f \in RowsOf(x)' : f.seq < e.seq}
                      IN  before # {} => \A f \in before : IsLast(f, before) => e.by = f.key
    BY DEF ChainLinks, IsLast
  <2>4. CASE e \in RowsOf(x)
    BY <1>2, <2>1, <2>2, <2>3, <2>4
  <2>5. CASE e \notin RowsOf(x)
    <3>1. e \in tx[i].rows /\ e.account = x
      BY <2>1, <2>5 DEF RowsOf
    <3>2. RowsOf(x) = {}
      BY <2>1, <3>1
    <3>3. RowsOf(x)' = {e}
      BY <2>1, <2>2, <3>1, <3>2 DEF FillShape, RowsOf
    <3>4. e.seq \in Nat
      BY <2>2, <3>1 DEF Tree, Row
    <3>5. {f \in RowsOf(x)' : f.seq < e.seq} = {}
      BY <3>3, <3>4
    <3> QED
      BY <3>5
  <2> QED
    BY <2>4, <2>5
<1> QED
  BY <1>1, <1>3, <1>4, Shows DEF Inv3

(* The key in force is the last the log has, for every account no back-fill *)
(* was late for.                                                           *)
THEOREM KeyInForceHolds == Spec => []KeyInForce
<1>1. Init => KeyInForce
  BY DEF Init, LogInit, KeyInForce, RowsOf
<1> QED
  BY <1>1, Inv3Init, Inv3Step, KeyStep, PTL DEF Spec

(* The chain of rotations a client is told to verify is unbroken, for      *)
(* every account whose rotations did not overlap and that no back-fill was *)
(* late for.                                                               *)
THEOREM ChainLinksHold == Spec => []ChainLinks
<1>1. Init => KeyInForce /\ ChainLinks
  BY DEF Init, LogInit, KeyInForce, ChainLinks, RowsOf
<1> QED
  BY <1>1, Inv3Init, Inv3Step, KeyStep, ChainStep, PTL DEF Spec

----------------------------------------------------------------------------
(* Key packages.                                                           *)

\* A package handed out or in stock is one published.
Spent ==
  /\ \A h \in handed : h.package.id <= packed
  /\ \A p \in stock : p.id <= packed

\* A claim on a revoked device passed its check before the certificate. Nothing purges or answers a
\* revocation before the certificate is written, and once one is answered the stock holds nothing of
\* the device but what it published as a revoked one.
Shunned ==
  /\ \A r \in Requests : tx[r].pc = "claiming" /\ Revoked(tx[r].device) => r \in overlaps
  /\ \A r \in Requests : tx[r].pc = "purging" => Revoked(tx[r].device)
  /\ \A d \in answered : Revoked(d)
  /\ \A p \in stock : p.device \in answered => p \in stray

Inv4 == Inv1 /\ HandedOnce /\ Spent /\ Shunned

\* The data a step leaves alone when it is none of the five that matter here.
Kept ==
  /\ UNCHANGED <<handed, packed, overlaps, stray, answered>> /\ stock' \subseteq stock
  /\ \A d \in Devices : Revoked(d)' = Revoked(d)

\* Such a step starts no claim and no purge.
Unclaimed ==
  /\ Kept
  /\ \A r \in Requests : tx'[r].pc \in {"claiming", "purging"} => tx'[r] = tx[r]

LEMMA UnclaimedStep ==
  ASSUME Inv4, Unclaimed
  PROVE  HandedOnce' /\ Spent' /\ Shunned'
<1>1. HandedOnce' /\ Spent'
  BY DEF Inv4, HandedOnce, Spent, Unclaimed, Kept
<1>2. \A r \in Requests : tx[r].pc \in {"claiming", "purging"} => tx[r].device \in Devices
  BY DEF Inv4, Inv1, Shaped, RequestShape
<1>3. answered \subseteq Devices
  BY DEF Inv4, Inv1, DataOK
<1>4. Shunned'
  BY <1>2, <1>3 DEF Inv4, Shunned, Unclaimed, Kept
<1> QED
  BY <1>1, <1>4

LEMMA MoveUnclaimed ==
  ASSUME TxOK, NEW r \in Handlers, NEW v, To(r, v), v.pc \notin {"claiming", "purging"} \/ r \in Instances,
         Kept
  PROVE  Unclaimed
<1>1. tx'[r] = v /\ \A q \in Handlers : q # r => tx'[q] = tx[q]
  BY DEF TxOK, To
<1> QED
  BY <1>1, AccountsAssumption DEF Unclaimed, Handlers

\* The five: a package is published, a certificate written, a stock purged, a claim begun or answered.
LEMMA StockSteps ==
  ASSUME Inv4, NEW r \in Requests,
         \/ PublishWrite(r) \/ RevokeWrite(r) \/ RevokePurge(r) \/ ClaimTake(r)
         \/ \E d \in Devices : ClaimBegin(r, d)
  PROVE  HandedOnce' /\ Spent' /\ Shunned'
<1>1. /\ r \in Handlers /\ tx[r] \in Tx /\ RequestShape(tx[r])
      /\ TxOK /\ DataOK /\ Shaped /\ HandedOnce /\ Spent /\ Shunned
  BY DEF Inv4, Inv1, TxOK, Shaped, Handlers
<1>2. ASSUME NEW v, To(r, v)
      PROVE  tx'[r] = v /\ \A q \in Requests : q # r => tx'[q] = tx[q]
  BY <1>1, <1>2 DEF TxOK, To, Handlers
<1>3. Idle.pc = "idle"
  BY DEF Idle
<1>4. CASE PublishWrite(r)
  <2> DEFINE p == [id |-> packed + 1, device |-> tx[r].device]
  <2>1. /\ p.id = packed + 1 /\ p.device = tx[r].device /\ packed \in Nat
        /\ packed' = packed + 1 /\ stock' = stock \cup {p}
        /\ stray' = IF Revoked(p.device) THEN stray \cup {p} ELSE stray
        /\ UNCHANGED <<handed, dev, overlaps, answered>>
    BY <1>1, <1>4, AccountsAssumption DEF PublishWrite, DataOK
  <2>2. tx'[r].pc = "idle" /\ \A q \in Requests : q # r => tx'[q] = tx[q]
    BY <1>2, <1>3, <1>4 DEF PublishWrite, Done
  <2> HIDE DEF p
  <2>3. \A h \in handed : h.package # p /\ h.package.id \in Nat
    BY <1>1, <2>1 DEF Spent, DataOK, Packages
  <2>4. \A q \in stock : q.id \in Nat
    BY <1>1 DEF DataOK, Packages
  <2>5. HandedOnce' /\ Spent'
    BY <1>1, <2>1, <2>3, <2>4 DEF HandedOnce, Spent
  <2>6. Shunned'
    BY <1>1, <2>1, <2>2 DEF Shunned, Revoked
  <2> QED
    BY <2>5, <2>6
<1>5. CASE RevokeWrite(r)
  <2>0. PICK d : d = tx[r].device
    OBVIOUS
  <2> DEFINE v == [tx[r] EXCEPT !.pc = "purging"]
  <2>1. v.pc = "purging" /\ v.device = d
    BY <1>1, <2>0 DEF Tx
  <2>2. To(r, v) /\ UNCHANGED <<stock, packed, handed, stray, answered>>
    BY <1>5 DEF RevokeWrite
  <2> HIDE DEF v
  <2>3. tx'[r] = v /\ \A q \in Requests : q # r => tx'[q] = tx[q]
    BY <1>2, <2>2
  <2>4. d \in Devices /\ dev'[d].cert /\ \A e \in Devices : e # d => dev'[e].cert = dev[e].cert
    BY <1>1, <1>5, <2>0 DEF RevokeWrite, RequestShape, DataOK, Device
  <2>5. /\ overlaps \subseteq overlaps'
        /\ ~Revoked(d) => \A q \in Requests : tx[q].pc = "claiming" /\ tx[q].device = d => q \in overlaps'
    BY <1>5, <2>0 DEF RevokeWrite, PastCheck
  <2>6. \A q \in Requests : tx[q].pc \in {"claiming", "purging"} => tx[q].device \in Devices
    BY <1>1 DEF Shaped, RequestShape
  <2>7. answered \subseteq Devices
    BY <1>1 DEF DataOK
  <2>8. \A q \in Requests : tx'[q].pc = "claiming" /\ dev'[tx'[q].device].cert => q \in overlaps'
    BY <1>1, <2>1, <2>3, <2>4, <2>5, <2>6 DEF Shunned, Revoked
  <2>9. \A q \in Requests : tx'[q].pc = "purging" => dev'[tx'[q].device].cert
    BY <1>1, <2>1, <2>3, <2>4, <2>6 DEF Shunned, Revoked
  <2>10. Shunned'
    BY <1>1, <2>2, <2>4, <2>7, <2>8, <2>9 DEF Shunned, Revoked
  <2> QED
    BY <1>1, <2>2, <2>10 DEF HandedOnce, Spent
<1>6. CASE RevokePurge(r)
  <2>1. tx'[r].pc = "idle" /\ \A q \in Requests : q # r => tx'[q] = tx[q]
    BY <1>2, <1>3, <1>6 DEF RevokePurge, Done
  <2>2. /\ stock' = {p \in stock : p.device # tx[r].device} /\ answered' = answered \cup {tx[r].device}
        /\ UNCHANGED <<dev, packed, handed, overlaps, stray>> /\ tx[r].pc = "purging"
    BY <1>6 DEF RevokePurge, Purged
  <2> QED
    BY <1>1, <2>1, <2>2 DEF HandedOnce, Spent, Shunned, Revoked
<1>7. ASSUME NEW d \in Devices, ClaimBegin(r, d) PROVE HandedOnce' /\ Spent' /\ Shunned'
  <2> DEFINE v == [Idle EXCEPT !.pc = "claiming", !.device = d]
  <2>1. v.pc = "claiming" /\ v.device = d
    BY DEF Idle
  <2>2. To(r, v) /\ ~Revoked(d) /\ UNCHANGED devices
    BY <1>7 DEF ClaimBegin
  <2> HIDE DEF v
  <2>3. tx'[r] = v /\ \A q \in Requests : q # r => tx'[q] = tx[q]
    BY <1>2, <2>2
  <2> QED
    BY <1>1, <2>1, <2>2, <2>3 DEF HandedOnce, Spent, Shunned, Revoked, devices
<1>8. CASE ClaimTake(r)
  <2>1. tx'[r].pc = "idle" /\ \A q \in Requests : q # r => tx'[q] = tx[q]
    BY <1>2, <1>3, <1>8 DEF ClaimTake, Done
  <2>2. UNCHANGED <<dev, packed, stray, answered>> /\ overlaps' = overlaps \ {r}
    BY <1>8 DEF ClaimTake
  <2>3. stock' \subseteq stock
    BY <1>8 DEF ClaimTake, Without
  <2>4. Shunned'
    BY <1>1, <2>1, <2>2, <2>3 DEF Shunned, Revoked
  <2>5. CASE UNCHANGED <<stock, handed>>
    BY <1>1, <2>2, <2>4, <2>5 DEF HandedOnce, Spent
  <2>6. ASSUME NEW p \in StockOf(tx[r].device), stock' = Without(p),
               handed' = handed \cup {[package |-> p, to |-> r]}
        PROVE  HandedOnce' /\ Spent'
    <3> DEFINE h == [package |-> p, to |-> r]
    <3>1. h.package = p /\ p \in stock
      BY <2>6 DEF StockOf
    <3> HIDE DEF h
    <3>2. handed' = handed \cup {h} /\ stock' = stock \ {p}
      BY <2>6 DEF h, Without
    <3> QED
      BY <1>1, <2>2, <3>1, <3>2 DEF HandedOnce, Spent
  <2> QED
    BY <1>8, <2>4, <2>5, <2>6 DEF ClaimTake
<1> QED
  BY <1>4, <1>5, <1>6, <1>7, <1>8

LEMMA RequestPackages ==
  ASSUME Inv4, NEW r \in Requests, Request(r)
  PROVE  HandedOnce' /\ Spent' /\ Shunned'
<1>1. r \in Handlers /\ tx[r] \in Tx /\ TxOK /\ dev \in [Devices -> Device]
  BY DEF Inv4, Inv1, TxOK, DataOK, Handlers
<1>2. Idle.pc = "idle"
  BY DEF Idle
<1>3. UNCHANGED devices => Kept
  BY DEF devices, Kept, Revoked
<1>4. ASSUME NEW d \in Devices, RotateBegin(r, d) PROVE Unclaimed
  <2>1. [Idle EXCEPT !.pc = "verified", !.account = Owner[d], !.device = d,
                     !.key = made + 1, !.by = Signer(Owner[d])].pc = "verified"
    BY DEF Idle
  <2> QED
    BY <1>1, <1>3, <1>4, <2>1, MoveUnclaimed DEF RotateBegin
<1>5. ASSUME NEW a \in Accounts, Create(r, a) PROVE Unclaimed
  <2>1. [Idle EXCEPT !.pc = "updated", !.account = a, !.key = 1].pc = "updated"
    BY DEF Idle
  <2> QED
    BY <1>1, <1>3, <1>5, <2>1, MoveUnclaimed DEF Create
<1>6. CASE RotateUpdate(r)
  <2>1. [tx[r] EXCEPT !.pc = "updated"].pc = "updated"
    BY <1>1 DEF Tx
  <2> QED
    BY <1>1, <1>3, <1>6, <2>1, MoveUnclaimed, UnclaimedStep DEF RotateUpdate
<1>7. CASE AppendRow(r)
  <2> DEFINE v == [tx[r] EXCEPT !.pc = "appended",
                      !.rows = {[seq |-> seq + 1, account |-> tx[r].account,
                                 key |-> tx[r].key, by |-> tx[r].by]}]
  <2>1. v.pc = "appended"
    BY <1>1 DEF Tx
  <2>2. To(r, v) /\ UNCHANGED devices
    BY <1>7 DEF AppendRow
  <2> HIDE DEF v
  <2> QED
    BY <1>1, <1>3, <2>1, <2>2, MoveUnclaimed, UnclaimedStep
<1>8. ASSUME NEW d \in Devices, RegisterBegin(r, d) \/ RevokeBegin(r, d) \/ PublishBegin(r, d) PROVE Unclaimed
  <2>1. Kept
    BY <1>3, <1>8 DEF RegisterBegin, RevokeBegin, PublishBegin
  <2>2. CASE RegisterBegin(r, d)
    <3>1. [Idle EXCEPT !.pc = "attesting", !.device = d, !.by = key[Owner[d]]].pc = "attesting"
      BY DEF Idle
    <3> QED
      BY <1>1, <2>1, <2>2, <3>1, MoveUnclaimed DEF RegisterBegin
  <2>3. CASE RevokeBegin(r, d) \/ PublishBegin(r, d)
    <3>1. /\ [Idle EXCEPT !.pc = "revoking", !.device = d].pc = "revoking"
          /\ [Idle EXCEPT !.pc = "publishing", !.device = d].pc = "publishing"
      BY DEF Idle
    <3> QED
      BY <1>1, <2>1, <2>3, <3>1, MoveUnclaimed DEF RevokeBegin, PublishBegin
  <2> QED
    BY <1>8, <2>2, <2>3
<1>9. CASE Commit(r)
  <2>1. Kept
    BY <1>9 DEF Commit, KeptBy, Kept, Revoked
  <2> QED
    BY <1>1, <1>2, <1>9, <2>1, MoveUnclaimed, UnclaimedStep DEF Commit, Done
<1>10. CASE RegisterWrite(r)
  <2>1. \A d \in Devices : dev'[d].cert = dev[d].cert
    BY <1>1, <1>10 DEF RegisterWrite, Device
  <2>2. Kept
    BY <1>10, <2>1 DEF RegisterWrite, Kept, Revoked
  <2> QED
    BY <1>1, <1>2, <1>10, <2>2, MoveUnclaimed, UnclaimedStep DEF RegisterWrite, Done
<1> QED
  BY <1>4, <1>5, <1>6, <1>7, <1>8, <1>9, <1>10, StockSteps, UnclaimedStep DEF Request

LEMMA HandlerPackages ==
  ASSUME Inv4, NEW r \in Handlers,
         \/ Abort(r)
         \/ r \in Instances /\ (BackfillList(r) \/ BackfillAppend(r) \/ BackfillCommit(r))
  PROVE  Unclaimed
<1>1. TxOK /\ Idle.pc = "idle"
  BY DEF Inv4, Inv1, Idle
<1>2. Kept
  BY DEF Abort, BackfillList, BackfillAppend, BackfillCommit, devices, Kept, Revoked
<1>3. \E v : To(r, v) /\ (v.pc \notin {"claiming", "purging"} \/ r \in Instances)
  <2>1. CASE Abort(r)
    BY <1>1, <2>1 DEF Abort, Done
  <2>2. CASE r \in Instances /\ BackfillAppend(r)
    BY <2>2 DEF BackfillAppend
  <2>3. CASE r \in Instances /\ (BackfillList(r) \/ BackfillCommit(r))
    BY <2>3 DEF BackfillList, BackfillCommit
  <2> QED
    BY <2>1, <2>2, <2>3
<1> QED
  BY <1>1, <1>2, <1>3, MoveUnclaimed

LEMMA Inv4Step == Inv4 /\ [Next]_vars => Inv4'
<1> SUFFICES ASSUME Inv4, [Next]_vars PROVE Inv4'
  OBVIOUS
<1>1. Inv1'
  BY Inv1Step DEF Inv4
<1>2. CASE UNCHANGED vars
  BY <1>1, <1>2 DEF vars, Inv4, HandedOnce, Spent, Shunned, Revoked
<1>3. CASE Next
  BY <1>1, <1>3, RequestPackages, HandlerPackages, UnclaimedStep DEF Next, Inv4, Handlers
<1> QED
  BY <1>2, <1>3

LEMMA Inv4Always == Spec => []Inv4
<1>1. Init => Inv4
  <2> SUFFICES ASSUME Init PROVE Inv4
    OBVIOUS
  <2>1. handed = {} /\ stock = {} /\ answered = {} /\ \A r \in Requests : tx[r].pc = "idle"
    BY DEF Init, Idle, Handlers
  <2> QED
    BY <2>1, Inv1Init DEF Inv4, HandedOnce, Spent, Shunned
<1> QED
  BY <1>1, Inv4Step, PTL DEF Spec

(* A key package is handed to one claim and has then left the stock, with  *)
(* as many claims, publications, revocations and rotations as there are.   *)
THEOREM HandedOnceHolds == Spec => []HandedOnce
<1>1. Inv4 => HandedOnce
  BY DEF Inv4
<1> QED
  BY <1>1, Inv4Always, PTL

\* What a step hands out is handed out by a claim, from the stock of the device it asked for.
LEMMA HandsOut ==
  ASSUME Inv4, [Next]_vars
  PROVE  \/ handed' \subseteq handed
         \/ \E r \in Requests : \E p \in StockOf(tx[r].device) :
              ClaimTake(r) /\ handed' = handed \cup {[package |-> p, to |-> r]}
<1>1. CASE UNCHANGED vars
  BY <1>1 DEF vars
<1>2. ASSUME NEW r \in Requests, Request(r), ~ClaimTake(r) PROVE handed' = handed
  BY <1>2 DEF Request, RotateBegin, RotateUpdate, Create, AppendRow, Commit, RegisterBegin, RegisterWrite,
              RevokeBegin, RevokeWrite, RevokePurge, PublishBegin, PublishWrite, ClaimBegin, devices
<1>3. ASSUME NEW r \in Handlers, Abort(r) PROVE handed' = handed
  BY <1>3 DEF Abort, devices
<1>4. ASSUME NEW i \in Instances, BackfillList(i) \/ BackfillAppend(i) \/ BackfillCommit(i)
      PROVE  handed' = handed
  BY <1>4 DEF BackfillList, BackfillAppend, BackfillCommit, devices
<1>5. ASSUME NEW r \in Requests, ClaimTake(r)
      PROVE  \/ handed' = handed
             \/ \E p \in StockOf(tx[r].device) : handed' = handed \cup {[package |-> p, to |-> r]}
  BY <1>5 DEF ClaimTake
<1> QED
  BY <1>1, <1>2, <1>3, <1>4, <1>5 DEF Next

(* From the moment a certificate of revocation is written, a package of the *)
(* device goes only to a claim that had passed its check by then; and once  *)
(* the revocation is answered, to that one only if the device published it  *)
(* after the certificate. Whatever claims, publishes, revokes and rotates   *)
(* between the two statements of revoke_device, and of claim_key_package.   *)
THEOREM RevokedStayOutHolds == Spec => RevokedStayOut
<1>1. Inv4 /\ [Next]_vars => [Barred]_vars
  <2> SUFFICES ASSUME Inv4, [Next]_vars PROVE Barred
    OBVIOUS
  <2>1. ASSUME NEW r \in Requests, NEW p \in StockOf(tx[r].device),
               ClaimTake(r), handed' = handed \cup {[package |-> p, to |-> r]}
        PROVE  Barred
    <3>1. p \in stock /\ p.device = tx[r].device /\ tx[r].pc = "claiming"
      BY <2>1 DEF StockOf, ClaimTake
    <3>2. (Revoked(p.device) => r \in overlaps) /\ (p.device \in answered => p \in stray)
      BY <3>1 DEF Inv4, Shunned
    <3> QED
      BY <2>1, <3>2 DEF Barred
  <2> QED
    BY <2>1, HandsOut DEF Barred
<1> QED
  BY <1>1, Inv4Always, PTL DEF Spec, RevokedStayOut

=============================================================================
