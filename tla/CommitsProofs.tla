---------------------------- MODULE CommitsProofs ----------------------------
(***************************************************************************)
(* What the runs of MCCommits check on three devices, proved for any set   *)
(* of devices and accounts, any founders and admin, and any bounds.        *)
(***************************************************************************)
EXTENDS Commits, TLAPS, SequenceTheorems

(* What Append does to a sequence of commits, rows or epochs.              *)
LEMMA Appended ==
  ASSUME NEW S, NEW s \in Seq(S), NEW e \in S
  PROVE  /\ Append(s, e) \in Seq(S) /\ Len(Append(s, e)) = Len(s) + 1
         /\ Len(s) \in Nat
         /\ \A k \in 1 .. Len(s) : Append(s, e)[k] = s[k]
         /\ Append(s, e)[Len(s) + 1] = e
<1>1. Len(s) \in Nat
  BY LenProperties
<1> QED
  BY <1>1, AppendProperties

(* The tree of an epoch there is has the declared shape.                   *)
LEMMA TreeShape ==
  ASSUME TypeOK, NEW c \in Epochs, c <= Len(made)
  PROVE  TreeOf(c) \in Tree
<1>1. CASE c = 0
  <2>1. Genesis \in Tree
    BY OwnerAssumption DEF Genesis, Tree
  <2> QED
    BY <1>1, <2>1 DEF TreeOf
<1>2. CASE c # 0
  <2>1. c \in 1 .. Len(made)
    BY <1>2, BoundAssumption DEF Epochs
  <2>2. made[c] \in Commit
    BY <2>1, ElementOfSeq DEF TypeOK
  <2> QED
    BY <1>2, <2>2 DEF TreeOf, Commit
<1> QED
  BY <1>1, <1>2

(* The tree a device is in, too.                                           *)
LEMMA MyTreeShape ==
  ASSUME TypeOK, NEW d \in Device
  PROVE  MyTree(d) \in Tree
<1>1. mem[d] \in View /\ mem[d].tip <= Len(made)
  BY DEF TypeOK, PendingFits
<1> QED
  BY <1>1, TreeShape DEF MyTree, View

(* The values a view and a flow start from have the declared shape.        *)
LEMMA StartShapes == NotJoined \in View /\ Idle \in Step /\ Rest \in [Flows -> Step]
<1>1. 0 \in Epochs /\ 0 \in 0 .. MaxRows
  BY BoundAssumption DEF Epochs
<1>2. NotJoined \in View
  BY <1>1 DEF NotJoined, View
<1>3. Idle \in Step
  BY <1>1 DEF Idle, Step
<1> QED
  BY <1>2, <1>3 DEF Rest, Flows

(* A group just started is well typed.                                     *)
LEMMA TypeInit == Init => TypeOK
<1> SUFFICES ASSUME Init PROVE TypeOK
  OBVIOUS
<1> USE BoundAssumption, OwnerAssumption
<1>1. /\ made = <<>> /\ log = <<>> /\ spine = <<>>
      /\ <<>> \in Seq(Commit) /\ <<>> \in Seq(Row) /\ <<>> \in Seq(Epochs) /\ Len(<<>>) = 0
  BY DEF Init
<1>2. \A d \in Device : mem[d] \in View /\ mem[d].tip = 0 /\ mem[d].pend = 0 /\ mem[d].cursor = 0
  <2>1. ASSUME NEW b \in BOOLEAN
        PROVE  LET v == [NotJoined EXCEPT !.joined = b]
               IN  v \in View /\ v.tip = 0 /\ v.pend = 0 /\ v.cursor = 0
    BY StartShapes DEF NotJoined, View
  <2>2. ASSUME NEW d \in Device
        PROVE  \E b \in BOOLEAN : mem[d] = [NotJoined EXCEPT !.joined = b]
    <3>1. mem[d] = [NotJoined EXCEPT !.joined = d \in Founders]
      BY Zenon DEF Init
    <3>2. (d \in Founders) = TRUE \/ (d \in Founders) = FALSE
      OBVIOUS
    <3> QED
      BY <3>1, <3>2
  <2> QED
    BY <2>1, <2>2, Zenon
<1>3. mem \in [Device -> View] /\ disk = mem
  BY <1>2, Zenon DEF Init
<1>4. flow \in [Device -> [Flows -> Step]]
  BY StartShapes DEF Init
<1>5. \A d \in Device, f \in Flows : flow[d][f].epoch = 0
  BY DEF Init, Rest, Idle, Flows
<1>6. PendingFits
  BY <1>1, <1>2, <1>3 DEF PendingFits
<1>7. /\ \A c \in 1 .. Len(made) : made[c].base < c
      /\ \A k \in 1 .. Len(log) : log[k].epoch <= Len(made)
      /\ \A k \in 1 .. Len(spine) : spine[k] <= Len(made)
  BY <1>1
<1>8. /\ revoked \subseteq Device /\ known \in [Device -> SUBSET Device]
      /\ faults \in 0 .. MaxFaults /\ estranged \subseteq Device
  BY DEF Init
<1> QED
  BY <1>1, <1>3, <1>4, <1>5, <1>6, <1>7, <1>8 DEF TypeOK

(* The canonical epoch is one there is.                                    *)
LEMMA CanonShape == TypeOK => Canon \in Epochs /\ Canon <= Len(made)
<1> SUFFICES ASSUME TypeOK PROVE Canon \in Epochs /\ Canon <= Len(made)
  OBVIOUS
<1>1. Len(made) \in Nat /\ Len(spine) \in Nat
  BY LenProperties DEF TypeOK
<1>2. CASE spine = <<>>
  BY <1>1, <1>2, BoundAssumption DEF Canon, Epochs
<1>3. CASE spine # <<>>
  <2>1. Len(spine) \in 1 .. Len(spine)
    BY <1>1, <1>3, EmptySeq DEF TypeOK
  <2> QED
    BY <1>3, <2>1, ElementOfSeq DEF Canon, TypeOK
<1> QED
  BY <1>2, <1>3

(* A row of an epoch there is may be added to the log: log and spine keep  *)
(* their shape.                                                            *)
LogFits ==
  /\ log \in Seq(Row) /\ Len(log) <= MaxRows
  /\ \A k \in 1 .. Len(log) : log[k].epoch <= Len(made)
  /\ spine \in Seq(Epochs) /\ Len(spine) = Len(log)
  /\ \A k \in 1 .. Len(spine) : spine[k] <= Len(made)

LEMMA LandShape ==
  ASSUME TypeOK, NEW row \in Row, row.epoch <= Len(made), Land(row), UNCHANGED made
  PROVE  LogFits' /\ Len(log') = Len(log) + 1 /\ Len(log) \in Nat
<1> DEFINE e == IF row.kind = "commit" /\ Extends(row.epoch) THEN row.epoch ELSE Canon
<1>1. e \in Epochs /\ e <= Len(made)
  BY CanonShape DEF Row
<1>2. log' = Append(log, row) /\ spine' = Append(spine, e) /\ Len(log) < MaxRows
  BY DEF Land
<1>3. log \in Seq(Row) /\ spine \in Seq(Epochs) /\ Len(spine) = Len(log)
  BY DEF TypeOK
<1> HIDE DEF e
<1>4. /\ log' \in Seq(Row) /\ Len(log') = Len(log) + 1 /\ Len(log) \in Nat
      /\ \A k \in 1 .. Len(log) : log'[k] = log[k]
      /\ log'[Len(log) + 1] = row
  BY <1>2, <1>3, Appended
<1>5. /\ spine' \in Seq(Epochs) /\ Len(spine') = Len(log) + 1
      /\ \A k \in 1 .. Len(log) : spine'[k] = spine[k]
      /\ spine'[Len(log) + 1] = e
  BY <1>1, <1>2, <1>3, Appended
<1>6. \A k \in 1 .. Len(log') : log'[k].epoch <= Len(made)
  <2> SUFFICES ASSUME NEW k \in 1 .. Len(log') PROVE log'[k].epoch <= Len(made)
    OBVIOUS
  <2>1. k \in 1 .. Len(log) \/ k = Len(log) + 1
    BY <1>4
  <2> QED
    BY <1>4, <2>1 DEF TypeOK
<1>7. \A k \in 1 .. Len(spine') : spine'[k] <= Len(made)
  <2> SUFFICES ASSUME NEW k \in 1 .. Len(spine') PROVE spine'[k] <= Len(made)
    OBVIOUS
  <2>1. k \in 1 .. Len(log) \/ k = Len(log) + 1
    BY <1>4, <1>5
  <2> QED
    BY <1>1, <1>3, <1>5, <2>1 DEF TypeOK
<1>8. Len(log') <= MaxRows
  BY <1>2, <1>4, BoundAssumption
<1> QED
  BY <1>4, <1>5, <1>6, <1>7, <1>8 DEF LogFits

(* Making a commit of a well-shaped tree leaves every shape as it was.     *)
LEMMA PrepareType ==
  ASSUME TypeOK, NEW d \in Device, NEW f \in Flows, NEW tree \in Tree, NEW guest \in SUBSET Device,
         Prepare(d, f, tree, guest)
  PROVE  TypeOK' /\ UNCHANGED spine /\ \A k \in 1 .. Len(made) : made'[k] = made[k]
<1> DEFINE leaves == mem[d].props \cap tree.members
           c      == [base |-> mem[d].tip, by |-> d, leaves |-> leaves,
                      tree |-> [tree EXCEPT !.members = @ \ leaves]]
           n      == Len(made) + 1
<1>0. mem[d] \in View /\ mem[d].tip <= Len(made)
  BY DEF TypeOK, PendingFits
<1>1. c \in Commit
  BY <1>0 DEF Commit, Tree, View
<1>2. /\ made' = Append(made, c) /\ Len(made) < MaxMade
      /\ mem' = [mem EXCEPT ![d].pend = n]
      /\ flow' = [flow EXCEPT ![d][f] = [Idle EXCEPT !.pc = "posting", !.epoch = n, !.guest = guest]]
      /\ UNCHANGED <<log, revoked, disk, known, faults, spine, estranged>>
  BY DEF Prepare, CanCommit
<1>3. c.base = mem[d].tip /\ c.by = d
  OBVIOUS
<1> HIDE DEF c
<1>4. /\ made' \in Seq(Commit) /\ Len(made') = n /\ Len(made) \in Nat
      /\ \A k \in 1 .. Len(made) : made'[k] = made[k]
      /\ made'[n] = c
  BY <1>1, <1>2, Appended DEF TypeOK
<1>5. n \in Epochs /\ n <= MaxMade
  BY <1>2, <1>4, BoundAssumption DEF Epochs
<1>6. \A k \in 1 .. Len(made') : made'[k].base < k
  <2> SUFFICES ASSUME NEW k \in 1 .. Len(made') PROVE made'[k].base < k
    OBVIOUS
  <2>1. k \in 1 .. Len(made) \/ k = n
    BY <1>4
  <2>2. mem[d].tip < n
    BY <1>0, <1>4 DEF View, Epochs
  <2> QED
    BY <1>3, <1>4, <2>1, <2>2 DEF TypeOK
<1>7. /\ mem' \in [Device -> View]
      /\ mem'[d] = [mem[d] EXCEPT !.pend = n] /\ \A x \in Device \ {d} : mem'[x] = mem[x]
  BY <1>0, <1>2, <1>5 DEF TypeOK, View
<1>8. /\ flow' \in [Device -> [Flows -> Step]]
      /\ \A x \in Device, g \in Flows : flow'[x][g].epoch <= n
  <2>1. [Idle EXCEPT !.pc = "posting", !.epoch = n, !.guest = guest] \in Step
    BY <1>5 DEF Idle, Step
  <2>2. [Idle EXCEPT !.pc = "posting", !.epoch = n, !.guest = guest].epoch = n
    BY DEF Idle
  <2>3. flow \in [Device -> [Flows -> Step]]
        /\ \A x \in Device, g \in Flows : flow[x][g].epoch \in Nat /\ flow[x][g].epoch <= n
    BY <1>4 DEF TypeOK, Step, Epochs
  <2> HIDE DEF n
  <2> QED
    BY <1>2, <1>5, <2>1, <2>2, <2>3 DEF Epochs
<1>9. PendingFits'
  <2> SUFFICES ASSUME NEW x \in Device, NEW v \in {mem'[x], disk'[x]}
               PROVE  /\ v.tip <= Len(made') /\ v.pend <= Len(made') /\ v.cursor <= Len(log')
                      /\ v.pend # 0 => made'[v.pend].base = v.tip /\ made'[v.pend].by = x
    BY DEF PendingFits
  <2>1. CASE v \in {mem[x], disk[x]}
    <3>1. /\ v.tip <= Len(made) /\ v.pend <= Len(made) /\ v.cursor <= Len(log)
          /\ v.pend # 0 => made[v.pend].base = v.tip /\ made[v.pend].by = x
          /\ v \in View
      BY <2>1 DEF TypeOK, PendingFits
    <3>2. v.pend # 0 => v.pend \in 1 .. Len(made)
      BY <1>4, <3>1 DEF View, Epochs
    <3> QED
      BY <1>2, <1>4, <3>1, <3>2 DEF View, Epochs
  <2>2. CASE x = d /\ v = [mem[d] EXCEPT !.pend = n]
    <3>1. v.tip = mem[d].tip /\ v.pend = n /\ v.cursor = mem[d].cursor
      BY <1>0, <2>2 DEF View
    <3>2. mem[d].cursor <= Len(log)
      BY DEF TypeOK, PendingFits
    <3> QED
      BY <1>0, <1>2, <1>3, <1>4, <2>2, <3>1, <3>2 DEF View, Epochs
  <2> QED
    BY <1>2, <1>7, <2>1, <2>2
<1>10. LogFits'
  <2>1. \A k \in 1 .. Len(log) : log[k].epoch <= Len(made')
    <3> SUFFICES ASSUME NEW k \in 1 .. Len(log) PROVE log[k].epoch <= Len(made')
      OBVIOUS
    <3>1. log[k] \in Row /\ log[k].epoch <= Len(made)
      BY ElementOfSeq DEF TypeOK
    <3> QED
      BY <1>4, <3>1 DEF Row, Epochs
  <2>2. \A k \in 1 .. Len(spine) : spine[k] <= Len(made')
    <3> SUFFICES ASSUME NEW k \in 1 .. Len(spine) PROVE spine[k] <= Len(made')
      OBVIOUS
    <3>1. spine[k] \in Epochs /\ spine[k] <= Len(made)
      BY ElementOfSeq DEF TypeOK
    <3> QED
      BY <1>4, <3>1 DEF Epochs
  <2> QED
    BY <1>2, <2>1, <2>2 DEF TypeOK, LogFits
<1>11. Len(made') <= MaxMade
  BY <1>4, <1>5
<1> QED
  BY <1>2, <1>4, <1>6, <1>7, <1>8, <1>9, <1>10, <1>11 DEF TypeOK, LogFits

(* The trees a user or a poll may want have the declared shape.            *)
LEMMA WantedTrees ==
  ASSUME TypeOK, NEW d \in Device
  PROVE  /\ \A n \in Device : With(MyTree(d), n) \in Tree
         /\ \A r \in Device : Without(MyTree(d), r) \in Tree
         /\ Rosters(d) \subseteq Tree /\ Lifetimes(d) \subseteq Tree
<1> DEFINE t == MyTree(d)
<1>1. t \in Tree
  BY MyTreeShape
<1> HIDE DEF t
<1>2. /\ \A n \in Device : With(t, n) \in Tree
      /\ \A r \in Device : Without(t, r) \in Tree
  BY <1>1 DEF With, Without, Tree
<1>3. Rosters(d) \subseteq Tree
  <2> DEFINE others == {Owner[r] : r \in t.members} \ {Owner[d]}
  <2>1. others \subseteq Account
    BY <1>1, OwnerAssumption DEF Tree
  <2> HIDE DEF others
  <2>2. ASSUME NEW a \in others
        PROVE  /\ [t EXCEPT !.mods = @ \cup {a}] \in Tree
               /\ [t EXCEPT !.admin = a, !.mods = @ \ {a}] \in Tree
    BY <1>1, <2>1 DEF Tree
  <2>3. ASSUME NEW a \in t.mods PROVE [t EXCEPT !.mods = @ \ {a}] \in Tree
    BY <1>1 DEF Tree
  <2>4. Rosters(d) \subseteq {[t EXCEPT !.mods = @ \cup {a}] : a \in others \ t.mods}
                           \cup {[t EXCEPT !.mods = @ \ {a}] : a \in t.mods}
                           \cup {[t EXCEPT !.admin = a, !.mods = @ \ {a}] : a \in others}
    BY DEF Rosters, t, others
  <2> QED
    BY <2>2, <2>3, <2>4
<1>4. Lifetimes(d) \subseteq Tree
  <2>1. [t EXCEPT !.lifetime = ~@] \in Tree
    <3>1. ASSUME NEW b \in BOOLEAN PROVE [t EXCEPT !.lifetime = b] \in Tree
      BY <1>1 DEF Tree
    <3>2. t.lifetime = TRUE \/ t.lifetime = FALSE
      BY <1>1 DEF Tree
    <3>3. CASE t.lifetime = TRUE
      BY <3>1, <3>3
    <3>4. CASE t.lifetime = FALSE
      BY <3>1, <3>4
    <3> QED
      BY <3>2, <3>3, <3>4
  <2>2. Lifetimes(d) \subseteq {[t EXCEPT !.lifetime = ~@]}
    BY DEF Lifetimes, t
  <2> QED
    BY <2>1, <2>2
<1> QED
  BY <1>2, <1>3, <1>4 DEF t

(* A device takes a new view that fits, while no commit is made and the    *)
(* log at most grows.                                                      *)
LEMMA ViewTaken ==
  ASSUME TypeOK, NEW d \in Device, NEW v \in View,
         v.tip <= Len(made), v.pend <= Len(made), v.cursor <= Len(log'),
         v.pend # 0 => made[v.pend].base = v.tip /\ made[v.pend].by = d,
         mem' = [mem EXCEPT ![d] = v], UNCHANGED <<made, disk>>,
         Len(log) <= Len(log'), Len(log') \in Nat
  PROVE  mem' \in [Device -> View] /\ PendingFits'
<1>1. mem' \in [Device -> View] /\ mem'[d] = v /\ \A x \in Device \ {d} : mem'[x] = mem[x]
  BY DEF TypeOK
<1>2. Len(log) \in Nat
  BY LenProperties DEF TypeOK
<1>3. PendingFits'
  <2> SUFFICES ASSUME NEW x \in Device, NEW w \in {mem'[x], disk'[x]}
               PROVE  /\ w.tip <= Len(made') /\ w.pend <= Len(made') /\ w.cursor <= Len(log')
                      /\ w.pend # 0 => made'[w.pend].base = w.tip /\ made'[w.pend].by = x
    BY DEF PendingFits
  <2>1. CASE w \in {mem[x], disk[x]}
    <3>1. /\ w.tip <= Len(made) /\ w.pend <= Len(made) /\ w.cursor <= Len(log)
          /\ w.pend # 0 => made[w.pend].base = w.tip /\ made[w.pend].by = x
          /\ w \in View
      BY <2>1 DEF TypeOK, PendingFits
    <3> QED
      BY <1>2, <3>1, BoundAssumption DEF View
  <2>2. CASE x = d /\ w = v
    BY <2>2
  <2> QED
    BY <1>1, <2>1, <2>2
<1> QED
  BY <1>1, <1>3

(* Steps that touch no commit, no row and no view.                         *)
LEMMA Untouched ==
  ASSUME TypeOK, UNCHANGED <<made, log, mem, disk, spine>>,
         flow' \in [Device -> [Flows -> Step]],
         \A x \in Device, g \in Flows : flow'[x][g].epoch <= Len(made),
         revoked' \subseteq Device, known' \in [Device -> SUBSET Device],
         faults' \in 0 .. MaxFaults, estranged' \subseteq Device
  PROVE  TypeOK'
<1>1. PendingFits'
  BY DEF TypeOK, PendingFits
<1> QED
  BY <1>1 DEF TypeOK

(* What a request of a flow does to the log and to the flow keeps its      *)
(* shape, whether it lands, is answered or fails.                          *)
LEMMA AnswerType ==
  ASSUME TypeOK, NEW d \in Device, NEW f \in Flows,
         Answer(d, f) \/ CommitFails(d, f) \/ WelcomeFails(d, f)
  PROVE  TypeOK'
<1> DEFINE s == flow[d][f]
<1>0. /\ s \in Step /\ s.epoch <= Len(made) /\ mem[d] \in View
      /\ mem[d].tip <= Len(made) /\ mem[d].pend <= Len(made) /\ mem[d].cursor <= Len(log)
  BY DEF TypeOK, PendingFits
<1>1. Len(log) \in Nat /\ Len(made) \in Nat
  BY LenProperties DEF TypeOK
<1> HIDE DEF s
<1>2. ASSUME NEW t \in Step, t.epoch <= Len(made), UNCHANGED made,
             flow' = [flow EXCEPT ![d][f] = t]
      PROVE  /\ flow' \in [Device -> [Flows -> Step]]
             /\ \A x \in Device, g \in Flows : flow'[x][g].epoch <= Len(made')
  BY <1>2 DEF TypeOK
<1>3. Idle \in Step /\ Idle.epoch <= Len(made)
  BY <1>1, StartShapes DEF Idle
<1>4. CASE CommitLands(d, f)
  <2> DEFINE row == [kind |-> "commit", epoch |-> s.epoch, sound |-> TRUE, who |-> d]
             t   == [s EXCEPT !.pc = "landed"]
  <2>1. row \in Row /\ row.epoch <= Len(made)
    BY <1>0 DEF Row, Step
  <2>2. t \in Step /\ t.epoch <= Len(made)
    BY <1>0 DEF Step
  <2>3. Land(row) /\ flow' = [flow EXCEPT ![d][f].pc = "landed"]
        /\ UNCHANGED <<made, revoked, mem, disk, known, faults, estranged>>
    BY <1>4 DEF CommitLands, s
  <2>4. flow' = [flow EXCEPT ![d][f] = t]
    BY <2>3 DEF s
  <2> HIDE DEF row, t
  <2>5. LogFits' /\ Len(log') = Len(log) + 1
    BY <2>1, <2>3, LandShape
  <2>6. PendingFits'
    <3> SUFFICES ASSUME NEW x \in Device, NEW v \in {mem[x], disk[x]}
                 PROVE  v.cursor <= Len(log')
      BY <2>3 DEF PendingFits, TypeOK
    <3> QED
      BY <1>1, <2>5, BoundAssumption DEF TypeOK, PendingFits, View
  <2> QED
    BY <1>2, <2>2, <2>3, <2>4, <2>5, <2>6 DEF TypeOK, LogFits
<1>5. CASE WelcomeLands(d, f)
  <2>1. PICK n \in s.guest :
          Land([kind |-> "welcome", epoch |-> s.epoch, sound |-> s.sound, who |-> n])
    BY <1>5 DEF WelcomeLands, s
  <2> DEFINE row == [kind |-> "welcome", epoch |-> s.epoch, sound |-> s.sound, who |-> n]
  <2>2. row \in Row /\ row.epoch <= Len(made)
    BY <1>0 DEF Row, Step
  <2>3. Land(row) /\ flow' = [flow EXCEPT ![d][f] = Idle]
        /\ UNCHANGED <<made, revoked, mem, disk, known, faults, estranged>>
    BY <1>5, <2>1 DEF WelcomeLands, s
  <2> HIDE DEF row
  <2>5. LogFits' /\ Len(log') = Len(log) + 1
    BY <2>2, <2>3, LandShape
  <2>6. PendingFits'
    <3> SUFFICES ASSUME NEW x \in Device, NEW v \in {mem[x], disk[x]}
                 PROVE  v.cursor <= Len(log')
      BY <2>3 DEF PendingFits, TypeOK
    <3> QED
      BY <1>1, <2>5, BoundAssumption DEF TypeOK, PendingFits, View
  <2> QED
    BY <1>2, <1>3, <2>3, <2>5, <2>6 DEF TypeOK, LogFits
<1>6. CASE CommitAnswered(d, f)
  <2> DEFINE new == IF mem[d].pend = 0 THEN mem[d].tip ELSE mem[d].pend
             v   == IF mem[d].pend = 0 THEN mem[d]
                    ELSE [mem[d] EXCEPT !.tip = new, !.pend = 0, !.props = {}]
             t   == IF s.guest = {} THEN Idle
                    ELSE [s EXCEPT !.pc = "welcome", !.sound = new = s.epoch]
  <2>1. /\ mem' = [mem EXCEPT ![d] = v] /\ flow' = [flow EXCEPT ![d][f] = t]
        /\ UNCHANGED <<made, log, revoked, disk, known, faults, spine>>
        /\ estranged' \in {estranged, estranged \cup {d}}
    BY <1>6, Zenon DEF CommitAnswered, s
  <2>2. v \in View /\ v.tip <= Len(made) /\ v.pend <= Len(made) /\ v.cursor <= Len(log)
        /\ (v.pend # 0 => v = mem[d])
    <3>1. CASE mem[d].pend = 0
      BY <1>0, <3>1
    <3>2. CASE mem[d].pend # 0
      <4>1. v = [mem[d] EXCEPT !.tip = mem[d].pend, !.pend = 0, !.props = {}]
        BY <3>2
      <4> HIDE DEF v, new
      <4>2. 0 \in Epochs
        BY BoundAssumption DEF Epochs
      <4>3. /\ v \in View /\ v.tip = mem[d].pend /\ v.pend = 0 /\ v.cursor = mem[d].cursor
        BY <1>0, <4>1, <4>2 DEF View
      <4> QED
        BY <1>0, <1>1, <4>3
    <3> HIDE DEF v
    <3> QED
      BY <3>1, <3>2
  <2>3. t \in Step /\ t.epoch <= Len(made)
    <3>1. ASSUME NEW b \in BOOLEAN
          PROVE  LET u == [s EXCEPT !.pc = "welcome", !.sound = b]
                 IN  u \in Step /\ u.epoch <= Len(made)
      BY <1>0 DEF Step
    <3>2. (new = s.epoch) = TRUE \/ (new = s.epoch) = FALSE
      OBVIOUS
    <3> HIDE DEF new
    <3>3. CASE s.guest = {}
      BY <1>3, <3>3
    <3>4. CASE s.guest # {} /\ (new = s.epoch) = TRUE
      BY <3>1, <3>4
    <3>5. CASE s.guest # {} /\ (new = s.epoch) = FALSE
      BY <3>1, <3>5
    <3> QED
      BY <3>2, <3>3, <3>4, <3>5
  <2> HIDE DEF v, t
  <2>4. v.pend # 0 => made[v.pend].base = v.tip /\ made[v.pend].by = d
    BY <2>2 DEF TypeOK, PendingFits
  <2>5. mem' \in [Device -> View] /\ PendingFits'
    <3>1. v.cursor <= Len(log') /\ Len(log) <= Len(log') /\ Len(log') \in Nat
      BY <1>1, <2>1, <2>2
    <3> QED
      BY <2>1, <2>2, <2>4, <3>1, ViewTaken
  <2> QED
    BY <1>2, <2>1, <2>3, <2>5 DEF TypeOK
<1>7. CASE CommitFails(d, f)
  <2>1. /\ flow' = [flow EXCEPT ![d][f] = Idle] /\ faults' \in 0 .. MaxFaults
        /\ estranged' \in {estranged, estranged \cup {d}}
        /\ UNCHANGED <<made, log, revoked, mem, disk, known, spine>>
    BY <1>7, BoundAssumption DEF CommitFails, TypeOK
  <2>2. /\ flow' \in [Device -> [Flows -> Step]]
        /\ \A x \in Device, g \in Flows : flow'[x][g].epoch <= Len(made)
    BY <1>2, <1>3, <2>1
  <2>3. revoked' \subseteq Device /\ known' \in [Device -> SUBSET Device] /\ estranged' \subseteq Device
    BY <2>1 DEF TypeOK
  <2> QED
    BY <2>1, <2>2, <2>3, Untouched
<1>8. CASE WelcomeFails(d, f)
  <2>1. /\ flow' = [flow EXCEPT ![d][f] = Idle] /\ faults' \in 0 .. MaxFaults
        /\ UNCHANGED <<made, log, revoked, mem, disk, known, spine, estranged>>
    BY <1>8, BoundAssumption DEF WelcomeFails, TypeOK
  <2>2. /\ flow' \in [Device -> [Flows -> Step]]
        /\ \A x \in Device, g \in Flows : flow'[x][g].epoch <= Len(made)
    BY <1>2, <1>3, <2>1
  <2>3. revoked' \subseteq Device /\ known' \in [Device -> SUBSET Device] /\ estranged' \subseteq Device
    BY <2>1 DEF TypeOK
  <2> QED
    BY <2>1, <2>2, <2>3, Untouched
<1> QED
  BY <1>4, <1>5, <1>6, <1>7, <1>8 DEF Answer

(* One row read leaves a view that fits: a commit followed is one there    *)
(* is, and nothing stays pending beside it.                                *)
LEMMA AbsorbType ==
  ASSUME TypeOK, NEW d \in Device, Absorb(d)
  PROVE  TypeOK'
<1> DEFINE row == log[mem[d].cursor + 1]
           v   == AfterRow(d, row)
<1>0. /\ mem[d] \in View /\ mem[d].tip <= Len(made) /\ mem[d].pend <= Len(made)
      /\ Len(log) \in Nat /\ Len(log) <= MaxRows
  BY LenProperties DEF TypeOK, PendingFits
<1>1. /\ mem' = [mem EXCEPT ![d] = v] /\ mem[d].cursor < Len(log)
      /\ estranged' \in {estranged, estranged \cup {d}}
      /\ UNCHANGED <<made, log, revoked, disk, flow, known, faults, spine>>
  BY DEF Absorb
<1>2. row \in Row /\ row.epoch <= Len(made)
  <2>1. mem[d].cursor + 1 \in 1 .. Len(log)
    BY <1>0, <1>1 DEF View
  <2> QED
    BY <2>1, ElementOfSeq DEF TypeOK
<1> HIDE DEF row
<1>3. /\ v \in View /\ v.tip <= Len(made) /\ v.pend <= Len(made) /\ v.cursor <= Len(log)
      /\ (v.pend # 0 => v.pend = mem[d].pend /\ v.tip = mem[d].tip)
  <2> DEFINE w == [mem[d] EXCEPT !.cursor = @ + 1]
  <2>1. /\ w \in View /\ w.tip = mem[d].tip /\ w.pend = mem[d].pend
        /\ w.props = mem[d].props /\ w.cursor = mem[d].cursor + 1
    BY <1>0, <1>1, BoundAssumption DEF View
  <2>2. v = IF Follows(d, row) THEN [w EXCEPT !.tip = row.epoch, !.pend = 0, !.props = {}]
            ELSE IF Keeps(d, row) THEN [w EXCEPT !.props = @ \cup {row.who}] ELSE w
    BY DEF AfterRow
  <2> HIDE DEF v, w
  <2>3. CASE Follows(d, row)
    <3>1. 0 \in Epochs /\ 0 <= Len(made)
      BY LenProperties, BoundAssumption DEF Epochs, TypeOK
    <3>2. row.epoch \in Epochs /\ {} \in SUBSET Device
      BY <1>2 DEF Row
    <3>3. v = [w EXCEPT !.tip = row.epoch, !.pend = 0, !.props = {}]
      BY <2>2, <2>3
    <3>4. v \in View /\ v.tip = row.epoch /\ v.pend = 0 /\ v.cursor = w.cursor
      BY <2>1, <3>1, <3>2, <3>3 DEF View
    <3>5. w.cursor <= Len(log)
      BY <1>0, <1>1, <2>1 DEF View
    <3> QED
      BY <1>2, <3>1, <3>4, <3>5
  <2>4. CASE ~Follows(d, row) /\ Keeps(d, row)
    BY <1>0, <1>1, <1>2, <2>1, <2>2, <2>4 DEF View, Row
  <2>5. CASE ~Follows(d, row) /\ ~Keeps(d, row)
    BY <1>0, <1>1, <2>1, <2>2, <2>5 DEF View
  <2> QED
    BY <2>3, <2>4, <2>5
<1> HIDE DEF v
<1>4. v.pend # 0 => made[v.pend].base = v.tip /\ made[v.pend].by = d
  BY <1>3 DEF TypeOK, PendingFits
<1>5. v.cursor <= Len(log') /\ Len(log) <= Len(log') /\ Len(log') \in Nat
  BY <1>0, <1>1, <1>3
<1>6. mem' \in [Device -> View] /\ PendingFits'
  BY <1>1, <1>3, <1>4, <1>5, ViewTaken
<1> QED
  BY <1>1, <1>6 DEF TypeOK

(* A Welcome opened gives a view of an epoch there is.                     *)
LEMMA JoinType ==
  ASSUME TypeOK, NEW d \in Device, Join(d)
  PROVE  TypeOK'
<1>1. PICK k \in 1 .. Len(log) :
        /\ mem' = [mem EXCEPT ![d] = [NotJoined EXCEPT !.joined = TRUE, !.tip = log[k].epoch,
                                                       !.cursor = k]]
        /\ estranged' \in {estranged, estranged \cup {d}}
  BY DEF Join
<1> DEFINE v == [NotJoined EXCEPT !.joined = TRUE, !.tip = log[k].epoch, !.cursor = k]
<1>2. /\ known' = [known EXCEPT ![d] = {}]
      /\ UNCHANGED <<made, log, revoked, disk, flow, faults, spine>>
  BY DEF Join
<1>3. log[k] \in Row /\ log[k].epoch <= Len(made) /\ Len(log) \in Nat /\ Len(made) \in Nat
  BY ElementOfSeq, LenProperties DEF TypeOK
<1>4. k \in 0 .. MaxRows
  BY <1>3, BoundAssumption DEF TypeOK
<1>5. /\ v \in View /\ v.tip <= Len(made) /\ v.pend = 0 /\ v.pend <= Len(made)
      /\ v.cursor <= Len(log)
  <2>1. log[k].epoch \in Epochs
    BY <1>3 DEF Row
  <2>2. v \in View
    BY <1>4, <2>1, StartShapes DEF View
  <2>3. v.tip = log[k].epoch /\ v.pend = 0 /\ v.cursor = k
    BY DEF NotJoined
  <2> HIDE DEF v
  <2> QED
    BY <1>3, <2>2, <2>3
<1> HIDE DEF v
<1>6. v.cursor <= Len(log') /\ Len(log) <= Len(log') /\ Len(log') \in Nat
  BY <1>2, <1>3, <1>5
<1>7. mem' = [mem EXCEPT ![d] = v]
  BY <1>1 DEF v
<1>8. mem' \in [Device -> View] /\ PendingFits'
  BY <1>2, <1>5, <1>6, <1>7, ViewTaken
<1> QED
  BY <1>1, <1>2, <1>8 DEF TypeOK

(* A proposal to leave is kept, and its row may land.                      *)
LEMMA LeaveType ==
  ASSUME TypeOK, NEW d \in Device, Leave(d)
  PROVE  TypeOK'
<1> DEFINE row == [kind |-> "leave", epoch |-> mem[d].tip, sound |-> TRUE, who |-> d]
           v   == [mem[d] EXCEPT !.props = @ \cup {d}]
<1>0. /\ mem[d] \in View /\ mem[d].tip <= Len(made) /\ mem[d].pend <= Len(made)
      /\ mem[d].cursor <= Len(log) /\ Len(log) \in Nat
  BY LenProperties DEF TypeOK, PendingFits
<1>1. row \in Row /\ row.epoch <= Len(made)
  BY <1>0 DEF Row, View
<1>2. /\ v \in View /\ v.tip = mem[d].tip /\ v.pend = mem[d].pend /\ v.cursor = mem[d].cursor
  BY <1>0 DEF View
<1>3. /\ mem' = [mem EXCEPT ![d] = v] /\ UNCHANGED <<made, revoked, disk, flow, known, estranged>>
      /\ \/ Land(row) /\ UNCHANGED faults
         \/ faults < MaxFaults /\ faults' = faults + 1 /\ UNCHANGED <<log, spine>>
  BY DEF Leave
<1> HIDE DEF row, v
<1>4. LogFits' /\ Len(log) <= Len(log') /\ Len(log') \in Nat
  <2>1. CASE Land(row)
    BY <1>0, <1>1, <1>3, <2>1, LandShape
  <2>2. CASE UNCHANGED <<log, spine>>
    BY <1>0, <1>3, <2>2 DEF TypeOK, LogFits
  <2> QED
    BY <1>3, <2>1, <2>2
<1>5. faults' \in 0 .. MaxFaults
  BY <1>3, BoundAssumption DEF TypeOK
<1>6. v.cursor <= Len(log') /\ v.tip <= Len(made) /\ v.pend <= Len(made)
  BY <1>0, <1>2, <1>4 DEF View
<1>7. v.pend # 0 => made[v.pend].base = v.tip /\ made[v.pend].by = d
  BY <1>2 DEF TypeOK, PendingFits
<1>8. mem' \in [Device -> View] /\ PendingFits'
  BY <1>2, <1>3, <1>4, <1>6, <1>7, ViewTaken
<1> QED
  BY <1>3, <1>4, <1>5, <1>8 DEF TypeOK, LogFits

(* Whatever a user or a poll asks for is the making of one commit.         *)
Asks(d) ==
  \/ Housekeeping(d) \/ AddAccount(d) \/ RemoveAccount(d) \/ SetRoles(d) \/ SetLifetime(d)

LEMMA AsksPrepare ==
  ASSUME TypeOK, NEW d \in Device, Asks(d)
  PROVE  \E f \in Flows, tree \in Tree, guest \in SUBSET Device : Prepare(d, f, tree, guest)
<1> USE WantedTrees DEF Flows
<1>1. CASE AddOwnDevice(d)
  <2>1. PICK n \in OwnMissing(d) : Prepare(d, "poll", With(MyTree(d), n), {n})
    BY <1>1 DEF AddOwnDevice
  <2>2. n \in Device
    BY DEF OwnMissing
  <2> QED
    BY <2>1, <2>2
<1>2. CASE Evict(d)
  <2>1. PICK r \in Evictable(d) : Prepare(d, "poll", Without(MyTree(d), r), {})
    BY <1>2 DEF Evict
  <2>2. r \in Device
    BY MyTreeShape DEF Evictable, Tree
  <2> QED
    BY <2>1, <2>2
<1>3. CASE AddAccount(d)
  <2>1. PICK n \in Invitable(d) : Prepare(d, "user", With(MyTree(d), n), {n})
    BY <1>3 DEF AddAccount
  <2>2. n \in Device
    BY <2>1 DEF Invitable
  <2> QED
    BY <2>1, <2>2
<1>4. CASE RemoveAccount(d)
  <2>1. PICK r \in Removable(d) : Prepare(d, "user", Without(MyTree(d), r), {})
    BY <1>4 DEF RemoveAccount
  <2>2. r \in Device
    BY MyTreeShape DEF Removable, Tree
  <2> QED
    BY <2>1, <2>2
<1>5. CASE SetRoles(d)
  BY <1>5 DEF SetRoles
<1>6. CASE SetLifetime(d)
  BY <1>6 DEF SetLifetime
<1> QED
  BY <1>1, <1>2, <1>3, <1>4, <1>5, <1>6 DEF Asks, Housekeeping

(* Every action keeps every variable's shape and what is pending in step.  *)
LEMMA TypeStep == TypeOK /\ [Next]_vars => TypeOK'
<1> SUFFICES ASSUME TypeOK, [Next]_vars PROVE TypeOK'
  OBVIOUS
<1>1. ASSUME NEW d \in Device, Asks(d) PROVE TypeOK'
  BY <1>1, AsksPrepare, PrepareType
<1>2. ASSUME NEW d \in Device, NEW f \in Flows,
             Answer(d, f) \/ CommitFails(d, f) \/ WelcomeFails(d, f)
      PROVE  TypeOK'
  BY <1>2, AnswerType
<1>3. ASSUME NEW d \in Device, Leave(d) \/ Absorb(d) \/ Join(d) PROVE TypeOK'
  BY <1>3, LeaveType, AbsorbType, JoinType
<1>4. ASSUME NEW d \in Device, Resolve(d) PROVE TypeOK'
  <2>1. /\ \E keys \in SUBSET revoked : known' = [known EXCEPT ![d] = keys]
        /\ UNCHANGED <<made, log, revoked, mem, disk, flow, faults, spine, estranged>>
    BY <1>4 DEF Resolve
  <2>2. known' \in [Device -> SUBSET Device]
    BY <2>1 DEF TypeOK
  <2> QED
    BY <2>1, <2>2, Untouched DEF TypeOK
<1>5. ASSUME NEW d \in Device, Save(d) PROVE TypeOK'
  <2>1. disk' = [disk EXCEPT ![d] = mem[d]]
        /\ UNCHANGED <<made, log, revoked, mem, flow, known, faults, spine, estranged>>
    BY <1>5 DEF Save
  <2>2. disk' \in [Device -> View]
        /\ disk'[d] = mem[d] /\ \A x \in Device \ {d} : disk'[x] = disk[x]
    BY <2>1 DEF TypeOK
  <2>3. PendingFits'
    BY <2>1, <2>2 DEF TypeOK, PendingFits
  <2> QED
    BY <2>1, <2>2, <2>3 DEF TypeOK
<1>6. ASSUME NEW d \in Device, Crash(d) PROVE TypeOK'
  <2> DEFINE v == disk[d]
  <2>1. /\ mem' = [mem EXCEPT ![d] = v] /\ flow' = [flow EXCEPT ![d] = Rest]
        /\ known' = [known EXCEPT ![d] = {}] /\ faults' \in 0 .. MaxFaults
        /\ estranged' \in {estranged, estranged \cup {d}}
        /\ UNCHANGED <<made, log, revoked, disk, spine>>
    BY <1>6, BoundAssumption DEF Crash, TypeOK
  <2>2. /\ v \in View /\ v.tip <= Len(made) /\ v.pend <= Len(made) /\ v.cursor <= Len(log)
        /\ v.pend # 0 => made[v.pend].base = v.tip /\ made[v.pend].by = d
    BY DEF TypeOK, PendingFits
  <2>3. Len(log) <= Len(log') /\ Len(log') \in Nat /\ v.cursor <= Len(log') /\ 0 <= Len(made)
    BY <2>1, <2>2, LenProperties DEF TypeOK
  <2> HIDE DEF v
  <2>4. mem' \in [Device -> View] /\ PendingFits'
    BY <2>1, <2>2, <2>3, ViewTaken
  <2>5. /\ flow' \in [Device -> [Flows -> Step]]
        /\ \A x \in Device, f \in Flows : flow'[x][f].epoch <= Len(made')
    <3>1. \A f \in Flows : Rest[f].epoch = 0
      BY DEF Rest, Idle, Flows
    <3> QED
      BY <2>1, <2>3, <3>1, StartShapes DEF TypeOK
  <2> QED
    BY <2>1, <2>4, <2>5 DEF TypeOK
<1>7. ASSUME NEW d \in Device, NEW r \in Device, Revoke(d, r) PROVE TypeOK'
  <2>1. revoked' = revoked \cup {r}
        /\ UNCHANGED <<made, log, mem, disk, flow, known, faults, spine, estranged>>
    BY <1>7 DEF Revoke
  <2> QED
    BY <2>1, Untouched DEF TypeOK
<1>8. CASE UNCHANGED vars
  <2>1. UNCHANGED <<made, log, revoked, mem, disk, flow, known, faults, spine, estranged>>
    BY <1>8 DEF vars
  <2> QED
    BY <2>1, Untouched DEF TypeOK
<1> QED
  BY <1>1, <1>2, <1>3, <1>4, <1>5, <1>6, <1>7, <1>8 DEF Next, Asks

(* Types, and the fit of what is pending, in every reachable state: a      *)
(* device can only merge a commit of its own, made in the epoch it is in   *)
(* (publishAndApply, clear_pending of a merge).                            *)
THEOREM TypeCorrect == Spec => []TypeOK
<1> QED
  BY TypeInit, TypeStep, PTL DEF Spec

(***************************************************************************)
(* The admin's seat.  An epoch enters the spine in one step only, when its *)
(* row lands, and then Authorize was satisfied against the tree of its     *)
(* base; afterwards neither its tree nor its base's changes.               *)
(***************************************************************************)

Kept(c) == c = 0 \/ Seated(TreeOf(c)) \/ TreeOf(c).admin # TreeOf(made[c].base).admin

(* A commit the policy lets through keeps a device of the sitting admin,   *)
(* so the group it leads to has its admin, unless it names another.        *)
LEMMA AuthorizedKeeps ==
  ASSUME TypeOK, NEW c \in Epochs, c # 0, c <= Len(made), NEW keys,
         Authorize(TreeOf(made[c].base), made[c], keys)
  PROVE  Kept(c)
<1> DEFINE t == TreeOf(made[c].base)
<1>1. TreeOf(c) = made[c].tree
  BY DEF TreeOf
<1>2. CASE t.admin = Flat
  BY <1>1, <1>2 DEF Kept, Seated
<1>3. CASE t.admin # Flat
  <2>1. PICK r \in t.members \ Removed(t, made[c]) : Owner[r] = t.admin
    BY <1>3 DEF Authorize
  <2>2. r \in TreeOf(c).members
    BY <1>1, <2>1 DEF Removed
  <2> QED
    BY <2>1, <2>2 DEF Kept, Seated
<1> QED
  BY <1>2, <1>3

(* What is true of an epoch there is stays true while commits are made.    *)
LEMMA KeptStays ==
  ASSUME TypeOK, NEW c \in Epochs, c <= Len(made), Kept(c),
         \A k \in 1 .. Len(made) : made'[k] = made[k]
  PROVE  Kept(c)'
<1>1. CASE c = 0
  BY <1>1 DEF Kept
<1>2. CASE c # 0
  <2>1. c \in 1 .. Len(made) /\ Len(made) \in Nat
    BY <1>2, LenProperties DEF TypeOK, Epochs
  <2>2. made[c] \in Commit /\ made[c].base < c
    BY <2>1, ElementOfSeq DEF TypeOK
  <2>3. made[c].base = 0 \/ made[c].base \in 1 .. Len(made)
    BY <2>1, <2>2 DEF Commit, Epochs
  <2>4. TreeOf(c)' = TreeOf(c) /\ TreeOf(made[c].base)' = TreeOf(made[c].base)
    BY <2>1, <2>3 DEF TreeOf
  <2> QED
    BY <1>2, <2>1, <2>4 DEF Kept, Seated
<1> QED
  BY <1>1, <1>2

(* A row that lands adds to the spine an epoch it had, or one that the     *)
(* policy let through.                                                     *)
LEMMA LandKeeps ==
  ASSUME TypeOK, AdminKept, NEW row \in Row, row.epoch <= Len(made), Land(row), UNCHANGED made
  PROVE  AdminKept'
<1> DEFINE e == IF row.kind = "commit" /\ Extends(row.epoch) THEN row.epoch ELSE Canon
<1>1. e \in Epochs /\ e <= Len(made) /\ Len(spine) \in Nat /\ spine \in Seq(Epochs)
  BY CanonShape, LenProperties DEF Row, TypeOK
<1>2. Kept(e)
  <2>1. CASE row.kind = "commit" /\ Extends(row.epoch) /\ row.epoch # 0
    BY <2>1, AuthorizedKeeps DEF Extends, Row
  <2>2. CASE e = Canon
    <3>1. CASE spine = <<>>
      BY <2>2, <3>1 DEF Canon, Kept
    <3>2. CASE spine # <<>>
      <4>1. Len(spine) \in 1 .. Len(spine)
        BY <1>1, <3>2, EmptySeq
      <4> QED
        BY <2>2, <3>2, <4>1 DEF Canon, AdminKept, Kept
    <3> QED
      BY <3>1, <3>2
  <2>3. CASE e = 0
    BY <2>3 DEF Kept
  <2> QED
    BY <2>1, <2>2, <2>3
<1>3. spine' = Append(spine, e)
  BY DEF Land
<1> HIDE DEF e
<1>4. /\ Len(spine') = Len(spine) + 1 /\ spine'[Len(spine) + 1] = e
      /\ \A k \in 1 .. Len(spine) : spine'[k] = spine[k]
  BY <1>1, <1>3, Appended
<1> SUFFICES ASSUME NEW k \in 1 .. Len(spine') PROVE Kept(spine'[k])
  BY DEF AdminKept, Kept, TreeOf, Seated
<1>5. k \in 1 .. Len(spine) \/ k = Len(spine) + 1
  BY <1>1, <1>4
<1>6. CASE k \in 1 .. Len(spine)
  BY <1>4, <1>6 DEF AdminKept, Kept
<1>7. CASE k = Len(spine) + 1
  BY <1>2, <1>4, <1>7
<1> QED
  BY <1>5, <1>6, <1>7

(* No step unseats the admin by a commit the members follow.               *)
LEMMA AdminStep == TypeOK /\ AdminKept /\ [Next]_vars => AdminKept'
<1> SUFFICES ASSUME TypeOK, AdminKept, [Next]_vars PROVE AdminKept'
  OBVIOUS
<1>1. ASSUME UNCHANGED spine, \A k \in 1 .. Len(made) : made'[k] = made[k]
      PROVE  AdminKept'
  <2> SUFFICES ASSUME NEW k \in 1 .. Len(spine) PROVE Kept(spine[k])'
    BY <1>1 DEF AdminKept, Kept
  <2>1. spine[k] \in Epochs /\ spine[k] <= Len(made) /\ Kept(spine[k])
    BY ElementOfSeq DEF TypeOK, AdminKept, Kept
  <2>2. ASSUME NEW c \in Epochs, c = spine[k] PROVE Kept(c)'
    BY <1>1, <2>1, <2>2, KeptStays
  <2>3. PICK c \in Epochs : c = spine[k]
    BY <2>1
  <2>4. Kept(c)'
    BY <2>2, <2>3
  <2> QED
    BY <1>1, <2>3, <2>4 DEF Kept
<1>2. ASSUME NEW d \in Device, Asks(d) PROVE AdminKept'
  BY <1>1, <1>2, AsksPrepare, PrepareType
<1>3. ASSUME NEW d \in Device, NEW f \in Flows, CommitLands(d, f) PROVE AdminKept'
  <2> DEFINE row == [kind |-> "commit", epoch |-> flow[d][f].epoch, sound |-> TRUE, who |-> d]
  <2>1. flow[d][f] \in Step /\ flow[d][f].epoch <= Len(made)
    BY DEF TypeOK
  <2>2. row \in Row /\ row.epoch <= Len(made)
    BY <2>1 DEF Row, Step
  <2>3. Land(row) /\ UNCHANGED made
    BY <1>3 DEF CommitLands
  <2> HIDE DEF row
  <2> QED
    BY <2>2, <2>3, LandKeeps
<1>4. ASSUME NEW d \in Device, NEW f \in Flows, WelcomeLands(d, f) PROVE AdminKept'
  <2>1. flow[d][f] \in Step /\ flow[d][f].epoch <= Len(made)
    BY DEF TypeOK
  <2>2. PICK n \in flow[d][f].guest :
          Land([kind |-> "welcome", epoch |-> flow[d][f].epoch,
                sound |-> flow[d][f].sound, who |-> n])
    BY <1>4 DEF WelcomeLands
  <2> DEFINE row == [kind |-> "welcome", epoch |-> flow[d][f].epoch,
                     sound |-> flow[d][f].sound, who |-> n]
  <2>3. row \in Row /\ row.epoch <= Len(made) /\ Land(row) /\ UNCHANGED made
    BY <1>4, <2>1, <2>2 DEF Row, Step, WelcomeLands
  <2> HIDE DEF row
  <2> QED
    BY <2>3, LandKeeps
<1>5. ASSUME NEW d \in Device, Leave(d) PROVE AdminKept'
  <2> DEFINE row == [kind |-> "leave", epoch |-> mem[d].tip, sound |-> TRUE, who |-> d]
  <2>1. mem[d] \in View /\ mem[d].tip <= Len(made)
    BY DEF TypeOK, PendingFits
  <2>2. row \in Row /\ row.epoch <= Len(made)
    BY <2>1 DEF Row, View
  <2>3. UNCHANGED made /\ (Land(row) \/ UNCHANGED spine)
    BY <1>5 DEF Leave
  <2> HIDE DEF row
  <2> QED
    BY <1>1, <2>2, <2>3, LandKeeps
<1>6. ASSUME NEW d \in Device, NEW f \in Flows,
             CommitAnswered(d, f) \/ CommitFails(d, f) \/ WelcomeFails(d, f)
      PROVE  AdminKept'
  BY <1>1, <1>6 DEF CommitAnswered, CommitFails, WelcomeFails
<1>7. ASSUME NEW d \in Device,
             \/ Absorb(d) \/ Join(d) \/ Resolve(d) \/ Save(d) \/ Crash(d)
             \/ \E r \in Device : Revoke(d, r)
      PROVE  AdminKept'
  BY <1>1, <1>7 DEF Absorb, Join, Resolve, Save, Crash, Revoke
<1>8. CASE UNCHANGED vars
  BY <1>1, <1>8 DEF vars
<1> QED
  BY <1>2, <1>3, <1>4, <1>5, <1>6, <1>7, <1>8 DEF Next, Asks, Answer

(* roles::authorize, last rule: for any members, roles, departures and     *)
(* revocations, no commit the members follow takes the admin's last device *)
(* out of the group, but for a hand-over to an account on its way out.    *)
THEOREM AdminStaysSeated == Spec => []AdminKept
<1>1. Init => AdminKept
  BY DEF Init, AdminKept
<1> QED
  BY <1>1, TypeInit, TypeStep, AdminStep, PTL DEF Spec

----------------------------------------------------------------------------
(* Members that read everything agree: OnCourse and Agreement.             *)
(*                                                                         *)
(* The argument.  The spine never goes back: each new epoch of it was made *)
(* from the one before, and no epoch of it lies between an epoch and the   *)
(* one that was made from it.  A member that is not estranged is level     *)
(* with its cursor: only commits of its own separate the epoch it is in    *)
(* from the one its cursor has reached.  And a commit of its own that is   *)
(* on the spine ahead of it is one it still has to be answered for.        *)

Between(c, a, b) == (a < c /\ c <= b) \/ (b < c /\ c <= a)

(* The rows that are commits name one; each row leaves the spine where it  *)
(* was or moves it to the commit it carries, made from there; so it never  *)
(* goes back, and an epoch has nothing of it between its base and itself.  *)
RowsName == \A k \in 1 .. Len(log) : log[k].kind = "commit" => log[k].epoch # 0

Moves == \A k \in 1 .. Len(spine) :
  spine[k] = SpineAt(k - 1) \/ (log[k].kind = "commit" /\ spine[k] = log[k].epoch)

Sorted == \A j, k \in 0 .. Len(spine) : j <= k => SpineAt(j) <= SpineAt(k)

Tight == \A k \in 1 .. Len(spine) : \A j \in 0 .. Len(spine) :
  spine[k] # 0 /\ made[spine[k]].base < SpineAt(j) => spine[k] <= SpineAt(j)

SpineOK == RowsName /\ Moves /\ Sorted /\ Tight

(* What a flow posts, its device made; what is pending was made by a       *)
(* member; and a device that has not joined is at no epoch.                *)
FlowOK == \A d \in Device : \A f \in Flows : flow[d][f].pc \in {"posting", "landed"} =>
  flow[d][f].epoch # 0 /\ made[flow[d][f].epoch].by = d

PendOK == \A d \in Device : \A v \in {mem[d], disk[d]} :
  /\ v.pend # 0 => v.joined /\ d \in TreeOf(v.tip).members
  /\ ~v.joined => v.tip = 0

(* A view is level with its cursor.                                        *)
Level(d, v) ==
  /\ OnSpine(v.tip)
  /\ \A k \in 0 .. Len(spine) :
       Between(SpineAt(k), v.tip, SpineAt(v.cursor)) => made[SpineAt(k)].by = d

LevelOK == \A d \in Device \ estranged : \A v \in {mem[d], disk[d]} :
  v.joined /\ d \in TreeOf(v.tip).members => Level(d, v)

(* Our own commit ahead of us is one we are still to be answered for.      *)
AheadOK == \A d \in Device \ estranged : \A k \in 1 .. Len(spine) :
  mem[d].tip < spine[k] /\ made[spine[k]].by = d =>
    \E f \in Flows : flow[d][f].pc = "landed" /\ flow[d][f].epoch = spine[k]

Course == TypeOK /\ SpineOK /\ FlowOK /\ PendOK /\ LevelOK /\ AheadOK

-----------------------------------------------------------------------------
(* Shapes, in the form the proofs use them.                                *)

(* The epochs of the spine are numbers of commits there are.               *)
LEMMA SpineShape ==
  ASSUME TypeOK
  PROVE  /\ Len(made) \in Nat /\ Len(spine) \in Nat /\ Len(log) = Len(spine)
         /\ \A k \in 0 .. Len(spine) : SpineAt(k) \in Nat /\ SpineAt(k) <= Len(made)
         /\ \A k \in 1 .. Len(spine) : SpineAt(k) = spine[k]
         /\ Canon = SpineAt(Len(spine))
<1>1. Len(made) \in Nat /\ Len(spine) \in Nat /\ Len(log) = Len(spine)
  BY LenProperties DEF TypeOK
<1>2. \A k \in 1 .. Len(spine) : SpineAt(k) = spine[k]
  BY <1>1 DEF SpineAt
<1>3. SpineAt(0) = 0
  BY DEF SpineAt
<1>4. \A k \in 1 .. Len(spine) : spine[k] \in Nat /\ spine[k] <= Len(made)
  BY ElementOfSeq, BoundAssumption DEF TypeOK, Epochs
<1>5. Canon = SpineAt(Len(spine))
  <2>1. CASE spine = <<>>
    BY <1>3, <2>1 DEF Canon
  <2>2. CASE spine # <<>>
    <3>1. Len(spine) # 0
      BY <2>2, EmptySeq DEF TypeOK
    <3> QED
      BY <2>2, <3>1 DEF Canon, SpineAt
  <2> QED
    BY <2>1, <2>2
<1>6. \A k \in 0 .. Len(spine) : k = 0 \/ k \in 1 .. Len(spine)
  BY <1>1
<1> QED
  BY <1>1, <1>2, <1>3, <1>4, <1>5, <1>6

(* A view's fields are numbers, of commits and rows there are.             *)
LEMMA ViewShape ==
  ASSUME TypeOK, NEW d \in Device, NEW v \in {mem[d], disk[d]}
  PROVE  /\ v \in View /\ v.tip \in Nat /\ v.pend \in Nat /\ v.cursor \in Nat
         /\ v.tip <= Len(made) /\ v.pend <= Len(made) /\ v.cursor <= Len(spine)
         /\ v.pend # 0 => made[v.pend].base = v.tip /\ made[v.pend].by = d /\ v.tip < v.pend
<1>1. v \in View /\ v.tip <= Len(made) /\ v.pend <= Len(made) /\ v.cursor <= Len(spine)
      /\ (v.pend # 0 => made[v.pend].base = v.tip /\ made[v.pend].by = d)
  BY DEF TypeOK, PendingFits
<1>2. v.tip \in Nat /\ v.pend \in Nat /\ v.cursor \in Nat
  BY <1>1, BoundAssumption DEF View, Epochs
<1>3. v.pend # 0 => v.pend \in 1 .. Len(made)
  BY <1>1, <1>2, SpineShape
<1> QED
  BY <1>1, <1>2, <1>3 DEF TypeOK

-----------------------------------------------------------------------------
(* What a step does to the commits, the log and the spine.                 *)

Grown ==
  /\ Len(made) <= Len(made') /\ \A k \in 1 .. Len(made) : made'[k] = made[k]
  /\ \A k \in 1 .. Len(log) : log'[k] = log[k]
  /\ Len(spine) <= Len(spine') /\ \A k \in 1 .. Len(spine) : spine'[k] = spine[k]
  /\ estranged \subseteq estranged'

(* A row lands: which, and whether it is a commit one of our flows posted. *)
Lands(row) ==
  /\ Land(row) /\ row.epoch <= Len(made) /\ UNCHANGED made
  /\ row.kind = "commit" =>
       \E d \in Device, f \in Flows : CommitLands(d, f) /\ row.epoch = flow[d][f].epoch

(* Commits are made, or a row lands, or neither.                           *)
LEMMA Steps ==
  TypeOK /\ [Next]_vars =>
    \/ UNCHANGED <<log, spine>> /\ \A k \in 1 .. Len(made) : made'[k] = made[k]
    \/ \E row \in Row : Lands(row)
<1> SUFFICES ASSUME TypeOK, [Next]_vars
             PROVE  \/ UNCHANGED <<log, spine>> /\ \A k \in 1 .. Len(made) : made'[k] = made[k]
                    \/ \E row \in Row : Lands(row)
  OBVIOUS
<1>1. ASSUME NEW d \in Device, Asks(d)
      PROVE  UNCHANGED <<log, spine>> /\ \A k \in 1 .. Len(made) : made'[k] = made[k]
  <2>1. PICK f \in Flows, tree \in Tree, guest \in SUBSET Device : Prepare(d, f, tree, guest)
    BY <1>1, AsksPrepare
  <2>2. UNCHANGED log
    BY <2>1 DEF Prepare
  <2> QED
    BY <2>1, <2>2, PrepareType
<1>2. ASSUME NEW d \in Device, NEW f \in Flows, CommitLands(d, f) PROVE \E row \in Row : Lands(row)
  <2> DEFINE row == [kind |-> "commit", epoch |-> flow[d][f].epoch, sound |-> TRUE, who |-> d]
  <2>1. flow[d][f] \in Step /\ flow[d][f].epoch <= Len(made)
    BY DEF TypeOK
  <2>2. row \in Row /\ row.epoch <= Len(made) /\ row.epoch = flow[d][f].epoch
    BY <2>1 DEF Row, Step
  <2>3. Land(row) /\ UNCHANGED made
    BY <1>2 DEF CommitLands
  <2> HIDE DEF row
  <2> QED
    BY <1>2, <2>2, <2>3 DEF Lands
<1>3. ASSUME NEW d \in Device, NEW f \in Flows, WelcomeLands(d, f) PROVE \E row \in Row : Lands(row)
  <2>1. flow[d][f] \in Step /\ flow[d][f].epoch <= Len(made)
    BY DEF TypeOK
  <2>2. PICK n \in flow[d][f].guest :
          Land([kind |-> "welcome", epoch |-> flow[d][f].epoch,
                sound |-> flow[d][f].sound, who |-> n])
    BY <1>3 DEF WelcomeLands
  <2> DEFINE row == [kind |-> "welcome", epoch |-> flow[d][f].epoch,
                     sound |-> flow[d][f].sound, who |-> n]
  <2>3. row \in Row /\ row.epoch <= Len(made) /\ row.kind # "commit" /\ Land(row) /\ UNCHANGED made
    BY <1>3, <2>1, <2>2 DEF Row, Step, WelcomeLands
  <2> HIDE DEF row
  <2> QED
    BY <2>3 DEF Lands
<1>4. ASSUME NEW d \in Device, Leave(d)
      PROVE  UNCHANGED <<made, log, spine>> \/ \E row \in Row : Lands(row)
  <2> DEFINE row == [kind |-> "leave", epoch |-> mem[d].tip, sound |-> TRUE, who |-> d]
  <2>1. mem[d] \in View /\ mem[d].tip <= Len(made)
    BY DEF TypeOK, PendingFits
  <2>2. row \in Row /\ row.epoch <= Len(made) /\ row.kind # "commit"
    BY <2>1 DEF Row, View
  <2>3. UNCHANGED made /\ (Land(row) \/ UNCHANGED <<log, spine>>)
    BY <1>4 DEF Leave
  <2> HIDE DEF row
  <2> QED
    BY <2>2, <2>3 DEF Lands
<1>5. ASSUME NEW d \in Device, NEW f \in Flows,
             CommitAnswered(d, f) \/ CommitFails(d, f) \/ WelcomeFails(d, f)
      PROVE  UNCHANGED <<made, log, spine>>
  BY <1>5 DEF CommitAnswered, CommitFails, WelcomeFails
<1>6. ASSUME NEW d \in Device,
             \/ Absorb(d) \/ Join(d) \/ Resolve(d) \/ Save(d) \/ Crash(d)
             \/ \E r \in Device : Revoke(d, r)
      PROVE  UNCHANGED <<made, log, spine>>
  BY <1>6 DEF Absorb, Join, Resolve, Save, Crash, Revoke
<1>7. CASE UNCHANGED vars
  BY <1>7 DEF vars
<1> QED
  BY <1>1, <1>2, <1>3, <1>4, <1>5, <1>6, <1>7 DEF Next, Asks, Answer

(* A row that lands adds one epoch to the spine.                           *)
LEMMA Landed ==
  ASSUME TypeOK, NEW row \in Row, Lands(row)
  PROVE  \E e \in Epochs :
           /\ e = Canon \/ (row.kind = "commit" /\ e = row.epoch /\ made[e].base = Canon)
           /\ e <= Len(made)
           /\ Len(spine') = Len(spine) + 1 /\ spine'[Len(spine) + 1] = e
           /\ \A k \in 1 .. Len(spine) : spine'[k] = spine[k]
           /\ Len(log') = Len(log) + 1 /\ log'[Len(log) + 1] = row
           /\ \A k \in 1 .. Len(log) : log'[k] = log[k]
<1> DEFINE e == IF row.kind = "commit" /\ Extends(row.epoch) THEN row.epoch ELSE Canon
<1>1. e \in Epochs /\ e <= Len(made)
  BY CanonShape DEF Row, Lands
<1>2. e = Canon \/ (row.kind = "commit" /\ e = row.epoch /\ made[e].base = Canon)
  BY DEF Extends
<1>3. log' = Append(log, row) /\ spine' = Append(spine, e)
  BY DEF Lands, Land
<1> HIDE DEF e
<1>4. log \in Seq(Row) /\ spine \in Seq(Epochs)
  BY DEF TypeOK
<1> QED
  BY <1>1, <1>2, <1>3, <1>4, Appended

(* A commit is made at the end of those there are, by the device that      *)
(* makes it.                                                               *)
LEMMA MadeOne ==
  ASSUME TypeOK, NEW d \in Device, NEW f \in Flows, NEW tree \in Tree, NEW guest \in SUBSET Device,
         Prepare(d, f, tree, guest)
  PROVE  /\ Len(made') = Len(made) + 1 /\ made'[Len(made) + 1].by = d
         /\ \A k \in 1 .. Len(made) : made'[k] = made[k]
<1> DEFINE leaves == mem[d].props \cap tree.members
           c      == [base |-> mem[d].tip, by |-> d, leaves |-> leaves,
                      tree |-> [tree EXCEPT !.members = @ \ leaves]]
<1>1. mem[d] \in View
  BY DEF TypeOK
<1>2. c \in Commit /\ c.by = d
  BY <1>1 DEF Commit, Tree, View
<1>3. made' = Append(made, c)
  BY DEF Prepare
<1> HIDE DEF c
<1> QED
  BY <1>2, <1>3, Appended DEF TypeOK

(* Only Prepare makes commits.                                             *)
LEMMA OtherSteps ==
  [Next]_vars => UNCHANGED made \/ \E d \in Device : Asks(d)
<1> SUFFICES ASSUME [Next]_vars PROVE UNCHANGED made \/ \E d \in Device : Asks(d)
  OBVIOUS
<1>1. ASSUME NEW d \in Device, NEW f \in Flows,
             Answer(d, f) \/ CommitFails(d, f) \/ WelcomeFails(d, f)
      PROVE  UNCHANGED made
  BY <1>1 DEF Answer, CommitLands, WelcomeLands, CommitAnswered, CommitFails, WelcomeFails
<1>2. ASSUME NEW d \in Device,
             \/ Leave(d) \/ Absorb(d) \/ Join(d) \/ Resolve(d) \/ Save(d) \/ Crash(d)
             \/ \E r \in Device : Revoke(d, r)
      PROVE  UNCHANGED made
  BY <1>2 DEF Leave, Absorb, Join, Resolve, Save, Crash, Revoke
<1>3. CASE UNCHANGED vars
  BY <1>3 DEF vars
<1> QED
  BY <1>1, <1>2, <1>3 DEF Next, Asks

(* Being estranged is for good.                                            *)
LEMMA Estranging == [Next]_vars => estranged \subseteq estranged'
<1> SUFFICES ASSUME [Next]_vars PROVE estranged \subseteq estranged'
  OBVIOUS
<1>1. ASSUME NEW d \in Device, NEW f \in Flows, NEW tree, NEW guest, Prepare(d, f, tree, guest)
      PROVE  estranged' = estranged
  BY <1>1 DEF Prepare
<1>2. ASSUME NEW d \in Device, Asks(d) PROVE estranged' = estranged
  BY <1>1, <1>2 DEF Asks, Housekeeping, AddOwnDevice, Evict, AddAccount, RemoveAccount, SetRoles,
                    SetLifetime, Flows
<1>3. ASSUME NEW d \in Device, NEW f \in Flows,
             Answer(d, f) \/ CommitFails(d, f) \/ WelcomeFails(d, f)
      PROVE  estranged \subseteq estranged'
  BY <1>3, Zenon DEF Answer, CommitLands, WelcomeLands, CommitAnswered, CommitFails, WelcomeFails
<1>4. ASSUME NEW d \in Device,
             \/ Leave(d) \/ Absorb(d) \/ Join(d) \/ Resolve(d) \/ Save(d) \/ Crash(d)
             \/ \E r \in Device : Revoke(d, r)
      PROVE  estranged \subseteq estranged'
  BY <1>4, Zenon DEF Leave, Absorb, Join, Resolve, Save, Crash, Revoke
<1>5. CASE UNCHANGED vars
  BY <1>5 DEF vars
<1> QED
  BY <1>2, <1>3, <1>4, <1>5 DEF Next, Asks

(* Nothing made, ordered or counted as estranged is ever taken back.       *)
LEMMA Growth == TypeOK /\ [Next]_vars => Grown
<1> SUFFICES ASSUME TypeOK, [Next]_vars PROVE Grown
  OBVIOUS
<1>1. Len(made) <= Len(made') /\ \A k \in 1 .. Len(made) : made'[k] = made[k]
  <2>1. ASSUME NEW d \in Device, Asks(d)
        PROVE  Len(made) <= Len(made') /\ \A k \in 1 .. Len(made) : made'[k] = made[k]
    <3>1. PICK f \in Flows, tree \in Tree, guest \in SUBSET Device : Prepare(d, f, tree, guest)
      BY <2>1, AsksPrepare
    <3> QED
      BY <3>1, MadeOne, SpineShape
  <2>2. CASE UNCHANGED made
    BY <2>2, SpineShape
  <2> QED
    BY <2>1, <2>2, OtherSteps
<1>2. /\ \A k \in 1 .. Len(log) : log'[k] = log[k]
      /\ Len(spine) <= Len(spine') /\ \A k \in 1 .. Len(spine) : spine'[k] = spine[k]
  <2>1. CASE UNCHANGED <<log, spine>>
    BY <2>1, SpineShape
  <2>2. ASSUME NEW row \in Row, Lands(row)
        PROVE  /\ \A k \in 1 .. Len(log) : log'[k] = log[k]
               /\ Len(spine) <= Len(spine') /\ \A k \in 1 .. Len(spine) : spine'[k] = spine[k]
    BY <2>2, Landed, SpineShape
  <2> QED
    BY <2>1, <2>2, Steps
<1>3. estranged \subseteq estranged'
  BY Estranging
<1> QED
  BY <1>1, <1>2, <1>3 DEF Grown

(* What was made or ordered reads the same after the step.                 *)
LEMMA Lasting ==
  ASSUME TypeOK, TypeOK', Grown
  PROVE  /\ \A c \in Nat : c <= Len(made) => TreeOf(c)' = TreeOf(c)
         /\ \A k \in 0 .. Len(spine) : SpineAt(k)' = SpineAt(k) /\ k \in 0 .. Len(spine')
         /\ \A c \in Nat : c <= Len(made) /\ OnSpine(c) => OnSpine(c)'
<1>1. Len(made) \in Nat /\ Len(spine) \in Nat /\ Len(spine') \in Nat
  BY SpineShape DEF TypeOK
<1>2. ASSUME NEW c \in Nat, c <= Len(made) PROVE TreeOf(c)' = TreeOf(c)
  BY <1>1, <1>2 DEF TreeOf, Grown
<1>3. ASSUME NEW k \in 0 .. Len(spine) PROVE SpineAt(k)' = SpineAt(k) /\ k \in 0 .. Len(spine')
  BY <1>1 DEF SpineAt, Grown
<1>4. ASSUME NEW c \in Nat, OnSpine(c) PROVE OnSpine(c)'
  BY <1>1, <1>4 DEF OnSpine, Grown
<1> QED
  BY <1>2, <1>3, <1>4

-----------------------------------------------------------------------------
(* The spine.                                                              *)

(* What a flow has posted or posts, its device made (publishAndApply).     *)
LEMMA FlowStep == TypeOK /\ TypeOK' /\ FlowOK /\ [Next]_vars => FlowOK'
<1> SUFFICES ASSUME TypeOK, TypeOK', FlowOK, [Next]_vars,
                    NEW x \in Device, NEW g \in Flows, flow'[x][g].pc \in {"posting", "landed"}
             PROVE  flow'[x][g].epoch # 0 /\ made'[flow'[x][g].epoch].by = x
  BY DEF FlowOK
<1>1. Grown
  BY Growth
<1>2. ASSUME flow'[x][g].epoch = flow[x][g].epoch, flow[x][g].pc \in {"posting", "landed"}
      PROVE  flow'[x][g].epoch # 0 /\ made'[flow'[x][g].epoch].by = x
  <2>1. flow[x][g].epoch \in Nat /\ flow[x][g].epoch <= Len(made)
    BY BoundAssumption DEF TypeOK, Step, Epochs
  <2> QED
    BY <1>1, <1>2, <2>1, SpineShape DEF FlowOK, Grown
<1>3. ASSUME NEW d \in Device, Asks(d)
      PROVE  flow'[x][g].epoch # 0 /\ made'[flow'[x][g].epoch].by = x
  <2>1. PICK f \in Flows, tree \in Tree, guest \in SUBSET Device : Prepare(d, f, tree, guest)
    BY <1>3, AsksPrepare
  <2>2. flow' = [flow EXCEPT ![d][f] = [Idle EXCEPT !.pc = "posting", !.epoch = Len(made) + 1,
                                                    !.guest = guest]]
    BY <2>1 DEF Prepare
  <2>3. CASE x = d /\ g = f
    <3>1. flow'[x][g].epoch = Len(made) + 1
      BY <2>2, <2>3 DEF TypeOK, Idle
    <3> QED
      BY <2>1, <2>3, <3>1, MadeOne, SpineShape
  <2>4. CASE ~(x = d /\ g = f)
    BY <1>2, <2>2, <2>4 DEF TypeOK
  <2> QED
    BY <2>3, <2>4
<1>4. ASSUME NEW d \in Device, NEW f \in Flows, CommitLands(d, f)
      PROVE  flow'[x][g].epoch = flow[x][g].epoch /\ flow[x][g].pc \in {"posting", "landed"}
  <2>1. flow' = [flow EXCEPT ![d][f].pc = "landed"] /\ flow[d][f].pc = "posting"
    BY <1>4 DEF CommitLands
  <2>2. flow \in [Device -> [Flows -> Step]]
    BY DEF TypeOK
  <2>3. flow'[x][g].epoch = flow[x][g].epoch
    BY <2>1, <2>2 DEF Step
  <2>4. ~(x = d /\ g = f) => flow'[x][g] = flow[x][g]
    BY <2>1, <2>2
  <2> QED
    BY <2>1, <2>3, <2>4
<1>5. ASSUME NEW d \in Device, NEW f \in Flows,
             WelcomeLands(d, f) \/ CommitAnswered(d, f) \/ CommitFails(d, f) \/ WelcomeFails(d, f)
      PROVE  flow'[x][g] = flow[x][g]
  <2>1. \E t : flow' = [flow EXCEPT ![d][f] = t] /\ t.pc \notin {"posting", "landed"}
    <3>1. CASE CommitAnswered(d, f)
      <4> DEFINE s == flow[d][f]
                 new == IF mem[d].pend = 0 THEN mem[d].tip ELSE mem[d].pend
                 t == IF s.guest = {} THEN Idle ELSE [s EXCEPT !.pc = "welcome", !.sound = new = s.epoch]
      <4>1. flow' = [flow EXCEPT ![d][f] = t]
        BY <3>1, Zenon DEF CommitAnswered
      <4>2. s \in Step
        BY DEF TypeOK
      <4> HIDE DEF new, s
      <4>3. t.pc \in {"idle", "welcome"}
        BY <4>2 DEF Step, Idle
      <4> HIDE DEF t
      <4> QED
        BY <4>1, <4>3
    <3>2. CASE WelcomeLands(d, f) \/ CommitFails(d, f) \/ WelcomeFails(d, f)
      <4>1. flow' = [flow EXCEPT ![d][f] = Idle] /\ Idle.pc = "idle"
        BY <3>2 DEF WelcomeLands, CommitFails, WelcomeFails, Idle
      <4> QED
        BY <4>1
    <3> QED
      BY <1>5, <3>1, <3>2
  <2>2. PICK t : flow' = [flow EXCEPT ![d][f] = t] /\ t.pc \notin {"posting", "landed"}
    BY <2>1
  <2> QED
    BY <2>2 DEF TypeOK
<1>6. ASSUME NEW d \in Device, Crash(d) PROVE flow'[x][g] = flow[x][g]
  <2>1. flow' = [flow EXCEPT ![d] = Rest] /\ \A f \in Flows : Rest[f].pc = "idle"
    BY <1>6 DEF Crash, Rest, Idle, Flows
  <2> QED
    BY <2>1 DEF TypeOK
<1>7. ASSUME NEW d \in Device,
             \/ Leave(d) \/ Absorb(d) \/ Join(d) \/ Resolve(d) \/ Save(d)
             \/ \E r \in Device : Revoke(d, r)
      PROVE  flow' = flow
  BY <1>7 DEF Leave, Absorb, Join, Resolve, Save, Revoke
<1>8. CASE UNCHANGED vars
  BY <1>2, <1>8 DEF vars
<1> QED
  BY <1>2, <1>3, <1>4, <1>5, <1>6, <1>7, <1>8 DEF Next, Asks, Answer

(* The row that lands finds the spine in order and leaves it so.           *)
LEMMA SpineStep ==
  TypeOK /\ TypeOK' /\ SpineOK /\ FlowOK /\ [Next]_vars => SpineOK'
<1> SUFFICES ASSUME TypeOK, TypeOK', SpineOK, FlowOK, [Next]_vars PROVE SpineOK'
  OBVIOUS
<1>1. Grown
  BY Growth
<1>2. /\ \A k \in 0 .. Len(spine) : SpineAt(k)' = SpineAt(k)
      /\ \A k \in 1 .. Len(spine) : spine'[k] = spine[k] /\ spine[k] \in Nat /\ spine[k] <= Len(made)
      /\ Len(spine) \in Nat /\ Len(made) \in Nat
  BY <1>1, Lasting, SpineShape DEF Grown
<1>3. \A k \in 1 .. Len(spine) : spine[k] # 0 => made'[spine[k]] = made[spine[k]]
  BY <1>1, <1>2 DEF Grown
<1>4. CASE UNCHANGED <<log, spine>>
  <2>1. RowsName' /\ Moves' /\ Sorted'
    BY <1>2, <1>4 DEF SpineOK, RowsName, Moves, Sorted, SpineAt
  <2>2. Tight'
    BY <1>2, <1>3, <1>4 DEF SpineOK, Tight, SpineAt
  <2> QED
    BY <2>1, <2>2 DEF SpineOK
<1>5. ASSUME NEW row \in Row, Lands(row) PROVE SpineOK'
  <2>0. PICK n \in Nat : n = Len(spine)
    BY <1>2
  <2>1. PICK e \in Epochs :
           /\ e = Canon \/ (row.kind = "commit" /\ e = row.epoch /\ made[e].base = Canon)
           /\ e <= Len(made)
           /\ Len(spine') = n + 1 /\ spine'[n + 1] = e
           /\ \A k \in 1 .. n : spine'[k] = spine[k]
           /\ Len(log') = Len(log) + 1 /\ log'[Len(log) + 1] = row
           /\ \A k \in 1 .. Len(log) : log'[k] = log[k]
    BY <1>5, <2>0, Landed
  <2>2. made' = made /\ Len(log) = n /\ Canon = SpineAt(n) /\ n \in Nat
    BY <1>5, <2>0, SpineShape DEF Lands
  <2>3. e \in Nat
    BY <2>1, BoundAssumption DEF Epochs
  <2>4. SpineAt(n + 1)' = e
    BY <2>1, <2>2 DEF SpineAt
  <2>5. row.kind = "commit" => row.epoch # 0
    <3> SUFFICES ASSUME row.kind = "commit" PROVE row.epoch # 0
      OBVIOUS
    <3>1. PICK d \in Device, f \in Flows : CommitLands(d, f) /\ row.epoch = flow[d][f].epoch
      BY <1>5 DEF Lands
    <3> QED
      BY <3>1 DEF CommitLands, FlowOK
  <2>6. SpineAt(n) \in Nat /\ \A k \in 0 .. n : SpineAt(k) \in Nat /\ SpineAt(k) <= SpineAt(n)
    BY <2>0, <1>2, <2>2, SpineShape DEF SpineOK, Sorted
  <2>7. SpineAt(n) <= e
    <3>1. CASE e = Canon
      BY <2>2, <2>6, <3>1
    <3>2. CASE row.kind = "commit" /\ e = row.epoch /\ made[e].base = Canon
      <4>1. e \in 1 .. Len(made)
        BY <1>2, <2>1, <2>3, <2>5, <3>2
      <4>2. made[e].base < e
        BY <4>1 DEF TypeOK
      <4> QED
        BY <2>2, <2>3, <2>6, <3>2, <4>2
    <3> QED
      BY <2>1, <3>1, <3>2
  <2>8. \A k \in 0 .. n + 1 : k = n + 1 \/ k \in 0 .. n
    BY <2>2
  <2>9. \A k \in 1 .. n + 1 : k = n + 1 \/ k \in 1 .. n
    BY <2>2
  <2>10. \A k \in 0 .. n : SpineAt(k)' = SpineAt(k)
    BY <2>0, <1>2
  <2>11. RowsName'
    BY <2>1, <2>2, <2>5, <2>9 DEF SpineOK, RowsName
  <2>12. Moves'
    <3> SUFFICES ASSUME NEW k \in 1 .. n + 1
                 PROVE  \/ spine'[k] = SpineAt(k - 1)'
                        \/ log'[k].kind = "commit" /\ spine'[k] = log'[k].epoch
      BY <2>1 DEF Moves
    <3>1. CASE k = n + 1
      <4>1. SpineAt(k - 1)' = SpineAt(n)
        BY <2>2, <2>10, <3>1
      <4> QED
        BY <2>1, <2>2, <3>1, <4>1
    <3>2. CASE k \in 1 .. n
      <4>1. k - 1 \in 0 .. n
        BY <2>2, <3>2
      <4>2. SpineAt(k - 1)' = SpineAt(k - 1)
        BY <2>10, <4>1
      <4> QED
        BY <2>0, <2>1, <2>2, <3>2, <4>2 DEF SpineOK, Moves
    <3> QED
      BY <2>9, <3>1, <3>2
  <2>13. Sorted'
    <3> SUFFICES ASSUME NEW j \in 0 .. n + 1, NEW k \in 0 .. n + 1, j <= k
                 PROVE  SpineAt(j)' <= SpineAt(k)'
      BY <2>1 DEF Sorted
    <3>1. CASE k \in 0 .. n
      <4>1. j \in 0 .. n
        BY <2>2, <3>1
      <4> QED
        BY <2>0, <2>10, <3>1, <4>1 DEF SpineOK, Sorted
    <3>2. CASE k = n + 1 /\ j \in 0 .. n
      BY <2>3, <2>4, <2>6, <2>7, <2>10, <3>2
    <3>3. CASE k = n + 1 /\ j = n + 1
      BY <2>3, <2>4, <3>3
    <3> QED
      BY <2>8, <3>1, <3>2, <3>3
  <2>14. Tight'
    <3> SUFFICES ASSUME NEW k \in 1 .. n + 1, NEW j \in 0 .. n + 1,
                        spine'[k] # 0, made[spine'[k]].base < SpineAt(j)'
                 PROVE  spine'[k] <= SpineAt(j)'
      BY <2>1, <2>2 DEF Tight
    <3>1. CASE k \in 1 .. n /\ j \in 0 .. n
      BY <2>0, <2>1, <2>10, <3>1 DEF SpineOK, Tight
    <3>2. CASE k \in 1 .. n /\ j = n + 1
      <4>1. spine[k] = SpineAt(k) /\ k \in 0 .. n
        BY <2>0, <2>2, <3>2, SpineShape
      <4> QED
        BY <2>0, <1>2, <2>1, <2>3, <2>4, <2>6, <2>7, <3>2, <4>1
    <3>3. CASE k = n + 1 /\ j = n + 1
      BY <2>1, <2>3, <2>4, <3>3
    <3>4. CASE k = n + 1 /\ j \in 0 .. n
      <4>1. SpineAt(j)' <= SpineAt(n) /\ SpineAt(j)' = SpineAt(j)
        BY <2>6, <2>10, <3>4
      <4>2. CASE e = Canon
        <5>1. CASE n = 0
          BY <2>1, <2>2, <3>3, <3>4, <4>2, <5>1 DEF SpineAt
        <5>2. CASE n # 0
          <6>1. n \in 1 .. n /\ spine[n] = e
            BY <2>2, <4>2, <5>2 DEF SpineAt
          <6> QED
            BY <2>0, <2>1, <3>4, <4>1, <6>1 DEF SpineOK, Tight
        <5> QED
          BY <5>1, <5>2
      <4>3. CASE row.kind = "commit" /\ e = row.epoch /\ made[e].base = Canon
        BY <2>1, <2>2, <2>6, <3>4, <4>1, <4>3
      <4> QED
        BY <2>1, <4>2, <4>3
    <3> QED
      BY <2>8, <2>9, <3>1, <3>2, <3>3, <3>4
  <2> QED
    BY <2>11, <2>12, <2>13, <2>14 DEF SpineOK
<1> QED
  BY <1>4, <1>5, Steps

-----------------------------------------------------------------------------
(* The views.                                                              *)

(* An answer: applyPending merges what is pending, if anything is.         *)
LEMMA AfterAnswer ==
  ASSUME TypeOK, NEW d \in Device, NEW f \in Flows, CommitAnswered(d, f)
  PROVE  /\ mem'[d].joined = mem[d].joined /\ mem'[d].cursor = mem[d].cursor /\ mem'[d].pend = 0
         /\ mem'[d].tip = IF mem[d].pend = 0 THEN mem[d].tip ELSE mem[d].pend
         /\ \A x \in Device \ {d} : mem'[x] = mem[x]
<1> DEFINE new == IF mem[d].pend = 0 THEN mem[d].tip ELSE mem[d].pend
           v   == IF mem[d].pend = 0 THEN mem[d]
                  ELSE [mem[d] EXCEPT !.tip = new, !.pend = 0, !.props = {}]
<1>1. mem' = [mem EXCEPT ![d] = v]
  BY Zenon DEF CommitAnswered
<1>2. mem[d] \in View /\ mem \in [Device -> View]
  BY DEF TypeOK
<1>3. v.joined = mem[d].joined /\ v.cursor = mem[d].cursor /\ v.pend = 0 /\ v.tip = new
  <2> HIDE DEF new
  <2>1. CASE mem[d].pend = 0
    BY <2>1 DEF new
  <2>2. CASE mem[d].pend # 0
    BY <1>2, <2>2 DEF View
  <2> QED
    BY <2>1, <2>2
<1> HIDE DEF v
<1>4. mem'[d] = v /\ \A x \in Device \ {d} : mem'[x] = mem[x]
  BY <1>1, <1>2
<1> QED
  BY <1>3, <1>4

(* One row absorbed: the cursor passes it, and the epoch is the row's if   *)
(* it is followed and stays the same if not.                               *)
LEMMA AfterAbsorb ==
  ASSUME TypeOK, NEW d \in Device, Absorb(d)
  PROVE  /\ mem'[d].joined = mem[d].joined /\ mem'[d].cursor = mem[d].cursor + 1
         /\ LET row == log[mem[d].cursor + 1]
            IN  IF Follows(d, row) THEN mem'[d].tip = row.epoch /\ mem'[d].pend = 0
                ELSE mem'[d].tip = mem[d].tip /\ mem'[d].pend = mem[d].pend
         /\ \A x \in Device \ {d} : mem'[x] = mem[x]
<1> DEFINE row == log[mem[d].cursor + 1]
           v   == AfterRow(d, row)
           w   == [mem[d] EXCEPT !.cursor = @ + 1]
<1>1. mem' = [mem EXCEPT ![d] = v]
  BY DEF Absorb
<1>2. mem[d] \in View /\ mem \in [Device -> View]
  BY DEF TypeOK
<1>3. /\ w.joined = mem[d].joined /\ w.tip = mem[d].tip /\ w.pend = mem[d].pend
      /\ w.cursor = mem[d].cursor + 1
      /\ w \in [joined : BOOLEAN, tip : Epochs, pend : Epochs, props : SUBSET Device, cursor : {w.cursor}]
  BY <1>2 DEF View
<1>4. v = IF Follows(d, row) THEN [w EXCEPT !.tip = row.epoch, !.pend = 0, !.props = {}]
          ELSE IF Keeps(d, row) THEN [w EXCEPT !.props = @ \cup {row.who}] ELSE w
  BY DEF AfterRow
<1>5. mem'[d] = v /\ \A x \in Device \ {d} : mem'[x] = mem[x]
  BY <1>1, <1>2
<1> HIDE DEF v, w, row
<1>6. v.joined = w.joined /\ v.cursor = w.cursor
      /\ IF Follows(d, row) THEN v.tip = row.epoch /\ v.pend = 0 ELSE v.tip = w.tip /\ v.pend = w.pend
  <2>1. CASE Follows(d, row)
    BY <1>3, <1>4, <2>1
  <2>2. CASE ~Follows(d, row) /\ Keeps(d, row)
    BY <1>3, <1>4, <2>2
  <2>3. CASE ~Follows(d, row) /\ ~Keeps(d, row)
    BY <1>4, <2>3
  <2> QED
    BY <2>1, <2>2, <2>3
<1> QED
  BY <1>3, <1>5, <1>6 DEF row

(* A Welcome opened: the epoch and the cursor are the Welcome's.           *)
LEMMA AfterJoin ==
  ASSUME TypeOK, NEW d \in Device, Join(d)
  PROVE  /\ mem'[d].joined /\ mem'[d].pend = 0 /\ \A x \in Device \ {d} : mem'[x] = mem[x]
         /\ \E k \in 1 .. Len(log) :
              /\ mem'[d].tip = log[k].epoch /\ mem'[d].cursor = k
              /\ d \notin estranged' => spine[k] = log[k].epoch
<1>1. PICK k \in 1 .. Len(log) :
        /\ mem' = [mem EXCEPT ![d] = [NotJoined EXCEPT !.joined = TRUE, !.tip = log[k].epoch,
                                                       !.cursor = k]]
        /\ estranged' = IF spine[k] = log[k].epoch THEN estranged ELSE estranged \cup {d}
  BY DEF Join
<1> DEFINE v == [NotJoined EXCEPT !.joined = TRUE, !.tip = log[k].epoch, !.cursor = k]
<1>2. v.joined /\ v.pend = 0 /\ v.tip = log[k].epoch /\ v.cursor = k
  BY DEF NotJoined
<1> HIDE DEF v
<1>3. mem'[d] = v /\ \A x \in Device \ {d} : mem'[x] = mem[x]
  BY <1>1 DEF TypeOK, v
<1> QED
  BY <1>1, <1>2, <1>3

(* But for these three, a step leaves in memory and on disk copies of the  *)
(* views there were, up to what is pending or proposed.                    *)
Copy(v, u, d) ==
  /\ v.joined = u.joined /\ v.tip = u.tip /\ v.cursor = u.cursor
  /\ v.pend = u.pend \/ (u.joined /\ d \in TreeOf(u.tip).members)

LEMMA ViewsMove ==
  ASSUME TypeOK, [Next]_vars, NEW x \in Device, NEW v \in {mem'[x], disk'[x]}
  PROVE  \/ \E u \in {mem[x], disk[x]} : Copy(v, u, x)
         \/ v = mem'[x] /\ ((\E f \in Flows : CommitAnswered(x, f)) \/ Absorb(x) \/ Join(x))
<1>0. mem \in [Device -> View] /\ disk \in [Device -> View]
  BY DEF TypeOK
<1>1. ASSUME v \in {mem[x], disk[x]} PROVE \E u \in {mem[x], disk[x]} : Copy(v, u, x)
  BY <1>1 DEF Copy
<1>2. ASSUME NEW d \in Device, Asks(d) PROVE \E u \in {mem[x], disk[x]} : Copy(v, u, x)
  <2>1. PICK f \in Flows, tree \in Tree, guest \in SUBSET Device : Prepare(d, f, tree, guest)
    BY <1>2, AsksPrepare
  <2>2. /\ mem' = [mem EXCEPT ![d].pend = Len(made) + 1] /\ disk' = disk
        /\ mem[d].joined /\ d \in TreeOf(mem[d].tip).members
    BY <2>1 DEF Prepare, CanCommit, MyTree
  <2>3. CASE x = d /\ v = mem'[x]
    <3>1. v.joined = mem[x].joined /\ v.tip = mem[x].tip /\ v.cursor = mem[x].cursor
      BY <1>0, <2>2, <2>3 DEF View
    <3> QED
      BY <2>2, <2>3, <3>1 DEF Copy
  <2>4. CASE ~(x = d /\ v = mem'[x])
    BY <1>0, <1>1, <2>2, <2>4
  <2> QED
    BY <2>3, <2>4
<1>3. ASSUME NEW d \in Device, Leave(d) PROVE \E u \in {mem[x], disk[x]} : Copy(v, u, x)
  <2>1. mem' = [mem EXCEPT ![d].props = @ \cup {d}] /\ disk' = disk
    BY <1>3 DEF Leave
  <2>2. CASE x = d /\ v = mem'[x]
    <3>1. /\ v.joined = mem[x].joined /\ v.tip = mem[x].tip /\ v.cursor = mem[x].cursor
          /\ v.pend = mem[x].pend
      BY <1>0, <2>1, <2>2 DEF View
    <3> QED
      BY <3>1 DEF Copy
  <2>3. CASE ~(x = d /\ v = mem'[x])
    BY <1>0, <1>1, <2>1, <2>3
  <2> QED
    BY <2>2, <2>3
<1>4. ASSUME NEW d \in Device, Save(d) \/ Crash(d) PROVE v \in {mem[x], disk[x]}
  BY <1>0, <1>4 DEF Save, Crash
<1>5. ASSUME NEW d \in Device, NEW f \in Flows,
             CommitLands(d, f) \/ WelcomeLands(d, f) \/ CommitFails(d, f) \/ WelcomeFails(d, f)
      PROVE  UNCHANGED <<mem, disk>>
  BY <1>5 DEF CommitLands, WelcomeLands, CommitFails, WelcomeFails
<1>6. ASSUME NEW d \in Device, Resolve(d) \/ \E r \in Device : Revoke(d, r)
      PROVE  UNCHANGED <<mem, disk>>
  BY <1>6 DEF Resolve, Revoke
<1>7. CASE UNCHANGED vars
  BY <1>1, <1>7 DEF vars
<1>8. ASSUME NEW d \in Device, NEW f \in Flows, CommitAnswered(d, f)
      PROVE  \/ v \in {mem[x], disk[x]}
             \/ v = mem'[x] /\ \E g \in Flows : CommitAnswered(x, g)
  <2>1. disk' = disk
    BY <1>8 DEF CommitAnswered
  <2>2. x # d => mem'[x] = mem[x]
    BY <1>8, AfterAnswer
  <2> QED
    BY <1>8, <2>1, <2>2
<1>9. ASSUME NEW d \in Device, Absorb(d) \/ Join(d)
      PROVE  v \in {mem[x], disk[x]} \/ (v = mem'[x] /\ (Absorb(x) \/ Join(x)))
  <2>1. disk' = disk
    BY <1>9 DEF Absorb, Join
  <2>2. x # d => mem'[x] = mem[x]
    BY <1>9, AfterAbsorb, AfterJoin
  <2> QED
    BY <1>9, <2>1, <2>2
<1> QED
  BY <1>1, <1>2, <1>3, <1>4, <1>5, <1>6, <1>7, <1>8, <1>9 DEF Next, Asks, Answer

(* What is pending was made by a member of the epoch it was made in.       *)
LEMMA PendStep == TypeOK /\ TypeOK' /\ PendOK /\ [Next]_vars => PendOK'
<1> SUFFICES ASSUME TypeOK, TypeOK', PendOK, [Next]_vars,
                    NEW x \in Device, NEW v \in {mem'[x], disk'[x]}
             PROVE  /\ v.pend # 0 => v.joined /\ x \in TreeOf(v.tip)'.members
                    /\ ~v.joined => v.tip = 0
  BY DEF PendOK
<1>1. Grown
  BY Growth
<1>2. ASSUME NEW u \in {mem[x], disk[x]}, v.tip = u.tip, v.joined = u.joined, v.pend = u.pend \/ (u.joined /\ x \in TreeOf(u.tip).members)
      PROVE  /\ v.pend # 0 => v.joined /\ x \in TreeOf(v.tip)'.members
             /\ ~v.joined => v.tip = 0
  <2>1. TreeOf(u.tip)' = TreeOf(u.tip)
    BY <1>1, Lasting, ViewShape
  <2> QED
    BY <1>2, <2>1 DEF PendOK
<1>3. ASSUME NEW f \in Flows, CommitAnswered(x, f), v = mem'[x]
      PROVE  /\ v.pend # 0 => v.joined /\ x \in TreeOf(v.tip)'.members
             /\ ~v.joined => v.tip = 0
  BY <1>3, AfterAnswer DEF PendOK
<1>4. ASSUME Absorb(x), v = mem'[x]
      PROVE  /\ v.pend # 0 => v.joined /\ x \in TreeOf(v.tip)'.members
             /\ ~v.joined => v.tip = 0
  <2>1. mem[x].joined
    BY <1>4 DEF Absorb
  <2>2. v.joined /\ (v.pend = 0 \/ (v.tip = mem[x].tip /\ v.pend = mem[x].pend))
    BY <1>4, <2>1, AfterAbsorb
  <2> QED
    BY <1>2, <2>1, <2>2
<1>5. ASSUME Join(x), v = mem'[x]
      PROVE  /\ v.pend # 0 => v.joined /\ x \in TreeOf(v.tip)'.members
             /\ ~v.joined => v.tip = 0
  BY <1>5, AfterJoin
<1>6. ASSUME NEW u \in {mem[x], disk[x]}, Copy(v, u, x)
      PROVE  /\ v.pend # 0 => v.joined /\ x \in TreeOf(v.tip)'.members
             /\ ~v.joined => v.tip = 0
  BY <1>2, <1>6 DEF Copy
<1> QED
  BY <1>3, <1>4, <1>5, <1>6, ViewsMove

-----------------------------------------------------------------------------
(* Being level with one's cursor.                                          *)

(* An epoch of the spine has a place on it.                                *)
LEMMA Place ==
  ASSUME TypeOK, NEW c, OnSpine(c)
  PROVE  \E i \in 0 .. Len(spine) : SpineAt(i) = c
<1>1. CASE c = 0
  BY <1>1, SpineShape DEF SpineAt
<1>2. ASSUME NEW k \in 1 .. Len(spine), spine[k] = c PROVE \E i \in 0 .. Len(spine) : SpineAt(i) = c
  BY <1>2, SpineShape
<1> QED
  BY <1>1, <1>2 DEF OnSpine

(* A row that lands comes after everything a level view has behind it.     *)
LEMMA LevelKept ==
  ASSUME TypeOK, TypeOK', Sorted, Sorted', Grown, NEW x \in Device,
         NEW v, v.tip \in Nat, v.tip <= Len(made), v.cursor \in 0 .. Len(spine), Level(x, v)
  PROVE  Level(x, v)'
<1>1. OnSpine(v.tip)'
  BY Lasting DEF Level
<1>2. PICK n \in Nat : n = Len(spine)
  BY SpineShape
<1>3. /\ \A k \in 0 .. n : SpineAt(k)' = SpineAt(k) /\ k \in 0 .. Len(spine')
      /\ \A k \in 0 .. n : SpineAt(k) \in Nat /\ SpineAt(k) <= Len(made) /\ SpineAt(k) <= SpineAt(n)
      /\ \A k \in 0 .. Len(spine') : SpineAt(k)' \in Nat
      /\ Len(spine') \in Nat
  <2>1. \A k \in 0 .. n : SpineAt(k) <= SpineAt(n)
    BY <1>2 DEF Sorted
  <2>2. spine' \in Seq(Epochs)
    BY DEF TypeOK
  <2>3. Len(spine') \in Nat /\ \A k \in 1 .. Len(spine') : spine'[k] \in Epochs
    BY <2>2, LenProperties, ElementOfSeq
  <2>4. \A k \in 0 .. Len(spine') : SpineAt(k)' \in Nat
    BY <2>3, BoundAssumption DEF SpineAt, Epochs
  <2>5. /\ \A k \in 0 .. n : SpineAt(k)' = SpineAt(k) /\ k \in 0 .. Len(spine')
        /\ \A k \in 0 .. n : SpineAt(k) \in Nat /\ SpineAt(k) <= Len(made)
    BY <1>2, Lasting, SpineShape
  <2> QED
    BY <2>1, <2>3, <2>4, <2>5
<1>4. PICK i \in 0 .. n : SpineAt(i) = v.tip
  BY <1>2, Place DEF Level
<1> SUFFICES ASSUME NEW k \in 0 .. Len(spine'), Between(SpineAt(k)', v.tip, SpineAt(v.cursor)')
             PROVE  made'[SpineAt(k)'].by = x
  BY <1>1 DEF Level, Between
<1>5. ASSUME NEW j \in 0 .. n, SpineAt(j) = SpineAt(k)' PROVE made'[SpineAt(k)'].by = x
  <2>1. Between(SpineAt(j), v.tip, SpineAt(v.cursor))
    BY <1>2, <1>3, <1>5 DEF Between
  <2>2. made[SpineAt(j)].by = x
    BY <1>2, <2>1 DEF Level
  <2>3. SpineAt(j) \in 1 .. Len(made)
    BY <1>2, <1>3, <2>1, SpineShape DEF Between
  <2> QED
    BY <1>5, <2>2, <2>3 DEF Grown
<1>6. CASE k \in 0 .. n
  BY <1>3, <1>5, <1>6
<1>7. CASE k \notin 0 .. n
  <2>1. n <= k /\ n \in 0 .. Len(spine')
    BY <1>2, <1>3, <1>7
  <2>2. SpineAt(n) <= SpineAt(k)'
    BY <1>2, <1>3, <2>1 DEF Sorted
  <2>3. SpineAt(k)' <= SpineAt(n)
    BY <1>2, <1>3, <1>4 DEF Between
  <2> QED
    BY <1>2, <1>3, <1>5, <2>2, <2>3
<1> QED
  BY <1>6, <1>7

(* An answer brings a member to a commit of its own, the next on the spine. *)
LEMMA LevelAnswered ==
  ASSUME Course, NEW x \in Device \ estranged, NEW f \in Flows, CommitAnswered(x, f),
         x \notin estranged', mem'[x].joined, x \in TreeOf(mem'[x].tip).members
  PROVE  Level(x, mem'[x])
<1>1. PICK a \in Nat, p \in Nat, v \in {mem'[x]} : a = mem[x].tip /\ p = mem[x].pend /\ v = mem'[x]
  BY ViewShape DEF Course
<1>2. /\ v.joined = mem[x].joined /\ v.cursor = mem[x].cursor
      /\ v.tip = IF p = 0 THEN a ELSE p
      /\ p # 0 => made[p].base = a /\ made[p].by = x /\ a < p
  BY <1>1, AfterAnswer, ViewShape DEF Course
<1>3. x \in TreeOf(a).members
  BY <1>1, <1>2 DEF Course, PendOK
<1>4. Level(x, mem[x])
  BY <1>1, <1>2, <1>3 DEF Course, LevelOK
<1>5. CASE p = 0
  BY <1>1, <1>2, <1>4, <1>5 DEF Level
<1>6. CASE p # 0
  <2>1. OnSpine(p)
    BY <1>1, <1>6 DEF CommitAnswered
  <2>2. PICK j \in 1 .. Len(spine) : spine[j] = p
    BY <1>6, <2>1 DEF OnSpine
  <2>3. ASSUME NEW k \in 0 .. Len(spine), Between(SpineAt(k), p, SpineAt(mem[x].cursor))
        PROVE  made[SpineAt(k)].by = x
    <3>1. PICK c \in Nat, m \in Nat : c = SpineAt(k) /\ m = SpineAt(mem[x].cursor)
      BY ViewShape, SpineShape DEF Course
    <3>2. a < c => p <= c
      BY <1>2, <1>6, <2>2, <3>1 DEF Course, SpineOK, Tight
    <3>3. CASE Between(c, a, m)
      BY <1>1, <1>4, <3>1, <3>3 DEF Level
    <3>4. CASE ~Between(c, a, m)
      <4>1. c = p
        BY <1>2, <1>6, <2>3, <3>1, <3>2, <3>4 DEF Between
      <4> QED
        BY <1>2, <1>6, <3>1, <4>1
    <3> QED
      BY <3>3, <3>4
  <2> QED
    BY <1>1, <1>2, <1>6, <2>1, <2>3 DEF Level
<1> QED
  BY <1>5, <1>6

(* One row absorbed: followed, it is where the spine went; not followed,   *)
(* the spine stayed, or went to a commit of our own.                       *)
LEMMA LevelAbsorbed ==
  ASSUME Course, NEW x \in Device \ estranged, Absorb(x), x \notin estranged',
         mem'[x].joined, x \in TreeOf(mem'[x].tip).members
  PROVE  Level(x, mem'[x])
<1> DEFINE row == log[mem[x].cursor + 1]
<1>1. PICK a \in Nat, q \in Nat, v \in {mem'[x]} : a = mem[x].tip /\ q = mem[x].cursor /\ v = mem'[x]
  BY ViewShape DEF Course
<1>2. /\ v.joined = mem[x].joined /\ v.cursor = q + 1 /\ q + 1 \in 1 .. Len(spine)
      /\ q \in 0 .. Len(spine) /\ q + 1 \in 0 .. Len(spine)
      /\ IF Follows(x, row) THEN v.tip = row.epoch ELSE v.tip = a
  <2>1. q < Len(spine) /\ Len(spine) \in Nat
    BY <1>1, SpineShape DEF Absorb, Course
  <2> QED
    BY <1>1, <2>1, AfterAbsorb DEF Course
<1>3. ~Strays(x, row)
  BY <1>1 DEF Absorb
<1>4. CASE Follows(x, row)
  <2>1. row.kind = "commit" /\ made[row.epoch].by # x /\ x \in MyTree(x).members
    BY <1>4 DEF Follows
  <2>2. spine[q + 1] = row.epoch
    BY <1>1, <1>3, <1>4, <2>1 DEF Strays
  <2>3. SpineAt(q + 1) = v.tip /\ OnSpine(v.tip) /\ v.tip \in Nat
    BY <1>2, <1>4, <2>2, SpineShape DEF OnSpine, Course
  <2> QED
    BY <1>1, <1>2, <2>3, SpineShape DEF Level, Between, Course
<1>5. CASE ~Follows(x, row)
  <2>1. v.tip = a /\ x \in MyTree(x).members
    BY <1>1, <1>2, <1>5 DEF MyTree
  <2>2. Level(x, mem[x])
    BY <1>1, <1>2, <2>1 DEF Course, LevelOK, MyTree
  <2>3. PICK m \in Nat, n \in Nat : m = SpineAt(q) /\ n = SpineAt(q + 1)
    BY <1>2, SpineShape DEF Course
  <2>4. m <= n
    BY <1>2, <2>3 DEF Course, SpineOK, Sorted
  <2>5. n = m \/ (n # 0 /\ made[n].by = x)
    <3>0. spine[q + 1] = n
      BY <1>2, <2>3, SpineShape DEF Course
    <3>1. n = SpineAt(q) \/ (row.kind = "commit" /\ n = row.epoch)
      <4>1. \/ spine[q + 1] = SpineAt((q + 1) - 1)
            \/ log[q + 1].kind = "commit" /\ spine[q + 1] = log[q + 1].epoch
        BY <1>2 DEF Course, SpineOK, Moves
      <4>2. (q + 1) - 1 = q
        OBVIOUS
      <4> QED
        BY <1>1, <3>0, <4>1, <4>2
    <3>2. CASE row.kind = "commit" /\ n = row.epoch
      <4>1. made[row.epoch].by = x
        BY <1>1, <1>3, <1>5, <2>1, <3>0, <3>2 DEF Strays
      <4>2. n # 0
        BY <1>1, <1>2, <3>2, SpineShape DEF Course, SpineOK, RowsName
      <4> QED
        BY <3>2, <4>1, <4>2
    <3> QED
      BY <2>3, <3>1, <3>2
  <2>6. ASSUME NEW k \in 0 .. Len(spine), Between(SpineAt(k), a, n)
        PROVE  made[SpineAt(k)].by = x
    <3>1. PICK c \in Nat : c = SpineAt(k)
      BY SpineShape DEF Course
    <3>2. CASE Between(c, a, m)
      BY <1>1, <2>2, <2>3, <3>1, <3>2 DEF Level
    <3>3. CASE ~Between(c, a, m)
      <4>1. m < c /\ c <= n
        BY <2>4, <2>6, <3>1, <3>3 DEF Between
      <4>2. q < k
        BY <1>2, <2>3, <3>1, <4>1 DEF Course, SpineOK, Sorted
      <4>3. n <= c
        BY <1>2, <2>3, <3>1, <4>2 DEF Course, SpineOK, Sorted
      <4> QED
        BY <2>5, <3>1, <4>1, <4>3
    <3> QED
      BY <3>2, <3>3
  <2> QED
    BY <1>1, <1>2, <2>1, <2>2, <2>3, <2>6 DEF Level
<1> QED
  BY <1>4, <1>5

(* A Welcome opened right after the commit it welcomes to.                 *)
LEMMA LevelJoined ==
  ASSUME Course, NEW x \in Device, Join(x), x \notin estranged'
  PROVE  Level(x, mem'[x])
<1>1. PICK k \in 1 .. Len(log) :
        mem'[x].tip = log[k].epoch /\ mem'[x].cursor = k /\ spine[k] = log[k].epoch
  BY AfterJoin DEF Course
<1>2. PICK v \in {mem'[x]} : v = mem'[x]
  OBVIOUS
<1>3. SpineAt(k) = v.tip /\ v.cursor = k /\ OnSpine(v.tip) /\ v.tip \in Nat
  BY <1>1, <1>2, SpineShape DEF OnSpine, Course
<1> QED
  BY <1>2, <1>3, SpineShape DEF Level, Between, Course

(* Every view of a member that is not estranged stays level.               *)
LEMMA LevelStep ==
  Course /\ TypeOK' /\ SpineOK' /\ [Next]_vars => LevelOK'
<1> SUFFICES ASSUME Course, TypeOK', SpineOK', [Next]_vars,
                    NEW x \in Device, x \notin estranged', NEW v \in {mem'[x], disk'[x]},
                    v.joined, x \in TreeOf(v.tip)'.members
             PROVE  Level(x, v)'
  BY DEF LevelOK
<1>1. Grown
  BY Growth DEF Course
<1>2. x \in Device \ estranged
  BY <1>1 DEF Grown
<1>3. ASSUME NEW u \in {mem[x], disk[x]}, Copy(v, u, x) PROVE Level(x, v)'
  <2>1. /\ v.tip = u.tip /\ v.cursor = u.cursor /\ u.tip \in Nat /\ u.tip <= Len(made)
        /\ u.cursor \in 0 .. Len(spine) /\ u.joined
    BY <1>3, ViewShape, SpineShape DEF Copy, Course
  <2>2. x \in TreeOf(u.tip).members
    BY <1>1, <2>1, Lasting DEF Course
  <2>3. Level(x, u)
    BY <1>2, <2>1, <2>2 DEF Course, LevelOK
  <2>4. Level(x, v)
    BY <2>1, <2>3 DEF Level
  <2> QED
    BY <1>1, <2>1, <2>4, LevelKept DEF Course, SpineOK
<1>4. ASSUME v = mem'[x], UNCHANGED <<made, log, spine>>, Level(x, mem'[x]) PROVE Level(x, v)'
  BY <1>4 DEF Level, OnSpine, SpineAt
<1>5. ASSUME v = mem'[x], UNCHANGED made PROVE x \in TreeOf(mem'[x].tip).members
  BY <1>5 DEF TreeOf
<1>6. ASSUME NEW f \in Flows, CommitAnswered(x, f), v = mem'[x] PROVE Level(x, v)'
  <2>1. UNCHANGED <<made, log, spine>>
    BY <1>6 DEF CommitAnswered
  <2> QED
    BY <1>2, <1>4, <1>5, <1>6, <2>1, LevelAnswered
<1>7. ASSUME Absorb(x), v = mem'[x] PROVE Level(x, v)'
  <2>1. UNCHANGED <<made, log, spine>>
    BY <1>7 DEF Absorb
  <2> QED
    BY <1>2, <1>4, <1>5, <1>7, <2>1, LevelAbsorbed
<1>8. ASSUME Join(x), v = mem'[x] PROVE Level(x, v)'
  <2>1. UNCHANGED <<made, log, spine>>
    BY <1>8 DEF Join
  <2> QED
    BY <1>4, <1>8, <2>1, LevelJoined
<1> QED
  BY <1>3, <1>6, <1>7, <1>8, ViewsMove DEF Course

-----------------------------------------------------------------------------
(* Our own commits ahead of us.                                            *)

(* An epoch of the spine was on it, or is the one a flow has just posted.  *)
LEMMA OldOrPosted ==
  ASSUME TypeOK, TypeOK', [Next]_vars, NEW k \in 1 .. Len(spine'), spine'[k] # 0
  PROVE  \/ \E j \in 1 .. Len(spine) : spine[j] = spine'[k]
         \/ \E d \in Device, f \in Flows : CommitLands(d, f) /\ flow[d][f].epoch = spine'[k]
<1>1. CASE UNCHANGED spine
  BY <1>1
<1>2. ASSUME NEW row \in Row, Lands(row)
      PROVE  \/ \E j \in 1 .. Len(spine) : spine[j] = spine'[k]
             \/ \E d \in Device, f \in Flows : CommitLands(d, f) /\ flow[d][f].epoch = spine'[k]
  <2>1. PICK n \in Nat : n = Len(spine)
    BY SpineShape
  <2>2. PICK e \in Epochs :
          /\ e = Canon \/ (row.kind = "commit" /\ e = row.epoch)
          /\ Len(spine') = n + 1 /\ spine'[n + 1] = e
          /\ \A j \in 1 .. n : spine'[j] = spine[j]
    BY <1>2, <2>1, Landed
  <2>3. CASE k \in 1 .. n
    BY <2>1, <2>2, <2>3
  <2>4. CASE k = n + 1 /\ e = Canon
    <3>1. Canon = SpineAt(n) /\ n # 0
      BY <2>1, <2>2, <2>4, SpineShape DEF SpineAt
    <3>2. n \in 1 .. Len(spine) /\ spine[n] = e
      BY <2>1, <2>4, <3>1 DEF SpineAt
    <3> QED
      BY <2>2, <2>4, <3>2
  <2>5. CASE k = n + 1 /\ row.kind = "commit" /\ e = row.epoch
    BY <1>2, <2>2, <2>5 DEF Lands
  <2> QED
    BY <2>1, <2>2, <2>3, <2>4, <2>5
<1> QED
  BY <1>1, <1>2, Steps

(* No device goes back to an earlier epoch but by a crash.                 *)
LEMMA TipUp ==
  ASSUME TypeOK, TypeOK', SpineOK, PendOK, [Next]_vars, NEW x \in Device, ~Crash(x)
  PROVE  mem[x].tip <= mem'[x].tip
<1>0. mem[x].tip \in Nat /\ mem \in [Device -> View]
  BY ViewShape DEF TypeOK
<1>1. ASSUME NEW d \in Device, Asks(d) PROVE mem'[x].tip = mem[x].tip
  <2>1. PICK f \in Flows, tree \in Tree, guest \in SUBSET Device : Prepare(d, f, tree, guest)
    BY <1>1, AsksPrepare
  <2>2. mem' = [mem EXCEPT ![d].pend = Len(made) + 1]
    BY <2>1 DEF Prepare
  <2> QED
    BY <1>0, <2>2 DEF View
<1>2. ASSUME NEW d \in Device, Leave(d) PROVE mem'[x].tip = mem[x].tip
  <2>1. mem' = [mem EXCEPT ![d].props = @ \cup {d}]
    BY <1>2 DEF Leave
  <2> QED
    BY <1>0, <2>1 DEF View
<1>3. ASSUME NEW d \in Device, NEW f \in Flows, CommitAnswered(d, f)
      PROVE  mem[x].tip <= mem'[x].tip
  BY <1>0, <1>3, AfterAnswer, ViewShape
<1>4. ASSUME NEW d \in Device, Absorb(d) PROVE mem[x].tip <= mem'[x].tip
  <2>1. CASE x # d
    BY <1>0, <1>4, <2>1, AfterAbsorb
  <2>2. CASE x = d
    <3> DEFINE row == log[mem[x].cursor + 1]
    <3>1. CASE ~Follows(x, row)
      BY <1>0, <1>4, <2>2, <3>1, AfterAbsorb
    <3>2. CASE Follows(x, row)
      <4>1. row.kind = "commit" /\ made[row.epoch].base = mem[x].tip /\ mem'[x].tip = row.epoch
        BY <1>4, <2>2, <3>2, AfterAbsorb DEF Follows
      <4>2. mem[x].cursor + 1 \in 1 .. Len(log)
        BY <1>4, <2>2, ViewShape, SpineShape DEF Absorb
      <4>3. row.epoch # 0
        BY <4>1, <4>2 DEF SpineOK, RowsName
      <4>4. row \in Row /\ row.epoch <= Len(made)
        BY <4>2, ElementOfSeq DEF TypeOK
      <4> HIDE DEF row
      <4>5. row.epoch \in 1 .. Len(made) /\ row.epoch \in Nat
        BY <4>3, <4>4, SpineShape, BoundAssumption DEF Row, Epochs
      <4>6. made[row.epoch].base < row.epoch
        BY <4>5 DEF TypeOK
      <4> QED
        BY <1>0, <4>1, <4>5, <4>6
    <3> QED
      BY <3>1, <3>2
  <2> QED
    BY <2>1, <2>2
<1>5. ASSUME NEW d \in Device, Join(d) PROVE mem[x].tip <= mem'[x].tip
  <2>1. CASE x # d
    BY <1>0, <1>5, <2>1, AfterJoin
  <2>2. CASE x = d
    <3>1. mem[x].tip = 0
      BY <1>5, <2>2 DEF Join, PendOK
    <3>2. mem'[x].tip \in Nat
      BY ViewShape, BoundAssumption DEF TypeOK, View, Epochs
    <3> QED
      BY <3>1, <3>2
  <2> QED
    BY <2>1, <2>2
<1>6. ASSUME NEW d \in Device, Crash(d) PROVE mem'[x] = mem[x]
  BY <1>0, <1>6 DEF Crash
<1>7. ASSUME NEW d \in Device, NEW f \in Flows,
             CommitLands(d, f) \/ WelcomeLands(d, f) \/ CommitFails(d, f) \/ WelcomeFails(d, f)
      PROVE  mem' = mem
  BY <1>7 DEF CommitLands, WelcomeLands, CommitFails, WelcomeFails
<1>8. ASSUME NEW d \in Device, Resolve(d) \/ Save(d) \/ \E r \in Device : Revoke(d, r)
      PROVE  mem' = mem
  BY <1>8 DEF Resolve, Save, Revoke
<1>9. CASE UNCHANGED vars
  BY <1>0, <1>9 DEF vars
<1> QED
  BY <1>0, <1>1, <1>2, <1>3, <1>4, <1>5, <1>6, <1>7, <1>8, <1>9 DEF Next, Asks, Answer

(* A commit that landed waits for its answer until the answer comes, is    *)
(* lost, or there is nobody left to hear it.                               *)
LEMMA Waiting ==
  ASSUME TypeOK, [Next]_vars, NEW x \in Device, NEW g \in Flows, flow[x][g].pc = "landed"
  PROVE  \/ flow'[x][g].pc = "landed" /\ flow'[x][g].epoch = flow[x][g].epoch
         \/ CommitAnswered(x, g) \/ CommitFails(x, g) \/ Crash(x)
<1>0. flow \in [Device -> [Flows -> Step]]
  BY DEF TypeOK
<1>1. ASSUME NEW d \in Device, Asks(d) PROVE flow'[x][g] = flow[x][g]
  <2>1. PICK f \in Flows, tree \in Tree, guest \in SUBSET Device : Prepare(d, f, tree, guest)
    BY <1>1, AsksPrepare
  <2>2. flow[d][f].pc = "idle" /\ \E s : flow' = [flow EXCEPT ![d][f] = s]
    BY <2>1 DEF Prepare
  <2> QED
    BY <1>0, <2>2
<1>2. ASSUME NEW d \in Device, NEW f \in Flows, CommitLands(d, f)
      PROVE  flow'[x][g] = flow[x][g]
  <2>1. flow[d][f].pc = "posting" /\ flow' = [flow EXCEPT ![d][f].pc = "landed"]
    BY <1>2 DEF CommitLands
  <2> QED
    BY <1>0, <2>1
<1>3. ASSUME NEW d \in Device, NEW f \in Flows, ~(d = x /\ f = g),
             CommitAnswered(d, f) \/ CommitFails(d, f)
      PROVE  flow'[x][g] = flow[x][g]
  <2>1. \E s : flow' = [flow EXCEPT ![d][f] = s]
    BY <1>3, Zenon DEF CommitAnswered, CommitFails
  <2> QED
    BY <1>0, <1>3, <2>1
<1>4. ASSUME NEW d \in Device, NEW f \in Flows, WelcomeLands(d, f) \/ WelcomeFails(d, f)
      PROVE  flow'[x][g] = flow[x][g]
  <2>1. flow[d][f].pc = "welcome" /\ flow' = [flow EXCEPT ![d][f] = Idle]
    BY <1>4 DEF WelcomeLands, WelcomeFails
  <2> QED
    BY <1>0, <2>1
<1>5. ASSUME NEW d \in Device, Crash(d), d # x PROVE flow'[x][g] = flow[x][g]
  BY <1>0, <1>5 DEF Crash
<1>6. ASSUME NEW d \in Device,
             \/ Leave(d) \/ Absorb(d) \/ Join(d) \/ Resolve(d) \/ Save(d)
             \/ \E r \in Device : Revoke(d, r)
      PROVE  flow'[x][g] = flow[x][g]
  BY <1>6 DEF Leave, Absorb, Join, Resolve, Save, Revoke
<1>7. CASE UNCHANGED vars
  BY <1>7 DEF vars
<1> QED
  BY <1>1, <1>2, <1>3, <1>4, <1>5, <1>6, <1>7 DEF Next, Asks, Answer

(* A crash forgets a commit of ours that the disk has not: we are lost.    *)
LEMMA CrashEstranges ==
  ASSUME TypeOK, Sorted, NEW x \in Device, Crash(x), NEW k \in 1 .. Len(spine),
         mem'[x].tip < spine[k], made[spine[k]].by = x
  PROVE  x \in estranged'
<1> DEFINE v == disk[x]
<1>1. mem'[x] = v /\ v.tip \in Nat /\ spine[k] \in Nat /\ spine[k] = SpineAt(k)
  <2>1. mem'[x] = v
    BY DEF Crash, TypeOK
  <2> QED
    BY <2>1, ViewShape, SpineShape
<1> HIDE DEF v
<1>2. spine[k] \notin Walked(v)
  <2> SUFFICES ASSUME NEW j \in 0 .. Len(spine), NEW i \in j .. Len(spine), SpineAt(i) = v.tip,
                      spine[k] = SpineAt(j)
               PROVE  FALSE
    BY DEF Walked
  <2>1. i \in 0 .. Len(spine) /\ j <= i
    BY SpineShape
  <2>2. SpineAt(j) <= SpineAt(i)
    BY <2>1 DEF Sorted
  <2> QED
    BY <1>1, <2>2
<1>3. spine[k] \in Ahead(v)
  BY <1>1, <1>2 DEF Ahead
<1> QED
  BY <1>3 DEF Crash, v

(* Nobody that is not estranged runs ahead of its own commits unheard.     *)
LEMMA AheadStep ==
  Course /\ TypeOK' /\ [Next]_vars => AheadOK'
<1> SUFFICES ASSUME Course, TypeOK', [Next]_vars,
                    NEW x \in Device, x \notin estranged', NEW k \in 1 .. Len(spine'),
                    mem'[x].tip < spine'[k], made'[spine'[k]].by = x
             PROVE  \E g \in Flows : flow'[x][g].pc = "landed" /\ flow'[x][g].epoch = spine'[k]
  BY DEF AheadOK
<1>1. Grown
  BY Growth DEF Course
<1>2. PICK c \in Nat, b \in Nat : c = spine'[k] /\ b = mem'[x].tip
  BY SpineShape, ViewShape, BoundAssumption, ElementOfSeq DEF TypeOK, Epochs, View
<1>3. c # 0
  BY <1>2
<1>4. ASSUME NEW d \in Device, NEW f \in Flows, CommitLands(d, f), flow[d][f].epoch = c
      PROVE  \E g \in Flows : flow'[x][g].pc = "landed" /\ flow'[x][g].epoch = c
  <2>1. made' = made /\ flow[d][f].pc = "posting" /\ flow' = [flow EXCEPT ![d][f].pc = "landed"]
    BY <1>4 DEF CommitLands
  <2>2. x = d
    BY <1>2, <1>4, <2>1 DEF Course, FlowOK
  <2>3. flow'[x][f].pc = "landed" /\ flow'[x][f].epoch = c
    BY <1>4, <2>1, <2>2 DEF Course, TypeOK, Step
  <2> QED
    BY <2>3
<1>5. ASSUME NEW j \in 1 .. Len(spine), spine[j] = c
      PROVE  \E g \in Flows : flow'[x][g].pc = "landed" /\ flow'[x][g].epoch = c
  <2>1. made[c].by = x
    BY <1>1, <1>2, <1>3, <1>5, SpineShape DEF Grown, Course
  <2>2. ~Crash(x)
    <3> SUFFICES ASSUME Crash(x) PROVE FALSE
      OBVIOUS
    <3> QED
      BY <1>2, <1>5, <2>1, CrashEstranges DEF Course, SpineOK
  <2>3. mem[x].tip < c
    BY <1>2, <2>2, TipUp, ViewShape DEF Course
  <2>4. PICK g \in Flows : flow[x][g].pc = "landed" /\ flow[x][g].epoch = c
    BY <1>1, <1>5, <2>1, <2>3 DEF Course, AheadOK, Grown
  <2>5. ~CommitFails(x, g)
    BY <1>5, <2>4 DEF CommitFails, OnSpine
  <2>6. ~CommitAnswered(x, g)
    <3> SUFFICES ASSUME CommitAnswered(x, g) PROVE FALSE
      OBVIOUS
    <3>1. OnSpine(c)
      BY <1>5 DEF OnSpine
    <3>2. (IF mem[x].pend = 0 THEN mem[x].tip ELSE mem[x].pend) = c
      BY <2>4, <3>1, Zenon DEF CommitAnswered
    <3> QED
      BY <1>2, <3>2, AfterAnswer DEF Course
  <2> QED
    BY <2>2, <2>4, <2>5, <2>6, Waiting DEF Course
<1> QED
  BY <1>2, <1>3, <1>4, <1>5, OldOrPosted DEF Course

-----------------------------------------------------------------------------
(* The theorems.                                                           *)

(* A group just started is on course.                                      *)
LEMMA CourseInit == Init => Course
<1> SUFFICES ASSUME Init PROVE Course
  OBVIOUS
<1>1. TypeOK
  BY TypeInit
<1>2. Len(spine) = 0 /\ Len(log) = 0
  BY DEF Init
<1>3. \A d \in Device : mem[d].tip = 0 /\ mem[d].pend = 0 /\ mem[d].cursor = 0
  <2> SUFFICES ASSUME NEW d \in Device PROVE mem[d].tip = 0 /\ mem[d].pend = 0 /\ mem[d].cursor = 0
    OBVIOUS
  <2>1. \E j : mem[d] = [NotJoined EXCEPT !.joined = j]
    BY Zenon DEF Init
  <2> QED
    BY <2>1 DEF NotJoined
<1>4. disk = mem
  BY DEF Init
<1>5. SpineOK
  <2>1. \A k \in 0 .. Len(spine) : SpineAt(k) = 0
    BY <1>2 DEF SpineAt
  <2>2. RowsName
    BY <1>2 DEF RowsName
  <2>3. Moves /\ Tight
    BY <1>2 DEF Moves, Tight
  <2>4. Sorted
    BY <2>1 DEF Sorted
  <2> QED
    BY <2>2, <2>3, <2>4 DEF SpineOK
<1>6. FlowOK /\ PendOK /\ AheadOK
  <2>1. PendOK
    BY <1>3, <1>4 DEF PendOK
  <2>2. \A d \in Device, f \in Flows : flow[d][f].pc = "idle"
    BY DEF Init, Rest, Idle, Flows
  <2>3. FlowOK
    BY <2>2 DEF FlowOK
  <2>4. AheadOK
    BY <1>2 DEF AheadOK
  <2> QED
    BY <2>1, <2>3, <2>4
<1>7. LevelOK
  BY <1>2, <1>3, <1>4 DEF LevelOK, Level, OnSpine, Between, SpineAt
<1> QED
  BY <1>1, <1>5, <1>6, <1>7 DEF Course

(* Every step keeps it.                                                    *)
LEMMA CourseStep == Course /\ [Next]_vars => Course'
<1> SUFFICES ASSUME Course, [Next]_vars PROVE Course'
  OBVIOUS
<1>1. TypeOK'
  BY TypeStep DEF Course
<1>2. SpineOK' /\ FlowOK' /\ PendOK'
  BY <1>1, SpineStep, FlowStep, PendStep DEF Course
<1>3. LevelOK' /\ AheadOK'
  BY <1>1, <1>2, LevelStep, AheadStep
<1> QED
  BY <1>1, <1>2, <1>3 DEF Course

(* The invariant the two properties rest on.                               *)
THEOREM Inductive == Spec => []Course
BY CourseInit, CourseStep, PTL DEF Spec

(* publishAndApply, process, the absorb loop and Session.open: a member is *)
(* in the epoch its cursor has reached but for commits of its own, unless  *)
(* it lost the group in one of the ways "estranged" names.                 *)
THEOREM StaysOnCourse == Spec => []OnCourse
<1>1. Course => OnCourse
  <2> SUFFICES ASSUME Course, NEW d \in Device \ estranged, mem[d].joined, d \in MyTree(d).members
               PROVE  /\ OnSpine(mem[d].tip)
                      /\ \A c \in (Seen(mem[d]) \ Walked(mem[d])) \cup (Walked(mem[d]) \ Seen(mem[d])) :
                           made[c].by = d
    BY DEF OnCourse
  <2>1. PICK a \in Nat, q \in Nat : a = mem[d].tip /\ q = mem[d].cursor /\ q \in 0 .. Len(spine)
    BY ViewShape, SpineShape DEF Course
  <2>2. Level(d, mem[d])
    BY DEF Course, LevelOK, MyTree
  <2>3. PICK i \in 0 .. Len(spine) : SpineAt(i) = a
    BY <2>1, <2>2, Place DEF Level, Course
  <2>4. \A k \in 0 .. Len(spine) : SpineAt(k) \in Nat
    BY SpineShape DEF Course
  <2>5. \A j, k \in 0 .. Len(spine) : j <= k => SpineAt(j) <= SpineAt(k)
    BY DEF Course, SpineOK, Sorted
  <2>6. ASSUME NEW k \in 0 .. Len(spine), Between(SpineAt(k), a, SpineAt(q)) PROVE made[SpineAt(k)].by = d
    BY <2>1, <2>2, <2>6 DEF Level
  <2>7. Seen(mem[d]) = {SpineAt(k) : k \in 0 .. q}
    BY <2>1 DEF Seen
  <2>8. Len(spine) \in Nat
    BY SpineShape DEF Course
  <2>9. ASSUME NEW k \in 0 .. Len(spine), SpineAt(k) \notin Walked(mem[d]) PROVE a < SpineAt(k)
    <3>1. \A h \in k .. Len(spine) : SpineAt(h) # a
      BY <2>1, <2>9 DEF Walked
    <3>2. i < k
      BY <2>3, <2>8, <3>1
    <3>3. a <= SpineAt(k) /\ SpineAt(k) # a
      BY <2>3, <2>5, <2>8, <3>1, <3>2
    <3> QED
      BY <2>4, <3>3
  <2>10. ASSUME NEW c \in Seen(mem[d]), c \notin Walked(mem[d]) PROVE made[c].by = d
    <3>1. PICK k \in 0 .. q : c = SpineAt(k)
      BY <2>7, <2>10
    <3>2. k \in 0 .. Len(spine) /\ SpineAt(k) <= SpineAt(q)
      BY <2>1, <2>5, <2>8
    <3>3. Between(SpineAt(k), a, SpineAt(q))
      BY <2>9, <2>10, <3>1, <3>2 DEF Between
    <3> QED
      BY <2>6, <3>1, <3>2, <3>3
  <2>11. ASSUME NEW c \in Walked(mem[d]), c \notin Seen(mem[d]) PROVE made[c].by = d
    <3>1. PICK k \in 0 .. Len(spine) : c = SpineAt(k) /\ \E h \in k .. Len(spine) : SpineAt(h) = a
      BY <2>1, <2>11 DEF Walked
    <3>2. PICK h \in k .. Len(spine) : SpineAt(h) = a
      BY <3>1
    <3>3. SpineAt(k) <= a
      BY <2>5, <2>8, <3>2
    <3>4. k \notin 0 .. q /\ SpineAt(k) # SpineAt(q)
      BY <2>1, <2>7, <2>11, <3>1
    <3>5. SpineAt(q) <= SpineAt(k)
      BY <2>1, <2>5, <2>8, <3>4
    <3>6. Between(SpineAt(k), a, SpineAt(q))
      BY <2>1, <2>4, <3>3, <3>4, <3>5 DEF Between
    <3> QED
      BY <2>6, <3>1, <3>6
  <2> QED
    BY <2>2, <2>10, <2>11 DEF Level
<1> QED
  BY <1>1, Inductive, PTL

(* Members that read everything, with nothing under way, are in one epoch, *)
(* whatever raced, was refused, lost or revoked on the way there.          *)
THEOREM MembersAgree == Spec => []Agreement
<1>1. Course => Agreement
  <2>1. ASSUME Course, NEW d \in Device, Settled(d) PROVE mem[d].tip = Canon
    <3>1. PICK a \in Nat, n \in Nat : a = mem[d].tip /\ n = Len(spine)
      BY <2>1, ViewShape, SpineShape DEF Course
    <3>2. Level(d, mem[d]) /\ d \in Device \ estranged
      BY <2>1 DEF Course, LevelOK, MyTree, Settled
    <3>3. PICK i \in 0 .. n : SpineAt(i) = a
      BY <2>1, <3>1, <3>2, Place DEF Level, Course
    <3>4. Canon = SpineAt(n) /\ mem[d].cursor = n /\ SpineAt(n) \in Nat
      BY <2>1, <3>1, SpineShape DEF Course, Settled
    <3>5. a <= SpineAt(n)
      BY <2>1, <3>1, <3>3 DEF Course, SpineOK, Sorted
    <3>6. CASE a < SpineAt(n)
      <4>1. made[SpineAt(n)].by = d
        BY <3>1, <3>2, <3>4, <3>6 DEF Level, Between
      <4>2. n \in 1 .. Len(spine) /\ SpineAt(n) = spine[n]
        BY <3>1, <3>6 DEF SpineAt
      <4>3. \E f \in Flows : flow[d][f].pc = "landed"
        BY <2>1, <3>1, <3>2, <3>6, <4>1, <4>2 DEF Course, AheadOK
      <4> QED
        BY <2>1, <4>3 DEF Settled, Rest, Idle, Flows
    <3> QED
      BY <3>1, <3>4, <3>5, <3>6
  <2> QED
    BY <2>1 DEF Agreement
<1> QED
  BY <1>1, Inductive, PTL

=============================================================================
