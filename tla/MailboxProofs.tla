---------------------------- MODULE MailboxProofs ----------------------------
(***************************************************************************)
(* What the runs of MCMailbox check on two devices, proved for any set of  *)
(* devices, any page, tail and retention, and any bounds.                  *)
(***************************************************************************)
EXTENDS Mailbox, TLAPS, FiniteSetTheorems

(* Sequences are numbers throughout: expanded everywhere.                  *)
USE DEF Seqs

(***************************************************************************)
(* The inductive invariant.  NoSkip alone is not inductive: a page is      *)
(* fetched in one step and absorbed in another, so what the page holds     *)
(* must be tied to the rows the server still has; a post that commits in   *)
(* between must lie beyond every cursor and every page.                    *)
(***************************************************************************)

(* The rows are finitely many, and none is numbered past the counter.      *)
MailOK == IsFiniteSet(mail) /\ \A e \in mail : e.seq <= nextSeq

(* What holds of every copy of a view of device q: its cursor is within    *)
(* the counter, its ratchet within its cursor, and between the cursor it   *)
(* was born with and the one it has, no stored row was passed over.        *)
ViewOK(v, q) ==
  /\ v.base <= v.cursor /\ v.cursor <= nextSeq
  /\ \A s \in v.read : v.base < s /\ s <= v.cursor
  /\ v.joined => \A e \in mail :
       v.base < e.seq /\ e.seq <= v.cursor => e.seq \in v.read \cup sent[q]

ViewsOK == \A q \in Device : \A v \in Views(q) : ViewOK(v, q)

(* A device knows as its own only what it posted.                          *)
MineSent == \A d \in Device : mine[d] \subseteq sent[d]

(* A page in hand starts right after the cursor and leaves out no row that *)
(* is still stored before its last one.                                    *)
PageOK == \A d \in Device : poll[d].pc = "rows" =>
  \A s \in poll[d].rows :
    /\ mem[d].cursor < s /\ s <= nextSeq
    /\ \A e \in mail : mem[d].cursor < e.seq /\ e.seq <= s => e.seq \in poll[d].rows

IInv == TypeOK /\ MailOK /\ ViewsOK /\ MineSent /\ PageOK /\ TailKept

(* The values a view, a post and a poll start from have the declared shape. *)
LEMMA ViewShapes ==
  /\ NoView \in View
  /\ \A d : FirstView(d) \in View
  /\ NoPost \in Post
  /\ NoPoll \in Poll
<1>1. 0 \in 0 .. MaxSeq /\ 0 \in 0 .. MaxClock /\ 0 \in 0 .. MaxSeq + 1
  BY BoundAssumption
<1>2. NoView \in View
  BY <1>1 DEF NoView, View
<1>3. ASSUME NEW d PROVE FirstView(d) \in View
  BY <1>1, <1>2 DEF FirstView, NoView, View
<1>4. NoPost \in Post
  BY <1>1, <1>2 DEF NoPost, Post
<1>5. NoPoll \in Poll
  BY <1>1, <1>2 DEF NoPoll, Poll
<1> QED
  BY <1>2, <1>3, <1>4, <1>5

(* The empty mailbox and its founders are well typed.                      *)
LEMMA TypeInit == Init => TypeOK
<1> SUFFICES ASSUME Init PROVE TypeOK
  OBVIOUS
<1>1. 0 \in 0 .. MaxClock /\ 0 \in 0 .. MaxSeq /\ 0 \in 0 .. MaxCrashes /\ 0 \in 0 .. MaxChanges
  BY BoundAssumption
<1>2. LockHeld
  BY DeviceAssumption DEF Init, NoPost, LockHeld
<1> QED
  BY <1>1, <1>2, ViewShapes, DeviceAssumption DEF Init, TypeOK

(* Each handler, the purge, the clock and a crash keep every variable's    *)
(* shape and hand the row lock from one post_envelope to the next.         *)
LEMMA TypeStep == TypeOK /\ [Next]_vars => TypeOK'
<1> SUFFICES ASSUME TypeOK, [Next]_vars PROVE TypeOK'
  OBVIOUS
<1> USE BoundAssumption, DeviceAssumption, ViewShapes
<1>1. ASSUME NEW d \in Device, NEW n \in Device, AddMember(d, n) PROVE TypeOK'
  BY <1>1 DEF AddMember, TypeOK, LockHeld, server, client, history
<1>2. ASSUME NEW d \in Device, NEW n \in Device, RemoveMember(d, n) PROVE TypeOK'
  BY <1>2 DEF RemoveMember, TypeOK, LockHeld, server, client, history
<1>3. ASSUME NEW d \in Device, NEW to \in Device \cup {Nobody}, PostBegin(d, to)
      PROVE TypeOK'
  BY <1>3 DEF PostBegin, TypeOK, LockHeld, client, history, Post, NoPost
<1>4. ASSUME NEW d \in Device, PostDraw(d) PROVE TypeOK'
  <2> DEFINE drawn == [post[d] EXCEPT !.pc = "drawn", !.seq = nextSeq + 1]
  <2>3. post[d] \in Post /\ nextSeq + 1 \in 0 .. MaxSeq
    BY <1>4 DEF PostDraw, TypeOK
  <2>4. drawn \in Post
    BY <2>3 DEF Post
  <2>5. post' = [post EXCEPT ![d] = drawn]
    BY <1>4 DEF PostDraw, TypeOK
  <2>1. post' \in [Device -> Post]
    BY <2>4, <2>5 DEF TypeOK
  <2>2. LockHeld'
    BY <1>4 DEF PostDraw, TypeOK, LockHeld, history
  <2> QED
    BY <1>4, <2>1, <2>2 DEF PostDraw, TypeOK, client, history
<1>5. ASSUME NEW d \in Device, PostCommit(d) PROVE TypeOK'
  <2>1. post[d] \in Post /\ post[d].seq \in Seqs /\ post[d].seq \in 0 .. MaxSeq
    BY <1>5 DEF PostCommit, TypeOK, LockHeld, Post
  <2>2. post' \in [Device -> Post]
    BY <1>5, <2>1 DEF PostCommit, TypeOK, Post
  <2>3. mail' \subseteq Envelope
    BY <1>5, <2>1 DEF PostCommit, TypeOK, Post, Envelope
  <2>4. LockHeld'
    BY <1>5, <2>1 DEF PostCommit, TypeOK, LockHeld, NoPost
  <2> QED
    BY <1>5, <2>1, <2>2, <2>3, <2>4 DEF PostCommit, TypeOK, client
<1>6. ASSUME NEW d \in Device, PostAbort(d) PROVE TypeOK'
  BY <1>6 DEF PostAbort, TypeOK, LockHeld, client, history, NoPost
<1>7. ASSUME NEW d \in Device, PostAnswered(d) PROVE TypeOK'
  <2>1. post' \in [Device -> Post]
    BY <1>7 DEF PostAnswered, TypeOK, Post
  <2>2. mine' \in [Device -> SUBSET Seqs]
    BY <1>7 DEF PostAnswered, TypeOK, LockHeld
  <2>3. LockHeld'
    BY <1>7 DEF PostAnswered, TypeOK, LockHeld, history
  <2> QED
    BY <1>7, <2>1, <2>2, <2>3 DEF PostAnswered, TypeOK, history
<1>8. ASSUME NEW d \in Device, PostLost(d) PROVE TypeOK'
  BY <1>8 DEF PostLost, TypeOK, LockHeld, client, history, NoPost
<1>9. ASSUME NEW d \in Device, PostSaved(d) PROVE TypeOK'
  BY <1>9 DEF PostSaved, TypeOK, LockHeld, history, Post, NoPost
<1>10. ASSUME NEW d \in Device, PollStep(d) PROVE TypeOK'
  <2>1. CASE PollOldest(d)
    <3>1. PICK m \in {e.seq : e \in mail} \cup {nextSeq + 1} :
            poll' = [poll EXCEPT ![d] = [NoPoll EXCEPT !.pc = "oldest", !.oldest = m]]
      BY <2>1 DEF PollOldest
    <3>2. m \in 0 .. MaxSeq + 1
      BY <3>1 DEF TypeOK, Envelope
    <3>3. [NoPoll EXCEPT !.pc = "oldest", !.oldest = m] \in Poll
      BY <3>2 DEF NoPoll, Poll
    <3> QED
      BY <2>1, <3>1, <3>3 DEF PollOldest, TypeOK, LockHeld, server, history
  <2>2. CASE PollRows(d)
    <3>1. {e.seq : e \in FirstPage(mem[d].cursor)} \subseteq Seqs
      BY DEF TypeOK, FirstPage, Envelope
    <3>2. poll' \in [Device -> Poll]
      BY <2>2, <3>1 DEF PollRows, TypeOK, Poll
    <3> QED
      BY <2>2, <3>2 DEF PollRows, TypeOK, LockHeld, server, history
  <2>3. CASE PollSevered(d)
    BY <2>3 DEF PollSevered, TypeOK, LockHeld, server, history
  <2>4. CASE PollAbsorb(d)
    <3> DEFINE fresh == poll[d].rows \ mine[d]
               after(m) == [mem[d] EXCEPT !.cursor = m, !.read = @ \cup fresh]
    <3>1. PICK m \in poll[d].rows \cup {mem[d].cursor} :
            /\ mem' = [mem EXCEPT ![d] = after(m)]
            /\ poll' = [poll EXCEPT ![d] = [NoPoll EXCEPT !.pc = "saving", !.snap = after(m)]]
      BY <2>4 DEF PollAbsorb
    <3>2. mem[d] \in View /\ poll[d].rows \subseteq Seqs
      BY DEF TypeOK, Poll
    <3>3. m \in 0 .. MaxSeq /\ fresh \subseteq Seqs
      BY <3>1, <3>2 DEF View
    <3>4. after(m) \in View
      BY <3>2, <3>3 DEF View
    <3> HIDE DEF after
    <3>5. [NoPoll EXCEPT !.pc = "saving", !.snap = after(m)] \in Poll
      BY <3>4 DEF NoPoll, Poll
    <3> QED
      BY <2>4, <3>1, <3>4, <3>5 DEF PollAbsorb, TypeOK, LockHeld, server, history
  <2>5. CASE PollSaved(d)
    BY <2>5 DEF PollSaved, TypeOK, LockHeld, server, history, Poll
  <2>6. CASE Discover(d)
    <3> DEFINE born(w) == [joined |-> TRUE, cursor |-> w.seq, base |-> w.seq, read |-> {}]
    <3>1. PICK w \in FirstPage(0) :
            /\ mem' = [mem EXCEPT ![d] = born(w)]
            /\ poll' = [poll EXCEPT ![d] = [NoPoll EXCEPT !.pc = "saving", !.snap = born(w)]]
      BY <2>6 DEF Discover
    <3>2. born(w) \in View
      BY <3>1 DEF FirstPage, TypeOK, Envelope, View
    <3> HIDE DEF born
    <3>3. [NoPoll EXCEPT !.pc = "saving", !.snap = born(w)] \in Poll
      BY <3>2 DEF NoPoll, Poll
    <3> QED
      BY <2>6, <3>1, <3>2, <3>3 DEF Discover, TypeOK, LockHeld, server, history
  <2> QED
    BY <1>10, <2>1, <2>2, <2>3, <2>4, <2>5, <2>6 DEF PollStep
<1>11. ASSUME NEW d \in Device, Crash(d) PROVE TypeOK'
  <2>1. post' \in [Device -> Post]
    BY <1>11 DEF Crash, TypeOK, Post
  <2>2. LockHeld'
    BY <1>11 DEF Crash, TypeOK, LockHeld, history, NoPost
  <2> QED
    BY <1>11, <2>1, <2>2 DEF Crash, TypeOK, history
<1>12. ASSUME Purge PROVE TypeOK'
  BY <1>12 DEF Purge, TypeOK, LockHeld, client, Envelope
<1>13. ASSUME Tick PROVE TypeOK'
  BY <1>13 DEF Tick, TypeOK, LockHeld, client, history
<1>14. ASSUME UNCHANGED vars PROVE TypeOK'
  BY <1>14 DEF vars, server, client, history, TypeOK, LockHeld
<1> QED
  BY <1>1, <1>2, <1>3, <1>4, <1>5, <1>6, <1>7, <1>8, <1>9, <1>10, <1>11, <1>12, <1>13, <1>14
     DEF Next

-----------------------------------------------------------------------------
(* The initial state.                                                      *)

(* An empty mailbox satisfies the strengthened invariant.                  *)
LEMMA InvInit == Init => IInv
<1> SUFFICES ASSUME Init PROVE IInv
  OBVIOUS
<1>1. TypeOK
  BY TypeInit
<1>2. MailOK
  BY FS_EmptySet DEF Init, MailOK
<1>3. ViewsOK
  <2> SUFFICES ASSUME NEW q \in Device, NEW v \in Views(q) PROVE ViewOK(v, q)
    BY DEF ViewsOK
  <2>2. v \in {NoView, FirstView(q)}
    BY DEF Init, Views, NoPost, NoPoll
  <2>3. FirstView(q).cursor = 0 /\ FirstView(q).base = 0 /\ FirstView(q).read = {}
    BY DEF FirstView, NoView
  <2>1. v.cursor = 0 /\ v.base = 0 /\ v.read = {}
    BY <2>2, <2>3 DEF NoView
  <2> QED
    BY <2>1 DEF ViewOK, Init
<1>4. MineSent /\ PageOK
  BY DEF Init, MineSent, PageOK, NoPoll
<1>5. TailKept
  BY DEF Init, TailKept
<1> QED
  BY <1>1, <1>2, <1>3, <1>4, <1>5 DEF IInv

-----------------------------------------------------------------------------
(* The server.  Its rows only go away, or come with a number no cursor has *)
(* reached: this is where the row lock of post_envelope is used.           *)

ServerStep ==
  /\ nextSeq <= nextSeq'
  /\ \A q \in Device : sent[q] \subseteq sent'[q]
  /\ \A e \in mail' : e \in mail \/ (e.seq > nextSeq /\ e.seq <= nextSeq')

(* On the server side a step only adds to what was sent, only moves the    *)
(* counter up, and stores a new row beyond the old counter: this is what   *)
(* the row lock of post_envelope buys.                                     *)
LEMMA ServerMoves == IInv /\ [Next]_vars => ServerStep /\ MailOK'
<1> SUFFICES ASSUME IInv, [Next]_vars PROVE ServerStep /\ MailOK'
  OBVIOUS
<1> USE DEF ServerStep, MailOK
<1>0. nextSeq \in Nat
  BY BoundAssumption DEF IInv, TypeOK
<1>1. ASSUME NEW d \in Device, PostCommit(d) PROVE ServerStep /\ MailOK'
  <2>1. post[d].seq = nextSeq + 1
    BY <1>1 DEF PostCommit, IInv, TypeOK, LockHeld
  <2>2. \A q \in Device : sent[q] \subseteq sent'[q]
    BY <1>1 DEF PostCommit, IInv, TypeOK
  <2>3. IsFiniteSet(mail')
    BY <1>1, FS_AddElement DEF PostCommit, IInv
  <2>4. nextSeq' = nextSeq + 1
    BY <1>1, <2>1 DEF PostCommit
  <2>5. ASSUME NEW e \in mail' PROVE e \in mail \/ e.seq = nextSeq + 1
    BY <1>1, <2>1 DEF PostCommit
  <2>6. \A e \in mail : e.seq \in Nat /\ e.seq <= nextSeq
    BY DEF IInv, TypeOK, Envelope
  <2> QED
    BY <1>0, <2>2, <2>3, <2>4, <2>5, <2>6
<1>2. ASSUME Purge PROVE ServerStep /\ MailOK'
  <2>1. mail' \subseteq mail /\ nextSeq' = nextSeq /\ sent' = sent
    BY <1>2 DEF Purge
  <2> QED
    BY <1>0, <2>1, FS_Subset DEF IInv
<1>3. ASSUME mail' = mail, nextSeq' = nextSeq, sent' = sent PROVE ServerStep /\ MailOK'
  BY <1>0, <1>3 DEF IInv
<1>4. CASE mail' = mail /\ nextSeq' = nextSeq /\ sent' = sent
  BY <1>3, <1>4
<1>5. ASSUME NEW d \in Device,
             \/ PostDraw(d) \/ PostAbort(d) \/ PostAnswered(d) \/ PostLost(d) \/ PostSaved(d)
             \/ PollStep(d) \/ Crash(d)
      PROVE  mail' = mail /\ nextSeq' = nextSeq /\ sent' = sent
  BY <1>5 DEF PostDraw, PostAbort, PostAnswered, PostLost, PostSaved, PollStep, PollOldest,
              PollRows, PollSevered, PollAbsorb, PollSaved, Discover, Crash, server, history
<1>6. ASSUME NEW d \in Device, NEW n \in Device \cup {Nobody},
             AddMember(d, n) \/ RemoveMember(d, n) \/ PostBegin(d, n)
      PROVE  mail' = mail /\ nextSeq' = nextSeq /\ sent' = sent
  BY <1>6 DEF AddMember, RemoveMember, PostBegin, history
<1>7. ASSUME Tick \/ UNCHANGED vars PROVE mail' = mail /\ nextSeq' = nextSeq /\ sent' = sent
  BY <1>7 DEF Tick, vars, server, history
<1> QED
  BY <1>1, <1>2, <1>4, <1>5, <1>6, <1>7 DEF Next

-----------------------------------------------------------------------------
(* The copies of the views.                                                *)

(* A copy that was right stays right whatever the server does.             *)
LEMMA ViewKept ==
  ASSUME IInv, TypeOK', ServerStep, NEW q \in Device, NEW v \in View, ViewOK(v, q)
  PROVE  ViewOK(v, q)'
<1>1. nextSeq \in Nat /\ nextSeq' \in Nat /\ v.cursor \in Nat /\ v.base \in Nat
  BY BoundAssumption DEF IInv, TypeOK, View
<1>2. \A e \in mail' : e.seq \in Nat
  BY BoundAssumption DEF TypeOK, Envelope
<1>3. v.base <= v.cursor /\ v.cursor <= nextSeq'
  BY <1>1 DEF ViewOK, ServerStep
<1>4. ASSUME v.joined, NEW e \in mail', v.base < e.seq, e.seq <= v.cursor
      PROVE  e.seq \in v.read \cup sent'[q]
  <2>1. e \in mail
    BY <1>1, <1>2, <1>4 DEF ViewOK, ServerStep
  <2> QED
    BY <1>4, <2>1 DEF ViewOK, ServerStep
<1> QED
  BY <1>3, <1>4 DEF ViewOK

(* A device that does not hold the conversation has passed over nothing.   *)
LEMMA NoViewOK == ASSUME IInv, NEW q \in Device PROVE ViewOK(NoView, q)
BY BoundAssumption DEF IInv, TypeOK, ViewOK, NoView

(* But for a page absorbed and a group discovered, a step makes no copy of *)
(* a view that was not there: persist and Session.open move them around.   *)
LEMMA ViewMoves ==
  IInv /\ [Next]_vars =>
    \/ \A q \in Device : Views(q)' \subseteq Views(q) \cup {NoView}
    \/ \E d \in Device : PollAbsorb(d) \/ Discover(d)
<1> SUFFICES ASSUME IInv, [Next]_vars
             PROVE  \/ \A q \in Device : Views(q)' \subseteq Views(q) \cup {NoView}
                    \/ \E d \in Device : PollAbsorb(d) \/ Discover(d)
  OBVIOUS
<1>4. ASSUME NEW d \in Device, NEW n \in Device \cup {Nobody},
             AddMember(d, n) \/ RemoveMember(d, n) \/ PostBegin(d, n)
      PROVE  \A q \in Device : Views(q)' \subseteq Views(q) \cup {NoView}
  <2>1. mem' = mem /\ disk' = disk /\ poll' = poll
    BY <1>4 DEF AddMember, RemoveMember, PostBegin, client
  <2>2. ASSUME NEW q \in Device PROVE post'[q].snap \in {post[q].snap, NoView}
    <3>1. CASE AddMember(d, n) \/ RemoveMember(d, n)
      BY <3>1 DEF AddMember, RemoveMember
    <3>2. CASE PostBegin(d, n)
      <4>1. PICK begun : begun.snap = NoView /\ post' = [post EXCEPT ![d] = begun]
        BY <3>2 DEF PostBegin, NoPost
      <4> QED
        BY <4>1 DEF IInv, TypeOK
    <3> QED
      BY <1>4, <3>1, <3>2
  <2> QED
    BY <2>1, <2>2 DEF Views
<1>5. ASSUME NEW d \in Device,
             \/ PostDraw(d) \/ PostCommit(d) \/ PostAbort(d) \/ PostLost(d)
      PROVE  \A q \in Device : Views(q)' \subseteq Views(q) \cup {NoView}
  <2>1. mem' = mem /\ disk' = disk /\ poll' = poll
    BY <1>5 DEF PostDraw, PostCommit, PostAbort, PostLost, client
  <2>2. ASSUME NEW q \in Device PROVE post'[q].snap \in {post[q].snap, NoView}
    <3>1. post \in [Device -> Post] /\ post[d] \in Post /\ NoPost.snap = NoView
      BY DEF IInv, TypeOK, NoPost
    <3>2. CASE PostDraw(d)
      BY <3>1, <3>2 DEF PostDraw, Post
    <3>3. CASE PostCommit(d)
      BY <3>1, <3>3 DEF PostCommit, Post
    <3>4. CASE PostAbort(d) \/ PostLost(d)
      BY <3>1, <3>4 DEF PostAbort, PostLost
    <3> QED
      BY <1>5, <3>2, <3>3, <3>4
  <2> QED
    BY <2>1, <2>2 DEF Views
<1>6. ASSUME NEW d \in Device, PostAnswered(d) \/ PostSaved(d) \/ Crash(d)
      PROVE  \A q \in Device : Views(q)' \subseteq Views(q) \cup {NoView}
  <2> SUFFICES ASSUME NEW q \in Device PROVE Views(q)' \subseteq Views(q) \cup {NoView}
    OBVIOUS
  <2>1. mem'[q] \in {mem[q], disk[q]} /\ disk'[q] \in {disk[q], post[q].snap}
    BY <1>6 DEF PostAnswered, PostSaved, Crash, IInv, TypeOK
  <2>2. post'[q].snap \in {post[q].snap, mem[q], NoView}
    BY <1>6 DEF PostAnswered, PostSaved, Crash, NoPost, IInv, TypeOK, Post
  <2>3. poll'[q].snap \in {poll[q].snap, NoView}
    BY <1>6 DEF PostAnswered, PostSaved, Crash, NoPoll, IInv, TypeOK
  <2> QED
    BY <2>1, <2>2, <2>3 DEF Views
<1>7. ASSUME NEW d \in Device,
             PollOldest(d) \/ PollRows(d) \/ PollSevered(d) \/ PollSaved(d)
      PROVE  \A q \in Device : Views(q)' \subseteq Views(q) \cup {NoView}
  <2> SUFFICES ASSUME NEW q \in Device PROVE Views(q)' \subseteq Views(q) \cup {NoView}
    OBVIOUS
  <2>1. mem' = mem /\ post' = post /\ disk'[q] \in {disk[q], poll[q].snap}
    BY <1>7 DEF PollOldest, PollRows, PollSevered, PollSaved, server, IInv, TypeOK
  <2>2. poll'[q].snap \in {poll[q].snap, NoView}
    <3>1. CASE PollOldest(d)
      <4>1. PICK begun : begun.snap = NoView /\ poll' = [poll EXCEPT ![d] = begun]
        BY <3>1 DEF PollOldest, NoPoll
      <4> QED
        BY <4>1 DEF IInv, TypeOK
    <3>2. CASE PollRows(d)
      BY <3>2 DEF PollRows, IInv, TypeOK, Poll
    <3>3. CASE PollSevered(d) \/ PollSaved(d)
      BY <3>3 DEF PollSevered, PollSaved, NoPoll, IInv, TypeOK
    <3> QED
      BY <1>7, <3>1, <3>2, <3>3
  <2> QED
    BY <2>1, <2>2 DEF Views
<1>8. ASSUME Purge \/ Tick \/ UNCHANGED vars
      PROVE  \A q \in Device : Views(q)' \subseteq Views(q) \cup {NoView}
  BY <1>8 DEF Purge, Tick, vars, server, client, Views
<1> QED
  BY <1>4, <1>5, <1>6, <1>7, <1>8 DEF Next, PollStep

(* The view a page leaves behind, in memory and on its way to the disk.    *)
LEMMA AbsorbMakes ==
  ASSUME IInv, NEW d \in Device, PollAbsorb(d)
  PROVE  \E v \in View :
           /\ v.joined = mem[d].joined /\ v.base = mem[d].base
           /\ v.read = mem[d].read \cup (poll[d].rows \ mine[d])
           /\ v.cursor \in poll[d].rows \cup {mem[d].cursor}
           /\ IsLast(v.cursor, poll[d].rows, mem[d].cursor)
           /\ \A q \in Device : Views(q)' \subseteq Views(q) \cup (IF q = d THEN {v} ELSE {})
<1> DEFINE fresh == poll[d].rows \ mine[d]
           after(m) == [mem[d] EXCEPT !.cursor = m, !.read = @ \cup fresh]
<1>1. PICK m \in poll[d].rows \cup {mem[d].cursor} :
        /\ IsLast(m, poll[d].rows, mem[d].cursor)
        /\ mem' = [mem EXCEPT ![d] = after(m)]
        /\ poll' = [poll EXCEPT ![d] = [NoPoll EXCEPT !.pc = "saving", !.snap = after(m)]]
  BY DEF PollAbsorb
<1>2. PICK v \in {after(m)} : v = after(m)
  OBVIOUS
<1>3. /\ mem' = [mem EXCEPT ![d] = v]
      /\ poll' = [poll EXCEPT ![d] = [NoPoll EXCEPT !.pc = "saving", !.snap = v]]
  BY <1>1, <1>2
<1>4. mem[d] \in View /\ poll[d].rows \subseteq Seqs /\ m \in 0 .. MaxSeq
  BY <1>1 DEF IInv, TypeOK, Poll, View
<1>5. /\ v.joined = mem[d].joined /\ v.cursor = m
      /\ v.base = mem[d].base /\ v.read = mem[d].read \cup fresh /\ v \in View
  BY <1>2, <1>4 DEF View
<1> HIDE DEF after
<1>6. \A q \in Device : Views(q)' \subseteq Views(q) \cup (IF q = d THEN {v} ELSE {})
  <2> SUFFICES ASSUME NEW q \in Device
               PROVE  Views(q)' \subseteq Views(q) \cup (IF q = d THEN {v} ELSE {})
    OBVIOUS
  <2>1. disk' = disk /\ post' = post
    BY DEF PollAbsorb, server
  <2>2. mem'[q] = (IF q = d THEN v ELSE mem[q])
    BY <1>3 DEF IInv, TypeOK
  <2>3. poll'[q].snap = (IF q = d THEN v ELSE poll[q].snap)
    BY <1>3 DEF IInv, TypeOK, NoPoll
  <2> QED
    BY <2>1, <2>2, <2>3 DEF Views
<1> QED
  BY <1>1, <1>5, <1>6

(* The view a device that was added is given by its Welcome.               *)
LEMMA DiscoverMakes ==
  ASSUME IInv, NEW d \in Device, Discover(d)
  PROVE  \E w \in mail, v \in View :
           /\ v = [joined |-> TRUE, cursor |-> w.seq, base |-> w.seq, read |-> {}]
           /\ \A q \in Device : Views(q)' \subseteq Views(q) \cup (IF q = d THEN {v} ELSE {})
<1> DEFINE born(w) == [joined |-> TRUE, cursor |-> w.seq, base |-> w.seq, read |-> {}]
<1>1. PICK w \in FirstPage(0) :
        /\ mem' = [mem EXCEPT ![d] = born(w)]
        /\ poll' = [poll EXCEPT ![d] = [NoPoll EXCEPT !.pc = "saving", !.snap = born(w)]]
  BY DEF Discover
<1>2. w \in mail /\ w.seq \in 0 .. MaxSeq
  BY <1>1, BoundAssumption DEF FirstPage, IInv, TypeOK, Envelope
<1>3. born(w) \in View
  BY <1>2 DEF View
<1>4. PICK v \in {born(w)} : v = born(w)
  OBVIOUS
<1>5. /\ mem' = [mem EXCEPT ![d] = v]
      /\ poll' = [poll EXCEPT ![d] = [NoPoll EXCEPT !.pc = "saving", !.snap = v]]
  BY <1>1, <1>4
<1>6. \A q \in Device : Views(q)' \subseteq Views(q) \cup (IF q = d THEN {v} ELSE {})
  <2> SUFFICES ASSUME NEW q \in Device
               PROVE  Views(q)' \subseteq Views(q) \cup (IF q = d THEN {v} ELSE {})
    OBVIOUS
  <2>1. disk' = disk /\ post' = post
    BY DEF Discover, server
  <2>2. mem'[q] = (IF q = d THEN v ELSE mem[q])
    BY <1>5 DEF IInv, TypeOK
  <2>3. poll'[q].snap = (IF q = d THEN v ELSE poll[q].snap)
    BY <1>5 DEF IInv, TypeOK, NoPoll
  <2> QED
    BY <2>1, <2>2, <2>3 DEF Views
<1> QED
  BY <1>2, <1>3, <1>4, <1>6

(* Every copy of a view stays right: what pollOnce absorbs, what persist   *)
(* writes, what discovery creates and what Session.open reads back.        *)
LEMMA ViewsStep == IInv /\ TypeOK' /\ [Next]_vars => ViewsOK'
<1> SUFFICES ASSUME IInv, TypeOK', [Next]_vars PROVE ViewsOK'
  OBVIOUS
<1>1. ServerStep
  BY ServerMoves
<1>2. ASSUME NEW q \in Device, NEW v \in Views(q) \cup {NoView} PROVE ViewOK(v, q)'
  <2>1. v \in View
    BY ViewShapes DEF IInv, TypeOK, Views, Post, Poll
  <2>2. ViewOK(v, q)
    BY NoViewOK DEF IInv, ViewsOK
  <2> QED
    BY <1>1, <2>1, <2>2, ViewKept
(* Most steps make no new copy.                                            *)
<1>3. ASSUME \A q \in Device : Views(q)' \subseteq Views(q) \cup {NoView} PROVE ViewsOK'
  BY <1>2, <1>3 DEF ViewsOK
(* Absorbing a page and joining each make one.                             *)
<1>9. ASSUME NEW d \in Device, PollAbsorb(d) PROVE ViewsOK'
  <2>1. PICK v \in View :
          /\ v.joined = mem[d].joined /\ v.base = mem[d].base
          /\ v.read = mem[d].read \cup (poll[d].rows \ mine[d])
          /\ v.cursor \in poll[d].rows \cup {mem[d].cursor}
          /\ IsLast(v.cursor, poll[d].rows, mem[d].cursor)
          /\ \A q \in Device : Views(q)' \subseteq Views(q) \cup (IF q = d THEN {v} ELSE {})
    BY <1>9, AbsorbMakes
  <2>2. mem[d] \in View /\ ViewOK(mem[d], d) /\ poll[d].rows \subseteq Seqs
    BY DEF IInv, TypeOK, ViewsOK, Views, Poll
  <2>3. mail' = mail /\ nextSeq' = nextSeq /\ sent' = sent
    BY <1>9 DEF PollAbsorb, server, history
  <2>5. /\ nextSeq \in Nat /\ v.cursor \in Nat /\ mem[d].cursor \in Nat /\ mem[d].base \in Nat
        /\ \A s \in mem[d].read \cup poll[d].rows : s \in Nat
        /\ \A e \in mail : e.seq \in Nat
    BY <2>1, <2>2, BoundAssumption DEF IInv, TypeOK, View, Envelope
  <2>6. \A s \in poll[d].rows :
          /\ mem[d].cursor < s /\ s <= nextSeq
          /\ \A e \in mail : mem[d].cursor < e.seq /\ e.seq <= s => e.seq \in poll[d].rows
    BY <1>9 DEF PollAbsorb, IInv, PageOK
  <2>7. v.cursor >= mem[d].cursor /\ \A s \in poll[d].rows : v.cursor >= s
    BY <2>1 DEF IsLast
  <2>8. ViewOK(v, d)
    <3>1. v.base <= v.cursor /\ v.cursor <= nextSeq
      BY <2>1, <2>2, <2>5, <2>6, <2>7 DEF ViewOK
    <3>2. \A s \in v.read : v.base < s /\ s <= v.cursor
      BY <2>1, <2>2, <2>5, <2>6, <2>7 DEF ViewOK
    <3>3. ASSUME mem[d].joined, NEW e \in mail, mem[d].base < e.seq, e.seq <= v.cursor
          PROVE  e.seq \in v.read \cup sent[d]
      <4>1. CASE e.seq <= mem[d].cursor
        BY <2>1, <2>2, <3>3, <4>1 DEF ViewOK
      <4>2. CASE mem[d].cursor < e.seq
        <5>1. e.seq \in poll[d].rows
          BY <2>1, <2>5, <2>6, <3>3, <4>2
        <5>2. mine[d] \subseteq sent[d]
          BY DEF IInv, MineSent
        <5> QED
          BY <2>1, <5>1, <5>2
      <4> QED
        BY <2>5, <4>1, <4>2
    <3> QED
      BY <2>1, <3>1, <3>2, <3>3 DEF ViewOK
  <2>9. ViewOK(v, d)'
    BY <2>3, <2>8 DEF ViewOK
  <2> QED
    BY <1>2, <2>1, <2>9 DEF ViewsOK
<1>10. ASSUME NEW d \in Device, Discover(d) PROVE ViewsOK'
  <2>1. PICK w \in mail, v \in View :
          /\ v = [joined |-> TRUE, cursor |-> w.seq, base |-> w.seq, read |-> {}]
          /\ \A q \in Device : Views(q)' \subseteq Views(q) \cup (IF q = d THEN {v} ELSE {})
    BY <1>10, DiscoverMakes
  <2>2. w.seq \in Nat /\ w.seq <= nextSeq
    BY <2>1 DEF IInv, TypeOK, Envelope, MailOK
  <2>3. mail' = mail /\ nextSeq' = nextSeq /\ \A e \in mail : e.seq \in Nat
    BY <1>10 DEF Discover, server, IInv, TypeOK, Envelope
  <2>4. ViewOK(v, d)'
    BY <2>1, <2>2, <2>3 DEF ViewOK
  <2> QED
    BY <1>2, <2>1, <2>4 DEF ViewsOK
<1> QED
  BY <1>3, <1>9, <1>10, ViewMoves

-----------------------------------------------------------------------------
(* What a device takes for its own.                                        *)

(* view.mine only ever learns sequences the server answered to this device. *)
LEMMA MineStep == IInv /\ [Next]_vars => MineSent'
<1> SUFFICES ASSUME IInv, [Next]_vars PROVE MineSent'
  OBVIOUS
<1>1. ServerStep
  BY ServerMoves
<1>2. ASSUME NEW d \in Device, PostAnswered(d) PROVE MineSent'
  BY <1>1, <1>2 DEF PostAnswered, history, IInv, TypeOK, LockHeld, MineSent
<1>3. ASSUME \A q \in Device : mine'[q] \in {mine[q], {}} PROVE MineSent'
  BY <1>1, <1>3 DEF IInv, MineSent, ServerStep
<1>4. ASSUME NEW d \in Device, Discover(d) \/ Crash(d)
      PROVE  \A q \in Device : mine'[q] \in {mine[q], {}}
  BY <1>4 DEF Discover, Crash, IInv, TypeOK
<1>5. ASSUME NEW d \in Device,
             \/ PostDraw(d) \/ PostCommit(d) \/ PostAbort(d) \/ PostLost(d) \/ PostSaved(d)
             \/ PollOldest(d) \/ PollRows(d) \/ PollSevered(d) \/ PollAbsorb(d) \/ PollSaved(d)
      PROVE  mine' = mine
  BY <1>5 DEF PostDraw, PostCommit, PostAbort, PostLost, PostSaved, PollOldest, PollRows,
              PollSevered, PollAbsorb, PollSaved, client
<1>6. ASSUME NEW d \in Device, NEW n \in Device \cup {Nobody},
             AddMember(d, n) \/ RemoveMember(d, n) \/ PostBegin(d, n)
      PROVE  mine' = mine
  BY <1>6 DEF AddMember, RemoveMember, PostBegin, client
<1>7. ASSUME Purge \/ Tick \/ UNCHANGED vars PROVE mine' = mine
  BY <1>7 DEF Purge, Tick, vars, client
<1> QED
  BY <1>2, <1>3, <1>4, <1>5, <1>6, <1>7 DEF Next, PollStep

-----------------------------------------------------------------------------
(* The page in hand.                                                       *)

(* The page cut by ORDER BY and LIMIT leaves out nothing before its last   *)
(* row: the rows up to an earlier one are fewer.                           *)
LEMMA PageIsClosed ==
  ASSUME IInv, NEW after \in Nat, NEW e \in mail, NEW f \in FirstPage(after),
         after < e.seq, e.seq <= f.seq
  PROVE  e \in FirstPage(after)
<1>1. \A g \in mail : g.seq \in Nat
  BY BoundAssumption DEF IInv, TypeOK, Envelope
<1>2. UpTo(e, after) \subseteq UpTo(f, after)
  BY <1>1 DEF UpTo, FirstPage
<1>3. IsFiniteSet(UpTo(f, after))
  BY FS_Subset DEF IInv, MailOK, UpTo
<1>4. Cardinality(UpTo(e, after)) <= Cardinality(UpTo(f, after))
  BY <1>2, <1>3, FS_Subset
<1>5. Cardinality(UpTo(e, after)) \in Nat /\ Cardinality(UpTo(f, after)) \in Nat
  BY <1>2, <1>3, FS_Subset, FS_CardinalityType
<1> QED
  BY <1>4, <1>5, BoundAssumption DEF FirstPage

(* Between the request and its absorption a page keeps everything the      *)
(* server still stores up to its last row: later posts lie beyond it.      *)
LEMMA PageStep == IInv /\ TypeOK' /\ [Next]_vars => PageOK'
<1> SUFFICES ASSUME IInv, TypeOK', [Next]_vars PROVE PageOK'
  OBVIOUS
<1>1. ServerStep
  BY ServerMoves
<1>2. /\ nextSeq \in Nat /\ nextSeq' \in Nat /\ \A e \in mail' : e.seq \in Nat
      /\ \A q \in Device : mem[q].cursor \in Nat /\ poll[q].rows \subseteq Nat
  BY BoundAssumption DEF IInv, TypeOK, Envelope, View, Poll
<1>3. ASSUME NEW q \in Device, mem'[q] = mem[q], poll'[q] = poll[q], poll[q].pc = "rows",
             NEW s \in poll[q].rows
      PROVE  /\ mem[q].cursor < s /\ s <= nextSeq'
             /\ \A e \in mail' : mem[q].cursor < e.seq /\ e.seq <= s => e.seq \in poll[q].rows
  BY <1>1, <1>2, <1>3 DEF IInv, PageOK, ServerStep
(* Every step but the fetch leaves a page as it is or drops it.            *)
<1>4. ASSUME \A q \in Device : poll'[q].pc = "rows" => poll'[q] = poll[q] /\ mem'[q] = mem[q]
      PROVE  PageOK'
  BY <1>3, <1>4 DEF PageOK
<1>5. ASSUME NEW d \in Device, PollRows(d) PROVE PageOK'
  <2>1. /\ poll' = [poll EXCEPT ![d].pc = "rows",
                                ![d].rows = {e.seq : e \in FirstPage(mem[d].cursor)}]
        /\ mem' = mem /\ mail' = mail /\ nextSeq' = nextSeq
    BY <1>5 DEF PollRows, server
  <2>2. poll'[d].rows = {e.seq : e \in FirstPage(mem[d].cursor)}
    <3> DEFINE page == {e.seq : e \in FirstPage(mem[d].cursor)}
               got  == [poll[d] EXCEPT !.pc = "rows", !.rows = page]
    <3>1. poll[d] \in Poll /\ poll' = [poll EXCEPT ![d] = got]
      BY <2>1 DEF IInv, TypeOK
    <3>2. poll'[d] = got
      BY <3>1 DEF IInv, TypeOK
    <3> HIDE DEF page
    <3>3. got.rows = page
      BY <3>1 DEF Poll
    <3> QED
      BY <3>2, <3>3 DEF page
  <2>3. ASSUME NEW f \in FirstPage(mem[d].cursor)
        PROVE  /\ mem[d].cursor < f.seq /\ f.seq <= nextSeq
               /\ \A e \in mail : mem[d].cursor < e.seq /\ e.seq <= f.seq
                    => e \in FirstPage(mem[d].cursor)
    BY <1>2, PageIsClosed DEF FirstPage, IInv, MailOK
  <2>4. ASSUME NEW q \in Device, q # d PROVE poll'[q] = poll[q]
    BY <2>1, <2>4 DEF IInv, TypeOK
  <2>5. ASSUME NEW s \in poll'[d].rows
        PROVE  /\ mem[d].cursor < s /\ s <= nextSeq
               /\ \A e \in mail : mem[d].cursor < e.seq /\ e.seq <= s
                    => e.seq \in poll'[d].rows
    BY <2>2, <2>3
  <2> QED
    BY <1>3, <2>1, <2>4, <2>5 DEF PageOK
<1>6. ASSUME NEW d \in Device,
             \/ PostDraw(d) \/ PostCommit(d) \/ PostAbort(d) \/ PostAnswered(d)
             \/ PostLost(d) \/ PostSaved(d)
      PROVE  PageOK'
  <2>1. mem' = mem /\ poll' = poll
    BY <1>6 DEF PostDraw, PostCommit, PostAbort, PostAnswered, PostLost, PostSaved, client
  <2> QED
    BY <1>4, <2>1
<1>7. ASSUME NEW d \in Device,
             \/ PollOldest(d) \/ PollSevered(d) \/ PollAbsorb(d) \/ PollSaved(d)
             \/ Discover(d) \/ Crash(d)
      PROVE  PageOK'
  <2>1. ASSUME NEW q \in Device, q # d PROVE poll'[q] = poll[q] /\ mem'[q] = mem[q]
    BY <1>7, <2>1 DEF PollOldest, PollSevered, PollAbsorb, PollSaved, Discover, Crash,
                      IInv, TypeOK
  <2>2. PICK begun : begun.pc # "rows" /\ poll' = [poll EXCEPT ![d] = begun]
    BY <1>7 DEF PollOldest, PollSevered, PollAbsorb, PollSaved, Discover, Crash, NoPoll
  <2>3. poll'[d].pc # "rows"
    BY <2>2 DEF IInv, TypeOK
  <2> QED
    BY <1>4, <2>1, <2>3
<1>8. ASSUME NEW d \in Device, NEW n \in Device \cup {Nobody},
             AddMember(d, n) \/ RemoveMember(d, n) \/ PostBegin(d, n)
      PROVE  PageOK'
  <2>1. mem' = mem /\ poll' = poll
    BY <1>8 DEF AddMember, RemoveMember, PostBegin, client
  <2> QED
    BY <1>4, <2>1
<1>9. ASSUME Purge \/ Tick \/ UNCHANGED vars PROVE PageOK'
  <2>1. mem' = mem /\ poll' = poll
    BY <1>9 DEF Purge, Tick, vars, client
  <2> QED
    BY <1>4, <2>1
<1> QED
  BY <1>5, <1>6, <1>7, <1>8, <1>9 DEF Next, PollStep

-----------------------------------------------------------------------------
(* The tail.                                                               *)

(* Only a post that commits and a purge touch the rows and the counter.    *)
LEMMA OtherRows ==
  [Next]_vars => \/ mail' = mail /\ nextSeq' = nextSeq
                 \/ Purge
                 \/ \E d \in Device : PostCommit(d)
<1> SUFFICES ASSUME [Next]_vars
             PROVE  \/ mail' = mail /\ nextSeq' = nextSeq
                    \/ Purge
                    \/ \E d \in Device : PostCommit(d)
  OBVIOUS
<1>1. ASSUME NEW d \in Device,
             \/ PostDraw(d) \/ PostAbort(d) \/ PostAnswered(d) \/ PostLost(d) \/ PostSaved(d)
             \/ PollStep(d) \/ Crash(d)
      PROVE  mail' = mail /\ nextSeq' = nextSeq
  BY <1>1 DEF PostDraw, PostAbort, PostAnswered, PostLost, PostSaved, PollStep, PollOldest,
              PollRows, PollSevered, PollAbsorb, PollSaved, Discover, Crash, server
<1>2. ASSUME NEW d \in Device, NEW n \in Device \cup {Nobody},
             AddMember(d, n) \/ RemoveMember(d, n) \/ PostBegin(d, n)
      PROVE  mail' = mail /\ nextSeq' = nextSeq
  BY <1>2 DEF AddMember, RemoveMember, PostBegin
<1>3. ASSUME Tick \/ UNCHANGED vars PROVE mail' = mail /\ nextSeq' = nextSeq
  BY <1>3 DEF Tick, vars, server
<1> QED
  BY <1>1, <1>2, <1>3 DEF Next

(* Neither a post nor a purge removes one of the last MinTail sequences.   *)
LEMMA TailStep == IInv /\ [Next]_vars => TailKept'
<1> SUFFICES ASSUME IInv, [Next]_vars PROVE TailKept'
  OBVIOUS
<1>1. nextSeq \in Nat /\ MinTail \in Nat /\ \A e \in mail : e.seq \in Nat
  BY BoundAssumption DEF IInv, TypeOK, Envelope
<1>2. ASSUME NEW d \in Device, PostCommit(d) PROVE TailKept'
  <2>1. nextSeq' = nextSeq + 1 /\ mail \subseteq mail'
    BY <1>2 DEF PostCommit, IInv, TypeOK, LockHeld
  <2>2. \E e \in mail' : e.seq = nextSeq + 1
    <3> DEFINE row == [seq |-> post[d].seq, at |-> post[d].at, to |-> post[d].to]
    <3>1. row \in mail' /\ row.seq = nextSeq'
      BY <1>2 DEF PostCommit
    <3> QED
      BY <2>1, <3>1
  <2>3. ASSUME NEW s \in 1 .. nextSeq', s + MinTail > nextSeq' PROVE \E e \in mail' : e.seq = s
    <3>1. CASE s = nextSeq + 1
      BY <2>2, <3>1
    <3>2. CASE s \in 1 .. nextSeq
      <4>1. s + MinTail > nextSeq
        BY <1>1, <2>1, <2>3, <3>2
      <4> QED
        BY <2>1, <3>2, <4>1 DEF IInv, TailKept
    <3> QED
      BY <1>1, <2>1, <3>1, <3>2
  <2> QED
    BY <2>3 DEF TailKept
<1>3. ASSUME Purge PROVE TailKept'
  <2>1. mail' = {e \in mail : ~Expired(e)} /\ nextSeq' = nextSeq
    BY <1>3 DEF Purge
  <2>2. ASSUME NEW e \in mail, e.seq + MinTail > nextSeq PROVE ~Expired(e)
    BY <1>1, <2>2 DEF Expired
  <2> QED
    BY <2>1, <2>2 DEF TailKept, IInv
<1>4. ASSUME mail' = mail, nextSeq' = nextSeq PROVE TailKept'
  BY <1>4 DEF TailKept, IInv
<1> QED
  BY <1>2, <1>3, <1>4, OtherRows

-----------------------------------------------------------------------------
(* The theorems.                                                           *)

(* Every step keeps the strengthened invariant.                            *)
LEMMA InvKept == IInv /\ [Next]_vars => IInv'
<1> SUFFICES ASSUME IInv, [Next]_vars PROVE IInv'
  OBVIOUS
<1>1. TypeOK'
  BY TypeStep DEF IInv
<1>2. MailOK' /\ MineSent' /\ TailKept'
  BY ServerMoves, MineStep, TailStep
<1>3. ViewsOK' /\ PageOK'
  BY <1>1, ViewsStep, PageStep
<1> QED
  BY <1>1, <1>2, <1>3 DEF IInv

(* The strengthened invariant holds of every behaviour of post_envelope,   *)
(* fetch_envelopes, purge_once and pollOnce, however they interleave.      *)
THEOREM Inductive == Spec => []IInv
BY InvInit, InvKept, PTL DEF Spec

(* Every variable keeps its shape, and the row lock is held by exactly the *)
(* transaction that has drawn a sequence.                                  *)
THEOREM TypeCorrect == Spec => []TypeOK
<1>1. IInv => TypeOK
  BY DEF IInv
<1> QED
  BY <1>1, Inductive, PTL

(* No cursor, in memory, on disk or on its way there, passes over an       *)
(* envelope the server still stores (post_envelope's row lock, the paging  *)
(* of fetch_envelopes, the absorb loop of pollOnce).                       *)
THEOREM NothingSkipped == Spec => []NoSkip
<1>1. IInv => NoSkip
  BY DEF IInv, ViewsOK, ViewOK, NoSkip
<1> QED
  BY <1>1, Inductive, PTL

(* No copy of a view a restart could come back to has consumed an envelope *)
(* its cursor would ask for again (persist in pollOnce and sendContent).   *)
THEOREM RatchetNeverAhead == Spec => []RatchetWithCursor
<1>1. IInv => RatchetWithCursor
  BY DEF IInv, ViewsOK, ViewOK, RatchetWithCursor
<1> QED
  BY <1>1, Inductive, PTL

(* The purge never cuts into the last MinTail envelopes of a group.        *)
THEOREM TailAlwaysKept == Spec => []TailKept
<1>1. IInv => TailKept
  BY DEF IInv
<1> QED
  BY <1>1, Inductive, PTL

-----------------------------------------------------------------------------
(* The gaps.  Beyond IInv: a sequence the server has no row for was taken  *)
(* behind all that is left, or is excused; from the oldest row a poll was  *)
(* told of, nothing is missing but what is excused; and so a page that     *)
(* passes the check is whole up to its last row.                           *)

Whole(v, q) == v.joined =>
  \A s \in Nat : v.base < s /\ s <= v.cursor => s \in v.read \cup sent[q] \cup excused[q]

HolesOK == \A q \in Device : \A s \in 1 .. nextSeq :
  Stored(s) \/ s \in excused[q] \/ \A e \in mail : s < e.seq

OldestOK == \A q \in Device : poll[q].pc = "oldest" =>
  \A s \in 1 .. nextSeq : poll[q].oldest <= s => Stored(s) \/ s \in excused[q]

RowsOK == \A q \in Device : poll[q].pc = "rows" =>
  \A s \in Nat : \A last \in poll[q].rows :
    poll[q].oldest <= s /\ mem[q].cursor < s /\ s <= last => s \in poll[q].rows \cup excused[q]

GInv == HolesOK /\ OldestOK /\ RowsOK /\ \A q \in Device : \A v \in Views(q) : Whole(v, q)

(* Sequences, cursors and rows are numbers, and rows are within the counter. *)
LEMMA Numbers ==
  ASSUME IInv
  PROVE  /\ nextSeq \in Nat /\ \A e \in mail : e.seq \in Nat /\ 1 <= e.seq /\ e.seq <= nextSeq
         /\ \A q \in Device : mem[q].cursor \in Nat /\ mem[q].base \in Nat /\ poll[q].oldest \in Nat
         /\ \A q \in Device : poll[q].rows \subseteq Nat /\ \A s \in poll[q].rows : 1 <= s
BY BoundAssumption DEF IInv, TypeOK, MailOK, Envelope, View, Poll

(* An empty mailbox has no gap.                                            *)
LEMMA GapInit == Init => GInv
<1> SUFFICES ASSUME Init PROVE GInv
  OBVIOUS
<1>1. nextSeq = 0 /\ \A q \in Device : poll[q].pc = "idle"
  BY DEF Init, NoPoll
<1>2. HolesOK /\ OldestOK /\ RowsOK
  BY <1>1 DEF HolesOK, OldestOK, RowsOK
<1>3. ASSUME NEW q \in Device, NEW v \in Views(q) PROVE Whole(v, q)
  <2>1. v \in {NoView, FirstView(q)}
    BY <1>3 DEF Init, Views, NoPost, NoPoll
  <2>2. FirstView(q).cursor = 0 /\ FirstView(q).base = 0 /\ NoView.cursor = 0 /\ NoView.base = 0
    BY DEF FirstView, NoView
  <2>3. v.cursor = 0 /\ v.base = 0
    BY <2>1, <2>2
  <2> QED
    BY <2>3 DEF Whole
<1> QED
  BY <1>2, <1>3 DEF GInv

(* What is sent and excused only grows.                                    *)
LEMMA Grows ==
  IInv /\ [Next]_vars => \A q \in Device : sent[q] \subseteq sent'[q] /\ excused[q] \subseteq excused'[q]
<1> SUFFICES ASSUME IInv, [Next]_vars
             PROVE  \A q \in Device : sent[q] \subseteq sent'[q] /\ excused[q] \subseteq excused'[q]
  OBVIOUS
<1>1. \A q \in Device : sent[q] \subseteq sent'[q]
  BY ServerMoves DEF ServerStep
<1>2. CASE Purge
  <2>1. \A q \in Device : excused[q] \subseteq excused'[q]
    BY <1>2 DEF Purge
  <2> QED
    BY <1>1, <2>1
<1>3. CASE excused' = excused
  BY <1>1, <1>3
<1>4. ASSUME NEW d \in Device, NEW n \in Device \cup {Nobody},
             AddMember(d, n) \/ RemoveMember(d, n) \/ PostBegin(d, n)
      PROVE  excused' = excused
  BY <1>4 DEF AddMember, RemoveMember, PostBegin, history
<1>5. ASSUME NEW d \in Device,
             \/ PostDraw(d) \/ PostCommit(d) \/ PostAbort(d) \/ PostAnswered(d) \/ PostLost(d)
             \/ PostSaved(d) \/ PollStep(d) \/ Crash(d)
      PROVE  excused' = excused
  BY <1>5 DEF PostDraw, PostCommit, PostAbort, PostAnswered, PostLost, PostSaved, PollStep, PollOldest,
              PollRows, PollSevered, PollAbsorb, PollSaved, Discover, Crash, history
<1>6. ASSUME Tick \/ UNCHANGED vars PROVE excused' = excused
  BY <1>6 DEF Tick, vars, history
<1> QED
  BY <1>2, <1>3, <1>4, <1>5, <1>6 DEF Next

(* A purge that leaves an older row behind says so; a post goes past them. *)
LEMMA HolesStep == IInv /\ GInv /\ [Next]_vars => HolesOK'
<1> SUFFICES ASSUME IInv, GInv, [Next]_vars PROVE HolesOK'
  OBVIOUS
<1>1. \A q \in Device : excused[q] \subseteq excused'[q]
  BY Grows
<1>2. HolesOK
  BY DEF GInv
<1>3. CASE Purge
  <2> DEFINE gone == {e \in mail : Expired(e)}
             left == mail \ gone
             hole == {e.seq : e \in {g \in gone : \E f \in left : f.seq < g.seq}}
  <2>1. mail' = left /\ nextSeq' = nextSeq /\ \A q \in Device : hole \subseteq excused'[q]
    BY <1>3 DEF Purge
  <2>2. ASSUME NEW q \in Device, NEW s \in 1 .. nextSeq
        PROVE  (\E e \in left : e.seq = s) \/ s \in excused'[q] \/ \A e \in left : s < e.seq
    <3>1. CASE \E e \in left : e.seq = s
      BY <3>1
    <3>2. CASE (\E e \in gone : e.seq = s) /\ ~\E e \in left : e.seq = s
      <4>1. PICK e \in gone : e.seq = s
        BY <3>2
      <4>2. CASE \E f \in left : f.seq < s
        <5>1. s \in hole
          BY <4>1, <4>2
        <5> QED
          BY <2>1, <5>1
      <4>3. CASE ~\E f \in left : f.seq < s
        <5>1. \A f \in left : f.seq \in Nat /\ f.seq # s
          BY <3>2, Numbers
        <5> QED
          BY <4>3, <5>1
      <4> QED
        BY <4>2, <4>3
    <3>3. CASE ~\E e \in mail : e.seq = s
      BY <1>1, <1>2, <3>3 DEF HolesOK, Stored
    <3> QED
      BY <3>1, <3>2, <3>3
  <2> HIDE DEF gone, left, hole
  <2> QED
    BY <2>1, <2>2 DEF HolesOK, Stored
<1>4. ASSUME NEW d \in Device, PostCommit(d) PROVE HolesOK'
  <2>1. nextSeq' = nextSeq + 1 /\ mail \subseteq mail' /\ \A e \in mail' : e \in mail \/ e.seq = nextSeq + 1
    BY <1>4 DEF PostCommit, IInv, TypeOK, LockHeld
  <2>2. \E e \in mail' : e.seq = nextSeq + 1
    <3> DEFINE row == [seq |-> post[d].seq, at |-> post[d].at, to |-> post[d].to]
    <3>1. row \in mail' /\ row.seq = nextSeq'
      BY <1>4 DEF PostCommit
    <3> QED
      BY <2>1, <3>1
  <2>3. ASSUME NEW q \in Device, NEW s \in 1 .. nextSeq'
        PROVE  (\E e \in mail' : e.seq = s) \/ s \in excused'[q] \/ \A e \in mail' : s < e.seq
    <3>1. CASE s = nextSeq + 1
      BY <2>2, <3>1
    <3>2. CASE s \in 1 .. nextSeq
      <4>1. Stored(s) \/ s \in excused[q] \/ \A e \in mail : s < e.seq
        BY <1>2, <3>2 DEF HolesOK
      <4>2. s < nextSeq + 1
        BY <3>2, Numbers
      <4> QED
        BY <1>1, <2>1, <4>1, <4>2 DEF Stored
    <3> QED
      BY <2>1, <3>1, <3>2, Numbers
  <2> QED
    BY <2>3 DEF HolesOK, Stored
<1>5. CASE mail' = mail /\ nextSeq' = nextSeq
  BY <1>1, <1>2, <1>5 DEF HolesOK, Stored
<1> QED
  BY <1>3, <1>4, <1>5, OtherRows

(* The second statement of fetch_envelopes fills the page, no more.        *)
LEMMA PageFetched ==
  ASSUME IInv, NEW d \in Device, PollRows(d)
  PROVE  poll'[d].pc = "rows" /\ poll'[d].oldest = poll[d].oldest
<1> DEFINE page == {e.seq : e \in FirstPage(mem[d].cursor)}
           got  == [poll[d] EXCEPT !.pc = "rows", !.rows = page]
<1>1. poll[d] \in Poll /\ poll' = [poll EXCEPT ![d] = got]
  BY DEF PollRows, IInv, TypeOK
<1>2. poll'[d] = got
  BY <1>1 DEF IInv, TypeOK
<1> HIDE DEF page
<1> QED
  BY <1>1, <1>2 DEF Poll

(* A poll in progress is left alone, moved on by its own two statements,   *)
(* or over; while it is in progress nothing moves the cursor under it.     *)
LEMMA PollsMove ==
  IInv /\ [Next]_vars => \A q \in Device :
    \/ poll'[q] = poll[q] /\ mem'[q] = mem[q]
    \/ poll'[q].pc \in {"idle", "saving"}
    \/ PollOldest(q) \/ PollRows(q)
<1> SUFFICES ASSUME IInv, [Next]_vars, NEW q \in Device
             PROVE  \/ poll'[q] = poll[q] /\ mem'[q] = mem[q]
                    \/ poll'[q].pc \in {"idle", "saving"}
                    \/ PollOldest(q) \/ PollRows(q)
  OBVIOUS
<1>1. ASSUME NEW d \in Device,
             \/ PostDraw(d) \/ PostCommit(d) \/ PostAbort(d) \/ PostAnswered(d)
             \/ PostLost(d) \/ PostSaved(d)
      PROVE  mem' = mem /\ poll' = poll
  BY <1>1 DEF PostDraw, PostCommit, PostAbort, PostAnswered, PostLost, PostSaved, client
<1>2. ASSUME NEW d \in Device, PollStep(d) \/ Crash(d), d # q
      PROVE  poll'[q] = poll[q] /\ mem'[q] = mem[q]
  BY <1>2 DEF PollStep, PollOldest, PollRows, PollSevered, PollAbsorb, PollSaved, Discover, Crash,
              IInv, TypeOK
<1>3. ASSUME \/ PollSevered(q) \/ PollAbsorb(q) \/ PollSaved(q) \/ Discover(q) \/ Crash(q)
      PROVE  poll'[q].pc \in {"idle", "saving"}
  <2>1. CASE PollSevered(q) \/ PollSaved(q) \/ Crash(q)
    BY <2>1 DEF PollSevered, PollSaved, Crash, NoPoll, IInv, TypeOK
  <2>2. ASSUME PollAbsorb(q) \/ Discover(q)
        PROVE  \E v : poll' = [poll EXCEPT ![q] = [NoPoll EXCEPT !.pc = "saving", !.snap = v]]
    BY <2>2 DEF PollAbsorb, Discover
  <2>3. ASSUME NEW v, poll' = [poll EXCEPT ![q] = [NoPoll EXCEPT !.pc = "saving", !.snap = v]]
        PROVE  poll'[q].pc = "saving"
    BY <2>3 DEF NoPoll, IInv, TypeOK
  <2> QED
    BY <1>3, <2>1, <2>2, <2>3
<1>4. ASSUME NEW d \in Device, NEW n \in Device \cup {Nobody},
             AddMember(d, n) \/ RemoveMember(d, n) \/ PostBegin(d, n)
      PROVE  mem' = mem /\ poll' = poll
  BY <1>4 DEF AddMember, RemoveMember, PostBegin, client
<1>5. ASSUME Purge \/ Tick \/ UNCHANGED vars PROVE mem' = mem /\ poll' = poll
  BY <1>5 DEF Purge, Tick, vars, client
<1> QED
  BY <1>1, <1>2, <1>3, <1>4, <1>5 DEF Next, PollStep

(* The oldest row answers for every sequence above it, and a purge before  *)
(* the page is read excuses what it takes.                                 *)
LEMMA OldestStep == IInv /\ GInv /\ [Next]_vars => OldestOK'
<1> SUFFICES ASSUME IInv, GInv, [Next]_vars, NEW q \in Device, poll'[q].pc = "oldest",
                    NEW s \in 1 .. nextSeq', poll'[q].oldest <= s
             PROVE  Stored(s)' \/ s \in excused'[q]
  BY DEF OldestOK
<1>1. excused[q] \subseteq excused'[q]
  BY Grows
<1>2. ~PollRows(q)
  BY PageFetched
<1>3. CASE PollOldest(q)
  <2>1. PICK m \in {e.seq : e \in mail} \cup {nextSeq + 1} :
          /\ IsOldest(m)
          /\ poll' = [poll EXCEPT ![q] = [NoPoll EXCEPT !.pc = "oldest", !.oldest = m]]
    BY <1>3 DEF PollOldest
  <2>2. poll'[q].oldest = m /\ mail' = mail /\ nextSeq' = nextSeq
    BY <1>3, <2>1 DEF PollOldest, NoPoll, IInv, TypeOK, server
  <2>3. ~\A e \in mail : s < e.seq
    <3>1. m <= s /\ s \in Nat /\ s <= nextSeq
      BY <2>2
    <3>2. m # nextSeq + 1
      BY <3>1, Numbers
    <3>3. PICK e \in mail : m = e.seq
      BY <2>1, <3>2
    <3> QED
      BY <3>1, <3>3, Numbers
  <2> QED
    BY <1>1, <2>2, <2>3 DEF GInv, HolesOK, Stored
<1>4. CASE poll'[q] = poll[q]
  <2>1. s \in 1 .. nextSeq => Stored(s) \/ s \in excused[q]
    BY <1>4 DEF GInv, OldestOK
  <2>2. CASE Purge
    <3>1. s \in 1 .. nextSeq
      BY <2>2 DEF Purge
    <3>2. CASE Stored(s)
      <4>1. PICK e \in mail : e.seq = s
        BY <3>2 DEF Stored
      <4>2. CASE Expired(e)
        BY <1>4, <2>2, <4>1, <4>2 DEF Purge
      <4>3. CASE ~Expired(e)
        BY <2>2, <4>1, <4>3 DEF Purge, Stored
      <4> QED
        BY <4>2, <4>3
    <3> QED
      BY <1>1, <2>1, <3>1, <3>2
  <2>3. ASSUME NEW d \in Device, PostCommit(d) PROVE Stored(s)' \/ s \in excused'[q]
    <3> DEFINE row == [seq |-> post[d].seq, at |-> post[d].at, to |-> post[d].to]
    <3>1. row \in mail' /\ mail \subseteq mail' /\ row.seq = nextSeq' /\ nextSeq' = nextSeq + 1
      BY <2>3 DEF PostCommit, IInv, TypeOK, LockHeld
    <3> HIDE DEF row
    <3>2. s = nextSeq' \/ s \in 1 .. nextSeq
      BY <3>1, Numbers
    <3> QED
      BY <1>1, <2>1, <3>1, <3>2 DEF Stored
  <2>4. CASE mail' = mail /\ nextSeq' = nextSeq
    BY <1>1, <2>1, <2>4 DEF Stored
  <2> QED
    BY <2>2, <2>3, <2>4, OtherRows
<1> QED
  BY <1>2, <1>3, <1>4, PollsMove

(* A page is cut from the rows as they stand, and holds all of them from   *)
(* the cursor to its last.                                                 *)
LEMMA RowsStep == IInv /\ TypeOK' /\ GInv /\ [Next]_vars => RowsOK'
<1> SUFFICES ASSUME IInv, TypeOK', GInv, [Next]_vars, NEW q \in Device, poll'[q].pc = "rows",
                    NEW s \in Nat, NEW last \in poll'[q].rows,
                    poll'[q].oldest <= s, mem'[q].cursor < s, s <= last
             PROVE  s \in poll'[q].rows \cup excused'[q]
  BY DEF RowsOK
<1>1. excused[q] \subseteq excused'[q]
  BY Grows
<1>2. ~PollOldest(q)
  <2> SUFFICES ASSUME PollOldest(q) PROVE FALSE
    OBVIOUS
  <2>1. PICK begun : begun.pc = "oldest" /\ poll' = [poll EXCEPT ![q] = begun]
    BY DEF PollOldest, NoPoll
  <2> QED
    BY <2>1 DEF IInv, TypeOK
<1>3. CASE poll'[q] = poll[q] /\ mem'[q] = mem[q]
  BY <1>1, <1>3 DEF GInv, RowsOK
<1>4. CASE PollRows(q)
  <2>1. mem' = mem /\ mail' = mail /\ nextSeq' = nextSeq /\ poll[q].pc = "oldest"
    BY <1>4 DEF PollRows, server
  <2>2. poll'[q].oldest = poll[q].oldest
    BY <1>4, PageFetched
  <2>3. PageOK'
    BY PageStep
  <2>4. /\ last <= nextSeq
        /\ \A e \in mail : mem[q].cursor < e.seq /\ e.seq <= last => e.seq \in poll'[q].rows
    BY <2>1, <2>3 DEF PageOK
  <2>5. last \in Nat
    BY DEF TypeOK, Poll
  <2>6. s \in 1 .. nextSeq
    BY <2>1, <2>4, <2>5, Numbers
  <2>7. Stored(s) \/ s \in excused[q]
    BY <2>1, <2>2, <2>6 DEF GInv, OldestOK
  <2>8. CASE Stored(s)
    BY <2>1, <2>4, <2>8 DEF Stored
  <2> QED
    BY <1>1, <2>7, <2>8
<1> QED
  BY <1>2, <1>3, <1>4, PollsMove

(* A page that passes the check of pollOnce leaves a whole view behind.    *)
LEMMA WholeStep ==
  IInv /\ TypeOK' /\ GInv /\ [Next]_vars => \A q \in Device : \A v \in Views(q)' : Whole(v, q)'
<1> SUFFICES ASSUME IInv, TypeOK', GInv, [Next]_vars, NEW q \in Device, NEW u \in Views(q)'
             PROVE  Whole(u, q)'
  OBVIOUS
<1>1. sent[q] \subseteq sent'[q] /\ excused[q] \subseteq excused'[q]
  BY Grows
<1>2. ASSUME Whole(u, q) PROVE Whole(u, q)'
  BY <1>1, <1>2 DEF Whole
<1>3. CASE u \in Views(q) \cup {NoView}
  <2>1. Whole(NoView, q)
    BY DEF Whole, NoView
  <2> QED
    BY <1>2, <1>3, <2>1 DEF GInv
<1>4. ASSUME NEW d \in Device, PollAbsorb(d) PROVE Whole(u, q)'
  <2>1. PICK v \in View :
          /\ v.joined = mem[d].joined /\ v.base = mem[d].base
          /\ v.read = mem[d].read \cup (poll[d].rows \ mine[d])
          /\ v.cursor \in poll[d].rows \cup {mem[d].cursor}
          /\ IsLast(v.cursor, poll[d].rows, mem[d].cursor)
          /\ \A p \in Device : Views(p)' \subseteq Views(p) \cup (IF p = d THEN {v} ELSE {})
    BY <1>4, AbsorbMakes
  <2>2. Whole(mem[d], d) /\ RowsOK /\ mine[d] \subseteq sent[d]
    BY DEF GInv, Views, IInv, MineSent
  <2>3. poll[d].pc = "rows" /\ poll[d].oldest <= mem[d].cursor + 1
    BY <1>4, Numbers DEF PollAbsorb, Severed
  <2>4. ASSUME v.joined, NEW s \in Nat, v.base < s, s <= v.cursor
        PROVE  s \in v.read \cup sent[d] \cup excused[d]
    <3>1. CASE s <= mem[d].cursor
      BY <2>1, <2>2, <2>4, <3>1 DEF Whole
    <3>2. CASE ~(s <= mem[d].cursor)
      <4>1. v.cursor \in poll[d].rows
        BY <2>1, <2>4, <3>2
      <4>2. mem[d].cursor < s /\ poll[d].oldest <= s
        BY <2>3, <3>2, Numbers
      <4>3. s \in poll[d].rows \cup excused[d]
        BY <2>2, <2>3, <2>4, <4>1, <4>2 DEF RowsOK
      <4> QED
        BY <2>1, <2>2, <4>3
    <3> QED
      BY <3>1, <3>2
  <2>5. Whole(v, d)
    BY <2>4 DEF Whole
  <2>6. u \in Views(q) \/ (q = d /\ u = v)
    BY <2>1
  <2> QED
    BY <1>2, <1>3, <2>5, <2>6
<1>5. ASSUME NEW d \in Device, Discover(d) PROVE Whole(u, q)'
  <2>1. PICK w \in mail, v \in View :
          /\ v = [joined |-> TRUE, cursor |-> w.seq, base |-> w.seq, read |-> {}]
          /\ \A p \in Device : Views(p)' \subseteq Views(p) \cup (IF p = d THEN {v} ELSE {})
    BY <1>5, DiscoverMakes
  <2>2. v.base = w.seq /\ v.cursor = w.seq /\ w.seq \in Nat
    BY <2>1, Numbers
  <2>3. Whole(v, q)
    BY <2>2 DEF Whole
  <2>4. u \in Views(q) \/ u = v
    BY <2>1
  <2> QED
    BY <1>2, <1>3, <2>3, <2>4
<1> QED
  BY <1>3, <1>4, <1>5, ViewMoves

(* Every step keeps the two invariants.                                    *)
LEMMA GapKept == IInv /\ GInv /\ [Next]_vars => IInv' /\ GInv'
<1> SUFFICES ASSUME IInv, GInv, [Next]_vars PROVE IInv' /\ GInv'
  OBVIOUS
<1>1. IInv'
  BY InvKept
<1>2. HolesOK' /\ OldestOK' /\ RowsOK' /\ TypeOK'
  BY <1>1, HolesStep, OldestStep, RowsStep DEF IInv
<1>3. \A q \in Device : \A v \in Views(q)' : Whole(v, q)'
  BY <1>2, WholeStep
<1> QED
  BY <1>1, <1>2, <1>3 DEF GInv

(* Behind the cursor of a conversation that is not declared interrupted,   *)
(* every sequence was read, sent from here, or lost where the check of     *)
(* pollOnce could not see it (fetch_envelopes' two statements, purge_once).*)
THEOREM GapsReported == Spec => []GapIsReported
<1>1. Init => IInv /\ GInv
  BY InvInit, GapInit
<1>2. (IInv /\ GInv) /\ [Next]_vars => (IInv /\ GInv)'
  BY GapKept
<1>3. IInv /\ GInv => GapIsReported
  <2> SUFFICES ASSUME IInv, GInv, NEW d \in Device,
                      NEW s \in (mem[d].base + 1) .. mem[d].cursor, mem[d].joined
               PROVE  s \in mem[d].read \cup sent[d] \cup excused[d]
    BY DEF GapIsReported
  <2>1. Whole(mem[d], d)
    BY DEF GInv, Views
  <2>2. s \in Nat /\ mem[d].base < s /\ s <= mem[d].cursor
    BY Numbers
  <2> QED
    BY <2>1, <2>2 DEF Whole
<1> QED
  BY <1>1, <1>2, <1>3, PTL DEF Spec

-----------------------------------------------------------------------------
(* The refinement of OrderedLog.  Beyond IInv and GInv: a poll under way   *)
(* is of a conversation that is joined and not interrupted, and the oldest *)
(* row it was told of is not past the first row there is or will be.       *)
PollingOK == \A q \in Device : poll[q].pc \in {"oldest", "rows"} =>
  /\ mem[q].joined /\ ~stale[q]
  /\ poll[q].oldest <= nextSeq + 1 /\ \A e \in mail : poll[q].oldest <= e.seq

(* A sequence is given to one row. *)
OneRow == \A e, f \in mail : e.seq = f.seq => e = f

(* A conversation is interrupted by a poll that ends, and by nothing else. *)
LEMMA StaleMoves ==
  IInv /\ [Next]_vars => \A q \in Device : stale'[q] = stale[q] \/ poll'[q].pc = "idle"
<1> SUFFICES ASSUME IInv, [Next]_vars, NEW q \in Device
             PROVE  stale'[q] = stale[q] \/ poll'[q].pc = "idle"
  OBVIOUS
<1>1. ASSUME NEW d \in Device,
             \/ PostDraw(d) \/ PostCommit(d) \/ PostAbort(d) \/ PostAnswered(d)
             \/ PostLost(d) \/ PostSaved(d)
             \/ PollOldest(d) \/ PollRows(d) \/ PollAbsorb(d) \/ PollSaved(d) \/ Discover(d)
      PROVE  stale' = stale
  BY <1>1 DEF PostDraw, PostCommit, PostAbort, PostAnswered, PostLost, PostSaved, PollOldest,
              PollRows, PollAbsorb, PollSaved, Discover, client
<1>2. ASSUME NEW d \in Device, PollSevered(d) \/ Crash(d)
      PROVE  stale'[q] = stale[q] \/ poll'[q].pc = "idle"
  BY <1>2 DEF PollSevered, Crash, NoPoll, IInv, TypeOK
<1>3. ASSUME NEW d \in Device, NEW n \in Device \cup {Nobody},
             AddMember(d, n) \/ RemoveMember(d, n) \/ PostBegin(d, n)
      PROVE  stale' = stale
  BY <1>3 DEF AddMember, RemoveMember, PostBegin, client
<1>4. ASSUME Purge \/ Tick \/ UNCHANGED vars PROVE stale' = stale
  BY <1>4 DEF Purge, Tick, vars, client
<1> QED
  BY <1>1, <1>2, <1>3, <1>4 DEF Next, PollStep

(* A poll begins only where one may, and rows that come later have later numbers. *)
LEMMA PollingStep == IInv /\ PollingOK /\ [Next]_vars => PollingOK'
<1> SUFFICES ASSUME IInv, PollingOK, [Next]_vars, NEW q \in Device, poll'[q].pc \in {"oldest", "rows"}
             PROVE  /\ mem'[q].joined /\ ~stale'[q]
                    /\ poll'[q].oldest <= nextSeq' + 1 /\ \A e \in mail' : poll'[q].oldest <= e.seq
  BY DEF PollingOK
<1>0. TypeOK /\ TypeOK'
  BY TypeStep DEF IInv
<1>1. ServerStep /\ nextSeq \in Nat /\ nextSeq' \in Nat /\ \A e \in mail' : e.seq \in Nat
  <2>1. ServerStep
    BY ServerMoves
  <2>2. nextSeq \in 0 .. MaxSeq /\ nextSeq' \in 0 .. MaxSeq /\ mail' \subseteq Envelope
    BY <1>0 DEF TypeOK
  <2>3. nextSeq \in Nat /\ nextSeq' \in Nat
    BY <2>2, BoundAssumption
  <2>4. \A e \in mail' : e.seq \in Nat
    BY <2>2, BoundAssumption DEF Envelope
  <2> QED
    BY <2>1, <2>3, <2>4
<1>2. stale'[q] = stale[q]
  BY StaleMoves
<1>3. CASE poll'[q] = poll[q] /\ mem'[q] = mem[q]
  <2>1. /\ mem[q].joined /\ ~stale[q] /\ poll[q].oldest \in Nat
        /\ poll[q].oldest <= nextSeq + 1 /\ \A e \in mail : poll[q].oldest <= e.seq
    BY <1>3, Numbers DEF PollingOK
  <2>2. ASSUME NEW e \in mail' PROVE poll[q].oldest <= e.seq
    BY <1>1, <2>1 DEF ServerStep
  <2> QED
    BY <1>1, <1>2, <1>3, <2>1, <2>2 DEF ServerStep
<1>4. CASE PollOldest(q)
  <2>1. PICK m \in {e.seq : e \in mail} \cup {nextSeq + 1} :
          /\ IsOldest(m)
          /\ poll' = [poll EXCEPT ![q] = [NoPoll EXCEPT !.pc = "oldest", !.oldest = m]]
    BY <1>4 DEF PollOldest
  <2>2. poll'[q].oldest = m /\ mail' = mail /\ nextSeq' = nextSeq
    BY <1>4, <2>1 DEF PollOldest, NoPoll, IInv, TypeOK, server
  <2>3. mem'[q].joined /\ ~stale'[q]
    BY <1>4 DEF PollOldest
  <2> QED
    BY <2>1, <2>2, <2>3 DEF IsOldest
<1>5. CASE PollRows(q)
  <2>1. poll[q].pc = "oldest" /\ poll'[q].oldest = poll[q].oldest
    BY <1>5, PageFetched DEF PollRows
  <2>2. mem' = mem /\ mail' = mail /\ nextSeq' = nextSeq
    BY <1>5 DEF PollRows, server
  <2> QED
    BY <1>2, <2>1, <2>2 DEF PollingOK
<1> QED
  BY <1>3, <1>4, <1>5, PollsMove

(* A new row is numbered past the others.                                  *)
LEMMA OneRowStep == IInv /\ OneRow /\ [Next]_vars => OneRow'
<1> SUFFICES ASSUME IInv, OneRow, [Next]_vars PROVE OneRow'
  OBVIOUS
<1>1. ASSUME NEW d \in Device, PostCommit(d) PROVE OneRow'
  <2> DEFINE row == [seq |-> post[d].seq, at |-> post[d].at, to |-> post[d].to]
  <2>1. mail' = mail \cup {row} /\ row.seq = nextSeq + 1
    BY <1>1 DEF PostCommit, IInv, TypeOK, LockHeld
  <2> HIDE DEF row
  <2>2. \A e \in mail : e.seq # row.seq
    BY <2>1, Numbers
  <2> QED
    BY <2>1, <2>2 DEF OneRow
<1>2. CASE mail' \subseteq mail
  BY <1>2 DEF OneRow
<1>3. Purge => mail' \subseteq mail
  BY DEF Purge
<1> QED
  BY <1>1, <1>2, <1>3, OtherRows

(* A step that moves no view and no row is none for the log.               *)
LEMMA Quiet ==
  ASSUME mail' = mail, nextSeq' = nextSeq, excused' = excused, sent' = sent, mem' = mem, stale' = stale,
         \A q \in Device : Copies(q)' = Copies(q)
  PROVE  UNCHANGED Promised!vars
BY DEF Promised!vars, Gone, Stored

(* Copies are made of the store and of the writes under way.               *)
LEMMA SameCopies ==
  ASSUME NEW q \in Device, disk'[q] = disk[q],
         post'[q] = post[q] \/ (post[q].pc # "saving" /\ post'[q].pc # "saving"),
         poll'[q] = poll[q] \/ (poll[q].pc # "saving" /\ poll'[q].pc # "saving")
  PROVE  Copies(q)' = Copies(q)
BY DEF Copies

(* The steps of a post and of a poll that the log does not see.            *)
LEMMA QuietSteps ==
  ASSUME IInv, NEW d \in Device,
         \/ \E n \in Device \cup {Nobody} : AddMember(d, n) \/ RemoveMember(d, n) \/ PostBegin(d, n)
         \/ PostDraw(d) \/ PostAbort(d) \/ PostLost(d) \/ PollOldest(d) \/ PollRows(d)
  PROVE  UNCHANGED Promised!vars
<1>0. post \in [Device -> Post] /\ poll \in [Device -> Poll]
  BY DEF IInv, TypeOK
<1>1. /\ mail' = mail /\ nextSeq' = nextSeq /\ excused' = excused /\ sent' = sent /\ mem' = mem
      /\ stale' = stale /\ disk' = disk
  BY DEF AddMember, RemoveMember, PostBegin, PostDraw, PostAbort, PostLost, PollOldest, PollRows,
         server, client, history
<1>2. \A q \in Device : post'[q] = post[q] \/ (post[q].pc # "saving" /\ post'[q].pc # "saving")
  <2>1. ASSUME NEW n \in Device \cup {Nobody}, PostBegin(d, n)
        PROVE  \A q \in Device : post'[q] = post[q] \/ (post[q].pc # "saving" /\ post'[q].pc # "saving")
    <3>1. PICK begun : begun.pc = "open" /\ post' = [post EXCEPT ![d] = begun]
      BY <2>1 DEF PostBegin, NoPost
    <3> QED
      BY <1>0, <2>1, <3>1 DEF PostBegin
  <2>2. CASE PostDraw(d)
    BY <1>0, <2>2 DEF PostDraw, Post
  <2>3. CASE PostAbort(d) \/ PostLost(d)
    BY <1>0, <2>3 DEF PostAbort, PostLost, NoPost
  <2>4. ASSUME \/ \E n \in Device \cup {Nobody} : AddMember(d, n) \/ RemoveMember(d, n)
               \/ PollOldest(d) \/ PollRows(d)
        PROVE  post' = post
    BY <2>4 DEF AddMember, RemoveMember, PollOldest, PollRows, server
  <2> QED
    BY <2>1, <2>2, <2>3, <2>4
<1>3. \A q \in Device : poll'[q] = poll[q] \/ (poll[q].pc # "saving" /\ poll'[q].pc # "saving")
  <2>1. CASE PollOldest(d)
    <3>1. PICK begun : begun.pc = "oldest" /\ poll' = [poll EXCEPT ![d] = begun]
      BY <2>1 DEF PollOldest, NoPoll
    <3> QED
      BY <1>0, <2>1, <3>1 DEF PollOldest
  <2>2. CASE PollRows(d)
    BY <1>0, <2>2, PageFetched DEF PollRows
  <2>3. ASSUME \/ \E n \in Device \cup {Nobody} : AddMember(d, n) \/ RemoveMember(d, n) \/ PostBegin(d, n)
               \/ PostDraw(d) \/ PostAbort(d) \/ PostLost(d)
        PROVE  poll' = poll
    BY <2>3 DEF AddMember, RemoveMember, PostBegin, PostDraw, PostAbort, PostLost, client
  <2> QED
    BY <2>1, <2>2, <2>3
<1> QED
  BY <1>1, <1>2, <1>3, SameCopies, Quiet

(* PostCommit: the row has the next number, and none before it comes back. *)
LEMMA CommitPosts ==
  ASSUME IInv, NEW d \in Device, PostCommit(d)
  PROVE  Promised!Post(d)
<1>0. nextSeq \in Nat /\ \A e \in mail : e.seq \in Nat /\ e.seq <= nextSeq
  BY Numbers
<1>1. post[d].seq = nextSeq + 1 /\ post \in [Device -> Post] /\ poll \in [Device -> Poll]
  BY DEF PostCommit, IInv, TypeOK, LockHeld
<1>2. /\ nextSeq' = nextSeq + 1 /\ excused' = excused /\ mem' = mem /\ stale' = stale /\ disk' = disk
      /\ poll' = poll /\ sent' = [sent EXCEPT ![d] = @ \cup {nextSeq + 1}]
  BY <1>1 DEF PostCommit, client
<1>3. Gone' = Gone
  <2> DEFINE row == [seq |-> post[d].seq, at |-> post[d].at, to |-> post[d].to]
  <2>1. mail' = mail \cup {row} /\ row.seq = nextSeq + 1
    BY <1>1 DEF PostCommit
  <2> HIDE DEF row
  <2>2. \A s \in 1 .. nextSeq : (\E e \in mail' : e.seq = s) <=> Stored(s)
    BY <1>0, <2>1 DEF Stored
  <2>3. \E e \in mail' : e.seq = nextSeq + 1
    BY <2>1
  <2>4. \A s : s \in 1 .. nextSeq + 1 <=> s \in 1 .. nextSeq \/ s = nextSeq + 1
    BY <1>0
  <2> QED
    BY <1>2, <2>2, <2>3, <2>4 DEF Gone, Stored
<1>4. \A q \in Device : Copies(q)' = Copies(q)
  <2>1. \A q \in Device : post'[q] = post[q] \/ (post[q].pc # "saving" /\ post'[q].pc # "saving")
    BY <1>1 DEF PostCommit, Post, NoPost
  <2> QED
    BY <1>2, <2>1, SameCopies
<1> QED
  BY <1>2, <1>3, <1>4 DEF Promised!Post

(* persist begins with the view in memory, and its write takes the place   *)
(* of what the store had.                                                  *)
LEMMA SavesKeep ==
  ASSUME IInv, NEW d \in Device, PostAnswered(d) \/ PostSaved(d) \/ PollSaved(d)
  PROVE  Promised!Keep(d)
<1>0. /\ post \in [Device -> Post] /\ poll \in [Device -> Poll]
      /\ disk \in [Device -> View] /\ mem \in [Device -> View]
  BY DEF IInv, TypeOK
<1>1. /\ mail' = mail /\ nextSeq' = nextSeq /\ excused' = excused /\ sent' = sent /\ mem' = mem
      /\ stale' = stale
  BY DEF PostAnswered, PostSaved, PollSaved, server, history
<1>2. \A q \in Device : q # d => Copies(q)' = Copies(q)
  BY <1>0 DEF PostAnswered, PostSaved, PollSaved, Copies, server
<1>3. Copies(d)' \subseteq Copies(d) \cup {mem[d]} /\ Copies(d)' # {}
  <2>1. CASE PostAnswered(d)
    <3>1. disk' = disk /\ poll' = poll /\ post[d].pc = "done" /\ post'[d].snap = mem[d]
      BY <1>0, <2>1 DEF PostAnswered, Post
    <3> QED
      BY <3>1 DEF Copies
  <2>2. CASE PostSaved(d)
    <3>1. disk'[d] = post[d].snap /\ poll' = poll /\ post[d].pc = "saving" /\ post'[d].pc = "idle"
      BY <1>0, <2>2 DEF PostSaved, NoPost
    <3> QED
      BY <3>1 DEF Copies
  <2>3. CASE PollSaved(d)
    <3>1. disk'[d] = poll[d].snap /\ post' = post /\ poll[d].pc = "saving" /\ poll'[d].pc = "idle"
      BY <1>0, <2>3 DEF PollSaved, NoPoll, server
    <3> QED
      BY <3>1 DEF Copies
  <2> QED
    BY <2>1, <2>2, <2>3
<1> DEFINE all == [q \in Device |-> Copies(q)]
<1>4. all' = [all EXCEPT ![d] = Copies(d)'] /\ all[d] = Copies(d)
  BY <1>2
<1>5. Gone' = Gone
  BY <1>1 DEF Gone, Stored
<1> QED
  BY <1>1, <1>3, <1>4, <1>5 DEF Promised!Keep

(* Severed: the row after the cursor is one that was numbered and is gone. *)
LEMMA SeveredInterrupts ==
  ASSUME IInv, PollingOK, NEW d \in Device, PollSevered(d)
  PROVE  Promised!Interrupt(d)
<1>0. poll \in [Device -> Poll] /\ stale \in [Device -> BOOLEAN]
  BY DEF IInv, TypeOK
<1>1. /\ mail' = mail /\ nextSeq' = nextSeq /\ excused' = excused /\ sent' = sent /\ mem' = mem
      /\ stale' = [stale EXCEPT ![d] = TRUE] /\ disk' = disk /\ post' = post
  BY DEF PollSevered, server, history
<1>2. mem[d].joined /\ mem[d].cursor + 1 \in Gone
  <2>1. /\ mem[d].joined /\ mem[d].cursor + 1 < poll[d].oldest
        /\ poll[d].oldest <= nextSeq + 1 /\ \A e \in mail : poll[d].oldest <= e.seq
    BY DEF PollSevered, Severed, PollingOK
  <2> QED
    BY <2>1, Numbers DEF Gone, Stored
<1>3. \A q \in Device : Copies(q)' = Copies(q)
  <2>1. \A q \in Device : poll'[q] = poll[q] \/ (poll[q].pc # "saving" /\ poll'[q].pc # "saving")
    BY <1>0 DEF PollSevered, NoPoll
  <2> QED
    BY <1>1, <2>1, SameCopies
<1>4. Gone' = Gone
  BY <1>1 DEF Gone, Stored
<1> QED
  BY <1>1, <1>2, <1>3, <1>4 DEF Promised!Interrupt

(* A page that passes the check is what is left of the log up to its last  *)
(* row; ours and what was hidden from us is all that may be missing.       *)
LEMMA AbsorbReads ==
  ASSUME IInv, GInv, PollingOK, NEW d \in Device, PollAbsorb(d)
  PROVE  Promised!Read(d)
<1> DEFINE fresh == poll[d].rows \ mine[d]
           after(m) == [mem[d] EXCEPT !.cursor = m, !.read = @ \cup fresh]
<1>0. /\ post \in [Device -> Post] /\ poll \in [Device -> Poll]
      /\ disk \in [Device -> View] /\ mem \in [Device -> View]
  BY DEF IInv, TypeOK
<1>1. PICK m \in poll[d].rows \cup {mem[d].cursor} :
        /\ IsLast(m, poll[d].rows, mem[d].cursor)
        /\ mem' = [mem EXCEPT ![d] = after(m)]
        /\ poll' = [poll EXCEPT ![d] = [NoPoll EXCEPT !.pc = "saving", !.snap = after(m)]]
  BY DEF PollAbsorb
<1>2. /\ mail' = mail /\ nextSeq' = nextSeq /\ excused' = excused /\ sent' = sent
      /\ stale' = stale /\ disk' = disk /\ post' = post /\ poll[d].pc = "rows"
      /\ mem[d].joined /\ ~stale[d] /\ poll[d].oldest <= mem[d].cursor + 1
  BY Numbers DEF PollAbsorb, Severed, PollingOK, server, history
<1>3. /\ mem[d].cursor \in Nat /\ nextSeq \in Nat /\ poll[d].oldest \in Nat /\ poll[d].rows \subseteq Nat
      /\ \A s \in poll[d].rows : mem[d].cursor < s /\ s <= nextSeq
  BY <1>2, Numbers DEF IInv, PageOK
<1>4. mem[d].cursor <= nextSeq
  BY DEF IInv, ViewsOK, ViewOK, Views
<1>5. m \in mem[d].cursor .. nextSeq /\ \A s \in poll[d].rows : s <= m
  BY <1>1, <1>3, <1>4 DEF IsLast
<1>6. fresh \in SUBSET (mem[d].cursor + 1 .. m)
  BY <1>3, <1>5
<1>7. (mem[d].cursor + 1 .. m) \subseteq fresh \cup sent[d] \cup excused[d]
  <2> SUFFICES ASSUME NEW s \in mem[d].cursor + 1 .. m PROVE s \in fresh \cup sent[d] \cup excused[d]
    OBVIOUS
  <2>1. s \in Nat /\ mem[d].cursor < s /\ s <= m /\ poll[d].oldest <= s
    BY <1>2, <1>3, <1>5
  <2>2. m \in poll[d].rows
    BY <1>1, <1>3, <2>1
  <2>3. s \in poll[d].rows \cup excused[d]
    BY <1>2, <2>1, <2>2 DEF GInv, RowsOK
  <2>4. mine[d] \subseteq sent[d]
    BY DEF IInv, MineSent
  <2> QED
    BY <2>3, <2>4
<1> DEFINE all == [q \in Device |-> Copies(q)]
<1>8. all' = [all EXCEPT ![d] = @ \cup {after(m)}]
  <2>1. PICK v : v = after(m)
    OBVIOUS
  <2>2. poll'[d].pc = "saving" /\ poll'[d].snap = v /\ \A q \in Device : q # d => poll'[q] = poll[q]
    BY <1>0, <1>1, <2>1 DEF NoPoll
  <2>3. \A q \in Device : q # d => Copies(q)' = Copies(q)
    BY <1>2, <2>2, SameCopies
  <2>4. Copies(d)' = Copies(d) \cup {v}
    BY <1>2, <2>2 DEF Copies
  <2> HIDE DEF after
  <2> QED
    BY <2>1, <2>3, <2>4
<1>9. Gone' = Gone
  BY <1>2 DEF Gone, Stored
<1> HIDE DEF fresh, all
<1> QED
  BY <1>1, <1>2, <1>5, <1>6, <1>7, <1>8, <1>9 DEF Promised!Read, all

(* A Welcome is a row that is stored.                                      *)
LEMMA DiscoverJoins ==
  ASSUME IInv, NEW d \in Device, Discover(d)
  PROVE  Promised!Join(d)
<1> DEFINE born(w) == [joined |-> TRUE, cursor |-> w.seq, base |-> w.seq, read |-> {}]
           all == [q \in Device |-> Copies(q)]
<1>0. poll \in [Device -> Poll]
  BY DEF IInv, TypeOK
<1>1. PICK w \in FirstPage(0) :
        /\ mem' = [mem EXCEPT ![d] = born(w)]
        /\ poll' = [poll EXCEPT ![d] = [NoPoll EXCEPT !.pc = "saving", !.snap = born(w)]]
  BY DEF Discover
<1>2. /\ mail' = mail /\ nextSeq' = nextSeq /\ excused' = excused /\ sent' = sent
      /\ stale' = stale /\ disk' = disk /\ post' = post /\ poll[d].pc = "idle" /\ ~mem[d].joined
  BY DEF Discover, server, history
<1>3. w.seq \in (1 .. nextSeq) \ Gone
  BY <1>1, Numbers DEF FirstPage, Gone, Stored
<1>4. all' = [all EXCEPT ![d] = @ \cup {born(w)}]
  <2>1. PICK v : v = born(w)
    OBVIOUS
  <2>2. poll'[d].pc = "saving" /\ poll'[d].snap = v /\ \A q \in Device : q # d => poll'[q] = poll[q]
    BY <1>0, <1>1, <2>1 DEF NoPoll
  <2>3. \A q \in Device : q # d => Copies(q)' = Copies(q)
    BY <1>2, <2>2, SameCopies
  <2>4. Copies(d)' = Copies(d) \cup {v}
    BY <1>2, <2>2 DEF Copies
  <2> HIDE DEF born
  <2> QED
    BY <2>1, <2>3, <2>4
<1>5. Gone' = Gone
  BY <1>2 DEF Gone, Stored
<1>6. Promised!At(w.seq) = born(w)
  BY DEF Promised!At
<1> HIDE DEF all
<1> QED
  BY <1>1, <1>2, <1>3, <1>4, <1>5, <1>6 DEF Promised!Join, all

(* Session.open reads the store, and what was being written is lost.       *)
LEMMA CrashRestarts ==
  ASSUME IInv, NEW d \in Device, Crash(d)
  PROVE  Promised!Restart(d)
<1> DEFINE all == [q \in Device |-> Copies(q)]
<1>0. post \in [Device -> Post] /\ poll \in [Device -> Poll]
  BY DEF IInv, TypeOK
<1>1. /\ mail' = mail /\ nextSeq' = nextSeq /\ excused' = excused /\ sent' = sent /\ disk' = disk
      /\ mem' = [mem EXCEPT ![d] = disk[d]] /\ stale' = [stale EXCEPT ![d] = FALSE]
  BY DEF Crash, history
<1>2. \A q \in Device : q # d => poll'[q] = poll[q] /\ post'[q] = post[q]
  BY <1>0 DEF Crash
<1>3. poll'[d].pc = "idle" /\ post'[d].pc # "saving"
  <2>1. poll'[d] = NoPoll /\ post[d] \in Post
    BY <1>0 DEF Crash
  <2>2. CASE post[d].pc \in {"open", "drawn"}
    <3>1. post'[d] = [post[d] EXCEPT !.heard = FALSE]
      BY <1>0, <2>2 DEF Crash
    <3>2. post'[d].pc = post[d].pc
      BY <2>1, <3>1 DEF Post
    <3> QED
      BY <2>1, <2>2, <3>2 DEF NoPoll
  <2>3. CASE post[d].pc \notin {"open", "drawn"}
    <3>1. post'[d] = NoPost
      BY <1>0, <2>3 DEF Crash
    <3> QED
      BY <2>1, <3>1 DEF NoPost, NoPoll
  <2> QED
    BY <2>2, <2>3
<1>4. Copies(d)' = {disk[d]} /\ disk[d] \in Copies(d)
  BY <1>1, <1>3 DEF Copies
<1>5. \A q \in Device : q # d => Copies(q)' = Copies(q)
  BY <1>1, <1>2, SameCopies
<1>6. all' = [all EXCEPT ![d] = {disk[d]}] /\ disk[d] \in all[d]
  BY <1>4, <1>5
<1>7. Gone' = Gone
  BY <1>1 DEF Gone, Stored
<1> HIDE DEF all
<1> QED
  BY <1>1, <1>6, <1>7 DEF Promised!Restart, all

(* purge_once takes rows that are beyond the tail, and no others; what it  *)
(* hides from a device is among what it takes.                             *)
LEMMA PurgeTakes ==
  ASSUME IInv, OneRow, Purge
  PROVE  Promised!Purge
<1> DEFINE out  == {e \in mail : Expired(e)}
           left == mail \ out
           taken == {e.seq : e \in out}
           unseen == [q \in Device |-> excused'[q] \ excused[q]]
<1>1. /\ mail' = left /\ nextSeq' = nextSeq /\ sent' = sent /\ mem' = mem /\ stale' = stale
      /\ disk' = disk /\ post' = post /\ poll' = poll
  BY DEF Purge, client
<1>2. \A q \in Device : excused[q] \subseteq excused'[q] /\ excused'[q] \subseteq excused[q] \cup taken
  <2> DEFINE hole == {e.seq : e \in {g \in out : \E f \in left : f.seq < g.seq}}
  <2>1. excused' = [q \in Device |-> excused[q] \cup hole \cup (IF poll[q].pc = "oldest" THEN taken ELSE {})]
    BY DEF Purge
  <2>2. hole \subseteq taken
    OBVIOUS
  <2> HIDE DEF hole, taken, out, left
  <2> QED
    BY <2>1, <2>2
<1>3. \A q \in Device : Copies(q)' = Copies(q)
  BY <1>1 DEF Copies
<1>4. taken \in SUBSET Promised!Holes(nextSeq)
  BY Numbers DEF Promised!Holes, Expired
<1>5. Gone' = Gone \cup taken
  <2>1. \A s \in 1 .. nextSeq : (\E e \in left : e.seq = s) <=> Stored(s) /\ s \notin taken
    BY DEF OneRow, Stored
  <2>2. taken \subseteq 1 .. nextSeq
    BY Numbers
  <2> HIDE DEF left, taken
  <2> QED
    BY <1>1, <2>1, <2>2 DEF Gone, Stored
<1> HIDE DEF taken
<1>6. unseen \in [Device -> SUBSET taken]
  BY <1>2
<1>7. excused' = [q \in Device |-> excused[q] \cup unseen[q]]
  <2>1. \A q \in Device : excused'[q] = excused[q] \cup unseen[q]
    BY <1>2
  <2>2. excused' = [q \in Device |-> excused'[q]]
    BY DEF Purge
  <2> HIDE DEF unseen
  <2> QED
    BY <2>1, <2>2
<1> HIDE DEF unseen
<1> QED
  BY <1>1, <1>3, <1>4, <1>5, <1>6, <1>7 DEF Promised!Purge

(* The empty mailbox, with its founders at the start of it.                *)
LEMMA LogBegins == Init => Promised!Init /\ PollingOK /\ OneRow
<1> SUFFICES ASSUME Init PROVE Promised!Init /\ PollingOK /\ OneRow
  OBVIOUS
<1>1. \A q \in Device : Copies(q) = {mem[q]}
  BY DEF Init, Copies, NoPost, NoPoll
<1>2. \A q \in Device : FirstView(q) = Promised!Start(q)
  BY DEF FirstView, Promised!Start
<1>3. Gone = {}
  BY DEF Init, Gone
<1>4. PollingOK /\ OneRow
  BY DEF Init, PollingOK, OneRow, NoPoll
<1>5. /\ nextSeq = 0 /\ mem = [d \in Device |-> FirstView(d)] /\ sent = [d \in Device |-> {}]
      /\ excused = [d \in Device |-> {}] /\ stale = [d \in Device |-> FALSE]
  BY DEF Init
<1> QED
  BY <1>1, <1>2, <1>3, <1>4, <1>5 DEF Promised!Init

(* The mailbox implements the ordered log, step by step: what the devices  *)
(* of a group read of it is one sequence of rows, with no others missing   *)
(* than their own and those they could not know of, wherever posts, polls, *)
(* purges, writes and crashes fall (post_envelope, fetch_envelopes,        *)
(* pollOnce, persist, Session.open).                                       *)
THEOREM OrderedLogImplemented == Spec => ReadsInOrder
<1> DEFINE Inv == IInv /\ GInv /\ PollingOK /\ OneRow
<1>1. Init => Inv
  BY InvInit, GapInit, LogBegins
<1>2. Inv /\ [Next]_vars => Inv'
  BY InvKept, GapKept, PollingStep, OneRowStep
<1>3. Inv /\ [Next]_vars => [Promised!Next]_Promised!vars
  <2> SUFFICES ASSUME Inv, [Next]_vars PROVE [Promised!Next]_Promised!vars
    OBVIOUS
  <2>1. ASSUME NEW d \in Device, PostCommit(d) PROVE Promised!Next
    BY <2>1, CommitPosts DEF Promised!Next
  <2>2. ASSUME NEW d \in Device, PostAnswered(d) \/ PostSaved(d) \/ PollSaved(d) PROVE Promised!Next
    BY <2>2, SavesKeep DEF Promised!Next
  <2>3. ASSUME NEW d \in Device, PollSevered(d) PROVE Promised!Next
    BY <2>3, SeveredInterrupts DEF Promised!Next
  <2>4. ASSUME NEW d \in Device, PollAbsorb(d) PROVE Promised!Next
    BY <2>4, AbsorbReads DEF Promised!Next
  <2>5. ASSUME NEW d \in Device, Discover(d) PROVE Promised!Next
    BY <2>5, DiscoverJoins DEF Promised!Next
  <2>6. ASSUME NEW d \in Device, Crash(d) PROVE Promised!Next
    BY <2>6, CrashRestarts DEF Promised!Next
  <2>7. CASE Purge
    BY <2>7, PurgeTakes DEF Promised!Next
  <2>8. ASSUME NEW d \in Device,
               \/ \E n \in Device \cup {Nobody} : AddMember(d, n) \/ RemoveMember(d, n) \/ PostBegin(d, n)
               \/ PostDraw(d) \/ PostAbort(d) \/ PostLost(d) \/ PollOldest(d) \/ PollRows(d)
        PROVE  UNCHANGED Promised!vars
    BY <2>8, QuietSteps
  <2>9. ASSUME Tick \/ UNCHANGED vars PROVE UNCHANGED Promised!vars
    <3>1. /\ mail' = mail /\ nextSeq' = nextSeq /\ excused' = excused /\ sent' = sent /\ mem' = mem
          /\ stale' = stale /\ disk' = disk /\ post' = post /\ poll' = poll
      BY <2>9 DEF Tick, vars, server, client, history
    <3> QED
      BY <3>1, SameCopies, Quiet
  <2> QED
    BY <2>1, <2>2, <2>3, <2>4, <2>5, <2>6, <2>7, <2>8, <2>9 DEF Next, PollStep
<1>4. Init => Promised!Init
  BY LogBegins
<1> QED
  BY <1>1, <1>2, <1>3, <1>4, PTL DEF Spec, ReadsInOrder, Promised!Spec
=============================================================================
