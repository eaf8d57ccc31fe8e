------------------------------- MODULE Mailbox -------------------------------
(***************************************************************************)
(* One group's mailbox: the Postgres rows the server keeps for it          *)
(* (groups.next_seq, envelopes, group_members) and, per device, the        *)
(* conversation view that reads it (cursor, MLS state, what is on disk).   *)
(*                                                                         *)
(* A post is a database transaction of its own (begin, draw the sequence   *)
(* under the row lock of the group, insert and commit), whose response the *)
(* poster may or may not hear.  A poll is two SQL statements on the server *)
(* (the oldest surviving sequence, then the page of rows) followed by one  *)
(* synchronous block in the client that absorbs the page, followed by a    *)
(* write to disk that a crash may forestall.  The retention purge, the     *)
(* membership routes and the discovery of a group by a device that was     *)
(* added to it run in between.                                             *)
(*                                                                         *)
(* Left out: the payload of an envelope (opaque to the server, its epoch   *)
(* is the business of Commits), rate limits, and the deletion of a group   *)
(* nobody is a member of (see Storage).                                    *)
(***************************************************************************)
EXTENDS Naturals, FiniteSets

CONSTANTS
  Device,       \* every device that ever touches the group
  Founders,     \* the devices that hold the conversation from the start
  Readers,      \* bound: the devices whose polling is followed
  Nobody,       \* not a device: an envelope addressed to no one in particular
  Retention,    \* ENVELOPE_RETENTION_DAYS, in ticks of the clock
  MinTail,         \* ENVELOPE_MIN_TAIL
  Page,         \* MAX_ENVELOPES_PER_PAGE
  MaxSeq,       \* bound: envelopes ever posted
  MaxClock,     \* bound: ticks of the database clock
  MaxCrashes,   \* bound: client crashes
  MaxChanges    \* bound: devices added to or removed from the group

ASSUME DeviceAssumption ==
  Founders \subseteq Device /\ Readers \subseteq Device /\ Nobody \notin Device
ASSUME BoundAssumption ==
  /\ Retention \in Nat /\ MinTail \in Nat /\ Page \in Nat \ {0}
  /\ MaxSeq \in Nat /\ MaxClock \in Nat /\ MaxCrashes \in Nat /\ MaxChanges \in Nat

VARIABLES
  \* the database
  clock,        \* now()
  nextSeq,      \* groups.next_seq, as committed
  mail,         \* the rows of envelopes: [seq, at, to]
  holder,       \* the device whose transaction holds the row lock, or Nobody
  members,      \* group_members
  owed,         \* pairs <<d, n>>: d added n to the tree and is to post its Welcome
  changes,      \* number of membership changes so far
  post,         \* per device, its post in progress
  \* the clients
  mem,          \* per device, the view and MLS state in memory
  mine,         \* per device, view.mine: sequences it knows to be its own
  stale,        \* per device, view.stale
  poll,         \* per device, the poll in progress
  disk,         \* per device, what the store holds
  crashes,      \* number of crashes so far
  \* history
  sent,         \* per device, the sequences it posted
  excused       \* per device, the sequences a purge took where no check could see

server  == <<clock, nextSeq, mail, holder, members, owed, changes, post>>
client  == <<mem, mine, stale, poll, disk, crashes>>
history == <<sent, excused>>
vars    == <<server, client, history>>

(***************************************************************************)
(* Shapes.  A view is what "persist" writes in one piece: whether the      *)
(* group is known, the cursor, and the sequences the MLS state has         *)
(* consumed.  "base" is the cursor the view was born with: what lies below *)
(* it was never meant for this device.                                     *)
(***************************************************************************)
Seqs     == 1 .. MaxSeq
Envelope == [seq : Seqs, at : 0 .. MaxClock, to : Device \cup {Nobody}]
View     == [joined : BOOLEAN, cursor : 0 .. MaxSeq, base : 0 .. MaxSeq, read : SUBSET Seqs]
Post     == [pc : {"idle", "open", "drawn", "done", "saving"}, at : 0 .. MaxClock,
             seq : 0 .. MaxSeq, to : Device \cup {Nobody}, heard : BOOLEAN, snap : View]
Poll     == [pc : {"idle", "oldest", "rows", "saving"}, oldest : 0 .. MaxSeq + 1,
             rows : SUBSET Seqs, snap : View]

NoView   == [joined |-> FALSE, cursor |-> 0, base |-> 0, read |-> {}]
FirstView(d) == [joined |-> d \in Founders, cursor |-> 0, base |-> 0, read |-> {}]
NoPost   == [pc |-> "idle", at |-> 0, seq |-> 0, to |-> Nobody, heard |-> FALSE, snap |-> NoView]
NoPoll   == [pc |-> "idle", oldest |-> 0, rows |-> {}, snap |-> NoView]

Init ==
  /\ clock = 0 /\ nextSeq = 0 /\ mail = {} /\ holder = Nobody
  /\ members = Founders /\ owed = {}
  /\ post = [d \in Device |-> NoPost]
  /\ mem  = [d \in Device |-> FirstView(d)]
  /\ disk = [d \in Device |-> FirstView(d)]
  /\ mine = [d \in Device |-> {}]
  /\ stale = [d \in Device |-> FALSE]
  /\ poll = [d \in Device |-> NoPoll]
  /\ crashes = 0 /\ changes = 0
  /\ sent = [d \in Device |-> {}]
  /\ excused = [d \in Device |-> {}]

-----------------------------------------------------------------------------
(* Membership: add_members and remove_members, each one transaction.       *)

(* The caller of add_members goes on to post the Welcome (addMissingDevices, *)
(* addAccount); the route itself is an idempotent insert.                  *)
AddMember(d, n) ==
  /\ d \in members /\ mem[d].joined /\ n \notin members
  /\ changes < MaxChanges /\ changes' = changes + 1
  /\ members' = members \cup {n}
  /\ owed' = owed \cup {<<d, n>>}
  /\ UNCHANGED <<clock, nextSeq, mail, holder, post, client, history>>

RemoveMember(d, n) ==
  /\ d \in members /\ mem[d].joined /\ n \in members
  /\ changes < MaxChanges /\ changes' = changes + 1
  /\ members' = members \ {n}
  /\ owed' = {o \in owed : o[2] # n}
  /\ UNCHANGED <<clock, nextSeq, mail, holder, post, client, history>>

-----------------------------------------------------------------------------
(* post_envelope, and the half of sendContent that waits for it.           *)

(* The transaction begins: now() is fixed here, and is the created_at of   *)
(* the row.  A message may take the sealed path, which asks for the        *)
(* posting key every joined device holds and not for membership; a Welcome *)
(* takes the signed one.  A Welcome is tried once: by then the device is   *)
(* in the tree, and nothing looks for it again.                            *)
PostBegin(d, to) ==
  /\ mem[d].joined /\ post[d].pc = "idle"
  /\ to = Nobody \/ (<<d, to>> \in owed /\ d \in members)
  /\ owed' = owed \ {<<d, to>>}
  /\ post' = [post EXCEPT ![d] = [NoPost EXCEPT !.pc = "open", !.at = clock,
                                                 !.to = to, !.heard = TRUE]]
  /\ UNCHANGED <<clock, nextSeq, mail, holder, members, changes, client, history>>

(* Mutant: the sequence comes from a counter that no lock protects.        *)
PostDrawUnlocked(d) ==
  /\ post[d].pc = "open" /\ nextSeq < MaxSeq
  /\ nextSeq' = nextSeq + 1
  /\ post' = [post EXCEPT ![d].pc = "drawn", ![d].seq = nextSeq + 1]
  /\ UNCHANGED <<clock, mail, holder, members, owed, changes, client, history>>

(* UPDATE groups SET next_seq = next_seq + 1 ... RETURNING next_seq: waits *)
(* for the row lock, and holds it until the transaction ends.              *)
PostDraw(d) ==
  /\ post[d].pc = "open" /\ holder = Nobody /\ nextSeq < MaxSeq
  /\ holder' = d
  /\ post' = [post EXCEPT ![d].pc = "drawn", ![d].seq = nextSeq + 1]
  /\ UNCHANGED <<clock, nextSeq, mail, members, owed, changes, client, history>>

(* INSERT INTO envelopes and COMMIT: the row and the counter become        *)
(* visible together, and the lock is released.                             *)
PostCommit(d) ==
  /\ post[d].pc = "drawn"
  /\ mail' = mail \cup {[seq |-> post[d].seq, at |-> post[d].at, to |-> post[d].to]}
  /\ nextSeq' = post[d].seq
  /\ holder' = Nobody
  /\ sent' = [sent EXCEPT ![d] = @ \cup {post[d].seq}]
  /\ post' = [post EXCEPT ![d] = IF @.heard THEN [@ EXCEPT !.pc = "done"] ELSE NoPost]
  /\ UNCHANGED <<clock, members, owed, changes, client, excused>>

(* The transaction is rolled back: a connection lost, a database error.    *)
PostAbort(d) ==
  /\ post[d].pc \in {"open", "drawn"}
  /\ holder' = IF holder = d THEN Nobody ELSE holder
  /\ post' = [post EXCEPT ![d] = NoPost]
  /\ UNCHANGED <<clock, nextSeq, mail, members, owed, changes, client, history>>

(* The response arrives: view.mine learns the sequence, persist starts.    *)
PostAnswered(d) ==
  /\ post[d].pc = "done"
  /\ mine' = [mine EXCEPT ![d] = @ \cup {post[d].seq}]
  /\ post' = [post EXCEPT ![d].pc = "saving", ![d].snap = mem[d]]
  /\ UNCHANGED <<clock, nextSeq, mail, holder, members, owed, changes, mem, stale, poll, disk, crashes,
                 history>>

(* The response is lost: the call throws, nothing is noted.                *)
PostLost(d) ==
  /\ post[d].pc = "done"
  /\ post' = [post EXCEPT ![d] = NoPost]
  /\ UNCHANGED <<clock, nextSeq, mail, holder, members, owed, changes, client, history>>

(* The write started by PostAnswered reaches the disk.  It carries the     *)
(* view as it was when the write started, whatever happened since.         *)
PostSaved(d) ==
  /\ post[d].pc = "saving"
  /\ disk' = [disk EXCEPT ![d] = post[d].snap]
  /\ post' = [post EXCEPT ![d] = NoPost]
  /\ UNCHANGED <<clock, nextSeq, mail, holder, members, owed, changes, mem, mine, stale, poll, crashes,
                 history>>

-----------------------------------------------------------------------------
(* fetch_envelopes on the server, pollOnce in the client.                  *)

(* The first statement of the route.  An empty mailbox answers             *)
(* next_seq + 1.                                                           *)
IsOldest(m) == m <= nextSeq + 1 /\ \A e \in mail : m <= e.seq

(* ... WHERE seq > after ORDER BY seq LIMIT Page *)
UpTo(e, after)   == {f \in mail : f.seq > after /\ f.seq <= e.seq}
FirstPage(after) == {e \in mail : e.seq > after /\ Cardinality(UpTo(e, after)) <= Page}

PollOldest(d) ==
  /\ d \in Readers /\ mem[d].joined /\ ~stale[d] /\ d \in members
  /\ poll[d].pc = "idle"
  /\ \E m \in {e.seq : e \in mail} \cup {nextSeq + 1} :
       /\ IsOldest(m)
       /\ poll' = [poll EXCEPT ![d] = [NoPoll EXCEPT !.pc = "oldest", !.oldest = m]]
  /\ UNCHANGED <<server, mem, mine, stale, disk, crashes, history>>

PollRows(d) ==
  /\ poll[d].pc = "oldest"
  /\ poll' = [poll EXCEPT ![d].pc = "rows", ![d].rows = {e.seq : e \in FirstPage(mem[d].cursor)}]
  /\ UNCHANGED <<server, mem, mine, stale, disk, crashes, history>>

(* Mutant: the gap is measured from the cursor itself.                     *)
SeveredLate(d) == mem[d].cursor + 2 < poll[d].oldest

(* The check of pollOnce: what lay between the cursor and the oldest row   *)
(* is gone.                                                                *)
Severed(d) == mem[d].cursor + 1 < poll[d].oldest

PollSevered(d) ==
  /\ poll[d].pc = "rows" /\ Severed(d)
  /\ stale' = [stale EXCEPT ![d] = TRUE]
  /\ poll' = [poll EXCEPT ![d] = NoPoll]
  /\ UNCHANGED <<server, mem, mine, disk, crashes, history>>

IsLast(m, rows, cursor) == m >= cursor /\ \A s \in rows : m >= s

(* Mutant: the store is written with the cursor the page started from.     *)
PollAbsorbCursorLater(d) ==
  /\ poll[d].pc = "rows" /\ ~Severed(d)
  /\ \E m \in poll[d].rows \cup {mem[d].cursor} :
       LET fresh == poll[d].rows \ mine[d]
           after == [mem[d] EXCEPT !.cursor = m, !.read = @ \cup fresh]
       IN  /\ IsLast(m, poll[d].rows, mem[d].cursor)
           /\ mem' = [mem EXCEPT ![d] = after]
           /\ poll' = [poll EXCEPT ![d] = [NoPoll EXCEPT !.pc = "saving",
                          !.snap = [after EXCEPT !.cursor = mem[d].cursor]]]
  /\ UNCHANGED <<server, mine, stale, disk, crashes, history>>

(* Mutant: a row of our own is skipped before the cursor has moved past it. *)
PollAbsorbOwnStops(d) ==
  /\ poll[d].pc = "rows" /\ ~Severed(d)
  /\ LET fresh == poll[d].rows \ mine[d]
     IN  \E m \in fresh \cup {mem[d].cursor} :
           LET after == [mem[d] EXCEPT !.cursor = m, !.read = @ \cup fresh]
           IN  /\ m >= mem[d].cursor /\ \A s \in fresh : m >= s
               /\ mem' = [mem EXCEPT ![d] = after]
               /\ poll' = [poll EXCEPT ![d] = [NoPoll EXCEPT !.pc = "saving", !.snap = after]]
  /\ UNCHANGED <<server, mine, stale, disk, crashes, history>>

(* One synchronous block: every row that is not ours goes through the MLS  *)
(* state, the cursor follows, and persist takes its snapshot.              *)
PollAbsorb(d) ==
  /\ poll[d].pc = "rows" /\ ~Severed(d)
  /\ \E m \in poll[d].rows \cup {mem[d].cursor} :
       LET fresh == poll[d].rows \ mine[d]
           after == [mem[d] EXCEPT !.cursor = m, !.read = @ \cup fresh]
       IN  /\ IsLast(m, poll[d].rows, mem[d].cursor)
           /\ mem' = [mem EXCEPT ![d] = after]
           /\ poll' = [poll EXCEPT ![d] = [NoPoll EXCEPT !.pc = "saving", !.snap = after]]
  /\ UNCHANGED <<server, mine, stale, disk, crashes, history>>

PollSaved(d) ==
  /\ poll[d].pc = "saving"
  /\ disk' = [disk EXCEPT ![d] = poll[d].snap]
  /\ poll' = [poll EXCEPT ![d] = NoPoll]
  /\ UNCHANGED <<server, mem, mine, stale, crashes, history>>

(* discoverNewConversations: the group is listed, its mailbox is read from *)
(* 0, and the first Welcome of that page that opens is joined.  The save   *)
(* is the one that closes reconcileMembers.                                *)
Discover(d) ==
  /\ d \in Readers /\ d \in members /\ ~mem[d].joined /\ poll[d].pc = "idle"
  /\ \E w \in FirstPage(0) :
       /\ w.to = d
       /\ \A v \in FirstPage(0) : v.to = d => w.seq <= v.seq
       /\ LET born == [joined |-> TRUE, cursor |-> w.seq, base |-> w.seq, read |-> {}]
          IN  /\ mem' = [mem EXCEPT ![d] = born]
              /\ poll' = [poll EXCEPT ![d] = [NoPoll EXCEPT !.pc = "saving", !.snap = born]]
  /\ mine' = [mine EXCEPT ![d] = {}]
  /\ UNCHANGED <<server, stale, disk, crashes, history>>

(* The process dies and Session.open reads the store back: mine and stale  *)
(* are not stored, and writes that had not landed are lost.  A transaction *)
(* the server had begun goes on without anybody to hear its answer.        *)
Crash(d) ==
  /\ crashes < MaxCrashes
  /\ crashes' = crashes + 1
  /\ mem' = [mem EXCEPT ![d] = disk[d]]
  /\ mine' = [mine EXCEPT ![d] = {}]
  /\ stale' = [stale EXCEPT ![d] = FALSE]
  /\ poll' = [poll EXCEPT ![d] = NoPoll]
  /\ post' = [post EXCEPT ![d] = IF @.pc \in {"open", "drawn"}
                                 THEN [@ EXCEPT !.heard = FALSE] ELSE NoPost]
  /\ owed' = {o \in owed : o[1] # d}
  /\ UNCHANGED <<clock, nextSeq, mail, holder, members, changes, disk, history>>

-----------------------------------------------------------------------------
(* Mutant: the comparison of the tail is off by one.                       *)
ExpiredOneTooMany(e) == e.at + Retention < clock /\ e.seq + MinTail <= nextSeq + 1

(* The envelopes statement of purge_once: old AND beyond the tail.         *)

Expired(e) == e.at + Retention < clock /\ e.seq + MinTail <= nextSeq

Purge ==
  LET gone == {e \in mail : Expired(e)}
      left == mail \ gone
      \* a row whose elder survives it leaves a hole no "oldest" can report
      hole == {e.seq : e \in {g \in gone : \E f \in left : f.seq < g.seq}}
  IN  /\ gone # {}
      /\ mail' = left
      /\ excused' = [d \in Device |->
           excused[d] \cup hole
             \cup (IF poll[d].pc = "oldest" THEN {e.seq : e \in gone} ELSE {})]
      /\ UNCHANGED <<clock, nextSeq, holder, members, owed, changes, post, client, sent>>

Tick ==
  /\ clock < MaxClock
  /\ clock' = clock + 1
  /\ UNCHANGED <<nextSeq, mail, holder, members, owed, changes, post, client, history>>

-----------------------------------------------------------------------------
PollStep(d) ==
  \/ PollOldest(d) \/ PollRows(d) \/ PollSevered(d) \/ PollAbsorb(d) \/ PollSaved(d)
  \/ Discover(d)

Next ==
  \/ \E d, n \in Device : AddMember(d, n) \/ RemoveMember(d, n)
  \/ \E d \in Device, to \in Device \cup {Nobody} : PostBegin(d, to)
  \/ \E d \in Device :
       \/ PostDraw(d) \/ PostCommit(d) \/ PostAbort(d)
       \/ PostAnswered(d) \/ PostLost(d) \/ PostSaved(d)
       \/ PollStep(d) \/ Crash(d)
  \/ Purge \/ Tick

Spec == Init /\ [][Next]_vars

(* The thirty-second timer of the client keeps polling, every request it   *)
(* makes is answered in the end and every write it starts lands.  Nothing  *)
(* is assumed of posts, purges, crashes or the clock.                      *)
Fairness == \A d \in Device : WF_vars(PollStep(d))

FairSpec == Spec /\ Fairness

-----------------------------------------------------------------------------
(* Properties.                                                             *)

(* The row lock is held by a device exactly while its transaction has      *)
(* drawn the next sequence and not ended; a sequence that was answered for *)
(* is one that was posted.                                                 *)
LockHeld == \A d \in Device :
  /\ holder = d <=> post[d].pc = "drawn"
  /\ post[d].pc = "drawn" => post[d].seq = nextSeq + 1
  /\ post[d].pc = "done" => post[d].seq \in sent[d]

(* Every variable keeps its shape, and the row lock of the group is where  *)
(* the transactions of post_envelope say it is.                            *)
TypeOK ==
  /\ clock \in 0 .. MaxClock /\ nextSeq \in 0 .. MaxSeq
  /\ mail \subseteq Envelope
  /\ holder \in Device \cup {Nobody}
  /\ members \subseteq Device /\ owed \subseteq Device \X Device
  /\ post \in [Device -> Post]
  /\ mem \in [Device -> View] /\ disk \in [Device -> View]
  /\ mine \in [Device -> SUBSET Seqs]
  /\ stale \in [Device -> BOOLEAN]
  /\ poll \in [Device -> Poll]
  /\ crashes \in 0 .. MaxCrashes /\ changes \in 0 .. MaxChanges
  /\ sent \in [Device -> SUBSET Seqs] /\ excused \in [Device -> SUBSET Seqs]
  /\ LockHeld

(* Every view there is of the group on device d: the one in memory, the    *)
(* one on disk, and the two that may be on their way to the disk.          *)
Views(d) == {mem[d], disk[d], post[d].snap, poll[d].snap}

(* No envelope the server still holds lies behind a cursor without having  *)
(* gone through that device's ratchet or come from that very device: a     *)
(* cursor, in memory, on disk or in flight, never runs past a row that was *)
(* committed later.  It rests on the row lock of post_envelope making the  *)
(* order of sequences the order of commits, and on pages being taken in    *)
(* order from the cursor up.                                               *)
NoSkip ==
  \A d \in Device : \A v \in Views(d) : \A e \in mail :
    v.joined /\ v.base < e.seq /\ e.seq <= v.cursor => e.seq \in v.read \cup sent[d]

(* The ratchet and the cursor advance together or not at all (pollOnce):   *)
(* no copy of a view, and above all none that a restart could come back    *)
(* to, has consumed an envelope its cursor would ask for again.            *)
RatchetWithCursor ==
  \A d \in Device : \A v \in Views(d) : \A s \in v.read : v.base < s /\ s <= v.cursor

(* Whatever purges ran, the last MinTail sequences handed out are all there   *)
(* (purge_once, and the off-by-one its comment works out).                 *)
TailKept ==
  \A s \in 1 .. nextSeq : s + MinTail > nextSeq => \E e \in mail : e.seq = s

(* A conversation that is not declared interrupted has missed nothing a    *)
(* check could have told it about: what lies behind the cursor was read,   *)
(* was sent from here, or was purged either between the two statements of  *)
(* one page or from behind an older row that outlived it.                  *)
GapIsReported ==
  \A d \in Device : \A s \in (mem[d].base + 1) .. mem[d].cursor :
    mem[d].joined => s \in mem[d].read \cup sent[d] \cup excused[d]

(* An envelope that is on the server, and that a device of the group is    *)
(* meant to read and has not reached.                                      *)
Waits(d, s) ==
  /\ mem[d].joined /\ ~stale[d] /\ d \in members
  /\ mem[d].base < s /\ s <= nextSeq /\ mem[d].cursor < s

(* No envelope waits for ever: the cursor of every device that is in the   *)
(* group and stays in it comes to it, or the conversation is declared      *)
(* interrupted.  A page full of a device's own rows, a crash, a lost       *)
(* answer or a purge does not stop the polling (startStream, pollOnce).    *)
Delivered == \A d \in Readers : \A s \in Seqs : []<>~Waits(d, s)

(* What a restart may come back to: the store, and the writes under way.   *)
Copies(d) ==
  {disk[d]} \cup (IF post[d].pc = "saving" THEN {post[d].snap} ELSE {})
            \cup (IF poll[d].pc = "saving" THEN {poll[d].snap} ELSE {})

Stored(s) == \E e \in mail : e.seq = s
Gone == {s \in 1 .. nextSeq : ~Stored(s)}

Promised == INSTANCE OrderedLog WITH
  count <- nextSeq, gone <- Gone, hidden <- excused, view <- mem,
  copies <- [d \in Device |-> Copies(d)], interrupted <- stale

(* The mailbox is an ordered log.  Each device reads the rows in order and *)
(* misses none but its own and those it could not know of; it stops only   *)
(* at a hole that is there; and however writes and crashes fall, what it   *)
(* comes back to is a place it was at with the MLS state it had there      *)
(* (post_envelope, fetch_envelopes, pollOnce, persist, Session.open).      *)
ReadsInOrder == Promised!Spec

=============================================================================
