------------------------------- MODULE Commits -------------------------------
(***************************************************************************)
(* The epochs of one MLS group: the tree of commits its members make, the  *)
(* log in which the server orders them, and each device's walk along it.   *)
(*                                                                         *)
(* A commit is prepared, posted and only then applied (publishAndApply).   *)
(* Two flows of a device make commits, and may overlap: what the user asks *)
(* for, and the housekeeping at the start of every poll, which adds our    *)
(* other devices and evicts revoked ones.  The absorb loop of the poll     *)
(* runs after that housekeeping, beside the user's flow.  Whether a commit *)
(* of somebody else is followed is decided by the group's policy, roles.rs, *)
(* with the revocations this device knows of.                              *)
(*                                                                         *)
(* OpenMLS is external: one commit may be pending at a time, merging       *)
(* another's commit drops it, a commit picks up every proposal received in *)
(* its epoch, and a message of another epoch, or of our own, is an error   *)
(* that changes nothing.                                                   *)
(*                                                                         *)
(* Left out: application messages, the purge and the paging of the log     *)
(* (Mailbox), the membership lists of the server, and the order in which   *)
(* concurrent writes of one device reach its disk.                         *)
(***************************************************************************)
EXTENDS Naturals, FiniteSets, Sequences

CONSTANTS
  Device,     \* every device there is
  Account,    \* every account
  Owner,      \* the account of each device
  Founders,   \* the devices startConversation put in the tree
  Admin,      \* the account that created the group, or Flat
  Flat,       \* not an account: a group without a roster
  Fragile,    \* bound: the devices that may crash
  MaxMade,    \* bound: commits ever prepared
  MaxRows,    \* bound: rows of the log
  MaxFaults,  \* bound: requests and answers lost, and crashes of a client
  MaxRevoked  \* bound: devices revoked

ASSUME OwnerAssumption ==
  /\ Owner \in [Device -> Account] /\ Founders \subseteq Device /\ Fragile \subseteq Device
  /\ Flat \notin Account /\ Admin \in Account \cup {Flat}
ASSUME BoundAssumption ==
  /\ MaxMade \in Nat /\ MaxRows \in Nat /\ MaxFaults \in Nat /\ MaxRevoked \in Nat

VARIABLES
  made,       \* the commits ever prepared; its indices name the epochs, 0 is the first
  log,        \* the rows of the mailbox, as the server ordered them
  revoked,    \* devices whose revocation certificate is published
  mem,        \* per device, the MLS state and the cursor in memory
  disk,       \* per device, what the store holds
  flow,       \* per device, its two flows
  known,      \* per device, the revoked keys in view.accounts
  faults,     \* number of requests and answers lost, and of crashes, so far
  spine,      \* history: the epoch a member that read everything up to a row is in
  estranged   \* history: the devices that left the spine, or never were on it

vars == <<made, log, revoked, mem, disk, flow, known, faults, spine, estranged>>

-----------------------------------------------------------------------------
(* Shapes.                                                                 *)

Epochs == 0 .. MaxMade
Tree   == [members : SUBSET Device, admin : Account \cup {Flat}, mods : SUBSET Account,
           lifetime : BOOLEAN]
Commit == [base : Epochs, by : Device, leaves : SUBSET Device, tree : Tree]
Row    == [kind : {"commit", "welcome", "leave"}, epoch : Epochs, sound : BOOLEAN, who : Device]
View   == [joined : BOOLEAN, tip : Epochs, pend : Epochs, props : SUBSET Device,
           cursor : 0 .. MaxRows]
Step   == [pc : {"idle", "posting", "landed", "welcome"}, epoch : Epochs,
           guest : SUBSET Device, sound : BOOLEAN]

NotJoined == [joined |-> FALSE, tip |-> 0, pend |-> 0, props |-> {}, cursor |-> 0]
Idle      == [pc |-> "idle", epoch |-> 0, guest |-> {}, sound |-> TRUE]
Rest      == [user |-> Idle, poll |-> Idle]
Flows     == {"user", "poll"}

(* What startConversation leaves behind once its invitees have joined.     *)
Genesis == [members |-> Founders, admin |-> Admin, mods |-> {}, lifetime |-> FALSE]

TreeOf(c) == IF c = 0 THEN Genesis ELSE made[c].tree
MyTree(d) == TreeOf(mem[d].tip)
Canon     == IF spine = <<>> THEN 0 ELSE spine[Len(spine)]
SpineAt(k) == IF k = 0 THEN 0 ELSE spine[k]

Init ==
  /\ made = <<>> /\ log = <<>> /\ revoked = {}
  /\ mem = [d \in Device |-> [NotJoined EXCEPT !.joined = d \in Founders]]
  /\ disk = mem
  /\ flow = [d \in Device |-> Rest]
  /\ known = [d \in Device |-> {}]
  /\ faults = 0
  /\ spine = <<>> /\ estranged = {}

-----------------------------------------------------------------------------
(* The policy: authorize_commit and roles::authorize.  The roster in force *)
(* is the one of the tree the commit was made from; what the commit does   *)
(* is read off by comparing the two trees.                                 *)

Moderates(t, who) == who = t.admin \/ who \in t.mods
Removed(t, c)     == t.members \ c.tree.members

(* Mutant: the guard against losing the admin is left to the loop.         *)
AuthorizeAnyRemoval(t, c, revokedKeys) ==
  LET who == Owner[c.by]
  IN  \/ t.admin = Flat
      \/ /\ <<c.tree.admin, c.tree.mods>> # <<t.admin, t.mods>> => who = t.admin
         /\ c.tree.lifetime # t.lifetime => Moderates(t, who)
         /\ c.tree.members \subseteq t.members \/ Moderates(t, who)
         /\ \A r \in Removed(t, c) \ (c.leaves \cup revokedKeys) :
              Moderates(t, who) /\ (Owner[r] \in t.mods => who = t.admin)

Authorize(t, c, revokedKeys) ==
  LET who == Owner[c.by]
  IN  \/ t.admin = Flat
      \/ /\ <<c.tree.admin, c.tree.mods>> # <<t.admin, t.mods>> => who = t.admin
         /\ c.tree.lifetime # t.lifetime => Moderates(t, who)
         /\ c.tree.members \subseteq t.members \/ Moderates(t, who)
         /\ \A r \in Removed(t, c) \ (c.leaves \cup revokedKeys) :
              Moderates(t, who) /\ (Owner[r] \in t.mods => who = t.admin)
         /\ \E r \in t.members \ Removed(t, c) : Owner[r] = t.admin

-----------------------------------------------------------------------------
(* What a flow may want, as the trees it would lead to from tree t.  The   *)
(* interface offers roles to the admin and the rest to role holders        *)
(* (Group.tsx, ConversationSettings.tsx, ConversationHeader.tsx); a poll   *)
(* asks nobody.                                                            *)

With(t, n)    == [t EXCEPT !.members = @ \cup {n}]
Without(t, r) == [t EXCEPT !.members = @ \ {r}]

(* addMissingDevices, through propagateOwnDevices *)
OwnMissing(d) == {n \in Device \ revoked : Owner[n] = Owner[d] /\ n \notin MyTree(d).members}

(* reconcileMembers: the revocations in view.accounts, and our own account's *)
Evictable(d) ==
  (MyTree(d).members \ {d}) \cap (known[d] \cup {r \in revoked : Owner[r] = Owner[d]})

(* addAccount, one device of it *)
Invitable(d) ==
  IF MyTree(d).admin # Flat /\ Moderates(MyTree(d), Owner[d])
  THEN {n \in Device \ revoked : Owner[n] # Owner[d] /\ n \notin MyTree(d).members}
  ELSE {}

(* removeAccount, one device of it *)
Removable(d) ==
  LET t == MyTree(d)
  IN  {r \in t.members : /\ t.admin # Flat /\ Owner[r] \notin {Owner[d], t.admin}
                         /\ Moderates(t, Owner[d])
                         /\ Owner[r] \in t.mods => Owner[d] = t.admin}

(* setModerator, and setRoles when the group is handed over *)
Rosters(d) ==
  LET t      == MyTree(d)
      others == {Owner[r] : r \in t.members} \ {Owner[d]}
  IN  IF Owner[d] # t.admin THEN {}
      ELSE {[t EXCEPT !.mods = @ \cup {a}] : a \in others \ t.mods}
             \cup {[t EXCEPT !.mods = @ \ {a}] : a \in t.mods}
             \cup {[t EXCEPT !.admin = a, !.mods = @ \ {a}] : a \in others}

(* setLifetime *)
Lifetimes(d) ==
  LET t == MyTree(d)
  IN  IF t.admin = Flat \/ Moderates(t, Owner[d])
      THEN {[t EXCEPT !.lifetime = ~@]} ELSE {}

-----------------------------------------------------------------------------
(* Making a commit.                                                        *)

Active(d) == d \notin revoked     \* the mailbox of a group is closed to a revoked device

(* The group is operational: we are in it, nothing is pending, and we did  *)
(* not ask to leave it in this epoch.                                      *)
CanCommit(d) ==
  /\ Active(d) /\ mem[d].joined /\ d \in MyTree(d).members
  /\ mem[d].pend = 0 /\ d \notin mem[d].props
  /\ Len(made) < MaxMade

(* Mutant: the commit is applied as soon as it is made.                    *)
PrepareApplied(d, f, tree, guest) ==
  LET leaves == mem[d].props \cap tree.members
      c      == [base |-> mem[d].tip, by |-> d, leaves |-> leaves,
                 tree |-> [tree EXCEPT !.members = @ \ leaves]]
  IN  /\ CanCommit(d) /\ flow[d][f].pc = "idle"
      /\ made' = Append(made, c)
      /\ mem' = [mem EXCEPT ![d].tip = Len(made) + 1, ![d].props = {}]
      /\ flow' = [flow EXCEPT ![d][f] = [Idle EXCEPT !.pc = "posting", !.epoch = Len(made) + 1,
                                                     !.guest = guest]]
      /\ UNCHANGED <<log, revoked, disk, known, faults, spine, estranged>>

(* client.invite, removeMember, setRoles, setLifetime: the commit takes    *)
(* with it the departures proposed in this epoch, and stays pending.       *)
Prepare(d, f, tree, guest) ==
  LET leaves == mem[d].props \cap tree.members
      c      == [base |-> mem[d].tip, by |-> d, leaves |-> leaves,
                 tree |-> [tree EXCEPT !.members = @ \ leaves]]
  IN  /\ CanCommit(d) /\ flow[d][f].pc = "idle"
      /\ made' = Append(made, c)
      /\ mem' = [mem EXCEPT ![d].pend = Len(made) + 1]
      /\ flow' = [flow EXCEPT ![d][f] = [Idle EXCEPT !.pc = "posting", !.epoch = Len(made) + 1,
                                                     !.guest = guest]]
      /\ UNCHANGED <<log, revoked, disk, known, faults, spine, estranged>>

AddOwnDevice(d)  == \E n \in OwnMissing(d) : Prepare(d, "poll", With(MyTree(d), n), {n})
Evict(d)         == \E r \in Evictable(d) : Prepare(d, "poll", Without(MyTree(d), r), {})
AddAccount(d)    == \E n \in Invitable(d) : Prepare(d, "user", With(MyTree(d), n), {n})
RemoveAccount(d) == \E r \in Removable(d) : Prepare(d, "user", Without(MyTree(d), r), {})
SetRoles(d)      == \E t \in Rosters(d) : Prepare(d, "user", t, {})
SetLifetime(d)   == \E t \in Lifetimes(d) : Prepare(d, "user", t, {})

(* The row reaches the log.  A commit moves the spine when it was made     *)
(* from the epoch the spine is in and the policy lets it, given every      *)
(* revocation there is.                                                    *)
Extends(c) ==
  /\ made[c].base = Canon
  /\ Authorize(TreeOf(Canon), made[c], revoked)

Land(row) ==
  /\ Len(log) < MaxRows
  /\ log' = Append(log, row)
  /\ spine' = Append(spine, IF row.kind = "commit" /\ Extends(row.epoch) THEN row.epoch ELSE Canon)

CommitLands(d, f) ==
  LET s == flow[d][f]
  IN  /\ s.pc = "posting" /\ Active(d)
      /\ Land([kind |-> "commit", epoch |-> s.epoch, sound |-> TRUE, who |-> d])
      /\ flow' = [flow EXCEPT ![d][f].pc = "landed"]
      /\ UNCHANGED <<made, revoked, mem, disk, known, faults, estranged>>

OnSpine(c) == c = 0 \/ \E k \in 1 .. Len(spine) : spine[k] = c

(* The request fails, or its answer does: publishAndApply throws, and the  *)
(* commit stays pending.                                                   *)
CommitFails(d, f) ==
  LET s == flow[d][f]
  IN  /\ s.pc \in {"posting", "landed"} /\ faults < MaxFaults
      /\ faults' = faults + 1
      /\ flow' = [flow EXCEPT ![d][f] = Idle]
      /\ estranged' = IF s.pc = "landed" /\ OnSpine(s.epoch) THEN estranged \cup {d} ELSE estranged
      /\ UNCHANGED <<made, log, revoked, mem, disk, known, spine>>

(* The answer arrives: applyPending merges whatever is pending by now,     *)
(* nothing if a poll has merged another's commit meanwhile.  The tree that *)
(* goes with the Welcome is the one of the epoch reached.                  *)
CommitAnswered(d, f) ==
  LET s   == flow[d][f]
      new == IF mem[d].pend = 0 THEN mem[d].tip ELSE mem[d].pend
  IN  /\ s.pc = "landed"
      /\ mem' = [mem EXCEPT ![d] = IF @.pend = 0 THEN @
                                   ELSE [@ EXCEPT !.tip = new, !.pend = 0, !.props = {}]]
      /\ flow' = [flow EXCEPT ![d][f] =
                    IF s.guest = {} THEN Idle ELSE [s EXCEPT !.pc = "welcome", !.sound = new = s.epoch]]
      /\ estranged' = IF OnSpine(new) /\ (OnSpine(s.epoch) => new = s.epoch)
                      THEN estranged ELSE estranged \cup {d}
      /\ UNCHANGED <<made, log, revoked, disk, known, faults, spine>>

WelcomeLands(d, f) ==
  LET s == flow[d][f]
  IN  /\ s.pc = "welcome" /\ Active(d)
      /\ \E n \in s.guest :
           Land([kind |-> "welcome", epoch |-> s.epoch, sound |-> s.sound, who |-> n])
      /\ flow' = [flow EXCEPT ![d][f] = Idle]
      /\ UNCHANGED <<made, revoked, mem, disk, known, faults, estranged>>

(* The Welcome was tried once, and nothing tries it again.                 *)
WelcomeFails(d, f) ==
  /\ flow[d][f].pc = "welcome" /\ faults < MaxFaults
  /\ faults' = faults + 1
  /\ flow' = [flow EXCEPT ![d][f] = Idle]
  /\ UNCHANGED <<made, log, revoked, mem, disk, known, spine, estranged>>

-----------------------------------------------------------------------------
(* Leaving: requestLeave proposes the removal of this one device; its own  *)
(* store keeps the proposal, whether or not the row is posted.  An admin   *)
(* hands over first (SetRoles).                                            *)
Leave(d) ==
  /\ Active(d) /\ mem[d].joined /\ d \in MyTree(d).members
  /\ mem[d].pend = 0 /\ flow[d].user.pc = "idle" /\ d \notin mem[d].props
  /\ MyTree(d).admin # Owner[d]
  /\ mem' = [mem EXCEPT ![d].props = @ \cup {d}]
  /\ \/ /\ Land([kind |-> "leave", epoch |-> mem[d].tip, sound |-> TRUE, who |-> d])
        /\ UNCHANGED faults
     \/ /\ faults < MaxFaults /\ faults' = faults + 1
        /\ UNCHANGED <<log, spine>>
  /\ UNCHANGED <<made, revoked, disk, flow, known, estranged>>

-----------------------------------------------------------------------------
(* Reading the log.                                                        *)

(* process: a commit of somebody else, of our epoch, that the policy lets  *)
(* through with the revocations we know.                                   *)
Follows(d, row) ==
  /\ row.kind = "commit" /\ d \in MyTree(d).members
  /\ made[row.epoch].by # d /\ made[row.epoch].base = mem[d].tip
  /\ Authorize(MyTree(d), made[row.epoch], known[d])

(* A proposal of our epoch is kept until the commit that picks it up.      *)
Keeps(d, row) ==
  /\ row.kind = "leave" /\ row.who # d /\ row.epoch = mem[d].tip
  /\ {d, row.who} \subseteq MyTree(d).members

(* Mutant: merging another's commit leaves our own pending.                *)
AfterRowStillPending(d, row) ==
  LET v == [mem[d] EXCEPT !.cursor = @ + 1]
  IN  IF Follows(d, row) THEN [v EXCEPT !.tip = row.epoch, !.props = {}]
      ELSE IF Keeps(d, row) THEN [v EXCEPT !.props = @ \cup {row.who}] ELSE v

(* Mutant: the epoch of a commit is not compared with ours.                *)
AfterRowAnyEpoch(d, row) ==
  LET v == [mem[d] EXCEPT !.cursor = @ + 1]
  IN  IF row.kind = "commit" /\ made[row.epoch].by # d
      THEN [v EXCEPT !.tip = row.epoch, !.pend = 0, !.props = {}]
      ELSE IF Keeps(d, row) THEN [v EXCEPT !.props = @ \cup {row.who}] ELSE v

(* absorb, one row: whatever becomes of it, the cursor passes it.          *)
AfterRow(d, row) ==
  LET v == [mem[d] EXCEPT !.cursor = @ + 1]
  IN  IF Follows(d, row) THEN [v EXCEPT !.tip = row.epoch, !.pend = 0, !.props = {}]
      ELSE IF Keeps(d, row) THEN [v EXCEPT !.props = @ \cup {row.who}] ELSE v

(* The row moved the spine and we did not move with it, or we follow a row *)
(* that did not: its rival is ours, read back before it was answered for.  *)
Strays(d, row) ==
  /\ row.kind = "commit" /\ made[row.epoch].by # d /\ d \in MyTree(d).members
  /\ Follows(d, row) # (spine[mem[d].cursor + 1] = row.epoch)

Absorb(d) ==
  /\ Active(d) /\ mem[d].joined /\ flow[d].poll.pc = "idle"
  /\ mem[d].cursor < Len(log)
  /\ LET row == log[mem[d].cursor + 1]
     IN  /\ mem' = [mem EXCEPT ![d] = AfterRow(d, row)]
         /\ estranged' = IF Strays(d, row) THEN estranged \cup {d} ELSE estranged
  /\ UNCHANGED <<made, log, revoked, disk, flow, known, faults, spine>>

(* discoverNewConversations: the first Welcome for us whose tree is the    *)
(* one it was made with.  The cursor starts at the Welcome, not at the     *)
(* commit it welcomes to; a group we hold already is not looked at.        *)
Opens(d, k) == log[k].kind = "welcome" /\ log[k].who = d /\ log[k].sound

Join(d) ==
  /\ Active(d) /\ ~mem[d].joined
  /\ \E k \in 1 .. Len(log) :
       /\ Opens(d, k) /\ \A j \in 1 .. (k - 1) : ~Opens(d, j)
       /\ mem' = [mem EXCEPT ![d] = [NotJoined EXCEPT !.joined = TRUE, !.tip = log[k].epoch,
                                                      !.cursor = k]]
       /\ estranged' = IF spine[k] = log[k].epoch THEN estranged ELSE estranged \cup {d}
  /\ known' = [known EXCEPT ![d] = {}]
  /\ UNCHANGED <<made, log, revoked, disk, flow, faults, spine>>

(* resolvePeers, at the end of a poll: the accounts of the peers, our own  *)
(* excluded, with their verified revocations.                              *)
Resolve(d) ==
  LET peers == {Owner[r] : r \in MyTree(d).members} \ {Owner[d]}
      keys  == {r \in revoked : Owner[r] \in peers}
  IN  /\ Active(d) /\ mem[d].joined /\ flow[d].poll.pc = "idle" /\ known[d] # keys
      /\ known' = [known EXCEPT ![d] = keys]
      /\ UNCHANGED <<made, log, revoked, mem, disk, flow, faults, spine, estranged>>

(* persist, from whichever flow; followed only where a crash may still     *)
(* come back to what it wrote.                                             *)
Save(d) ==
  /\ d \in Fragile /\ faults < MaxFaults /\ disk[d] # mem[d]
  /\ disk' = [disk EXCEPT ![d] = mem[d]]
  /\ UNCHANGED <<made, log, revoked, mem, flow, known, faults, spine, estranged>>

(* The epochs of the spine up to the row a view has read, and up to the    *)
(* epoch it is in; and those it has yet to enter.                          *)
Seen(v)   == {SpineAt(k) : k \in 0 .. v.cursor}
Walked(v) == {SpineAt(k) : k \in {j \in 0 .. Len(spine) : \E i \in j .. Len(spine) : SpineAt(i) = v.tip}}
Ahead(v)  == {spine[k] : k \in 1 .. Len(spine)} \ (Walked(v) \cup {0})

(* Session.open: the views come back with no account resolved.  A commit   *)
(* of ours that the store does not hold can never be read back.            *)
Crash(d) ==
  /\ d \in Fragile /\ faults < MaxFaults
  /\ faults' = faults + 1
  /\ mem' = [mem EXCEPT ![d] = disk[d]]
  /\ flow' = [flow EXCEPT ![d] = Rest]
  /\ known' = [known EXCEPT ![d] = {}]
  /\ estranged' = IF \E c \in Ahead(disk[d]) : made[c].by = d THEN estranged \cup {d} ELSE estranged
  /\ UNCHANGED <<made, log, revoked, disk, spine>>

(* revokeOwnDevice: asked by another device of the account, which the      *)
(* route does not require to be unrevoked itself.                          *)
Revoke(d, r) ==
  /\ d # r /\ Owner[d] = Owner[r] /\ r \notin revoked
  /\ Cardinality(revoked) < MaxRevoked
  /\ revoked' = revoked \cup {r}
  /\ UNCHANGED <<made, log, mem, disk, flow, known, faults, spine, estranged>>

-----------------------------------------------------------------------------
Housekeeping(d) == AddOwnDevice(d) \/ Evict(d)

Answer(d, f) == CommitLands(d, f) \/ CommitAnswered(d, f) \/ WelcomeLands(d, f)

Next ==
  \E d \in Device :
    \/ Housekeeping(d)
    \/ AddAccount(d) \/ RemoveAccount(d) \/ SetRoles(d) \/ SetLifetime(d) \/ Leave(d)
    \/ \E f \in Flows : Answer(d, f) \/ CommitFails(d, f) \/ WelcomeFails(d, f)
    \/ Absorb(d) \/ Join(d) \/ Resolve(d) \/ Save(d) \/ Crash(d)
    \/ \E r \in Device : Revoke(d, r)

Spec == Init /\ [][Next]_vars

-----------------------------------------------------------------------------
(* Properties.                                                             *)

(* Every variable keeps its shape, and what a device may yet merge is a    *)
(* commit it made from the very epoch it is in: at most one, dropped as    *)
(* soon as the epoch moves (OpenMLS, publishAndApply).                     *)
PendingFits == \A d \in Device : \A v \in {mem[d], disk[d]} :
  /\ v.tip <= Len(made) /\ v.pend <= Len(made) /\ v.cursor <= Len(log)
  /\ v.pend # 0 => made[v.pend].base = v.tip /\ made[v.pend].by = d

TypeOK ==
  /\ made \in Seq(Commit) /\ Len(made) <= MaxMade
  /\ \A c \in 1 .. Len(made) : made[c].base < c
  /\ log \in Seq(Row) /\ Len(log) <= MaxRows
  /\ \A k \in 1 .. Len(log) : log[k].epoch <= Len(made)
  /\ revoked \subseteq Device
  /\ mem \in [Device -> View] /\ disk \in [Device -> View]
  /\ flow \in [Device -> [Flows -> Step]]
  /\ \A d \in Device, f \in Flows : flow[d][f].epoch <= Len(made)
  /\ known \in [Device -> SUBSET Device]
  /\ faults \in 0 .. MaxFaults
  /\ spine \in Seq(Epochs) /\ Len(spine) = Len(log)
  /\ \A k \in 1 .. Len(spine) : spine[k] <= Len(made)
  /\ estranged \subseteq Device
  /\ PendingFits

(* The ways a member loses the group are the ones "estranged" names, and   *)
(* no other: a commit of its own that lost a race, was refused or was      *)
(* merged unposted; an answer lost, or a crash, after its own commit       *)
(* landed; a commit read while its own was landing, or refused for want of *)
(* a revocation; a Welcome overtaken by a commit.  Any other member is in  *)
(* the epoch its cursor has reached, but for commits of its own.           *)
OnCourse ==
  \A d \in Device \ estranged :
    mem[d].joined /\ d \in MyTree(d).members =>
      /\ OnSpine(mem[d].tip)
      /\ \A c \in (Seen(mem[d]) \ Walked(mem[d])) \cup (Walked(mem[d]) \ Seen(mem[d])) :
           made[c].by = d

(* Members that read everything, with nothing under way, are in one epoch. *)
Settled(d) ==
  /\ d \notin estranged /\ mem[d].joined /\ d \in MyTree(d).members
  /\ mem[d].cursor = Len(log) /\ flow[d] = Rest

Agreement == \A d, e \in Device : Settled(d) /\ Settled(e) => mem[d].tip = mem[e].tip

(* An administered group loses its admin's last device by no commit the    *)
(* members follow, except the one that names as admin an account whose     *)
(* departure it picks up.                                                  *)
Seated(t) == t.admin = Flat \/ \E r \in t.members : Owner[r] = t.admin

AdminKept ==
  \A k \in 1 .. Len(spine) : LET c == spine[k] IN
    c = 0 \/ Seated(TreeOf(c)) \/ TreeOf(c).admin # TreeOf(made[c].base).admin

=============================================================================
