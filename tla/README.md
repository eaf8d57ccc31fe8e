# Whispee in TLA+

Whispee is an end-to-end encrypted messenger: a Rust server that stores and orders ciphertext
(`src/crates/server`), Rust cryptography compiled to wasm (`src/crates/crypto-core`,
`src/crates/crypto-wasm`), and a TypeScript client that holds all the conversation state
(`src/apps/web/src/lib`). This directory models the parts of it whose correctness depends on the
order of things: transactions, awaits, polls, crashes and lost answers.

## 1. Inventory

| Component | State | Operations | What is hard about it | What makes it correct | Here |
|---|---|---|---|---|---|
| Envelope mailbox (server: `routes.rs`, `lib.rs`) | `groups.next_seq`, `envelopes`, `group_members` | `post_envelope`, `fetch_envelopes`, `add_members`, `remove_members`, `purge_once` | concurrent transactions, a page read by two statements, a purge at any time | numbering order is commit order; the tail survives; a gap is visible | `OrderedLog`, `Mailbox` |
| Conversation view and polling (`session.ts`) | cursor, `mine`, `stale`, MLS ratchet, the stored copy | `pollOnce`, `discoverNewConversations`, `sendContent`, `persist`, `open` | awaits between read and write; crash between two steps; lost answers | no envelope skipped, ratchet and cursor together, everything delivered | `Mailbox`, `Gateway`, `Store` |
| Group epochs (`conversation.rs`, `session.ts`) | MLS epoch, pending commit, received proposals | `publishAndApply`, `addMissingDevices`, `reconcileMembers`, `addAccount`, `removeAccount`, `setRoles`, `requestLeave`, `absorb` | commits racing for one epoch, two flows on one device, a commit whose answer is lost | the members stay in one epoch, or the loss has a name | `Commits` |
| Group policy (`roles.rs`) | the roster inside the group | `authorize` | every member decides alone, on its own knowledge of revocations | honest members decide alike; the group keeps an admin | `Commits` |
| Accounts, devices, revocation (`routes.rs`, `attest`) | `accounts`, `devices`, `key_packages` | `create_account`, `register_device`, `rotate_account`, `revoke_device`, `publish_key_packages`, `claim_key_package` | reads before the transaction; rotation against rotation, revocation against claim | a chain every client can verify; a revoked device is handed out to no claim that comes after | `Accounts` |
| Transparency log (`log.rs`, `transparency`) | `log_entries`, a tree cached per instance | `append`, `backfill`, `snapshot`, proofs | `BIGSERIAL` order against commit order; a cache beside the table | every tree served extends the earlier ones; a proof shows what it is about and nothing else | `KeyLog`, `Accounts`, `Merkle`, `TwoLogs`, `Witness` |
| Account resolution (`transparency.ts`, `session-log.ts`) | the head last accepted, the alerts | `verifyAccount`, `extendsView`, `verifyExtends` | two requests for one fact; a log that grows between them | an honest server raises no alarm, what is accepted is current | `Witness` |
| Storage accounting (`storage.rs`) | one counter per account | charge, credit, upload, vault writes, purge | several statements credit and delete; a cascade credits nothing | the counter equals the bytes stored; the quota is never passed | `Storage` |
| Vault and recovery escrows | sealed entries, escrows | store, drop, set and claim recovery | charged to the quota | see Storage accounting | vault rows in `Storage` |
| Session lock, forget, persistence (`session-persist.ts`) | cipher, stored record | `persist`, `enableLock`, `disableLock`, `relock`, `forget` | writes in flight across a change of cipher or a `forget` | what was consumed is kept; no write outlives `forget` | `Store` |
| Sending (`session.ts`) | outbox, ratchet generation, thread | `send`, `retry`, `discard`, `flushOutbox`, `sendContent` | three writes per message, two flows, lost answers, a dying page | no text is lost, the ratchet never repeats | `Sending` |
| Gateway, hub, stream (`gateway.rs`, `hub.rs`, `gateway.ts`) | session, subscriptions, queues, scope | hello, identify, catch-up, subscribe, revalidate, gap frames | catch-up against posts; bounded queues; rights that end | a subscriber is told of every row or of a gap; the poll alone is enough | `Gateway` |
| Handles, push, presence, authentication and throttle, settings, calls, pairing, desktop, interface and formats, ratchet laboratory | | | | | not modelled: section 12 |

How they interact. A client posts envelopes to a group's mailbox and polls them back, thirty seconds
apart or when the gateway announces one. MLS commits, proposals, Welcomes and application messages
all travel as envelopes, so the order of the mailbox is the order of the group's epochs. The client
alone decides which commits to follow (policy) with what the server serves of the accounts'
revocations; it believes what the server serves of accounts only with a proof from the log. The
session persists the MLS state, the cursors, the threads and the outbox as one record. Every write
that keeps bytes on the server passes by the account's counter.

Which module stands on which: `Accounts` and `Witness` both extend `KeyLog`, the abstract log: the
first implements it, the second is its client and also extends `Merkle`, whose operators its handlers
call. `TwoLogs` puts the same operators beside two logs that grow. The other modules
each take one protocol with both its ends (`Mailbox`, `Gateway`: server and client; `Commits`: the
devices around an ordered log; `Store`, `Sending`: the session and its disk). `OrderedLog` says what
that log promises, and `Mailbox` implements it.

## 2. The runs

| Run | Question | Bounds | States |
|---|---|---|---|
| `mailbox` | is the mailbox an ordered log, does the cursor ever pass a row it has not read, and does polling reach everything | a founder and a device that is added, 3 rows, pages of 2, a tail of 1, one crash, one change of membership | 0.75 M |
| `commits` | do members that did nothing wrong stay in one epoch | 3 devices of 2 accounts, 2 commits, 3 rows, 1 revocation, 1 fault | 1.05 M |
| `accounts` | do log, keys, devices and packages agree whatever overlaps | 2 requests, 2 instances, 2 accounts (1 older than the log), 2 devices, 3 rows and keys, 1 package, 1 device revoked (by any number of requests) | 2.2 M |
| `merkle` | do proofs verify for what they are about and nothing else | all pairs of logs to 6 leaves over 2 entries | 16 k |
| `witness` | is an honest server ever accused, is a stale key ever accepted | 2 checks, 1 instance, 3 rows, 2 keys | 1.6 M |
| `storage` | do the counters say what the tables hold | 2 accounts, 1 group, 2 requests, 1 purge, a ceiling of 2, 2 uploads | 0.97 M |
| `store` | does the record on disk hold together | 1 envelope, 1 change of key, two flows, a dropped session beside the one on screen | 0.99 M |
| `sending` | is a text ever lost, is the disk ever behind | 2 flows, 2 texts, 1 fault, 1 crash | 0.68 M |
| `gateway` | does a row slip between catch-up and hub | 1 group, a queue of 1, 2 rows, a single opening of the stream, 2 changes of right, 1 purge | 1.0 M |
| `false_fork`, `late_write`, `frozen_poll` | violations, section 10 | | |

Bounds are guards on counters, named "bound" where they are declared; what is proved holds for all
their values.

## 3. Mailbox

One group. The server's tables, one transaction per posting device, and per device the view in
memory (`mem`), the one in the store (`disk`), and the copies on their way there.

| Model | Code |
|---|---|
| `PostBegin`, `PostDraw`, `PostCommit`, `PostAbort` | the transaction of `post_envelope`: membership, `UPDATE groups ... RETURNING next_seq` which takes the row lock, insert and commit, or an error path |
| `PostAnswered`, `PostLost`, `PostSaved` | the client's side: the answer adds the sequence to `mine`; a lost answer does not; `persist` lands |
| `PollOldest`, `PollRows` | the two statements of `fetch_envelopes`, in two steps |
| `PollSevered`, `PollAbsorb`, `PollSaved` | the gap check, the absorb loop of one page, the write |
| `Discover` | `discoverNewConversations` |
| `AddMember`, `RemoveMember` | the membership routes; an added device is owed a Welcome |
| `Purge`, `Tick` | the envelopes statement of `purge_once`, and the database's clock |
| `Crash` | `Session.open` from the stored record |

History variables: `sent` (sequences a device posted) and `excused` (sequences purged in one of the
two ways a client cannot see: between the two statements of a page, or from behind an older row
that outlives them). A page is a set of sequences; content is left out. Three rows are two more than
the tail and one more than a page, which is what the boundary cases need; a page of a device's own
rows, a lost answer and a purge during a poll all happen.

Fairness: only the steps of the client's poll and discovery (`PollStep`), because the timer of
`startStream` repeats it for ever. Posting, purging, crashes and the clock are not fair; a poll is
taken to be answered in the end. `Delivered` is checked under it.

Proved (`MailboxProofs`, for any devices, page size, tail, retention and bounds): `TypeOK`,
`NoSkip`, `RatchetWithCursor`, `TailKept`, `GapIsReported`, and the refinement `ReadsInOrder` of
`OrderedLog`. `NoSkip` is not inductive: a page is
fetched in one step and absorbed in another. `IInv` adds that no row is numbered past the counter,
that every copy of a view is within the counter and passes over no stored row (`ViewsOK`), that
`mine` holds only what was posted, and that a page in hand begins after the cursor and omits no
stored row before its last (`PageOK`). The row lock is part of `TypeOK` (`LockHeld`): a transaction
that has drawn a sequence holds the lock, so no other one can draw; when it commits, its row is
beyond every page read. `GapIsReported` needs more: `GInv` says of every copy of a view, and of the
page and the oldest row in hand, which numbers may be missing (`Whole`, `OldestOK`, `RowsOK`), and
that a hole behind an older row has been excused (`HolesOK`).

`OrderedLog` is the promise: rows are numbered one after the other; a device comes in at a row that
is there, reads in order, and passes over a row only if it posted it or the purge that took it hid it
from that device; it is interrupted only where the next row is gone; and a restart brings back a
place it was at with what it had read there. The mapping takes the view in memory for the place, the
store and the writes under way for the copies a restart may bring back, and the numbers without a
row for what is gone. Steps that only move a transaction or a page along are stutters.
The proof needs two more invariants: a poll under way is of a conversation joined and not interrupted,
and the oldest row it was told of still bounds the rows there are (`PollingOK`); a number is one row's
(`OneRow`), so that a purge hides only what it takes. What a copy has read never passes its cursor is
a consequence of the refinement; `RatchetWithCursor` states it by itself, and is proved by itself.

## 4. Commits

One MLS group. `made` is the tree of commits (each names its base, so an index is an epoch), `log`
the rows in the server's order, `mem`/`disk` each device's epoch, pending commit, received leave
proposals and cursor, `flow` the two things a device may be in the middle of: `user` (what the
interface asked) and `poll` (housekeeping). `known` is `view.accounts`' revocations.

| Model | Code |
|---|---|
| `AddOwnDevice`, `Evict` | `propagateOwnDevices` + `addMissingDevices`; `reconcileMembers` |
| `AddAccount`, `RemoveAccount`, `SetRoles`, `SetLifetime` | the user's operations, offered as the interface offers them |
| `Prepare` | `client.invite`, `removeMember`, `setRoles`, `setLifetime`: OpenMLS picks up the proposals received and keeps one commit pending |
| `CommitLands`, `CommitAnswered`, `CommitFails` | `publishAndApply` and the ways it throws |
| `WelcomeLands`, `WelcomeFails` | the second post of an addition |
| `Leave` | `requestLeave` (an admin hands over first, `SetRoles`) |
| `Absorb` | one row of the poll: `process` and `authorize_commit` |
| `Join` | `discoverNewConversations` opening a Welcome; its cursor starts at the Welcome |
| `Resolve`, `Revoke` | `resolvePeers`; `revokeOwnDevice` |
| `Save`, `Crash` | `persist`; `Session.open` |
| `Authorize` | `roles::authorize` over the two trees |

OpenMLS is external and modelled by the contract its callers rely on: one pending commit, dropped
by merging another's; a message of another epoch, or one's own, is an error that changes nothing.

History variables: `spine`, the epoch a member that read everything up to each row is in; and
`estranged`, the devices that left it. A device is estranged by one of these, and the invariant
`OnCourse` says by nothing else: its own commit lost a race, was refused by the policy, or was
merged unposted; the answer was lost, or the process died, after its own commit landed; it read a
commit while its own was landing; it refused an eviction because it did not know the revocation
(`view.accounts` is empty after a restart and never includes the device's own account); or its
Welcome was overtaken by a commit. Those causes are defects or limits of the code, listed as hazards.

Two commits are enough for a race, for a departure picked up by another's commit, and for a commit
that is overtaken. `Fragile` names the device whose crash is followed, one of the two kinds.

Proved, for any devices, accounts, founders, admin and bounds. `CommitsProofs`: `TypeOK`, which
includes that a pending commit is one's own and made from the epoch one is in (so `applyPending`
never merges into the wrong epoch), and `AdminKept`: an epoch enters the spine in one step, the
landing of its row, when `Authorize` was satisfied against the tree of its base; trees never change
afterwards because `made` is append-only and `base < c`. Then `OnCourse` and `Agreement`, from
`Course`: the spine only walks from an epoch to one made from it and never returns
(`SpineOK`); what a flow holds is of the device's own making (`FlowOK`), as is what is pending
(`PendOK`); a member that is not estranged is level with its cursor, or ahead of it by commits of
its own that landed and are not yet answered (`LevelOK`, `AheadOK`).

## 5. KeyLog and Accounts

`KeyLog` is the promise: a key is published and comes into force in one step (`Publish`), accounts
older than the log enter it with a key they have (`CatchUp`), and nothing is put before what has been
read. `Accounts` is the code, statement by statement: a request or a start-up back-fill is a record
in `tx`, with what it read, what it wrote and not committed, and which row or advisory lock it holds.

| Model | Code |
|---|---|
| `Create`, `RotateBegin`, `RotateUpdate`, `AppendRow`, `Commit` | `create_account`; `rotate_account` reads and verifies outside the transaction, then updates; `log::append` takes `APPEND_LOCK` and draws from the sequence, which a roll-back does not give back |
| `BackfillList`, `BackfillAppend`, `BackfillCommit` | `log::backfill` of each instance before it serves |
| `RegisterBegin/Write`, `RevokeBegin/Write/Purge` | `register_device` (attestation verified against the key read first), `revoke_device` (certificate, then its stock of packages, two statements) |
| `PublishBegin/Write`, `ClaimBegin/Take` | `publish_key_packages`; `claim_key_package`, which checks the certificate and takes the package in two statements |
| `Abort` | any error path, any statement |

`Signed`, which authenticates every request, looks at a device's key and not at its revocation: a
revoked device still rotates, revokes and publishes packages, and only `claim_key_package` looks at
the certificate. `revoke_device` writes the certificate and empties the stock in two statements, and
may stop in between. `RevokedStayOut` says what that is worth to the members who claim packages: once
the certificate is written only a claim already past its check is given anything of the device, and
once the revocation is answered, only what the device published after its certificate. The model
keeps whether there is a certificate, not the key it verifies under.

History: `raced`, the accounts two of whose rotations overlapped; `late`, those a back-fill entered
after somebody else's entry; `overlaps`, the claims past their check as their device's certificate was
written; `stray`, the packages a revoked device published; `answered`, the devices whose revocation
went through to its end. One package is enough for a purge that misses it, for one that comes before
it and for one that comes after. `ImplementsLog` is the refinement `LogSpec`, over the same two
variables `key` and `table`, which change together in `Commit` and `BackfillCommit`.

Proved (`AccountsProofs`, any number of requests, instances and devices), in layers: `Inv1`
(types, one holder per lock), `Inv2` (a row drawn and uncommitted is after every row visible), which
gives the refinement `LogImplemented`, `Inv3` (`Known`, `Linked`: a rotation under way knows the last
key of its account) which gives `KeyInForce` and `ChainLinks`, and `Inv4`: `Spent`,
which gives `HandedOnce`, and `Shunned`, which gives `RevokedStayOut` (every claim on a revoked device
is one that overlaps its certificate, and the stock of a device whose revocation was answered is
`stray`), an action property: only `ClaimTake` hands anything out.

## 6. Merkle, TwoLogs and Witness

`Merkle` writes the tree's algorithms as the code does: the root, the inclusion and consistency
proofs made by going down the tree, and the two verifiers that climb it by halving indices, over
hashes taken as terms. Recursions are recursive functions, so that they can be reasoned about.
`TwoLogs` grows two logs independently, the one the client is shown and one that may have left it;
`merkle` checks every pair up to six leaves, the first sizes at which every branch of the verifiers
is taken: an inclusion proof verifies exactly for the entry at its index, a consistency proof
exactly for a prefix.

`Witness` puts them to work. `Grow` and `Enter` are `KeyLog`'s steps; `Probe`, `Compare`, `Rebuild`
and `Store` are `log::snapshot` and its cache (fingerprint, tree, write-back), `Latest` the route's
query, `List` the account served, `Ask`, `AskGossip`, `Proved`, `HeadAnswered`, `Linked` the client's
checks, `Lose` a request that fails at any of them. What holds: every tree anybody has is a prefix
of the table (`TreesArePrefixes`), an alarm needs the log to have grown during the check, what is
accepted is current in the head accepted. What does not: `NoFalseFork` (section 10).

Proved (`TransparencyProofs`, for trees of any size over any leaves, and for any accounts,
instances, checks and rows), in three parts.

- *Induction.* The library's induction theorems take an operator, which the provers here cannot
  instantiate. `Least` (a set of naturals that is not empty has a least element) is a statement
  about a set and can be cited; from it follow `Induct` and its form over the sizes of spans. Each
  recursive function is shown to exist by it once (a recursive definition is a `CHOOSE`), and from
  then on only its equation is used.
- *The tree.* `SplitPointIs`: the loop of `split_point` ends at the greatest power of two below the
  size. From it, the spans a root is made of are the nodes of a binary tree, complete except at its
  right edge, and the verifier's halved index at a level is the node's number there. `InclusionComplete`
  and `ConsistencyComplete` say that the verifier accepts what the server makes, at every index and
  size. `InclusionSound` and `ConsistencySound` say that it accepts nothing else, *whoever* wrote the
  proof: the climb consumes as many hashes as the path is long, and a node's hash determines its
  children, so what it came from is read off the root. Hence `InclusionIsExact`,
  `ConsistencyIsExact`, and `NoForkConvinces`: if any proof at all is accepted between two trees, the
  first is the beginning of the second.
- *The witness.* `WitnessInv` is inductive (TLC also finds it true of every state of the `witness`
  bounds): the table is a log (`LogOK`); every cached tree and every tree in a request, a view or a
  gossiped head is a prefix of it; and as long as the log
  has not moved since a check began, all that the check read is up to date (`Fits`), so that the
  head, the row and the proof it holds are of one tree and the completeness of the proofs makes
  every verdict come out right. `Ordered` and the lemmas on ranks relate a row's sequence, its place in the
  tree and the index the route answers. The four invariants follow. `WatchesKeyLog` is the
  refinement of `KeyLog`, so what `Accounts` implements is the log the client is shown.

`WitnessAssumption` asks that `None` be no account, instance or set of rows: it is the absent value of
the code's options. `Tables` names those sets of rows in a form TLC can enumerate.

## 7. Storage

Accounts archive (`Archive`, `ArchiveInsert`, `ArchiveCharge`: insert, then charge what was new),
upload (`Upload`, `UploadCharge`, `UploadInsert`: charge first) and drop (`Drop`, `DropCredit`); the
purge deletes expired attachments and credits their owners account by account (`PurgeExpired`,
`PurgeCredit`), then those of groups it has doomed (`PurgeDoomed`, `PurgeCommit`), then the groups
by a snapshot of its own, whose cascade credits nobody (`PurgeGroups`, `PurgeCascade`). Each
transaction commits or aborts as a whole; row locks are the guards `Free` and `CounterFree`. Payloads
weigh one; two of them are the ceiling, so both reaching and passing it happen.

History: `lost`, the bytes that left with a group by the cascade and stay charged, which is why
`Reconciled` reads `bytes = rows + lost`.

Proved (`StorageProofs`; assumption: `Seqs` is finite, which cardinalities need): all four
properties, from `Inv`: what an open transaction inserted or deleted is disjoint from the others'
(`Apart`) and from what is numbered later (`Numbered`), its delta is what it has done (`TxOK`), an
attachment being inserted has its group's key share locked (`Housed`), and a counter is within the
ceiling with the delta of its holder (`Ceiled`).

## 8. Store and Sending

`Store` follows the record through `persist`: `Persist` tests the flag and reads the MLS state,
`SealState` and `SealHistory` read the key and the thread after an await each, `Land` writes,
`Fail` is a rejected promise. Around it: the poll (`Ask`, `Answered`), the user (`Act`), the lock
(`EnableLock`, `DisableLock`, `Relock`, and `Collect` for the end of a dropped session that still had
requests out), `Open`, `Create` (one step: `attach` hands the session out once its first write has landed), the two
ways to forget (`Forget`, `ForgetLocked`, `Clear`) and `Reload`. History: `clean` (erased with nothing in flight), `ahead` (a record landed whose thread had
gone on without its cursor: `composeStored` reads them two awaits apart).

Fairness: the timer asks and a cipher ends (weak, on the screen's poll); the server and the store
answer again and again (strong, because a failure disables the step). `Heals`: a record half under
one key and half under another does not outlive the next poll.

Proved (`StoreProofs`, for any number of envelopes and locks): the four invariants, from
`TypeOK /\ Covered /\ Exact /\ Erased`: every record, being sealed or stored, covers the ratchet it
was begun with; a thread shows each envelope once and no more than its ratchet has opened; and after a
clean erasure the only session left is condemned.

`Sending` is the outbox. `Send` queues and saves, `Post` marks the entry, moves the ratchet and sends,
`Seal` composes the record of a write begun earlier, `Arrive`/`Answered`/`Unanswered` are the request and its answer,
`QueuedLands`, `PostedLands`, `ClosedLands`, `DroppedLands` what follows each write, `WriteFails` a
rejected one, `Retry`, `Discard` and `FlushOutbox` the user and the reconnection, `Crash` the page.
Writes to the store may land in another order than they were begun (`WriteOver`, `behind`). `Kept`
and `SavedIsSafe` say where a text is, `QuietIsSaved` that at rest the disk has the ratchet, `Drains`
that the queue empties. Fairness: requests are answered and writes land (`Step` of each flow), the
network comes back again and again (`FlushOutbox`); failures are finite because `MaxFaults` is.
Two flows, because `send` and a flush are what overlaps.

Proved (`SendingProofs`, for any number of flows, texts, faults and deaths): the four invariants, from
`Based /\ Safe /\ Current`. What the disk holds follows from what it may come to hold: a write that is
not `old` (none begun or sealed after it has ended) has every text saved so far (`Safe`), and it has
the generation, the queue and the thread of memory unless another flow has yet to write them after it
(`Current`); the rest (`Based`) places each write under its flow and counts the texts. Every action but
`Seal` and `Crash` is one of two kinds, a flow that goes on without a write (`Starts`) or whose write
is over (`Ends`), and the invariant is shown for the kinds. `Drains` is liveness and stays with TLC.

## 9. Gateway

One device, its socket, and both halves of the session.

| Model | Code |
|---|---|
| `Open`, `Refuse`, `Authenticate`, `Welcomed` | the connection, the identify frame and its refusals, `ready` |
| `ResumeOldest`, `ResumeRows`, `Resumed` | the catch-up of each cited group: its two queries, and the end |
| `Announce`, `SubscribeAsked`, `SubscribeTaken` | the hub's queue to the socket; a subscription on the way and the check of membership |
| `RevalidateGroups`, `RevalidateRevoked`, `RevalidateAlive`, `Cut`, `Silence` | the heartbeat: rights re-read, a device cut off, a silent connection dropped |
| `Post`, `Publish`, `Invite`, `Evict`, `Revoke`, `Purge` | the rest of the server: a row is committed, then published, in two steps |
| `Begin`, `Timer`, `PollDiscover` to `PollFails` | a conversation begun here, the interval, and one walk of `pollOnce` with its refusals |
| `OnHello`, `OnReady`, `OnEnvelope`, `OnGap` | `gateway.ts` and the session's handlers; only an announcement shortens the wait for the poll |

Fairness: the server's task and its tick, the client's timer and the steps of its poll; nothing of
the network, the hub or the other members. A queue of one notice overflows at the second, which is
the hub's lagged receiver; two rows are one before and one after a catch-up.

History: `told` (numbers announced), `since` (what was purged when a group's catch-up looked), `lost`
(pushed out of a full queue, or between two tasks).

Proved (`GatewayProofs`, any groups, capacity and bounds): `TypeOK` and `NoneSlipped`. The argument
is an order: a group is listened to before it is caught up with, and stays so for as long as the
catch-up is of use (`Tuned`), so a row is either committed before the second query, which finds it
or finds it purged, or published into the queue; what the first query saw purged is announced as a
gap before the second runs (`HalfCaught`). `CutOff` and `Read` are liveness and stay with TLC.

Left out: typing signals, the relay between instances, the numeric caps of a frame
(`MAX_CURSORS`, `MAX_RESUME_PER_GROUP`, `MAX_SUBSCRIPTIONS`), the server half that outlives a
reconnection, and `dropEmptyConversations`, which removes a view nobody is listening to.

## 10. Where code and words disagree

Shown by a run:

- `false_fork`: `verifyExtends` takes the head from one request and the proof from another; an
  entry appended in between makes the honest server look forked (`transparency.ts:173`, against
  `log.rs:94`).
- `late_write`: the `persist` of a poll or of a user's action, past its check when the flag is
  raised, lands after `forget` cleared the store (`session.ts:1349`, against the comment at 1345).
- `frozen_poll`: a refused fetch of one group ends the poll of all that follow it
  (`session.ts:3366`, against `App.tsx:483`).

Met while modelling; each is a hazard in `PROJECT.json`, or an exception named in a property:

- a purge between the two statements of a page hides its own gap (`routes.rs:2670`, comments at
  2644 and 2706): `excused` in Mailbox;
- discovery reads one page, so a Welcome beyond it is not found (`session.ts:3659`,
  `routes.rs:47`);
- the answer to one commit applies whichever is pending (`session.ts:2405`, comment at 2390);
- an ordinary member linking a device makes a commit the others refuse (`session.ts:2314`,
  `conversation.rs:420`);
- a hand-over to somebody who is leaving empties the admin's seat (`roles.rs:321`, comment at 316):
  the exception in `AdminKept`;
- a lost request ends the search for missing devices until the session is reopened
  (`session.ts:2325`, comments at 2298 and 2326);
- an entry discarded during a flush is sent all the same (`session.ts:2518`, comment at 2499);
- entries a restart brings back as failed are sent again without being asked (`App.tsx:369`,
  `session-types.ts:118`, `history.ts:203`);
- a claim past its check when the certificate is written can still be given a package, even one the
  revoked device published after the purge (`routes.rs:1554`: the clause "closes the window" for the
  claims that come after): `overlaps` and `stray` in Accounts;
- the cascade of the purge credits nobody (`lib.rs:546`): `lost` in Storage.

## 11. What is proved and what is only checked

Proved by TLAPS for every value of the constants: every invariant and action property a run checks, of Mailbox (with the
refinement to `OrderedLog`), Commits,
Accounts (with the refinement to `KeyLog`), Merkle, Witness (with its own), Storage, Store, Sending
and Gateway. Each proof module states its inductive invariant, has one lemma per action under it,
and ends in the theorems `PROJECT.json` lists. They assume only what the component's `ASSUME` says.
Beyond the runs: that no proof of the log's, of anybody's making, convinces a client of what is not so
(`InclusionSound`, `ConsistencySound`, `NoForkConvinces`); a run can only try the proofs the server makes.

Only model-checked: liveness under fairness (`Delivered`, `Heals`, `Drains`, `CutOff`, `Read`), which
is out of the prover's reach.

The three violations are safety except `ReadAlone`, whose counterexample is a fair behaviour.

## 12. Not modelled

- **Handles**: a rename is one transaction over a table whose uniqueness the database keeps; the
  first of what is left to add. **Calls** next (ring, answer, timeout around an external media
  server), then the client's side of a rotation, receipts and expiry, the escrows.
- **Authentication and throttle**: a nonce inserted once, windows under one mutex. **Pairing**: one
  `INSERT`, one `DELETE .. RETURNING`. **Presence**: two statements on a column. Sequential code, its
  one race listed as a hazard.
- **Settings**: last-writer maps merged by a pure join whose unit tests state its laws.
- **Push, desktop shell, interface, content formats, rendering, generated wasm glue**: hints, I/O
  and presentation, which are most of the lines of the repository. **Ratchet laboratory**: used by
  nothing.
- Inside what is modelled: cryptography and byte formats (OpenMLS and the ciphers by contract). The
  server's membership list is in Mailbox and Gateway and not in Commits; application messages, paging
  and purging are not in Commits.

Checking: `tlc -config X.cfg M` for each run of `PROJECT.json`, `tlapm YProofs.tla` for the proofs.
