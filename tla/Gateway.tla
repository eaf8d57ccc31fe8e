------------------------------- MODULE Gateway -------------------------------
(* The live session of one device: the socket of gateway.rs with the hub    *)
(* of stream.rs behind it, the Gateway class of the client, and the poll    *)
(* the session only ever hastens.  Posts commit and are published in two    *)
(* steps; memberships change, devices are revoked, history is purged,       *)
(* requests fail and connections are cut at any moment.                     *)
(*                                                                          *)
(* The envelopes of a group are its sequence numbers.  Consecutive          *)
(* announcements of one catch-up travel as one frame.  Typing signals, the  *)
(* relay between instances, MAX_CURSORS, MAX_RESUME_PER_GROUP and           *)
(* MAX_SUBSCRIPTIONS are left out.                                          *)
EXTENDS Naturals, Sequences, FiniteSets, SequencesExt

CONSTANTS
  Group,         \* the groups of the server
  First,         \* the groups this device is in from the start
  Capacity,      \* notices a slow listener is left (stream.rs CAPACITY)
  MaxSeq,        \* bound: envelopes of one group
  MaxOpens,      \* bound: connections opened
  MaxMoves,      \* bound: membership changes and failed polls, together
  MaxPurges      \* bound: purges that delete something

ASSUME GatewayAssumption ==
  /\ First \subseteq Group /\ IsFiniteSet(Group)
  /\ Capacity \in Nat \ {0}
  /\ {MaxSeq, MaxOpens, MaxMoves, MaxPurges} \subseteq Nat

VARIABLES
  member,   \* the groups whose group_members holds the device
  revoked,  \* devices.revoked_at is set
  top,      \* last sequence each group committed
  floor,    \* last sequence each group purged, with all before it
  welcome,  \* sequence of the device's Welcome in each group, 0 for none
  owed,     \* committed, and not yet published to the hub
  stage,    \* where the server's half of the session stands
  cited,    \* the cursors it was identified with
  seen,     \* the groups the query under way is about, or returned
  todo,     \* groups whose catch-up is still to come
  queue,    \* notices waiting for the session, for the groups it listens to
  up,       \* frames on their way to the server
  down,     \* frames on their way to the client
  socket,   \* the client's half is open
  scope,    \* Gateway.scope
  views,    \* the conversations, in the order of the map
  cursor, stale,
  poll,     \* the poll under way
  told,     \* history: what this connection brought to the client's handlers
  lost,     \* history: notices the full queue pushed out
  since,    \* history: what each catch-up knew to be purged, while it counts
  opens, moves, purges

server == <<member, revoked, top, floor, welcome, owed>>
session == <<stage, cited, seen, todo, queue>>
client == <<socket, scope, views, cursor, stale, poll>>
history == <<told, lost, since>>
bounds == <<opens, moves, purges>>
vars == <<server, session, up, down, client, history, bounds>>

NoSeqs == [g \in Group |-> {}]
Off == <<0>>  \* what the queue of a group nobody listens to holds

Listening(g) == queue[g] # Off
Known == ToSet(views)

Ready(groups) == [op |-> "ready", groups |-> groups]
Envelopes(g, seqs) == [op |-> "envelope", group |-> g, seqs |-> seqs]
Gap(g, last) == [op |-> "gap", group |-> g, last |-> last]
Identify(cursors) == [op |-> "identify", cursors |-> cursors]
Subscribe(g) == [op |-> "subscribe", group |-> g]

Idle == [at |-> "idle", next |-> 1, top |-> 0, floor |-> 0]

Init ==
  /\ member = First /\ revoked = FALSE
  /\ top = [g \in Group |-> 0] /\ floor = [g \in Group |-> 0]
  /\ welcome = [g \in Group |-> 0] /\ owed = NoSeqs
  /\ stage = "closed" /\ cited = <<>> /\ seen = {} /\ todo = {}
  /\ queue = [g \in Group |-> Off] /\ up = <<>> /\ down = <<>>
  /\ socket = FALSE /\ scope = First /\ views = SetToSeq(First)
  /\ cursor = [g \in Group |-> 0] /\ stale = [g \in Group |-> FALSE] /\ poll = Idle
  /\ told = NoSeqs /\ lost = NoSeqs /\ since = <<>>
  /\ opens = 0 /\ moves = 0 /\ purges = 0

-----------------------------------------------------------------------------
(* The rest of the server.                                                  *)

(* post_envelope commits, and only then tells the hub.                      *)
Post(g) ==
  /\ top[g] < MaxSeq
  /\ top' = [top EXCEPT ![g] = @ + 1]
  /\ owed' = [owed EXCEPT ![g] = @ \cup {top[g] + 1}]
  /\ UNCHANGED <<member, revoked, floor, welcome, session, up, down, client, history, bounds>>

(* publish_local to the one listener followed here: a full queue loses its  *)
(* oldest notice, and posts that commit in order may publish in another.    *)
Publish(g) ==
  \E s \in owed[g] :
    /\ owed' = [owed EXCEPT ![g] = @ \ {s}]
    /\ IF ~Listening(g) THEN UNCHANGED <<queue, lost>>
       ELSE IF Len(queue[g]) < Capacity
       THEN queue' = [queue EXCEPT ![g] = Append(@, s)] /\ UNCHANGED lost
       ELSE /\ queue' = [queue EXCEPT ![g] = Append(Tail(@), s)]
            /\ lost' = [lost EXCEPT ![g] = @ \cup (IF socket THEN {Head(queue[g])} ELSE {})]
    /\ UNCHANGED <<member, revoked, top, floor, welcome, stage, cited, seen, todo,
                   up, down, client, told, since, bounds>>

(* Another member adds the device and posts its Welcome.                    *)
Invite(g) ==
  /\ g \notin member /\ ~revoked /\ moves < MaxMoves /\ top[g] < MaxSeq
  /\ member' = member \cup {g} /\ moves' = moves + 1
  /\ top' = [top EXCEPT ![g] = @ + 1]
  /\ welcome' = [welcome EXCEPT ![g] = IF @ = 0 THEN top[g] + 1 ELSE @]
  /\ owed' = [owed EXCEPT ![g] = @ \cup {top[g] + 1}]
  /\ UNCHANGED <<revoked, floor, session, up, down, client, history, opens, purges>>

(* remove_members, at the request of a member who evicted the device.       *)
Evict(g) ==
  /\ g \in member /\ moves < MaxMoves
  /\ member' = member \ {g} /\ moves' = moves + 1
  /\ UNCHANGED <<revoked, top, floor, welcome, owed, session, up, down, client, history,
                 opens, purges>>

(* revoke_device sets the date; the memberships stay.                       *)
Revoke ==
  /\ ~revoked /\ moves < MaxMoves
  /\ revoked' = TRUE /\ moves' = moves + 1
  /\ UNCHANGED <<member, top, floor, welcome, owed, session, up, down, client, history,
                 opens, purges>>

Purge(g) ==
  /\ purges < MaxPurges /\ floor[g] < top[g]
  /\ floor' = [floor EXCEPT ![g] = top[g]] /\ purges' = purges + 1
  /\ UNCHANGED <<member, revoked, top, welcome, owed, session, up, down, client, history,
                 opens, moves>>

(* The join of require_membership and of membership().                      *)
Memberships == IF revoked THEN {} ELSE member

-----------------------------------------------------------------------------
(* The server's half of the session.                                        *)

(* Mutant: the task ends and leaves its receivers in the hub.               *)
ClosedListening ==
  /\ stage' = "closed" /\ cited' = <<>> /\ seen' = {} /\ todo' = {}
  /\ UNCHANGED queue

(* The task ends: its subscriptions are dropped with it.                    *)
Closed ==
  /\ stage' = "closed" /\ cited' = <<>> /\ seen' = {} /\ todo' = {}
  /\ queue' = [g \in Group |-> Off]

Severed ==
  /\ socket' = FALSE /\ up' = <<>> /\ down' = <<>>
  /\ told' = NoSeqs /\ lost' = NoSeqs /\ since' = <<>>

(* The socket is accepted and challenged; whatever an earlier one left      *)
(* half open on the server is followed no longer.                           *)
Open ==
  /\ ~socket /\ opens < MaxOpens
  /\ opens' = opens + 1 /\ socket' = TRUE
  /\ stage' = "hello" /\ cited' = <<>> /\ seen' = {} /\ todo' = {}
  /\ queue' = [g \in Group |-> Off]
  /\ up' = <<>> /\ down' = <<[op |-> "hello"]>>
  /\ told' = NoSeqs /\ lost' = NoSeqs /\ since' = <<>>
  /\ UNCHANGED <<server, scope, views, cursor, stale, poll, moves, purges>>

(* The server ends the session, or times it out: IDENTIFY_MAX, SILENCE_MAX. *)
Drop ==
  /\ Closed /\ Severed
  /\ UNCHANGED <<server, scope, views, cursor, stale, poll, bounds>>

(* The first frame has to be the answer to the challenge.                   *)
Refuse ==
  /\ stage = "hello"
  /\ \/ up # <<>> /\ (Head(up).op # "identify" \/ revoked)
     \/ up = <<>> /\ ~socket
  /\ Drop

Authenticate ==
  /\ stage = "hello" /\ up # <<>> /\ Head(up).op = "identify" /\ ~revoked
  /\ stage' = "identified" /\ cited' = Head(up).cursors /\ up' = Tail(up)
  /\ UNCHANGED <<server, seen, todo, queue, down, client, history, bounds>>

(* Mutant: the session catches up, and leaves the hub to subscribe frames.  *)
JoinedLate(groups) == [g \in Group |-> Off]

(* Every group is listened to before any is caught up with.                 *)
Joined(groups) == [g \in Group |-> IF g \in groups THEN <<>> ELSE Off]

Welcomed ==
  /\ stage = "identified"
  /\ seen' = Memberships /\ queue' = Joined(Memberships)
  /\ todo' = Memberships \cap DOMAIN cited
  /\ down' = Append(down, Ready(Memberships))
  /\ stage' = "resuming"
  /\ UNCHANGED <<server, cited, up, client, history, bounds>>

(* resume: two queries for each cursor, with anything in between.           *)
ResumeOldest(g) ==
  /\ stage = "resuming" /\ g \in todo
  /\ stage' = "rows" /\ todo' = todo \ {g} /\ seen' = {g}
  /\ since' = IF socket THEN [h \in DOMAIN since \cup {g} |-> IF h = g THEN floor[g] ELSE since[h]]
                         ELSE since
  /\ down' = IF cited[g] < floor[g] THEN Append(down, Gap(g, floor[g])) ELSE down
  /\ UNCHANGED <<server, cited, queue, up, client, told, lost, bounds>>

Surviving(g, after) == {s \in 1 .. top[g] : s > after /\ s > floor[g]}

ResumeRows(g) ==
  /\ stage = "rows" /\ g \in seen
  /\ LET rows == Surviving(g, cited[g])
     IN  down' = IF rows = {} THEN down ELSE Append(down, Envelopes(g, rows))
  /\ stage' = "resuming" /\ seen' = {}
  /\ UNCHANGED <<server, cited, todo, queue, up, client, history, bounds>>

Resumed ==
  /\ stage = "resuming" /\ todo = {}
  /\ stage' = "live" /\ seen' = {}
  /\ UNCHANGED <<server, cited, todo, queue, up, down, client, history, bounds>>

(* One notice of the hub becomes a frame.                                   *)
Announce(g) ==
  /\ stage = "live" /\ Listening(g) /\ queue[g] # <<>>
  /\ down' = IF socket THEN Append(down, Envelopes(g, {Head(queue[g])})) ELSE down
  /\ queue' = [queue EXCEPT ![g] = Tail(@)]
  /\ UNCHANGED <<server, stage, cited, seen, todo, up, client, history, bounds>>

(* subscribe: is_member is asked of the database, and the hub is joined     *)
(* once it has answered.                                                    *)
SubscribeAsked ==
  /\ stage = "live" /\ up # <<>> /\ up' = Tail(up)
  /\ LET g == Head(up).group
     IN  IF g \in Memberships /\ ~Listening(g)
         THEN stage' = "subscribing" /\ seen' = {g}
         ELSE UNCHANGED <<stage, seen>>
  /\ UNCHANGED <<server, cited, todo, queue, down, client, history, bounds>>

SubscribeTaken ==
  /\ stage = "subscribing"
  /\ queue' = [g \in Group |-> IF g \in seen THEN <<>> ELSE queue[g]]
  /\ stage' = "live" /\ seen' = {}
  /\ UNCHANGED <<server, cited, todo, up, down, client, history, bounds>>

(* revalidate, on every heartbeat of either side: the memberships, then     *)
(* the device, in two queries.                                              *)
RevalidateGroups ==
  /\ stage = "live"
  /\ stage' = "revalidating" /\ seen' = Memberships
  /\ UNCHANGED <<server, cited, todo, queue, up, down, client, history, bounds>>

RevalidateRevoked ==
  /\ stage = "revalidating" /\ revoked
  /\ Drop

(* Mutant: the groups are compared with what the session was opened with.   *)
LeftNever(g) == FALSE

Left(g) == Listening(g) /\ g \notin seen

RevalidateAlive ==
  /\ stage = "revalidating" /\ ~revoked
  /\ queue' = [g \in Group |-> IF Left(g) THEN Off ELSE queue[g]]
  /\ since' = [g \in {h \in DOMAIN since : ~Left(h)} |-> since[g]]
  /\ stage' = "live" /\ seen' = {}
  /\ UNCHANGED <<server, cited, todo, up, down, client, told, lost, bounds>>

(* The network goes: the client notices, the server only by the silence.    *)
Cut ==
  /\ socket /\ Severed
  /\ UNCHANGED <<server, session, scope, views, cursor, stale, poll, bounds>>

Silence ==
  /\ stage = "live" /\ ~socket
  /\ Drop

ServerStep ==
  \/ Refuse \/ Authenticate \/ Welcomed
  \/ \E g \in Group : ResumeOldest(g) \/ ResumeRows(g)
  \/ Resumed \/ SubscribeAsked \/ SubscribeTaken
  \/ RevalidateRevoked \/ RevalidateAlive

-----------------------------------------------------------------------------
(* The client.                                                              *)

(* Gateway.subscribe for each group: once, and only over an open socket;    *)
(* the scope remembers the others for the next session.                     *)
Claim(groups) ==
  /\ scope' = scope \cup groups
  /\ up' = IF socket THEN up \o SetToSeq({Subscribe(g) : g \in groups \ scope}) ELSE up

(* startConversation: the group is created with the device in it, and       *)
(* syncScope claims it.                                                     *)
Begin(g) ==
  /\ g \notin Known /\ g \notin member /\ welcome[g] = 0 /\ ~revoked
  /\ moves < MaxMoves /\ moves' = moves + 1
  /\ member' = member \cup {g} /\ views' = Append(views, g)
  /\ Claim(Known \cup {g})
  /\ UNCHANGED <<revoked, top, floor, welcome, owed, session, down, socket, cursor, stale, poll,
                 history, opens, purges>>

(* Every thirty seconds; a caller that finds a poll running is handed its   *)
(* promise.                                                                 *)
Begun == IF poll.at = "idle" THEN [Idle EXCEPT !.at = "discover"] ELSE poll

Timer ==
  /\ poll.at = "idle" /\ poll' = Begun
  /\ UNCHANGED <<server, session, up, down, socket, scope, views, cursor, stale, history, bounds>>

(* listGroups, and the Welcome of each group that has no view yet; what was *)
(* discovered enters the scope.                                             *)
Discovered == {g \in Memberships : g \notin Known /\ welcome[g] > floor[g]}

PollDiscover ==
  /\ poll.at = "discover" /\ poll' = [poll EXCEPT !.at = "walk"]
  /\ views' = views \o SetToSeq(Discovered)
  /\ cursor' = [g \in Group |-> IF g \in Discovered THEN welcome[g] ELSE cursor[g]]
  /\ IF Discovered = {} THEN UNCHANGED <<scope, up>> ELSE Claim(Known \cup Discovered)
  /\ UNCHANGED <<server, session, down, socket, stale, history, bounds>>

Here == views[poll.next]
Walking == poll.at = "walk" /\ poll.next <= Len(views)

PollSkip ==
  /\ Walking /\ stale[Here]
  /\ poll' = [poll EXCEPT !.next = @ + 1]
  /\ UNCHANGED <<server, session, up, down, socket, scope, views, cursor, stale, history, bounds>>

PollFetch ==
  /\ Walking /\ ~stale[Here] /\ Here \in Memberships
  /\ poll' = [poll EXCEPT !.at = "page", !.top = top[Here], !.floor = floor[Here]]
  /\ UNCHANGED <<server, session, up, down, socket, scope, views, cursor, stale, history, bounds>>

PollAbsorb ==
  /\ poll.at = "page"
  /\ IF cursor[Here] < poll.floor
     THEN stale' = [stale EXCEPT ![Here] = TRUE] /\ UNCHANGED cursor
     ELSE cursor' = [cursor EXCEPT ![Here] = poll.top] /\ UNCHANGED stale
  /\ poll' = [poll EXCEPT !.at = "walk", !.next = @ + 1, !.top = 0, !.floor = 0]
  /\ UNCHANGED <<server, session, up, down, socket, scope, views, history, bounds>>

PollDone ==
  /\ poll.at = "walk" /\ poll.next > Len(views)
  /\ poll' = Idle
  /\ UNCHANGED <<server, session, up, down, socket, scope, views, cursor, stale, history, bounds>>

(* Mutant: only a poll that succeeds makes room for the next one.           *)
AfterFailureStuck == [Idle EXCEPT !.at = "failed"]

(* finally: the slot of the poll is freed whatever became of it.            *)
AfterFailure == Idle

(* The mailbox of a group the device is not in is refused, and the refusal  *)
(* ends the whole poll.                                                     *)
PollRefused ==
  /\ Walking /\ ~stale[Here] /\ Here \notin Memberships
  /\ poll' = AfterFailure
  /\ UNCHANGED <<server, session, up, down, socket, scope, views, cursor, stale, history, bounds>>

(* Any other request of it may fail.                                        *)
PollFails ==
  /\ poll.at # "idle" /\ moves < MaxMoves
  /\ moves' = moves + 1 /\ poll' = AfterFailure
  /\ UNCHANGED <<server, session, up, down, socket, scope, views, cursor, stale, history,
                 opens, purges>>

PollStep ==
  PollDiscover \/ PollSkip \/ PollFetch \/ PollAbsorb \/ PollDone \/ PollRefused

(* dispatch, frame by frame.                                                *)
Arriving(op) == socket /\ down # <<>> /\ Head(down).op = op /\ down' = Tail(down)

(* The cursors are read once the challenge is signed.                       *)
OnHello ==
  /\ Arriving("hello")
  /\ up' = Append(up, Identify([g \in Known |-> cursor[g]]))
  /\ UNCHANGED <<server, session, client, history, bounds>>

OnReady ==
  /\ Arriving("ready")
  /\ LET served == Head(down).groups
     IN  /\ up' = up \o SetToSeq({Subscribe(g) : g \in scope \ served})
         /\ scope' = scope \cup served
  /\ UNCHANGED <<server, session, socket, views, cursor, stale, poll, history, bounds>>

OnEnvelope ==
  /\ Arriving("envelope")
  /\ told' = [told EXCEPT ![Head(down).group] = @ \cup Head(down).seqs]
  /\ poll' = IF Head(down).group \in Known THEN Begun ELSE poll
  /\ UNCHANGED <<server, session, up, socket, scope, views, cursor, stale, lost, since, bounds>>

OnGap ==
  /\ Arriving("gap")
  /\ LET g == Head(down).group
         last == Head(down).last
     IN  /\ told' = [told EXCEPT ![g] = @ \cup 1 .. last]
         /\ stale' = [stale EXCEPT ![g] = @ \/ (g \in Known /\ cursor[g] < last)]
  /\ UNCHANGED <<server, session, up, socket, scope, views, cursor, poll, lost, since, bounds>>

Next ==
  \/ \E g \in Group :
       Post(g) \/ Publish(g) \/ Invite(g) \/ Evict(g) \/ Purge(g) \/ Announce(g) \/ Begin(g)
  \/ Revoke \/ Open \/ ServerStep \/ RevalidateGroups \/ Cut \/ Silence
  \/ Timer \/ PollStep \/ PollFails
  \/ OnHello \/ OnReady \/ OnEnvelope \/ OnGap

Spec == Init /\ [][Next]_vars

(* The server's task runs, and its tick comes round; the client's timer     *)
(* does too and its requests are answered.  Nothing is assumed of the       *)
(* network between the two, of the hub or of the other members.             *)
Fairness ==
  /\ WF_vars(ServerStep) /\ WF_vars(RevalidateGroups) /\ WF_vars(Silence)
  /\ WF_vars(Timer) /\ WF_vars(PollStep)

FairSpec == Spec /\ Fairness

-----------------------------------------------------------------------------
(* Properties.                                                              *)

(* Every variable keeps its shape; a session that is not open listens to    *)
(* nothing, and no queue of the hub is longer than its capacity             *)
(* (publish_local, Closed).                                                 *)
TypeOK ==
  /\ member \subseteq Group /\ revoked \in BOOLEAN /\ scope \subseteq Group
  /\ \A g \in Group :
       /\ 0 <= floor[g] /\ floor[g] <= top[g] /\ top[g] <= MaxSeq
       /\ owed[g] \subseteq 1 .. top[g]
       /\ cursor[g] <= top[g]
       /\ Listening(g) => Len(queue[g]) <= Capacity /\ stage \notin {"closed", "hello"}
  /\ DOMAIN cited \subseteq Known /\ IsInjective(views)

(* While a session stands, nothing has slipped between its catch-up and     *)
(* the hub: whatever a group it listens to has past the cursor it was       *)
(* opened with has been announced, by number or as a gap, or is on its way: *)
(* in a frame, in the queue, or committed and about to be published.  What  *)
(* a full queue pushed out, and what was purged after the catch-up looked,  *)
(* is left to the poll.                                                     *)
Brings(f, g, s) ==
  \/ f.op = "envelope" /\ f.group = g /\ s \in f.seqs
  \/ f.op = "gap" /\ f.group = g /\ s \in 1 .. f.last

Announced(g, s) == s \in told[g] \/ \E f \in ToSet(down) : Brings(f, g, s)

InBetween(g) == stage = "rows" /\ g \in seen

NoneSlipped ==
  socket => \A g \in DOMAIN since : ~InBetween(g) =>
    \A s \in 1 .. top[g] : cited[g] < s =>
      \/ Announced(g, s)
      \/ s \in owed[g] \cup lost[g] \cup ToSet(queue[g])
      \/ since[g] < s /\ s <= floor[g]

(* A device taken out of a group, or revoked, is not served that group for  *)
(* long: a heartbeat cuts it off, whatever the client does with its half of *)
(* the connection.                                                          *)
CutOff ==
  \A g \in Group :
    (g \notin Memberships) ~> (~Listening(g) \/ g \in Memberships)

(* The poll alone is enough: whatever the session does, and even if it      *)
(* never opens, what a group holds is read to its end in time, or the       *)
(* conversation declared interrupted, unless the device is taken out of a    *)
(* group it holds a conversation of.                                        *)
Read ==
  \A g \in Group :
    (g \in Known) ~> (cursor[g] = top[g] \/ stale[g] \/ ~(Known \subseteq Memberships))

(* The same of each group by itself, as App.tsx has it: "the interval above *)
(* is enough to keep everything working".                                   *)
ReadAlone ==
  \A g \in Group :
    (g \in Known) ~> (cursor[g] = top[g] \/ stale[g] \/ g \notin Memberships)

=============================================================================
