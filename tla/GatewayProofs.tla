---------------------------- MODULE GatewayProofs ----------------------------
(* Nothing slips between the catch-up of a session and the hub: NoneSlipped *)
(* of Gateway, with its types, proved for any groups, any capacity of the   *)
(* queues and any bounds.                                                   *)
(*                                                                          *)
(* The argument.  A group is listened to before it is caught up with, and   *)
(* as long as the catch-up counts.  What is committed later is owed to the  *)
(* hub until it is in the queue; what was committed before is in the rows,  *)
(* unless it was purged before the first of the two queries, which then     *)
(* says so, or between the two, which the property sets aside.              *)
EXTENDS Gateway, TLAPS, SequenceTheorems, FiniteSetTheorems

(* The shapes of what travels and of what is kept.                          *)
Pos == Nat \ {0}
Cursors == UNION {[D -> Nat] : D \in SUBSET Group}
Ask == [op : {"identify"}, cursors : Cursors] \cup [op : {"subscribe"}, group : Group]
Frame == [op : {"hello"}] \cup [op : {"ready"}, groups : SUBSET Group]
         \cup [op : {"envelope"}, group : Group, seqs : SUBSET Nat]
         \cup [op : {"gap"}, group : Group, last : Nat]
Poll == [at : {"idle", "discover", "walk", "page"}, next : Pos, top : Nat, floor : Nat]

Counted ==
  /\ member \subseteq Group /\ revoked \in BOOLEAN
  /\ top \in [Group -> Nat] /\ floor \in [Group -> Nat] /\ welcome \in [Group -> Nat]
  /\ owed \in [Group -> SUBSET Nat]
  /\ \A g \in Group : /\ floor[g] <= top[g] /\ top[g] <= MaxSeq /\ welcome[g] <= top[g]
                      /\ owed[g] \subseteq 1 .. top[g]

Viewed ==
  /\ views \in Seq(Group) /\ IsInjective(views) /\ scope \subseteq Group
  /\ cursor \in [Group -> Nat] /\ \A g \in Group : cursor[g] <= top[g]
  /\ poll \in Poll
  /\ poll.at = "page" => poll.next \in DOMAIN views /\ poll.top <= top[Here]

Wired ==
  /\ up \in Seq(Ask) /\ down \in Seq(Frame)
  /\ \A f \in ToSet(up) : f.op = "identify" => DOMAIN f.cursors \subseteq Known

Seated ==
  /\ cited \in Cursors /\ DOMAIN cited \subseteq Known
  /\ seen \subseteq Group /\ todo \subseteq Group
  /\ queue \in [Group -> {Off} \cup Seq(Pos)]
  /\ \A g \in Group : Listening(g) => Len(queue[g]) <= Capacity /\ stage \notin {"closed", "hello"}

Recalled ==
  /\ since \in Cursors
  /\ told \in [Group -> SUBSET Nat] /\ lost \in [Group -> SUBSET Nat]

(* What a catch-up counts for is listened to, and was cited; no catch-up    *)
(* counts before the session is welcomed; groups wait for theirs only while *)
(* the session resumes, the rows asked for are of one group that is         *)
(* listened to, and a subscription under way is to one that is not.         *)
Tuned ==
  /\ \A g \in DOMAIN since : Listening(g) /\ g \in DOMAIN cited
  /\ \A g \in todo : Listening(g) /\ g \in DOMAIN cited
  /\ stage \in {"closed", "hello", "identified"} => DOMAIN since = {}
  /\ stage \notin {"resuming", "rows"} => todo = {}
  /\ stage = "rows" => \A g, h \in seen : Listening(g) /\ g = h
  /\ stage = "subscribing" => \A g \in seen : ~Listening(g)

(* Between the two queries of a catch-up, what was purged by the first is   *)
(* announced already, as far as it is past the cursor.                      *)
HalfCaught ==
  socket /\ stage = "rows" => \A g \in seen \cap DOMAIN since :
    \A s \in 1 .. since[g] : cited[g] < s => Announced(g, s)

-----------------------------------------------------------------------------
(* Sequences, their sets, and finite sets put in a sequence.                *)

LEMMA Among ==
  ASSUME NEW S, NEW q \in Seq(S)
  PROVE  /\ Len(q) \in Nat /\ DOMAIN q = 1 .. Len(q)
         /\ ToSet(q) = {q[i] : i \in 1 .. Len(q)} /\ ToSet(q) \subseteq S
<1>1. Len(q) \in Nat /\ DOMAIN q = 1 .. Len(q)
  BY LenProperties
<1>2. \A i \in 1 .. Len(q) : q[i] \in S
  BY ElementOfSeq
<1> QED
  BY <1>1, <1>2 DEF ToSet

LEMMA Appended ==
  ASSUME NEW S, NEW q \in Seq(S), NEW x \in S
  PROVE  /\ Append(q, x) \in Seq(S) /\ Len(Append(q, x)) = Len(q) + 1
         /\ Len(q) \in Nat
         /\ \A i \in 1 .. Len(q) : Append(q, x)[i] = q[i]
         /\ Append(q, x)[Len(q) + 1] = x
         /\ ToSet(Append(q, x)) = ToSet(q) \cup {x}
<1>1. /\ Append(q, x) \in Seq(S) /\ Len(Append(q, x)) = Len(q) + 1
      /\ Len(q) \in Nat
      /\ \A i \in 1 .. Len(q) : Append(q, x)[i] = q[i]
      /\ Append(q, x)[Len(q) + 1] = x
  BY LenProperties, AppendProperties
<1>2. /\ ToSet(q) = {q[i] : i \in 1 .. Len(q)}
      /\ ToSet(Append(q, x)) = {Append(q, x)[i] : i \in 1 .. Len(q) + 1}
  BY <1>1, Among
<1>3. 1 .. Len(q) + 1 = (1 .. Len(q)) \cup {Len(q) + 1}
  BY <1>1
<1> QED
  BY <1>1, <1>2, <1>3

LEMMA Taken ==
  ASSUME NEW S, NEW q \in Seq(S), q # <<>>
  PROVE  /\ Tail(q) \in Seq(S) /\ Head(q) \in S /\ Len(Tail(q)) = Len(q) - 1 /\ Len(q) \in Pos
         /\ ToSet(q) = {Head(q)} \cup ToSet(Tail(q))
<1>1. /\ Tail(q) \in Seq(S) /\ Head(q) \in S /\ Len(Tail(q)) = Len(q) - 1 /\ Len(q) \in Pos
      /\ \A i \in 1 .. Len(Tail(q)) : Tail(q)[i] = q[i + 1]
      /\ Head(q) = q[1]
  BY HeadTailProperties, EmptySeq, LenProperties DEF Pos
<1>2. /\ ToSet(q) = {q[i] : i \in 1 .. Len(q)}
      /\ ToSet(Tail(q)) = {Tail(q)[i] : i \in 1 .. Len(Tail(q))}
  BY <1>1, Among
<1>3. ASSUME NEW x \in ToSet(q) PROVE x \in {Head(q)} \cup ToSet(Tail(q))
  <2>1. PICK i \in 1 .. Len(q) : x = q[i]
    BY <1>2
  <2>2. CASE i = 1
    BY <1>1, <2>1, <2>2
  <2>3. CASE i # 1
    <3>1. i - 1 \in 1 .. Len(Tail(q)) /\ Tail(q)[i - 1] = q[i]
      BY <1>1, <2>3 DEF Pos
    <3> QED
      BY <1>2, <2>1, <3>1
  <2> QED
    BY <2>2, <2>3
<1>4. {Head(q)} \cup ToSet(Tail(q)) \subseteq ToSet(q)
  <2>1. \A i \in 1 .. Len(Tail(q)) : i + 1 \in 1 .. Len(q) /\ 1 \in 1 .. Len(q)
    BY <1>1 DEF Pos
  <2>2. 1 \in 1 .. Len(q)
    BY <1>1 DEF Pos
  <2> QED
    BY <1>1, <1>2, <2>1, <2>2
<1> QED
  BY <1>1, <1>3, <1>4

LEMMA Shifted ==
  ASSUME NEW S, NEW q \in Seq(S), q # <<>>, NEW x \in S
  PROVE  /\ Append(Tail(q), x) \in Seq(S) /\ Len(Append(Tail(q), x)) = Len(q)
         /\ ToSet(Append(Tail(q), x)) = ToSet(Tail(q)) \cup {x}
<1>1. Tail(q) \in Seq(S) /\ Len(Tail(q)) = Len(q) - 1 /\ Len(q) \in Nat
  BY Taken DEF Pos
<1>2. \A t \in Seq(S) : /\ Append(t, x) \in Seq(S) /\ Len(Append(t, x)) = Len(t) + 1
                      /\ ToSet(Append(t, x)) = ToSet(t) \cup {x}
  BY Appended
<1>3. /\ Append(Tail(q), x) \in Seq(S) /\ Len(Append(Tail(q), x)) = Len(Tail(q)) + 1
      /\ ToSet(Append(Tail(q), x)) = ToSet(Tail(q)) \cup {x}
  BY <1>1, <1>2, Zenon
<1>4. Len(Append(Tail(q), x)) = Len(q)
  BY <1>1, <1>3
<1> QED
  BY <1>3, <1>4, Zenon

LEMMA Chained ==
  ASSUME NEW S, NEW p \in Seq(S), NEW q \in Seq(S)
  PROVE  /\ p \o q \in Seq(S) /\ Len(p \o q) = Len(p) + Len(q)
         /\ Len(p) \in Nat /\ Len(q) \in Nat
         /\ \A i \in 1 .. Len(p) : (p \o q)[i] = p[i]
         /\ \A i \in 1 .. Len(q) : (p \o q)[Len(p) + i] = q[i]
         /\ ToSet(p \o q) = ToSet(p) \cup ToSet(q)
<1>1. /\ p \o q \in Seq(S) /\ Len(p \o q) = Len(p) + Len(q)
      /\ Len(p) \in Nat /\ Len(q) \in Nat
      /\ \A i \in 1 .. Len(p \o q) :
           (p \o q)[i] = IF i <= Len(p) THEN p[i] ELSE q[i - Len(p)]
  BY ConcatProperties, LenProperties
<1>2. \A i \in 1 .. Len(p) : i \in 1 .. Len(p \o q) /\ (p \o q)[i] = p[i]
  BY <1>1
<1>3. ASSUME NEW i \in 1 .. Len(q)
      PROVE  Len(p) + i \in 1 .. Len(p \o q) /\ (p \o q)[Len(p) + i] = q[i]
  <2>1. Len(p) + i \in 1 .. Len(p \o q) /\ ~(Len(p) + i <= Len(p)) /\ (Len(p) + i) - Len(p) = i
    BY <1>1
  <2> QED
    BY <1>1, <2>1
<1>4. /\ ToSet(p) = {p[i] : i \in 1 .. Len(p)}
      /\ ToSet(q) = {q[i] : i \in 1 .. Len(q)}
      /\ ToSet(p \o q) = {(p \o q)[i] : i \in 1 .. Len(p \o q)}
  BY <1>1, Among
<1>5. ToSet(p) \cup ToSet(q) \subseteq ToSet(p \o q)
  BY <1>2, <1>3, <1>4
<1>6. ASSUME NEW i \in 1 .. Len(p \o q)
      PROVE  (p \o q)[i] \in ToSet(p) \cup ToSet(q)
  <2>1. CASE i <= Len(p)
    BY <1>1, <1>4, <2>1
  <2>2. CASE ~(i <= Len(p))
    <3>1. i - Len(p) \in 1 .. Len(q)
      BY <1>1, <2>2
    <3> QED
      BY <1>1, <1>4, <2>2, <3>1
  <2> QED
    BY <2>1, <2>2
<1> QED
  BY <1>1, <1>2, <1>3, <1>4, <1>5, <1>6

(* A finite set put in a sequence is all there, each element once.          *)
LEMMA Listed ==
  ASSUME NEW S, IsFiniteSet(S)
  PROVE  /\ SetToSeq(S) \in Seq(S) /\ IsInjective(SetToSeq(S)) /\ ToSet(SetToSeq(S)) = S
<1> DEFINE n == Cardinality(S)
<1>1. n \in Nat /\ ExistsBijection(1 .. n, S)
  BY FS_CardinalityType
<1>2. PICK b \in Bijection(1 .. n, S) : TRUE
  BY <1>1 DEF ExistsBijection
<1>3. b \in [1 .. n -> S] /\ IsInjective(b)
  BY <1>2 DEF Bijection, Injection
<1>4. SetToSeq(S) \in [1 .. n -> S] /\ IsInjective(SetToSeq(S))
  BY <1>3 DEF SetToSeq
<1>5. SetToSeq(S) \in Injection(1 .. n, S)
  BY <1>4 DEF Injection
<1>6. IsFiniteSet(1 .. n) /\ Cardinality(1 .. n) = n
  BY <1>1, FS_Interval
<1>7. SetToSeq(S) \in Surjection(1 .. n, S)
  BY <1>5, <1>6, FS_Injection
<1>8. SetToSeq(S) \in Seq(S)
  BY <1>1, <1>4, SeqDef
<1>9. \A x \in S : \E i \in 1 .. n : SetToSeq(S)[i] = x
  BY <1>7 DEF Surjection
<1> QED
  BY <1>4, <1>8, <1>9 DEF ToSet

(* Facts of the constants, the empty function, and the queues.              *)
LEMMA Empties ==
  /\ <<>> \in Cursors /\ DOMAIN <<>> = {} /\ ToSet(<<>>) = {}
  /\ <<>> \in Seq(Pos) /\ Len(<<>>) = 0 /\ Off \notin Seq(Pos) /\ Off # <<>>
<1>1. DOMAIN <<>> = {}
  OBVIOUS
<1>2. <<>> \in [{} -> Nat] /\ {} \in SUBSET Group
  BY <1>1
<1>3. <<>> \in Cursors
  BY <1>2, Zenon DEF Cursors
<1>4. Off \notin Seq(Pos)
  <2> SUFFICES ASSUME Off \in Seq(Pos) PROVE FALSE
    OBVIOUS
  <2>1. Len(Off) = 1 /\ Off[1] = 0
    BY DEF Off
  <2>2. Off[1] \in Pos
    BY <2>1, ElementOfSeq
  <2> QED
    BY <2>1, <2>2 DEF Pos
<1> QED
  BY <1>1, <1>3, <1>4, EmptySeq DEF ToSet, Off

LEMMA CursorShape ==
  /\ \A c \in Cursors : DOMAIN c \subseteq Group /\ \A h \in DOMAIN c : c[h] \in Nat
  /\ \A D \in SUBSET Group : \A c \in [D -> Nat] : c \in Cursors
<1>1. ASSUME NEW c \in Cursors
      PROVE  DOMAIN c \subseteq Group /\ \A h \in DOMAIN c : c[h] \in Nat
  <2>1. PICK D \in SUBSET Group : c \in [D -> Nat]
    BY <1>1 DEF Cursors
  <2> QED
    BY <2>1
<1>2. \A D \in SUBSET Group : \A c \in [D -> Nat] : c \in Cursors
  BY Zenon DEF Cursors
<1> QED
  BY <1>1, <1>2

(* The groups subscribed to, in a sequence of frames.                       *)
LEMMA SubscribeFrames ==
  ASSUME NEW S \in SUBSET Group
  PROVE  LET q == SetToSeq({Subscribe(g) : g \in S})
         IN  q \in Seq(Ask) /\ \A f \in ToSet(q) : f.op = "subscribe"
<1> DEFINE T == {Subscribe(g) : g \in S}
<1> DEFINE m == [g \in S |-> Subscribe(g)]
<1>1. IsFiniteSet(S)
  BY GatewayAssumption, FS_Subset
<1>2. m \in Surjection(S, T)
  BY DEF Surjection
<1>3. IsFiniteSet(T)
  BY <1>1, <1>2, FS_Surjection
<1>4. SetToSeq(T) \in Seq(T) /\ ToSet(SetToSeq(T)) = T
  BY <1>3, Listed
<1>5. \A f \in T : f \in Ask /\ f.op = "subscribe"
  BY DEF Subscribe, Ask
<1>6. SetToSeq(T) \in Seq(Ask)
  BY <1>4, <1>5, SeqMonotonic
<1> QED
  BY <1>4, <1>5, <1>6

-----------------------------------------------------------------------------
(* What each block of variables is changed by.                              *)

LEMMA ServerMoves ==
  [Next]_vars =>
    \/ UNCHANGED server
    \/ Revoke
    \/ \E g \in Group : Post(g) \/ Publish(g) \/ Invite(g) \/ Evict(g) \/ Purge(g) \/ Begin(g)
<1> SUFFICES ASSUME [Next]_vars, ~UNCHANGED server, ~Revoke
             PROVE  \E g \in Group : Post(g) \/ Publish(g) \/ Invite(g) \/ Evict(g) \/ Purge(g)
                                   \/ Begin(g)
  OBVIOUS
<1>1. CASE UNCHANGED vars
  BY <1>1 DEF vars
<1>2. ASSUME ServerStep PROVE UNCHANGED server
  BY <1>2 DEF ServerStep, Refuse, Drop, Authenticate, Welcomed, ResumeOldest, ResumeRows, Resumed,
              SubscribeAsked, SubscribeTaken, RevalidateRevoked, RevalidateAlive
<1>3. ASSUME PollStep PROVE UNCHANGED server
  BY <1>3 DEF PollStep, PollDiscover, PollSkip, PollFetch, PollAbsorb, PollDone, PollRefused
<1>4. ASSUME Open \/ RevalidateGroups \/ Cut \/ Silence \/ Timer \/ PollFails
             \/ OnHello \/ OnReady \/ OnEnvelope \/ OnGap
      PROVE  UNCHANGED server
  BY <1>4 DEF Open, RevalidateGroups, Cut, Silence, Drop, Timer, PollFails, OnHello, OnReady,
              OnEnvelope, OnGap
<1>5. ASSUME NEW g \in Group, Announce(g) PROVE UNCHANGED server
  BY <1>5 DEF Announce
<1> QED
  BY <1>1, <1>2, <1>3, <1>4, <1>5, Zenon DEF Next

(* The client's side, but for its wires.                                    *)
reading == <<scope, views, cursor, poll>>

LEMMA ClientMoves ==
  [Next]_vars =>
    \/ UNCHANGED reading
    \/ UNCHANGED <<scope, views, cursor>> /\ (poll' = Begun \/ poll' = Idle)
    \/ (PollSkip \/ PollFetch \/ PollDiscover \/ PollAbsorb \/ OnReady)
    \/ \E g \in Group : Begin(g)
<1> SUFFICES ASSUME [Next]_vars, ~UNCHANGED reading, ~(PollSkip \/ PollFetch \/ PollDiscover \/ PollAbsorb \/ OnReady)
             PROVE  \/ UNCHANGED <<scope, views, cursor>> /\ (poll' = Begun \/ poll' = Idle)
                    \/ \E g \in Group : Begin(g)
  OBVIOUS
<1>1. CASE UNCHANGED vars
  BY <1>1 DEF vars, client, reading
<1>2. ASSUME ServerStep PROVE UNCHANGED reading
  BY <1>2 DEF ServerStep, Refuse, Drop, Authenticate, Welcomed, ResumeOldest, ResumeRows, Resumed,
              SubscribeAsked, SubscribeTaken, RevalidateRevoked, RevalidateAlive, client, reading
<1>3. ASSUME PollStep PROVE UNCHANGED <<scope, views, cursor>> /\ (poll' = Begun \/ poll' = Idle)
  BY <1>3 DEF PollStep, PollDone, PollRefused, AfterFailure
<1>4. ASSUME Open \/ RevalidateGroups \/ Cut \/ Silence \/ OnHello \/ OnGap \/ Revoke
      PROVE  UNCHANGED reading
  BY <1>4 DEF Open, RevalidateGroups, Cut, Silence, Drop, OnHello, OnGap, Revoke, client, reading
<1>5. ASSUME Timer \/ PollFails \/ OnEnvelope
      PROVE  UNCHANGED <<scope, views, cursor>> /\ (poll' = Begun \/ poll' = Idle \/ poll' = poll)
  BY <1>5 DEF Timer, PollFails, OnEnvelope, AfterFailure
<1>6. ASSUME NEW g \in Group,
             Post(g) \/ Publish(g) \/ Invite(g) \/ Evict(g) \/ Purge(g) \/ Announce(g)
      PROVE  UNCHANGED reading
  BY <1>6 DEF Post, Publish, Invite, Evict, Purge, Announce, client, reading
<1>7. UNCHANGED <<scope, views, cursor>> /\ poll' = poll => UNCHANGED reading
  BY DEF reading
<1> QED
  BY <1>1, <1>2, <1>3, <1>4, <1>5, <1>6, <1>7, Zenon DEF Next

-----------------------------------------------------------------------------
(* Each block keeps its shape.                                              *)

LEMMA CountedStep == Counted /\ [Next]_vars => Counted'
<1> SUFFICES ASSUME Counted, [Next]_vars PROVE Counted'
  OBVIOUS
<1> USE DEF Counted
<1>1. CASE UNCHANGED server
  BY <1>1 DEF server
<1>2. CASE Revoke
  BY <1>2 DEF Revoke
<1> USE GatewayAssumption
<1>3. ASSUME NEW g \in Group, Post(g) \/ Invite(g) PROVE Counted'
  <2>1. top' = [top EXCEPT ![g] = @ + 1] /\ owed' = [owed EXCEPT ![g] = @ \cup {top[g] + 1}]
        /\ floor' = floor /\ top[g] < MaxSeq
    BY <1>3 DEF Post, Invite
  <2>2. top[g] \in Nat /\ top[g] + 1 \in Nat /\ MaxSeq \in Nat
    OBVIOUS
  <2>3. top' \in [Group -> Nat] /\ owed' \in [Group -> SUBSET Nat]
    BY <2>1, <2>2
  <2>4. \A h \in Group : top[h] <= top'[h] /\ top'[h] <= MaxSeq /\ owed'[h] \subseteq 1 .. top'[h]
    BY <2>1, <2>2
  <2>5. \/ welcome' = welcome
        \/ welcome' = [welcome EXCEPT ![g] = IF @ = 0 THEN top[g] + 1 ELSE @]
    BY <1>3 DEF Post, Invite
  <2>6. welcome' \in [Group -> Nat] /\ \A h \in Group : welcome'[h] <= top'[h]
    BY <2>1, <2>2, <2>4, <2>5
  <2>7. member' \subseteq Group /\ revoked' \in BOOLEAN
    BY <1>3 DEF Post, Invite
  <2>8. \A h \in Group : floor[h] <= top'[h]
    BY <2>3, <2>4
  <2> QED
    BY <2>1, <2>3, <2>4, <2>6, <2>7, <2>8
<1>4. ASSUME NEW g \in Group, Publish(g) PROVE Counted'
  <2>1. PICK s \in owed[g] : owed' = [owed EXCEPT ![g] = @ \ {s}]
    BY <1>4 DEF Publish
  <2>2. UNCHANGED <<member, revoked, top, floor, welcome>>
    BY <1>4 DEF Publish
  <2>3. owed' \in [Group -> SUBSET Nat] /\ \A h \in Group : owed'[h] \subseteq owed[h]
    BY <2>1
  <2> QED
    BY <2>2, <2>3
<1>5. ASSUME NEW g \in Group, Evict(g) PROVE Counted'
  BY <1>5 DEF Evict
<1>6. ASSUME NEW g \in Group, Purge(g) PROVE Counted'
  BY <1>6 DEF Purge
<1>7. ASSUME NEW g \in Group, Begin(g) PROVE Counted'
  BY <1>7 DEF Begin
<1> QED
  BY <1>1, <1>2, <1>3, <1>4, <1>5, <1>6, <1>7, ServerMoves, Zenon

(* What the log of a group has is never less.                               *)
LEMMA TopGrows == Counted /\ [Next]_vars => \A g \in Group : top[g] <= top'[g]
<1> SUFFICES ASSUME Counted, [Next]_vars, NEW g \in Group PROVE top[g] <= top'[g]
  OBVIOUS
<1>0. top \in [Group -> Nat]
  BY DEF Counted
<1>1. CASE UNCHANGED server \/ Revoke
  BY <1>0, <1>1 DEF server, Revoke
<1>2. ASSUME NEW h \in Group,
             Post(h) \/ Publish(h) \/ Invite(h) \/ Evict(h) \/ Purge(h) \/ Begin(h)
      PROVE  top[g] <= top'[g]
  <2>1. top' = top \/ top' = [top EXCEPT ![h] = @ + 1]
    BY <1>2 DEF Post, Publish, Invite, Evict, Purge, Begin
  <2> QED
    BY <1>0, <2>1
<1> QED
  BY <1>1, <1>2, ServerMoves

(* The views of the client are only ever added to, each group once.         *)
LEMMA ViewsGrow ==
  ASSUME Viewed, Counted, [Next]_vars
  PROVE  /\ views' \in Seq(Group) /\ IsInjective(views') /\ Known \subseteq Known'
         /\ \A i \in DOMAIN views : i \in DOMAIN views' /\ views'[i] = views[i]
<1>0. views \in Seq(Group) /\ IsInjective(views)
  BY DEF Viewed
<1>1. ASSUME views' = views
      PROVE  /\ views' \in Seq(Group) /\ IsInjective(views') /\ Known \subseteq Known'
             /\ \A i \in DOMAIN views : i \in DOMAIN views' /\ views'[i] = views[i]
  BY <1>0, <1>1 DEF Known
<1>2. ASSUME NEW q \in Seq(Group), IsInjective(q), ToSet(q) \cap Known = {}, views' = views \o q
      PROVE  /\ views' \in Seq(Group) /\ IsInjective(views') /\ Known \subseteq Known'
             /\ \A i \in DOMAIN views : i \in DOMAIN views' /\ views'[i] = views[i]
  <2> DEFINE n == Len(views)
  <2> DEFINE v == views \o q
  <2>1. /\ v \in Seq(Group) /\ Len(v) = n + Len(q) /\ n \in Nat /\ Len(q) \in Nat
        /\ \A i \in 1 .. n : v[i] = views[i]
        /\ \A i \in 1 .. Len(q) : v[n + i] = q[i]
        /\ ToSet(v) = Known \cup ToSet(q)
    BY <1>0, <1>2, Chained DEF Known
  <2>2. /\ DOMAIN views = 1 .. n /\ DOMAIN q = 1 .. Len(q) /\ DOMAIN v = 1 .. n + Len(q)
        /\ Known = {views[i] : i \in 1 .. n} /\ ToSet(q) = {q[i] : i \in 1 .. Len(q)}
    BY <1>0, <1>2, <2>1, Among DEF Known
  <2> HIDE DEF n, v
  <2>3. ASSUME NEW i \in 1 .. n + Len(q)
        PROVE  \/ i \in 1 .. n /\ v[i] = views[i] /\ v[i] \in Known
               \/ /\ i - n \in 1 .. Len(q) /\ v[i] = q[i - n] /\ v[i] \notin Known
    <3>1. CASE i <= n
      BY <2>1, <2>2, <3>1
    <3>2. CASE ~(i <= n)
      <4>1. i - n \in 1 .. Len(q) /\ n + (i - n) = i
        BY <2>1, <3>2
      <4> QED
        BY <1>2, <2>1, <2>2, <4>1
    <3> QED
      BY <3>1, <3>2
  <2>4. ASSUME NEW i \in 1 .. n + Len(q), NEW j \in 1 .. n + Len(q), v[i] = v[j]
        PROVE  i = j
    <3>1. CASE v[i] \in Known
      BY <1>0, <2>2, <2>3, <2>4, <3>1 DEF IsInjective
    <3>2. CASE v[i] \notin Known
      <4>1. i - n \in 1 .. Len(q) /\ j - n \in 1 .. Len(q) /\ q[i - n] = q[j - n]
        BY <2>3, <2>4, <3>2
      <4>2. i - n = j - n
        BY <1>2, <2>2, <4>1 DEF IsInjective
      <4> QED
        BY <2>1, <4>2
    <3> QED
      BY <3>1, <3>2
  <2>5. IsInjective(v)
    BY <2>2, <2>4 DEF IsInjective
  <2>6. \A i \in DOMAIN views : i \in DOMAIN v /\ v[i] = views[i]
    BY <2>1, <2>2
  <2>7. views' = v
    BY <1>2 DEF v
  <2> QED
    BY <2>1, <2>5, <2>6, <2>7 DEF Known
<1>3. CASE UNCHANGED reading \/ UNCHANGED <<scope, views, cursor>>
  BY <1>1, <1>3 DEF reading
<1>4. CASE PollSkip \/ PollFetch \/ PollAbsorb \/ OnReady
  BY <1>1, <1>4 DEF PollSkip, PollFetch, PollAbsorb, OnReady
<1>5. CASE PollDiscover
  <2>1. Discovered \subseteq Group /\ Discovered \cap Known = {}
    BY DEF Discovered, Memberships, Counted
  <2>2. IsFiniteSet(Discovered)
    BY <2>1, GatewayAssumption, FS_Subset
  <2>3. SetToSeq(Discovered) \in Seq(Discovered) /\ IsInjective(SetToSeq(Discovered))
        /\ ToSet(SetToSeq(Discovered)) = Discovered
    BY <2>2, Listed
  <2>4. SetToSeq(Discovered) \in Seq(Group)
    BY <2>1, <2>3, SeqMonotonic
  <2>5. views' = views \o SetToSeq(Discovered)
    BY <1>5 DEF PollDiscover
  <2> QED
    BY <1>2, <2>1, <2>3, <2>4, <2>5
<1>6. ASSUME NEW g \in Group, Begin(g)
      PROVE  /\ views' \in Seq(Group) /\ IsInjective(views') /\ Known \subseteq Known'
             /\ \A i \in DOMAIN views : i \in DOMAIN views' /\ views'[i] = views[i]
  <2>1. views' = Append(views, g) /\ g \notin Known
    BY <1>6 DEF Begin
  <2>2. views' = views \o <<g>>
    BY <1>0, <2>1, AppendIsConcat
  <2>3. <<g>> \in Seq(Group) /\ IsInjective(<<g>>) /\ ToSet(<<g>>) = {g}
    BY DEF IsInjective, ToSet
  <2> QED
    BY <1>2, <2>1, <2>2, <2>3
<1> QED
  BY <1>3, <1>4, <1>5, <1>6, ClientMoves, Zenon

LEMMA ViewedStep ==
  ASSUME Viewed, Counted, Wired, [Next]_vars
  PROVE  Viewed'
<1>0. /\ views \in Seq(Group) /\ scope \subseteq Group /\ cursor \in [Group -> Nat]
      /\ \A g \in Group : cursor[g] <= top[g]
      /\ poll \in Poll
      /\ poll.at = "page" => poll.next \in DOMAIN views /\ poll.top <= top[Here]
  BY DEF Viewed
<1>1. /\ views' \in Seq(Group) /\ IsInjective(views') /\ Known \subseteq Known'
      /\ \A i \in DOMAIN views : i \in DOMAIN views' /\ views'[i] = views[i]
  BY ViewsGrow
<1>2. \A g \in Group : top[g] \in Nat /\ top'[g] \in Nat /\ top[g] <= top'[g]
  BY TopGrows, CountedStep DEF Counted
<1>3. Known \subseteq Group /\ Known' \subseteq Group /\ DOMAIN views = 1 .. Len(views)
      /\ Len(views) \in Nat /\ \A i \in DOMAIN views : views[i] \in Group
  BY <1>0, <1>1, Among DEF Known
<1>4. ASSUME cursor' = cursor
      PROVE  cursor' \in [Group -> Nat] /\ \A g \in Group : cursor'[g] <= top'[g]
  <2>1. \A g \in Group : cursor[g] \in Nat /\ cursor[g] <= top[g]
    BY <1>0
  <2> QED
    BY <1>0, <1>2, <1>4, <2>1
<1>5. ASSUME poll' = poll
      PROVE  poll' \in Poll /\ (poll'.at = "page" => poll'.next \in DOMAIN views' /\ poll'.top <= top'[Here'])
  <2>1. CASE poll.at # "page"
    BY <1>0, <1>5, <2>1
  <2>2. CASE poll.at = "page"
    <3>1. poll.next \in DOMAIN views' /\ Here' = Here /\ Here \in Group /\ poll.top \in Nat
      BY <1>0, <1>1, <1>3, <1>5, <2>2 DEF Here, Poll
    <3>2. poll.top <= top'[Here]
      BY <1>0, <1>2, <2>2, <3>1
    <3> QED
      BY <1>0, <1>5, <3>1, <3>2
  <2> QED
    BY <2>1, <2>2
<1>6. ASSUME poll' \in Poll, poll'.at # "page"
      PROVE  poll' \in Poll /\ (poll'.at = "page" => poll'.next \in DOMAIN views' /\ poll'.top <= top'[Here'])
  BY <1>6
<1>7. ASSUME poll' = Begun \/ poll' = Idle
      PROVE  poll' = poll \/ (poll' \in Poll /\ poll'.at # "page")
  BY <1>0, <1>7 DEF Begun, Idle, Poll, Pos
<1>8. CASE UNCHANGED reading
  BY <1>0, <1>1, <1>4, <1>5, <1>8 DEF Viewed, reading
<1>9. CASE UNCHANGED <<scope, views, cursor>> /\ (poll' = Begun \/ poll' = Idle)
  <2>1. poll' \in Poll /\ (poll'.at = "page" => poll'.next \in DOMAIN views' /\ poll'.top <= top'[Here'])
    BY <1>5, <1>6, <1>7, <1>9
  <2> QED
    BY <1>0, <1>1, <1>4, <1>9, <2>1 DEF Viewed
<1>10. CASE PollSkip
  <2>1. poll' = [poll EXCEPT !.next = @ + 1] /\ poll.at = "walk" /\ UNCHANGED <<scope, cursor>>
    BY <1>10 DEF PollSkip, Walking
  <2>2. poll' \in Poll /\ poll'.at # "page"
    BY <1>0, <2>1 DEF Poll, Pos
  <2> QED
    BY <1>0, <1>1, <1>4, <1>6, <2>1, <2>2 DEF Viewed
<1>11. CASE PollFetch
  <2>1. /\ poll' = [poll EXCEPT !.at = "page", !.top = top[Here], !.floor = floor[Here]]
        /\ poll.next <= Len(views) /\ Here \in Memberships /\ UNCHANGED <<scope, cursor, views, top>>
    BY <1>11 DEF PollFetch, Walking, server
  <2>2. Here \in Group /\ top[Here] \in Nat /\ floor[Here] \in Nat /\ poll.next \in Pos
    BY <1>0, <2>1 DEF Memberships, Counted, Poll
  <2>3. poll' \in Poll /\ poll'.next = poll.next /\ poll'.top = top[Here]
    BY <1>0, <2>1, <2>2 DEF Poll
  <2>4. poll.next \in DOMAIN views
    BY <1>3, <2>1, <2>2 DEF Pos
  <2>5. Here' = Here
    BY <2>1, <2>3 DEF Here
  <2> QED
    BY <1>0, <1>1, <1>4, <2>1, <2>2, <2>3, <2>4, <2>5 DEF Viewed
<1>12. CASE PollDiscover
  <2>1. /\ poll' = [poll EXCEPT !.at = "walk"] /\ UNCHANGED <<top>>
        /\ cursor' = [g \in Group |-> IF g \in Discovered THEN welcome[g] ELSE cursor[g]]
        /\ scope' = scope \/ scope' = scope \cup (Known \cup Discovered)
    BY <1>12 DEF PollDiscover, Claim, server
  <2>2. poll' \in Poll /\ poll'.at # "page"
    BY <1>0, <2>1 DEF Poll, Pos
  <2>3. \A g \in Group : welcome[g] \in Nat /\ welcome[g] <= top[g]
    BY DEF Counted
  <2>4. cursor' \in [Group -> Nat] /\ \A g \in Group : cursor'[g] <= top'[g]
    BY <1>0, <2>1, <2>3
  <2>5. scope' \subseteq Group
    BY <1>0, <1>3, <2>1 DEF Discovered, Memberships, Counted
  <2> QED
    BY <1>1, <1>6, <2>2, <2>4, <2>5 DEF Viewed
<1>13. CASE PollAbsorb
  <2>1. poll' = [poll EXCEPT !.at = "walk", !.next = @ + 1, !.top = 0, !.floor = 0]
    BY <1>13 DEF PollAbsorb
  <2>2. /\ UNCHANGED <<scope, top>> /\ poll.at = "page"
        /\ cursor' = cursor \/ cursor' = [cursor EXCEPT ![Here] = poll.top]
    BY <1>13 DEF PollAbsorb, server
  <2>3. poll.next + 1 \in Pos /\ poll.top \in Nat
    BY <1>0 DEF Poll, Pos
  <2>4. poll' \in Poll /\ poll'.at # "page"
    BY <1>0, <2>1, <2>3 DEF Poll
  <2>5. poll.top <= top[Here]
    BY <1>0, <2>2
  <2>6. cursor' \in [Group -> Nat] /\ \A g \in Group : cursor'[g] <= top'[g]
    BY <1>0, <2>2, <2>3, <2>5
  <2> QED
    BY <1>0, <1>1, <1>6, <2>2, <2>4, <2>6 DEF Viewed
<1>14. CASE OnReady
  <2>1. /\ UNCHANGED <<cursor, poll>> /\ Arriving("ready")
        /\ scope' = scope \cup Head(down).groups
    BY <1>14 DEF OnReady
  <2>2. Head(down) \in Frame /\ Head(down).op = "ready"
    BY <2>1, Taken DEF Arriving, Wired
  <2>3. Head(down).groups \subseteq Group
    BY <2>2 DEF Frame
  <2> QED
    BY <1>0, <1>1, <1>4, <1>5, <2>1, <2>3 DEF Viewed
<1>15. ASSUME NEW g \in Group, Begin(g) PROVE Viewed'
  <2>1. UNCHANGED <<cursor, poll>> /\ scope' = scope \cup (Known \cup {g})
    BY <1>15 DEF Begin, Claim
  <2> QED
    BY <1>0, <1>1, <1>3, <1>4, <1>5, <2>1 DEF Viewed
<1> QED
  BY <1>8, <1>9, <1>10, <1>11, <1>12, <1>13, <1>14, <1>15, ClientMoves, Zenon

LEMMA UpStep ==
  ASSUME Viewed, Counted, Wired, [Next]_vars
  PROVE  up' \in Seq(Ask) /\ \A f \in ToSet(up') : f.op = "identify" => DOMAIN f.cursors \subseteq Known'
<1> DEFINE Goal == up' \in Seq(Ask)
                   /\ \A f \in ToSet(up') : f.op = "identify" => DOMAIN f.cursors \subseteq Known'
<1> SUFFICES Goal
  OBVIOUS
<1>0. /\ up \in Seq(Ask) /\ \A f \in ToSet(up) : f.op = "identify" => DOMAIN f.cursors \subseteq Known
      /\ Known \subseteq Known' /\ Known \subseteq Group
  BY ViewsGrow, Among DEF Wired, Viewed, Known
<1>1. ASSUME up' = up PROVE Goal
  BY <1>0, <1>1
<1>2. ASSUME up' = <<>> PROVE Goal
  BY <1>2, EmptySeq DEF ToSet
<1>3. ASSUME up # <<>>, up' = Tail(up) PROVE Goal
  <2>1. Tail(up) \in Seq(Ask) /\ ToSet(Tail(up)) \subseteq ToSet(up)
    BY <1>0, <1>3, Taken
  <2> QED
    BY <1>0, <1>3, <2>1
<1>4. ASSUME NEW S \in SUBSET Group, up' = up \o SetToSeq({Subscribe(g) : g \in S}) PROVE Goal
  <2> DEFINE q == SetToSeq({Subscribe(g) : g \in S})
  <2>1. q \in Seq(Ask) /\ \A f \in ToSet(q) : f.op = "subscribe"
    BY SubscribeFrames
  <2> HIDE DEF q
  <2>2. up \o q \in Seq(Ask) /\ ToSet(up \o q) = ToSet(up) \cup ToSet(q)
    BY <1>0, <2>1, Chained
  <2>3. up' = up \o q
    BY <1>4 DEF q
  <2>4. \A f \in ToSet(up') : f.op = "identify" => f \in ToSet(up)
    BY <2>1, <2>2, <2>3
  <2> QED
    BY <1>0, <2>2, <2>3, <2>4
<1>5. CASE OnHello
  <2> DEFINE c == [g \in Known |-> cursor[g]]
  <2>1. c \in [Known -> Nat]
    BY <1>0 DEF Viewed
  <2>2. c \in Cursors /\ DOMAIN c \subseteq Known
    BY <1>0, <2>1, CursorShape
  <2> HIDE DEF c
  <2>3. Identify(c) \in Ask /\ Identify(c).cursors = c
    BY <2>2 DEF Identify, Ask
  <2>4. up' = Append(up, Identify(c))
    BY <1>5 DEF OnHello, c
  <2>5. up' \in Seq(Ask) /\ ToSet(up') = ToSet(up) \cup {Identify(c)}
    BY <1>0, <2>3, <2>4, Appended
  <2> QED
    BY <1>0, <2>2, <2>3, <2>5
<1> HIDE DEF Goal
<1>6. CASE UNCHANGED vars
  BY <1>1, <1>6 DEF vars
<1>7. ASSUME NEW groups \in SUBSET Group, Claim(groups) PROVE Goal
  <2>1. groups \ scope \in SUBSET Group
    BY <1>7
  <2>2. CASE socket
    BY <1>4, <1>7, <2>1, <2>2 DEF Claim
  <2>3. CASE ~socket
    BY <1>1, <1>7, <2>3 DEF Claim
  <2> QED
    BY <2>2, <2>3
<1>8. ASSUME NEW g \in Group, Begin(g) PROVE Goal
  <2>1. Known \cup {g} \in SUBSET Group
    BY <1>0
  <2>2. Claim(Known \cup {g})
    BY <1>8 DEF Begin
  <2> QED
    BY <1>7, <2>1, <2>2
<1>9. CASE PollDiscover
  <2>1. Known \cup Discovered \in SUBSET Group
    BY <1>0 DEF Discovered, Memberships, Counted
  <2>2. up' = up \/ Claim(Known \cup Discovered)
    BY <1>9 DEF PollDiscover
  <2> QED
    BY <1>1, <1>7, <2>1, <2>2
<1>10. CASE OnReady
  <2>1. up' = up \o SetToSeq({Subscribe(g) : g \in scope \ Head(down).groups})
    BY <1>10 DEF OnReady
  <2>2. scope \ Head(down).groups \in SUBSET Group
    BY DEF Viewed
  <2> QED
    BY <1>4, <2>1, <2>2
<1>11. CASE Refuse \/ RevalidateRevoked \/ Silence \/ Cut \/ Open
  BY <1>2, <1>11 DEF Refuse, RevalidateRevoked, Silence, Cut, Open, Drop, Severed
<1>12. CASE Authenticate \/ SubscribeAsked
  BY <1>3, <1>12 DEF Authenticate, SubscribeAsked
<1>13. CASE Welcomed \/ Resumed \/ SubscribeTaken \/ RevalidateAlive \/ RevalidateGroups
            \/ \E g \in Group : ResumeOldest(g) \/ ResumeRows(g)
  BY <1>1, <1>13 DEF Welcomed, Resumed, SubscribeTaken, RevalidateAlive, RevalidateGroups,
                     ResumeOldest, ResumeRows
<1>14. CASE PollSkip \/ PollFetch \/ PollAbsorb \/ PollDone \/ PollRefused \/ Timer \/ PollFails
            \/ OnEnvelope \/ OnGap \/ Revoke
  BY <1>1, <1>14 DEF PollSkip, PollFetch, PollAbsorb, PollDone, PollRefused, Timer, PollFails,
                     OnEnvelope, OnGap, Revoke
<1>15. ASSUME NEW g \in Group,
              Post(g) \/ Publish(g) \/ Invite(g) \/ Evict(g) \/ Purge(g) \/ Announce(g)
       PROVE  Goal
  BY <1>1, <1>15 DEF Post, Publish, Invite, Evict, Purge, Announce
<1> QED
  BY <1>5, <1>6, <1>8, <1>9, <1>10, <1>11, <1>12, <1>13, <1>14, <1>15, Zenon
     DEF Next, ServerStep, PollStep

(* The frames that a step adds to those on their way down.                  *)
LEMMA DownMoves ==
  [Next]_vars =>
    \/ down' = down \/ down' = <<>> \/ down' = <<[op |-> "hello"]>>
    \/ down # <<>> /\ down' = Tail(down)
    \/ Welcomed
    \/ \E g \in Group : ResumeOldest(g) \/ ResumeRows(g) \/ Announce(g)
<1> DEFINE Goal == \/ down' = down \/ down' = <<>> \/ down' = <<[op |-> "hello"]>>
                   \/ down # <<>> /\ down' = Tail(down)
                   \/ Welcomed
                   \/ \E g \in Group : ResumeOldest(g) \/ ResumeRows(g) \/ Announce(g)
<1> SUFFICES ASSUME [Next]_vars PROVE Goal
  OBVIOUS
<1>1. CASE UNCHANGED vars
  BY <1>1 DEF vars
<1>2. CASE Refuse \/ RevalidateRevoked \/ Silence \/ Cut \/ Open
  BY <1>2 DEF Refuse, RevalidateRevoked, Silence, Cut, Open, Drop, Severed
<1>3. CASE OnHello \/ OnReady \/ OnEnvelope \/ OnGap
  BY <1>3 DEF OnHello, OnReady, OnEnvelope, OnGap, Arriving
<1>4. CASE Authenticate \/ Resumed \/ SubscribeAsked \/ SubscribeTaken \/ RevalidateAlive
           \/ RevalidateGroups \/ Revoke
  BY <1>4 DEF Authenticate, Resumed, SubscribeAsked, SubscribeTaken, RevalidateAlive,
              RevalidateGroups, Revoke
<1>5. CASE PollDiscover \/ PollSkip \/ PollFetch \/ PollAbsorb \/ PollDone \/ PollRefused \/ Timer \/ PollFails
  BY <1>5 DEF PollDiscover, PollSkip, PollFetch, PollAbsorb, PollDone, PollRefused, Timer, PollFails
<1>6. ASSUME NEW g \in Group,
             Post(g) \/ Publish(g) \/ Invite(g) \/ Evict(g) \/ Purge(g) \/ Begin(g)
      PROVE  Goal
  BY <1>6 DEF Post, Publish, Invite, Evict, Purge, Begin
<1>7. ASSUME NEW g \in Group, ResumeOldest(g) \/ ResumeRows(g) \/ Announce(g) PROVE Goal
  BY <1>7
<1>8. CASE Welcomed
  BY <1>8
<1> HIDE DEF Goal
<1> QED
  BY <1>1, <1>2, <1>3, <1>4, <1>5, <1>6, <1>7, <1>8, Zenon DEF Next, ServerStep, PollStep

LEMMA DownStep ==
  ASSUME Counted, Seated, Wired, [Next]_vars
  PROVE  down' \in Seq(Frame)
<1>0. down \in Seq(Frame)
  BY DEF Wired
<1>1. CASE down' = down \/ down' = <<>>
  BY <1>0, <1>1, EmptySeq
<1>2. CASE down' = <<[op |-> "hello"]>>
  <2>1. [op |-> "hello"] \in Frame
    BY DEF Frame
  <2> QED
    BY <1>2, <2>1
<1>3. CASE down # <<>> /\ down' = Tail(down)
  BY <1>0, <1>3, Taken
<1>4. CASE Welcomed
  <2>1. Ready(Memberships) \in Frame
    BY DEF Ready, Memberships, Counted, Frame
  <2> QED
    BY <1>0, <1>4, <2>1, Appended DEF Welcomed
<1>5. ASSUME NEW g \in Group, ResumeOldest(g) PROVE down' \in Seq(Frame)
  <2>1. Gap(g, floor[g]) \in Frame
    BY DEF Gap, Counted, Frame
  <2> QED
    BY <1>0, <1>5, <2>1, Appended DEF ResumeOldest
<1>6. ASSUME NEW g \in Group, ResumeRows(g) PROVE down' \in Seq(Frame)
  <2>1. Surviving(g, cited[g]) \in SUBSET Nat
    BY DEF Surviving, Counted
  <2>2. Envelopes(g, Surviving(g, cited[g])) \in Frame
    BY <2>1 DEF Envelopes, Frame
  <2> QED
    BY <1>0, <1>6, <2>2, Appended DEF ResumeRows
<1>7. ASSUME NEW g \in Group, Announce(g) PROVE down' \in Seq(Frame)
  <2>1. queue[g] \in Seq(Pos) /\ queue[g] # <<>>
    BY <1>7 DEF Announce, Listening, Seated
  <2>2. {Head(queue[g])} \in SUBSET Nat
    BY <2>1, Taken DEF Pos
  <2>3. Envelopes(g, {Head(queue[g])}) \in Frame
    BY <2>2 DEF Envelopes, Frame
  <2> QED
    BY <1>0, <1>7, <2>3, Appended DEF Announce
<1> QED
  BY <1>1, <1>2, <1>3, <1>4, <1>5, <1>6, <1>7, DownMoves, Zenon

LEMMA WiredStep ==
  ASSUME Viewed, Counted, Seated, Wired, [Next]_vars
  PROVE  Wired'
BY UpStep, DownStep DEF Wired

(* What changes the server's half of the session.                           *)
LEMMA SessionMoves ==
  [Next]_vars =>
    \/ UNCHANGED session /\ (UNCHANGED since \/ since' = <<>>)
    \/ Open \/ (Closed /\ Severed)
    \/ Authenticate \/ Welcomed \/ Resumed \/ SubscribeAsked \/ SubscribeTaken
    \/ RevalidateGroups \/ RevalidateAlive
    \/ \E g \in Group : Publish(g) \/ ResumeOldest(g) \/ ResumeRows(g) \/ Announce(g)
<1> SUFFICES ASSUME [Next]_vars, ~(UNCHANGED session /\ (UNCHANGED since \/ since' = <<>>))
             PROVE  \/ Open \/ (Closed /\ Severed)
                    \/ Authenticate \/ Welcomed \/ Resumed \/ SubscribeAsked \/ SubscribeTaken
                    \/ RevalidateGroups \/ RevalidateAlive
                    \/ \E g \in Group : Publish(g) \/ ResumeOldest(g) \/ ResumeRows(g) \/ Announce(g)
  OBVIOUS
<1>1. CASE UNCHANGED vars
  BY <1>1 DEF vars, session, history
<1>2. ASSUME Refuse \/ RevalidateRevoked \/ Silence PROVE Closed /\ Severed
  BY <1>2 DEF Refuse, RevalidateRevoked, Silence, Drop
<1>3. ASSUME Cut \/ OnHello \/ OnReady \/ OnEnvelope \/ OnGap \/ Revoke \/ Timer \/ PollFails
      PROVE  UNCHANGED session /\ (UNCHANGED since \/ since' = <<>>)
  BY <1>3 DEF Cut, OnHello, OnReady, OnEnvelope, OnGap, Revoke, Timer, PollFails, Severed, history
<1>4. ASSUME PollStep PROVE UNCHANGED session /\ UNCHANGED since
  BY <1>4 DEF PollStep, PollDiscover, PollSkip, PollFetch, PollAbsorb, PollDone, PollRefused, history
<1>5. ASSUME NEW g \in Group, Post(g) \/ Invite(g) \/ Evict(g) \/ Purge(g) \/ Begin(g)
      PROVE  UNCHANGED session /\ (UNCHANGED since \/ since' = <<>>)
  BY <1>5 DEF Post, Invite, Evict, Purge, Begin, history
<1> QED
  BY <1>1, <1>2, <1>3, <1>4, <1>5, Zenon DEF Next, ServerStep

LEMMA SeatedStep ==
  ASSUME Viewed, Counted, Wired, Seated, [Next]_vars
  PROVE  Seated'
<1> DEFINE Queues == /\ queue' \in [Group -> {Off} \cup Seq(Pos)]
                     /\ \A g \in Group : queue'[g] # Off =>
                          Len(queue'[g]) <= Capacity /\ stage' \notin {"closed", "hello"}
<1>0. /\ cited \in Cursors /\ DOMAIN cited \subseteq Known /\ seen \subseteq Group /\ todo \subseteq Group
      /\ queue \in [Group -> {Off} \cup Seq(Pos)]
      /\ \A g \in Group : queue[g] # Off => Len(queue[g]) <= Capacity /\ stage \notin {"closed", "hello"}
      /\ Known \subseteq Known' /\ Memberships \subseteq Group
      /\ Capacity \in Nat \ {0}
  BY ViewsGrow, GatewayAssumption DEF Seated, Listening, Memberships, Counted
<1>1. ASSUME cited' = cited \/ cited' = <<>>
      PROVE  cited' \in Cursors /\ DOMAIN cited' \subseteq Known'
  BY <1>0, <1>1, Empties
<1>2. ASSUME cited' \in Cursors, DOMAIN cited' \subseteq Known', seen' \subseteq Group,
             todo' \subseteq Group, Queues
      PROVE  Seated'
  BY <1>2 DEF Seated, Listening
<1>3. ASSUME queue' = [g \in Group |-> Off] PROVE Queues
  BY <1>3
<1>4. ASSUME queue' = queue, stage' \notin {"closed", "hello"} \/ stage' = stage PROVE Queues
  BY <1>0, <1>4
<1> HIDE DEF Queues
<1>5. CASE UNCHANGED session
  BY <1>0, <1>1, <1>2, <1>4, <1>5 DEF session
<1>6. CASE Open \/ (Closed /\ Severed)
  <2>1. /\ cited' = <<>> /\ seen' = {} /\ todo' = {} /\ queue' = [g \in Group |-> Off]
    BY <1>6 DEF Open, Closed
  <2> QED
    BY <1>1, <1>2, <1>3, <2>1
<1>7. CASE Authenticate
  <2>1. /\ up # <<>> /\ Head(up).op = "identify" /\ cited' = Head(up).cursors
        /\ UNCHANGED <<seen, todo, queue>> /\ stage' = "identified"
    BY <1>7 DEF Authenticate
  <2>2. Head(up) \in Ask /\ Head(up) \in ToSet(up)
    BY <2>1, Taken DEF Wired
  <2>3. Head(up).cursors \in Cursors /\ DOMAIN Head(up).cursors \subseteq Known
    BY <2>1, <2>2 DEF Ask, Wired
  <2> QED
    BY <1>0, <1>2, <1>4, <2>1, <2>3
<1>8. CASE Welcomed
  <2>1. /\ seen' = Memberships /\ queue' = Joined(Memberships) /\ todo' \subseteq Memberships
        /\ stage' = "resuming" /\ cited' = cited
    BY <1>8 DEF Welcomed
  <2>2. \A g \in Group : queue'[g] \in {Off} \cup Seq(Pos) /\ (queue'[g] # Off => queue'[g] = <<>>)
    BY <2>1, Empties DEF Joined
  <2>3. Queues
    BY <1>0, <2>1, <2>2, Empties DEF Joined, Queues
  <2> QED
    BY <1>0, <1>1, <1>2, <2>1, <2>3
<1>9. CASE Resumed \/ RevalidateGroups
  <2>1. /\ UNCHANGED <<cited, todo, queue>> /\ seen' \subseteq Group
        /\ stage' \notin {"closed", "hello"}
    BY <1>0, <1>9 DEF Resumed, RevalidateGroups
  <2> QED
    BY <1>0, <1>1, <1>2, <1>4, <2>1
<1>10. CASE SubscribeAsked
  <2>1. /\ UNCHANGED <<cited, todo, queue>> /\ stage = "live"
        /\ \/ UNCHANGED <<stage, seen>>
           \/ /\ Head(up).group \in Memberships
              /\ stage' = "subscribing" /\ seen' = {Head(up).group}
    BY <1>10 DEF SubscribeAsked
  <2> QED
    BY <1>0, <1>1, <1>2, <1>4, <2>1
<1>11. CASE SubscribeTaken
  <2>1. /\ queue' = [g \in Group |-> IF g \in seen THEN <<>> ELSE queue[g]]
        /\ stage' = "live" /\ seen' = {} /\ UNCHANGED <<cited, todo>> /\ stage = "subscribing"
    BY <1>11 DEF SubscribeTaken
  <2>2. Queues
    BY <1>0, <2>1, Empties DEF Queues
  <2> QED
    BY <1>0, <1>1, <1>2, <2>1, <2>2
<1>12. CASE RevalidateAlive
  <2>1. /\ queue' = [g \in Group |-> IF Left(g) THEN Off ELSE queue[g]]
        /\ stage' = "live" /\ seen' = {} /\ UNCHANGED <<cited, todo>>
    BY <1>12 DEF RevalidateAlive
  <2>2. Queues
    BY <1>0, <2>1 DEF Queues
  <2> QED
    BY <1>0, <1>1, <1>2, <2>1, <2>2
<1>13. ASSUME NEW g \in Group, ResumeOldest(g) \/ ResumeRows(g) PROVE Seated'
  <2>1. /\ UNCHANGED <<cited, queue>> /\ seen' \subseteq Group /\ todo' \subseteq Group
        /\ stage' \notin {"closed", "hello"}
    BY <1>0, <1>13 DEF ResumeOldest, ResumeRows
  <2> QED
    BY <1>0, <1>1, <1>2, <1>4, <2>1
<1>14. ASSUME NEW g \in Group, Announce(g) PROVE Seated'
  <2>1. /\ UNCHANGED <<cited, seen, todo, stage>> /\ queue[g] # Off /\ queue[g] # <<>>
        /\ queue' = [queue EXCEPT ![g] = Tail(@)]
    BY <1>14 DEF Announce, Listening
  <2>2. queue[g] \in Seq(Pos)
    BY <1>0, <2>1
  <2>3. Tail(queue[g]) \in Seq(Pos) /\ Len(Tail(queue[g])) = Len(queue[g]) - 1 /\ Len(queue[g]) \in Nat
    BY <2>1, <2>2, Taken DEF Pos
  <2>4. Len(Tail(queue[g])) <= Capacity /\ stage \notin {"closed", "hello"}
    BY <1>0, <2>1, <2>3
  <2>5. Queues
    BY <1>0, <2>1, <2>3, <2>4 DEF Queues
  <2> QED
    BY <1>0, <1>1, <1>2, <2>1, <2>5
<1>15. ASSUME NEW g \in Group, Publish(g) PROVE Seated'
  <2>1. PICK s \in owed[g] :
          \/ UNCHANGED queue
          \/ queue[g] # Off /\ Len(queue[g]) < Capacity /\ queue' = [queue EXCEPT ![g] = Append(@, s)]
          \/ queue[g] # Off /\ ~(Len(queue[g]) < Capacity)
             /\ queue' = [queue EXCEPT ![g] = Append(Tail(@), s)]
    BY <1>15 DEF Publish, Listening
  <2>2. UNCHANGED <<cited, seen, todo, stage>>
    BY <1>15 DEF Publish
  <2>3. s \in Pos
    BY DEF Counted, Pos
  <2>4. CASE UNCHANGED queue
    BY <1>0, <1>1, <1>2, <1>4, <2>2, <2>4
  <2>5. CASE queue[g] # Off /\ queue' # queue
    <3>1. queue[g] \in Seq(Pos)
      BY <1>0, <2>5
    <3>2. Len(queue[g]) \in Nat /\ Append(queue[g], s) \in Seq(Pos)
          /\ Len(Append(queue[g], s)) = Len(queue[g]) + 1
      BY <2>3, <3>1, Appended
    <3>3. CASE Len(queue[g]) < Capacity
      <4>1. queue' = [queue EXCEPT ![g] = Append(queue[g], s)]
        BY <2>1, <2>5, <3>3
      <4>2. Len(Append(queue[g], s)) <= Capacity
        BY <1>0, <3>2, <3>3
      <4>3. Queues
        BY <1>0, <2>2, <2>5, <3>2, <4>1, <4>2 DEF Queues
      <4> QED
        BY <1>0, <1>1, <1>2, <2>2, <4>3
    <3>4. CASE ~(Len(queue[g]) < Capacity)
      <4>1. queue[g] # <<>>
        BY <1>0, <3>4, Empties
      <4>2. Tail(queue[g]) \in Seq(Pos) /\ Len(Tail(queue[g])) = Len(queue[g]) - 1
        BY <3>1, <4>1, Taken
      <4>3. /\ Append(Tail(queue[g]), s) \in Seq(Pos)
            /\ Len(Append(Tail(queue[g]), s)) = Len(Tail(queue[g])) + 1
        BY <2>3, <4>2, Appended
      <4>4. Len(Append(Tail(queue[g]), s)) <= Capacity
        BY <1>0, <2>5, <3>2, <4>2, <4>3
      <4>5. queue' = [queue EXCEPT ![g] = Append(Tail(queue[g]), s)]
        BY <2>1, <2>5, <3>4
      <4>6. Queues
        BY <1>0, <2>2, <2>5, <4>3, <4>4, <4>5 DEF Queues
      <4> QED
        BY <1>0, <1>1, <1>2, <2>2, <4>6
    <3> QED
      BY <3>3, <3>4
  <2> QED
    BY <2>1, <2>4, <2>5
<1> QED
  BY <1>5, <1>6, <1>7, <1>8, <1>9, <1>10, <1>11, <1>12, <1>13, <1>14, <1>15, SessionMoves, Zenon

(* A notice put in a queue, or taken from it, is nobody's leaving it.       *)
LEMMA Noticed ==
  ASSUME Seated, Counted, NEW g \in Group, Publish(g)
  PROVE  \/ UNCHANGED <<queue, lost>> /\ queue[g] = Off /\ \E s \in owed[g] : owed' = [owed EXCEPT ![g] = @ \ {s}]
         \/ \E q \in Seq(Pos), s \in owed[g] :
              /\ queue[g] \in Seq(Pos)
              /\ owed' = [owed EXCEPT ![g] = @ \ {s}]
              /\ queue' = [queue EXCEPT ![g] = q]
              /\ \/ lost' = lost /\ ToSet(q) = ToSet(queue[g]) \cup {s}
                 \/ \E t \in Nat : /\ lost' = [lost EXCEPT ![g] = @ \cup (IF socket THEN {t} ELSE {})]
                                  /\ ToSet(q) \cup {t} = ToSet(queue[g]) \cup {s}
<1>0. PICK s \in owed[g] :
        /\ owed' = [owed EXCEPT ![g] = @ \ {s}]
        /\ \/ queue[g] = Off /\ UNCHANGED <<queue, lost>>
           \/ /\ queue[g] # Off /\ Len(queue[g]) < Capacity
              /\ queue' = [queue EXCEPT ![g] = Append(@, s)] /\ UNCHANGED lost
           \/ /\ queue[g] # Off /\ ~(Len(queue[g]) < Capacity)
              /\ queue' = [queue EXCEPT ![g] = Append(Tail(@), s)]
              /\ lost' = [lost EXCEPT ![g] = @ \cup (IF socket THEN {Head(queue[g])} ELSE {})]
  BY DEF Publish, Listening
<1>1. CASE queue[g] = Off
  BY <1>0, <1>1
<1>2. CASE queue[g] # Off
  <2>1. queue[g] \in Seq(Pos) /\ s \in Pos
    BY <1>2 DEF Seated, Counted, Pos
  <2>2. CASE Len(queue[g]) < Capacity
    <3>1. Append(queue[g], s) \in Seq(Pos) /\ ToSet(Append(queue[g], s)) = ToSet(queue[g]) \cup {s}
      BY <2>1, Appended
    <3>2. queue' = [queue EXCEPT ![g] = Append(queue[g], s)] /\ lost' = lost
      BY <1>0, <1>2, <2>2
    <3> QED
      BY <1>0, <2>1, <3>1, <3>2
  <2>3. CASE ~(Len(queue[g]) < Capacity)
    <3>1. queue[g] # <<>>
      BY <2>3, Empties, GatewayAssumption
    <3>2. /\ Tail(queue[g]) \in Seq(Pos) /\ Head(queue[g]) \in Pos
          /\ ToSet(queue[g]) = {Head(queue[g])} \cup ToSet(Tail(queue[g]))
      BY <2>1, <3>1, Taken
    <3>3. /\ Append(Tail(queue[g]), s) \in Seq(Pos)
          /\ ToSet(Append(Tail(queue[g]), s)) = ToSet(Tail(queue[g])) \cup {s}
      BY <2>1, <3>1, Shifted
    <3>4. queue' = [queue EXCEPT ![g] = Append(Tail(queue[g]), s)]
          /\ lost' = [lost EXCEPT ![g] = @ \cup (IF socket THEN {Head(queue[g])} ELSE {})]
      BY <1>0, <1>2, <2>3
    <3>5. Head(queue[g]) \in Nat
          /\ ToSet(Append(Tail(queue[g]), s)) \cup {Head(queue[g])} = ToSet(queue[g]) \cup {s}
      BY <3>2, <3>3 DEF Pos
    <3> QED
      BY <1>0, <2>1, <3>3, <3>4, <3>5
  <2> QED
    BY <2>2, <2>3
<1> QED
  BY <1>1, <1>2

LEMMA StillTuned ==
  ASSUME Seated, Counted, NEW g \in Group, Announce(g) \/ Publish(g)
  PROVE  \A h \in Group : (queue[h] # Off) <=> (queue'[h] # Off)
<1>0. queue \in [Group -> {Off} \cup Seq(Pos)] /\ Off \notin Seq(Pos)
  BY Empties DEF Seated
<1>1. ASSUME NEW q \in Seq(Pos), queue[g] # Off, queue' = [queue EXCEPT ![g] = q]
      PROVE  \A h \in Group : (queue[h] # Off) <=> (queue'[h] # Off)
  BY <1>0, <1>1
<1>2. CASE Announce(g)
  <2>1. queue[g] # Off /\ queue[g] # <<>> /\ queue' = [queue EXCEPT ![g] = Tail(queue[g])]
    BY <1>2 DEF Announce, Listening
  <2>2. Tail(queue[g]) \in Seq(Pos)
    BY <1>0, <2>1, Taken
  <2> QED
    BY <1>1, <2>1, <2>2
<1>3. CASE Publish(g)
  BY <1>0, <1>1, <1>3, Noticed
<1> QED
  BY <1>2, <1>3

LEMMA TunedStep ==
  ASSUME Seated, Recalled, Tuned, Counted, [Next]_vars
  PROVE  Tuned'
<1> USE DEF Tuned, Listening
<1>0. DOMAIN <<>> = {}
  BY Empties
<1>1. CASE UNCHANGED session /\ (UNCHANGED since \/ since' = <<>>)
  BY <1>0, <1>1 DEF session
<1>2. CASE Open \/ (Closed /\ Severed)
  <2>1. since' = <<>> /\ todo' = {} /\ stage' \in {"hello", "closed"} /\ seen' = {}
    BY <1>2 DEF Open, Closed, Severed
  <2> QED
    BY <1>0, <2>1
<1>3. CASE Authenticate
  <2>1. stage = "hello" /\ stage' = "identified" /\ UNCHANGED <<since, seen, todo, queue>>
    BY <1>3 DEF Authenticate, history
  <2> QED
    BY <2>1
<1>4. CASE Welcomed
  <2>1. /\ stage = "identified" /\ stage' = "resuming" /\ UNCHANGED <<since, cited>>
        /\ queue' = Joined(Memberships) /\ todo' = Memberships \cap DOMAIN cited
        /\ Memberships \subseteq Group
    BY <1>4 DEF Welcomed, history, Memberships, Counted
  <2>2. \A g \in Memberships : queue'[g] # Off
    BY <2>1, Empties DEF Joined
  <2> QED
    BY <2>1, <2>2
<1>5. CASE Resumed \/ RevalidateGroups
  <2>1. UNCHANGED <<since, cited, todo, queue>> /\ todo = {} /\ stage' \in {"live", "revalidating"}
        /\ stage \notin {"closed", "hello", "identified"}
    BY <1>5 DEF Resumed, RevalidateGroups, history
  <2> QED
    BY <2>1
<1>6. CASE SubscribeAsked
  <2>1. /\ UNCHANGED <<since, cited, todo, queue>> /\ stage = "live"
        /\ \/ UNCHANGED <<stage, seen>>
           \/ /\ ~Listening(Head(up).group)
              /\ stage' = "subscribing" /\ seen' = {Head(up).group}
    BY <1>6 DEF SubscribeAsked, history
  <2> QED
    BY <2>1
<1>7. CASE SubscribeTaken
  <2>1. /\ queue' = [g \in Group |-> IF g \in seen THEN <<>> ELSE queue[g]]
        /\ stage' = "live" /\ seen' = {} /\ UNCHANGED <<since, cited, todo>> /\ stage = "subscribing"
    BY <1>7 DEF SubscribeTaken, history
  <2>2. \A g \in Group : queue[g] # Off => queue'[g] # Off
    BY <2>1, Empties
  <2>3. DOMAIN since \subseteq Group /\ todo \subseteq Group
    BY CursorShape DEF Recalled, Seated
  <2> QED
    BY <2>1, <2>2, <2>3
<1>8. CASE RevalidateAlive
  <2>1. /\ queue' = [g \in Group |-> IF Left(g) THEN Off ELSE queue[g]]
        /\ since' = [g \in {h \in DOMAIN since : ~Left(h)} |-> since[g]]
        /\ stage = "revalidating" /\ stage' = "live" /\ UNCHANGED <<cited, todo>>
    BY <1>8 DEF RevalidateAlive
  <2>2. DOMAIN since' = {h \in DOMAIN since : ~Left(h)} /\ DOMAIN since \subseteq Group
    BY <2>1, CursorShape DEF Recalled
  <2> QED
    BY <2>1, <2>2
<1>9. ASSUME NEW g \in Group, ResumeOldest(g) PROVE Tuned'
  <2>1. /\ stage' = "rows" /\ todo' = todo \ {g} /\ seen' = {g} /\ g \in todo
        /\ UNCHANGED <<cited, queue>>
    BY <1>9 DEF ResumeOldest
  <2>2. since' = since \/ DOMAIN since' = DOMAIN since \cup {g}
    BY <1>9 DEF ResumeOldest
  <2>3. DOMAIN since' \subseteq DOMAIN since \cup {g}
    BY <2>2
  <2> QED
    BY <2>1, <2>3
<1>10. ASSUME NEW g \in Group, ResumeRows(g) PROVE Tuned'
  <2>1. stage = "rows" /\ stage' = "resuming" /\ UNCHANGED <<since, cited, todo, queue>>
    BY <1>10 DEF ResumeRows, history
  <2> QED
    BY <2>1
<1>11. ASSUME NEW g \in Group, Announce(g) \/ Publish(g) PROVE Tuned'
  <2>1. UNCHANGED <<since, cited, todo, seen, stage>>
    BY <1>11 DEF Announce, Publish, history
  <2>2. \A h \in Group : (queue[h] # Off) <=> (queue'[h] # Off)
    BY <1>11, StillTuned
  <2>3. DOMAIN since \subseteq Group /\ todo \subseteq Group /\ seen \subseteq Group
    BY CursorShape DEF Recalled, Seated
  <2> QED
    BY <2>1, <2>2, <2>3
<1> QED
  BY <1>1, <1>2, <1>3, <1>4, <1>5, <1>6, <1>7, <1>8, <1>9, <1>10, <1>11, SessionMoves, Zenon

LEMMA RecalledStep ==
  ASSUME Counted, Wired, Seated, Recalled, Tuned, [Next]_vars
  PROVE  Recalled'
<1> DEFINE Told == told' \in [Group -> SUBSET Nat]
<1> DEFINE Lost == lost' \in [Group -> SUBSET Nat]
<1>0. /\ since \in Cursors /\ told \in [Group -> SUBSET Nat] /\ lost \in [Group -> SUBSET Nat]
      /\ floor \in [Group -> Nat]
  BY DEF Recalled, Counted
<1>1. ASSUME since' = since \/ since' = <<>>, Told, Lost PROVE Recalled'
  BY <1>0, <1>1, Empties DEF Recalled
<1>2. ASSUME UNCHANGED <<told, lost>> PROVE Told /\ Lost
  BY <1>0, <1>2
<1> HIDE DEF Told, Lost
<1>3. ASSUME UNCHANGED history PROVE Recalled'
  BY <1>0, <1>1, <1>2, <1>3 DEF history
<1>4. CASE UNCHANGED vars
  BY <1>3, <1>4 DEF vars, history
<1>5. ASSUME Severed \/ Open PROVE Recalled'
  <2>1. told' = [g \in Group |-> {}] /\ lost' = [g \in Group |-> {}] /\ since' = <<>>
    BY <1>5 DEF Severed, Open, NoSeqs
  <2> QED
    BY <1>1, <2>1 DEF Told, Lost
<1>6. ASSUME Refuse \/ RevalidateRevoked \/ Silence \/ Cut PROVE Recalled'
  BY <1>5, <1>6 DEF Refuse, RevalidateRevoked, Silence, Cut, Drop
<1>7. CASE OnEnvelope
  <2>1. /\ told' = [told EXCEPT ![Head(down).group] = @ \cup Head(down).seqs]
        /\ UNCHANGED <<lost, since>> /\ Arriving("envelope")
    BY <1>7 DEF OnEnvelope
  <2>2. Head(down) \in Frame /\ Head(down).op = "envelope"
    BY <2>1, Taken DEF Arriving, Wired
  <2>3. Head(down).seqs \subseteq Nat
    BY <2>2 DEF Frame
  <2>4. told' \in [Group -> SUBSET Nat] /\ lost' \in [Group -> SUBSET Nat]
    BY <1>0, <2>1, <2>3
  <2> QED
    BY <1>1, <2>1, <2>4 DEF Told, Lost
<1>8. CASE OnGap
  <2>1. /\ told' = [told EXCEPT ![Head(down).group] = @ \cup 1 .. Head(down).last]
        /\ UNCHANGED <<lost, since>> /\ Arriving("gap")
    BY <1>8 DEF OnGap
  <2>2. Head(down) \in Frame /\ Head(down).op = "gap"
    BY <2>1, Taken DEF Arriving, Wired
  <2>3. 1 .. Head(down).last \subseteq Nat
    BY <2>2 DEF Frame
  <2>4. told' \in [Group -> SUBSET Nat] /\ lost' \in [Group -> SUBSET Nat]
    BY <1>0, <2>1, <2>3
  <2> QED
    BY <1>1, <2>1, <2>4 DEF Told, Lost
<1>9. ASSUME NEW g \in Group, Publish(g) PROVE Recalled'
  <2>1. UNCHANGED <<told, since>>
    BY <1>9 DEF Publish
  <2>2. lost' = lost \/ \E t \in Nat : lost' = [lost EXCEPT ![g] = @ \cup (IF socket THEN {t} ELSE {})]
    BY <1>9, Noticed
  <2>3. lost' \in [Group -> SUBSET Nat]
    BY <1>0, <2>2
  <2> QED
    BY <1>0, <1>1, <2>1, <2>3 DEF Told, Lost
<1>10. ASSUME NEW g \in Group, ResumeOldest(g) PROVE Recalled'
  <2>1. UNCHANGED <<told, lost>>
        /\ \/ since' = since
           \/ since' = [h \in DOMAIN since \cup {g} |-> IF h = g THEN floor[g] ELSE since[h]]
    BY <1>10 DEF ResumeOldest
  <2>2. DOMAIN since \subseteq Group /\ \A h \in DOMAIN since : since[h] \in Nat
    BY <1>0, CursorShape
  <2>3. CASE since' = since
    BY <1>1, <1>2, <2>1, <2>3
  <2>4. CASE since' = [h \in DOMAIN since \cup {g} |-> IF h = g THEN floor[g] ELSE since[h]]
    <3>1. since' \in [DOMAIN since \cup {g} -> Nat] /\ DOMAIN since \cup {g} \in SUBSET Group
      BY <1>0, <2>2, <2>4
    <3> QED
      BY <1>0, <2>1, <3>1, CursorShape DEF Recalled
  <2> QED
    BY <2>1, <2>3, <2>4
<1>11. CASE RevalidateAlive
  <2>1. /\ UNCHANGED <<told, lost>>
        /\ since' = [g \in {h \in DOMAIN since : ~Left(h)} |-> since[g]]
    BY <1>11 DEF RevalidateAlive
  <2>2. DOMAIN since \subseteq Group /\ \A h \in DOMAIN since : since[h] \in Nat
    BY <1>0, CursorShape
  <2>3. since' \in [{h \in DOMAIN since : ~Left(h)} -> Nat] /\ {h \in DOMAIN since : ~Left(h)} \in SUBSET Group
    BY <2>1, <2>2
  <2> QED
    BY <1>0, <2>1, <2>3, CursorShape DEF Recalled
<1>12. CASE Authenticate \/ Welcomed \/ Resumed \/ SubscribeAsked \/ SubscribeTaken
            \/ RevalidateGroups \/ Revoke \/ OnHello \/ OnReady
  BY <1>3, <1>12 DEF Authenticate, Welcomed, Resumed, SubscribeAsked, SubscribeTaken,
                     RevalidateGroups, Revoke, OnHello, OnReady
<1>13. CASE PollDiscover \/ PollSkip \/ PollFetch \/ PollAbsorb \/ PollDone \/ PollRefused \/ Timer
            \/ PollFails
  BY <1>3, <1>13 DEF PollDiscover, PollSkip, PollFetch, PollAbsorb, PollDone, PollRefused, Timer,
                     PollFails
<1>14. ASSUME NEW g \in Group,
              \/ Post(g) \/ Invite(g) \/ Evict(g) \/ Purge(g) \/ Begin(g)
              \/ ResumeRows(g) \/ Announce(g)
       PROVE  Recalled'
  BY <1>3, <1>14 DEF Post, Invite, Evict, Purge, Begin, ResumeRows, Announce
<1> QED
  BY <1>4, <1>5, <1>6, <1>7, <1>8, <1>9, <1>10, <1>11, <1>12, <1>13, <1>14, Zenon
     DEF Next, ServerStep, PollStep

-----------------------------------------------------------------------------
(* Nothing slips.                                                           *)

(* What may have become of an envelope, as NoneSlipped has it.              *)
Pending(g, s) == s \in owed[g] \cup lost[g] \cup ToSet(queue[g])
Fate(g, s) == Announced(g, s) \/ Pending(g, s) \/ (since[g] < s /\ s <= floor[g])

LEMMA FateOfAll ==
  NoneSlipped <=>
    (socket => \A g \in DOMAIN since : ~InBetween(g) =>
                 \A s \in 1 .. top[g] : cited[g] < s => Fate(g, s))
BY DEF NoneSlipped, Fate, Pending

(* A step after which the same catch-ups count, what was announced still    *)
(* is, what was pending is or is announced, and what is new is owed.        *)
LEMMA Carried ==
  ASSUME Recalled, Counted, Counted', NoneSlipped, HalfCaught,
         socket' => UNCHANGED <<socket, since, cited>>,
         \A g \in DOMAIN since : (InBetween(g))' <=> InBetween(g),
         \A g \in DOMAIN since, s \in Nat : Announced(g, s) => (Announced(g, s))',
         \A g \in DOMAIN since : \A s \in 1 .. top'[g] : s \in 1 .. top[g] \/ s \in owed'[g],
         \A g \in DOMAIN since, s \in Nat :
           Pending(g, s) => (Announced(g, s))' \/ (Pending(g, s))',
         \A g \in DOMAIN since : floor[g] <= floor'[g]
  PROVE  NoneSlipped' /\ HalfCaught'
<1>0. DOMAIN since \subseteq Group /\ \A g \in DOMAIN since : since[g] \in Nat
  BY CursorShape DEF Recalled
<1>1. CASE ~socket'
  BY <1>1 DEF NoneSlipped, HalfCaught
<1>2. CASE socket'
  <2>1. socket /\ since' = since /\ cited' = cited
    BY <1>2
  <2>2. ASSUME NEW g \in DOMAIN since, ~(InBetween(g))', NEW s \in 1 .. top'[g], cited[g] < s
        PROVE  (Fate(g, s))'
    <3>1. ~InBetween(g) /\ s \in Nat /\ g \in Group
      BY <1>0, <2>2
    <3>2. CASE s \in owed'[g]
      BY <3>2 DEF Fate, Pending
    <3>3. CASE s \in 1 .. top[g]
      <4>1. Fate(g, s)
        BY <2>1, <2>2, <3>1, <3>3, FateOfAll
      <4>2. CASE Announced(g, s)
        BY <3>1, <4>2 DEF Fate
      <4>3. CASE Pending(g, s)
        BY <3>1, <4>3 DEF Fate
      <4>4. CASE since[g] < s /\ s <= floor[g]
        <5>1. floor[g] \in Nat /\ floor'[g] \in Nat /\ floor[g] <= floor'[g]
          BY <3>1 DEF Counted
        <5>2. since'[g] < s /\ s <= floor'[g]
          BY <2>1, <3>1, <4>4, <5>1
        <5> QED
          BY <5>2 DEF Fate
      <4> QED
        BY <4>1, <4>2, <4>3, <4>4 DEF Fate
    <3> QED
      BY <2>2, <3>2, <3>3
  <2>3. ASSUME NEW g \in DOMAIN since, (InBetween(g))', NEW s \in 1 .. since[g], cited[g] < s
        PROVE  (Announced(g, s))'
    <3>1. InBetween(g) /\ s \in Nat
      BY <1>0, <2>3
    <3>2. Announced(g, s)
      BY <2>1, <2>3, <3>1 DEF HalfCaught, InBetween
    <3> QED
      BY <3>1, <3>2
  <2>4. NoneSlipped'
    BY <2>1, <2>2 DEF NoneSlipped, Fate, Pending
  <2>5. HalfCaught'
    BY <2>1, <2>3 DEF HalfCaught, InBetween
  <2> QED
    BY <2>4, <2>5
<1> QED
  BY <1>1, <1>2

(* Frames added, or none: what was announced still is.                      *)
LEMMA StillAnnounced ==
  ASSUME Wired, NEW g, NEW s, Announced(g, s), told' = told,
         down' = down \/ \E f \in Frame : down' = Append(down, f)
  PROVE  (Announced(g, s))'
<1>1. CASE down' = down
  BY <1>1 DEF Announced
<1>2. ASSUME NEW f \in Frame, down' = Append(down, f) PROVE (Announced(g, s))'
  <2>1. ToSet(down') = ToSet(down) \cup {f}
    BY <1>2, Appended DEF Wired
  <2> QED
    BY <2>1 DEF Announced
<1> QED
  BY <1>1, <1>2

(* The frame that arrived: it is what its handler was told.                 *)
LEMMA ArrivedAnnounced ==
  ASSUME Wired, NEW g, NEW s, Announced(g, s), down # <<>>, down' = Tail(down),
         s \in told[g] => s \in told'[g],
         Brings(Head(down), g, s) => s \in told'[g]
  PROVE  (Announced(g, s))'
<1>1. ToSet(down) = {Head(down)} \cup ToSet(down')
  BY Taken DEF Wired
<1> QED
  BY <1>1 DEF Announced

Shaped == Counted /\ Viewed /\ Wired /\ Seated /\ Recalled /\ Tuned

LEMMA SlipStep ==
  ASSUME Shaped, Shaped', NoneSlipped, HalfCaught, [Next]_vars
  PROVE  NoneSlipped' /\ HalfCaught'
<1> DEFINE Goal == NoneSlipped' /\ HalfCaught'
<1> SUFFICES Goal
  OBVIOUS
<1>0. /\ Counted /\ Counted' /\ Wired /\ Seated /\ Recalled /\ Tuned /\ Recalled'
      /\ DOMAIN since \subseteq Group /\ \A g \in DOMAIN since : since[g] \in Nat
      /\ DOMAIN <<>> = {}
  BY CursorShape, Empties DEF Shaped, Recalled
<1>c. /\ top \in [Group -> Nat] /\ floor \in [Group -> Nat] /\ owed \in [Group -> SUBSET Nat]
      /\ queue \in [Group -> {Off} \cup Seq(Pos)]
      /\ told \in [Group -> SUBSET Nat] /\ lost \in [Group -> SUBSET Nat]
      /\ \A g \in Group : owed[g] \subseteq 1 .. top[g]
  BY <1>0 DEF Counted, Seated, Recalled
<1>1. ASSUME ~socket' \/ DOMAIN since' = {} PROVE Goal
  BY <1>1 DEF NoneSlipped, HalfCaught
<1>2. ASSUME UNCHANGED <<socket, since, cited>>,
             \A g \in DOMAIN since : (InBetween(g))' <=> InBetween(g),
             \A g \in DOMAIN since, s \in Nat : Announced(g, s) => (Announced(g, s))',
             \A g \in DOMAIN since, s \in Nat :
               Pending(g, s) => (Announced(g, s))' \/ (Pending(g, s))',
             UNCHANGED <<top, floor>>
      PROVE  Goal
  <2>1. \A g \in DOMAIN since : \A s \in 1 .. top'[g] : s \in 1 .. top[g]
    BY <1>2
  <2>2. \A g \in DOMAIN since : floor[g] <= floor'[g]
    BY <1>0, <1>2, <1>c
  <2> QED
    BY <1>0, <1>2, <2>1, <2>2, Carried
<1>3. ASSUME UNCHANGED <<socket, since, cited, stage, seen, told, down, top, floor, owed, lost, queue>>
      PROVE  Goal
  BY <1>2, <1>3 DEF InBetween, Announced, Pending
<1> HIDE DEF Goal
<1>4. CASE UNCHANGED vars
  BY <1>3, <1>4 DEF vars, server, session, client, history
<1>5. CASE Revoke \/ Timer \/ PollDiscover \/ PollSkip \/ PollFetch \/ PollAbsorb \/ PollDone
           \/ PollRefused \/ PollFails
  BY <1>3, <1>5 DEF Revoke, Timer, PollDiscover, PollSkip, PollFetch, PollAbsorb, PollDone,
                    PollRefused, PollFails, server, session, client, history
<1>6. ASSUME NEW g \in Group, Evict(g) \/ Begin(g) PROVE Goal
  BY <1>3, <1>6 DEF Evict, Begin, server, session, client, history
<1>7. CASE Open \/ Refuse \/ RevalidateRevoked \/ Silence \/ Cut
  BY <1>0, <1>1, <1>7 DEF Open, Refuse, RevalidateRevoked, Silence, Cut, Drop, Severed
<1>8. CASE Authenticate \/ Welcomed
  <2>1. stage \in {"hello", "identified"} /\ since' = since
    BY <1>8 DEF Authenticate, Welcomed, history
  <2>2. DOMAIN since' = {}
    BY <1>0, <2>1 DEF Tuned
  <2> QED
    BY <1>1, <2>2
<1>9. CASE Resumed \/ RevalidateGroups \/ SubscribeAsked
  <2>1. /\ UNCHANGED <<socket, since, cited, told, down, top, floor, owed, lost, queue>>
        /\ stage # "rows" /\ stage' # "rows"
    BY <1>9 DEF Resumed, RevalidateGroups, SubscribeAsked, server, client, history
  <2> QED
    BY <1>2, <2>1 DEF InBetween, Announced, Pending
<1>10. CASE SubscribeTaken
  <2>1. /\ UNCHANGED <<socket, since, cited, told, down, top, floor, owed, lost>>
        /\ stage = "subscribing" /\ stage' # "rows"
        /\ queue' = [g \in Group |-> IF g \in seen THEN <<>> ELSE queue[g]]
    BY <1>10 DEF SubscribeTaken, server, client, history
  <2>2. \A g \in DOMAIN since : g \notin seen
    BY <1>0, <2>1 DEF Tuned
  <2>3. \A g \in DOMAIN since : queue'[g] = queue[g]
    BY <1>0, <2>1, <2>2
  <2> QED
    BY <1>2, <2>1, <2>3 DEF InBetween, Announced, Pending
<1>11. CASE RevalidateAlive
  <2>1. /\ UNCHANGED <<socket, cited, told, down, top, floor, owed, lost>>
        /\ stage = "revalidating" /\ stage' # "rows"
        /\ queue' = [g \in Group |-> IF Left(g) THEN Off ELSE queue[g]]
        /\ since' = [g \in {h \in DOMAIN since : ~Left(h)} |-> since[g]]
    BY <1>11 DEF RevalidateAlive, server, client
  <2>2. ASSUME NEW g \in DOMAIN since'
        PROVE  g \in DOMAIN since /\ since'[g] = since[g] /\ queue'[g] = queue[g] /\ g \in Group
    BY <1>0, <2>1
  <2>3. ASSUME socket', NEW g \in DOMAIN since', NEW s \in 1 .. top'[g], cited'[g] < s
        PROVE  (Fate(g, s))'
    <3>1. Fate(g, s)
      BY <2>1, <2>2, <2>3, FateOfAll DEF InBetween
    <3> QED
      BY <2>1, <2>2, <3>1 DEF Fate, Announced, Pending
  <2>4. NoneSlipped'
    BY <2>3 DEF NoneSlipped, Fate, Pending
  <2>5. HalfCaught'
    BY <2>1 DEF HalfCaught
  <2> QED
    BY <2>4, <2>5 DEF Goal
<1>12. CASE OnHello \/ OnReady
  <2>1. /\ UNCHANGED <<socket, since, cited, stage, seen, told, top, floor, owed, lost, queue>>
        /\ down # <<>> /\ down' = Tail(down) /\ Head(down).op \in {"hello", "ready"}
    BY <1>12 DEF OnHello, OnReady, Arriving, server, session, client, history
  <2>2. \A g \in DOMAIN since, s \in Nat : Announced(g, s) => (Announced(g, s))'
    BY <1>0, <2>1, ArrivedAnnounced DEF Brings
  <2> QED
    BY <1>2, <2>1, <2>2 DEF InBetween, Pending
<1>13. CASE OnEnvelope \/ OnGap
  <2>1. /\ UNCHANGED <<socket, since, cited, stage, seen, top, floor, owed, lost, queue>>
        /\ down # <<>> /\ down' = Tail(down)
    BY <1>13 DEF OnEnvelope, OnGap, Arriving, server, session, client, history
  <2>2. /\ Head(down).group \in Group
        /\ \/ /\ Head(down).op = "envelope"
              /\ told' = [told EXCEPT ![Head(down).group] = @ \cup Head(down).seqs]
           \/ /\ Head(down).op = "gap"
              /\ told' = [told EXCEPT ![Head(down).group] = @ \cup 1 .. Head(down).last]
    <3>1. Head(down) \in Frame
      BY <1>0, <2>1, Taken DEF Wired
    <3>2. Head(down).op \in {"envelope", "gap"}
      BY <1>13 DEF OnEnvelope, OnGap, Arriving
    <3>3. Head(down).group \in Group
      BY <3>1, <3>2 DEF Frame
    <3> QED
      BY <1>13, <3>3 DEF OnEnvelope, OnGap, Arriving
  <2>3. ASSUME NEW g \in Group, NEW s \in Nat
        PROVE  /\ s \in told[g] => s \in told'[g]
               /\ Brings(Head(down), g, s) => s \in told'[g]
    BY <1>c, <2>2 DEF Brings
  <2>4. \A g \in DOMAIN since, s \in Nat : Announced(g, s) => (Announced(g, s))'
    BY <1>0, <2>1, <2>3, ArrivedAnnounced
  <2> QED
    BY <1>2, <2>1, <2>4 DEF InBetween, Pending
<1>14. ASSUME NEW g \in Group, Post(g) \/ Invite(g) PROVE Goal
  <2>1. /\ UNCHANGED <<socket, since, cited, stage, seen, told, down, floor, lost, queue>>
        /\ top' = [top EXCEPT ![g] = @ + 1] /\ owed' = [owed EXCEPT ![g] = @ \cup {top[g] + 1}]
    BY <1>14 DEF Post, Invite, server, session, client, history
  <2>2. \A h \in DOMAIN since : \A s \in 1 .. top'[h] : s \in 1 .. top[h] \/ s \in owed'[h]
    BY <1>0, <1>c, <2>1
  <2>3. \A h \in DOMAIN since, s \in Nat : Pending(h, s) => (Pending(h, s))'
    BY <1>0, <1>c, <2>1 DEF Pending
  <2>4. \A h \in DOMAIN since : floor[h] <= floor'[h]
    BY <1>0, <1>c, <2>1
  <2> QED
    BY <1>0, <2>1, <2>2, <2>3, <2>4, Carried DEF InBetween, Announced, Goal
<1>15. ASSUME NEW g \in Group, Purge(g) PROVE Goal
  <2>1. /\ UNCHANGED <<socket, since, cited, stage, seen, told, down, top, owed, lost, queue>>
        /\ floor[g] < top[g] /\ floor' = [floor EXCEPT ![g] = top[g]]
    BY <1>15 DEF Purge, session, client, history
  <2>2. \A h \in DOMAIN since : floor[h] <= floor'[h]
    BY <1>0, <1>c, <2>1
  <2>3. \A h \in DOMAIN since : \A s \in 1 .. top'[h] : s \in 1 .. top[h]
    BY <2>1
  <2> QED
    BY <1>0, <2>1, <2>2, <2>3, Carried DEF InBetween, Announced, Pending, Goal
<1>16. ASSUME NEW g \in Group, Publish(g) PROVE Goal
  <2>1. UNCHANGED <<socket, since, cited, stage, seen, told, down, top, floor>>
    BY <1>16 DEF Publish, client
  <2>2. CASE ~socket
    BY <1>1, <2>1, <2>2
  <2>3. CASE socket
    <3>1. ASSUME NEW h \in DOMAIN since, NEW s \in Nat, Pending(h, s) PROVE (Pending(h, s))'
      <4>1. h \in Group /\ queue[h] # Off
        BY <1>0, <3>1 DEF Tuned, Listening
      <4>2. CASE queue[g] = Off
        <5>1. h # g
          BY <4>1, <4>2
        <5>2. UNCHANGED <<queue, lost>> /\ \E t \in owed[g] : owed' = [owed EXCEPT ![g] = @ \ {t}]
          BY <1>0, <1>16, <4>2, Noticed, Empties
        <5>3. owed'[h] = owed[h]
          BY <1>c, <4>1, <5>1, <5>2
        <5> QED
          BY <3>1, <5>2, <5>3 DEF Pending
      <4>3. CASE queue[g] # Off
        <5>1. PICK t \in owed[g], q \in Seq(Pos) :
                /\ owed' = [owed EXCEPT ![g] = @ \ {t}]
                /\ queue' = [queue EXCEPT ![g] = q]
                /\ \/ lost' = lost /\ ToSet(q) = ToSet(queue[g]) \cup {t}
                   \/ \E u \in Nat : /\ lost' = [lost EXCEPT ![g] = @ \cup {u}]
                                     /\ ToSet(q) \cup {u} = ToSet(queue[g]) \cup {t}
          BY <1>0, <1>16, <2>3, <4>3, Noticed
        <5>2. CASE h # g
          <6>1. owed'[h] = owed[h] /\ queue'[h] = queue[h] /\ lost'[h] = lost[h]
            BY <1>c, <4>1, <5>1, <5>2
          <6> QED
            BY <3>1, <6>1 DEF Pending
        <5>3. CASE h = g
          <6>1. owed'[g] = owed[g] \ {t} /\ queue'[g] = q
            BY <1>c, <5>1
          <6>2. ToSet(queue[g]) \cup {t} \cup lost[g] \subseteq ToSet(q) \cup lost'[g]
            BY <1>c, <5>1
          <6> QED
            BY <3>1, <5>3, <6>1, <6>2 DEF Pending
        <5> QED
          BY <5>2, <5>3
      <4> QED
        BY <4>2, <4>3
    <3>2. \A h \in DOMAIN since, s \in Nat : Pending(h, s) => (Announced(h, s))' \/ (Pending(h, s))'
      BY <3>1
    <3> QED
      BY <1>2, <2>1, <3>2 DEF InBetween, Announced
  <2> QED
    BY <2>2, <2>3
<1>17. ASSUME NEW g \in Group, Announce(g) PROVE Goal
  <2>1. /\ UNCHANGED <<socket, since, cited, stage, seen, told, top, floor, owed, lost>>
        /\ queue[g] # Off /\ queue[g] # <<>> /\ queue' = [queue EXCEPT ![g] = Tail(queue[g])]
        /\ down' = IF socket THEN Append(down, Envelopes(g, {Head(queue[g])})) ELSE down
    BY <1>17 DEF Announce, Listening, server, client, history
  <2>2. CASE ~socket
    BY <1>1, <2>1, <2>2
  <2>3. CASE socket
    <3> DEFINE f == Envelopes(g, {Head(queue[g])})
    <3>1. queue[g] \in Seq(Pos)
      BY <1>c, <2>1
    <3>2. Head(queue[g]) \in Nat /\ ToSet(queue[g]) = {Head(queue[g])} \cup ToSet(Tail(queue[g]))
      BY <2>1, <3>1, Taken DEF Pos
    <3>3. {Head(queue[g])} \in SUBSET Nat
      BY <3>2
    <3>4. f \in Frame /\ Brings(f, g, Head(queue[g]))
      BY <3>3 DEF Envelopes, Frame, Brings
    <3> HIDE DEF f
    <3>5. down' = Append(down, f)
      BY <2>1, <2>3 DEF f
    <3>6. ToSet(down') = ToSet(down) \cup {f}
      BY <1>0, <3>4, <3>5, Appended DEF Wired
    <3>7. ASSUME NEW h \in DOMAIN since, NEW s \in Nat, Pending(h, s)
          PROVE  (Announced(h, s))' \/ (Pending(h, s))'
      <4>1. h \in Group
        BY <1>0
      <4>2. CASE h = g /\ s = Head(queue[g])
        BY <3>4, <3>6, <4>2 DEF Announced
      <4>3. CASE h = g /\ s # Head(queue[g])
        <5>1. queue'[g] = Tail(queue[g])
          BY <1>c, <2>1
        <5> QED
          BY <2>1, <3>2, <3>7, <4>3, <5>1 DEF Pending
      <4>4. CASE h # g
        <5>1. queue'[h] = queue[h]
          BY <1>c, <2>1, <4>1, <4>4
        <5> QED
          BY <2>1, <3>7, <5>1 DEF Pending
      <4> QED
        BY <4>2, <4>3, <4>4
    <3>8. \A h \in DOMAIN since, s \in Nat : Announced(h, s) => (Announced(h, s))'
      BY <1>0, <2>1, <3>4, <3>5, StillAnnounced
    <3> QED
      BY <1>2, <2>1, <3>7, <3>8 DEF InBetween
  <2> QED
    BY <2>2, <2>3
<1>18. ASSUME NEW g \in Group, ResumeOldest(g) PROVE Goal
  <2>1. /\ UNCHANGED <<socket, cited, told, top, floor, owed, lost, queue>>
        /\ stage = "resuming" /\ stage' = "rows" /\ seen' = {g} /\ g \in todo
        /\ since' = IF socket THEN [h \in DOMAIN since \cup {g} |-> IF h = g THEN floor[g] ELSE since[h]]
                    ELSE since
        /\ down' = IF cited[g] < floor[g] THEN Append(down, Gap(g, floor[g])) ELSE down
    BY <1>18 DEF ResumeOldest, server, client
  <2>2. CASE ~socket
    BY <1>1, <2>1, <2>2
  <2>3. CASE socket
    <3>1. /\ DOMAIN since' = DOMAIN since \cup {g} /\ since'[g] = floor[g]
          /\ \A h \in DOMAIN since : h # g => since'[h] = since[h]
      BY <2>1, <2>3
    <3>2. Gap(g, floor[g]) \in Frame /\ cited[g] \in Nat /\ floor[g] \in Nat
      BY <1>0, <1>c, <2>1, CursorShape DEF Gap, Frame, Tuned, Seated
    <3>3. \A h, s : Announced(h, s) => (Announced(h, s))'
      BY <1>0, <2>1, <3>2, StillAnnounced
    <3>4. ASSUME NEW h \in DOMAIN since', h # g, NEW s \in 1 .. top'[h], cited'[h] < s
          PROVE  (Fate(h, s))'
      <4>1. h \in DOMAIN since /\ Fate(h, s)
        BY <2>1, <2>3, <3>1, <3>4, FateOfAll DEF InBetween
      <4> QED
        BY <2>1, <3>1, <3>3, <3>4, <4>1 DEF Fate, Pending
    <3>5. NoneSlipped'
      BY <2>1, <3>4 DEF NoneSlipped, InBetween, Fate, Pending
    <3>6. ASSUME NEW s \in 1 .. floor[g], cited[g] < s PROVE (Announced(g, s))'
      <4>1. cited[g] < floor[g]
        BY <3>2, <3>6
      <4>2. ToSet(down') = ToSet(down) \cup {Gap(g, floor[g])}
        BY <1>0, <2>1, <3>2, <4>1, Appended DEF Wired
      <4>3. Brings(Gap(g, floor[g]), g, s)
        BY <3>6 DEF Brings, Gap
      <4> QED
        BY <4>2, <4>3 DEF Announced
    <3>7. HalfCaught'
      BY <2>1, <3>1, <3>6 DEF HalfCaught
    <3> QED
      BY <3>5, <3>7 DEF Goal
  <2> QED
    BY <2>2, <2>3
<1>19. ASSUME NEW g \in Group, ResumeRows(g) PROVE Goal
  <2> DEFINE rows == Surviving(g, cited[g])
  <2>1. /\ UNCHANGED <<socket, since, cited, told, top, floor, owed, lost, queue>>
        /\ stage = "rows" /\ stage' # "rows" /\ g \in seen
        /\ down' = IF rows = {} THEN down ELSE Append(down, Envelopes(g, rows))
    BY <1>19 DEF ResumeRows, server, client, history
  <2>2. rows = {s \in 1 .. top[g] : s > cited[g] /\ s > floor[g]} /\ rows \in SUBSET Nat
    BY <1>c DEF Surviving
  <2> HIDE DEF rows
  <2>3. Envelopes(g, rows) \in Frame
    BY <2>2 DEF Envelopes, Frame
  <2>4. \A h, s : Announced(h, s) => (Announced(h, s))'
    BY <1>0, <2>1, <2>3, StillAnnounced
  <2>5. \A s \in rows : (Announced(g, s))'
    <3>1. ASSUME NEW s \in rows PROVE (Announced(g, s))'
      <4>1. ToSet(down') = ToSet(down) \cup {Envelopes(g, rows)}
        BY <1>0, <2>1, <2>3, <3>1, Appended DEF Wired
      <4>2. Brings(Envelopes(g, rows), g, s)
        BY <3>1 DEF Brings, Envelopes
      <4> QED
        BY <4>1, <4>2 DEF Announced
    <3> QED
      BY <3>1
  <2>6. ASSUME socket, NEW h \in DOMAIN since, NEW s \in 1 .. top[h], cited[h] < s
        PROVE  (Fate(h, s))'
    <3>0. s \in Nat /\ h \in Group /\ cited[h] \in Nat /\ floor[h] \in Nat /\ since[h] \in Nat
      BY <1>0, <1>c, CursorShape DEF Seated, Tuned
    <3>1. CASE h \notin seen
      <4>1. Fate(h, s)
        BY <2>6, <3>1, FateOfAll DEF InBetween
      <4> QED
        BY <2>1, <2>4, <4>1 DEF Fate, Pending
    <3>2. CASE h \in seen
      <4>1. h = g
        BY <1>0, <2>1, <3>2 DEF Tuned
      <4>2. CASE floor[h] < s
        <5>1. s \in rows
          BY <2>2, <2>6, <3>0, <4>1, <4>2
        <5> QED
          BY <2>5, <4>1, <5>1 DEF Fate
      <4>3. CASE s <= since[h]
        <5>1. s \in 1 .. since[h]
          BY <2>6, <3>0, <4>3
        <5>2. Announced(h, s)
          BY <2>1, <2>6, <3>2, <5>1 DEF HalfCaught
        <5> QED
          BY <2>4, <5>2 DEF Fate
      <4>4. CASE since[h] < s /\ s <= floor[h]
        BY <2>1, <4>4 DEF Fate
      <4> QED
        BY <3>0, <4>2, <4>3, <4>4
    <3> QED
      BY <3>1, <3>2
  <2>7. NoneSlipped'
    BY <2>1, <2>6 DEF NoneSlipped, Fate, Pending
  <2>8. HalfCaught'
    BY <2>1 DEF HalfCaught
  <2> QED
    BY <2>7, <2>8 DEF Goal
<1> QED
  BY <1>4, <1>5, <1>6, <1>7, <1>8, <1>9, <1>10, <1>11, <1>12, <1>13, <1>14, <1>15, <1>16, <1>17,
     <1>18, <1>19, Zenon DEF Next, ServerStep, PollStep

-----------------------------------------------------------------------------
(* The theorems.                                                            *)

GInv == Shaped /\ NoneSlipped /\ HalfCaught

LEMMA GInvInit == Init => GInv
<1> SUFFICES ASSUME Init PROVE GInv
  OBVIOUS
<1> USE GatewayAssumption
<1>1. Counted
  <2>1. MaxSeq \in Nat
    OBVIOUS
  <2>2. /\ member \subseteq Group /\ revoked \in BOOLEAN
        /\ top = [g \in Group |-> 0] /\ floor = [g \in Group |-> 0]
        /\ welcome = [g \in Group |-> 0] /\ owed = [g \in Group |-> {}]
    BY DEF Init, NoSeqs
  <2> QED
    BY <2>1, <2>2 DEF Counted
<1>2. IsFiniteSet(First)
  BY FS_Subset
<1>3. views \in Seq(First) /\ IsInjective(views)
  BY <1>2, Listed DEF Init
<1>4. views \in Seq(Group)
  BY <1>3, SeqMonotonic
<1>5. Viewed
  BY <1>3, <1>4 DEF Init, Viewed, Idle, Poll, Pos
<1>6. Wired
  BY Empties, EmptySeq DEF Init, Wired
<1>7. Seated
  BY Empties DEF Init, Seated, Listening
<1>8. Recalled
  BY Empties DEF Init, Recalled, NoSeqs
<1>9. Tuned
  BY Empties DEF Init, Tuned
<1>10. NoneSlipped /\ HalfCaught
  BY DEF Init, NoneSlipped, HalfCaught
<1> QED
  BY <1>1, <1>5, <1>6, <1>7, <1>8, <1>9, <1>10 DEF GInv, Shaped

LEMMA GInvStep == GInv /\ [Next]_vars => GInv'
<1> SUFFICES ASSUME GInv, [Next]_vars PROVE GInv'
  OBVIOUS
<1>1. Counted /\ Viewed /\ Wired /\ Seated /\ Recalled /\ Tuned /\ NoneSlipped /\ HalfCaught
  BY DEF GInv, Shaped
<1>2. Counted'
  BY <1>1, CountedStep
<1>3. Viewed'
  BY <1>1, ViewedStep
<1>4. Wired'
  BY <1>1, WiredStep
<1>5. Seated'
  BY <1>1, SeatedStep
<1>6. Recalled'
  BY <1>1, RecalledStep
<1>7. Tuned'
  BY <1>1, TunedStep
<1>8. Shaped /\ Shaped'
  BY <1>1, <1>2, <1>3, <1>4, <1>5, <1>6, <1>7 DEF Shaped
<1>9. NoneSlipped' /\ HalfCaught'
  BY <1>1, <1>8, SlipStep
<1> QED
  BY <1>8, <1>9 DEF GInv

LEMMA Inductive == Spec => []GInv
<1> QED
  BY GInvInit, GInvStep, PTL DEF Spec

(* Types; the queues of the hub stay within their capacity, and a session   *)
(* that has ended, or is not identified yet, listens to nothing.            *)
THEOREM TypeCorrect == Spec => []TypeOK
<1>1. GInv => TypeOK
  <2> SUFFICES ASSUME GInv PROVE TypeOK
    OBVIOUS
  <2>1. Counted /\ Viewed /\ Seated
    BY DEF GInv, Shaped
  <2>2. \A g \in Group : floor[g] \in Nat
    BY <2>1 DEF Counted
  <2> QED
    BY <2>1, <2>2 DEF Counted, Viewed, Seated, TypeOK
<1> QED
  BY <1>1, Inductive, PTL

(* Whatever a group listened to has past the cursor its session was opened  *)
(* with is announced or on its way, however posts, publications, removals,  *)
(* purges and cuts fall between the steps of the catch-up.                  *)
THEOREM NothingSlips == Spec => []NoneSlipped
<1>1. GInv => NoneSlipped
  BY DEF GInv
<1> QED
  BY <1>1, Inductive, PTL

=============================================================================
