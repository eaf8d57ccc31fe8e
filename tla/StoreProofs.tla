---------------------------- MODULE StoreProofs ----------------------------
(***************************************************************************)
(* The safety properties of Store, proved for any number of envelopes and  *)
(* of locks.                                                               *)
(***************************************************************************)
EXTENDS Store, TLAPS

Covers(n, thread) == \A k \in 1..n : thread[k] > 0

\* A message is in the thread once if the ratchet has been through it, and not otherwise.
Tidy(m) == \A n \in 1..MaxWork : m.thread[n] <= 1 /\ (n > m.mls => m.thread[n] = 0)

\* What is being written is no further than the session it was taken from, whose thread covers what
\* its ratchet consumed; and the thread a write reads was read after its ratchet.
Covered ==
  /\ \A s \in Slots : Alive(s) => Covers(session[s].mls, session[s].thread)
  /\ \A s \in Slots, f \in Flows : ~Idle(s, f) => write[s][f].rec.mls <= session[s].mls
  /\ \A s \in Slots, f \in Flows :
       write[s][f].at = "history" => Covers(write[s][f].rec.mls, write[s][f].rec.thread)
  /\ ThreadCoversRatchet

\* As long as no record ahead of its ratchet was stored, nothing is shown twice.
Exact ==
  ~ahead =>
    /\ \A s \in Slots : Alive(s) => Tidy(session[s])
    /\ \A s \in Slots, f \in Flows, n \in 1..MaxWork : write[s][f].rec.thread[n] <= 1
    /\ stored # None => Tidy(stored)

\* Once a clean erasure is made, whoever is left is condemned and writes nothing.
Erased ==
  /\ erasing # "no" /\ Alive("screen") => session["screen"].forgotten
  /\ clean => /\ stored = None
              /\ \A s \in Slots : Quiet(s) /\ (Alive(s) => session[s].forgotten)

Inv == TypeOK /\ Covered /\ Exact /\ Erased

LEMMA Shapes ==
  /\ Unread \in Threads /\ Fresh \in Session /\ Blank \in Record /\ NoWrite \in Write
  /\ NoWrites \in [Slots -> [Flows -> Write]] /\ NoSessions \in [Slots -> Session \cup {None}]
  /\ \A n \in 1..MaxWork : Unread[n] = 0
<1> USE StoreAssumption
<1>1. Unread \in Threads /\ \A n \in 1..MaxWork : Unread[n] = 0
  BY DEF Unread, Threads
<1>2. Fresh \in Session /\ Blank \in Record
  BY <1>1 DEF Fresh, Session, Blank, Record, Locks
<1>3. NoWrite \in Write
  BY <1>2 DEF NoWrite, Write
<1> QED
  BY <1>1, <1>2, <1>3 DEF NoWrites, NoSessions

LEMMA Initially == Init => Inv
<1> SUFFICES ASSUME Init PROVE Inv
  OBVIOUS
<1>1. (\A s \in Slots : ~Alive(s)) /\ (\A s \in Slots : Quiet(s)) /\ stored = None
  BY DEF Init, Alive, Quiet, Idle, NoSessions, NoWrites, NoWrite
<1>2. TypeOK
  <2>1. locks \in Locks /\ erasing \in {"no", "asked", "done"} /\ clean \in BOOLEAN /\ ahead \in BOOLEAN
    <3>1. locks = 0 /\ erasing = "no" /\ clean = FALSE /\ ahead = FALSE
      BY Zenon DEF Init
    <3>2. locks \in Locks
      BY <3>1, StoreAssumption DEF Locks
    <3> QED
      BY <3>1, <3>2, Zenon
  <2>2. session \in [Slots -> Session \cup {None}] /\ write \in [Slots -> [Flows -> Write]]
    BY Shapes DEF Init
  <2> QED
    BY <1>1, <2>1, <2>2 DEF TypeOK, Slots
<1>3. Covered
  BY <1>1 DEF Init, Covered, ThreadCoversRatchet, Quiet, Idle
<1>4. Exact
  <2>1. \A s \in Slots, f \in Flows : write[s][f].rec.thread = Unread
    BY DEF Init, NoWrites, NoWrite, Blank
  <2> QED
    BY <1>1, <2>1, Shapes DEF Exact
<1>5. Erased
  BY <1>1 DEF Init, Erased, Slots
<1> QED
  BY <1>2, <1>3, <1>4, <1>5 DEF Inv

\* Session s goes on as m, and begins a write on flow f unless it is condemned.
LEMMA PersistStep ==
  ASSUME Inv, NEW s \in Slots, NEW f \in Flows, NEW m \in Session, Idle(s, f), Persist(s, f, m),
         stored' = stored, erasing' = erasing, ahead' = ahead, locks' \in Locks, clean' \in BOOLEAN,
         s = "dropped" => m.lock # 0,
         Alive(s) => session[s].mls <= m.mls,
         Covers(m.mls, m.thread), ~ahead => Tidy(m),
         erasing # "no" /\ s = "screen" => m.forgotten,
         clean' => clean /\ m.forgotten
  PROVE  Inv'
<1>1. /\ session' = [session EXCEPT ![s] = m]
      /\ write' = IF MayPersist(m)
                  THEN [write EXCEPT ![s][f] = [at |-> "seed", rec |-> Snapshot(m)]]
                  ELSE write
  BY DEF Persist
<1>2. /\ session \in [Slots -> Session \cup {None}] /\ write \in [Slots -> [Flows -> Write]]
      /\ stored \in Record \cup {None}
  BY DEF Inv, TypeOK
<1>3. m # None
  BY NoneAssumption
<1>4. /\ session' \in [Slots -> Session \cup {None}] /\ session'[s] = m
      /\ \A t \in Slots : t # s => session'[t] = session[t]
  BY <1>1, <1>2
<1>5. Snapshot(m) \in Record /\ Snapshot(m).mls = m.mls /\ Snapshot(m).thread = Unread
  BY Shapes DEF Snapshot, Blank, Record, Session
<1> DEFINE w == [at |-> "seed", rec |-> Snapshot(m)]
<1>6. w \in Write /\ w.at = "seed" /\ w.rec = Snapshot(m)
  BY <1>5 DEF Write
<1> HIDE DEF w
<1>7. /\ write' \in [Slots -> [Flows -> Write]]
      /\ \A t \in Slots, g \in Flows : write'[t][g] # w => write'[t][g] = write[t][g]
      /\ \A t \in Slots, g \in Flows : t # s \/ g # f => write'[t][g] = write[t][g]
      /\ m.forgotten => write' = write
  <2>1. CASE m.forgotten
    <3>1. write' = write
      BY <1>1, <2>1, Zenon DEF MayPersist
    <3> QED
      BY <1>2, <3>1, Zenon
  <2>2. CASE ~m.forgotten
    <3>1. write' = [write EXCEPT ![s][f] = w]
      BY <1>1, <2>2, Zenon DEF MayPersist, w
    <3>2. /\ write' \in [Slots -> [Flows -> Write]]
          /\ \A t \in Slots, g \in Flows : write'[t][g] # w => write'[t][g] = write[t][g]
          /\ \A t \in Slots, g \in Flows : t # s \/ g # f => write'[t][g] = write[t][g]
      BY <1>2, <1>6, <3>1
    <3> QED
      BY <2>2, <3>2, Zenon
  <2> QED
    BY <2>1, <2>2
<1>8. \A t \in Slots : ~Alive(t) => Quiet(t)
  BY DEF Inv, TypeOK
<1>9. TypeOK'
  <2>1. \A t \in Slots : ~Alive(t)' => Quiet(t)'
    BY <1>3, <1>4, <1>7, <1>8 DEF Alive, Quiet, Idle
  <2>2. Alive("dropped")' => session'["dropped"].lock # 0
    BY <1>4 DEF Inv, TypeOK, Alive, Slots
  <2> QED
    BY <1>2, <1>4, <1>7, <2>1, <2>2 DEF Inv, TypeOK
<1>10. Covered'
  <2>1. \A t \in Slots : Alive(t)' => Covers(session'[t].mls, session'[t].thread)
    BY <1>4 DEF Inv, Covered, Alive
  <2>2. \A t \in Slots, g \in Flows : ~Idle(t, g)' => write'[t][g].rec.mls <= session'[t].mls
    <3> SUFFICES ASSUME NEW t \in Slots, NEW g \in Flows, ~Idle(t, g)'
                 PROVE  write'[t][g].rec.mls <= session'[t].mls
      OBVIOUS
    <3>1. CASE write'[t][g] = w
      <4>1. CASE t = s
        BY <1>4, <1>5, <1>6, <3>1, <4>1 DEF Session
      <4>2. CASE t # s
        BY <1>4, <1>7, <4>2 DEF Inv, Covered, Idle
      <4> QED
        BY <4>1, <4>2
    <3>2. CASE write'[t][g] = write[t][g]
      <4>1. ~Idle(t, g) /\ Alive(t)
        BY <1>8, <3>2 DEF Idle, Quiet
      <4>2. session[t] \in Session /\ write[t][g].rec.mls \in Nat
        BY <1>2, <4>1 DEF Alive, Write, Record
      <4>3. write[t][g].rec.mls <= session[t].mls
        BY <4>1 DEF Inv, Covered
      <4> QED
        BY <1>4, <3>2, <4>1, <4>2, <4>3 DEF Session
    <3> QED
      BY <1>7, <3>1, <3>2
  <2>3. \A t \in Slots, g \in Flows :
          write'[t][g].at = "history" => Covers(write'[t][g].rec.mls, write'[t][g].rec.thread)
    BY <1>6, <1>7 DEF Inv, Covered
  <2>4. ThreadCoversRatchet'
    BY DEF Inv, Covered, ThreadCoversRatchet
  <2> QED
    BY <2>1, <2>2, <2>3, <2>4 DEF Covered
<1>11. Exact'
  <2>1. \A n \in 1..MaxWork : w.rec.thread[n] <= 1
    BY <1>5, <1>6, Shapes
  <2> SUFFICES ASSUME ~ahead
               PROVE  /\ \A t \in Slots : Alive(t)' => Tidy(session'[t])
                      /\ \A t \in Slots, g \in Flows, n \in 1..MaxWork : write'[t][g].rec.thread[n] <= 1
                      /\ stored # None => Tidy(stored)
    BY DEF Exact, Tidy
  <2> QED
    BY <1>4, <1>7, <2>1 DEF Inv, Exact, Alive
<1>12. Erased'
  <2>1. (erasing # "no" /\ Alive("screen") => session["screen"].forgotten)'
    BY <1>4 DEF Inv, Erased, Alive, Slots
  <2>2. ASSUME clean'
        PROVE  stored' = None /\ \A t \in Slots : Quiet(t)' /\ (Alive(t)' => session'[t].forgotten)
    <3>1. clean /\ m.forgotten
      BY <2>2
    <3>2. write' = write
      BY <1>7, <3>1
    <3> QED
      BY <1>4, <3>1, <3>2 DEF Inv, Erased, Alive, Quiet, Idle
  <2> QED
    BY <2>1, <2>2 DEF Erased
<1> QED
  BY <1>9, <1>10, <1>11, <1>12 DEF Inv

----------------------------------------------------------------------------
LEMMA InvFacts ==
  ASSUME Inv
  PROVE  /\ stored \in Record \cup {None} /\ session \in [Slots -> Session \cup {None}]
         /\ write \in [Slots -> [Flows -> Write]] /\ locks \in Locks
         /\ \A s \in Slots : Alive(s) => session[s] \in Session
         /\ \A s \in Slots : ~Alive(s) => Quiet(s)
BY DEF Inv, TypeOK, Alive

\* A step of a write that is under way, and of nothing else.
LEMMA WriteStep ==
  ASSUME Inv, NEW s \in Slots, NEW f \in Flows, NEW w \in Write, ~Idle(s, f),
         write' = [write EXCEPT ![s][f] = w],
         UNCHANGED <<session, locks, erasing>>, ahead' \in BOOLEAN, ahead => ahead',
         clean' = clean, stored' \in Record, clean => stored' = None,
         w.at # "none" => w.rec.mls <= session[s].mls,
         w.at = "history" => Covers(w.rec.mls, w.rec.thread),
         Covers(stored'.mls, stored'.thread),
         ~ahead' => (\A n \in 1..MaxWork : w.rec.thread[n] <= 1) /\ Tidy(stored')
  PROVE  Inv'
<1>1. /\ write' \in [Slots -> [Flows -> Write]] /\ write'[s][f] = w
      /\ \A t \in Slots, g \in Flows : t # s \/ g # f => write'[t][g] = write[t][g]
  BY InvFacts
<1>2. Alive(s)
  BY InvFacts DEF Quiet
<1>3. TypeOK'
  BY <1>1, <1>2 DEF Inv, TypeOK, Alive, Quiet, Idle
<1>4. Covered'
  <2>1. \A t \in Slots, g \in Flows : ~Idle(t, g)' => write'[t][g].rec.mls <= session'[t].mls
    BY <1>1 DEF Inv, Covered, Idle
  <2>2. \A t \in Slots, g \in Flows :
          write'[t][g].at = "history" => Covers(write'[t][g].rec.mls, write'[t][g].rec.thread)
    BY <1>1 DEF Inv, Covered
  <2>3. ThreadCoversRatchet'
    BY DEF ThreadCoversRatchet, Covers
  <2> QED
    BY <2>1, <2>2, <2>3 DEF Inv, Covered, Alive
<1>5. Exact'
  BY <1>1 DEF Inv, Exact, Alive
<1>6. Erased'
  BY <1>1, <1>2 DEF Inv, Erased, Quiet, Idle, Alive
<1> QED
  BY <1>3, <1>4, <1>5, <1>6 DEF Inv

\* The same, where the store is left alone.
LEMMA SealStep ==
  ASSUME Inv, NEW s \in Slots, NEW f \in Flows, NEW w \in Write, ~Idle(s, f),
         write' = [write EXCEPT ![s][f] = w],
         UNCHANGED <<stored, session, locks, erasing, past>>,
         w.at # "none" => w.rec.mls <= session[s].mls,
         w.at = "history" => Covers(w.rec.mls, w.rec.thread),
         ~ahead => \A n \in 1..MaxWork : w.rec.thread[n] <= 1
  PROVE  Inv'
<1>1. /\ write' \in [Slots -> [Flows -> Write]] /\ write'[s][f] = w
      /\ \A t \in Slots, g \in Flows : t # s \/ g # f => write'[t][g] = write[t][g]
  BY InvFacts
<1>2. Alive(s) /\ ahead' = ahead /\ clean' = clean
  BY InvFacts DEF Quiet, past
<1>3. TypeOK'
  BY <1>1, <1>2 DEF Inv, TypeOK, Alive, Quiet, Idle, past
<1>4. Covered'
  <2>1. \A t \in Slots, g \in Flows : ~Idle(t, g)' => write'[t][g].rec.mls <= session'[t].mls
    BY <1>1 DEF Inv, Covered, Idle
  <2>2. \A t \in Slots, g \in Flows :
          write'[t][g].at = "history" => Covers(write'[t][g].rec.mls, write'[t][g].rec.thread)
    BY <1>1 DEF Inv, Covered
  <2> QED
    BY <2>1, <2>2 DEF Inv, Covered, Alive, ThreadCoversRatchet
<1>5. Exact'
  BY <1>1, <1>2 DEF Inv, Exact, Alive
<1>6. Erased'
  BY <1>1, <1>2 DEF Inv, Erased, Quiet, Idle, Alive
<1> QED
  BY <1>3, <1>4, <1>5, <1>6 DEF Inv

LEMMA WritingStep ==
  ASSUME Inv, NEW s \in Slots, NEW f \in Flows,
         SealState(s, f) \/ SealHistory(s, f) \/ Land(s, f) \/ Fail(s, f)
  PROVE  Inv'
<1> DEFINE u == write[s][f]
<1>1. /\ u \in Write /\ ~Idle(s, f) /\ Alive(s) /\ session[s] \in Session
      /\ write \in [Slots -> [Flows -> Write]]
  <2>1. u.at # "none"
    BY DEF SealState, SealHistory, Land, Fail
  <2> QED
    BY <2>1, InvFacts DEF Idle, Quiet
<1>2. u.rec \in Record /\ u.rec.mls <= session[s].mls /\ u.rec.mls \in Nat /\ session[s].mls \in Nat
  BY <1>1 DEF Inv, Covered, Write, Record, Session
<1>3. NoWrite \in Write /\ NoWrite.at = "none" /\ \A n \in 1..MaxWork : NoWrite.rec.thread[n] = 0
  BY Shapes DEF NoWrite, Blank
<1>4. CASE SealState(s, f)
  <2>1. PICK w : w = [u EXCEPT !.at = "state", !.rec.state = StateKey(session[s])]
    OBVIOUS
  <2>2. w \in Write /\ w.at = "state" /\ w.rec.mls = u.rec.mls /\ w.rec.thread = u.rec.thread
    BY <1>1, <1>2, <2>1 DEF Write, Record, Session, StateKey
  <2>3. write' = [write EXCEPT ![s][f] = w]
    BY <1>1, <1>4, <2>1 DEF SealState
  <2>4. ~ahead => \A n \in 1..MaxWork : w.rec.thread[n] <= 1
    BY <2>2 DEF Inv, Exact
  <2>5. UNCHANGED <<stored, session, locks, erasing, past>>
    BY <1>4 DEF SealState
  <2> HIDE DEF u
  <2> QED
    BY <1>1, <1>2, <2>2, <2>3, <2>4, <2>5, SealStep
<1>5. CASE SealHistory(s, f)
  <2>1. PICK w : w = [u EXCEPT !.at = "history", !.rec.history = session[s].lock,
                               !.rec.thread = session[s].thread]
    OBVIOUS
  <2>2. w \in Write /\ w.at = "history" /\ w.rec.mls = u.rec.mls /\ w.rec.thread = session[s].thread
    BY <1>1, <1>2, <2>1 DEF Write, Record, Session
  <2>3. write' = [write EXCEPT ![s][f] = w]
    BY <1>1, <1>5, <2>1 DEF SealHistory
  <2>4. ~ahead => \A n \in 1..MaxWork : w.rec.thread[n] <= 1
    BY <1>1, <2>2 DEF Inv, Exact, Tidy
  <2>5. Covers(w.rec.mls, w.rec.thread)
    BY <1>1, <1>2, <2>2 DEF Inv, Covered, Covers
  <2>6. UNCHANGED <<stored, session, locks, erasing, past>>
    BY <1>5 DEF SealHistory
  <2> HIDE DEF u
  <2> QED
    BY <1>1, <1>2, <2>2, <2>3, <2>4, <2>5, <2>6, SealStep
<1>6. CASE Land(s, f)
  <2>1. /\ write' = [write EXCEPT ![s][f] = NoWrite] /\ stored' = u.rec /\ u.at = "history"
        /\ ahead' = (ahead \/ Ahead(u.rec)) /\ UNCHANGED <<session, locks, erasing, clean>>
    BY <1>6 DEF Land, Over
  <2>2. Covers(u.rec.mls, u.rec.thread)
    BY <2>1 DEF Inv, Covered
  <2>3. ~clean
    BY <1>1 DEF Inv, Erased, Quiet
  <2>4. ~ahead' => ~ahead /\ Tidy(u.rec)
    <3> SUFFICES ASSUME ~ahead' PROVE ~ahead /\ Tidy(u.rec)
      OBVIOUS
    <3>1. ~ahead /\ \A n \in 1..MaxWork : n > u.rec.mls => ~(u.rec.thread[n] > 0)
      BY <2>1 DEF Ahead
    <3>2. \A n \in 1..MaxWork : u.rec.thread[n] \in 0..2
      BY <1>2 DEF Record, Threads
    <3> QED
      BY <3>1, <3>2 DEF Inv, Exact, Tidy
  <2>5. ahead' \in BOOLEAN /\ (ahead => ahead')
    BY <2>1
  <2>6. stored' \in Record /\ Covers(stored'.mls, stored'.thread) /\ (clean => stored' = None)
    BY <1>2, <2>1, <2>2, <2>3
  <2>7. ~ahead' => (\A n \in 1..MaxWork : NoWrite.rec.thread[n] <= 1) /\ Tidy(stored')
    BY <1>3, <2>1, <2>4
  <2> HIDE DEF u
  <2> QED
    BY <1>1, <1>3, <2>1, <2>5, <2>6, <2>7, WriteStep
<1>7. CASE Fail(s, f)
  <2>1. /\ write' = [write EXCEPT ![s][f] = NoWrite] /\ UNCHANGED <<stored, session, locks, erasing, past>>
        /\ \A n \in 1..MaxWork : NoWrite.rec.thread[n] <= 1
    BY <1>3, <1>7 DEF Fail, Over
  <2> QED
    BY <1>1, <1>3, <2>1, SealStep
<1> QED
  BY <1>4, <1>5, <1>6, <1>7

----------------------------------------------------------------------------
\* Session s goes on as m, which differs from it in what no write reads.
LEMMA TurnStep ==
  ASSUME Inv, NEW s \in Slots, Alive(s), NEW m \in Session, session' = [session EXCEPT ![s] = m],
         m.mls = session[s].mls, m.thread = session[s].thread, m.lock = session[s].lock,
         session[s].forgotten => m.forgotten,
         UNCHANGED <<stored, write, locks>>, ahead' = ahead, clean' = clean,
         erasing' \in {"no", "asked", "done"},
         erasing' # "no" => erasing # "no" \/ (s = "screen" /\ m.forgotten)
  PROVE  Inv'
<1>1. /\ session' \in [Slots -> Session \cup {None}] /\ session'[s] = m /\ m # None
      /\ \A t \in Slots : t # s => session'[t] = session[t]
  BY InvFacts, NoneAssumption
<1>2. \A t \in Slots : Alive(t)' <=> Alive(t)
  BY <1>1 DEF Alive
<1>3. TypeOK'
  BY <1>1, <1>2 DEF Inv, TypeOK, Alive, Quiet, Idle, Slots
<1>4. Covered'
  BY <1>1, <1>2 DEF Inv, Covered, Alive, Idle, ThreadCoversRatchet
<1>5. Exact'
  <2>1. \A t \in Slots : Alive(t)' /\ Tidy(session[t]) => Tidy(session'[t])
    BY <1>1, <1>2 DEF Tidy
  <2> QED
    BY <1>2, <2>1 DEF Inv, Exact
<1>6. Erased'
  <2>1. (erasing # "no" /\ Alive("screen") => session["screen"].forgotten)'
    BY <1>1, <1>2 DEF Inv, Erased, Slots
  <2>2. (clean => stored = None /\ \A t \in Slots : Quiet(t) /\ (Alive(t) => session[t].forgotten))'
    BY <1>1, <1>2 DEF Inv, Erased, Quiet, Idle
  <2> QED
    BY <2>1, <2>2 DEF Erased
<1> QED
  BY <1>3, <1>4, <1>5, <1>6 DEF Inv

LEMMA PollStep ==
  ASSUME Inv, NEW s \in Slots, Ask(s) \/ AskFails(s) \/ Answered(s)
  PROVE  Inv'
<1>1. Alive(s) /\ session[s] \in Session /\ "poll" \in Flows
  BY InvFacts DEF Ask, AskFails, Answered, Flows
<1>2. CASE Ask(s) \/ AskFails(s)
  <2>1. PICK b \in BOOLEAN : session' = [session EXCEPT ![s].polling = b]
    BY <1>2 DEF Ask, AskFails
  <2> DEFINE m == [session[s] EXCEPT !.polling = b]
  <2>2. /\ m \in Session /\ m.mls = session[s].mls /\ m.thread = session[s].thread
        /\ m.lock = session[s].lock /\ m.forgotten = session[s].forgotten
    BY <1>1 DEF Session
  <2>3. session' = [session EXCEPT ![s] = m]
    BY <2>1
  <2>4. UNCHANGED <<stored, write, locks, erasing>> /\ ahead' = ahead /\ clean' = clean
    BY <1>2 DEF Ask, AskFails, past
  <2>5. erasing' \in {"no", "asked", "done"} /\ (erasing' # "no" => erasing # "no")
    BY <2>4 DEF Inv, TypeOK
  <2> HIDE DEF m
  <2>6. (session[s].forgotten => m.forgotten) /\ UNCHANGED <<stored, write, locks>>
    BY <2>2, <2>4
  <2>7. erasing' # "no" => erasing # "no" \/ (s = "screen" /\ m.forgotten)
    BY <2>5
  <2> QED
    BY <1>1, <2>2, <2>3, <2>4, <2>5, <2>6, <2>7, TurnStep
<1>3. CASE Answered(s)
  <2>1. PICK got \in {FALSE, TRUE} :
          /\ got => session[s].mls < MaxWork
          /\ LET m == [session[s] EXCEPT !.polling = FALSE]
             IN  Persist(s, "poll", IF got THEN Absorbed(m) ELSE m)
    BY <1>3 DEF Answered
  <2>2. /\ Idle(s, "poll") /\ UNCHANGED <<stored, locks, erasing>> /\ ahead' = ahead /\ clean' = clean
    BY <1>3 DEF Answered, past
  <2> DEFINE q == [session[s] EXCEPT !.polling = FALSE]
  <2>3. /\ q \in Session /\ q.mls = session[s].mls /\ q.thread = session[s].thread
        /\ q.lock = session[s].lock /\ q.forgotten = session[s].forgotten
    BY <1>1 DEF Session
  <2>4. Covers(q.mls, q.thread) /\ (~ahead => Tidy(q))
    BY <1>1, <2>3 DEF Inv, Covered, Exact, Tidy
  <2>5. q.mls \in 0..MaxWork /\ q.thread \in Threads
    BY <2>3 DEF Session
  <2> HIDE DEF q
  <2>6. PICK m : m = (IF got THEN Absorbed(q) ELSE q)
    OBVIOUS
  <2>7. /\ m \in Session /\ session[s].mls <= m.mls /\ m.lock = session[s].lock
        /\ m.forgotten = session[s].forgotten
        /\ Covers(m.mls, m.thread) /\ (~ahead => Tidy(m))
    <3>1. CASE ~got
      <4>1. m = q
        BY <2>6, <3>1
      <4> QED
        BY <2>3, <2>4, <2>5, <4>1, StoreAssumption
    <3>2. CASE got
      <4>1. m = [q EXCEPT !.mls = @ + 1, !.thread[q.mls + 1] = Capped(@ + 1)]
        BY <2>6, <3>2, Zenon DEF Absorbed
      <4>2. q.mls + 1 \in 1..MaxWork /\ q.mls \in Nat
        BY <2>1, <2>3, <2>5, <3>2, StoreAssumption
      <4>3. q.thread[q.mls + 1] \in 0..2
        BY <2>5, <4>2 DEF Threads
      <4>4. Capped(q.thread[q.mls + 1] + 1) \in 1..2
            /\ (q.thread[q.mls + 1] = 0 => Capped(q.thread[q.mls + 1] + 1) = 1)
        BY <4>3 DEF Capped
      <4>5. PICK c \in 1..2 : c = Capped(q.thread[q.mls + 1] + 1)
        BY <4>4
      <4> DEFINE th == [q.thread EXCEPT ![q.mls + 1] = c]
      <4>6. th \in Threads /\ th[q.mls + 1] = c
            /\ \A n \in 1..MaxWork : n # q.mls + 1 => th[n] = q.thread[n]
        BY <2>5, <4>2, StoreAssumption DEF Threads
      <4>7. m = [q EXCEPT !.mls = q.mls + 1, !.thread = th]
        BY <2>3, <4>1, <4>5, Zenon
      <4> HIDE DEF th
      <4>8. m \in Session /\ m.mls = q.mls + 1 /\ m.thread = th /\ m.lock = q.lock
        <5>1. q.mls + 1 \in 0..MaxWork
          BY <4>2, StoreAssumption
        <5> QED
          BY <2>3, <4>6, <4>7, <5>1 DEF Session
      <4>9. m.forgotten = q.forgotten
        BY <2>3, <4>7 DEF Session
      <4>10. Covers(m.mls, m.thread)
        <5> SUFFICES ASSUME NEW n \in 1..(q.mls + 1) PROVE th[n] > 0
          BY <4>8 DEF Covers
        <5>1. n = q.mls + 1 \/ (n \in 1..q.mls /\ n \in 1..MaxWork /\ n # q.mls + 1)
          BY <4>2, StoreAssumption
        <5> QED
          BY <2>4, <4>6, <5>1 DEF Covers
      <4>11. ~ahead => Tidy(m)
        <5> SUFFICES ASSUME ~ahead, NEW n \in 1..MaxWork
                     PROVE  th[n] <= 1 /\ (n > q.mls + 1 => th[n] = 0)
          BY <4>8 DEF Tidy
        <5>1. q.thread[n] <= 1 /\ (n > q.mls => q.thread[n] = 0)
          BY <2>4 DEF Tidy
        <5>2. CASE n = q.mls + 1
          BY <4>2, <4>4, <4>5, <4>6, <5>1, <5>2
        <5>3. CASE n # q.mls + 1
          BY <4>2, <4>6, <5>1, <5>3
        <5> QED
          BY <5>2, <5>3
      <4> QED
        BY <2>3, <4>2, <4>8, <4>9, <4>10, <4>11
    <3> QED
      BY <3>1, <3>2
  <2>8. Persist(s, "poll", m)
    BY <2>1, <2>6 DEF q
  <2>9. s = "dropped" => m.lock # 0
    BY <1>1, <2>7 DEF Inv, TypeOK
  <2>10. erasing # "no" /\ s = "screen" => m.forgotten
    BY <1>1, <2>7 DEF Inv, Erased
  <2>11. clean' => clean /\ m.forgotten
    BY <1>1, <2>2, <2>7 DEF Inv, Erased
  <2>12. locks' \in Locks /\ clean' \in BOOLEAN
    BY <2>2 DEF Inv, TypeOK
  <2> QED
    BY <1>1, <2>2, <2>7, <2>8, <2>9, <2>10, <2>11, <2>12, PersistStep
<1> QED
  BY <1>2, <1>3

\* What the user does to the session on screen.
LEMMA UserStep ==
  ASSUME Inv, Act \/ EnableLock \/ DisableLock
  PROVE  Inv'
<1> DEFINE o == session["screen"]
<1>1. /\ Alive("screen") /\ Idle("screen", "user") /\ o \in Session /\ "screen" \in Slots /\ "user" \in Flows
      /\ stored' = stored /\ erasing' = erasing /\ ahead' = ahead /\ clean' = clean
      /\ o.mls \in Nat
  <2>1. Alive("screen")
    BY DEF Act, EnableLock, DisableLock
  <2> QED
    BY <2>1, InvFacts, StoreAssumption DEF Act, EnableLock, DisableLock, past, Slots, Flows, Session
<1>2. ASSUME NEW l \in Locks, Persist("screen", "user", [o EXCEPT !.lock = l]), locks' \in Locks
      PROVE  Inv'
  <2> DEFINE m == [o EXCEPT !.lock = l]
  <2>1. m \in Session /\ m.mls = o.mls /\ m.thread = o.thread /\ m.forgotten = o.forgotten
    BY <1>1, <1>2 DEF Session
  <2>2. Persist("screen", "user", m)
    BY <1>2
  <2> HIDE DEF m
  <2>3. Covers(m.mls, m.thread) /\ (~ahead => Tidy(m)) /\ session["screen"].mls <= m.mls
    BY <1>1, <2>1 DEF Inv, Covered, Exact, Tidy
  <2>4. (erasing # "no" => m.forgotten) /\ (clean' => clean /\ m.forgotten) /\ clean' \in BOOLEAN
    BY <1>1, <2>1 DEF Inv, Erased, TypeOK
  <2> QED
    BY <1>1, <1>2, <2>1, <2>2, <2>3, <2>4, PersistStep
<1>3. CASE Act
  <2>1. o = [o EXCEPT !.lock = o.lock] /\ o.lock \in Locks
    BY <1>1 DEF Session
  <2>2. locks' \in Locks
    BY <1>3 DEF Act, Inv, TypeOK
  <2> QED
    BY <1>2, <1>3, <2>1, <2>2 DEF Act
<1>4. CASE EnableLock
  <2>1. locks + 1 \in Locks
    BY <1>4, StoreAssumption DEF EnableLock, Inv, TypeOK, Locks
  <2> QED
    BY <1>2, <1>4, <2>1 DEF EnableLock
<1>5. CASE DisableLock
  <2>1. 0 \in Locks /\ locks' \in Locks
    BY <1>5, StoreAssumption DEF DisableLock, Inv, TypeOK, Locks
  <2> QED
    BY <1>2, <1>5, <2>1 DEF DisableLock
<1> QED
  BY <1>3, <1>4, <1>5

\* The session handed out is blank, and so is the record its first write left.
LEMMA CreateStep ==
  ASSUME Inv, Create
  PROVE  Inv'
<1> DEFINE m == Fresh
           r == Snapshot(Fresh)
<1>1. /\ session = NoSessions /\ erasing = "no" /\ clean' = FALSE /\ stored' = r
      /\ session' = [session EXCEPT !["screen"] = m]
      /\ UNCHANGED <<write, locks, erasing, ahead>>
  BY DEF Create
<1>2. "screen" \in Slots /\ \A s \in Slots : ~Alive(s) /\ Quiet(s)
  BY <1>1, InvFacts DEF Slots, Alive, NoSessions
<1>3. m \in Session /\ m.mls = 0 /\ m.thread = Unread /\ m.lock = 0
  BY Shapes DEF Fresh
<1>4. r \in Record /\ r.mls = 0 /\ r.thread = Unread
  BY <1>3, Shapes DEF Snapshot, Blank, Record, Session
<1>5. Covers(0, Unread) /\ Tidy(m) /\ Tidy(r)
  BY <1>3, <1>4, Shapes DEF Covers, Tidy
<1> HIDE DEF m, r
<1>6. /\ session' \in [Slots -> Session \cup {None}] /\ session'["screen"] = m /\ m # None /\ r # None
      /\ \A s \in Slots : s # "screen" => session'[s] = session[s]
  BY <1>1, <1>2, <1>3, <1>4, InvFacts, NoneAssumption
<1>7. TypeOK'
  BY <1>1, <1>2, <1>4, <1>6 DEF Inv, TypeOK, Alive, Quiet, Idle, Slots
<1>8. Covered'
  <2>1. \A s \in Slots : Alive(s)' => Covers(session'[s].mls, session'[s].thread)
    BY <1>2, <1>3, <1>5, <1>6 DEF Alive
  <2>2. \A s \in Slots, f \in Flows : Idle(s, f)'
    BY <1>1, <1>2 DEF Quiet, Idle
  <2>3. ThreadCoversRatchet'
    BY <1>1, <1>4 DEF ThreadCoversRatchet
  <2> QED
    BY <2>1, <2>2, <2>3 DEF Covered, Idle
<1>9. Exact'
  BY <1>1, <1>2, <1>5, <1>6 DEF Inv, Exact, Alive, Tidy
<1>10. Erased'
  BY <1>1 DEF Erased
<1> QED
  BY <1>7, <1>8, <1>9, <1>10 DEF Inv

LEMMA ForgetStep ==
  ASSUME Inv, Forget
  PROVE  Inv'
<1> DEFINE o == session["screen"]
           m == [o EXCEPT !.forgotten = TRUE]
<1>1. /\ Alive("screen") /\ erasing' = "asked" /\ session' = [session EXCEPT !["screen"] = m]
      /\ UNCHANGED <<stored, write, locks>> /\ ahead' = ahead /\ clean' = clean
  BY DEF Forget, past
<1>2. "screen" \in Slots /\ o \in Session
  BY <1>1, InvFacts DEF Slots
<1>3. m \in Session /\ m.mls = o.mls /\ m.thread = o.thread /\ m.lock = o.lock /\ m.forgotten = TRUE
  BY <1>2 DEF Session
<1> HIDE DEF m
<1>4. (o.forgotten => m.forgotten) /\ erasing' \in {"no", "asked", "done"}
      /\ (erasing' # "no" => erasing # "no" \/ ("screen" = "screen" /\ m.forgotten))
  BY <1>1, <1>3
<1> QED
  BY <1>1, <1>2, <1>3, <1>4, TurnStep

\* The session on screen is dropped, its writes with it.
LEMMA RelockStep ==
  ASSUME Inv, Relock
  PROVE  Inv'
<1>1. /\ Alive("screen") /\ session["screen"].lock # 0 /\ ~Alive("dropped")
      /\ session' = [screen |-> None, dropped |-> session["screen"]]
      /\ write' = [screen |-> write["dropped"], dropped |-> write["screen"]]
      /\ UNCHANGED <<stored, locks, erasing>> /\ ahead' = ahead /\ clean' = clean
  BY DEF Relock, Locked, past
<1>2. /\ session["screen"] \in Session /\ Quiet("dropped")
      /\ write["screen"] \in [Flows -> Write] /\ write["dropped"] \in [Flows -> Write]
  BY <1>1, InvFacts DEF Slots
<1>3. /\ session'["screen"] = None /\ session'["dropped"] = session["screen"]
      /\ write'["screen"] = write["dropped"] /\ write'["dropped"] = write["screen"]
  BY <1>1
<1>4. session' \in [Slots -> Session \cup {None}] /\ write' \in [Slots -> [Flows -> Write]]
  BY <1>1, <1>2 DEF Slots
<1>5. \A s \in Slots : s = "screen" \/ s = "dropped"
  BY DEF Slots
<1>6. ~Alive("screen")' /\ Alive("dropped")' /\ Quiet("screen")' /\ (Quiet("dropped")' <=> Quiet("screen"))
  BY <1>1, <1>2, <1>3 DEF Alive, Quiet, Idle
<1>7. TypeOK'
  BY <1>1, <1>3, <1>4, <1>5, <1>6 DEF Inv, TypeOK
<1>8. Covered'
  <2>1. \A s \in Slots : Alive(s)' => Covers(session'[s].mls, session'[s].thread)
    BY <1>1, <1>3, <1>5, <1>6 DEF Inv, Covered, Slots
  <2>2. \A s \in Slots, f \in Flows : ~Idle(s, f)' => write'[s][f].rec.mls <= session'[s].mls
    BY <1>3, <1>5, <1>6 DEF Inv, Covered, Slots, Idle, Quiet
  <2>3. \A s \in Slots, f \in Flows :
          write'[s][f].at = "history" => Covers(write'[s][f].rec.mls, write'[s][f].rec.thread)
    BY <1>3, <1>5 DEF Inv, Covered, Slots
  <2> QED
    BY <1>1, <2>1, <2>2, <2>3 DEF Inv, Covered, ThreadCoversRatchet
<1>9. Exact'
  BY <1>1, <1>3, <1>5, <1>6 DEF Inv, Exact, Slots
<1>10. Erased'
  BY <1>1, <1>3, <1>5, <1>6 DEF Inv, Erased, Slots
<1> QED
  BY <1>7, <1>8, <1>9, <1>10 DEF Inv

LEMMA OpenStep ==
  ASSUME Inv, Open
  PROVE  Inv'
<1> DEFINE m == [Fresh EXCEPT !.lock = stored.lock, !.mls = CursorOf(stored), !.thread = stored.thread]
<1>1. /\ ~Alive("screen") /\ erasing = "no" /\ stored # None
      /\ session' = [session EXCEPT !["screen"] = m]
      /\ UNCHANGED <<stored, write, locks, erasing>> /\ ahead' = ahead /\ clean' = clean
  BY DEF Open, past
<1>2. stored \in Record /\ ~clean /\ Quiet("screen") /\ "screen" \in Slots
  BY <1>1, InvFacts DEF Inv, Erased, Slots
<1>3. m \in Session /\ m.mls = stored.mls /\ m.thread = stored.thread
  BY <1>2, Shapes DEF Fresh, Session, Record, CursorOf
<1> HIDE DEF m
<1>4. /\ session' \in [Slots -> Session \cup {None}] /\ session'["screen"] = m /\ m # None
      /\ \A s \in Slots : s # "screen" => session'[s] = session[s]
  BY <1>1, <1>2, <1>3, InvFacts, NoneAssumption
<1>5. TypeOK'
  BY <1>1, <1>4 DEF Inv, TypeOK, Alive, Quiet, Idle, Slots
<1>6. Covered'
  <2>1. \A s \in Slots : Alive(s)' => Covers(session'[s].mls, session'[s].thread)
    BY <1>1, <1>3, <1>4 DEF Inv, Covered, Alive, ThreadCoversRatchet, Covers
  <2>2. \A s \in Slots, f \in Flows : ~Idle(s, f)' => write'[s][f].rec.mls <= session'[s].mls
    BY <1>1, <1>2, <1>4 DEF Inv, Covered, Idle, Quiet
  <2> QED
    BY <1>1, <2>1, <2>2 DEF Inv, Covered, ThreadCoversRatchet
<1>7. Exact'
  BY <1>1, <1>3, <1>4 DEF Inv, Exact, Alive, Tidy
<1>8. Erased'
  BY <1>1, <1>2 DEF Inv, Erased
<1> QED
  BY <1>5, <1>6, <1>7, <1>8 DEF Inv

LEMMA CollectStep ==
  ASSUME Inv, Collect
  PROVE  Inv'
<1>1. /\ Quiet("dropped") /\ session' = [session EXCEPT !["dropped"] = None]
      /\ UNCHANGED <<stored, write, locks, erasing>> /\ ahead' = ahead /\ clean' = clean
  BY DEF Collect, past
<1>2. /\ session' \in [Slots -> Session \cup {None}] /\ session'["dropped"] = None
      /\ \A s \in Slots : s # "dropped" => session'[s] = session[s]
  BY <1>1, InvFacts DEF Slots
<1>3. TypeOK'
  BY <1>1, <1>2 DEF Inv, TypeOK, Alive, Quiet, Idle, Slots
<1>4. Covered'
  BY <1>1, <1>2 DEF Inv, Covered, Alive, Quiet, Idle, Slots, ThreadCoversRatchet
<1>5. Exact'
  BY <1>1, <1>2 DEF Inv, Exact, Alive
<1>6. Erased'
  BY <1>1, <1>2 DEF Inv, Erased, Alive, Quiet, Idle, Slots
<1> QED
  BY <1>3, <1>4, <1>5, <1>6 DEF Inv

LEMMA EraseStep ==
  ASSUME Inv, ForgetLocked \/ Clear \/ Reload
  PROVE  Inv'
<1>1. CASE ForgetLocked
  BY <1>1 DEF ForgetLocked, past, Inv, TypeOK, Covered, Exact, Erased, Alive, Quiet, Idle,
              ThreadCoversRatchet
<1>2. CASE Clear
  <2>1. /\ erasing = "asked" /\ erasing' = "done" /\ stored' = None
        /\ UNCHANGED <<session, write, locks>> /\ ahead' = ahead
        /\ clean' = (~Alive("dropped") /\ Quiet("screen"))
    BY <1>2 DEF Clear
  <2>2. TypeOK'
    BY <2>1 DEF Inv, TypeOK, Alive, Quiet, Idle
  <2>3. Covered' /\ Exact'
    BY <2>1 DEF Inv, Covered, Exact, Alive, Idle, ThreadCoversRatchet
  <2>4. Erased'
    <3>1. Alive("screen") => session["screen"].forgotten
      BY <2>1 DEF Inv, Erased
    <3>2. ASSUME clean' PROVE \A s \in Slots : Quiet(s) /\ (Alive(s) => session[s].forgotten)
      BY <2>1, <3>1, <3>2, InvFacts DEF Slots
    <3> QED
      BY <2>1, <3>1, <3>2 DEF Erased, Alive, Quiet, Idle
  <2> QED
    BY <2>2, <2>3, <2>4 DEF Inv
<1>3. CASE Reload
  <2>1. /\ erasing' = "no" /\ session' = NoSessions /\ write' = NoWrites
        /\ UNCHANGED <<stored, locks>> /\ ahead' = ahead /\ clean' = clean
    BY <1>3 DEF Reload, past
  <2>2. \A s \in Slots : ~Alive(s)' /\ Quiet(s)'
    BY <2>1 DEF Alive, NoSessions, Quiet, Idle, NoWrites, NoWrite
  <2>3. TypeOK'
    BY <2>1, <2>2, Shapes DEF Inv, TypeOK, Slots
  <2>4. Covered'
    BY <2>1, <2>2 DEF Inv, Covered, ThreadCoversRatchet, Quiet, Idle
  <2>5. \A s \in Slots, f \in Flows, n \in 1..MaxWork : write'[s][f].rec.thread[n] <= 1
    BY <2>1, Shapes DEF NoWrites, NoWrite, Blank
  <2>6. Exact'
    BY <2>1, <2>2, <2>5 DEF Inv, Exact
  <2>7. Erased'
    BY <2>1, <2>2 DEF Inv, Erased, Slots
  <2> QED
    BY <2>3, <2>4, <2>6, <2>7 DEF Inv
<1> QED
  BY <1>1, <1>2, <1>3

LEMMA InvStep == Inv /\ [Next]_vars => Inv'
<1> SUFFICES ASSUME Inv, [Next]_vars PROVE Inv'
  OBVIOUS
<1>1. CASE UNCHANGED vars
  BY <1>1 DEF vars, Inv, TypeOK, Covered, Exact, Erased, Alive, Quiet, Idle, ThreadCoversRatchet
<1>2. CASE Next
  <2>1. "screen" \in Slots
    BY DEF Slots
  <2> QED
    BY <1>2, <2>1, WritingStep, PollStep, UserStep, CreateStep, ForgetStep, RelockStep, OpenStep,
       CollectStep, EraseStep DEF Next, Writing
<1> QED
  BY <1>1, <1>2

LEMMA InvAlways == Spec => []Inv
BY Initially, InvStep, PTL DEF Spec

(* Types; and no write is left behind by a session that is gone.           *)
THEOREM StoreTypes == Spec => []TypeOK
<1>1. Inv => TypeOK
  BY DEF Inv
<1> QED
  BY <1>1, InvAlways, PTL

(* Whatever record the page dies with, it holds the text of every envelope *)
(* its ratchet has consumed, for any number of envelopes, of locks and of  *)
(* overlapping writes.                                                     *)
THEOREM ThreadCoversRatchetHolds == Spec => []ThreadCoversRatchet
<1>1. Inv => ThreadCoversRatchet
  BY DEF Inv, Covered
<1> QED
  BY <1>1, InvAlways, PTL

(* Nothing is shown twice but after a record ahead of its ratchet.         *)
THEOREM ShownOnceHolds == Spec => []ShownOnce
<1>1. Inv => ShownOnce
  BY DEF Inv, Exact, ShownOnce, Tidy
<1> QED
  BY <1>1, InvAlways, PTL

(* A clean erasure lasts until an identity is created.                     *)
THEOREM ErasedStaysHolds == Spec => []ErasedStays
<1>1. Inv => ErasedStays
  BY DEF Inv, Erased, ErasedStays
<1> QED
  BY <1>1, InvAlways, PTL

=============================================================================
