------------------------------- MODULE Store -------------------------------
(***************************************************************************)
(* What the client keeps between two sessions: one record, put together    *)
(* over several awaits (session.ts persist, session-persist.ts             *)
(* composeStored) while the lock may be switched (session-lock.ts), the    *)
(* identity erased (forget) and the session dropped for another (App.tsx). *)
(*                                                                         *)
(* A session has two flows that write: its poll, and what the user does.   *)
(* The MLS state, with its cursor, is the number of envelopes that went    *)
(* through it; the thread counts the copies of each plaintext; a lock is   *)
(* the number of the master key it made, 0 for the device key alone.       *)
(***************************************************************************)
EXTENDS Naturals

CONSTANTS MaxWork,    \* bound on the envelopes a ratchet consumes
          MaxLocks,   \* bound on the locks ever set
          None

ASSUME StoreAssumption ==
  MaxWork \in Nat /\ MaxLocks \in Nat

\* The session on screen, and the last one dropped while it was still at work.
Slots   == {"screen", "dropped"}
Flows   == {"poll", "user"}
Locks   == 0 .. MaxLocks
Threads == [1..MaxWork -> 0..2]

\* StoredSession: the envelope of the lock, and the key two of its blobs are under.
\* The seed's is handed to the cipher as the envelope is read, and never differs.
Record == [lock : Locks, state : Locks, history : Locks,
           mls : 0..MaxWork, thread : Threads]

Session == [lock : Locks, mls : 0..MaxWork,
            thread : Threads, polling : BOOLEAN, forgotten : BOOLEAN]

\* A write: the blob being sealed, or the transaction on its way.
Write == [at : {"none", "seed", "state", "history"}, rec : Record]

ASSUME NoneAssumption == None \notin Session \cup Record

VARIABLES stored,    \* the record in IndexedDB
          session, write,
          locks,     \* how many were ever set
          erasing,   \* "asked": a clear is on its way; "done": and the page is to reload
          clean,     \* history: the last clear landed with nothing else in flight
          ahead      \* history: a thread was stored ahead of the ratchet beside it

vars == <<stored, session, write, locks, erasing, clean, ahead>>
past == <<clean, ahead>>

Unread     == [n \in 1..MaxWork |-> 0]
Fresh      == [lock |-> 0, mls |-> 0, thread |-> Unread,
               polling |-> FALSE, forgotten |-> FALSE]
Blank      == [lock |-> 0, state |-> 0, history |-> 0,
               mls |-> 0, thread |-> Unread]
NoWrite    == [at |-> "none", rec |-> Blank]
NoSessions == [s \in Slots |-> None]
NoWrites   == [s \in Slots |-> [f \in Flows |-> NoWrite]]

Init ==
  /\ stored = None
  /\ session = NoSessions
  /\ write = NoWrites
  /\ locks = 0 /\ erasing = "no" /\ clean = FALSE /\ ahead = FALSE

Alive(s)   == session[s] # None
Idle(s, f) == write[s][f].at = "none"

\* Every blob of the record opens with the key its own envelope leads to.
Whole(r) == r.state = r.lock /\ r.history = r.lock

\* The thread shows a message whose envelope the ratchet has yet to go through.
Ahead(r) == \E n \in 1..MaxWork : n > r.mls /\ r.thread[n] > 0

----------------------------------------------------------------------------
(* persist, a seal at a time.                                              *)

\* Mutant: nobody looks at the flag forget raises.
MayPersistAlways(m) == TRUE

MayPersist(m) == ~m.forgotten

\* Read together before anything is awaited; the seed goes to the cipher there and then.
Snapshot(m) == [Blank EXCEPT !.lock = m.lock, !.mls = m.mls]

\* Session s, now m, begins a write on flow f, unless it is condemned.
Persist(s, f, m) ==
  /\ session' = [session EXCEPT ![s] = m]
  /\ write' = IF MayPersist(m)
              THEN [write EXCEPT ![s][f] = [at |-> "seed", rec |-> Snapshot(m)]]
              ELSE write

\* Mutant: the state goes to the device's key whatever lock there is.
StateKeyDevice(m) == 0

\* lockbox.cipher, looked up when the seed is sealed.
StateKey(m) == m.lock

SealState(s, f) ==
  /\ write[s][f].at = "seed"
  /\ write' = [write EXCEPT ![s][f] = [@ EXCEPT !.at = "state",
                                               !.rec.state = StateKey(session[s])]]
  /\ UNCHANGED <<stored, session, locks, erasing, past>>

\* The thread, the outbox and the cipher are read here, two awaits after the ratchet.
SealHistory(s, f) ==
  /\ write[s][f].at = "state"
  /\ write' = [write EXCEPT ![s][f] = [@ EXCEPT !.at = "history",
                                               !.rec.history = session[s].lock,
                                               !.rec.thread = session[s].thread]]
  /\ UNCHANGED <<stored, session, locks, erasing, past>>

Over(s, f) == write' = [write EXCEPT ![s][f] = NoWrite]

\* The transaction commits: the record is replaced whole.
Land(s, f) ==
  /\ write[s][f].at = "history"
  /\ stored' = write[s][f].rec
  /\ ahead' = (ahead \/ Ahead(write[s][f].rec))
  /\ Over(s, f)
  /\ UNCHANGED <<session, locks, erasing, clean>>

\* The store refuses, and persist rejects.
Fail(s, f) ==
  /\ write[s][f].at = "history" /\ Over(s, f)
  /\ UNCHANGED <<stored, session, locks, erasing, past>>

----------------------------------------------------------------------------
(* The poll of a session, one at a time (poll, pollOnce).                  *)

Ask(s) ==
  /\ Alive(s) /\ ~session[s].polling /\ Idle(s, "poll")
  /\ session' = [session EXCEPT ![s].polling = TRUE]
  /\ UNCHANGED <<stored, write, locks, erasing, past>>

AskFails(s) ==
  /\ Alive(s) /\ session[s].polling
  /\ session' = [session EXCEPT ![s].polling = FALSE]
  /\ UNCHANGED <<stored, write, locks, erasing, past>>

\* Mutant: the message is pushed only once the write has landed, that is after a crash could.
AbsorbedUnseen(m) == [m EXCEPT !.mls = @ + 1]

Capped(n) == IF n > 2 THEN 2 ELSE n

\* The next envelope: the ratchet and the cursor move, its message joins the thread.
Absorbed(m) == [m EXCEPT !.mls = @ + 1, !.thread[m.mls + 1] = Capped(@ + 1)]

\* The page arrives, with an envelope or none, and the view is persisted either way.
Answered(s) ==
  /\ Alive(s) /\ session[s].polling /\ Idle(s, "poll")
  /\ \E got \in {FALSE, TRUE} :
       /\ got => session[s].mls < MaxWork
       /\ LET m == [session[s] EXCEPT !.polling = FALSE]
          IN  Persist(s, "poll", IF got THEN Absorbed(m) ELSE m)
  /\ UNCHANGED <<stored, locks, erasing, past>>

----------------------------------------------------------------------------
(* What the user does.                                                     *)

\* A send, a setting: something outside this module changes, and is persisted.
Act ==
  /\ Alive("screen") /\ Idle("screen", "user")
  /\ Persist("screen", "user", session["screen"])
  /\ UNCHANGED <<stored, locks, erasing, past>>

\* enableLock: the envelope and the cipher change at once, and a write begins.
EnableLock ==
  /\ Alive("screen") /\ Idle("screen", "user")
  /\ session["screen"].lock = 0 /\ locks < MaxLocks
  /\ locks' = locks + 1
  /\ Persist("screen", "user", [session["screen"] EXCEPT !.lock = locks + 1])
  /\ UNCHANGED <<stored, erasing, past>>

\* disableLock, the password being right.
DisableLock ==
  /\ Alive("screen") /\ Idle("screen", "user") /\ session["screen"].lock # 0
  /\ Persist("screen", "user", [session["screen"] EXCEPT !.lock = 0])
  /\ UNCHANGED <<stored, locks, erasing, past>>

Quiet(s) == \A f \in Flows : Idle(s, f)

\* Mutant: the screen is dropped of a session that has no lock.
LockedAlways(m) == TRUE

Locked(m) == m.lock # 0

\* relock: the object is dropped from the screen, and what it has in flight goes on.
Relock ==
  /\ Alive("screen") /\ Locked(session["screen"]) /\ ~Alive("dropped")
  /\ session' = [screen |-> None, dropped |-> session["screen"]]
  /\ write' = [screen |-> write["dropped"], dropped |-> write["screen"]]
  /\ UNCHANGED <<stored, locks, erasing, past>>

\* Nothing holds a dropped session once its flows are done.
Collect ==
  /\ Alive("dropped") /\ ~session["dropped"].polling /\ Quiet("dropped")
  /\ session' = [session EXCEPT !["dropped"] = None]
  /\ UNCHANGED <<stored, write, locks, erasing, past>>

\* Mutant: the cursor is not in the record, and the ratchet's envelopes are asked for again.
CursorLost(r) == 0

\* Where the reading resumes.
CursorOf(r) == r.mls

\* Session.open: what the record says, if the key its lock leads to opens the blobs.
Open ==
  /\ ~Alive("screen") /\ erasing = "no"
  /\ stored # None /\ Whole(stored)
  /\ session' = [session EXCEPT !["screen"] =
       [Fresh EXCEPT !.lock = stored.lock, !.mls = CursorOf(stored), !.thread = stored.thread]]
  /\ UNCHANGED <<stored, write, locks, erasing, past>>

\* The page asks for a password, or opens the session by itself.
Usable == stored # None /\ (stored.lock # 0 \/ Whole(stored))

\* Onboarding: the page was loaded on an empty store, or on one that does not open. attach awaits its
\* first write before it hands the session out: until it lands nobody holds what is being created,
\* and if it fails or the page dies the store is as it was.
Create ==
  /\ session = NoSessions /\ erasing = "no" /\ ~Usable
  /\ session' = [session EXCEPT !["screen"] = Fresh]
  /\ stored' = Snapshot(Fresh)
  /\ clean' = FALSE
  /\ UNCHANGED <<write, locks, erasing, ahead>>

----------------------------------------------------------------------------
(* Erasing, and the death of the page.                                     *)

\* forget: this instance is condemned, and a clear is asked for.
Forget ==
  /\ Alive("screen") /\ erasing = "no"
  /\ erasing' = "asked"
  /\ session' = [session EXCEPT !["screen"].forgotten = TRUE]
  /\ UNCHANGED <<stored, write, locks, past>>

\* "I forgot this password", at the lock screen: there is no instance to condemn.
ForgetLocked ==
  /\ ~Alive("screen") /\ erasing = "no" /\ stored # None /\ stored.lock # 0
  /\ erasing' = "asked"
  /\ UNCHANGED <<stored, session, write, locks, past>>

Clear ==
  /\ erasing = "asked"
  /\ erasing' = "done"
  /\ stored' = None /\ clean' = (~Alive("dropped") /\ Quiet("screen"))
  /\ UNCHANGED <<session, write, locks, ahead>>

\* The reload after a clear, the tab closed, the browser killed.
Reload ==
  /\ session # NoSessions \/ erasing # "no"
  /\ erasing' = "no"
  /\ session' = NoSessions
  /\ write' = NoWrites
  /\ UNCHANGED <<stored, locks, past>>

----------------------------------------------------------------------------
Writing(s) == \E f \in Flows : SealState(s, f) \/ SealHistory(s, f) \/ Land(s, f)

Next ==
  \/ \E s \in Slots :
       \/ Writing(s) \/ \E f \in Flows : Fail(s, f)
       \/ AskFails(s) \/ Answered(s)
  \/ Ask("screen")
  \/ Act \/ EnableLock \/ DisableLock
  \/ Relock \/ Collect \/ Open \/ Create
  \/ Forget \/ ForgetLocked \/ Clear \/ Reload

\* The timer polls and a cipher ends; the server and the store answer again and again.
Fairness ==
  /\ WF_vars(Ask("screen") \/ SealState("screen", "poll") \/ SealHistory("screen", "poll"))
  /\ SF_vars(Answered("screen")) /\ SF_vars(Land("screen", "poll"))

Spec == Init /\ [][Next]_vars /\ Fairness

----------------------------------------------------------------------------
(* Properties.                                                             *)

(* Every variable keeps its shape, nothing is being written for a session  *)
(* that is not there any more, and a dropped session had a lock.           *)
TypeOK ==
  /\ stored \in Record \cup {None}
  /\ session \in [Slots -> Session \cup {None}]
  /\ write \in [Slots -> [Flows -> Write]]
  /\ locks \in Locks
  /\ erasing \in {"no", "asked", "done"} /\ clean \in BOOLEAN /\ ahead \in BOOLEAN
  /\ \A s \in Slots : ~Alive(s) => Quiet(s)
  /\ Alive("dropped") => session["dropped"].lock # 0

(* An envelope the stored ratchet can no longer open is in the stored      *)
(* thread (composeStored): wherever the page dies, what was consumed was   *)
(* kept.                                                                   *)
ThreadCoversRatchet ==
  stored # None => \A n \in 1..stored.mls : stored.thread[n] > 0

(* A message is shown once, unless a record was stored whose thread, read  *)
(* two awaits after the cursor, had gone on without it.                    *)
ShownOnce ==
  ~ahead => \A s \in Slots, n \in 1..MaxWork : Alive(s) => session[s].thread[n] <= 1

(* An identity erased while nothing was being written and no dropped       *)
(* session lived on stays erased until another is created, whatever the    *)
(* condemned session still does (forget).                                  *)
ErasedStays == clean => stored = None

(* The page that was asked to forget never writes again: no record lands   *)
(* between the clear and the reload (session.ts:1345, "no write will ever  *)
(* leave it again, whatever operation is still running").                  *)
ForgottenStays == erasing = "done" => stored = None

(* A session that stays on screen has, again and again, its store readable *)
(* under its own lock: a record half under one key and half under another, *)
(* or under the key a lock replaced, does not outlive the next poll        *)
(* (enableLock, "the old version is overwritten").                         *)
Heals ==
  Alive("screen") ~> \/ ~Alive("screen") \/ erasing # "no"
                     \/ /\ stored # None /\ Whole(stored)
                        /\ stored.lock = session["screen"].lock
=============================================================================
