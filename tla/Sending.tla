------------------------------ MODULE Sending ------------------------------
(***************************************************************************)
(* Sending a text (session.ts send, flush, retry, discard, flushOutbox,    *)
(* sendContent): the outbox, the thread, the sending ratchet, and the      *)
(* record that holds them on disk, whose ratchet is read when a write      *)
(* begins and whose thread and outbox are read some awaits later           *)
(* (session-persist.ts composeStored).                                     *)
(*                                                                         *)
(* One conversation of one device.  Each call the interface makes, and     *)
(* each network transition, is a flow of awaits; a text is its number in   *)
(* the order of writing; a generation is how many encryptions came before. *)
(***************************************************************************)
EXTENDS Naturals, Sequences, SequencesExt

CONSTANTS Flows,       \* calls running at once
          MaxTexts,    \* bound on the texts written
          MaxFaults,   \* bound on the requests and the writes that fail
          MaxCrashes   \* bound on the deaths of the page

ASSUME SendingAssumption ==
  MaxTexts \in Nat /\ MaxFaults \in Nat /\ MaxCrashes \in Nat

Texts == 1 .. MaxTexts

\* What a write carries: the ratchet and encodeHistory's two parts.
Record == [gen : Nat, outbox : Seq(Texts), thread : SUBSET Texts]

Flow == [at : {"idle", "queued", "posting", "posted", "closed", "dropped"},
         write : {"none", "begun", "sealed"},  \* the persist it awaits, if any
         text : 0..MaxTexts,
         rest : Seq(Texts),                    \* what flushOutbox has left of its copy
         gen : Nat,                            \* of the ciphertext, then of the write
         arrived : BOOLEAN]                    \* the server has stored the post

VARIABLES outbox, failed,   \* the queue, and the entries whose state is "failed"
          thread, gen,
          flow,
          puts,             \* writes sealed and not landed, in the order they were
          old,              \* flows whose write was begun or sealed before one that has ended
          disk,
          written,          \* texts the user has written so far
          faults, crashes,
          discarded, saved, \* history: dropped by the user; in a write that landed
          gone,             \* history: in no record when the page died
          behind            \* the last write was refused, or landed when it was old

mem   == <<outbox, failed, thread, gen>>
ghost == <<saved, gone, behind>>
disks == <<puts, old, disk>>
vars  == <<mem, flow, disks, written, faults, crashes, discarded, ghost>>

Idle  == [at |-> "idle", write |-> "none", text |-> 0, rest |-> << >>, gen |-> 0,
          arrived |-> FALSE]

Init ==
  /\ outbox = << >> /\ failed = {} /\ thread = {} /\ gen = 0
  /\ flow = [f \in Flows |-> Idle]
  /\ puts = << >> /\ old = {} /\ disk = [gen |-> 0, outbox |-> << >>, thread |-> {}]
  /\ written = 0 /\ faults = 0 /\ crashes = 0
  /\ discarded = {} /\ saved = {} /\ gone = {}
  /\ behind = FALSE

Busy(f) == flow[f].at # "idle"

\* The calls are told apart by nothing but their progress: a new one takes the first place free.
Free(f) == f = CHOOSE g \in Flows : ~Busy(g)

\* The entries but the one of t, whose identifier no other has.
Dropping(s, t) ==
  IF t \in ToSet(s) THEN RemoveAt(s, CHOOSE i \in DOMAIN s : s[i] = t) ELSE s

----------------------------------------------------------------------------
(* persist.                                                                *)

\* A flow that goes on with a write: the ratchet is read now.
Persisting(fl, at) == [fl EXCEPT !.at = at, !.write = "begun", !.gen = gen]

\* Mutant: the queue is left out of what is stored.
HistoryThreadOnly == [outbox |-> << >>, thread |-> thread]

\* encodeHistory: the thread and the whole outbox.
History == [outbox |-> outbox, thread |-> thread]

Seal(f) ==
  /\ flow[f].write = "begun"
  /\ flow' = [flow EXCEPT ![f].write = "sealed"]
  /\ LET rec == [gen |-> flow[f].gen, outbox |-> History.outbox, thread |-> History.thread]
     IN  puts' = Append(puts, [flow |-> f, rec |-> rec])
  /\ UNCHANGED <<mem, old, disk, written, faults, crashes, discarded, ghost>>

PutOf(f) == CHOOSE i \in DOMAIN puts : puts[i].flow = f

Elders(f) == {g \in Flows \ {f} :
  \/ flow[g].write = "sealed" /\ PutOf(g) < PutOf(f)
  \/ flow[g].write # "none" /\ flow[g].gen < flow[f].gen}

\* The write of f has ended, in the store or not.
WriteOver(f) ==
  /\ flow[f].write = "sealed"
  /\ puts' = RemoveAt(puts, PutOf(f))
  /\ old' = (old \ {f}) \cup Elders(f)

\* It lands, perhaps over a record that was begun or sealed after it.
Landed(f) ==
  /\ WriteOver(f)
  /\ disk' = puts[PutOf(f)].rec
  /\ behind' = (f \in old)

----------------------------------------------------------------------------
(* flush and sendContent, once for each text of a flow.                    *)

\* Mutant: the text leaves the queue when its request does.
QueueWhilePostingShort(t) == Dropping(outbox, t)

\* Mutant: every attempt queues an entry of its own.
QueueWhilePostingTwice(t) == Append(outbox, t)

\* The text stays queued until the server has answered for it.
QueueWhilePosting(t) == outbox

\* flow f sends t, with rest to follow: the state is "sending", the ratchet moves, a request leaves.
Post(f, t, rest) ==
  /\ outbox' = QueueWhilePosting(t)
  /\ failed' = failed \ {t}
  /\ gen' = gen + 1
  /\ flow' = [flow EXCEPT ![f] = [Idle EXCEPT !.at = "posting", !.text = t, !.rest = rest,
                                              !.gen = gen + 1]]
  /\ UNCHANGED thread

Arrive(f) ==
  /\ flow[f].at = "posting" /\ ~flow[f].arrived
  /\ flow' = [flow EXCEPT ![f].arrived = TRUE]
  /\ UNCHANGED <<mem, disks, written, faults, crashes, discarded, ghost>>

\* The sequence came back: the message joins the thread, and is persisted.
Answered(f) ==
  /\ flow[f].at = "posting" /\ flow[f].arrived
  /\ thread' = thread \cup {flow[f].text}
  /\ flow' = [flow EXCEPT ![f] = Persisting(@, "posted")]
  /\ UNCHANGED <<outbox, failed, gen, disks, written, faults, crashes, discarded, ghost>>

\* Mutant: a text that did not go is not worth a write.
ClosingNot(fl) == [fl EXCEPT !.at = "idle", !.rest = << >>, !.text = 0, !.gen = 0,
                             !.arrived = FALSE]

\* A text that did not go is persisted as well, with the ratchet that moved for it.
Closing(fl) == Persisting(fl, "closed")

\* The request fails, its post stored or not: the entry is marked, and stays.
Unanswered(f) ==
  /\ flow[f].at = "posting" /\ faults < MaxFaults
  /\ faults' = faults + 1
  /\ failed' = failed \cup {flow[f].text}
  /\ flow' = [flow EXCEPT ![f] = Closing(@)]
  /\ UNCHANGED <<outbox, thread, gen, disks, written, crashes, discarded, ghost>>

\* send's first write has landed, and its text goes.
QueuedLands(f) ==
  /\ flow[f].at = "queued" /\ Landed(f)
  /\ saved' = saved \cup {flow[f].text}
  /\ Post(f, flow[f].text, << >>)
  /\ UNCHANGED <<written, faults, crashes, discarded, gone>>

\* sendContent's write has landed: the entry leaves the queue, and flush persists that.
PostedLands(f) ==
  /\ flow[f].at = "posted" /\ Landed(f)
  /\ outbox' = Dropping(outbox, flow[f].text)
  /\ flow' = [flow EXCEPT ![f] = Persisting(@, "closed")]
  /\ UNCHANGED <<failed, thread, gen, written, faults, crashes, discarded, saved, gone>>

\* flushOutbox goes on with its copy of the queue unless this one failed.
ClosedLands(f) ==
  /\ flow[f].at = "closed" /\ Landed(f)
  /\ IF flow[f].rest # << >> /\ flow[f].text \notin failed
     THEN Post(f, Head(flow[f].rest), Tail(flow[f].rest))
     ELSE flow' = [flow EXCEPT ![f] = Idle] /\ UNCHANGED mem
  /\ UNCHANGED <<written, faults, crashes, discarded, saved, gone>>

DroppedLands(f) ==
  /\ flow[f].at = "dropped" /\ Landed(f)
  /\ flow' = [flow EXCEPT ![f] = Idle]
  /\ UNCHANGED <<mem, written, faults, crashes, discarded, saved, gone>>

\* The store refuses.  flush catches it while sendContent runs, and calls the text failed; every
\* other caller lets it reject.
WriteFails(f) ==
  /\ faults < MaxFaults /\ WriteOver(f)
  /\ faults' = faults + 1 /\ behind' = TRUE
  /\ IF flow[f].at = "posted"
     THEN /\ failed' = failed \cup {flow[f].text}
          /\ flow' = [flow EXCEPT ![f] = Closing(@)]
     ELSE /\ flow' = [flow EXCEPT ![f] = Idle]
          /\ UNCHANGED failed
  /\ UNCHANGED <<outbox, thread, gen, disk, written, crashes, discarded, saved, gone>>

----------------------------------------------------------------------------
(* What starts a flow.                                                     *)

\* send: queued and shown first, then persisted.
Send(f) ==
  /\ ~Busy(f) /\ Free(f) /\ written < MaxTexts
  /\ written' = written + 1
  /\ outbox' = Append(outbox, written + 1)
  /\ flow' = [flow EXCEPT ![f] = [Persisting(@, "queued") EXCEPT !.text = written + 1]]
  /\ UNCHANGED <<failed, thread, gen, disks, faults, crashes, discarded, ghost>>

\* retry and discard are offered under an entry that is "not sent".
Offered(t) == t \in ToSet(outbox) /\ t \in failed

Retry(f, t) ==
  /\ ~Busy(f) /\ Free(f) /\ Offered(t)
  /\ Post(f, t, << >>)
  /\ UNCHANGED <<disks, written, faults, crashes, discarded, ghost>>

Discard(f, t) ==
  /\ ~Busy(f) /\ Free(f) /\ Offered(t)
  /\ outbox' = Dropping(outbox, t)
  /\ discarded' = discarded \cup {t}
  /\ flow' = [flow EXCEPT ![f] = Persisting(@, "dropped")]
  /\ UNCHANGED <<failed, thread, gen, disks, written, faults, crashes, ghost>>

\* Mutant: what is shown as being sent is left to whoever sends it.
QueueFailedOnly == SelectSeq(outbox, LAMBDA t : t \in failed)

\* flushOutbox walks a copy of the queue, whatever the state of its entries.
Queue == outbox

\* A reconnection or a resume.
FlushOutbox(f) ==
  /\ ~Busy(f) /\ Free(f) /\ Queue # << >>
  /\ Post(f, Head(Queue), Tail(Queue))
  /\ UNCHANGED <<disks, written, faults, crashes, discarded, ghost>>

\* The page dies, and opens on the record: what was being sent comes back as failed.
Crash ==
  /\ crashes < MaxCrashes
  /\ crashes' = crashes + 1
  /\ outbox' = disk.outbox /\ thread' = disk.thread /\ gen' = disk.gen
  /\ failed' = ToSet(disk.outbox)
  /\ flow' = [f \in Flows |-> Idle] /\ puts' = << >> /\ old' = {}
  /\ gone' = gone \cup ((1..written) \ (ToSet(disk.outbox) \cup disk.thread))
  /\ saved' = saved \ gone'
  /\ behind' = FALSE
  /\ UNCHANGED <<disk, written, faults, discarded>>

Step(f) ==
  \/ Seal(f) \/ Arrive(f) \/ Answered(f)
  \/ QueuedLands(f) \/ PostedLands(f) \/ ClosedLands(f) \/ DroppedLands(f)

Next ==
  \/ \E f \in Flows :
       \/ Step(f) \/ Unanswered(f) \/ WriteFails(f)
       \/ Send(f) \/ FlushOutbox(f)
       \/ \E t \in Texts : Retry(f, t) \/ Discard(f, t)
  \/ Crash

\* A request is answered and a write lands in the end; the network comes back again and again.
Fairness ==
  /\ \A f \in Flows : WF_vars(Step(f))
  /\ WF_vars(\E f \in Flows : FlushOutbox(f))

Spec == Init /\ [][Next]_vars /\ Fairness

----------------------------------------------------------------------------
(* Properties.                                                             *)

(* Every variable keeps its shape, and the writes sealed are those of the  *)
(* flows that wait for them.                                               *)
TypeOK ==
  /\ outbox \in Seq(Texts) /\ failed \subseteq Texts /\ thread \subseteq Texts
  /\ gen \in Nat /\ flow \in [Flows -> Flow]
  /\ disk \in Record /\ \A i \in DOMAIN puts : puts[i].rec \in Record
  /\ old \subseteq Flows /\ written \in 0..MaxTexts /\ faults \in 0..MaxFaults /\ crashes \in 0..MaxCrashes
  /\ {puts[i].flow : i \in DOMAIN puts} = {f \in Flows : flow[f].write = "sealed"}
  /\ IsInjective(outbox)

(* A text the user wrote is in the outbox or in the thread until they drop *)
(* it, whatever fails; only the death of the page can take it (send, "the  *)
(* text is safe in the outbox").                                           *)
Kept == 1..written \subseteq ToSet(outbox) \cup thread \cup discarded \cup gone

(* Once the write that queued it has landed, a text survives the page too, *)
(* unless an older record has since landed over a newer one.               *)
SavedIsSafe ==
  behind \/ saved \subseteq ToSet(disk.outbox) \cup disk.thread \cup discarded

(* Between calls the disk holds what memory does, above all the ratchet:   *)
(* a page that dies then never encrypts twice under one generation, and    *)
(* the text shown as sent or as failed comes back so (persist, "to be      *)
(* called after every operation that moves a group forward").              *)
QuietIsSaved ==
  (\A f \in Flows : ~Busy(f)) /\ ~behind
    => disk = [gen |-> gen, outbox |-> outbox, thread |-> thread]

(* What is queued leaves the queue, as long as the network comes back: a   *)
(* failure, a lost answer or an entry stuck on "sending" does not keep it  *)
(* (flushOutbox).                                                          *)
Drains == \A t \in Texts : t \in ToSet(outbox) ~> t \notin ToSet(outbox)

=============================================================================
