----------------------------- MODULE OrderedLog -----------------------------
(***************************************************************************)
(* What a group's mailbox promises its members, whatever its transactions, *)
(* polls, purges and crashes do: the rows are numbered one after the       *)
(* other; each device reads them in that order from where it came in, and  *)
(* passes over a row only if it is its own or a purge took it out of its   *)
(* sight; a hole it can see interrupts it; and a restart takes it back to  *)
(* a place it was at, with what it had read there, never to a mixture.     *)
(*                                                                         *)
(* Mailbox implements this; it is what Commits takes for granted.          *)
(***************************************************************************)
EXTENDS Naturals

CONSTANTS Device, Founders, MinTail

VARIABLES count,        \* rows numbered so far
          gone,         \* those a purge took
          sent,         \* per device, the rows that are its own
          hidden,       \* per device, rows that went without its being able to tell
          view,         \* per device, where it is and what it read on the way
          copies,       \* per device, the views a restart may bring back
          interrupted   \* per device, it has found a hole

vars == <<count, gone, sent, hidden, view, copies, interrupted>>

At(n)      == [joined |-> TRUE, cursor |-> n, base |-> n, read |-> {}]
Start(d)   == [joined |-> d \in Founders, cursor |-> 0, base |-> 0, read |-> {}]
Holes(n)   == {s \in 1 .. n : s + MinTail <= n}   \* what may be purged

Init ==
  /\ count = 0 /\ gone = {}
  /\ sent = [d \in Device |-> {}] /\ hidden = [d \in Device |-> {}]
  /\ view = [d \in Device |-> Start(d)]
  /\ copies = [d \in Device |-> {view[d]}]
  /\ interrupted = [d \in Device |-> FALSE]

\* A row takes the next number.
Post(d) ==
  /\ UNCHANGED <<gone, hidden, view, copies, interrupted>>
  /\ count' = count + 1
  /\ sent' = [sent EXCEPT ![d] = @ \cup {count + 1}]

\* Old rows go; which of them a device will not notice is for the mailbox to say when they go.
Purge ==
  /\ UNCHANGED <<count, sent, view, copies, interrupted>>
  /\ \E taken \in SUBSET Holes(count) : \E unseen \in [Device -> SUBSET taken] :
       /\ gone' = gone \cup taken
       /\ hidden' = [d \in Device |-> hidden[d] \cup unseen[d]]

\* A device comes in at a row that is there.
Join(d) ==
  /\ UNCHANGED <<count, gone, sent, hidden, interrupted>>
  /\ ~view[d].joined
  /\ \E s \in (1 .. count) \ gone :
       /\ view' = [view EXCEPT ![d] = At(s)]
       /\ copies' = [copies EXCEPT ![d] = @ \cup {At(s)}]

\* It goes on to row m, having read everything up to it but its own rows and those hidden from it.
Read(d) ==
  /\ UNCHANGED <<count, gone, sent, hidden, interrupted>>
  /\ view[d].joined /\ ~interrupted[d]
  /\ \E m \in view[d].cursor .. count : \E fresh \in SUBSET (view[d].cursor + 1 .. m) :
       LET after == [view[d] EXCEPT !.cursor = m, !.read = @ \cup fresh]
       IN  /\ (view[d].cursor + 1 .. m) \subseteq fresh \cup sent[d] \cup hidden[d]
           /\ view' = [view EXCEPT ![d] = after]
           /\ copies' = [copies EXCEPT ![d] = @ \cup {after}]

\* The row after the one it is at is gone, and it has noticed.
Interrupt(d) ==
  /\ UNCHANGED <<count, gone, sent, hidden, view, copies>>
  /\ view[d].joined /\ view[d].cursor + 1 \in gone
  /\ interrupted' = [interrupted EXCEPT ![d] = TRUE]

\* A copy is made of where it is, or another is given up; never the last one.
Keep(d) ==
  /\ UNCHANGED <<count, gone, sent, hidden, view, interrupted>>
  /\ \E kept \in SUBSET (copies[d] \cup {view[d]}) :
       kept # {} /\ copies' = [copies EXCEPT ![d] = kept]

\* It starts again from a copy.
Restart(d) ==
  /\ UNCHANGED <<count, gone, sent, hidden>>
  /\ \E v \in copies[d] :
       /\ view' = [view EXCEPT ![d] = v]
       /\ copies' = [copies EXCEPT ![d] = {v}]
  /\ interrupted' = [interrupted EXCEPT ![d] = FALSE]

Next ==
  \/ \E d \in Device : Post(d) \/ Join(d) \/ Read(d) \/ Interrupt(d) \/ Keep(d) \/ Restart(d)
  \/ Purge

Spec == Init /\ [][Next]_vars
=============================================================================
