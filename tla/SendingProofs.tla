---------------------------- MODULE SendingProofs ----------------------------
(***************************************************************************)
(* The safety properties of Sending, proved for any number of flows, texts *)
(* and faults.                                                             *)
(*                                                                         *)
(* Writes end in any order.  What is proved of the disk is proved first of *)
(* every write that is not old: it holds each text saved so far, and what  *)
(* memory holds, unless another flow has yet to write what it changed.     *)
(***************************************************************************)
EXTENDS Sending, SequenceTheorems, TLAPS

Sealed(f)   == flow[f].write = "sealed"
Rec(f)      == puts[PutOf(f)].rec
After(g, f) == Sealed(f) /\ Sealed(g) /\ PutOf(f) < PutOf(g)

\* One put for each flow, with the ratchet that flow read.
Lined ==
  /\ puts \in Seq([flow : Flows, rec : Record])
  /\ \A i, j \in DOMAIN puts : puts[i].flow = puts[j].flow => i = j
  /\ \A f \in Flows : Sealed(f) => Rec(f).gen = flow[f].gen

\* What a flow carries fits where it is: th is the thread, w the texts written and not gone, n the
\* generation.
Fits(m, th, w, n) ==
  /\ m.write = "none" <=> m.at \in {"idle", "posting"}
  /\ m.at \notin {"idle", "dropped"} => m.text \in Texts
  /\ m.at = "posted" => m.text \in th
  /\ m.at = "queued" => m.text \in w
  /\ m.gen <= n

Staged == \A f \in Flows : Fits(flow[f], thread, (1..written) \ gone, gen)

\* A queue has each text once, among those written.
Queued(q) == IsInjective(q) /\ ToSet(q) \subseteq 1..written

Counted ==
  /\ Queued(outbox) /\ Queued(disk.outbox)
  /\ \A f \in Flows : Sealed(f) => Queued(Rec(f).outbox)
  /\ gone \subseteq 1..written /\ saved \subseteq (1..written) \ gone

Based == TypeOK /\ Lined /\ Staged /\ Counted /\ Kept

\* The texts a record keeps, or the user no longer wants.
Holding(r) == ToSet(r.outbox) \cup r.thread \cup discarded

Safe ==
  /\ SavedIsSafe
  /\ \A f \in Flows \ old : Sealed(f) => saved \subseteq Holding(Rec(f))
  /\ \A f, g \in Flows :
       flow[g].at = "queued" /\ Sealed(g) /\ (f = g \/ After(f, g))
         => flow[g].text \in Holding(Rec(f))

\* A write that is not old has the last generation, or a flow under way has a later one; and it has
\* the queue and the thread there are, or another flow is to write them after it.
Current ==
  /\ \A f \in Flows \ old : flow[f].write # "none" /\ flow[f].gen < gen
       => \E g \in Flows \ {f} : Busy(g) /\ flow[f].gen < flow[g].gen
  /\ \A f \in Flows \ old : Sealed(f) /\ ~(Rec(f).outbox = outbox /\ Rec(f).thread = thread)
       => \E g \in Flows \ {f} : flow[g].write = "begun" \/ After(g, f)
  /\ QuietIsSaved

Inv == Based /\ Safe /\ Current

----------------------------------------------------------------------------
(* Sequences.                                                              *)

LEMMA AppendFacts ==
  ASSUME NEW S, NEW s \in Seq(S), NEW x \in S
  PROVE  /\ Append(s, x) \in Seq(S) /\ Len(Append(s, x)) = Len(s) + 1
         /\ \A i \in 1..Len(s) : Append(s, x)[i] = s[i]
         /\ Append(s, x)[Len(s) + 1] = x
         /\ DOMAIN s = 1..Len(s) /\ DOMAIN Append(s, x) = 1..(Len(s) + 1)
  BY AppendProperties, LenProperties

LEMMA Part ==
  ASSUME NEW S, NEW s, NEW m \in Int, NEW n \in Int, m <= n + 1, \A k \in m..n : s[k] \in S
  PROVE  /\ SubSeq(s, m, n) \in Seq(S) /\ Len(SubSeq(s, m, n)) = n - m + 1
         /\ \A k \in 1..(n - m + 1) : SubSeq(s, m, n)[k] = s[m + k - 1]
<1>1. (IF m <= n THEN n - m + 1 ELSE 0) = n - m + 1
  OBVIOUS
<1>2. /\ SubSeq(s, m, n) \in Seq(S)
      /\ Len(SubSeq(s, m, n)) = IF m <= n THEN n - m + 1 ELSE 0
      /\ \A k \in 1..(n - m + 1) : SubSeq(s, m, n)[k] = s[m + k - 1]
  BY SubSeqProperties
<1> QED
  BY <1>1, <1>2, Zenon

LEMMA RemoveFacts ==
  ASSUME NEW S, NEW s \in Seq(S), NEW i \in 1..Len(s)
  PROVE  /\ RemoveAt(s, i) \in Seq(S) /\ DOMAIN RemoveAt(s, i) = 1..(Len(s) - 1)
         /\ \A k \in 1..(Len(s) - 1) : RemoveAt(s, i)[k] = IF k < i THEN s[k] ELSE s[k + 1]
<1> DEFINE l == SubSeq(s, 1, i - 1)
           r == SubSeq(s, i + 1, Len(s))
<1>0. Len(s) \in Nat /\ i \in Nat /\ DOMAIN s = 1..Len(s)
  BY LenProperties
<1>1. l \in Seq(S) /\ Len(l) = i - 1 /\ \A k \in 1..(i - 1) : l[k] = s[k]
  <2>1. i - 1 \in Nat /\ \A k \in 1..(i - 1) : k \in 1..Len(s)
    BY <1>0
  <2>2. l \in Seq(S) /\ Len(l) = i - 1
    BY <1>0, <2>1, SubSeqProperties
  <2> QED
    BY <1>0, <2>1, <2>2
<1>2. r \in Seq(S) /\ Len(r) = Len(s) - i /\ \A k \in 1..(Len(s) - i) : r[k] = s[i + k]
  <2>1. /\ i + 1 \in Int /\ Len(s) \in Int /\ i + 1 <= Len(s) + 1
        /\ \A k \in (i + 1)..Len(s) : s[k] \in S
    BY <1>0, ElementOfSeq
  <2>2. /\ r \in Seq(S) /\ Len(r) = Len(s) - (i + 1) + 1
        /\ \A k \in 1..(Len(s) - (i + 1) + 1) : r[k] = s[(i + 1) + k - 1]
    BY <2>1, Part
  <2> HIDE DEF r
  <2>3. Len(s) - (i + 1) + 1 = Len(s) - i
        /\ \A k \in 1..(Len(s) - i) : (i + 1) + k - 1 = i + k
    BY <1>0
  <2> QED
    BY <2>2, <2>3
<1>3. RemoveAt(s, i) = l \o r
  BY DEF RemoveAt
<1> HIDE DEF l, r
<1>4. l \o r \in Seq(S) /\ Len(l \o r) = Len(s) - 1
  <2>1. l \o r \in Seq(S) /\ Len(l \o r) = Len(l) + Len(r)
    BY <1>1, <1>2, ConcatProperties, Zenon
  <2> QED
    BY <1>0, <1>1, <1>2, <2>1
<1>5. \A k \in 1..(Len(s) - 1) : (l \o r)[k] = IF k < i THEN s[k] ELSE s[k + 1]
  <2> TAKE k \in 1..(Len(s) - 1)
  <2>1. (l \o r)[k] = IF k <= Len(l) THEN l[k] ELSE r[k - Len(l)]
    <3>1. \A n \in 1..(Len(l) + Len(r)) :
            (l \o r)[n] = IF n <= Len(l) THEN l[n] ELSE r[n - Len(l)]
      BY <1>1, <1>2, ConcatProperties, Zenon
    <3>2. k \in 1..(Len(l) + Len(r))
      BY <1>0, <1>1, <1>2
    <3> QED
      BY <3>1, <3>2, Zenon
  <2>2. CASE k < i
    <3>1. k \in 1..(i - 1) /\ k <= Len(l)
      BY <1>0, <1>1, <2>2
    <3>2. l[k] = s[k]
      BY <1>1, <3>1, Zenon
    <3> QED
      BY <2>1, <2>2, <3>1, <3>2
  <2>3. CASE ~(k < i)
    <3>1. k - Len(l) \in 1..(Len(s) - i) /\ i + (k - Len(l)) = k + 1 /\ ~(k <= Len(l))
      BY <1>0, <1>1, <2>3
    <3>2. r[k - Len(l)] = s[i + (k - Len(l))]
      BY <1>2, <3>1, Zenon
    <3> QED
      BY <2>1, <2>3, <3>1, <3>2
  <2> QED
    BY <2>2, <2>3
<1> QED
  BY <1>0, <1>3, <1>4, <1>5, LenProperties

LEMMA DroppingFacts ==
  ASSUME NEW S, NEW s \in Seq(S), IsInjective(s), NEW t
  PROVE  /\ Dropping(s, t) \in Seq(S) /\ IsInjective(Dropping(s, t))
         /\ ToSet(Dropping(s, t)) = ToSet(s) \ {t}
<1>0. Len(s) \in Nat /\ DOMAIN s = 1..Len(s)
  BY LenProperties
<1>1. CASE t \notin ToSet(s)
  BY <1>1 DEF Dropping
<1>2. CASE t \in ToSet(s)
  <2> DEFINE i == CHOOSE k \in DOMAIN s : s[k] = t
             r == RemoveAt(s, i)
  <2>1. i \in 1..Len(s) /\ s[i] = t
    BY <1>0, <1>2 DEF ToSet
  <2>2. Dropping(s, t) = r
    BY <1>2 DEF Dropping
  <2> HIDE DEF i
  <2>3. /\ r \in Seq(S) /\ DOMAIN r = 1..(Len(s) - 1)
        /\ \A k \in 1..(Len(s) - 1) : r[k] = IF k < i THEN s[k] ELSE s[k + 1]
    BY <2>1, RemoveFacts
  <2> HIDE DEF r
  <2>4. IsInjective(r)
    <3> SUFFICES ASSUME NEW a \in 1..(Len(s) - 1), NEW b \in 1..(Len(s) - 1), r[a] = r[b]
                 PROVE  a = b
      BY <2>3 DEF IsInjective
    <3> QED
      BY <1>0, <2>1, <2>3 DEF IsInjective
  <2>5. ToSet(r) \subseteq ToSet(s) \ {t}
    <3> SUFFICES ASSUME NEW k \in 1..(Len(s) - 1) PROVE r[k] \in ToSet(s) \ {t}
      BY <2>3 DEF ToSet
    <3>1. CASE k < i
      <4>1. r[k] = s[k] /\ k \in 1..Len(s) /\ k # i
        BY <3>1, <1>0, <2>1, <2>3
      <4> QED
        BY <4>1, <1>0, <2>1 DEF ToSet, IsInjective
    <3>2. CASE ~(k < i)
      <4>1. r[k] = s[k + 1] /\ k + 1 \in 1..Len(s) /\ k + 1 # i
        BY <3>2, <1>0, <2>1, <2>3
      <4> QED
        BY <4>1, <1>0, <2>1 DEF ToSet, IsInjective
    <3> QED
      BY <3>1, <3>2
  <2>6. ToSet(s) \ {t} \subseteq ToSet(r)
    <3> SUFFICES ASSUME NEW k \in 1..Len(s), s[k] # t PROVE s[k] \in ToSet(r)
      BY <1>0 DEF ToSet
    <3>1. CASE k < i
      <4>1. k \in DOMAIN r /\ r[k] = s[k]
        BY <3>1, <1>0, <2>1, <2>3
      <4> QED
        BY <4>1 DEF ToSet
    <3>2. CASE ~(k < i)
      <4>1. k - 1 \in DOMAIN r /\ r[k - 1] = s[k]
        BY <3>2, <1>0, <2>1, <2>3
      <4> QED
        BY <4>1 DEF ToSet
    <3> QED
      BY <3>1, <3>2
  <2> QED
    BY <2>2, <2>3, <2>4, <2>5, <2>6
<1> QED
  BY <1>1, <1>2

LEMMA QueueFacts ==
  ASSUME NEW S, NEW s \in Seq(S), NEW x \in S, IsInjective(s), x \notin ToSet(s)
  PROVE  IsInjective(Append(s, x)) /\ ToSet(Append(s, x)) = ToSet(s) \cup {x}
<1> DEFINE r == Append(s, x)
<1>0. /\ Len(s) \in Nat /\ DOMAIN s = 1..Len(s) /\ DOMAIN r = 1..(Len(s) + 1)
      /\ \A i \in 1..Len(s) : r[i] = s[i]
      /\ r[Len(s) + 1] = x
  BY AppendFacts, LenProperties
<1> HIDE DEF r
<1>1. \A a, b \in 1..(Len(s) + 1) : r[a] = r[b] => a = b
  <2> SUFFICES ASSUME NEW a \in 1..(Len(s) + 1), NEW b \in 1..(Len(s) + 1), r[a] = r[b]
               PROVE  a = b
    OBVIOUS
  <2>1. CASE a \in 1..Len(s) /\ b \in 1..Len(s)
    BY <2>1, <1>0 DEF IsInjective
  <2>2. CASE a = Len(s) + 1 /\ b \in 1..Len(s)
    BY <2>2, <1>0 DEF ToSet
  <2>3. CASE b = Len(s) + 1 /\ a \in 1..Len(s)
    BY <2>3, <1>0 DEF ToSet
  <2> QED
    BY <1>0, <2>1, <2>2, <2>3
<1>2. ToSet(r) = ToSet(s) \cup {x}
  <2>1. ToSet(r) \subseteq ToSet(s) \cup {x}
    <3> SUFFICES ASSUME NEW k \in 1..(Len(s) + 1) PROVE r[k] \in ToSet(s) \cup {x}
      BY <1>0 DEF ToSet
    <3> QED
      BY <1>0 DEF ToSet
  <2>2. ToSet(s) \subseteq ToSet(r)
    <3> SUFFICES ASSUME NEW k \in 1..Len(s) PROVE s[k] \in ToSet(r)
      BY <1>0 DEF ToSet
    <3> QED
      BY <1>0 DEF ToSet
  <2>3. x \in ToSet(r)
    BY <1>0 DEF ToSet
  <2> QED
    BY <2>1, <2>2, <2>3
<1> QED
  BY <1>0, <1>1, <1>2 DEF IsInjective, r

----------------------------------------------------------------------------
(* The writes under way, by the flow they are of.                          *)

Put        == [flow : Flows, rec : Record]
Lines(p)   == p \in Seq(Put) /\ \A i, j \in DOMAIN p : p[i].flow = p[j].flow => i = j
Has(p, f)  == \E i \in DOMAIN p : p[i].flow = f
Pl(p, f)   == CHOOSE i \in DOMAIN p : p[i].flow = f

LEMMA Placed ==
  ASSUME NEW p, Lines(p), NEW f, Has(p, f)
  PROVE  Pl(p, f) \in 1..Len(p) /\ p[Pl(p, f)].flow = f /\ p[Pl(p, f)] \in Put
<1>1. DOMAIN p = 1..Len(p) /\ \A i \in 1..Len(p) : p[i] \in Put
  BY LenProperties, ElementOfSeq DEF Lines
<1>2. Pl(p, f) \in DOMAIN p /\ p[Pl(p, f)].flow = f
  BY Zenon DEF Has, Pl
<1> QED
  BY <1>1, <1>2, Zenon

LEMMA PlacedAt ==
  ASSUME NEW p, Lines(p), NEW i \in DOMAIN p
  PROVE  Has(p, p[i].flow) /\ Pl(p, p[i].flow) = i
<1>1. Has(p, p[i].flow)
  BY DEF Has
<1>2. DOMAIN p = 1..Len(p)
  BY LenProperties DEF Lines
<1>3. Pl(p, p[i].flow) \in DOMAIN p /\ p[Pl(p, p[i].flow)].flow = p[i].flow
  BY <1>1, <1>2, Placed, Zenon
<1> QED
  BY <1>1, <1>3, Zenon DEF Lines

LEMMA Appended ==
  ASSUME NEW p, Lines(p), NEW x \in Put, ~Has(p, x.flow)
  PROVE  LET q == Append(p, x) IN
         /\ Lines(q) /\ \A g : Has(q, g) <=> Has(p, g) \/ g = x.flow
         /\ \A g : Has(p, g) => Pl(q, g) = Pl(p, g) /\ q[Pl(q, g)] = p[Pl(p, g)]
         /\ Pl(q, x.flow) = Len(p) + 1 /\ q[Pl(q, x.flow)] = x
<1> DEFINE q == Append(p, x)
           n == Len(p)
<1>0. /\ n \in Nat /\ DOMAIN p = 1..n /\ q \in Seq(Put) /\ DOMAIN q = 1..(n + 1)
      /\ \A i \in 1..n : q[i] = p[i]
      /\ q[n + 1] = x
  BY AppendFacts, LenProperties DEF Lines
<1> HIDE DEF q, n
<1>1. \A i \in 1..(n + 1) : i \in 1..n \/ i = n + 1
  BY <1>0
<1>2. \A i \in 1..n : i # n + 1 /\ i \in 1..(n + 1) /\ n + 1 \in 1..(n + 1)
  BY <1>0
<1>3. n + 1 \in 1..(n + 1)
  BY <1>0
<1>4. Lines(q)
  <2> SUFFICES ASSUME NEW i \in 1..(n + 1), NEW j \in 1..(n + 1), q[i].flow = q[j].flow
               PROVE  i = j
    BY <1>0 DEF Lines
  <2>1. CASE i \in 1..n /\ j \in 1..n
    BY <2>1, <1>0, Zenon DEF Lines
  <2>2. CASE i \in 1..n /\ j = n + 1
    BY <2>2, <1>0, Zenon DEF Has
  <2>3. CASE i = n + 1 /\ j \in 1..n
    BY <2>3, <1>0, Zenon DEF Has
  <2> QED
    BY <1>1, <2>1, <2>2, <2>3, Zenon
<1>5. \A g : Has(q, g) <=> Has(p, g) \/ g = x.flow
  BY <1>0, <1>1, <1>2, <1>3, Zenon DEF Has
<1>6. ASSUME NEW g, Has(p, g) PROVE Pl(q, g) = Pl(p, g) /\ q[Pl(q, g)] = p[Pl(p, g)]
  <2>1. Pl(p, g) \in 1..n /\ p[Pl(p, g)].flow = g
    BY <1>6, Placed, Zenon DEF n
  <2>2. q[Pl(p, g)] = p[Pl(p, g)] /\ Pl(p, g) \in DOMAIN q
    BY <1>0, <1>2, <2>1, Zenon
  <2>3. Pl(q, q[Pl(p, g)].flow) = Pl(p, g)
    BY <1>4, <2>2, PlacedAt, Zenon
  <2> QED
    BY <2>1, <2>2, <2>3, Zenon
<1>7. Pl(q, x.flow) = n + 1 /\ q[Pl(q, x.flow)] = x
  BY <1>0, <1>3, <1>4, PlacedAt, Zenon
<1> QED
  BY <1>4, <1>5, <1>6, <1>7 DEF q, n

LEMMA Removed ==
  ASSUME NEW p, Lines(p), NEW f, Has(p, f)
  PROVE  LET q == RemoveAt(p, Pl(p, f)) IN
         /\ Lines(q) /\ \A g : Has(q, g) <=> Has(p, g) /\ g # f
         /\ \A g : Has(p, g) /\ g # f => q[Pl(q, g)] = p[Pl(p, g)]
         /\ \A g, h : Has(p, g) /\ g # f /\ Has(p, h) /\ h # f
              => (Pl(q, g) < Pl(q, h) <=> Pl(p, g) < Pl(p, h))
<1> DEFINE n == Len(p)
           i == Pl(p, f)
           q == RemoveAt(p, i)
           down(k) == IF k < i THEN k ELSE k - 1
           up(k)   == IF k < i THEN k ELSE k + 1
<1>0. n \in Nat /\ DOMAIN p = 1..n /\ i \in 1..n /\ p[i].flow = f
  BY LenProperties, Placed DEF Lines
<1>1. /\ q \in Seq(Put) /\ DOMAIN q = 1..(n - 1)
      /\ \A k \in 1..(n - 1) : q[k] = IF k < i THEN p[k] ELSE p[k + 1]
  BY <1>0, RemoveFacts DEF Lines
<1> HIDE DEF n, i, q
<1>2. \A k \in 1..(n - 1) : /\ up(k) \in 1..n /\ up(k) # i
                            /\ \A m \in 1..(n - 1) : up(k) = up(m) => k = m
  BY <1>0
<1>3. \A k \in 1..n : k # i => down(k) \in 1..(n - 1) /\ up(down(k)) = k
  BY <1>0
<1>4. \A k, m \in 1..n : k # i /\ m # i => (down(k) < down(m) <=> k < m)
  BY <1>0
<1>5. \A k \in 1..(n - 1) : q[k] = p[up(k)]
  BY <1>1
<1> HIDE DEF up, down
<1>6. Lines(q)
  <2> SUFFICES ASSUME NEW k \in 1..(n - 1), NEW m \in 1..(n - 1), q[k].flow = q[m].flow
               PROVE  k = m
    BY <1>1 DEF Lines
  <2>1. up(k) = up(m)
    BY <1>0, <1>2, <1>5, Zenon DEF Lines
  <2> QED
    BY <1>2, <2>1, Zenon
<1>7. ASSUME NEW g, Has(p, g), g # f
      PROVE  /\ Has(q, g) /\ Pl(q, g) = down(Pl(p, g)) /\ q[Pl(q, g)] = p[Pl(p, g)]
             /\ Pl(p, g) \in 1..n /\ Pl(p, g) # i
  <2>1. Pl(p, g) \in 1..n /\ p[Pl(p, g)].flow = g
    BY <1>7, Placed, Zenon DEF n
  <2>2. Pl(p, g) # i
    BY <1>0, <1>7, <2>1, Zenon
  <2>3. down(Pl(p, g)) \in 1..(n - 1) /\ q[down(Pl(p, g))] = p[Pl(p, g)]
    BY <1>3, <1>5, <2>1, <2>2, Zenon
  <2> DEFINE k == down(Pl(p, g))
  <2>4. k \in DOMAIN q /\ q[k].flow = g
    BY <1>1, <2>1, <2>3, Zenon
  <2>5. Has(q, q[k].flow) /\ Pl(q, q[k].flow) = k
    <3> HIDE DEF k
    <3> QED
      BY <1>6, <2>4, PlacedAt, Zenon
  <2> QED
    BY <2>1, <2>2, <2>3, <2>4, <2>5
<1>8. ASSUME NEW g, Has(q, g) PROVE Has(p, g) /\ g # f
  <2>1. PICK k \in 1..(n - 1) : q[k].flow = g
    BY <1>1, <1>8, Zenon DEF Has
  <2>2. up(k) \in 1..n /\ up(k) # i /\ p[up(k)].flow = g
    BY <1>2, <1>5, <2>1, Zenon
  <2> QED
    BY <1>0, <2>2, Zenon DEF Has, Lines
<1>9. \A g, h : Has(p, g) /\ g # f /\ Has(p, h) /\ h # f
        => (Pl(q, g) < Pl(q, h) <=> Pl(p, g) < Pl(p, h))
  <2> TAKE g, h
  <2> HAVE Has(p, g) /\ g # f /\ Has(p, h) /\ h # f
  <2>1. Pl(q, g) = down(Pl(p, g)) /\ Pl(p, g) \in 1..n /\ Pl(p, g) # i
    BY <1>7, Zenon
  <2>2. Pl(q, h) = down(Pl(p, h)) /\ Pl(p, h) \in 1..n /\ Pl(p, h) # i
    BY <1>7, Zenon
  <2> QED
    BY <1>4, <2>1, <2>2
<1>10. (\A g : Has(q, g) <=> Has(p, g) /\ g # f)
       /\ \A g : Has(p, g) /\ g # f => q[Pl(q, g)] = p[Pl(p, g)]
  BY <1>7, <1>8, Zenon
<1> QED
  BY <1>6, <1>9, <1>10, Zenon DEF q, i

LEMMA PutsOf ==
  ASSUME NEW p, Lines(p)
  PROVE  \A i \in DOMAIN p : p[i] \in Put
  BY LenProperties, ElementOfSeq DEF Lines

LEMMA FlowsOf ==
  ASSUME NEW p, Lines(p)
  PROVE  {p[i].flow : i \in DOMAIN p} = {g \in Flows : Has(p, g)}
<1>1. \A i \in DOMAIN p : p[i].flow \in Flows
  BY PutsOf DEF Put
<1> QED
  BY <1>1 DEF Has

LEMMA HasSealed ==
  ASSUME TypeOK, NEW f \in Flows
  PROVE  Has(puts, f) <=> Sealed(f)
  BY Zenon DEF TypeOK, Has, Sealed

LEMMA LinesPuts ==
  Lined => Lines(puts) /\ \A f : PutOf(f) = Pl(puts, f)
  BY Zenon DEF Lined, Lines, Put, PutOf, Pl

\* The write of f is over: the others are what they were, in the order they were.
LEMMA Ended ==
  ASSUME TypeOK, Lined, NEW f \in Flows, WriteOver(f),
         flow' = [flow EXCEPT ![f] = flow'[f]], flow'[f].write # "sealed"
  PROVE  /\ Lined' /\ {puts'[i].flow : i \in DOMAIN puts'} = {g \in Flows : flow'[g].write = "sealed"}
         /\ \A g \in Flows \ {f} : (Sealed(g)' <=> Sealed(g)) /\ (Sealed(g) => Rec(g)' = Rec(g))
         /\ ~Sealed(f)'
         /\ \A g, h \in Flows \ {f} : After(g, h)' <=> After(g, h)
<1> DEFINE q == RemoveAt(puts, Pl(puts, f))
<1>0. /\ Lines(puts) /\ Has(puts, f) /\ puts' = q
      /\ \A g : PutOf(g) = Pl(puts, g) /\ PutOf(g)' = Pl(puts', g)
  BY LinesPuts, HasSealed DEF WriteOver, Sealed, PutOf, Pl
<1>1. /\ Lines(q) /\ \A g : Has(q, g) <=> Has(puts, g) /\ g # f
      /\ \A g : Has(puts, g) /\ g # f => q[Pl(q, g)] = puts[Pl(puts, g)]
      /\ \A g, h : Has(puts, g) /\ g # f /\ Has(puts, h) /\ h # f
           => (Pl(q, g) < Pl(q, h) <=> Pl(puts, g) < Pl(puts, h))
  BY <1>0, Removed, Zenon
<1> HIDE DEF q
<1>2. \A g \in Flows \ {f} : flow'[g] = flow[g]
  BY DEF TypeOK
<1>3. flow'[f].write # "sealed"
  OBVIOUS
<1>4. (\A g \in Flows \ {f} : Sealed(g)' <=> Sealed(g)) /\ ~Sealed(f)'
  BY <1>2, <1>3, Zenon DEF Sealed
<1>5. \A g \in Flows \ {f} : Sealed(g) => Rec(g)' = Rec(g)
  BY <1>0, <1>1, HasSealed, Zenon DEF Rec
<1>6. \A g, h \in Flows \ {f} : After(g, h)' <=> After(g, h)
  BY <1>0, <1>1, <1>4, HasSealed, Zenon DEF After
<1>7. \A g \in Flows : Has(puts', g) <=> Sealed(g)'
  BY <1>0, <1>1, <1>4, HasSealed, Zenon
<1>8. Lines(puts')
  BY <1>0, <1>1, Zenon
<1>9. {puts'[i].flow : i \in DOMAIN puts'} = {g \in Flows : Has(puts', g)}
  BY <1>8, FlowsOf, Zenon
<1>10. {puts'[i].flow : i \in DOMAIN puts'} = {g \in Flows : flow'[g].write = "sealed"}
  BY <1>7, <1>9 DEF Sealed
<1>11. \A g \in Flows : Sealed(g)' => Rec(g)'.gen = flow'[g].gen
  BY <1>2, <1>4, <1>5, Zenon DEF Lined
<1>12. Lined'
  BY <1>8, <1>11, Zenon DEF Lined, Lines, Put
<1> QED
  BY <1>4, <1>5, <1>6, <1>10, <1>12, Zenon

\* What f seals comes after everything sealed before.
LEMMA SealedNow ==
  ASSUME TypeOK, Lined, NEW f \in Flows, Seal(f)
  PROVE  /\ Lined' /\ {puts'[i].flow : i \in DOMAIN puts'} = {g \in Flows : flow'[g].write = "sealed"}
         /\ \A g \in Flows \ {f} : (Sealed(g)' <=> Sealed(g)) /\ (Sealed(g) => Rec(g)' = Rec(g))
         /\ Sealed(f)' /\ Rec(f)' = [gen |-> flow[f].gen, outbox |-> outbox, thread |-> thread]
         /\ \A g, h \in Flows \ {f} : After(g, h)' <=> After(g, h)
         /\ \A g \in Flows \ {f} : (After(f, g)' <=> Sealed(g)) /\ ~After(g, f)'
<1> DEFINE r == [gen |-> flow[f].gen, outbox |-> outbox, thread |-> thread]
           x == [flow |-> f, rec |-> r]
           q == Append(puts, x)
<1>0. r \in Record
  BY DEF TypeOK, Record, Flow
<1>1. x \in Put /\ x.flow = f /\ x.rec = r
  BY <1>0 DEF Put
<1>2. puts' = q
  BY DEF Seal, History
<1>3. /\ Lines(puts) /\ ~Has(puts, f)
      /\ \A g : PutOf(g) = Pl(puts, g) /\ PutOf(g)' = Pl(puts', g)
  BY LinesPuts, HasSealed DEF Seal, Sealed, PutOf, Pl
<1> HIDE DEF r, x
<1>4. /\ Lines(q) /\ \A g : Has(q, g) <=> Has(puts, g) \/ g = f
      /\ \A g : Has(puts, g) => Pl(q, g) = Pl(puts, g) /\ q[Pl(q, g)] = puts[Pl(puts, g)]
      /\ Pl(q, f) = Len(puts) + 1 /\ q[Pl(q, f)] = x
  BY <1>1, <1>3, Appended, Zenon
<1> HIDE DEF q
<1>5. /\ \A g \in Flows \ {f} : flow'[g] = flow[g]
      /\ flow'[f].write = "sealed" /\ flow'[f].gen = flow[f].gen
  BY DEF TypeOK, Seal, Flow
<1>6. (\A g \in Flows \ {f} : Sealed(g)' <=> Sealed(g)) /\ Sealed(f)' /\ ~Sealed(f)
  BY <1>5, Zenon DEF Sealed, Seal
<1>7. \A g \in Flows \ {f} : Sealed(g) => Rec(g)' = Rec(g)
  BY <1>2, <1>3, <1>4, HasSealed, Zenon DEF Rec
<1>8. Rec(f)' = r
  BY <1>1, <1>2, <1>3, <1>4, Zenon DEF Rec
<1>9. \A g, h \in Flows \ {f} : After(g, h)' <=> After(g, h)
  BY <1>2, <1>3, <1>4, <1>6, HasSealed, Zenon DEF After
<1>10. \A g \in Flows \ {f} : (After(f, g)' <=> Sealed(g)) /\ ~After(g, f)'
  <2> TAKE g \in Flows \ {f}
  <2>1. CASE ~Sealed(g)
    BY <2>1, <1>6, Zenon DEF After
  <2>2. CASE Sealed(g)
    <3>1. Pl(puts, g) \in 1..Len(puts)
      BY <1>3, <2>2, HasSealed, Placed, Zenon
    <3>2. Len(puts) \in Nat
      BY <1>3, LenProperties DEF Lines
    <3>3. PutOf(f)' = Len(puts) + 1 /\ PutOf(g)' = Pl(puts, g)
      BY <1>2, <1>3, <1>4, <2>2, HasSealed, Zenon
    <3>4. PutOf(g)' < PutOf(f)' /\ ~(PutOf(f)' < PutOf(g)')
      BY <3>1, <3>2, <3>3
    <3> QED
      BY <3>4, <1>6, <2>2, Zenon DEF After
  <2> QED
    BY <2>1, <2>2
<1>11. \A g \in Flows : Has(puts', g) <=> Sealed(g)'
  BY <1>2, <1>4, <1>6, HasSealed, Zenon
<1>12. Lines(puts')
  BY <1>2, <1>4, Zenon
<1>13. {puts'[i].flow : i \in DOMAIN puts'} = {g \in Flows : Has(puts', g)}
  BY <1>12, FlowsOf, Zenon
<1>14. {puts'[i].flow : i \in DOMAIN puts'} = {g \in Flows : flow'[g].write = "sealed"}
  BY <1>11, <1>13 DEF Sealed
<1>15. \A g \in Flows : Sealed(g)' => Rec(g)'.gen = flow'[g].gen
  <2>1. Rec(f)'.gen = flow'[f].gen
    BY <1>5, <1>8 DEF r
  <2> QED
    BY <1>5, <1>6, <1>7, <2>1, Zenon DEF Lined
<1>16. Lined'
  BY <1>12, <1>15, Zenon DEF Lined, Lines, Put
<1> QED
  BY <1>6, <1>7, <1>8, <1>9, <1>10, <1>14, <1>16, Zenon DEF r

----------------------------------------------------------------------------
(* The kinds of steps.                                                     *)

\* Flow f goes on, and at most the queue, the thread and the ratchet with it; what it changes of
\* the two first it is to write.
Goes(f) ==
  /\ flow' = [flow EXCEPT ![f] = flow'[f]] /\ flow'[f] \in Flow /\ flow'[f].write # "sealed"
  /\ Fits(flow'[f], thread', (1..written') \ gone', gen')
  /\ outbox' \in Seq(Texts) /\ Queued(outbox)' /\ failed' \subseteq Texts
  /\ thread \subseteq thread' /\ thread' \subseteq Texts
  /\ gen' \in Nat /\ gen <= gen' /\ (gen' = gen \/ flow'[f].gen = gen')
  /\ written' \in 0..MaxTexts /\ written <= written'
  /\ faults' \in 0..MaxFaults /\ crashes' = crashes
  /\ gone' = gone /\ discarded \subseteq discarded' /\ Kept'
  /\ flow'[f].write = "begun" => flow'[f].gen = gen'
  /\ flow'[f].write = "begun" \/ (outbox' = outbox /\ thread' = thread)

\* It does so without a write.
Starts(f) ==
  /\ Goes(f)
  /\ flow[f].write = "none" /\ flow'[f].at # "idle"
  /\ Busy(f) => flow[f].gen <= flow'[f].gen
  /\ puts' = puts /\ old' = old /\ disk' = disk
  /\ saved' = saved /\ behind' = behind

\* Its write is over, landed or refused.
Ends(f) ==
  /\ Goes(f)
  /\ WriteOver(f)
  /\ \/ disk' = Rec(f) /\ behind' = (f \in old)
     \/ disk' = disk /\ behind' = TRUE
  /\ \/ saved' = saved
     \/ flow[f].at = "queued" /\ saved' = saved \cup {flow[f].text}
  /\ flow'[f].at = "idle" => outbox' = outbox /\ thread' = thread /\ gen' = gen

\* A flow that writes nothing leaves every write as it is.
LEMMA Still ==
  ASSUME TypeOK, Lined, NEW f \in Flows, flow' = [flow EXCEPT ![f] = flow'[f]],
         ~Sealed(f), flow'[f].write # "sealed", puts' = puts
  PROVE  /\ Lined' /\ {puts'[i].flow : i \in DOMAIN puts'} = {g \in Flows : flow'[g].write = "sealed"}
         /\ \A g \in Flows : (Sealed(g)' <=> Sealed(g)) /\ (Sealed(g) => Rec(g)' = Rec(g))
         /\ \A g, h \in Flows : After(g, h)' <=> After(g, h)
<1>1. \A g \in Flows \ {f} : flow'[g] = flow[g]
  BY DEF TypeOK
<1>2. \A g \in Flows : Sealed(g)' <=> Sealed(g)
  BY <1>1, Zenon DEF Sealed
<1>3. \A g \in Flows : PutOf(g)' = PutOf(g) /\ Rec(g)' = Rec(g)
  BY DEF PutOf, Rec
<1>4. {puts'[i].flow : i \in DOMAIN puts'} = {g \in Flows : flow'[g].write = "sealed"}
  <2>1. {puts[i].flow : i \in DOMAIN puts} = {g \in Flows : flow[g].write = "sealed"}
    BY Zenon DEF TypeOK
  <2>2. {g \in Flows : flow[g].write = "sealed"} = {g \in Flows : flow'[g].write = "sealed"}
    BY <1>2 DEF Sealed
  <2> QED
    BY <2>1, <2>2, Zenon
<1>5. \A g \in Flows : Sealed(g) => g # f
  BY Zenon
<1>6. Lined'
  BY <1>1, <1>2, <1>3, <1>5, Zenon DEF Lined
<1> QED
  BY <1>2, <1>3, <1>4, <1>6, Zenon DEF After

LEMMA GoesBased ==
  ASSUME Based, NEW f \in Flows, Goes(f), Lined',
         {puts'[i].flow : i \in DOMAIN puts'} = {g \in Flows : flow'[g].write = "sealed"},
         \A g \in Flows \ {f} : (Sealed(g)' <=> Sealed(g)) /\ (Sealed(g) => Rec(g)' = Rec(g)),
         old' \subseteq Flows, disk' = disk \/ (Sealed(f) /\ disk' = Rec(f)),
         saved' \subseteq (1..written) \ gone
  PROVE  Based'
<1> USE DEF Based
<1>1. /\ flow \in [Flows -> Flow] /\ flow' \in [Flows -> Flow]
      /\ \A g \in Flows \ {f} : flow'[g] = flow[g]
  BY DEF TypeOK, Goes
<1>2. 1..written \subseteq 1..written' /\ written \in Nat /\ written' \in Nat
  BY SendingAssumption DEF TypeOK, Goes
<1>3. \A g \in Flows : Sealed(g)' => Rec(g)' \in Record
  <2> TAKE g \in Flows
  <2> HAVE Sealed(g)'
  <2>1. Lines(puts') /\ Rec(g)' = puts'[Pl(puts', g)].rec
    BY DEF Lined, Lines, Put, Rec, PutOf, Pl
  <2>2. Has(puts', g)
    BY DEF Has, Sealed
  <2>3. puts'[Pl(puts', g)] \in Put
    BY <2>1, <2>2, Placed, Zenon
  <2> QED
    BY <2>1, <2>3 DEF Put
<1>4. \A g \in Flows : Sealed(g) => Rec(g) \in Record
  <2> TAKE g \in Flows
  <2> HAVE Sealed(g)
  <2>1. Lines(puts) /\ Rec(g) = puts[Pl(puts, g)].rec /\ Has(puts, g)
    BY LinesPuts, HasSealed DEF Rec
  <2>2. puts[Pl(puts, g)] \in Put
    BY <2>1, Placed, Zenon
  <2> QED
    BY <2>1, <2>2 DEF Put
<1>5. disk' \in Record
  BY <1>4 DEF TypeOK
<1>6. TypeOK'
  <2>1. /\ outbox' \in Seq(Texts) /\ failed' \subseteq Texts /\ thread' \subseteq Texts
        /\ gen' \in Nat /\ written' \in 0..MaxTexts /\ faults' \in 0..MaxFaults
        /\ IsInjective(outbox)' /\ crashes' \in 0..MaxCrashes
    BY DEF Goes, Queued, TypeOK
  <2>2. \A i \in DOMAIN puts' : puts'[i].rec \in Record
    <3>1. Lines(puts')
      BY DEF Lined, Lines, Put
    <3>2. \A i \in DOMAIN puts' : puts'[i] \in Put
      BY <3>1, PutsOf, Zenon
    <3> QED
      BY <3>2 DEF Put
  <2> QED
    BY <1>1, <1>5, <2>1, <2>2 DEF TypeOK
<1>7. Staged'
  <2>1. \A g \in Flows \ {f} : Fits(flow[g], thread', (1..written') \ gone', gen')
    <3> TAKE g \in Flows \ {f}
    <3>1. Fits(flow[g], thread, (1..written) \ gone, gen)
      BY DEF Staged
    <3>2. flow[g].gen \in Nat /\ gen \in Nat /\ gen' \in Nat /\ gen <= gen'
      BY <1>1 DEF TypeOK, Goes, Flow
    <3>3. flow[g].gen <= gen'
      BY <3>1, <3>2 DEF Fits
    <3>4. thread \subseteq thread' /\ (1..written) \ gone \subseteq (1..written') \ gone'
      BY <1>2 DEF Goes
    <3> QED
      BY <3>1, <3>3, <3>4, Zenon DEF Fits
  <2>2. \A g \in Flows : Fits(flow'[g], thread', (1..written') \ gone', gen')
    BY <1>1, <2>1, Zenon DEF Goes
  <2> QED
    BY <2>2 DEF Staged
<1>8. \A q : Queued(q) => IsInjective(q) /\ ToSet(q) \subseteq 1..written'
  BY <1>2 DEF Queued
<1>9. Counted'
  <2>1. Queued(outbox)'
    BY DEF Goes
  <2>2. Queued(disk.outbox)'
    BY <1>8, Zenon DEF Counted, Queued
  <2>3. \A g \in Flows : Sealed(g)' => Queued(Rec(g).outbox)'
    <3> TAKE g \in Flows
    <3> HAVE Sealed(g)'
    <3>1. Sealed(g) /\ Rec(g)' = Rec(g)
      BY Zenon DEF Sealed, Goes
    <3> QED
      BY <1>8, <3>1, Zenon DEF Counted, Queued
  <2>4. gone' \subseteq 1..written' /\ saved' \subseteq (1..written') \ gone'
    BY <1>2 DEF Counted, Goes
  <2> QED
    BY <2>1, <2>2, <2>3, <2>4 DEF Counted
<1> QED
  BY <1>6, <1>7, <1>9 DEF Goes

LEMMA StartsBased ==
  ASSUME Based, NEW f \in Flows, Starts(f)
  PROVE  Based'
<1>1. ~Sealed(f)
  BY DEF Starts, Sealed
<1>2. /\ flow' = [flow EXCEPT ![f] = flow'[f]] /\ flow'[f].write # "sealed" /\ puts' = puts
      /\ old' = old /\ disk' = disk /\ saved' = saved
  BY DEF Starts, Goes
<1>3. old' \subseteq Flows /\ saved' \subseteq (1..written) \ gone
  BY <1>2 DEF Based, TypeOK, Counted
<1>4. /\ Lined' /\ {puts'[i].flow : i \in DOMAIN puts'} = {g \in Flows : flow'[g].write = "sealed"}
      /\ \A g \in Flows \ {f} : (Sealed(g)' <=> Sealed(g)) /\ (Sealed(g) => Rec(g)' = Rec(g))
  BY <1>1, <1>2, Still, Zenon DEF Based
<1>5. Goes(f)
  BY Zenon DEF Starts
<1> QED
  BY <1>2, <1>3, <1>4, <1>5, GoesBased, Zenon

LEMMA EndsBased ==
  ASSUME Based, NEW f \in Flows, Ends(f)
  PROVE  Based'
<1>1. flow' = [flow EXCEPT ![f] = flow'[f]] /\ flow'[f].write # "sealed" /\ WriteOver(f)
  BY DEF Ends, Goes
<1>2. old' \subseteq Flows
  BY <1>1 DEF WriteOver, Elders, Based, TypeOK
<1>3. saved' \subseteq (1..written) \ gone
  BY DEF Ends, Based, Staged, Fits, Counted
<1>4. Sealed(f) /\ (disk' = disk \/ disk' = Rec(f))
  BY <1>1 DEF Ends, WriteOver, Sealed
<1>5. /\ Lined' /\ {puts'[i].flow : i \in DOMAIN puts'} = {g \in Flows : flow'[g].write = "sealed"}
      /\ \A g \in Flows \ {f} : (Sealed(g)' <=> Sealed(g)) /\ (Sealed(g) => Rec(g)' = Rec(g))
  BY <1>1, Ended, Zenon DEF Based
<1>6. Goes(f)
  BY Zenon DEF Ends
<1> QED
  BY <1>2, <1>3, <1>4, <1>5, <1>6, GoesBased, Zenon

LEMMA SealBased ==
  ASSUME Based, NEW f \in Flows, Seal(f)
  PROVE  Based'
<1> USE DEF Based
<1>1. /\ UNCHANGED <<mem, old, disk, written, faults, crashes, discarded, ghost>>
      /\ \A g \in Flows \ {f} : flow'[g] = flow[g]
      /\ flow' \in [Flows -> Flow]
      /\ flow'[f].write = "sealed" /\ flow[f].write = "begun"
      /\ flow'[f].at = flow[f].at /\ flow'[f].text = flow[f].text /\ flow'[f].gen = flow[f].gen
  BY DEF TypeOK, Seal, Flow
<1>2. TypeOK'
  <2>1. \A i \in DOMAIN puts' : puts'[i].rec \in Record
    <3>1. Lines(puts')
      BY SealedNow, Zenon DEF Lined, Lines, Put
    <3>2. \A i \in DOMAIN puts' : puts'[i] \in Put
      BY <3>1, PutsOf, Zenon
    <3> QED
      BY <3>2 DEF Put
  <2> QED
    BY <1>1, <2>1, SealedNow DEF TypeOK, mem
<1>3. Staged'
  BY <1>1, Zenon DEF Staged, Fits, mem, ghost
<1>4. Counted'
  <2>1. \A g \in Flows : Sealed(g)' => Queued(Rec(g).outbox)'
    <3> TAKE g \in Flows
    <3> HAVE Sealed(g)'
    <3>1. CASE g = f
      <4>1. Rec(f)'.outbox = outbox
        BY SealedNow
      <4> QED
        BY <1>1, <3>1, <4>1 DEF Counted, Queued
    <3>2. CASE g # f
      BY <1>1, <3>2, SealedNow, Zenon DEF Counted, Queued
    <3> QED
      BY <3>1, <3>2
  <2> QED
    BY <1>1, <2>1 DEF Counted, Queued, mem, ghost
<1>5. Kept'
  BY <1>1 DEF Kept, mem, ghost
<1> QED
  BY <1>2, <1>3, <1>4, <1>5, SealedNow

----------------------------------------------------------------------------
(* What was saved stays so.                                                *)

LEMMA StartsSafe ==
  ASSUME Based, Safe, NEW f \in Flows, Starts(f)
  PROVE  Safe'
<1>0. /\ TypeOK /\ Lined /\ flow' = [flow EXCEPT ![f] = flow'[f]] /\ ~Sealed(f)
      /\ flow'[f].write # "sealed" /\ puts' = puts /\ old' = old /\ disk' = disk
      /\ saved' = saved /\ behind' = behind /\ discarded \subseteq discarded'
  BY DEF Based, Starts, Goes, Sealed
<1>1. /\ \A g \in Flows : (Sealed(g)' <=> Sealed(g)) /\ (Sealed(g) => Rec(g)' = Rec(g))
      /\ \A g, h \in Flows : After(g, h)' <=> After(g, h)
  BY <1>0, Still, Zenon
<1>2. \A g \in Flows \ {f} : flow'[g] = flow[g]
  BY <1>0 DEF TypeOK
<1>3. \A g \in Flows : Sealed(g) => g # f
  BY <1>0, Zenon
<1>4. SavedIsSafe'
  BY <1>0 DEF Safe, SavedIsSafe
<1>5. \A g \in Flows \ old' : Sealed(g)' => saved' \subseteq Holding(Rec(g))'
  <2> SUFFICES ASSUME NEW g \in Flows \ old, Sealed(g) PROVE saved \subseteq Holding(Rec(g))'
    BY <1>0, <1>1, Zenon
  <2>1. Rec(g)' = Rec(g) /\ saved \subseteq Holding(Rec(g))
    BY <1>1, Zenon DEF Safe
  <2> QED
    BY <1>0, <2>1 DEF Holding
<1>6. \A h, g \in Flows : flow'[g].at = "queued" /\ Sealed(g)' /\ (h = g \/ After(h, g)')
                            => flow'[g].text \in Holding(Rec(h))'
  <2> SUFFICES ASSUME NEW h \in Flows, NEW g \in Flows, flow'[g].at = "queued", Sealed(g)',
                      h = g \/ After(h, g)'
               PROVE  flow'[g].text \in Holding(Rec(h))'
    BY Zenon
  <2>1. Sealed(g) /\ flow'[g] = flow[g] /\ (h = g \/ After(h, g))
    BY <1>1, <1>2, <1>3, Zenon
  <2>2. Sealed(h)
    BY <2>1, Zenon DEF After
  <2>3. Rec(h)' = Rec(h) /\ flow[g].text \in Holding(Rec(h))
    BY <1>1, <2>1, <2>2, Zenon DEF Safe
  <2> QED
    BY <1>0, <2>1, <2>3 DEF Holding
<1> QED
  BY <1>4, <1>5, <1>6, Zenon DEF Safe

\* Of two writes sealed, one is after the other.
LEMMA Ordered ==
  ASSUME TypeOK, Lined, NEW f \in Flows, NEW g \in Flows, f # g, Sealed(f), Sealed(g)
  PROVE  After(f, g) \/ After(g, f)
<1>1. Lines(puts) /\ Has(puts, f) /\ Has(puts, g) /\ PutOf(f) = Pl(puts, f) /\ PutOf(g) = Pl(puts, g)
  BY LinesPuts, HasSealed, Zenon
<1>2. PutOf(f) \in 1..Len(puts) /\ PutOf(g) \in 1..Len(puts) /\ PutOf(f) # PutOf(g)
  <2>1. PutOf(f) \in 1..Len(puts) /\ puts[PutOf(f)].flow = f
    BY <1>1, Placed, Zenon
  <2>2. PutOf(g) \in 1..Len(puts) /\ puts[PutOf(g)].flow = g
    BY <1>1, Placed, Zenon
  <2> QED
    BY <2>1, <2>2
<1>3. Len(puts) \in Nat
  BY <1>1, LenProperties DEF Lines
<1>4. PutOf(f) < PutOf(g) \/ PutOf(g) < PutOf(f)
  BY <1>2, <1>3
<1> QED
  BY <1>4, Zenon DEF After

\* What is sealed after a write that ends is old, and what has an earlier generation.
LEMMA Aged ==
  ASSUME TypeOK, Lined, NEW f \in Flows, WriteOver(f), NEW g \in Flows \ {f}, g \notin old'
  PROVE  /\ g \notin old
         /\ Sealed(g) => After(g, f) /\ ~After(f, g)
         /\ flow[g].write # "none" => ~(flow[g].gen < flow[f].gen)
<1>1. old' = (old \ {f}) \cup Elders(f) /\ Sealed(f)
  BY DEF WriteOver, Sealed
<1>2. g \notin old /\ g \notin Elders(f)
  BY <1>1
<1>3. flow[g].write # "none" => ~(flow[g].gen < flow[f].gen)
  BY <1>2 DEF Elders
<1>4. Sealed(g) => ~(PutOf(g) < PutOf(f))
  BY <1>2 DEF Elders, Sealed
<1>5. Sealed(g) => ~After(f, g)
  BY <1>4, Zenon DEF After
<1>6. Sealed(g) => After(g, f)
  BY <1>1, <1>5, Ordered
<1> QED
  BY <1>2, <1>3, <1>5, <1>6

LEMMA EndsSafe ==
  ASSUME Based, Safe, NEW f \in Flows, Ends(f)
  PROVE  Safe'
<1>0. /\ TypeOK /\ Lined /\ flow' = [flow EXCEPT ![f] = flow'[f]] /\ Sealed(f)
      /\ flow'[f].write # "sealed" /\ WriteOver(f) /\ discarded \subseteq discarded'
      /\ \/ disk' = Rec(f) /\ behind' = (f \in old)
         \/ disk' = disk /\ behind' = TRUE
      /\ \/ saved' = saved
         \/ flow[f].at = "queued" /\ saved' = saved \cup {flow[f].text}
  BY DEF Based, Ends, Goes, Sealed, WriteOver
<1>1. /\ \A g \in Flows \ {f} : (Sealed(g)' <=> Sealed(g)) /\ (Sealed(g) => Rec(g)' = Rec(g))
      /\ ~Sealed(f)'
      /\ \A g, h \in Flows \ {f} : After(g, h)' <=> After(g, h)
  BY <1>0, Ended, Zenon
<1>2. \A g \in Flows \ {f} : flow'[g] = flow[g]
  BY <1>0 DEF TypeOK
<1>3. ASSUME f \notin old PROVE saved' \subseteq Holding(Rec(f))
  <2>1. saved \subseteq Holding(Rec(f))
    BY <1>0, <1>3, Zenon DEF Safe
  <2>2. flow[f].at = "queued" => flow[f].text \in Holding(Rec(f))
    BY <1>0, Zenon DEF Safe
  <2> QED
    BY <1>0, <2>1, <2>2
<1>4. SavedIsSafe'
  <2>1. CASE disk' = Rec(f) /\ behind' = (f \in old)
    <3>1. CASE f \in old
      BY <2>1, <3>1, Zenon DEF SavedIsSafe
    <3>2. CASE f \notin old
      BY <1>0, <1>3, <2>1, <3>2 DEF Holding, SavedIsSafe
    <3> QED
      BY <3>1, <3>2
  <2>2. CASE disk' = disk /\ behind' = TRUE
    BY <2>2, Zenon DEF SavedIsSafe
  <2> QED
    BY <1>0, <2>1, <2>2
<1>5. \A g \in Flows \ old' : Sealed(g)' => saved' \subseteq Holding(Rec(g))'
  <2> SUFFICES ASSUME NEW g \in Flows \ old', Sealed(g)' PROVE saved' \subseteq Holding(Rec(g))'
    BY Zenon
  <2>1. g \in Flows \ {f} /\ Sealed(g)
    BY <1>1, Zenon
  <2>2. g \notin old /\ After(g, f)
    BY <1>0, <2>1, Aged, Zenon
  <2>3. Rec(g)' = Rec(g) /\ saved \subseteq Holding(Rec(g))
    BY <1>1, <2>1, <2>2, Zenon DEF Safe
  <2>4. flow[f].at = "queued" => flow[f].text \in Holding(Rec(g))
    BY <1>0, <2>1, <2>2, Zenon DEF Safe
  <2> QED
    BY <1>0, <2>3, <2>4 DEF Holding
<1>6. \A h, g \in Flows : flow'[g].at = "queued" /\ Sealed(g)' /\ (h = g \/ After(h, g)')
                            => flow'[g].text \in Holding(Rec(h))'
  <2> SUFFICES ASSUME NEW h \in Flows, NEW g \in Flows, flow'[g].at = "queued", Sealed(g)',
                      h = g \/ After(h, g)'
               PROVE  flow'[g].text \in Holding(Rec(h))'
    BY Zenon
  <2>1. Sealed(h)'
    BY Zenon DEF After
  <2>2. g \in Flows \ {f} /\ h \in Flows \ {f} /\ Sealed(g) /\ Sealed(h)
    BY <1>1, <2>1, Zenon
  <2>3. flow'[g] = flow[g] /\ (h = g \/ After(h, g))
    BY <1>1, <1>2, <2>2, Zenon
  <2>4. Rec(h)' = Rec(h) /\ flow[g].text \in Holding(Rec(h))
    BY <1>1, <2>2, <2>3, Zenon DEF Safe
  <2> QED
    BY <1>0, <2>3, <2>4 DEF Holding
<1> QED
  BY <1>4, <1>5, <1>6, Zenon DEF Safe

LEMMA SealSafe ==
  ASSUME Based, Safe, NEW f \in Flows, Seal(f)
  PROVE  Safe'
<1>0. /\ UNCHANGED <<mem, old, disk, written, faults, crashes, discarded, ghost>>
      /\ \A g \in Flows \ {f} : flow'[g] = flow[g]
      /\ flow'[f].at = flow[f].at /\ flow'[f].text = flow[f].text
      /\ TypeOK /\ Lined
  BY DEF Based, TypeOK, Seal, Flow
<1>1. /\ \A g \in Flows \ {f} : (Sealed(g)' <=> Sealed(g)) /\ (Sealed(g) => Rec(g)' = Rec(g))
      /\ Sealed(f)' /\ Rec(f)' = [gen |-> flow[f].gen, outbox |-> outbox, thread |-> thread]
      /\ \A g, h \in Flows \ {f} : After(g, h)' <=> After(g, h)
      /\ \A g \in Flows \ {f} : (After(f, g)' <=> Sealed(g)) /\ ~After(g, f)'
  BY <1>0, SealedNow, Zenon
<1>2. \A t \in (1..written) \ gone : t \in ToSet(outbox) \cup thread \cup discarded
  BY DEF Based, Kept
<1>3. \A t \in (1..written) \ gone : t \in Holding(Rec(f))'
  BY <1>0, <1>1, <1>2 DEF Holding
<1>4. SavedIsSafe'
  BY <1>0 DEF Safe, SavedIsSafe, ghost
<1>5. \A g \in Flows : g # f /\ Sealed(g) => Holding(Rec(g))' = Holding(Rec(g))
  BY <1>0, <1>1 DEF Holding
<1>6. \A g \in Flows \ old' : Sealed(g)' => saved' \subseteq Holding(Rec(g))'
  <2> SUFFICES ASSUME NEW g \in Flows \ old, Sealed(g)' PROVE saved \subseteq Holding(Rec(g))'
    BY <1>0 DEF ghost
  <2>1. CASE g = f
    BY <2>1, <1>3 DEF Based, Counted
  <2>2. CASE g # f
    BY <2>2, <1>1, <1>5, Zenon DEF Safe
  <2> QED
    BY <2>1, <2>2
<1>7. \A h, g \in Flows : flow'[g].at = "queued" /\ Sealed(g)' /\ (h = g \/ After(h, g)')
                            => flow'[g].text \in Holding(Rec(h))'
  <2> SUFFICES ASSUME NEW h \in Flows, NEW g \in Flows, flow'[g].at = "queued", Sealed(g)',
                      h = g \/ After(h, g)'
               PROVE  flow'[g].text \in Holding(Rec(h))'
    BY Zenon
  <2>1. flow[g].at = "queued" /\ flow'[g].text = flow[g].text
    BY <1>0, Zenon
  <2>2. flow[g].text \in (1..written) \ gone
    BY <2>1, Zenon DEF Based, Staged, Fits
  <2>3. CASE h = f
    BY <1>3, <2>1, <2>2, <2>3, Zenon
  <2>4. CASE h # f
    <3>1. g # f
      BY <1>1, <2>4, Zenon
    <3>2. Sealed(g) /\ (h = g \/ After(h, g))
      BY <1>1, <2>4, <3>1, Zenon
    <3>3. Sealed(h)
      BY <3>2, Zenon DEF After
    <3>4. flow[g].text \in Holding(Rec(h))
      BY <2>1, <3>2, Zenon DEF Safe
    <3> QED
      BY <1>5, <2>1, <2>4, <3>3, <3>4, Zenon
  <2> QED
    BY <2>3, <2>4
<1> QED
  BY <1>4, <1>6, <1>7, Zenon DEF Safe

----------------------------------------------------------------------------
(* The disk follows memory.                                                *)

\* The two parts of Current that speak of writes.
Generated ==
  \A f \in Flows \ old : flow[f].write # "none" /\ flow[f].gen < gen
    => \E g \in Flows \ {f} : Busy(g) /\ flow[f].gen < flow[g].gen

Matches(f) == Rec(f).outbox = outbox /\ Rec(f).thread = thread
Owed(f)    == \E g \in Flows \ {f} : flow[g].write = "begun" \/ After(g, f)
Mirrored   == \A f \in Flows \ old : Sealed(f) => Matches(f) \/ Owed(f)

LEMMA CurrentParts == Current <=> Generated /\ Mirrored /\ QuietIsSaved
  BY Zenon DEF Current, Generated, Mirrored, Matches, Owed

LEMMA Gens ==
  ASSUME Based, NEW f \in Flows
  PROVE  flow[f].gen \in Nat /\ gen \in Nat /\ flow[f].gen <= gen
  BY DEF Based, TypeOK, Flow, Staged, Fits

LEMMA StartsCurrent ==
  ASSUME Based, Current, NEW f \in Flows, Starts(f)
  PROVE  Current'
<1>0. /\ TypeOK /\ Lined /\ flow' = [flow EXCEPT ![f] = flow'[f]] /\ ~Sealed(f)
      /\ flow[f].write = "none" /\ flow'[f].write # "sealed" /\ puts' = puts /\ old' = old
      /\ Generated /\ Mirrored
  BY CurrentParts DEF Based, Starts, Goes, Sealed
<1>1. /\ \A g \in Flows : (Sealed(g)' <=> Sealed(g)) /\ (Sealed(g) => Rec(g)' = Rec(g))
      /\ \A g, h \in Flows : After(g, h)' <=> After(g, h)
  BY <1>0, Still, Zenon
<1>2. flow'[f] \in Flow /\ \A g \in Flows \ {f} : flow'[g] = flow[g]
  BY <1>0 DEF TypeOK, Starts, Goes
<1>3. Busy(f)'
  BY DEF Starts, Busy
<1>4. /\ gen' \in Nat /\ gen <= gen' /\ (gen' = gen \/ flow'[f].gen = gen')
      /\ flow'[f].write = "begun" => flow'[f].gen = gen'
      /\ Busy(f) => flow[f].gen <= flow'[f].gen
      /\ flow'[f].gen \in Nat
      /\ flow'[f].write = "begun" \/ (outbox' = outbox /\ thread' = thread)
  BY <1>2 DEF Starts, Goes, Flow
<1>5. Generated'
  <2> SUFFICES ASSUME NEW h \in Flows \ old, flow'[h].write # "none", flow'[h].gen < gen'
               PROVE  \E g \in Flows \ {h} : Busy(g)' /\ flow'[h].gen < flow'[g].gen
    BY <1>0, Zenon DEF Generated
  <2>1. h # f
    <3>1. h = f => flow'[h].write = "begun"
      BY <1>0, <1>2 DEF Flow
    <3> QED
      BY <3>1, <1>4
  <2>2. flow'[h] = flow[h] /\ flow[h].gen \in Nat
    BY <1>2, <2>1, Gens
  <2>3. CASE flow'[f].gen = gen'
    BY <1>3, <2>1, <2>3
  <2>4. CASE gen' = gen
    <3>1. PICK g \in Flows \ {h} : Busy(g) /\ flow[h].gen < flow[g].gen
      BY <1>0, <2>2, <2>4, Zenon DEF Generated
    <3>2. CASE g = f
      <4>1. flow[g].gen \in Nat /\ flow[f].gen <= flow'[f].gen
        BY <1>4, <3>1, <3>2, Gens
      <4>2. flow'[h].gen < flow'[f].gen
        BY <1>4, <2>2, <3>1, <3>2, <4>1
      <4> QED
        BY <1>3, <2>1, <4>2, Zenon
    <3>3. CASE g # f
      BY <1>2, <2>2, <3>1, <3>3, Zenon DEF Busy
    <3> QED
      BY <3>2, <3>3
  <2> QED
    BY <1>4, <2>3, <2>4
<1>6. Mirrored'
  <2> SUFFICES ASSUME NEW h \in Flows \ old, Sealed(h)', ~Matches(h)'
               PROVE  Owed(h)'
    BY <1>0, Zenon DEF Mirrored
  <2>1. h # f /\ Sealed(h) /\ Rec(h)' = Rec(h)
    BY <1>0, <1>1, Zenon
  <2>2. CASE flow'[f].write = "begun"
    BY <2>1, <2>2, Zenon DEF Owed
  <2>3. CASE outbox' = outbox /\ thread' = thread
    <3>1. ~Matches(h)
      BY <2>1, <2>3, Zenon DEF Matches
    <3>2. PICK g \in Flows \ {h} : flow[g].write = "begun" \/ After(g, h)
      BY <1>0, <2>1, <3>1, Zenon DEF Mirrored, Owed
    <3>3. CASE After(g, h)
      BY <1>1, <3>2, <3>3, Zenon DEF Owed
    <3>4. CASE flow[g].write = "begun"
      <4>1. g # f
        BY <1>0, <3>4, Zenon
      <4> QED
        BY <1>2, <3>4, <4>1, Zenon DEF Owed
    <3> QED
      BY <3>2, <3>3, <3>4
  <2> QED
    BY <1>4, <2>2, <2>3
<1>7. QuietIsSaved'
  BY <1>3, Zenon DEF QuietIsSaved
<1>8. (Generated /\ Mirrored /\ QuietIsSaved)'
  BY <1>5, <1>6, <1>7
<1> QED
  BY <1>8, Zenon DEF Current, Generated, Mirrored, Matches, Owed

LEMMA EndsCurrent ==
  ASSUME Based, Current, NEW f \in Flows, Ends(f)
  PROVE  Current'
<1>0. /\ TypeOK /\ Lined /\ flow' = [flow EXCEPT ![f] = flow'[f]] /\ Sealed(f)
      /\ flow'[f].write # "sealed" /\ WriteOver(f) /\ Generated /\ Mirrored
  BY CurrentParts DEF Based, Ends, Goes, Sealed, WriteOver
<1>1. /\ \A g \in Flows \ {f} : (Sealed(g)' <=> Sealed(g)) /\ (Sealed(g) => Rec(g)' = Rec(g))
      /\ ~Sealed(f)'
      /\ \A g, h \in Flows \ {f} : After(g, h)' <=> After(g, h)
  BY <1>0, Ended, Zenon
<1>2. flow'[f] \in Flow /\ \A g \in Flows \ {f} : flow'[g] = flow[g]
  BY <1>0 DEF TypeOK, Ends, Goes
<1>3. /\ gen' \in Nat /\ gen <= gen' /\ (gen' = gen \/ flow'[f].gen = gen')
      /\ flow'[f].write = "begun" => flow'[f].gen = gen'
      /\ flow'[f].gen \in Nat
      /\ flow'[f].write = "begun" \/ (outbox' = outbox /\ thread' = thread)
      /\ flow'[f].at = "idle" => outbox' = outbox /\ thread' = thread /\ gen' = gen
      /\ Fits(flow'[f], thread', (1..written') \ gone', gen')
  BY <1>2 DEF Ends, Goes, Flow
<1>4. Generated'
  <2> SUFFICES ASSUME NEW h \in Flows \ old', flow'[h].write # "none", flow'[h].gen < gen'
               PROVE  \E g \in Flows \ {h} : Busy(g)' /\ flow'[h].gen < flow'[g].gen
    BY Zenon DEF Generated
  <2>1. h # f
    <3>1. h = f => flow'[h].write = "begun"
      BY <1>0, <1>2 DEF Flow
    <3> QED
      BY <3>1, <1>3
  <2>2. flow'[h] = flow[h] /\ flow[h].gen \in Nat
    BY <1>2, <2>1, Gens
  <2>3. h \notin old /\ ~(flow[h].gen < flow[f].gen)
    BY <1>0, <2>1, <2>2, Aged, Zenon
  <2>4. CASE flow'[f].at # "idle" /\ flow'[f].gen = gen'
    <3>1. Busy(f)'
      BY <2>4 DEF Busy
    <3> QED
      BY <2>1, <2>4, <3>1
  <2>5. CASE gen' = gen
    <3>1. PICK g \in Flows \ {h} : Busy(g) /\ flow[h].gen < flow[g].gen
      BY <1>0, <2>2, <2>3, <2>5, Zenon DEF Generated
    <3>2. g # f
      BY <2>3, <3>1, Zenon
    <3> QED
      BY <1>2, <2>2, <3>1, <3>2, Zenon DEF Busy
  <2> QED
    BY <1>3, <2>4, <2>5
<1>5. Mirrored'
  <2> SUFFICES ASSUME NEW h \in Flows \ old', Sealed(h)', ~Matches(h)'
               PROVE  Owed(h)'
    BY Zenon DEF Mirrored
  <2>1. h \in Flows \ {f} /\ Sealed(h) /\ Rec(h)' = Rec(h)
    BY <1>1, Zenon
  <2>2. h \notin old /\ ~After(f, h)
    BY <1>0, <2>1, Aged, Zenon
  <2>3. CASE flow'[f].write = "begun"
    BY <2>1, <2>3, Zenon DEF Owed
  <2>4. CASE outbox' = outbox /\ thread' = thread
    <3>1. ~Matches(h)
      BY <2>1, <2>4, Zenon DEF Matches
    <3>2. PICK g \in Flows \ {h} : flow[g].write = "begun" \/ After(g, h)
      BY <1>0, <2>1, <2>2, <3>1, Zenon DEF Mirrored, Owed
    <3>3. g # f
      <4>1. flow[f].write = "sealed"
        BY <1>0, Zenon DEF Sealed
      <4> QED
        BY <2>2, <3>2, <4>1
    <3> QED
      BY <1>1, <1>2, <2>1, <3>2, <3>3, Zenon DEF Owed
  <2> QED
    BY <1>3, <2>3, <2>4
<1>6. QuietIsSaved'
  <2> SUFFICES ASSUME \A g \in Flows : ~Busy(g)', ~behind'
               PROVE  disk' = [gen |-> gen', outbox |-> outbox', thread |-> thread']
    BY Zenon DEF QuietIsSaved
  <2>1. outbox' = outbox /\ thread' = thread /\ gen' = gen
    BY <1>3 DEF Busy
  <2>2. \A g \in Flows \ {f} : ~Busy(g)
    BY <1>2, Zenon DEF Busy
  <2>3. \A g \in Flows \ {f} : flow[g].write = "none"
    BY <2>2 DEF Based, Staged, Fits, Busy
  <2>4. disk' = Rec(f) /\ f \notin old
    BY DEF Ends
  <2>5. flow[f].gen = gen
    <3>1. ~(flow[f].gen < gen)
      BY <1>0, <2>2, <2>4, Zenon DEF Generated, Sealed
    <3> QED
      BY <3>1, Gens
  <2>6. Matches(f)
    <3>1. ~Owed(f)
      BY <2>3 DEF Owed, After, Sealed
    <3> QED
      BY <1>0, <2>4, <3>1, Zenon DEF Mirrored
  <2>7. Rec(f).gen = gen
    BY <1>0, <2>5, Zenon DEF Lined
  <2>8. Rec(f) \in Record
    <3>1. Lines(puts) /\ Rec(f) = puts[Pl(puts, f)].rec /\ Has(puts, f)
      BY <1>0, LinesPuts, HasSealed DEF Rec
    <3>2. puts[Pl(puts, f)] \in Put
      BY <3>1, Placed, Zenon
    <3> QED
      BY <3>1, <3>2 DEF Put
  <2> QED
    BY <2>1, <2>4, <2>6, <2>7, <2>8 DEF Record, Matches
<1>7. (Generated /\ Mirrored /\ QuietIsSaved)'
  BY <1>4, <1>5, <1>6
<1> QED
  BY <1>7, Zenon DEF Current, Generated, Mirrored, Matches, Owed

LEMMA SealCurrent ==
  ASSUME Based, Current, NEW f \in Flows, Seal(f)
  PROVE  Current'
<1>0. /\ outbox' = outbox /\ thread' = thread /\ gen' = gen /\ old' = old
      /\ \A g \in Flows \ {f} : flow'[g] = flow[g]
      /\ flow'[f].at = flow[f].at /\ flow'[f].gen = flow[f].gen
      /\ flow[f].write = "begun" /\ flow'[f].write = "sealed"
      /\ TypeOK /\ Lined
  BY DEF Based, TypeOK, Seal, Flow, mem
<1>1. /\ \A g \in Flows \ {f} : (Sealed(g)' <=> Sealed(g)) /\ (Sealed(g) => Rec(g)' = Rec(g))
      /\ Sealed(f)' /\ Rec(f)' = [gen |-> flow[f].gen, outbox |-> outbox, thread |-> thread]
      /\ \A g, h \in Flows \ {f} : After(g, h)' <=> After(g, h)
      /\ \A g \in Flows \ {f} : (After(f, g)' <=> Sealed(g)) /\ ~After(g, f)'
  BY <1>0, SealedNow, Zenon
<1>2. Generated /\ Mirrored
  BY CurrentParts
<1>3. Generated'
  BY <1>0, <1>2 DEF Generated, Busy
<1>4. Mirrored'
  <2> SUFFICES ASSUME NEW h \in Flows \ old, Sealed(h)', ~Matches(h)'
               PROVE  Owed(h)'
    BY <1>0, Zenon DEF Mirrored
  <2>1. h # f
    <3>1. Rec(f)'.outbox = outbox' /\ Rec(f)'.thread = thread'
      BY <1>0, <1>1
    <3> QED
      BY <3>1, Zenon DEF Matches
  <2>2. Sealed(h)
    BY <1>1, <2>1, Zenon
  <2>3. After(f, h)'
    BY <1>1, <2>1, <2>2, Zenon
  <2> QED
    BY <2>1, <2>3, Zenon DEF Owed
<1>5. QuietIsSaved'
  <2>1. flow[f].at # "idle"
    BY <1>0 DEF Based, Staged, Fits
  <2>2. Busy(f)'
    BY <1>0, <2>1 DEF Busy
  <2> QED
    BY <2>2, Zenon DEF QuietIsSaved
<1>6. (Generated /\ Mirrored /\ QuietIsSaved)'
  BY <1>3, <1>4, <1>5
<1> QED
  BY <1>6, Zenon DEF Current, Generated, Mirrored, Matches, Owed

----------------------------------------------------------------------------
(* Every action is a step of one of these kinds.                           *)

\* A flow that persists has read the ratchet there is.
LEMMA Persists ==
  ASSUME Based, NEW f \in Flows, NEW at \in {"posted", "closed", "dropped"},
         flow' = [flow EXCEPT ![f] = Persisting(flow[f], at)]
  PROVE  /\ flow' = [flow EXCEPT ![f] = flow'[f]] /\ flow'[f] \in Flow
         /\ flow'[f].write = "begun" /\ flow'[f].at = at /\ flow'[f].gen = gen
         /\ flow'[f].text = flow[f].text
<1>1. flow[f] \in Flow /\ flow \in [Flows -> Flow] /\ gen \in Nat
  BY DEF Based, TypeOK
<1>2. flow'[f] = [flow[f] EXCEPT !.at = at, !.write = "begun", !.gen = gen]
  BY <1>1 DEF Persisting
<1>3. flow' = [flow EXCEPT ![f] = flow'[f]]
  BY <1>1
<1> QED
  BY <1>1, <1>2, <1>3 DEF Flow

\* A flow that sends moves the ratchet and nothing that is stored beside it.
LEMMA Posts ==
  ASSUME Based, NEW f \in Flows, NEW t \in Texts, NEW rest \in Seq(Texts), Post(f, t, rest)
  PROVE  /\ flow' = [flow EXCEPT ![f] = flow'[f]] /\ flow'[f] \in Flow
         /\ flow'[f].write = "none" /\ flow'[f].at = "posting" /\ flow'[f].gen = gen'
         /\ \A th, w : Fits(flow'[f], th, w, gen')
         /\ outbox' = outbox /\ thread' = thread /\ failed' \subseteq Texts
         /\ gen' \in Nat /\ gen <= gen'
<1>1. flow \in [Flows -> Flow] /\ gen \in Nat /\ failed \subseteq Texts
  BY DEF Based, TypeOK
<1>2. /\ outbox' = outbox /\ thread' = thread /\ failed' \subseteq Texts
      /\ gen' = gen + 1 /\ gen' \in Nat /\ gen <= gen'
  BY <1>1 DEF Post, QueueWhilePosting
<1>3. flow'[f] = [at |-> "posting", write |-> "none", text |-> t, rest |-> rest, gen |-> gen + 1,
                  arrived |-> FALSE]
  BY <1>1 DEF Post, Idle
<1>4. t \in 0..MaxTexts
  BY SendingAssumption DEF Texts
<1>5. flow'[f] \in Flow
  BY <1>1, <1>3, <1>4 DEF Flow
<1>6. flow' = [flow EXCEPT ![f] = flow'[f]]
  BY <1>1, <1>3 DEF Post, Idle
<1> QED
  BY <1>2, <1>3, <1>5, <1>6 DEF Fits

\* What is not touched stays in range.
LEMMA Ranges ==
  ASSUME Based
  PROVE  /\ outbox \in Seq(Texts) /\ Queued(outbox) /\ failed \subseteq Texts
         /\ thread \subseteq Texts /\ gen \in Nat /\ gen <= gen
         /\ written \in 0..MaxTexts /\ written <= written /\ faults \in 0..MaxFaults
         /\ flow \in [Flows -> Flow]
  BY SendingAssumption DEF Based, TypeOK, Counted

LEMMA ArriveStarts ==
  ASSUME Based, NEW f \in Flows, Arrive(f) PROVE Starts(f)
<1> USE Ranges
<1>1. /\ flow' = [flow EXCEPT ![f] = flow'[f]] /\ flow'[f] \in Flow
      /\ flow'[f].at = "posting" /\ flow'[f].write = flow[f].write /\ flow'[f].text = flow[f].text
      /\ flow'[f].gen = flow[f].gen /\ flow[f].at = "posting"
  BY DEF Arrive, Flow
<1>2. Fits(flow[f], thread, (1..written) \ gone, gen)
  BY DEF Based, Staged
<1>3. flow[f].write = "none" /\ flow[f].gen <= flow'[f].gen
  BY <1>1, <1>2, Gens DEF Fits
<1>4. Fits(flow'[f], thread, (1..written) \ gone, gen)
  BY <1>1, <1>2, Zenon DEF Fits
<1>5. UNCHANGED <<mem, disks, written, faults, crashes, discarded, ghost>>
  BY DEF Arrive
<1>6. Kept'
  BY <1>5 DEF Based, Kept, mem, ghost
<1>7. Goes(f)
  BY <1>1, <1>3, <1>4, <1>5, <1>6 DEF Goes, mem, ghost, Queued
<1> QED
  BY <1>1, <1>3, <1>5, <1>7 DEF Starts, disks, ghost

LEMMA AnsweredStarts ==
  ASSUME Based, NEW f \in Flows, Answered(f) PROVE Starts(f)
<1> USE Ranges
<1>1. flow[f].at = "posting" /\ flow' = [flow EXCEPT ![f] = Persisting(flow[f], "posted")]
  BY DEF Answered
<1>2. UNCHANGED <<outbox, failed, gen, disks, written, faults, crashes, discarded, ghost>>
  BY DEF Answered
<1>3. /\ flow' = [flow EXCEPT ![f] = flow'[f]] /\ flow'[f] \in Flow
      /\ flow'[f].write = "begun" /\ flow'[f].at = "posted" /\ flow'[f].gen = gen
      /\ flow'[f].text = flow[f].text
  BY <1>1, Persists
<1>4. flow[f].write = "none" /\ flow[f].text \in Texts /\ flow[f].gen <= gen
  BY <1>1 DEF Based, Staged, Fits
<1>5. thread' = thread \cup {flow[f].text} /\ thread \subseteq thread' /\ thread' \subseteq Texts
  BY <1>4 DEF Answered
<1>6. Fits(flow'[f], thread', (1..written) \ gone, gen)
  BY <1>3, <1>4, <1>5 DEF Fits
<1>7. Kept'
  BY <1>2, <1>5 DEF Based, Kept, ghost
<1>8. Goes(f)
  BY <1>2, <1>3, <1>5, <1>6, <1>7 DEF Goes, ghost, Queued
<1> QED
  BY <1>2, <1>3, <1>4, <1>8 DEF Starts, disks, ghost

LEMMA UnansweredStarts ==
  ASSUME Based, NEW f \in Flows, Unanswered(f) PROVE Starts(f)
<1> USE Ranges
<1>1. flow[f].at = "posting" /\ flow' = [flow EXCEPT ![f] = Persisting(flow[f], "closed")]
  BY DEF Unanswered, Closing
<1>2. UNCHANGED <<outbox, thread, gen, disks, written, crashes, discarded, ghost>>
  BY DEF Unanswered
<1>3. /\ flow' = [flow EXCEPT ![f] = flow'[f]] /\ flow'[f] \in Flow
      /\ flow'[f].write = "begun" /\ flow'[f].at = "closed" /\ flow'[f].gen = gen
      /\ flow'[f].text = flow[f].text
  BY <1>1, Persists
<1>4. flow[f].write = "none" /\ flow[f].text \in Texts /\ flow[f].gen <= gen
  BY <1>1 DEF Based, Staged, Fits
<1>5. failed' \subseteq Texts /\ faults' \in 0..MaxFaults
  BY <1>4, SendingAssumption DEF Unanswered
<1>6. Fits(flow'[f], thread, (1..written) \ gone, gen)
  BY <1>3, <1>4 DEF Fits
<1>7. Kept'
  BY <1>2 DEF Based, Kept, ghost
<1>8. Goes(f)
  BY <1>2, <1>3, <1>5, <1>6, <1>7 DEF Goes, ghost, Queued
<1> QED
  BY <1>2, <1>3, <1>4, <1>8 DEF Starts, disks, ghost

LEMMA SendStarts ==
  ASSUME Based, NEW f \in Flows, Send(f) PROVE Starts(f)
<1> USE Ranges
<1>1. /\ flow[f].at = "idle" /\ written < MaxTexts /\ written' = written + 1
      /\ outbox' = Append(outbox, written + 1)
      /\ flow' = [flow EXCEPT ![f] = [Persisting(flow[f], "queued") EXCEPT !.text = written + 1]]
      /\ UNCHANGED <<failed, thread, gen, disks, faults, crashes, discarded, ghost>>
  BY DEF Send, Busy
<1>2. /\ written' \in 0..MaxTexts /\ written <= written' /\ written + 1 \in Texts
      /\ written + 1 \in 0..MaxTexts /\ 1..written' = (1..written) \cup {written + 1}
      /\ written + 1 \notin 1..written
  BY <1>1, SendingAssumption DEF Texts
<1>3. /\ flow' = [flow EXCEPT ![f] = flow'[f]] /\ flow'[f] \in Flow
      /\ flow'[f].write = "begun" /\ flow'[f].at = "queued" /\ flow'[f].gen = gen
      /\ flow'[f].text = written + 1
  <2> DEFINE m == [flow[f] EXCEPT !.at = "queued", !.write = "begun", !.gen = gen]
  <2>1. flow'[f] = [m EXCEPT !.text = written + 1]
    BY <1>1 DEF Persisting
  <2>2. m \in Flow /\ m.at = "queued" /\ m.write = "begun" /\ m.gen = gen
    BY DEF Flow
  <2> HIDE DEF m
  <2>3. flow' = [flow EXCEPT ![f] = flow'[f]]
    BY <1>1
  <2> QED
    BY <1>2, <2>1, <2>2, <2>3 DEF Flow
<1>4. flow[f].write = "none"
  BY <1>1 DEF Based, Staged, Fits
<1>5. /\ outbox' \in Seq(Texts) /\ IsInjective(outbox')
      /\ ToSet(outbox') = ToSet(outbox) \cup {written + 1}
  <2>1. written + 1 \notin ToSet(outbox)
    BY <1>2 DEF Queued
  <2> QED
    BY <1>1, <1>2, <2>1, AppendFacts, QueueFacts DEF Queued
<1>6. Queued(outbox)'
  BY <1>2, <1>5 DEF Queued
<1>7. written + 1 \notin gone
  BY <1>2 DEF Based, Counted
<1>8. Fits(flow'[f], thread, (1..written') \ gone, gen)
  BY <1>2, <1>3, <1>7 DEF Fits
<1>9. Kept'
  BY <1>1, <1>2, <1>5 DEF Based, Kept, ghost
<1>10. Goes(f)
  BY <1>1, <1>2, <1>3, <1>5, <1>6, <1>8, <1>9 DEF Goes, ghost
<1> QED
  BY <1>1, <1>3, <1>4, <1>10 DEF Starts, disks, ghost, Busy

LEMMA PostStarts ==
  ASSUME Based, NEW f \in Flows, ~Busy(f), NEW t \in Texts, NEW rest \in Seq(Texts),
         Post(f, t, rest), UNCHANGED <<disks, written, faults, crashes, discarded, ghost>>
  PROVE  Starts(f)
<1> USE Ranges
<1>1. /\ flow' = [flow EXCEPT ![f] = flow'[f]] /\ flow'[f] \in Flow
      /\ flow'[f].write = "none" /\ flow'[f].at = "posting" /\ flow'[f].gen = gen'
      /\ \A th, w : Fits(flow'[f], th, w, gen')
      /\ outbox' = outbox /\ thread' = thread /\ failed' \subseteq Texts
      /\ gen' \in Nat /\ gen <= gen'
  BY Posts
<1>2. flow[f].write = "none"
  BY DEF Based, Staged, Fits, Busy
<1>3. Kept'
  BY <1>1 DEF Based, Kept, ghost
<1>4. Goes(f)
  BY <1>1, <1>3 DEF Goes, ghost, Queued
<1> QED
  BY <1>1, <1>2, <1>4 DEF Starts, disks, ghost, Busy

LEMMA RetryStarts ==
  ASSUME Based, NEW f \in Flows, NEW t \in Texts, Retry(f, t) PROVE Starts(f)
<1>1. << >> \in Seq(Texts)
  BY EmptySeq
<1> QED
  BY <1>1, PostStarts DEF Retry

LEMMA FlushStarts ==
  ASSUME Based, NEW f \in Flows, FlushOutbox(f) PROVE Starts(f)
<1>1. outbox \in Seq(Texts) /\ outbox # << >>
  BY Ranges DEF FlushOutbox, Queue
<1>2. Head(outbox) \in Texts /\ Tail(outbox) \in Seq(Texts)
  BY <1>1, HeadTailProperties
<1> QED
  BY <1>2, PostStarts DEF FlushOutbox, Queue

LEMMA DiscardStarts ==
  ASSUME Based, NEW f \in Flows, NEW t \in Texts, Discard(f, t) PROVE Starts(f)
<1> USE Ranges
<1>1. /\ flow[f].at = "idle" /\ flow' = [flow EXCEPT ![f] = Persisting(flow[f], "dropped")]
      /\ outbox' = Dropping(outbox, t) /\ discarded' = discarded \cup {t}
      /\ UNCHANGED <<failed, thread, gen, disks, written, faults, crashes, ghost>>
  BY DEF Discard, Busy
<1>2. /\ flow' = [flow EXCEPT ![f] = flow'[f]] /\ flow'[f] \in Flow
      /\ flow'[f].write = "begun" /\ flow'[f].at = "dropped" /\ flow'[f].gen = gen
  BY <1>1, Persists
<1>3. flow[f].write = "none"
  BY <1>1 DEF Based, Staged, Fits
<1>4. outbox' \in Seq(Texts) /\ IsInjective(outbox') /\ ToSet(outbox') = ToSet(outbox) \ {t}
  BY <1>1, DroppingFacts DEF Queued
<1>5. Queued(outbox)'
  BY <1>1, <1>4 DEF Queued
<1>6. Fits(flow'[f], thread, (1..written) \ gone, gen)
  BY <1>2 DEF Fits
<1>7. Kept'
  BY <1>1, <1>4 DEF Based, Kept, ghost
<1>8. Goes(f)
  BY <1>1, <1>2, <1>4, <1>5, <1>6, <1>7 DEF Goes, ghost
<1> QED
  BY <1>1, <1>2, <1>3, <1>8 DEF Starts, disks, ghost, Busy

LEMMA QueuedEnds ==
  ASSUME Based, NEW f \in Flows, QueuedLands(f) PROVE Ends(f)
<1> USE Ranges
<1>1. /\ flow[f].at = "queued" /\ Landed(f) /\ saved' = saved \cup {flow[f].text}
      /\ Post(f, flow[f].text, << >>)
      /\ UNCHANGED <<written, faults, crashes, discarded, gone>>
  BY DEF QueuedLands
<1>2. flow[f].text \in Texts /\ << >> \in Seq(Texts)
  BY <1>1, EmptySeq DEF Based, Staged, Fits
<1>3. /\ flow' = [flow EXCEPT ![f] = flow'[f]] /\ flow'[f] \in Flow
      /\ flow'[f].write = "none" /\ flow'[f].at = "posting" /\ flow'[f].gen = gen'
      /\ \A th, w : Fits(flow'[f], th, w, gen')
      /\ outbox' = outbox /\ thread' = thread /\ failed' \subseteq Texts
      /\ gen' \in Nat /\ gen <= gen'
  BY <1>1, <1>2, Posts
<1>4. Kept'
  BY <1>1, <1>3 DEF Based, Kept
<1>5. Goes(f)
  BY <1>1, <1>3, <1>4 DEF Goes, Queued
<1> QED
  BY <1>1, <1>3, <1>5 DEF Ends, Landed, Rec

LEMMA PostedEnds ==
  ASSUME Based, NEW f \in Flows, PostedLands(f) PROVE Ends(f)
<1> USE Ranges
<1>1. /\ flow[f].at = "posted" /\ Landed(f) /\ outbox' = Dropping(outbox, flow[f].text)
      /\ flow' = [flow EXCEPT ![f] = Persisting(flow[f], "closed")]
      /\ UNCHANGED <<failed, thread, gen, written, faults, crashes, discarded, saved, gone>>
  BY DEF PostedLands
<1>2. /\ flow' = [flow EXCEPT ![f] = flow'[f]] /\ flow'[f] \in Flow
      /\ flow'[f].write = "begun" /\ flow'[f].at = "closed" /\ flow'[f].gen = gen
      /\ flow'[f].text = flow[f].text
  BY <1>1, Persists
<1>3. flow[f].text \in Texts /\ flow[f].text \in thread
  BY <1>1 DEF Based, Staged, Fits
<1>4. /\ outbox' \in Seq(Texts) /\ IsInjective(outbox')
      /\ ToSet(outbox') = ToSet(outbox) \ {flow[f].text}
  BY <1>1, DroppingFacts DEF Queued
<1>5. Queued(outbox)'
  BY <1>1, <1>4 DEF Queued
<1>6. Fits(flow'[f], thread, (1..written) \ gone, gen)
  BY <1>2, <1>3 DEF Fits
<1>7. Kept'
  BY <1>1, <1>3, <1>4 DEF Based, Kept
<1>8. Goes(f)
  BY <1>1, <1>2, <1>4, <1>5, <1>6, <1>7 DEF Goes
<1> QED
  BY <1>1, <1>2, <1>8 DEF Ends, Landed, Rec

\* A flow that has nothing left to do.
LEMMA IdleFits ==
  /\ Idle \in Flow /\ Idle.at = "idle" /\ Idle.write = "none"
  /\ \A th, w : \A n \in Nat : Fits(Idle, th, w, n)
<1>1. Idle \in Flow /\ Idle.gen = 0 /\ Idle.at = "idle" /\ Idle.write = "none"
  BY SendingAssumption, EmptySeq DEF Idle, Flow
<1> QED
  BY <1>1 DEF Fits

LEMMA RestingEnds ==
  ASSUME Based, NEW f \in Flows, Landed(f), flow' = [flow EXCEPT ![f] = Idle], UNCHANGED mem,
         UNCHANGED <<written, faults, crashes, discarded, saved, gone>>
  PROVE  Ends(f)
<1> USE Ranges
<1>1. flow' = [flow EXCEPT ![f] = flow'[f]] /\ flow'[f] = Idle
  OBVIOUS
<1>2. Kept'
  BY DEF Based, Kept, mem
<1>3. Goes(f)
  BY <1>1, <1>2, IdleFits DEF Goes, mem, Queued
<1> QED
  BY <1>1, <1>3 DEF Ends, Landed, Rec, mem

LEMMA ClosedEnds ==
  ASSUME Based, NEW f \in Flows, ClosedLands(f) PROVE Ends(f)
<1> USE Ranges
<1>1. /\ Landed(f) /\ UNCHANGED <<written, faults, crashes, discarded, saved, gone>>
  BY DEF ClosedLands
<1>2. CASE /\ flow[f].rest # << >>
           /\ Post(f, Head(flow[f].rest), Tail(flow[f].rest))
  <2>1. flow[f].rest \in Seq(Texts)
    BY DEF Flow
  <2>2. Head(flow[f].rest) \in Texts /\ Tail(flow[f].rest) \in Seq(Texts)
    BY <1>2, <2>1, HeadTailProperties
  <2>3. /\ flow' = [flow EXCEPT ![f] = flow'[f]] /\ flow'[f] \in Flow
        /\ flow'[f].write = "none" /\ flow'[f].at = "posting" /\ flow'[f].gen = gen'
        /\ \A th, w : Fits(flow'[f], th, w, gen')
        /\ outbox' = outbox /\ thread' = thread /\ failed' \subseteq Texts
        /\ gen' \in Nat /\ gen <= gen'
    BY <1>2, <2>2, Posts
  <2>4. Kept'
    BY <1>1, <2>3 DEF Based, Kept
  <2>5. Goes(f)
    BY <1>1, <2>3, <2>4 DEF Goes, Queued
  <2> QED
    BY <1>1, <2>3, <2>5 DEF Ends, Landed, Rec
<1>3. CASE flow' = [flow EXCEPT ![f] = Idle] /\ UNCHANGED mem
  BY <1>1, <1>3, RestingEnds
<1> QED
  BY <1>2, <1>3 DEF ClosedLands

LEMMA DroppedEnds ==
  ASSUME Based, NEW f \in Flows, DroppedLands(f) PROVE Ends(f)
  BY RestingEnds DEF DroppedLands, mem

LEMMA FailsEnds ==
  ASSUME Based, NEW f \in Flows, WriteFails(f) PROVE Ends(f)
<1> USE Ranges
<1>1. /\ WriteOver(f) /\ behind' = TRUE
      /\ UNCHANGED <<outbox, thread, gen, disk, written, crashes, discarded, saved, gone>>
  BY DEF WriteFails
<1>2. faults' \in 0..MaxFaults
  BY SendingAssumption DEF WriteFails
<1>3. Kept'
  BY <1>1 DEF Based, Kept
<1>4. CASE /\ flow[f].at = "posted" /\ failed' = failed \cup {flow[f].text}
           /\ flow' = [flow EXCEPT ![f] = Persisting(flow[f], "closed")]
  <2>1. /\ flow' = [flow EXCEPT ![f] = flow'[f]] /\ flow'[f] \in Flow
        /\ flow'[f].write = "begun" /\ flow'[f].at = "closed" /\ flow'[f].gen = gen
        /\ flow'[f].text = flow[f].text
    BY <1>4, Persists
  <2>2. flow[f].text \in Texts
    BY <1>4 DEF Based, Staged, Fits
  <2>3. failed' \subseteq Texts
    BY <1>4, <2>2
  <2>4. Fits(flow'[f], thread, (1..written) \ gone, gen)
    BY <2>1, <2>2 DEF Fits
  <2>5. Goes(f)
    BY <1>1, <1>2, <1>3, <2>1, <2>3, <2>4 DEF Goes, Queued
  <2> QED
    BY <1>1, <2>1, <2>5 DEF Ends
<1>5. CASE flow' = [flow EXCEPT ![f] = Idle] /\ failed' = failed
  <2>1. flow' = [flow EXCEPT ![f] = flow'[f]] /\ flow'[f] = Idle
    BY <1>5
  <2>2. Goes(f)
    BY <1>1, <1>2, <1>3, <1>5, <2>1, IdleFits DEF Goes, Queued
  <2> QED
    BY <1>1, <2>1, <2>2 DEF Ends
<1> QED
  BY <1>4, <1>5 DEF WriteFails, Closing

\* The record is what memory becomes, and what it does not hold is counted as gone.
LEMMA CrashHolds ==
  ASSUME Inv, Crash PROVE Inv'
<1> USE DEF Inv
<1>1. /\ crashes < MaxCrashes /\ crashes' = crashes + 1
      /\ outbox' = disk.outbox /\ thread' = disk.thread /\ gen' = disk.gen
      /\ failed' = ToSet(disk.outbox)
      /\ flow' = [f \in Flows |-> Idle] /\ puts' = << >> /\ old' = {}
      /\ gone' = gone \cup ((1..written) \ (ToSet(disk.outbox) \cup disk.thread))
      /\ saved' = saved \ gone' /\ behind' = FALSE
      /\ disk' = disk /\ written' = written /\ faults' = faults /\ discarded' = discarded
  BY DEF Crash
<1>2. /\ disk \in Record /\ Queued(disk.outbox) /\ gone \subseteq 1..written /\ saved \subseteq 1..written
      /\ written \in 0..MaxTexts /\ faults \in 0..MaxFaults /\ crashes \in 0..MaxCrashes
  BY DEF Based, TypeOK, Counted
<1>3. /\ outbox' \in Seq(Texts) /\ thread' \subseteq Texts /\ gen' \in Nat
      /\ crashes' \in 0..MaxCrashes
  BY <1>1, <1>2, SendingAssumption DEF Record
<1>4. failed' \subseteq Texts
  <2>1. \A t \in 1..written : t \in Texts
    BY <1>2, SendingAssumption DEF Texts
  <2> QED
    BY <1>1, <1>2, <2>1 DEF Queued
<1>5. \A f \in Flows : flow'[f] = Idle
  BY <1>1
<1>6. DOMAIN puts' = {}
  BY <1>1
<1>7. TypeOK'
  <2>1. {puts'[i].flow : i \in DOMAIN puts'} = {f \in Flows : flow'[f].write = "sealed"}
    BY <1>5, <1>6, IdleFits
  <2>2. flow' \in [Flows -> Flow]
    BY <1>1, IdleFits
  <2> QED
    BY <1>1, <1>2, <1>3, <1>4, <1>6, <2>1, <2>2 DEF TypeOK, Queued
<1>8. \A f \in Flows : ~Sealed(f)' /\ flow'[f].write = "none" /\ flow'[f].at = "idle"
  BY <1>5, IdleFits DEF Sealed
<1>9. Lined'
  <2>1. puts' \in Seq([flow : Flows, rec : Record])
    BY <1>1, EmptySeq
  <2> QED
    BY <1>6, <1>8, <2>1 DEF Lined
<1>10. Staged'
  BY <1>3, <1>5, IdleFits DEF Staged
<1>11. Counted'
  BY <1>1, <1>2, <1>8 DEF Counted, Queued
<1>12. Kept'
  BY <1>1 DEF Kept
<1>13. Safe'
  <2>1. saved' \subseteq ToSet(disk.outbox) \cup disk.thread
    BY <1>1, <1>2
  <2>2. SavedIsSafe'
    BY <1>1, <2>1 DEF SavedIsSafe
  <2> QED
    BY <1>8, <2>2, Zenon DEF Safe
<1>14. Current'
  <2>1. disk = [gen |-> disk.gen, outbox |-> disk.outbox, thread |-> disk.thread]
    BY <1>2 DEF Record
  <2>2. QuietIsSaved'
    BY <1>1, <2>1, Zenon DEF QuietIsSaved
  <2> QED
    BY <1>8, <2>2, Zenon DEF Current
<1> QED
  BY <1>7, <1>9, <1>10, <1>11, <1>12, <1>13, <1>14 DEF Based

----------------------------------------------------------------------------
(* The invariant.                                                          *)

LEMMA Initially == Init => Inv
<1> SUFFICES ASSUME Init PROVE Inv
  OBVIOUS
<1>1. /\ outbox = << >> /\ failed = {} /\ thread = {} /\ gen = 0 /\ puts = << >> /\ old = {}
      /\ disk = [gen |-> 0, outbox |-> << >>, thread |-> {}]
      /\ written = 0 /\ faults = 0 /\ crashes = 0 /\ saved = {} /\ gone = {}
      /\ flow = [f \in Flows |-> Idle]
  BY DEF Init
<1>2. /\ << >> \in Seq(Texts) /\ Queued(<< >>) /\ DOMAIN puts = {}
  BY <1>1, EmptySeq DEF Queued, IsInjective, ToSet
<1>3. \A f \in Flows : flow[f] = Idle
  BY <1>1
<1>4. \A f \in Flows : ~Sealed(f) /\ flow[f].write = "none" /\ flow[f].at = "idle"
  BY <1>3, IdleFits DEF Sealed
<1>5. TypeOK
  <2>1. {puts[i].flow : i \in DOMAIN puts} = {f \in Flows : flow[f].write = "sealed"}
    BY <1>2, <1>4
  <2>2. flow \in [Flows -> Flow]
    BY <1>1, IdleFits
  <2>3. disk \in Record
    BY <1>1, <1>2 DEF Record
  <2> QED
    BY <1>1, <1>2, <2>1, <2>2, <2>3, SendingAssumption DEF TypeOK, Queued
<1>6. Lined
  <2>1. puts \in Seq([flow : Flows, rec : Record])
    BY <1>1, EmptySeq
  <2> QED
    BY <1>2, <1>4, <2>1 DEF Lined
<1>7. Staged
  BY <1>1, <1>3, IdleFits DEF Staged
<1>8. Counted /\ Kept
  BY <1>1, <1>2, <1>4 DEF Counted, Kept
<1>9. Safe
  <2>1. SavedIsSafe
    BY <1>1 DEF SavedIsSafe
  <2> QED
    BY <1>4, <2>1, Zenon DEF Safe
<1>10. Current
  <2>1. QuietIsSaved
    BY <1>1 DEF QuietIsSaved
  <2> QED
    BY <1>4, <2>1, Zenon DEF Current
<1> QED
  BY <1>5, <1>6, <1>7, <1>8, <1>9, <1>10 DEF Inv, Based

LEMMA StartsHolds ==
  ASSUME Inv, NEW f \in Flows, Starts(f) PROVE Inv'
  BY StartsBased, StartsSafe, StartsCurrent DEF Inv

LEMMA EndsHolds ==
  ASSUME Inv, NEW f \in Flows, Ends(f) PROVE Inv'
  BY EndsBased, EndsSafe, EndsCurrent DEF Inv

LEMMA SealHolds ==
  ASSUME Inv, NEW f \in Flows, Seal(f) PROVE Inv'
  BY SealBased, SealSafe, SealCurrent DEF Inv

LEMMA StandsHolds ==
  ASSUME Inv, UNCHANGED vars PROVE Inv'
<1>1. /\ outbox' = outbox /\ failed' = failed /\ thread' = thread /\ gen' = gen /\ flow' = flow
      /\ puts' = puts /\ old' = old /\ disk' = disk /\ written' = written /\ faults' = faults
      /\ crashes' = crashes /\ discarded' = discarded /\ saved' = saved /\ gone' = gone
      /\ behind' = behind
  BY DEF vars, mem, disks, ghost
<1>2. \A f \in Flows : Sealed(f)' = Sealed(f) /\ Rec(f)' = Rec(f) /\ Busy(f)' = Busy(f)
  BY <1>1 DEF Sealed, Rec, PutOf, Busy
<1>3. \A f, g \in Flows : After(f, g)' = After(f, g)
  BY <1>1 DEF After, Sealed, PutOf
<1>4. Based'
  <2>1. TypeOK' /\ Kept'
    BY <1>1 DEF Inv, Based, TypeOK, Kept
  <2>2. Lined'
    BY <1>1, <1>2 DEF Inv, Based, Lined
  <2>3. Staged'
    BY <1>1 DEF Inv, Based, Staged, Fits
  <2>4. Counted'
    BY <1>1, <1>2 DEF Inv, Based, Counted, Queued
  <2> QED
    BY <2>1, <2>2, <2>3, <2>4 DEF Based
<1>5. Safe'
  BY <1>1, <1>2, <1>3 DEF Inv, Safe, SavedIsSafe, Holding
<1>6. Current'
  BY <1>1, <1>2, <1>3 DEF Inv, Current, QuietIsSaved
<1> QED
  BY <1>4, <1>5, <1>6 DEF Inv

LEMMA InvStep == Inv /\ [Next]_vars => Inv'
<1> SUFFICES ASSUME Inv, [Next]_vars PROVE Inv'
  OBVIOUS
<1>0. Based
  BY DEF Inv
<1>1. ASSUME NEW f \in Flows, Seal(f) PROVE Inv'
  BY <1>1, SealHolds
<1>2. ASSUME NEW f \in Flows, Arrive(f) PROVE Inv'
  BY <1>0, <1>2, ArriveStarts, StartsHolds
<1>3. ASSUME NEW f \in Flows, Answered(f) PROVE Inv'
  BY <1>0, <1>3, AnsweredStarts, StartsHolds
<1>4. ASSUME NEW f \in Flows, Unanswered(f) PROVE Inv'
  BY <1>0, <1>4, UnansweredStarts, StartsHolds
<1>5. ASSUME NEW f \in Flows, QueuedLands(f) PROVE Inv'
  BY <1>0, <1>5, QueuedEnds, EndsHolds
<1>6. ASSUME NEW f \in Flows, PostedLands(f) PROVE Inv'
  BY <1>0, <1>6, PostedEnds, EndsHolds
<1>7. ASSUME NEW f \in Flows, ClosedLands(f) PROVE Inv'
  BY <1>0, <1>7, ClosedEnds, EndsHolds
<1>8. ASSUME NEW f \in Flows, DroppedLands(f) PROVE Inv'
  BY <1>0, <1>8, DroppedEnds, EndsHolds
<1>9. ASSUME NEW f \in Flows, WriteFails(f) PROVE Inv'
  BY <1>0, <1>9, FailsEnds, EndsHolds
<1>10. ASSUME NEW f \in Flows, Send(f) PROVE Inv'
  BY <1>0, <1>10, SendStarts, StartsHolds
<1>11. ASSUME NEW f \in Flows, FlushOutbox(f) PROVE Inv'
  BY <1>0, <1>11, FlushStarts, StartsHolds
<1>12. ASSUME NEW f \in Flows, NEW t \in Texts, Retry(f, t) PROVE Inv'
  BY <1>0, <1>12, RetryStarts, StartsHolds
<1>13. ASSUME NEW f \in Flows, NEW t \in Texts, Discard(f, t) PROVE Inv'
  BY <1>0, <1>13, DiscardStarts, StartsHolds
<1>14. CASE Crash
  BY <1>14, CrashHolds
<1>15. CASE UNCHANGED vars
  BY <1>15, StandsHolds
<1> QED
  BY <1>1, <1>2, <1>3, <1>4, <1>5, <1>6, <1>7, <1>8, <1>9, <1>10, <1>11, <1>12, <1>13, <1>14, <1>15,
     Zenon DEF Next, Step

LEMMA Inductive == Spec => []Inv
  BY Initially, InvStep, PTL DEF Spec

----------------------------------------------------------------------------
(* The theorems.                                                           *)

(* Whatever calls run at once, the queue has each text once, and the       *)
(* writes that wait for the store are those of the flows that await them   *)
(* (flush, flushOutbox: an attempt takes the entry it finds).              *)
THEOREM TypeCorrect == Spec => []TypeOK
<1>1. Inv => TypeOK
  BY DEF Inv, Based
<1> QED
  BY <1>1, Inductive, PTL

(* A text is in the outbox or in the thread until the user drops it: no    *)
(* failure, and no other call that runs meanwhile, takes it (send, flush,  *)
(* sendContent, discard).                                                  *)
THEOREM KeptHolds == Spec => []Kept
<1>1. Inv => Kept
  BY DEF Inv, Based
<1> QED
  BY <1>1, Inductive, PTL

(* A text whose first write landed is in every record that lands after it, *)
(* though composeStored reads the thread some awaits after the ratchet,    *)
(* and other flows write meanwhile.                                        *)
THEOREM SavedIsSafeHolds == Spec => []SavedIsSafe
<1>1. Inv => SavedIsSafe
  BY DEF Inv, Safe
<1> QED
  BY <1>1, Inductive, PTL

(* When no call runs, and unless an old write came last, the record holds  *)
(* the ratchet, the queue and the thread there are: every flow persists    *)
(* after the last thing it changed (persist).                              *)
THEOREM QuietIsSavedHolds == Spec => []QuietIsSaved
<1>1. Inv => QuietIsSaved
  BY DEF Inv, Current
<1> QED
  BY <1>1, Inductive, PTL

=============================================================================
