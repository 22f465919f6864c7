-------------------------- MODULE EventStreamProofs --------------------------
(***************************************************************************)
(* Theorems about EventStream, for every value of its constants: what the  *)
(* store keeps for its subscribers, that a client gets events in order and *)
(* once, and, where every event fits into the ring, that nothing is missed *)
(* and no client has a gap it was not told of.                             *)
(*                                                                         *)
(* The argument is about three sequences of events: the log, the ring, and *)
(* what a handler has in hand.  Each is in order, and each covers what was *)
(* appended from its first event on.                                       *)
(***************************************************************************)
EXTENDS EventStream, WellFoundedInduction, TLAPS

\* By number, without repetition.
Ordered(r) == \A i, k \in DOMAIN r : i < k => r[i].seq < r[k].seq

Has(r, n) == \E i \in DOMAIN r : r[i].seq = n

\* From its first event on, r has all the numbers of A.
Covers(r, A) == \A n \in A : r # <<>> /\ r[1].seq <= n => Has(r, n)

\* s is what is left of r after some of its first events.
EndOf(s, r) == \E n \in 0 .. Len(r) : s = SubSeq(r, n + 1, Len(r))

-----------------------------------------------------------------------------
(* The ring *)

\* Sizes are numbers, those of the records of a compaction too.
LEMMA EventTypes ==
  /\ \A e \in Events : e.seq \in Nat /\ e.size \in Nat
  /\ \A n \in Nat, s \in Sizes \cup {1} : Event(n, s) \in Events /\ Event(n, s).seq = n
<1>1. Sizes \subseteq Nat
  BY EventStreamConstants
<1>2. ASSUME NEW e \in Events PROVE e.seq \in Nat /\ e.size \in Nat
  <2>1. e.seq \in Nat /\ e.size \in Sizes \cup {1}
    BY DEF Events
  <2>2. CASE e.size \in Sizes
    BY <1>1, <2>1, <2>2
  <2>3. CASE e.size = 1
    BY <2>1, <2>3
  <2> QED
    BY <2>1, <2>2, <2>3
<1>3. \A n \in Nat, s \in Sizes \cup {1} : Event(n, s) \in Events /\ Event(n, s).seq = n
  BY DEF Event, Events
<1> QED
  BY <1>2, <1>3

\* Nothing and one event, counted.
LEMMA FewBytes ==
  /\ Bytes(<<>>) = 0
  /\ \A e \in Events : Bytes(<<e>>) = e.size
<1>1. Bytes(<<>>) = 0
  <2> DEFINE f == [n \in 0 .. 0 |-> 0]
             sum == CHOOSE g : g = [n \in 0 .. Len(<<>>) |->
                                      IF n = 0 THEN 0 ELSE g[n - 1] + <<>>[n].size]
  <2>1. Len(<<>>) = 0
    OBVIOUS
  <2>2. f = [n \in 0 .. Len(<<>>) |-> IF n = 0 THEN 0 ELSE f[n - 1] + <<>>[n].size]
    BY <2>1
  <2>3. sum = [n \in 0 .. Len(<<>>) |-> IF n = 0 THEN 0 ELSE sum[n - 1] + <<>>[n].size]
    BY <2>2
  <2>4. sum[Len(<<>>)] = 0
    BY <2>1, <2>3
  <2> QED
    BY <2>4 DEF Bytes
<1>2. ASSUME NEW e \in Events PROVE Bytes(<<e>>) = e.size
  <2>0. e.size \in Nat
    BY EventTypes
  <2> DEFINE f == [n \in 0 .. 1 |-> IF n = 0 THEN 0 ELSE e.size]
             sum == CHOOSE g : g = [n \in 0 .. Len(<<e>>) |->
                                      IF n = 0 THEN 0 ELSE g[n - 1] + <<e>>[n].size]
  <2>1. Len(<<e>>) = 1 /\ <<e>>[1] = e /\ e.size \in Nat
    BY <2>0
  <2>2. f = [n \in 0 .. Len(<<e>>) |-> IF n = 0 THEN 0 ELSE f[n - 1] + <<e>>[n].size]
    BY <2>1
  <2>3. sum = [n \in 0 .. Len(<<e>>) |-> IF n = 0 THEN 0 ELSE sum[n - 1] + <<e>>[n].size]
    BY <2>2
  <2> HIDE DEF sum
  <2>4. 0 \in 0 .. Len(<<e>>) /\ 1 \in 0 .. Len(<<e>>)
    BY <2>1
  <2>5. sum[0] = 0
    BY <2>3, <2>4
  <2>6. sum[1] = sum[0] + e.size
    BY <2>1, <2>3, <2>4
  <2>7. sum[Len(<<e>>)] = e.size
    BY <2>1, <2>5, <2>6
  <2> QED
    BY <2>7 DEF Bytes, sum
<1> QED
  BY <1>1, <1>2

\* A set of numbers has a smallest one.
LEMMA Smallest ==
  ASSUME NEW S \in SUBSET Nat, S # {}
  PROVE  \E n \in S : \A m \in S : n <= m
<1>1. PICK n \in S : \A m \in S : <<m, n>> \notin OpToRel(<, Nat)
  BY NatLessThanWellFounded, WFMin
<1>2. \A m \in S : ~ (m < n)
  BY <1>1 DEF OpToRel
<1> QED
  BY <1>2

\* What appendRing leaves is an end of the ring that fits, and no longer one
\* does.
LEMMA TrimmedIsEnd ==
  ASSUME NEW r \in Seq(Events)
  PROVE  \E n \in 0 .. Len(r) :
           /\ Trimmed(r) = SubSeq(r, n + 1, Len(r))
           /\ Fits(SubSeq(r, n + 1, Len(r)))
           /\ \A m \in 0 .. n - 1 : ~ Fits(SubSeq(r, m + 1, Len(r)))
<1> DEFINE End(n) == SubSeq(r, n + 1, Len(r))
           Enough == {n \in 0 .. Len(r) : Fits(End(n))}
           P(n) == Fits(End(n)) /\ \A m \in 0 .. n - 1 : ~ Fits(End(m))
<1>1. Len(r) \in Enough
  <2>1. End(Len(r)) = <<>> /\ Len(<<>>) = 0 /\ Len(r) \in 0 .. Len(r)
    OBVIOUS
  <2>2. Fits(<<>>)
    BY <2>1, FewBytes, EventStreamConstants DEF Fits
  <2> QED
    BY <2>1, <2>2
<1>2. PICK n \in Enough : \A m \in Enough : n <= m
  <2>1. Enough \in SUBSET Nat /\ Enough # {}
    BY <1>1
  <2> HIDE DEF Enough
  <2> QED
    BY <2>1, Smallest
<1> HIDE DEF End
<1>3. n \in 0 .. Len(r) /\ P(n)
  <2>1. n \in 0 .. Len(r) /\ Fits(End(n)) /\ Len(r) \in Nat
    BY <1>2
  <2>2. ASSUME NEW m \in 0 .. n - 1, Fits(End(m)) PROVE FALSE
    <3>1. m \in Enough /\ m < n
      BY <2>1, <2>2
    <3> QED
      BY <1>2, <2>1, <3>1
  <2> QED
    BY <2>1, <2>2
<1>4. \E k \in 0 .. Len(r) : P(k)
  BY <1>3
<1>5. (CHOOSE k \in 0 .. Len(r) : P(k)) \in 0 .. Len(r) /\ P(CHOOSE k \in 0 .. Len(r) : P(k))
  BY <1>4
<1>6. Trimmed(r) = End(CHOOSE k \in 0 .. Len(r) : P(k))
  BY DEF Trimmed, End
<1> QED
  BY <1>5, <1>6 DEF End

-----------------------------------------------------------------------------
(* Sequences in order *)

\* An end of a sequence in order is in order, and covers what that covers from
\* its own first event on.
LEMMA EndKeeps ==
  ASSUME NEW r \in Seq(Events), NEW s, EndOf(s, r), Ordered(r)
  PROVE  /\ s \in Seq(Events) /\ Ordered(s)
         /\ \A i \in DOMAIN s : \E k \in DOMAIN r : s[i] = r[k]
         /\ \A A \in SUBSET Nat : Covers(r, A) => Covers(s, A)
<1>1. PICK n \in 0 .. Len(r) : s = SubSeq(r, n + 1, Len(r))
  BY DEF EndOf
<1>2. /\ s \in Seq(Events) /\ Len(s) = Len(r) - n /\ n \in Nat
      /\ DOMAIN s = 1 .. Len(r) - n /\ DOMAIN r = 1 .. Len(r) /\ Len(r) \in Nat
      /\ \A i \in 1 .. Len(r) - n : s[i] = r[n + i] /\ n + i \in DOMAIN r
  BY <1>1
<1>3. ASSUME NEW i \in DOMAIN s, NEW k \in DOMAIN s, i < k
      PROVE  s[i].seq < s[k].seq
  <2>1. /\ i \in Nat /\ k \in Nat /\ n + i < n + k
        /\ s[i] = r[n + i] /\ s[k] = r[n + k] /\ n + i \in DOMAIN r /\ n + k \in DOMAIN r
    BY <1>2, <1>3
  <2>2. r[n + i].seq < r[n + k].seq
    BY <2>1 DEF Ordered
  <2> QED
    BY <2>1, <2>2
<1>4. ASSUME NEW A \in SUBSET Nat, Covers(r, A), NEW a \in A, s # <<>>, s[1].seq <= a
      PROVE  Has(s, a)
  <2>1. 1 \in DOMAIN s /\ s[1] = r[n + 1] /\ n + 1 \in DOMAIN r /\ 1 \in DOMAIN r
    BY <1>2, <1>4
  <2>2. r[1].seq \in Nat /\ r[n + 1].seq \in Nat /\ a \in Nat
    BY <1>2, <2>1, EventTypes
  <2>3. n = 0 \/ r[1].seq < r[n + 1].seq
    <3>1. n = 0 \/ 1 < n + 1
      BY <1>2
    <3> QED
      BY <2>1, <3>1 DEF Ordered
  <2>4. r # <<>> /\ r[1].seq <= a
    BY <1>2, <1>4, <2>1, <2>2, <2>3
  <2>5. PICK k \in DOMAIN r : r[k].seq = a
    BY <1>4, <2>4 DEF Covers, Has
  <2>6. n < k
    <3>1. k \in Nat /\ (k <= n => k < n + 1)
      BY <1>2
    <3>2. k <= n => r[k].seq < r[n + 1].seq
      BY <2>1, <3>1 DEF Ordered
    <3> QED
      BY <1>2, <1>4, <2>1, <2>2, <2>5, <3>1, <3>2
  <2>7. k - n \in DOMAIN s /\ s[k - n] = r[k]
    BY <1>2, <2>6
  <2> QED
    BY <2>5, <2>7 DEF Has
<1>5. \A i \in DOMAIN s : \E k \in DOMAIN r : s[i] = r[k]
  BY <1>2
<1> QED
  BY <1>2, <1>3, <1>4, <1>5 DEF Covers, Ordered

\* A later event at the end keeps the order, and covers its own number.
LEMMA AppendKeeps ==
  ASSUME NEW r \in Seq(Events), NEW e \in Events, Ordered(r),
         \A i \in DOMAIN r : r[i].seq < e.seq
  PROVE  /\ Append(r, e) \in Seq(Events) /\ Ordered(Append(r, e))
         /\ Len(Append(r, e)) = Len(r) + 1 /\ Append(r, e)[Len(r) + 1] = e
         /\ \A n : Has(Append(r, e), n) <=> Has(r, n) \/ n = e.seq
         /\ \A i \in DOMAIN Append(r, e) : Append(r, e)[i] = e \/ \E k \in DOMAIN r : Append(r, e)[i] = r[k]
         /\ \A A \in SUBSET Nat : Covers(r, A) /\ (\A a \in A : a < e.seq)
                                    => Covers(Append(r, e), A \cup {e.seq})
<1> DEFINE s == Append(r, e)
<1>1. /\ s \in Seq(Events) /\ Len(s) = Len(r) + 1 /\ Len(r) \in Nat
      /\ DOMAIN s = 1 .. Len(r) + 1 /\ DOMAIN r = 1 .. Len(r)
      /\ \A i \in DOMAIN r : s[i] = r[i]
      /\ s[Len(r) + 1] = e
  OBVIOUS
<1> HIDE DEF s
<1>2. ASSUME NEW i \in DOMAIN s, NEW k \in DOMAIN s, i < k
      PROVE  s[i].seq < s[k].seq
  <2>1. i \in DOMAIN r /\ s[i] = r[i] /\ (k \in DOMAIN r \/ k = Len(r) + 1)
    BY <1>1, <1>2
  <2>2. CASE k \in DOMAIN r
    BY <1>1, <1>2, <2>1, <2>2 DEF Ordered
  <2>3. CASE k = Len(r) + 1
    BY <1>1, <2>1, <2>3
  <2> QED
    BY <2>1, <2>2, <2>3
<1>3. ASSUME NEW n
      PROVE  Has(s, n) <=> Has(r, n) \/ n = e.seq
  <2>1. ASSUME Has(s, n) PROVE Has(r, n) \/ n = e.seq
    <3>1. PICK i \in DOMAIN s : s[i].seq = n
      BY <2>1 DEF Has
    <3>2. i \in DOMAIN r \/ i = Len(r) + 1
      BY <1>1
    <3> QED
      BY <1>1, <3>1, <3>2 DEF Has
  <2>2. ASSUME Has(r, n) PROVE Has(s, n)
    BY <1>1, <2>2 DEF Has
  <2>3. Has(s, e.seq)
    BY <1>1 DEF Has
  <2> QED
    BY <2>1, <2>2, <2>3
<1>4. ASSUME NEW A \in SUBSET Nat, Covers(r, A), \A a \in A : a < e.seq,
             NEW a \in A \cup {e.seq}, s[1].seq <= a
      PROVE  Has(s, a)
  <2>1. CASE a = e.seq
    BY <1>3, <2>1
  <2>2. CASE a # e.seq
    <3>1. a \in A /\ a < e.seq /\ a \in Nat /\ e.seq \in Nat
      BY <1>4, <2>2, EventTypes
    <3>2. r # <<>>
      <4>1. r = <<>> => s[1] = e
        BY <1>1
      <4> QED
        BY <1>4, <3>1, <4>1
    <3>3. s[1] = r[1]
      BY <1>1, <3>2
    <3>4. Has(r, a)
      BY <1>4, <3>1, <3>2, <3>3 DEF Covers
    <3> QED
      BY <1>3, <3>4
  <2> QED
    BY <2>1, <2>2
<1>5. \A A \in SUBSET Nat : Covers(r, A) /\ (\A a \in A : a < e.seq) => Covers(s, A \cup {e.seq})
  BY <1>4 DEF Covers
<1>6. Ordered(s)
  BY <1>2 DEF Ordered
<1>7. \A i \in DOMAIN s : s[i] = e \/ \E k \in DOMAIN r : s[i] = r[k]
  BY <1>1
<1> QED
  BY <1>1, <1>3, <1>5, <1>6, <1>7 DEF s

\* The first of a sequence in order is before the others.
LEMMA TailKeeps ==
  ASSUME NEW s \in Seq(Events), Ordered(s), s # <<>>
  PROVE  /\ Head(s) \in Events /\ 1 \in DOMAIN s /\ Head(s) = s[1]
         /\ Tail(s) \in Seq(Events) /\ Ordered(Tail(s)) /\ Len(Tail(s)) < Len(s)
         /\ \A i \in DOMAIN Tail(s) : \E k \in DOMAIN s : Tail(s)[i] = s[k] /\ s[1].seq < s[k].seq
         /\ \A n : Has(s, n) => Has(Tail(s), n) \/ n = Head(s).seq
<1> DEFINE t == Tail(s)
<1>1. /\ Head(s) = s[1] /\ s[1] \in Events /\ t \in Seq(Events) /\ Len(t) = Len(s) - 1
      /\ Len(s) \in Nat \ {0} /\ DOMAIN s = 1 .. Len(s) /\ DOMAIN t = 1 .. Len(s) - 1
      /\ \A i \in DOMAIN t : t[i] = s[i + 1] /\ i + 1 \in DOMAIN s
  OBVIOUS
<1> HIDE DEF t
<1>2. ASSUME NEW i \in DOMAIN t, NEW k \in DOMAIN t, i < k
      PROVE  t[i].seq < t[k].seq
  <2>1. i + 1 < k + 1 /\ i + 1 \in DOMAIN s /\ k + 1 \in DOMAIN s /\ t[i] = s[i + 1] /\ t[k] = s[k + 1]
    BY <1>1, <1>2
  <2> QED
    BY <2>1 DEF Ordered
<1>3. ASSUME NEW i \in DOMAIN t
      PROVE  \E k \in DOMAIN s : t[i] = s[k] /\ s[1].seq < s[k].seq
  <2>1. i + 1 \in DOMAIN s /\ 1 < i + 1 /\ t[i] = s[i + 1] /\ 1 \in DOMAIN s
    BY <1>1
  <2>2. s[1].seq < s[i + 1].seq
    BY <2>1 DEF Ordered
  <2> QED
    BY <2>1, <2>2
<1>4. ASSUME NEW n, Has(s, n), n # s[1].seq
      PROVE  Has(t, n)
  <2>1. PICK k \in DOMAIN s : s[k].seq = n
    BY <1>4 DEF Has
  <2>2. k - 1 \in DOMAIN t /\ t[k - 1] = s[k]
    BY <1>1, <1>4, <2>1
  <2> QED
    BY <2>1, <2>2 DEF Has
<1> QED
  BY <1>1, <1>2, <1>3, <1>4 DEF Ordered, t

\* The records of a compaction come in order after all that was before.
LEMMA SnapshotKeeps ==
  ASSUME NEW m \in Nat, NEW k \in Nat \ {0}
  PROVE  LET s == [i \in 1 .. k |-> Event(m + i, 1)]
         IN /\ s \in Seq(Events) /\ Ordered(s) /\ s # <<>> /\ Len(s) = k
            /\ s[1].seq = m + 1 /\ s[k].seq = m + k
            /\ \A A \in SUBSET Nat : (\A a \in A : a <= m) => Covers(s, A)
<1> DEFINE s == [i \in 1 .. k |-> Event(m + i, 1)]
<1>1. \A i \in 1 .. k : s[i] \in Events /\ s[i].seq = m + i
  BY EventTypes
<1>2. s \in Seq(Events) /\ Len(s) = k /\ DOMAIN s = 1 .. k
  BY <1>1
<1> HIDE DEF s
<1>3. s # <<>> /\ Ordered(s)
  BY <1>1, <1>2 DEF Ordered
<1>4. s[1].seq = m + 1 /\ s[k].seq = m + k
  BY <1>1
<1>5. ASSUME NEW A \in SUBSET Nat, \A a \in A : a <= m
      PROVE  Covers(s, A)
  BY <1>4, <1>5 DEF Covers
<1> QED
  BY <1>2, <1>3, <1>4, <1>5 DEF s

\* Redaction changes sizes, not numbers.
LEMMA ResizedKeeps ==
  ASSUME NEW r \in Seq(Events), Ordered(r), NEW size \in [DOMAIN r -> Sizes]
  PROVE  LET s == [i \in DOMAIN r |-> Event(r[i].seq, size[i])]
         IN /\ s \in Seq(Events) /\ Ordered(s) /\ Len(s) = Len(r)
            /\ \A i \in DOMAIN s : i \in DOMAIN r /\ s[i].seq = r[i].seq
            /\ \A A \in SUBSET Nat : Covers(r, A) => Covers(s, A)
<1> DEFINE s == [i \in DOMAIN r |-> Event(r[i].seq, size[i])]
<1>1. /\ Len(r) \in Nat /\ DOMAIN r = 1 .. Len(r)
      /\ \A i \in DOMAIN r : r[i].seq \in Nat
  BY EventTypes
<1>2. \A i \in DOMAIN r : s[i] \in Events /\ s[i].seq = r[i].seq
  BY <1>1, EventTypes
<1>3. s \in Seq(Events) /\ Len(s) = Len(r) /\ DOMAIN s = DOMAIN r
  BY <1>1, <1>2
<1> HIDE DEF s
<1>4. Ordered(s)
  BY <1>2, <1>3 DEF Ordered
<1>5. ASSUME NEW A \in SUBSET Nat, Covers(r, A), NEW a \in A, s # <<>>, s[1].seq <= a
      PROVE  Has(s, a)
  <2>1. r # <<>> /\ 1 \in DOMAIN r
    BY <1>1, <1>3, <1>5
  <2>2. Has(r, a)
    BY <1>2, <1>5, <2>1 DEF Covers
  <2> QED
    BY <1>2, <1>3, <2>2 DEF Has
<1> QED
  BY <1>2, <1>3, <1>4, <1>5 DEF Covers, s

\* What SubscribeFrom hands out is in order, after the cursor, and all of that.
LEMMA AfterKeeps ==
  ASSUME ring \in Seq(Events), Ordered(ring), NEW from \in Nat
  PROVE  /\ After(from) \in Seq(Events) /\ Ordered(After(from))
         /\ \A i \in DOMAIN After(from) :
              /\ from < After(from)[i].seq
              /\ \E k \in DOMAIN ring : After(from)[i] = ring[k]
         /\ \A n \in Nat : from < n /\ Has(ring, n) => Has(After(from), n)
<1> DEFINE P(n) == \A i \in DOMAIN ring : ring[i].seq > from <=> i > n
           new == {i \in DOMAIN ring : ring[i].seq > from}
<1>1. /\ Len(ring) \in Nat /\ DOMAIN ring = 1 .. Len(ring)
      /\ \A i \in DOMAIN ring : ring[i].seq \in Nat
  BY EventTypes
<1>2. \E n \in 0 .. Len(ring) : P(n)
  <2>1. CASE new = {}
    <3>1. P(Len(ring))
      BY <1>1, <2>1
    <3> QED
      BY <1>1, <3>1, SMTT(60)
  <2>2. CASE new # {}
    <3>1. PICK k \in new : \A m \in new : k <= m
      <4>1. new \in SUBSET Nat
        BY <1>1
      <4> HIDE DEF new
      <4> QED
        BY <2>2, <4>1, Smallest
    <3>2. k \in DOMAIN ring /\ ring[k].seq > from /\ k \in Nat \ {0}
      BY <1>1, <3>1
    <3>3. ASSUME NEW i \in DOMAIN ring
          PROVE  ring[i].seq > from <=> i > k - 1
      <4>1. i \in Nat
        BY <1>1
      <4>2. CASE i < k
        BY <1>1, <3>1, <3>2, <4>1, <4>2
      <4>3. CASE i = k
        BY <3>2, <4>3
      <4>4. CASE k < i
        <5>1. ring[k].seq < ring[i].seq
          BY <3>2, <4>4 DEF Ordered
        <5> QED
          BY <1>1, <3>2, <4>1, <4>4, <5>1
      <4> QED
        BY <3>2, <4>1, <4>2, <4>3, <4>4
    <3>4. k - 1 \in 0 .. Len(ring)
      BY <1>1, <3>2
    <3> QED
      BY <3>3, <3>4
  <2> QED
    BY <2>1, <2>2
<1>3. PICK n \in 0 .. Len(ring) : P(n) /\ After(from) = SubSeq(ring, n + 1, Len(ring))
  BY <1>2 DEF After
<1>4. /\ n \in Nat /\ DOMAIN After(from) = 1 .. Len(ring) - n
      /\ \A i \in DOMAIN After(from) : After(from)[i] = ring[n + i] /\ n + i \in DOMAIN ring /\ n + i > n
  BY <1>1, <1>3
<1>5. After(from) \in Seq(Events) /\ Ordered(After(from))
  BY <1>3, EndKeeps DEF EndOf
<1>6. ASSUME NEW i \in DOMAIN After(from)
      PROVE  from < After(from)[i].seq /\ \E k \in DOMAIN ring : After(from)[i] = ring[k]
  BY <1>1, <1>3, <1>4
<1>7. ASSUME NEW a \in Nat, from < a, Has(ring, a)
      PROVE  Has(After(from), a)
  <2>1. PICK k \in DOMAIN ring : ring[k].seq = a
    BY <1>7 DEF Has
  <2>2. k > n /\ k - n \in DOMAIN After(from) /\ n + (k - n) = k
    BY <1>1, <1>3, <1>4, <1>7, <2>1
  <2> QED
    BY <1>4, <2>1, <2>2 DEF Has
<1> QED
  BY <1>5, <1>6, <1>7

\* Every event, and every record of a compaction, fits into the ring.
EveryEventFits == \A s \in Sizes : s <= RingBytes

\* appendRing leaves an end of the ring, within its bounds, and one with the
\* last event where every event fits.
LEMMA TrimmedKeeps ==
  ASSUME NEW r \in Seq(Events), Ordered(r)
  PROVE  /\ EndOf(Trimmed(r), r) /\ Fits(Trimmed(r))
         /\ Trimmed(r) \in Seq(Events) /\ Ordered(Trimmed(r))
         /\ \A i \in DOMAIN Trimmed(r) : \E k \in DOMAIN r : Trimmed(r)[i] = r[k]
         /\ \A A \in SUBSET Nat : Covers(r, A) => Covers(Trimmed(r), A)
         /\ EveryEventFits /\ r # <<>> => Trimmed(r) # <<>>
<1>1. PICK n \in 0 .. Len(r) :
        /\ Trimmed(r) = SubSeq(r, n + 1, Len(r))
        /\ Fits(SubSeq(r, n + 1, Len(r)))
        /\ \A m \in 0 .. n - 1 : ~ Fits(SubSeq(r, m + 1, Len(r)))
  BY TrimmedIsEnd
<1>2. EndOf(Trimmed(r), r)
  BY <1>1 DEF EndOf
<1>3. ASSUME EveryEventFits, r # <<>>
      PROVE  Trimmed(r) # <<>>
  <2>1. Len(r) \in Nat \ {0} /\ r[Len(r)] \in Events
    BY <1>3
  <2>2. SubSeq(r, Len(r), Len(r)) = <<r[Len(r)]>>
    <3> DEFINE q == SubSeq(r, Len(r), Len(r))
    <3>1. q \in Seq(Events) /\ Len(q) = 1 /\ q[1] = r[Len(r)]
      BY <2>1
    <3> HIDE DEF q
    <3>2. DOMAIN q = 1 .. 1 /\ q = [i \in 1 .. 1 |-> r[Len(r)]]
      BY <3>1
    <3>3. <<r[Len(r)]>> = [i \in 1 .. 1 |-> r[Len(r)]]
      OBVIOUS
    <3> QED
      BY <3>2, <3>3 DEF q
  <2>3. r[Len(r)].size <= RingBytes
    <3>1. r[Len(r)].size \in Sizes \cup {1}
      BY <2>1 DEF Events
    <3>2. CASE r[Len(r)].size \in Sizes
      BY <1>3, <3>2 DEF EveryEventFits
    <3>3. CASE r[Len(r)].size = 1
      BY <3>3, EventStreamConstants
    <3> QED
      BY <3>1, <3>2, <3>3
  <2>4. Fits(<<r[Len(r)]>>)
    <3>1. Bytes(<<r[Len(r)]>>) <= RingBytes
      BY <2>1, <2>3, FewBytes
    <3>2. Len(<<r[Len(r)]>>) <= RingEvents
      BY EventStreamConstants
    <3> QED
      BY <3>1, <3>2 DEF Fits
  <2>5. n # Len(r)
    <3>1. n = Len(r) => Len(r) - 1 \in 0 .. n - 1 /\ (Len(r) - 1) + 1 = Len(r)
      BY <2>1
    <3> QED
      BY <1>1, <2>2, <2>4, <3>1
  <2>6. n \in Nat /\ n < Len(r)
    BY <2>1, <2>5
  <2>7. Len(SubSeq(r, n + 1, Len(r))) = Len(r) - n
    BY <2>1, <2>6
  <2>8. Len(Trimmed(r)) # 0
    BY <1>1, <2>1, <2>6, <2>7
  <2> QED
    BY <2>8
<1> QED
  BY <1>1, <1>2, <1>3, EndKeeps

-----------------------------------------------------------------------------
(* The invariant *)

HandlerState ==
  [pc: {"off", "asked", "catchup", "live"}, seq: Nat, next: Seq(Events), ch: Seq(Events),
   closed: BOOLEAN]

ClientState == [last: Nat, since: Nat, got: SUBSET Nat, known: BOOLEAN]

\* The last number on record: the store's when it is up, and what a restart
\* goes on from.
LogEnd == IF log = <<>> THEN 0 ELSE log[Len(log)].seq

LogInOrder ==
  /\ Ordered(log) /\ Covers(log, appended)
  /\ \A n \in appended : n <= LogEnd
  /\ log = <<>> => appended = {}

RingInOrder ==
  /\ Ordered(ring) /\ Covers(ring, appended)
  /\ up => seq = LogEnd
  /\ \A i \in DOMAIN ring : ring[i].seq <= LogEnd

\* What the handler h of a client in state x has in hand, when the last number
\* is end: in order, after what the client has, and first what comes from the
\* ring.  It is subscribed while it is connected, until it is cut off.
Served(h, x, subscribed, end) ==
  /\ subscribed <=> h.pc \in {"catchup", "live"} /\ ~ h.closed
  /\ h.pc \in {"off", "asked"} => h.next = <<>> /\ h.ch = <<>> /\ ~ h.closed
  /\ h.pc = "live" => h.next = <<>>
  /\ h.pc # "off" => x.known /\ x.last = h.seq
  /\ x.last <= end
  /\ Ordered(h.next) /\ Ordered(h.ch)
  /\ \A i \in DOMAIN h.next : h.seq < h.next[i].seq /\ h.next[i].seq <= end
  /\ \A i \in DOMAIN h.ch : h.seq < h.ch[i].seq /\ h.ch[i].seq <= end
  /\ \A i \in DOMAIN h.next, k \in DOMAIN h.ch : h.next[i].seq < h.ch[k].seq

StreamInvariant ==
  /\ TypeOK /\ LogInOrder /\ RingInOrder
  /\ \A c \in Clients : /\ Served(handler[c], client[c], c \in subs, LogEnd)
                        /\ ~ up => handler[c].pc = "off"

\* The types of the parts.
LEMMA StreamTypes ==
  ASSUME TypeOK
  PROVE  /\ LogEnd \in Nat
         /\ log # <<>> => log[Len(log)] \in Events /\ Len(log) \in DOMAIN log
         /\ seq \in Nat /\ ring \in Seq(Events) /\ log \in Seq(Events) /\ appended \in SUBSET Nat
         /\ handler \in [Clients -> HandlerState] /\ client \in [Clients -> ClientState]
         /\ \A c \in Clients : Len(handler[c].ch) <= Backlog
<1>1. log \in Seq(Events)
  BY DEF TypeOK
<1>2. log # <<>> => log[Len(log)] \in Events /\ Len(log) \in DOMAIN log
  BY <1>1
<1>3. LogEnd \in Nat
  BY <1>2, EventTypes DEF LogEnd
<1> QED
  BY <1>2, <1>3 DEF TypeOK, HandlerState, ClientState

\* Handlers and clients start with nothing.
LEMMA StartStates ==
  /\ Off \in HandlerState /\ Off.pc = "off" /\ Off.next = <<>> /\ Off.ch = <<>> /\ ~ Off.closed
  /\ Len(Off.ch) = 0 /\ Off.seq = 0
  /\ Stranger \in ClientState /\ Stranger.last = 0 /\ Stranger.since = 0 /\ ~ Stranger.known
  /\ Stranger.got = {}
BY DEF Off, Stranger, HandlerState, ClientState

\* A step of one handler, or of its client.
LEMMA HandlerStep ==
  ASSUME StreamInvariant, up, NEW c \in Clients,
         NEW h \in HandlerState, NEW x \in ClientState, Len(h.ch) <= Backlog,
         UNCHANGED <<store, appended>>,
         handler' = [handler EXCEPT ![c] = h], client' = [client EXCEPT ![c] = x],
         subs' \subseteq Clients, \A d \in Clients \ {c} : d \in subs' <=> d \in subs,
         Served(h, x, c \in subs', LogEnd)
  PROVE  StreamInvariant'
<1>1. /\ TypeOK /\ LogInOrder /\ RingInOrder
      /\ UNCHANGED <<seq, ring, log, health, up, appended>>
      /\ handler \in [Clients -> HandlerState] /\ client \in [Clients -> ClientState]
      /\ \A d \in Clients : Len(handler[d].ch) <= Backlog
  BY StreamTypes DEF StreamInvariant, store
<1>2. /\ handler' \in [Clients -> HandlerState] /\ client' \in [Clients -> ClientState]
      /\ handler'[c] = h /\ client'[c] = x
      /\ \A d \in Clients \ {c} : handler'[d] = handler[d] /\ client'[d] = client[d]
  BY <1>1
<1>3. \A d \in Clients : Len(handler'[d].ch) <= Backlog
  BY <1>1, <1>2
<1>4. TypeOK'
  BY <1>1, <1>2, <1>3 DEF TypeOK, HandlerState, ClientState
<1>5. LogInOrder' /\ RingInOrder' /\ LogEnd' = LogEnd
  BY <1>1 DEF LogInOrder, RingInOrder, LogEnd
<1>6. ASSUME NEW d \in Clients
      PROVE  Served(handler'[d], client'[d], d \in subs', LogEnd)
  <2>1. CASE d = c
    BY <1>2, <2>1
  <2>2. CASE d # c
    <3>1. Served(handler[d], client[d], d \in subs, LogEnd)
      BY DEF StreamInvariant
    <3> QED
      BY <1>2, <2>2, <3>1 DEF Served
  <2> QED
    BY <2>1, <2>2
<1> QED
  BY <1>1, <1>4, <1>5, <1>6 DEF StreamInvariant

\* Where every event fits: the ring is empty only before the first event; what
\* a connected handler lacks is after all it has, and it lacks nothing as long
\* as it was not cut off and no append has failed; and NoSilentGap.
Gapless(h, A, healthy) ==
  h.pc \in {"catchup", "live"} =>
    \A n \in A : h.seq < n =>
      \/ Has(h.next, n) \/ Has(h.ch, n)
      \/ /\ h.closed \/ ~ healthy
         /\ \A i \in DOMAIN h.next : h.next[i].seq < n
         /\ \A i \in DOMAIN h.ch : h.ch[i].seq < n

NoGap(x, A) == \A n \in A : x.since < n /\ n <= x.last => n \in x.got

GapInvariant ==
  /\ up /\ ring = <<>> => appended = {}
  /\ \A c \in Clients : /\ Gapless(handler[c], appended, health = "ok")
                        /\ NoGap(client[c], appended)

\* A step of one handler to h and of its client to x, and what it keeps.
HandlerMove(c, h, x) ==
  /\ up /\ UNCHANGED <<store, appended>>
  /\ handler' = [handler EXCEPT ![c] = h] /\ client' = [client EXCEPT ![c] = x]
  /\ subs' \subseteq Clients
  /\ \A d \in Clients \ {c} : d \in subs' <=> d \in subs
  /\ Len(h.ch) <= Backlog
  /\ Served(h, x, c \in subs', LogEnd)
  /\ GapInvariant => Gapless(h, appended, health = "ok") /\ NoGap(x, appended)
  /\ x.known /\ client[c].known /\ x # client[c] => x.last > client[c].last

\* The states of a handler and its client.
LEMMA HandlerTypes ==
  ASSUME StreamInvariant, NEW c \in Clients
  PROVE  /\ handler[c] \in HandlerState /\ client[c] \in ClientState
         /\ Len(handler[c].ch) <= Backlog
         /\ Served(handler[c], client[c], c \in subs, LogEnd)
         /\ [client EXCEPT ![c] = client[c]] = client
         /\ subs \subseteq Clients /\ LogEnd \in Nat
         /\ up => seq = LogEnd
         /\ appended \in SUBSET Nat
BY StreamTypes DEF StreamInvariant, RingInOrder, TypeOK

\* A handler with nothing to send serves who has nothing to come.
LEMMA Idle ==
  ASSUME NEW h \in HandlerState, NEW x \in ClientState, NEW end \in Nat,
         h.pc \in {"off", "asked"}, h.next = <<>>, h.ch = <<>>, ~ h.closed,
         h.pc # "off" => x.known /\ x.last = h.seq,
         x.last <= end
  PROVE  /\ Served(h, x, FALSE, end)
         /\ \A A, healthy : Gapless(h, A, healthy)
         /\ Len(h.ch) <= Backlog
<1>1. DOMAIN h.next = {} /\ DOMAIN h.ch = {} /\ Len(h.ch) = 0
  OBVIOUS
<1>2. Ordered(h.next) /\ Ordered(h.ch)
  BY <1>1 DEF Ordered
<1>3. Served(h, x, FALSE, end)
  BY <1>1, <1>2 DEF Served
<1>4. \A A, healthy : Gapless(h, A, healthy)
  BY DEF Gapless
<1>5. Len(h.ch) <= Backlog
  BY <1>1, EventStreamConstants
<1> QED
  BY <1>3, <1>4, <1>5

\* The end of a connection: the deferred cancel.
LEMMA CancelMoves ==
  ASSUME StreamInvariant, NEW c \in Clients, up, Cancel(c)
  PROVE  HandlerMove(c, Off, client[c])
<1>1. client[c].last <= LogEnd
  BY HandlerTypes DEF Served
<1>2. /\ Served(Off, client[c], FALSE, LogEnd)
      /\ Gapless(Off, appended, health = "ok") /\ Len(Off.ch) <= Backlog
  BY <1>1, HandlerTypes, StartStates, Idle
<1>3. GapInvariant => NoGap(client[c], appended)
  BY DEF GapInvariant
<1>4. /\ client' = [client EXCEPT ![c] = client[c]] /\ handler' = [handler EXCEPT ![c] = Off]
      /\ UNCHANGED <<store, appended>>
  BY HandlerTypes DEF Cancel
<1>5. (c \in subs') = FALSE /\ subs' \subseteq Clients /\ \A d \in Clients \ {c} : d \in subs' <=> d \in subs
  BY HandlerTypes DEF Cancel
<1> QED
  BY <1>2, <1>3, <1>4, <1>5 DEF HandlerMove

\* A client connects: with its cursor, or with the store's number.
LEMMA ConnectMoves ==
  ASSUME StreamInvariant, NEW c \in Clients, Connect(c)
  PROVE  \E h \in HandlerState, x \in ClientState : HandlerMove(c, h, x)
<1> DEFINE from == IF client[c].known THEN client[c].last ELSE seq
           h == [Off EXCEPT !.pc = "asked", !.seq = from]
           x == IF client[c].known THEN client[c]
                ELSE [last |-> from, since |-> from, got |-> {}, known |-> TRUE]
<1>1. /\ up /\ handler[c].pc = "off" /\ handler' = [handler EXCEPT ![c] = h]
      /\ UNCHANGED <<store, subs, appended>>
  BY DEF Connect
<1>2. client' = [client EXCEPT ![c] = x]
  BY HandlerTypes DEF Connect
<1>3. client[c].last \in Nat /\ client[c].last <= LogEnd /\ LogEnd \in Nat /\ seq = LogEnd
  BY <1>1, HandlerTypes DEF Served, ClientState
<1>4. from \in Nat /\ from <= LogEnd
  BY <1>3
<1>5. /\ h \in HandlerState /\ h.pc = "asked" /\ h.seq = from /\ h.next = <<>> /\ h.ch = <<>>
      /\ h.closed = FALSE
  BY <1>4, StartStates DEF HandlerState
<1>6. x \in ClientState /\ x.known = TRUE /\ x.last = from
  BY <1>4, HandlerTypes DEF ClientState
<1>7. GapInvariant => NoGap(x, appended)
  <2>1. CASE client[c].known
    BY <2>1 DEF GapInvariant
  <2>2. CASE ~ client[c].known
    <3>1. x.since = from /\ x.last = from /\ appended \in SUBSET Nat
      BY <2>2, HandlerTypes
    <3> QED
      BY <1>4, <3>1 DEF NoGap
  <2> QED
    BY <2>1, <2>2
<1>8. x.known /\ client[c].known /\ x # client[c] => x.last > client[c].last
  OBVIOUS
<1> HIDE DEF h, x, from
<1>9. /\ Served(h, x, FALSE, LogEnd) /\ Gapless(h, appended, health = "ok")
      /\ Len(h.ch) <= Backlog
  BY <1>3, <1>4, <1>5, <1>6, Idle
<1>10. (c \in subs') = FALSE /\ subs' = subs /\ subs' \subseteq Clients
  BY <1>1, HandlerTypes DEF Served
<1> QED
  BY <1>1, <1>2, <1>5, <1>6, <1>7, <1>8, <1>9, <1>10 DEF HandlerMove

\* A subscription: what the ring has after the cursor, which is all there is
\* unless it is too old.
LEMMA SubscribeMoves ==
  ASSUME StreamInvariant, NEW c \in Clients, SubscribeFrom(c)
  PROVE  \E h \in HandlerState, x \in ClientState : HandlerMove(c, h, x)
<1> DEFINE from == handler[c].seq
           h == [handler[c] EXCEPT !.pc = "catchup", !.next = After(from)]
           x == client[c]
<1>1. /\ up /\ handler[c].pc = "asked" /\ ~ TooOld(from) /\ subs' = subs \cup {c}
      /\ UNCHANGED <<store, appended, client>>
  BY DEF SubscribeFrom
<1>2. /\ handler \in [Clients -> HandlerState] /\ handler[c] \in HandlerState /\ x \in ClientState
      /\ from \in Nat /\ Served(handler[c], x, c \in subs, LogEnd) /\ LogEnd \in Nat
      /\ appended \in SUBSET Nat
  BY HandlerTypes, StreamTypes DEF HandlerState, StreamInvariant
<1>3. /\ ring \in Seq(Events) /\ Ordered(ring) /\ Covers(ring, appended)
      /\ \A i \in DOMAIN ring : ring[i].seq \in Nat /\ ring[i].seq <= LogEnd
  BY StreamTypes, EventTypes DEF StreamInvariant, RingInOrder
<1>4. /\ After(from) \in Seq(Events) /\ Ordered(After(from))
      /\ \A i \in DOMAIN After(from) : from < After(from)[i].seq /\ After(from)[i].seq <= LogEnd
      /\ \A n \in Nat : from < n /\ Has(ring, n) => Has(After(from), n)
  BY <1>2, <1>3, AfterKeeps
<1>5. /\ h \in HandlerState /\ h.pc = "catchup" /\ h.next = After(from) /\ h.seq = from
      /\ h.ch = handler[c].ch /\ h.closed = handler[c].closed
  BY <1>2, <1>4 DEF HandlerState
<1>6. handler' = [handler EXCEPT ![c] = h]
  BY <1>2 DEF SubscribeFrom
<1>7. GapInvariant => NoGap(x, appended)
  BY DEF GapInvariant
<1>8. x.known /\ client[c].known /\ x # client[c] => x.last > client[c].last
  OBVIOUS
<1>9. handler[c].ch = <<>> /\ ~ handler[c].closed /\ x.known /\ x.last = from /\ x.last <= LogEnd
  BY <1>1, <1>2 DEF Served
<1>10. client' = [client EXCEPT ![c] = x]
  BY <1>1, HandlerTypes
<1> HIDE DEF h, x, from
<1>11. DOMAIN h.ch = {} /\ Len(h.ch) = 0 /\ Ordered(h.ch)
  BY <1>5, <1>9 DEF Ordered
<1>12. Served(h, x, TRUE, LogEnd) /\ Len(h.ch) <= Backlog
  BY <1>4, <1>5, <1>9, <1>11, EventStreamConstants DEF Served
<1>13. ASSUME GapInvariant, NEW n \in appended, from < n
       PROVE  Has(After(from), n)
  <2>1. ring # <<>> /\ 1 \in DOMAIN ring
    BY <1>1, <1>3, <1>13 DEF GapInvariant
  <2>2. ring[1].seq <= from + 1
    BY <1>1, <1>2, <1>3, <2>1 DEF TooOld
  <2>3. n \in Nat /\ ring[1].seq <= n
    BY <1>2, <1>3, <1>13, <2>1, <2>2
  <2> QED
    BY <1>3, <1>4, <1>13, <2>1, <2>3 DEF Covers
<1>14. GapInvariant => Gapless(h, appended, health = "ok")
  BY <1>5, <1>13 DEF Gapless
<1>15. (c \in subs') = TRUE /\ subs' \subseteq Clients /\ \A d \in Clients \ {c} : d \in subs' <=> d \in subs
  BY <1>1, HandlerTypes
<1> QED
  BY <1>1, <1>2, <1>5, <1>6, <1>7, <1>8, <1>10, <1>12, <1>14, <1>15 DEF HandlerMove

\* 409: both start afresh.
LEMMA ConflictMoves ==
  ASSUME StreamInvariant, NEW c \in Clients, Conflict(c)
  PROVE  HandlerMove(c, Off, Stranger)
<1>1. /\ up /\ handler[c].pc = "asked" /\ subs' = subs
      /\ handler' = [handler EXCEPT ![c] = Off] /\ client' = [client EXCEPT ![c] = Stranger]
      /\ UNCHANGED <<store, appended>>
  BY DEF Conflict
<1>2. /\ Served(Off, Stranger, FALSE, LogEnd) /\ Gapless(Off, appended, health = "ok")
      /\ Len(Off.ch) <= Backlog
  <2>1. LogEnd \in Nat /\ Stranger.last <= LogEnd
    BY HandlerTypes, StartStates
  <2> QED
    BY <2>1, StartStates, Idle
<1>3. (c \in subs') = FALSE /\ subs' \subseteq Clients
  BY <1>1, HandlerTypes DEF Served
<1>4. NoGap(Stranger, appended)
  BY HandlerTypes, StartStates DEF NoGap
<1> QED
  BY <1>1, <1>2, <1>3, <1>4, StartStates DEF HandlerMove

\* The handler goes on to its channel.
LEMMA CaughtUpMoves ==
  ASSUME StreamInvariant, NEW c \in Clients, CaughtUp(c)
  PROVE  \E h \in HandlerState, x \in ClientState : HandlerMove(c, h, x)
<1> DEFINE h == [handler[c] EXCEPT !.pc = "live"]
           x == client[c]
<1>1. /\ up /\ handler[c].pc = "catchup" /\ handler[c].next = <<>> /\ subs' = subs
      /\ UNCHANGED <<store, appended, client>>
  BY DEF CaughtUp
<1>2. /\ handler \in [Clients -> HandlerState] /\ handler[c] \in HandlerState /\ x \in ClientState
      /\ Served(handler[c], x, c \in subs, LogEnd) /\ subs \subseteq Clients
      /\ Len(handler[c].ch) <= Backlog
  BY HandlerTypes, StreamTypes DEF StreamInvariant
<1>3. /\ h \in HandlerState /\ h.pc = "live" /\ h.next = handler[c].next /\ h.seq = handler[c].seq
      /\ h.ch = handler[c].ch /\ h.closed = handler[c].closed
  BY <1>2 DEF HandlerState
<1>4. handler' = [handler EXCEPT ![c] = h]
  BY <1>2 DEF CaughtUp
<1>5. client' = [client EXCEPT ![c] = x]
  BY <1>1, HandlerTypes
<1>6. x.known /\ client[c].known /\ x # client[c] => x.last > client[c].last
  OBVIOUS
<1>7. GapInvariant => Gapless(handler[c], appended, health = "ok") /\ NoGap(x, appended)
  BY DEF GapInvariant
<1> HIDE DEF h, x
<1>8. Served(h, x, c \in subs, LogEnd)
  BY <1>1, <1>2, <1>3 DEF Served
<1>9. GapInvariant => Gapless(h, appended, health = "ok")
  BY <1>1, <1>3, <1>7 DEF Gapless
<1> QED
  BY <1>1, <1>2, <1>3, <1>4, <1>5, <1>6, <1>7, <1>8, <1>9 DEF HandlerMove

\* What the client has after it got event n.
Got(x, n) == [x EXCEPT !.last = n, !.got = @ \cup {n}]

\* To get the next number of what is in hand leaves no gap.
LEMMA GotNext ==
  ASSUME NEW x \in ClientState, NEW n \in Nat, NEW A \in SUBSET Nat, x.last < n
  PROVE  /\ Got(x, n) \in ClientState /\ Got(x, n).last = n /\ Got(x, n).known = x.known
         /\ NoGap(x, A) /\ (\A m \in A : x.last < m => m >= n) => NoGap(Got(x, n), A)
<1>1. /\ Got(x, n) \in ClientState /\ Got(x, n).last = n /\ Got(x, n).known = x.known
      /\ Got(x, n).since = x.since /\ Got(x, n).got = x.got \cup {n}
  BY DEF Got, ClientState
<1>2. x.last \in Nat
  BY DEF ClientState
<1>3. ASSUME NoGap(x, A), \A m \in A : x.last < m => m >= n,
             NEW m \in A, x.since < m, m <= n
      PROVE  m \in x.got \cup {n}
  <2>1. m \in Nat
    OBVIOUS
  <2>2. CASE m <= x.last
    BY <1>3, <2>2 DEF NoGap
  <2>3. CASE x.last < m
    BY <1>3, <2>1, <2>3
  <2> QED
    BY <1>2, <2>1, <2>2, <2>3
<1> QED
  BY <1>1, <1>3 DEF NoGap

\* The next event of the catch-up goes out.
LEMMA SendOldMoves ==
  ASSUME StreamInvariant, NEW c \in Clients, SendOld(c)
  PROVE  \E h \in HandlerState, x \in ClientState : HandlerMove(c, h, x)
<1> DEFINE o == handler[c]
           n == Head(o.next).seq
           h == [o EXCEPT !.next = Tail(@), !.seq = n]
           x == Got(client[c], n)
<1>1. /\ up /\ o.pc = "catchup" /\ o.next # <<>> /\ subs' = subs
      /\ client' = [client EXCEPT ![c].last = n, ![c].got = @ \cup {n}]
      /\ handler' = [handler EXCEPT ![c].next = Tail(@), ![c].seq = n]
      /\ UNCHANGED <<store, appended>>
  BY DEF SendOld, Receive
<1>2. /\ handler \in [Clients -> HandlerState] /\ o \in HandlerState
      /\ client \in [Clients -> ClientState] /\ client[c] \in ClientState
      /\ Served(o, client[c], c \in subs, LogEnd) /\ subs \subseteq Clients
      /\ Len(o.ch) <= Backlog /\ LogEnd \in Nat /\ appended \in SUBSET Nat
  BY HandlerTypes, StreamTypes DEF StreamInvariant
<1>3. /\ o.next \in Seq(Events) /\ o.ch \in Seq(Events) /\ o.seq \in Nat
      /\ \A i \in DOMAIN o.next : o.next[i].seq \in Nat
      /\ \A i \in DOMAIN o.ch : o.ch[i].seq \in Nat
  BY <1>2, EventTypes DEF HandlerState
<1>4. /\ 1 \in DOMAIN o.next /\ Head(o.next) = o.next[1]
      /\ Tail(o.next) \in Seq(Events) /\ Ordered(Tail(o.next))
      /\ \A i \in DOMAIN Tail(o.next) :
           \E k \in DOMAIN o.next : Tail(o.next)[i] = o.next[k] /\ o.next[1].seq < o.next[k].seq
      /\ \A m : Has(o.next, m) => Has(Tail(o.next), m) \/ m = n
  BY <1>1, <1>2, <1>3, TailKeeps DEF Served
<1>5. n \in Nat /\ o.seq < n /\ n <= LogEnd /\ n = o.next[1].seq
  BY <1>2, <1>3, <1>4 DEF Served
<1>6. client[c].last = o.seq /\ client[c].known /\ client[c].last \in Nat
  BY <1>1, <1>2 DEF Served, ClientState
<1>7. /\ x \in ClientState /\ x.last = n /\ x.known = client[c].known
      /\ NoGap(client[c], appended) /\ (\A m \in appended : client[c].last < m => m >= n)
           => NoGap(x, appended)
  BY <1>2, <1>5, <1>6, GotNext
<1>8. /\ h \in HandlerState /\ h.pc = o.pc /\ h.next = Tail(o.next) /\ h.seq = n
      /\ h.ch = o.ch /\ h.closed = o.closed
  BY <1>2, <1>4, <1>5 DEF HandlerState
<1>9. handler' = [handler EXCEPT ![c] = h]
  BY <1>1, <1>2
<1>10. client' = [client EXCEPT ![c] = x]
  BY <1>1, <1>2 DEF Got
<1> HIDE DEF o, h, x, n
<1>11. Served(h, x, c \in subs, LogEnd)
  <2>1. \A i \in DOMAIN h.next : \E k \in DOMAIN o.next : h.next[i] = o.next[k] /\ n < o.next[k].seq
    BY <1>4, <1>5, <1>8
  <2>2. \A i \in DOMAIN h.next : h.seq < h.next[i].seq /\ h.next[i].seq <= LogEnd
    BY <1>2, <1>8, <2>1 DEF Served
  <2>3. \A i \in DOMAIN h.ch : h.seq < h.ch[i].seq /\ h.ch[i].seq <= LogEnd
    BY <1>2, <1>4, <1>5, <1>8 DEF Served
  <2>4. \A i \in DOMAIN h.next, k \in DOMAIN h.ch : h.next[i].seq < h.ch[k].seq
    BY <1>2, <1>8, <2>1 DEF Served
  <2> QED
    BY <1>1, <1>2, <1>4, <1>5, <1>6, <1>7, <1>8, <2>2, <2>3, <2>4 DEF Served
<1>12. ASSUME GapInvariant
       PROVE  Gapless(h, appended, health = "ok") /\ NoGap(x, appended)
  <2>1. Gapless(o, appended, health = "ok") /\ NoGap(client[c], appended)
    BY <1>12 DEF GapInvariant, o
  <2>2. ASSUME NEW m \in appended, n < m
        PROVE  \/ Has(h.next, m) \/ Has(h.ch, m)
               \/ /\ h.closed \/ ~ (health = "ok")
                  /\ \A i \in DOMAIN h.next : h.next[i].seq < m
                  /\ \A i \in DOMAIN h.ch : h.ch[i].seq < m
    <3>1. m \in Nat /\ o.seq < m
      BY <1>2, <1>3, <1>5, <2>2
    <3>2. CASE Has(o.next, m)
      BY <1>4, <1>5, <1>8, <2>2, <3>1, <3>2
    <3>3. CASE Has(o.ch, m)
      BY <1>8, <3>3
    <3>4. CASE /\ o.closed \/ ~ (health = "ok")
               /\ \A i \in DOMAIN o.next : o.next[i].seq < m
               /\ \A i \in DOMAIN o.ch : o.ch[i].seq < m
      BY <1>4, <1>8, <3>4
    <3> QED
      BY <1>1, <2>1, <3>1, <3>2, <3>3, <3>4 DEF Gapless
  <2>3. ASSUME NEW m \in appended, client[c].last < m, m < n
        PROVE  FALSE
    <3>1. m \in Nat /\ o.seq < m
      BY <1>2, <1>6, <2>3
    <3>2. CASE Has(o.next, m)
      <4>1. PICK i \in DOMAIN o.next : o.next[i].seq = m
        BY <3>2 DEF Has
      <4>2. i = 1 \/ 1 < i
        BY <1>3, <4>1
      <4> QED
        BY <1>2, <1>3, <1>4, <1>5, <2>3, <3>1, <4>1, <4>2 DEF Served, Ordered
    <3>3. CASE Has(o.ch, m)
      <4>1. PICK k \in DOMAIN o.ch : o.ch[k].seq = m
        BY <3>3 DEF Has
      <4>2. o.next[1].seq < o.ch[k].seq
        BY <1>2, <1>4, <4>1 DEF Served
      <4> QED
        BY <1>5, <2>3, <3>1, <4>1, <4>2
    <3>4. CASE \A i \in DOMAIN o.next : o.next[i].seq < m
      BY <1>4, <1>5, <2>3, <3>1, <3>4
    <3> QED
      BY <1>1, <2>1, <3>1, <3>2, <3>3, <3>4 DEF Gapless
  <2>4. \A m \in appended : client[c].last < m => m >= n
    <3> SUFFICES ASSUME NEW m \in appended, client[c].last < m, ~ (m >= n)
                 PROVE  FALSE
      OBVIOUS
    <3>1. m \in Nat /\ m < n
      BY <1>2, <1>5
    <3> QED
      BY <2>3, <3>1
  <2>5. NoGap(x, appended)
    BY <1>7, <2>1, <2>4
  <2>6. Gapless(h, appended, health = "ok")
    BY <1>8, <2>2 DEF Gapless
  <2> QED
    BY <2>5, <2>6
<1>13. x.last > client[c].last
  BY <1>5, <1>6, <1>7
<1>14. Len(h.ch) <= Backlog
  BY <1>2, <1>8
<1> QED
  BY <1>1, <1>2, <1>7, <1>8, <1>9, <1>10, <1>11, <1>12, <1>13, <1>14 DEF HandlerMove

\* The next event of the channel goes out.  It is after what the client has:
\* the branch that skips one the catch-up brought is never taken.
LEMMA SendLiveMoves ==
  ASSUME StreamInvariant, NEW c \in Clients, SendLive(c)
  PROVE  \E h \in HandlerState, x \in ClientState : HandlerMove(c, h, x)
<1> DEFINE o == handler[c]
           n == Head(o.ch).seq
           h == [o EXCEPT !.ch = Tail(@), !.seq = n]
           x == Got(client[c], n)
<1>1. /\ up /\ o.pc = "live" /\ o.ch # <<>> /\ subs' = subs
      /\ UNCHANGED <<store, appended>>
  BY DEF SendLive
<1>2. /\ handler \in [Clients -> HandlerState] /\ o \in HandlerState
      /\ client \in [Clients -> ClientState] /\ client[c] \in ClientState
      /\ Served(o, client[c], c \in subs, LogEnd) /\ subs \subseteq Clients
      /\ Len(o.ch) <= Backlog /\ LogEnd \in Nat /\ appended \in SUBSET Nat
  BY HandlerTypes, StreamTypes DEF StreamInvariant
<1>3. /\ o.ch \in Seq(Events) /\ o.seq \in Nat /\ o.next = <<>> /\ DOMAIN o.next = {}
      /\ \A i \in DOMAIN o.ch : o.ch[i].seq \in Nat
  <2>1. o.ch \in Seq(Events) /\ o.seq \in Nat /\ o.next = <<>>
    BY <1>1, <1>2 DEF HandlerState, Served
  <2> QED
    BY <2>1, EventTypes
<1>4. /\ 1 \in DOMAIN o.ch /\ Head(o.ch) = o.ch[1]
      /\ Tail(o.ch) \in Seq(Events) /\ Ordered(Tail(o.ch)) /\ Len(Tail(o.ch)) < Len(o.ch)
      /\ \A i \in DOMAIN Tail(o.ch) :
           \E k \in DOMAIN o.ch : Tail(o.ch)[i] = o.ch[k] /\ o.ch[1].seq < o.ch[k].seq
      /\ \A m : Has(o.ch, m) => Has(Tail(o.ch), m) \/ m = n
  BY <1>1, <1>2, <1>3, TailKeeps DEF Served
<1>5. n \in Nat /\ o.seq < n /\ n <= LogEnd /\ n = o.ch[1].seq
  BY <1>2, <1>3, <1>4 DEF Served
<1>6. /\ handler' = [handler EXCEPT ![c].ch = Tail(@), ![c].seq = n]
      /\ client' = [client EXCEPT ![c].last = n, ![c].got = @ \cup {n}]
  <2>1. ~ (n <= o.seq)
    BY <1>3, <1>5
  <2> QED
    BY <2>1 DEF SendLive, Receive
<1>7. client[c].last = o.seq /\ client[c].known /\ client[c].last \in Nat
  BY <1>1, <1>2 DEF Served, ClientState
<1>8. /\ x \in ClientState /\ x.last = n /\ x.known = client[c].known
      /\ NoGap(client[c], appended) /\ (\A m \in appended : client[c].last < m => m >= n)
           => NoGap(x, appended)
  BY <1>2, <1>5, <1>7, GotNext
<1>9. /\ h \in HandlerState /\ h.pc = o.pc /\ h.ch = Tail(o.ch) /\ h.seq = n
      /\ h.next = o.next /\ h.closed = o.closed
  BY <1>2, <1>4, <1>5 DEF HandlerState
<1>10. handler' = [handler EXCEPT ![c] = h] /\ client' = [client EXCEPT ![c] = x]
  BY <1>2, <1>6 DEF Got
<1> HIDE DEF o, h, x, n
<1>11. Served(h, x, c \in subs, LogEnd)
  <2>1. \A i \in DOMAIN h.ch : \E k \in DOMAIN o.ch : h.ch[i] = o.ch[k] /\ n < o.ch[k].seq
    BY <1>4, <1>5, <1>9
  <2>2. \A i \in DOMAIN h.ch : h.seq < h.ch[i].seq /\ h.ch[i].seq <= LogEnd
    BY <1>2, <1>9, <2>1 DEF Served
  <2>3. Ordered(h.next) /\ DOMAIN h.next = {}
    BY <1>3, <1>9 DEF Ordered
  <2> QED
    BY <1>1, <1>2, <1>3, <1>4, <1>5, <1>7, <1>8, <1>9, <2>2, <2>3 DEF Served
<1>12. ASSUME GapInvariant
       PROVE  Gapless(h, appended, health = "ok") /\ NoGap(x, appended)
  <2>1. Gapless(o, appended, health = "ok") /\ NoGap(client[c], appended)
    BY <1>12 DEF GapInvariant, o
  <2>2. \A m : ~ Has(o.next, m)
    BY <1>3 DEF Has
  <2>3. ASSUME NEW m \in appended, n < m
        PROVE  \/ Has(h.next, m) \/ Has(h.ch, m)
               \/ /\ h.closed \/ ~ (health = "ok")
                  /\ \A i \in DOMAIN h.next : h.next[i].seq < m
                  /\ \A i \in DOMAIN h.ch : h.ch[i].seq < m
    <3>1. m \in Nat /\ o.seq < m
      BY <1>2, <1>3, <1>5, <2>3
    <3>2. CASE Has(o.ch, m)
      BY <1>4, <1>5, <1>9, <2>3, <3>1, <3>2
    <3>3. CASE /\ o.closed \/ ~ (health = "ok")
               /\ \A i \in DOMAIN o.ch : o.ch[i].seq < m
      BY <1>3, <1>4, <1>9, <3>3
    <3> QED
      BY <1>1, <2>1, <2>2, <3>1, <3>2, <3>3 DEF Gapless
  <2>4. ASSUME NEW m \in appended, client[c].last < m, m < n
        PROVE  FALSE
    <3>1. m \in Nat /\ o.seq < m
      BY <1>2, <1>7, <2>4
    <3>2. CASE Has(o.ch, m)
      <4>1. PICK i \in DOMAIN o.ch : o.ch[i].seq = m
        BY <3>2 DEF Has
      <4>2. i = 1 \/ 1 < i
        BY <1>3, <4>1
      <4> QED
        BY <1>2, <1>3, <1>4, <1>5, <2>4, <3>1, <4>1, <4>2 DEF Served, Ordered
    <3>3. CASE \A i \in DOMAIN o.ch : o.ch[i].seq < m
      BY <1>4, <1>5, <2>4, <3>1, <3>3
    <3> QED
      BY <1>1, <2>1, <2>2, <3>1, <3>2, <3>3 DEF Gapless
  <2>5. \A m \in appended : client[c].last < m => m >= n
    <3> SUFFICES ASSUME NEW m \in appended, client[c].last < m, ~ (m >= n)
                 PROVE  FALSE
      OBVIOUS
    <3>1. m \in Nat /\ m < n
      BY <1>2, <1>5
    <3> QED
      BY <2>4, <3>1
  <2>6. NoGap(x, appended)
    BY <1>8, <2>1, <2>5
  <2>7. Gapless(h, appended, health = "ok")
    BY <1>9, <2>3 DEF Gapless
  <2> QED
    BY <2>6, <2>7
<1>13. x.last > client[c].last
  BY <1>5, <1>7, <1>8
<1>14. Len(h.ch) <= Backlog
  <2>1. Len(h.ch) \in Nat /\ Len(o.ch) \in Nat /\ Backlog \in Nat
    BY <1>3, <1>4, <1>9, EventStreamConstants
  <2> QED
    BY <1>2, <1>4, <1>9, <2>1
<1> QED
  BY <1>1, <1>2, <1>8, <1>9, <1>10, <1>11, <1>12, <1>13, <1>14 DEF HandlerMove

\* Every step of a handler or its client is a HandlerMove.
LEMMA HandlersMove ==
  ASSUME StreamInvariant, NEW c \in Clients, Connect(c) \/ Handler(c) \/ Disconnect(c)
  PROVE  \E h \in HandlerState, x \in ClientState : HandlerMove(c, h, x)
<1>1. CASE Connect(c)
  BY <1>1, ConnectMoves
<1>2. CASE SubscribeFrom(c)
  BY <1>2, SubscribeMoves
<1>3. CASE Conflict(c)
  BY <1>3, ConflictMoves, StartStates
<1>4. CASE SendOld(c)
  BY <1>4, SendOldMoves
<1>5. CASE CaughtUp(c)
  BY <1>5, CaughtUpMoves
<1>6. CASE SendLive(c)
  BY <1>6, SendLiveMoves
<1>7. CASE CutOff(c)
  <2>1. up /\ Cancel(c)
    BY <1>7 DEF CutOff
  <2> QED
    BY <2>1, CancelMoves, StartStates, HandlerTypes
<1>8. CASE Disconnect(c)
  <2>1. up /\ Cancel(c)
    BY <1>8 DEF Disconnect
  <2> QED
    BY <2>1, CancelMoves, StartStates, HandlerTypes
<1> QED
  BY <1>1, <1>2, <1>3, <1>4, <1>5, <1>6, <1>7, <1>8 DEF Handler

\* Such a step keeps both invariants, and what a client has goes forward.
LEMMA MovesKeep ==
  ASSUME StreamInvariant, NEW c \in Clients, NEW h \in HandlerState, NEW x \in ClientState,
         HandlerMove(c, h, x)
  PROVE  /\ StreamInvariant'
         /\ GapInvariant => GapInvariant'
         /\ \A d \in Clients : client'[d].known /\ client[d].known /\ client'[d] # client[d] =>
              client'[d].last > client[d].last
<1>1. StreamInvariant'
  BY HandlerStep DEF HandlerMove
<1>2. /\ handler' = [handler EXCEPT ![c] = h] /\ client' = [client EXCEPT ![c] = x]
      /\ handler \in [Clients -> HandlerState] /\ client \in [Clients -> ClientState]
  BY StreamTypes DEF HandlerMove, StreamInvariant
<1>3. /\ handler'[c] = h /\ client'[c] = x
      /\ \A d \in Clients \ {c} : handler'[d] = handler[d] /\ client'[d] = client[d]
  BY <1>2
<1>4. ASSUME GapInvariant PROVE GapInvariant'
  <2>1. /\ Gapless(h, appended, health = "ok") /\ NoGap(x, appended)
        /\ up' = up /\ ring' = ring /\ appended' = appended /\ health' = health
    BY <1>4 DEF HandlerMove, store
  <2>2. ASSUME NEW d \in Clients
        PROVE  Gapless(handler'[d], appended, health = "ok") /\ NoGap(client'[d], appended)
    BY <1>3, <1>4, <2>1 DEF GapInvariant
  <2> QED
    BY <1>4, <2>1, <2>2 DEF GapInvariant
<1>5. x.known /\ client[c].known /\ x # client[c] => x.last > client[c].last
  BY DEF HandlerMove
<1> QED
  BY <1>1, <1>3, <1>4, <1>5

-----------------------------------------------------------------------------
(* Steps of the store *)

\* The log after an append, and after the compaction it may trigger.
LEMMA LogGrows ==
  ASSUME StreamInvariant, NEW e \in Events, LogEnd < e.seq, NEW k \in Nat,
         log' = IF k = 0 THEN Append(log, e) ELSE [i \in 1 .. k |-> Event(e.seq + i, 1)],
         appended' = appended \cup {e.seq}
  PROVE  /\ log' \in Seq(Events) /\ LogInOrder' /\ LogEnd' = e.seq + k
         /\ appended' \in SUBSET Nat /\ log' # <<>>
<1>1. /\ log \in Seq(Events) /\ Ordered(log) /\ Covers(log, appended) /\ LogEnd \in Nat
      /\ appended \in SUBSET Nat /\ \A n \in appended : n <= LogEnd
      /\ e.seq \in Nat
  BY StreamTypes, EventTypes DEF StreamInvariant, LogInOrder
<1>2. /\ \A n \in appended : n < e.seq
      /\ \A n \in appended' : n <= e.seq
      /\ appended' \in SUBSET Nat
  <2>1. \A n \in appended : n \in Nat /\ n < e.seq
    BY <1>1
  <2>2. \A n \in appended' : n \in Nat /\ n <= e.seq
    BY <1>1, <2>1
  <2> QED
    BY <2>1, <2>2
<1>3. CASE k = 0
  <2>1. ASSUME NEW i \in DOMAIN log PROVE log[i].seq < e.seq
    <3>1. i \in 1 .. Len(log) /\ log # <<>> /\ LogEnd = log[Len(log)].seq /\ Len(log) \in DOMAIN log
      BY <1>1, StreamTypes DEF LogEnd, StreamInvariant
    <3>2. log[i].seq \in Nat /\ (i = Len(log) \/ i < Len(log))
      BY <1>1, <3>1, EventTypes
    <3>3. log[i].seq <= LogEnd
      BY <1>1, <3>1, <3>2 DEF Ordered
    <3> QED
      BY <1>1, <3>2, <3>3
  <2>2. /\ log' \in Seq(Events) /\ Ordered(log') /\ Covers(log', appended')
        /\ Len(log') = Len(log) + 1 /\ log'[Len(log) + 1] = e
    BY <1>1, <1>2, <1>3, <2>1, AppendKeeps
  <2>3. log' # <<>> /\ Len(log') \in Nat
    <3>1. Len(log) \in Nat
      BY <1>1
    <3>2. Len(log') \in Nat /\ Len(log') # 0
      BY <2>2, <3>1
    <3> QED
      BY <3>2
  <2>4. LogEnd' = e.seq
    BY <2>2, <2>3 DEF LogEnd
  <2> QED
    BY <1>1, <1>2, <1>3, <2>2, <2>3, <2>4 DEF LogInOrder
<1>4. CASE k # 0
  <2> DEFINE s == [i \in 1 .. k |-> Event(e.seq + i, 1)]
  <2>1. log' = s
    BY <1>4
  <2>2. /\ log' \in Seq(Events) /\ Ordered(log') /\ log' # <<>> /\ Len(log') = k
        /\ log'[k].seq = e.seq + k /\ Covers(log', appended')
    <3>1. /\ s \in Seq(Events) /\ Ordered(s) /\ s # <<>> /\ Len(s) = k /\ s[k].seq = e.seq + k
          /\ \A A \in SUBSET Nat : (\A a \in A : a <= e.seq) => Covers(s, A)
      BY <1>1, <1>4, SnapshotKeeps
    <3> HIDE DEF s
    <3>2. Covers(s, appended')
      BY <1>2, <3>1
    <3> QED
      BY <2>1, <3>1, <3>2 DEF Ordered, Covers, Has
  <2>3. LogEnd' = e.seq + k
    BY <2>2 DEF LogEnd
  <2>4. \A n \in appended' : n <= LogEnd'
    BY <1>1, <1>2, <2>3
  <2> QED
    BY <1>2, <2>2, <2>3, <2>4 DEF LogInOrder
<1> QED
  BY <1>3, <1>4

\* The ring after an append.
LEMMA RingGrows ==
  ASSUME StreamInvariant, NEW e \in Events, LogEnd < e.seq, ring' = Trimmed(Append(ring, e))
  PROVE  /\ ring' \in Seq(Events) /\ Fits(ring') /\ Ordered(ring')
         /\ Covers(ring', appended \cup {e.seq})
         /\ \A i \in DOMAIN ring' : ring'[i].seq <= e.seq
         /\ EveryEventFits => ring' # <<>>
<1> DEFINE r == Append(ring, e)
<1>1. /\ ring \in Seq(Events) /\ Ordered(ring) /\ Covers(ring, appended) /\ LogEnd \in Nat
      /\ appended \in SUBSET Nat /\ \A n \in appended : n <= LogEnd
      /\ e.seq \in Nat
      /\ \A i \in DOMAIN ring : ring[i].seq \in Nat /\ ring[i].seq <= LogEnd
  BY StreamTypes, EventTypes DEF StreamInvariant, LogInOrder, RingInOrder
<1>2. /\ \A n \in appended : n < e.seq
      /\ \A i \in DOMAIN ring : ring[i].seq < e.seq
  BY <1>1
<1>3. /\ r \in Seq(Events) /\ Ordered(r) /\ Len(r) = Len(ring) + 1
      /\ \A i \in DOMAIN r : r[i] = e \/ \E k \in DOMAIN ring : r[i] = ring[k]
      /\ Covers(r, appended \cup {e.seq})
  BY <1>1, <1>2, AppendKeeps
<1>4. r # <<>> /\ \A i \in DOMAIN r : r[i].seq <= e.seq
  BY <1>1, <1>2, <1>3
<1>5. appended \cup {e.seq} \in SUBSET Nat
  BY <1>1
<1> HIDE DEF r
<1>6. ring' = Trimmed(r)
  BY DEF r
<1> QED
  BY <1>3, <1>4, <1>5, <1>6, TrimmedKeeps

\* What was in hand stays in order when the log grows.
LEMMA ServedLater ==
  ASSUME NEW h \in HandlerState, NEW x \in ClientState, NEW s,
         NEW end \in Nat, NEW later \in Nat, Served(h, x, s, end), end <= later
  PROVE  Served(h, x, s, later)
<1>1. /\ \A i \in DOMAIN h.next : h.next[i].seq \in Nat
      /\ \A i \in DOMAIN h.ch : h.ch[i].seq \in Nat
      /\ x.last \in Nat
  BY EventTypes DEF HandlerState, ClientState
<1> QED
  BY <1>1 DEF Served

\* The loop over subs: a new event is last in the channel, or ends it.
LEMMA Delivered ==
  ASSUME StreamInvariant, NEW c \in Clients, NEW e \in Events, LogEnd < e.seq,
         NEW later \in Nat, e.seq <= later
  PROVE  LET h == Deliver(c, e)
         IN /\ h \in HandlerState /\ h.pc = handler[c].pc /\ Len(h.ch) <= Backlog
            /\ Served(h, client[c], c \in subs /\ ~ h.closed, later)
            /\ Gapless(handler[c], appended, TRUE) => Gapless(h, appended \cup {e.seq}, TRUE)
<1> DEFINE o == handler[c]
           h == Deliver(c, e)
<1>1. /\ o \in HandlerState /\ client[c] \in ClientState /\ Len(o.ch) <= Backlog
      /\ Served(o, client[c], c \in subs, LogEnd) /\ LogEnd \in Nat
      /\ appended \in SUBSET Nat /\ e.seq \in Nat
  BY HandlerTypes, EventTypes
<1>2. /\ o.next \in Seq(Events) /\ o.ch \in Seq(Events) /\ o.seq \in Nat /\ o.closed \in BOOLEAN
      /\ \A i \in DOMAIN o.next : o.next[i].seq \in Nat
      /\ \A i \in DOMAIN o.ch : o.ch[i].seq \in Nat
  <2>1. o.next \in Seq(Events) /\ o.ch \in Seq(Events) /\ o.seq \in Nat /\ o.closed \in BOOLEAN
    BY <1>1 DEF HandlerState
  <2> QED
    BY <2>1, EventTypes
<1>3. Served(o, client[c], c \in subs, later)
  <2>1. LogEnd <= later
    BY <1>1
  <2> QED
    BY <1>1, <2>1, ServedLater
<1>4. /\ \A i \in DOMAIN o.next : o.next[i].seq < e.seq
      /\ \A i \in DOMAIN o.ch : o.ch[i].seq < e.seq
      /\ o.pc \in {"catchup", "live"} => o.seq < e.seq
  BY <1>1, <1>2, SMTT(60) DEF Served, ClientState
<1>5. CASE c \notin subs
  <2>1. h = o
    BY <1>5 DEF Deliver
  <2>2. Served(h, client[c], c \in subs /\ ~ h.closed, later)
    <3>1. (c \in subs /\ ~ h.closed) = (c \in subs)
      BY <1>5
    <3> QED
      BY <1>3, <2>1, <3>1
  <2>3. ASSUME Gapless(o, appended, TRUE)
        PROVE  Gapless(h, appended \cup {e.seq}, TRUE)
    <3>1. o.pc \in {"catchup", "live"} => o.closed
      BY <1>1, <1>5 DEF Served
    <3> QED
      BY <1>4, <2>1, <2>3, <3>1 DEF Gapless
  <2> QED
    BY <1>1, <2>1, <2>2, <2>3
<1>6. CASE c \in subs /\ Len(o.ch) < Backlog
  <2>0. h = [o EXCEPT !.ch = Append(@, e)]
    BY <1>6 DEF Deliver
  <2>1. /\ Append(o.ch, e) \in Seq(Events) /\ Ordered(Append(o.ch, e))
        /\ Len(Append(o.ch, e)) = Len(o.ch) + 1
        /\ \A n : Has(Append(o.ch, e), n) <=> Has(o.ch, n) \/ n = e.seq
        /\ \A i \in DOMAIN Append(o.ch, e) :
             Append(o.ch, e)[i] = e \/ \E k \in DOMAIN o.ch : Append(o.ch, e)[i] = o.ch[k]
    BY <1>1, <1>2, <1>4, AppendKeeps, SMTT(60) DEF Served
  <2>2. /\ h \in HandlerState /\ h.pc = o.pc /\ h.next = o.next /\ h.ch = Append(o.ch, e)
        /\ h.seq = o.seq /\ h.closed = o.closed
    BY <1>1, <2>0, <2>1 DEF HandlerState
  <2>3. o.pc \in {"catchup", "live"} /\ ~ o.closed
    BY <1>1, <1>6 DEF Served
  <2> HIDE DEF h, o
  <2>4. /\ \A i \in DOMAIN h.ch : h.seq < h.ch[i].seq /\ h.ch[i].seq <= later
        /\ \A i \in DOMAIN h.next, k \in DOMAIN h.ch : h.next[i].seq < h.ch[k].seq
    BY <1>3, <1>4, <2>1, <2>2, <2>3 DEF Served
  <2>5. Served(h, client[c], TRUE, later)
    BY <1>3, <2>1, <2>2, <2>3, <2>4 DEF Served
  <2>6. Len(h.ch) <= Backlog
    <3>1. Len(o.ch) \in Nat /\ Backlog \in Nat
      BY <1>2, EventStreamConstants
    <3> QED
      BY <1>6, <2>1, <2>2, <3>1
  <2>7. ASSUME Gapless(o, appended, TRUE)
        PROVE  Gapless(h, appended \cup {e.seq}, TRUE)
    <3>1. ASSUME NEW n \in appended \cup {e.seq}, h.seq < n
          PROVE  \/ Has(h.next, n) \/ Has(h.ch, n)
      <4>1. CASE n = e.seq
        BY <2>1, <2>2, <4>1
      <4>2. CASE n \in appended
        <5>1. n < e.seq
          BY <1>1, <4>2 DEF StreamInvariant, LogInOrder
        <5> QED
          BY <2>1, <2>2, <2>3, <2>7, <3>1, <4>2, <5>1 DEF Gapless
      <4> QED
        BY <3>1, <4>1, <4>2
    <3> QED
      BY <3>1 DEF Gapless
  <2>8. (c \in subs /\ ~ h.closed) = TRUE
    BY <1>6, <2>2, <2>3
  <2> QED
    BY <2>2, <2>5, <2>6, <2>7, <2>8 DEF o, h
<1>7. CASE c \in subs /\ ~ (Len(o.ch) < Backlog)
  <2>1. h = [o EXCEPT !.closed = TRUE]
    BY <1>7 DEF Deliver
  <2>2. /\ h \in HandlerState /\ h.pc = o.pc /\ h.next = o.next /\ h.ch = o.ch
        /\ h.seq = o.seq /\ h.closed = TRUE
    BY <1>1, <2>1 DEF HandlerState
  <2>3. o.pc \in {"catchup", "live"} /\ ~ o.closed
    BY <1>1, <1>7 DEF Served
  <2> HIDE DEF h, o
  <2>4. Served(h, client[c], FALSE, later)
    BY <1>3, <2>2, <2>3 DEF Served
  <2>5. ASSUME Gapless(o, appended, TRUE)
        PROVE  Gapless(h, appended \cup {e.seq}, TRUE)
    BY <1>4, <2>2, <2>3, <2>5 DEF Gapless
  <2>6. (c \in subs /\ ~ h.closed) = FALSE
    BY <2>2
  <2> QED
    BY <1>1, <2>2, <2>4, <2>5, <2>6 DEF o, h
<1> QED
  BY <1>5, <1>6, <1>7

\* The number of the next event.
LEMMA NextEvent ==
  ASSUME StreamInvariant, up, NEW size \in Sizes
  PROVE  /\ Event(seq + 1, size) \in Events /\ Event(seq + 1, size).seq = LogEnd + 1
         /\ LogEnd \in Nat /\ LogEnd < Event(seq + 1, size).seq
         /\ \A c \in Clients : NoGap(client[c], appended)
              => NoGap(client[c], appended \cup {Event(seq + 1, size).seq})
<1>1. seq = LogEnd /\ LogEnd \in Nat /\ seq + 1 \in Nat
  BY StreamTypes DEF StreamInvariant, RingInOrder
<1>2. Event(seq + 1, size) \in Events /\ Event(seq + 1, size).seq = LogEnd + 1
  BY <1>1, EventTypes
<1>3. ASSUME NEW c \in Clients, NoGap(client[c], appended)
      PROVE  NoGap(client[c], appended \cup {LogEnd + 1})
  <2>1. client[c].last \in Nat /\ client[c].last <= LogEnd
    BY HandlerTypes DEF ClientState, Served
  <2> QED
    BY <1>1, <1>3, <2>1 DEF NoGap
<1> QED
  BY <1>1, <1>2, <1>3, SMTT(60)

\* An event is appended and delivered, and the log compacted if it is time.
LEMMA AppendStep ==
  ASSUME StreamInvariant, NEW size \in Sizes, NEW k \in Records \cup {0}, AppendEvent(size, k)
  PROVE  StreamInvariant' /\ (EveryEventFits /\ GapInvariant => GapInvariant')
<1> DEFINE e == Event(seq + 1, size)
<1>1. /\ up /\ up' = up /\ health = "ok" /\ health' = health /\ client' = client
      /\ seq' = e.seq + k /\ ring' = Trimmed(Append(ring, e)) /\ appended' = appended \cup {e.seq}
      /\ log' = IF k = 0 THEN Append(log, e) ELSE [i \in 1 .. k |-> Event(e.seq + i, 1)]
      /\ handler' = [c \in Clients |-> Deliver(c, e)]
      /\ subs' = {c \in subs : ~ handler'[c].closed}
  BY DEF AppendEvent, Publish
<1>2. /\ e \in Events /\ e.seq = LogEnd + 1 /\ LogEnd \in Nat /\ LogEnd < e.seq
      /\ \A c \in Clients : NoGap(client[c], appended) => NoGap(client[c], appended \cup {e.seq})
  BY <1>1, NextEvent
<1>3. k \in Nat /\ e.seq \in Nat /\ e.seq <= e.seq + k /\ e.seq + k \in Nat
  BY <1>2, EventStreamConstants
<1> HIDE DEF e
<1>4. /\ log' \in Seq(Events) /\ LogInOrder' /\ LogEnd' = e.seq + k
      /\ appended' \in SUBSET Nat /\ log' # <<>>
  BY <1>1, <1>2, <1>3, LogGrows
<1>5. /\ ring' \in Seq(Events) /\ Fits(ring') /\ Ordered(ring')
      /\ Covers(ring', appended \cup {e.seq})
      /\ \A i \in DOMAIN ring' : ring'[i].seq <= e.seq
      /\ EveryEventFits => ring' # <<>>
  BY <1>1, <1>2, RingGrows
<1>6. RingInOrder'
  <2>1. \A i \in DOMAIN ring' : ring'[i].seq <= LogEnd'
    <3>1. \A i \in DOMAIN ring' : ring'[i].seq \in Nat
      BY <1>5, EventTypes
    <3> QED
      BY <1>3, <1>4, <1>5, <3>1
  <2> QED
    BY <1>1, <1>4, <1>5, <2>1 DEF RingInOrder, Ordered, Covers, Has
<1>7. ASSUME NEW c \in Clients
      PROVE  /\ handler'[c] \in HandlerState /\ handler'[c].pc = handler[c].pc
             /\ Len(handler'[c].ch) <= Backlog
             /\ Served(handler'[c], client[c], c \in subs', LogEnd')
             /\ Gapless(handler[c], appended, TRUE) => Gapless(handler'[c], appended', TRUE)
  <2>1. handler'[c] = Deliver(c, e) /\ (c \in subs') = (c \in subs /\ ~ Deliver(c, e).closed)
    BY <1>1
  <2> QED
    BY <1>1, <1>2, <1>3, <1>4, <2>1, Delivered
<1>8. /\ TypeOK /\ LogInOrder /\ RingInOrder /\ client \in [Clients -> ClientState]
      /\ handler' \in [Clients -> HandlerState] /\ subs' \subseteq Clients
  BY <1>1, <1>7, StreamTypes, HandlerTypes DEF StreamInvariant, TypeOK
<1>9. TypeOK'
  BY <1>1, <1>3, <1>4, <1>5, <1>7, <1>8 DEF TypeOK, HandlerState, ClientState
<1>10. StreamInvariant'
  BY <1>1, <1>4, <1>6, <1>7, <1>9 DEF StreamInvariant
<1>11. ASSUME EveryEventFits, GapInvariant
       PROVE  GapInvariant'
  <2>1. ASSUME NEW c \in Clients
        PROVE  Gapless(handler'[c], appended', health' = "ok") /\ NoGap(client'[c], appended')
    <3>1. Gapless(handler[c], appended, health = "ok") /\ NoGap(client[c], appended)
      BY <1>11 DEF GapInvariant
    <3>2. (health = "ok") = TRUE /\ (health' = "ok") = TRUE
      BY <1>1
    <3> QED
      BY <1>1, <1>2, <1>7, <3>1, <3>2
  <2>2. ring' # <<>>
    BY <1>5, <1>11
  <2> QED
    BY <2>1, <2>2 DEF GapInvariant
<1> QED
  BY <1>10, <1>11

\* The compaction fails after an append: nobody is told, and no more is appended.
LEMMA FailedCompactionStep ==
  ASSUME StreamInvariant, NEW size \in Sizes, AppendCompactFails(size)
  PROVE  StreamInvariant' /\ (EveryEventFits /\ GapInvariant => GapInvariant')
<1> DEFINE e == Event(seq + 1, size)
<1>1. /\ up /\ up' = up /\ health = "ok" /\ health' = "poisoned" /\ client' = client
      /\ seq' = e.seq /\ ring' = Trimmed(Append(ring, e)) /\ appended' = appended \cup {e.seq}
      /\ log' = Append(log, e) /\ handler' = handler /\ subs' = subs
  BY DEF AppendCompactFails
<1>2. /\ e \in Events /\ e.seq = LogEnd + 1 /\ LogEnd \in Nat /\ LogEnd < e.seq
      /\ \A c \in Clients : NoGap(client[c], appended) => NoGap(client[c], appended \cup {e.seq})
  BY <1>1, NextEvent
<1> HIDE DEF e
<1>3. /\ log' \in Seq(Events) /\ LogInOrder' /\ LogEnd' = e.seq + 0
      /\ appended' \in SUBSET Nat /\ log' # <<>>
  BY <1>1, <1>2, LogGrows
<1>4. LogEnd' = e.seq /\ e.seq \in Nat /\ LogEnd <= e.seq
  BY <1>2, <1>3
<1>5. /\ ring' \in Seq(Events) /\ Fits(ring') /\ Ordered(ring')
      /\ Covers(ring', appended \cup {e.seq})
      /\ \A i \in DOMAIN ring' : ring'[i].seq <= e.seq
      /\ EveryEventFits => ring' # <<>>
  BY <1>1, <1>2, RingGrows
<1>6. RingInOrder'
  BY <1>1, <1>4, <1>5 DEF RingInOrder, Ordered, Covers, Has
<1>7. ASSUME NEW c \in Clients
      PROVE  Served(handler'[c], client[c], c \in subs', LogEnd')
  BY <1>1, <1>2, <1>4, HandlerTypes, ServedLater
<1>8. TypeOK'
  BY <1>1, <1>3, <1>4, <1>5 DEF StreamInvariant, TypeOK
<1>9. StreamInvariant'
  BY <1>1, <1>3, <1>6, <1>7, <1>8 DEF StreamInvariant
<1>10. ASSUME EveryEventFits, GapInvariant
       PROVE  GapInvariant'
  <2>1. ASSUME NEW c \in Clients
        PROVE  Gapless(handler[c], appended \cup {e.seq}, FALSE)
    <3>1. Gapless(handler[c], appended, TRUE)
      BY <1>1, <1>10 DEF GapInvariant
    <3>2. /\ handler[c] \in HandlerState
          /\ Served(handler[c], client[c], c \in subs, LogEnd)
      BY HandlerTypes
    <3>3. /\ handler[c].next \in Seq(Events) /\ handler[c].ch \in Seq(Events)
      BY <3>2 DEF HandlerState
    <3>4. /\ \A i \in DOMAIN handler[c].next : handler[c].next[i].seq < e.seq
          /\ \A i \in DOMAIN handler[c].ch : handler[c].ch[i].seq < e.seq
      BY <1>2, <1>4, <3>2, <3>3, EventTypes DEF Served
    <3> QED
      BY <3>1, <3>4 DEF Gapless
  <2>2. ASSUME NEW c \in Clients
        PROVE  Gapless(handler'[c], appended', health' = "ok") /\ NoGap(client'[c], appended')
    <3>1. NoGap(client[c], appended) /\ (health' = "ok") = FALSE
      BY <1>1, <1>10 DEF GapInvariant
    <3> QED
      BY <1>1, <1>2, <2>1, <3>1
  <2>3. ring' # <<>>
    BY <1>5, <1>10
  <2> QED
    BY <2>2, <2>3 DEF GapInvariant
<1> QED
  BY <1>9, <1>10

\* A crash leaves the log.
LEMMA CrashStep ==
  ASSUME StreamInvariant, Crash
  PROVE  StreamInvariant' /\ (GapInvariant => GapInvariant')
<1>1. /\ up' = FALSE /\ health' = "ok" /\ ring' = <<>> /\ seq' = 0 /\ subs' = {}
      /\ handler' = [c \in Clients |-> Off] /\ log' = log /\ appended' = appended /\ client' = client
  BY DEF Crash
<1>2. /\ TypeOK /\ LogInOrder' /\ LogEnd' = LogEnd
  BY <1>1 DEF StreamInvariant, LogInOrder, LogEnd
<1>3. ring' \in Seq(Events) /\ Fits(ring') /\ DOMAIN ring' = {}
  BY <1>1, FewBytes, EventStreamConstants DEF Fits
<1>4. RingInOrder'
  BY <1>1, <1>3 DEF RingInOrder, Ordered, Covers
<1>5. ASSUME NEW c \in Clients
      PROVE  /\ Served(handler'[c], client'[c], c \in subs', LogEnd') /\ handler'[c].pc = "off"
             /\ \A A, healthy : Gapless(handler'[c], A, healthy)
             /\ Len(handler'[c].ch) <= Backlog
  <2>1. client[c].last <= LogEnd /\ client[c] \in ClientState /\ LogEnd \in Nat
    BY HandlerTypes DEF Served
  <2>2. handler'[c] = Off /\ (c \in subs') = FALSE
    BY <1>1
  <2> QED
    BY <1>1, <1>2, <2>1, <2>2, StartStates, Idle
<1>6. handler' \in [Clients -> HandlerState]
  BY <1>1, StartStates
<1>7. TypeOK'
  BY <1>1, <1>2, <1>3, <1>5, <1>6 DEF TypeOK, HandlerState
<1>8. StreamInvariant'
  BY <1>2, <1>4, <1>5, <1>7 DEF StreamInvariant
<1>9. GapInvariant => GapInvariant'
  BY <1>1, <1>5 DEF GapInvariant
<1> QED
  BY <1>8, <1>9

\* A process that comes up, with the ring and the log it read, and what that keeps.
LEMMA ComesUp ==
  ASSUME StreamInvariant, ~ up, up' = TRUE, UNCHANGED <<health, subs, handler, appended, client>>,
         ring' \in Seq(Events), Fits(ring'), Ordered(ring'), Covers(ring', appended),
         \A i \in DOMAIN ring' : ring'[i].seq <= LogEnd',
         log' \in Seq(Events), LogInOrder', seq' = LogEnd', LogEnd' \in Nat, LogEnd <= LogEnd',
         EveryEventFits /\ ring' = <<>> => appended = {}
  PROVE  StreamInvariant' /\ (EveryEventFits /\ GapInvariant => GapInvariant')
<1>1. /\ TypeOK /\ health' = health /\ subs' = subs /\ handler' = handler
      /\ appended' = appended /\ client' = client
  BY DEF StreamInvariant
<1>2. TypeOK'
  BY <1>1 DEF TypeOK
<1>3. RingInOrder'
  BY <1>1 DEF RingInOrder, Ordered, Covers, Has
<1>4. ASSUME NEW c \in Clients
      PROVE  Served(handler'[c], client'[c], c \in subs', LogEnd')
  BY <1>1, HandlerTypes, ServedLater
<1>5. StreamInvariant'
  BY <1>2, <1>3, <1>4 DEF StreamInvariant
<1>6. EveryEventFits /\ GapInvariant => GapInvariant'
  BY <1>1 DEF GapInvariant
<1> QED
  BY <1>5, <1>6

\* A restart fills the ring from the log.
LEMMA RestartStep ==
  ASSUME StreamInvariant, Restart
  PROVE  StreamInvariant' /\ (EveryEventFits /\ GapInvariant => GapInvariant')
<1>1. /\ ~ up /\ up' = TRUE /\ ring' = Trimmed(log) /\ log' = log
      /\ seq' = IF log = <<>> THEN 0 ELSE Last(log).seq
      /\ UNCHANGED <<health, subs, handler, appended, client>>
  BY DEF Restart
<1>2. /\ log \in Seq(Events) /\ Ordered(log) /\ Covers(log, appended) /\ appended \in SUBSET Nat
      /\ log = <<>> => appended = {}
      /\ LogEnd \in Nat
  BY StreamTypes DEF StreamInvariant, LogInOrder
<1>3. LogInOrder' /\ LogEnd' = LogEnd /\ seq' = LogEnd
  BY <1>1 DEF StreamInvariant, LogInOrder, LogEnd, Last
<1>4. /\ Fits(ring') /\ ring' \in Seq(Events) /\ Ordered(ring') /\ Covers(ring', appended)
      /\ \A i \in DOMAIN ring' : \E k \in DOMAIN log : ring'[i] = log[k]
      /\ EveryEventFits /\ log # <<>> => ring' # <<>>
  BY <1>1, <1>2, TrimmedKeeps
<1>5. \A k \in DOMAIN log : log[k].seq <= LogEnd
  <2> SUFFICES ASSUME NEW k \in DOMAIN log
               PROVE  log[k].seq <= LogEnd
    OBVIOUS
  <2>1. k \in 1 .. Len(log) /\ log # <<>> /\ LogEnd = log[Len(log)].seq /\ Len(log) \in DOMAIN log
    BY <1>2, StreamTypes DEF LogEnd, StreamInvariant
  <2>2. log[k].seq \in Nat /\ (k = Len(log) \/ k < Len(log))
    BY <1>2, <2>1, EventTypes
  <2> QED
    BY <1>2, <2>1, <2>2 DEF Ordered
<1>6. \A i \in DOMAIN ring' : ring'[i].seq <= LogEnd'
  BY <1>3, <1>4, <1>5
<1> QED
  BY <1>1, <1>2, <1>3, <1>4, <1>6, ComesUp

\* One that redacts resizes the events in the ring and starts a new log.
LEMMA RedactedRestartStep ==
  ASSUME StreamInvariant, NEW k \in Records, RestartRedacted(k)
  PROVE  StreamInvariant' /\ (EveryEventFits /\ GapInvariant => GapInvariant')
<1> DEFINE read == Trimmed(log)
           Resized(size) == [i \in DOMAIN read |-> Event(read[i].seq, size[i])]
           s == [i \in 1 .. k |-> Event(LogEnd + i, 1)]
<1>1. /\ ~ up /\ up' = TRUE /\ log # <<>>
      /\ \E size \in [DOMAIN read -> Sizes] : ring' = Trimmed(Resized(size))
      /\ seq' = LogEnd + k /\ log' = s
      /\ UNCHANGED <<health, subs, handler, appended, client>>
  <2>1. log # <<>> /\ Last(log).seq = LogEnd
    BY DEF RestartRedacted, LogEnd, Last
  <2> QED
    BY <2>1 DEF RestartRedacted
<1>2. /\ log \in Seq(Events) /\ Ordered(log) /\ Covers(log, appended) /\ appended \in SUBSET Nat
      /\ LogEnd \in Nat /\ \A n \in appended : n <= LogEnd
      /\ k \in Nat \ {0}
  BY StreamTypes, EventStreamConstants DEF StreamInvariant, LogInOrder
<1>3. \A i \in DOMAIN log : log[i].seq <= LogEnd
  <2> SUFFICES ASSUME NEW i \in DOMAIN log
               PROVE  log[i].seq <= LogEnd
    OBVIOUS
  <2>1. i \in 1 .. Len(log) /\ log # <<>> /\ LogEnd = log[Len(log)].seq /\ Len(log) \in DOMAIN log
    BY <1>2, StreamTypes DEF LogEnd, StreamInvariant
  <2>2. log[i].seq \in Nat /\ (i = Len(log) \/ i < Len(log))
    BY <1>2, <2>1, EventTypes
  <2> QED
    BY <1>2, <2>1, <2>2 DEF Ordered
<1>4. PICK size \in [DOMAIN read -> Sizes] : ring' = Trimmed(Resized(size))
  BY <1>1
<1>5. /\ read \in Seq(Events) /\ Ordered(read) /\ Covers(read, appended)
      /\ \A i \in DOMAIN read : \E n \in DOMAIN log : read[i] = log[n]
      /\ EveryEventFits => read # <<>>
  BY <1>1, <1>2, TrimmedKeeps
<1> HIDE DEF read
<1>6. /\ Resized(size) \in Seq(Events) /\ Ordered(Resized(size)) /\ Len(Resized(size)) = Len(read)
      /\ \A i \in DOMAIN Resized(size) : i \in DOMAIN read /\ Resized(size)[i].seq = read[i].seq
      /\ Covers(Resized(size), appended)
  BY <1>2, <1>5, ResizedKeeps
<1> HIDE DEF Resized
<1>7. /\ Fits(ring') /\ ring' \in Seq(Events) /\ Ordered(ring') /\ Covers(ring', appended)
      /\ \A i \in DOMAIN ring' : \E n \in DOMAIN Resized(size) : ring'[i] = Resized(size)[n]
      /\ EveryEventFits /\ Resized(size) # <<>> => ring' # <<>>
  BY <1>2, <1>4, <1>6, TrimmedKeeps
<1>8. EveryEventFits => ring' # <<>>
  BY <1>5, <1>6, <1>7
<1>9. /\ s \in Seq(Events) /\ Ordered(s) /\ s # <<>> /\ Len(s) = k /\ s[k].seq = LogEnd + k
      /\ Covers(s, appended)
  BY <1>2, SnapshotKeeps
<1> HIDE DEF s
<1>10. LogEnd' = LogEnd + k /\ LogEnd' \in Nat /\ LogEnd <= LogEnd' /\ seq' = LogEnd'
  <2>1. LogEnd' = s[Len(s)].seq
    BY <1>1, <1>9 DEF LogEnd
  <2> QED
    BY <1>1, <1>2, <1>9, <2>1
<1>11. \A n \in appended : n <= LogEnd'
  BY <1>2, <1>10
<1>12. LogInOrder' /\ log' \in Seq(Events)
  BY <1>1, <1>9, <1>11 DEF LogInOrder, Ordered, Covers, Has
<1>13. \A i \in DOMAIN ring' : ring'[i].seq <= LogEnd'
  <2> SUFFICES ASSUME NEW i \in DOMAIN ring'
               PROVE  ring'[i].seq <= LogEnd'
    OBVIOUS
  <2>1. PICK n \in DOMAIN read : ring'[i].seq = read[n].seq
    BY <1>6, <1>7
  <2>2. PICK m \in DOMAIN log : read[n] = log[m]
    BY <1>5
  <2>3. log[m].seq \in Nat /\ log[m].seq <= LogEnd
    BY <1>2, <1>3, EventTypes
  <2> QED
    BY <1>2, <1>10, <2>1, <2>2, <2>3
<1> QED
  BY <1>1, <1>7, <1>8, <1>10, <1>12, <1>13, ComesUp

-----------------------------------------------------------------------------
(* Theorems *)

\* The beginning, for both invariants.
LEMMA StartsServed == Init => StreamInvariant /\ GapInvariant
<1> SUFFICES ASSUME Init PROVE StreamInvariant /\ GapInvariant
  OBVIOUS
<1>1. /\ seq = 0 /\ ring = <<>> /\ log = <<>> /\ health = "ok" /\ up = TRUE /\ subs = {}
      /\ handler = [c \in Clients |-> Off] /\ appended = {} /\ client = [c \in Clients |-> Stranger]
  BY DEF Init
<1>2. LogEnd = 0 /\ DOMAIN ring = {} /\ DOMAIN log = {} /\ ring \in Seq(Events) /\ log \in Seq(Events)
  BY <1>1 DEF LogEnd
<1>3. Fits(ring)
  BY <1>1, FewBytes, EventStreamConstants DEF Fits
<1>4. LogInOrder /\ RingInOrder
  BY <1>1, <1>2 DEF LogInOrder, RingInOrder, Ordered, Covers
<1>5. ASSUME NEW c \in Clients
      PROVE  /\ Served(handler[c], client[c], c \in subs, LogEnd)
             /\ Gapless(handler[c], appended, health = "ok")
             /\ Len(handler[c].ch) <= Backlog
             /\ NoGap(client[c], appended)
  <2>1. handler[c] = Off /\ client[c] = Stranger /\ (c \in subs) = FALSE
    BY <1>1
  <2>2. NoGap(Stranger, appended)
    BY <1>1 DEF NoGap
  <2>3. LogEnd \in Nat /\ Stranger.last <= LogEnd
    BY <1>2, StartStates
  <2>4. Served(Off, Stranger, FALSE, LogEnd) /\ Gapless(Off, appended, health = "ok") /\ Len(Off.ch) <= Backlog
    BY <2>3, StartStates, Idle
  <2> QED
    BY <2>1, <2>2, <2>4
<1>6. handler \in [Clients -> HandlerState] /\ client \in [Clients -> ClientState]
  BY <1>1, StartStates
<1>7. TypeOK
  BY <1>1, <1>2, <1>3, <1>5, <1>6 DEF TypeOK, HandlerState, ClientState
<1>8. StreamInvariant
  BY <1>1, <1>4, <1>5, <1>7 DEF StreamInvariant
<1>9. GapInvariant
  BY <1>1, <1>5 DEF GapInvariant
<1> QED
  BY <1>8, <1>9

\* Every step keeps the invariant, takes no client back, and, where every
\* event fits, leaves no gap.
LEMMA StepServes ==
  ASSUME StreamInvariant, [Next]_vars
  PROVE  /\ StreamInvariant'
         /\ EveryEventFits /\ GapInvariant => GapInvariant'
         /\ \A c \in Clients : client'[c].known /\ client[c].known /\ client'[c] # client[c] =>
              client'[c].last > client[c].last
<1>1. CASE \E size \in Sizes : AppendCompactFails(size)
  BY <1>1, FailedCompactionStep DEF AppendCompactFails
<1>2. CASE \E size \in Sizes, k \in Records \cup {0} : AppendEvent(size, k)
  BY <1>2, AppendStep DEF AppendEvent
<1>3. CASE \E c \in Clients : Connect(c) \/ Handler(c) \/ Disconnect(c)
  <2>1. PICK c \in Clients : Connect(c) \/ Handler(c) \/ Disconnect(c)
    BY <1>3
  <2>2. \E h \in HandlerState, x \in ClientState : HandlerMove(c, h, x)
    BY <2>1, HandlersMove
  <2> QED
    BY <2>2, MovesKeep
<1>4. CASE Crash
  BY <1>4, CrashStep DEF Crash
<1>5. CASE Restart
  BY <1>5, RestartStep DEF Restart
<1>6. CASE \E k \in Records : RestartRedacted(k)
  BY <1>6, RedactedRestartStep DEF RestartRedacted
<1>7. CASE UNCHANGED vars
  <2>1. /\ seq' = seq /\ ring' = ring /\ log' = log /\ health' = health /\ up' = up
        /\ subs' = subs /\ handler' = handler /\ appended' = appended /\ client' = client
    BY <1>7 DEF vars, store
  <2>2. TypeOK' /\ LogInOrder' /\ RingInOrder' /\ LogEnd' = LogEnd
    BY <2>1 DEF StreamInvariant, TypeOK, LogInOrder, RingInOrder, LogEnd
  <2>3. StreamInvariant'
    BY <2>1, <2>2 DEF StreamInvariant
  <2>4. GapInvariant => GapInvariant'
    BY <2>1 DEF GapInvariant
  <2> QED
    BY <2>1, <2>3, <2>4
<1> QED
  BY <1>1, <1>2, <1>3, <1>4, <1>5, <1>6, <1>7 DEF Next

\* Log, ring and what every handler has in hand are in order and cover what
\* was appended (appendLocked, appendRing, SubscribeFrom, events).
THEOREM Streaming == Spec => []StreamInvariant
<1>1. Init => StreamInvariant
  BY StartsServed
<1>2. StreamInvariant /\ [Next]_vars => StreamInvariant'
  BY StepServes
<1> QED
  BY <1>1, <1>2, PTL DEF Spec

\* Types, and the bounds on the ring, in events and in bytes, and on every
\* subscriber's channel.
THEOREM StreamBounds == Spec => []TypeOK
<1>1. StreamInvariant => TypeOK
  BY DEF StreamInvariant
<1> QED
  BY <1>1, Streaming, PTL

\* Store.subs is the set of the handlers that still read an open channel: no
\* send to who has left, no close of what is closed.
THEOREM OnlyReadersSubscribe == Spec => []SubscribersAreServed
<1>1. StreamInvariant => SubscribersAreServed
  <2> SUFFICES ASSUME StreamInvariant PROVE SubscribersAreServed
    OBVIOUS
  <2>1. subs \subseteq Clients
    BY DEF StreamInvariant, TypeOK
  <2>2. \A c \in Clients : c \in subs <=> handler[c].pc \in {"catchup", "live"} /\ ~ handler[c].closed
    BY HandlerTypes DEF Served
  <2> QED
    BY <2>1, <2>2 DEF SubscribersAreServed, Connected
<1> QED
  BY <1>1, Streaming, PTL

\* A client never gets an event twice, or one before another, over all its
\* connections, whatever is restarted, compacted or cut off in between.
THEOREM NothingTwice == Spec => InOrder
<1>1. StreamInvariant /\ [Next]_vars =>
        [\A c \in Clients : client'[c].known /\ client[c].known /\ client'[c] # client[c] =>
           client'[c].last > client[c].last]_client
  BY StepServes
<1> QED
  BY <1>1, Streaming, PTL DEF Spec, InOrder

\* Where every event fits into the ring, what a handler lacks is after all that
\* it will send, and is lacking only because it was cut off or an append failed.
THEOREM GapsAreLast ==
  ASSUME EveryEventFits
  PROVE  Spec => []GapInvariant
<1>1. Init => GapInvariant
  BY StartsServed
<1>2. StreamInvariant /\ GapInvariant /\ [Next]_vars => GapInvariant'
  BY StepServes, EveryEventFits
<1> QED
  BY <1>1, <1>2, Streaming, PTL DEF Spec

\* A connected handler has all that is new in its hands, until it is cut off or
\* an append has failed.
THEOREM HandlersHaveAll ==
  ASSUME EveryEventFits
  PROVE  Spec => []NothingIsMissed
<1>1. StreamInvariant /\ GapInvariant => NothingIsMissed
  <2> SUFFICES ASSUME StreamInvariant, GapInvariant, NEW c \in Clients,
                      Connected(c), ~ handler[c].closed, health = "ok",
                      NEW n \in appended, n > handler[c].seq
               PROVE  \E i \in DOMAIN (handler[c].next \o handler[c].ch) :
                        (handler[c].next \o handler[c].ch)[i].seq = n
    BY DEF NothingIsMissed
  <2>1. /\ handler[c].next \in Seq(Events) /\ handler[c].ch \in Seq(Events)
        /\ handler[c].seq \in Nat /\ appended \in SUBSET Nat
    BY HandlerTypes DEF HandlerState
  <2>2. Has(handler[c].next, n) \/ Has(handler[c].ch, n)
    <3>1. n \in Nat /\ handler[c].seq < n
      BY <2>1
    <3> QED
      BY <3>1 DEF GapInvariant, Gapless, Connected
  <2> DEFINE p == handler[c].next
             q == handler[c].ch
  <2> HIDE DEF p, q
  <2>3. p \in Seq(Events) /\ q \in Seq(Events) /\ (Has(p, n) \/ Has(q, n))
    BY <2>1, <2>2 DEF p, q
  <2>4. CASE Has(p, n)
    <3>1. PICK i \in DOMAIN p : p[i].seq = n
      BY <2>4 DEF Has
    <3>2. i \in DOMAIN (p \o q) /\ (p \o q)[i] = p[i]
      BY <2>3
    <3> QED
      BY <3>1, <3>2 DEF p, q
  <2>5. CASE Has(q, n)
    <3>1. PICK i \in DOMAIN q : q[i].seq = n
      BY <2>5 DEF Has
    <3>2. Len(p) + i \in DOMAIN (p \o q) /\ (p \o q)[Len(p) + i] = q[i]
      BY <2>3
    <3> QED
      BY <3>1, <3>2 DEF p, q
  <2> QED
    BY <2>3, <2>4, <2>5
<1> QED
  BY <1>1, Streaming, GapsAreLast, EveryEventFits, PTL

\* A client that was not told that it is too late has every event between where
\* it began and the last it got.
THEOREM GapsAreTold ==
  ASSUME EveryEventFits
  PROVE  Spec => []NoSilentGap
<1>1. GapInvariant => NoSilentGap
  BY DEF GapInvariant, NoGap, NoSilentGap
<1> QED
  BY <1>1, GapsAreLast, EveryEventFits, PTL

=============================================================================
