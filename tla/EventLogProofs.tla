---------------------------- MODULE EventLogProofs ----------------------------
(***************************************************************************)
(* Theorems about EventLog, for every value of its constants: what an open *)
(* after any crash brings back, that the numbering never falls back, that  *)
(* no header in the clear comes back, and that reads find their records.   *)
(*                                                                         *)
(* The argument has two halves.  One is about logs, without states: what   *)
(* recovery makes of an empty log, of a log with one more event, of one    *)
(* with a torn end, and of the log that a compaction writes.  The other is *)
(* about the files: at each point of an append or a compaction, which of   *)
(* them holds such a log.                                                  *)
(***************************************************************************)
EXTENDS EventLog, FiniteSetTheorems, SequenceTheorems, TLAPS

-----------------------------------------------------------------------------
(* Induction on numbers *)

\* A set with 0, and with n + 1 for each n in it, has all numbers.
LEMMA AllNumbers ==
  ASSUME NEW S, 0 \in S, \A n \in Nat : n \in S => n + 1 \in S
  PROVE  \A n \in Nat : n \in S
<1> SUFFICES ASSUME NEW w \in Nat, w \notin S
             PROVE  FALSE
  OBVIOUS
<1> DEFINE T == Nat \ S
<1>1. PICK n \in T : \A m \in T : <<m, n>> \notin OpToRel(<, Nat)
  BY NatLessThanWellFounded, WFMin
<1>2. \A m \in T : ~ (m < n)
  BY <1>1 DEF OpToRel
<1>3. n \in Nat /\ n \notin S
  BY <1>1
<1>4. n # 0
  BY <1>3
<1>5. n - 1 \in Nat /\ (n - 1) + 1 = n /\ n - 1 < n
  BY <1>3, <1>4
<1>6. n - 1 \in S
  BY <1>2, <1>5
<1> QED
  BY <1>3, <1>5, <1>6

\* The same, up to a bound.
LEMMA NumbersUpTo ==
  ASSUME NEW N \in Nat, NEW S, 0 \in S, \A n \in 0 .. N - 1 : n \in S => n + 1 \in S
  PROVE  \A n \in 0 .. N : n \in S
<1> DEFINE T == {n \in Nat : n <= N => n \in S}
<1>1. 0 \in T
  OBVIOUS
<1>2. \A n \in Nat : n \in T => n + 1 \in T
  <2> SUFFICES ASSUME NEW n \in Nat, n \in T, n + 1 <= N
               PROVE  n + 1 \in S
    OBVIOUS
  <2>1. n \in 0 .. N - 1 /\ n \in S
    OBVIOUS
  <2> QED
    BY <2>1
<1> HIDE DEF T
<1>3. \A n \in Nat : n \in T
  BY <1>1, <1>2, AllNumbers
<1> QED
  BY <1>3 DEF T

-----------------------------------------------------------------------------
(* Types *)

Records ==
  [kind: {"capture", "request", "job", "attempt", "torn"}, r: Requests, seq: Nat,
   snapshot: BOOLEAN, request: BOOLEAN, job: JobStates, attempt: 0 .. MaxAttempts,
   evicted: SUBSET Requests, plain: BOOLEAN]

States ==
  [seq: Nat, count: Nat, requests: SUBSET Requests, plain: SUBSET Requests,
   job: [Requests -> JobStates], attempts: [Requests -> 0 .. MaxAttempts], ref: [Keys -> Nat]]

Progress == [n: Nat, ok: BOOLEAN, mutated: BOOLEAN, state: States]

Files == [Names -> [log: Seq(Records), synced: Nat]]

\* What recovery starts from.
LEMMA FreshTypes ==
  /\ Empty \in States /\ Empty.seq = 0 /\ Empty.requests = {} /\ Empty.plain = {}
  /\ \A q \in Requests : Empty.job[q] = "none" /\ Empty.attempts[q] = 0
  /\ Fresh \in Progress /\ Fresh.n = 0 /\ Fresh.ok = TRUE /\ Fresh.mutated = FALSE
  /\ Fresh.state = Empty
<1>1. MaxAttempts \in Nat
  BY EventLogConstants
<1> QED
  BY <1>1 DEF Empty, Fresh, States, Progress, JobStates

\* A record changes the fields of a state as apply does.
LEMMA ApplyTypes ==
  ASSUME NEW t \in States, NEW e \in Records, NEW n \in Nat
  PROVE  LET a == Apply(t, e, n)
             kept == t.requests \ e.evicted
             new == IF e.request THEN {e.r} ELSE {}
         IN /\ a \in States /\ a.seq = e.seq /\ a.count = t.count
            /\ a.requests = kept \cup new
            /\ a.plain = (t.plain \cap kept) \cup (IF e.plain THEN new ELSE {})
            /\ \A q \in Requests :
                 /\ a.job[q] = IF q = e.r /\ e.job # "none" THEN e.job
                               ELSE IF q \in e.evicted THEN "none" ELSE t.job[q]
                 /\ a.attempts[q] = IF q = e.r /\ e.attempt # 0 THEN e.attempt
                                    ELSE IF q \in e.evicted THEN 0 ELSE t.attempts[q]
            /\ \A k \in Keys :
                 a.ref[k] = IF Holds(e, k) THEN n
                            ELSE IF k[1] \in e.evicted THEN 0 ELSE t.ref[k]
<1>1. /\ t.requests \in SUBSET Requests /\ t.plain \in SUBSET Requests
      /\ t.job \in [Requests -> JobStates] /\ t.attempts \in [Requests -> 0 .. MaxAttempts]
      /\ t.ref \in [Keys -> Nat] /\ t.count \in Nat
  BY DEF States
<1>2. /\ e.r \in Requests /\ e.seq \in Nat /\ e.job \in JobStates /\ e.attempt \in 0 .. MaxAttempts
  BY DEF Records
<1>3. "none" \in JobStates /\ 0 \in 0 .. MaxAttempts
  BY EventLogConstants DEF JobStates
<1> DEFINE kept == t.requests \ e.evicted
           new == IF e.request THEN {e.r} ELSE {}
           rs == kept \cup new
           pl == (t.plain \cap kept) \cup (IF e.plain THEN new ELSE {})
           jb == [q \in Requests |-> IF q = e.r /\ e.job # "none" THEN e.job
                                     ELSE IF q \in e.evicted THEN "none" ELSE t.job[q]]
           at == [q \in Requests |-> IF q = e.r /\ e.attempt # 0 THEN e.attempt
                                     ELSE IF q \in e.evicted THEN 0 ELSE t.attempts[q]]
           rf == [k \in Keys |-> IF Holds(e, k) THEN n
                                 ELSE IF k[1] \in e.evicted THEN 0 ELSE t.ref[k]]
<1>4. Apply(t, e, n) = [t EXCEPT !.seq = e.seq, !.requests = rs, !.plain = pl, !.job = jb,
                                 !.attempts = at, !.ref = rf]
  BY DEF Apply
<1>5. rs \in SUBSET Requests /\ pl \in SUBSET Requests
  BY <1>1, <1>2
<1>6. jb \in [Requests -> JobStates]
  BY <1>1, <1>2, <1>3
<1>7. at \in [Requests -> 0 .. MaxAttempts]
  BY <1>1, <1>2, <1>3
<1>8. rf \in [Keys -> Nat]
  BY <1>1
<1> HIDE DEF rs, pl, jb, at, rf
<1>9. /\ Apply(t, e, n) \in States
      /\ Apply(t, e, n).seq = e.seq /\ Apply(t, e, n).count = t.count
      /\ Apply(t, e, n).requests = rs /\ Apply(t, e, n).plain = pl
      /\ Apply(t, e, n).job = jb /\ Apply(t, e, n).attempts = at /\ Apply(t, e, n).ref = rf
  BY <1>2, <1>4, <1>5, <1>6, <1>7, <1>8 DEF States
<1> QED
  BY <1>9 DEF rs, pl, jb, at, rf

\* What apply makes of what is kept.
Applied(a, t, e) ==
  /\ a.requests = (t.requests \ e.evicted) \cup (IF e.request THEN {e.r} ELSE {})
  /\ \A q \in Requests :
       /\ a.job[q] = IF q = e.r /\ e.job # "none" THEN e.job
                     ELSE IF q \in e.evicted THEN "none" ELSE t.job[q]
       /\ a.attempts[q] = IF q = e.r /\ e.attempt # 0 THEN e.attempt
                          ELSE IF q \in e.evicted THEN 0 ELSE t.attempts[q]

LEMMA ApplyKept ==
  ASSUME NEW t \in States, NEW e \in Records, NEW n \in Nat, NEW a, a = Apply(t, e, n)
  PROVE  a \in States /\ Applied(a, t, e)
BY ApplyTypes DEF Applied

\* One more record, for recovery.
LEMMA RecordTypes ==
  ASSUME NEW acc \in Progress, NEW e \in Records
  PROVE  /\ RecoverRecord(acc, e) \in Progress
         /\ RecoverRecord(acc, e).n = acc.n + 1
         /\ RecoverRecord(acc, e).ok => acc.ok /\ e.kind # "torn"
<1>1. acc.n + 1 \in Nat /\ acc.state \in States /\ acc.ok \in BOOLEAN /\ acc.mutated \in BOOLEAN
  BY DEF Progress
<1>2. e.snapshot \in BOOLEAN
  BY DEF Records
<1> DEFINE a == Apply(acc.state, e, acc.n + 1)
<1>3. a \in States /\ a.count = acc.state.count /\ acc.state.count \in Nat
  BY <1>1, ApplyTypes DEF States
<1> HIDE DEF a
<1>4. [a EXCEPT !.count = @ + (IF e.snapshot THEN 0 ELSE 1)] \in States
  <2>1. a.count + (IF e.snapshot THEN 0 ELSE 1) \in Nat
    BY <1>3
  <2> QED
    BY <1>3, <2>1 DEF States
<1> QED
  BY <1>1, <1>2, <1>4 DEF RecoverRecord, Progress, a

-----------------------------------------------------------------------------
(* Recovery, record by record *)

\* The loop of recover comes to an end with its last record.
LEMMA ReplaySteps ==
  ASSUME NEW log \in Seq(Records)
  PROVE  \E g \in [0 .. Len(log) -> Progress] :
           /\ g[0] = Fresh
           /\ \A n \in 1 .. Len(log) : g[n] = RecoverRecord(g[n - 1], log[n])
           /\ Replayed(log) = g[Len(log)]
<1> DEFINE Rec(g, N) == g = [m \in 0 .. N |-> IF m = 0 THEN Fresh
                                              ELSE RecoverRecord(g[m - 1], log[m])]
           S == {N \in Nat : \E g : Rec(g, N)}
           after == CHOOSE g : g = [m \in 0 .. Len(log) |-> IF m = 0 THEN Fresh
                                              ELSE RecoverRecord(g[m - 1], log[m])]
<1>1. 0 \in S
  <2> DEFINE g == [m \in 0 .. 0 |-> Fresh]
  <2>1. Rec(g, 0)
    <3>1. \A m \in 0 .. 0 : m = 0
      OBVIOUS
    <3> QED
      BY <3>1
  <2> QED
    BY <2>1
<1>2. ASSUME NEW N \in Nat, N \in S
      PROVE  N + 1 \in S
  <2>1. PICK g : Rec(g, N)
    BY <1>2
  <2> DEFINE h == [m \in 0 .. N + 1 |-> IF m = N + 1 THEN RecoverRecord(g[N], log[N + 1])
                                        ELSE g[m]]
  <2>2. \A m \in 0 .. N : h[m] = g[m]
    OBVIOUS
  <2>3. ASSUME NEW m \in 0 .. N + 1
        PROVE  h[m] = IF m = 0 THEN Fresh ELSE RecoverRecord(h[m - 1], log[m])
    <3>1. CASE m = N + 1
      <4>1. h[m] = RecoverRecord(g[N], log[N + 1]) /\ m # 0 /\ m - 1 = N /\ h[N] = g[N]
        BY <3>1, <2>2
      <4> QED
        BY <3>1, <4>1
    <3>2. CASE m \in 0 .. N
      <4>1. h[m] = IF m = 0 THEN Fresh ELSE RecoverRecord(g[m - 1], log[m])
        BY <2>1, <2>2, <3>2
      <4>2. m # 0 => m - 1 \in 0 .. N
        BY <3>2
      <4> QED
        BY <2>2, <4>1, <4>2
    <3> QED
      BY <3>1, <3>2
  <2>4. Rec(h, N + 1)
    BY <2>3
  <2>5. \E k : Rec(k, N + 1)
    BY <2>4
  <2>6. N + 1 \in Nat
    OBVIOUS
  <2> QED
    BY <2>5, <2>6
<1> HIDE DEF S
<1>3. Len(log) \in S
  BY <1>1, <1>2, AllNumbers
<1>4. Rec(after, Len(log))
  <2>1. \E g : Rec(g, Len(log))
    BY <1>3 DEF S
  <2> QED
    BY <2>1
<1>5. Replayed(log) = after[Len(log)]
  BY DEF Replayed, after
<1> HIDE DEF after
<1>6. /\ after[0] = Fresh /\ DOMAIN after = 0 .. Len(log)
      /\ \A n \in 1 .. Len(log) : after[n] = RecoverRecord(after[n - 1], log[n])
  BY <1>4
<1> DEFINE T == {n \in 0 .. Len(log) : after[n] \in Progress}
<1>7. \A n \in 0 .. Len(log) : n \in T
  <2>1. 0 \in T
    BY <1>6, FreshTypes
  <2>2. \A n \in 0 .. Len(log) - 1 : n \in T => n + 1 \in T
    <3> SUFFICES ASSUME NEW n \in 0 .. Len(log) - 1, n \in T
                 PROVE  n + 1 \in T
      OBVIOUS
    <3>1. n + 1 \in 1 .. Len(log) /\ (n + 1) - 1 = n /\ log[n + 1] \in Records
      OBVIOUS
    <3>2. after[n + 1] = RecoverRecord(after[n], log[n + 1])
      BY <1>6, <3>1
    <3> QED
      BY <3>1, <3>2, RecordTypes
  <2> HIDE DEF T
  <2> QED
    BY <2>1, <2>2, NumbersUpTo
<1>8. after \in [0 .. Len(log) -> Progress]
  BY <1>4, <1>7
<1> QED
  BY <1>5, <1>6, <1>8

\* Nothing, and one record more.
LEMMA ReplayAppend ==
  /\ Replayed(<<>>) = Fresh
  /\ \A L \in Seq(Records), e \in Records :
       /\ Replayed(L) \in Progress
       /\ Replayed(Append(L, e)) = RecoverRecord(Replayed(L), e)
<1>1. Replayed(<<>>) = Fresh
  <2>1. <<>> \in Seq(Records) /\ Len(<<>>) = 0
    OBVIOUS
  <2> QED
    BY <2>1, ReplaySteps
<1>2. ASSUME NEW L \in Seq(Records), NEW e \in Records
      PROVE  /\ Replayed(L) \in Progress
             /\ Replayed(Append(L, e)) = RecoverRecord(Replayed(L), e)
  <2> DEFINE M == Append(L, e)
             N == Len(L)
  <2>1. /\ M \in Seq(Records) /\ Len(M) = N + 1 /\ M[N + 1] = e /\ N \in Nat
        /\ \A n \in 1 .. N : M[n] = L[n]
    OBVIOUS
  <2> HIDE DEF M
  <2>2. PICK g \in [0 .. N + 1 -> Progress] :
          /\ g[0] = Fresh
          /\ \A n \in 1 .. N + 1 : g[n] = RecoverRecord(g[n - 1], M[n])
          /\ Replayed(M) = g[N + 1]
    BY <2>1, ReplaySteps
  <2>3. PICK h \in [0 .. N -> Progress] :
          /\ h[0] = Fresh
          /\ \A n \in 1 .. N : h[n] = RecoverRecord(h[n - 1], L[n])
          /\ Replayed(L) = h[N]
    BY ReplaySteps
  <2> HIDE DEF N
  <2> DEFINE T == {n \in 0 .. N : g[n] = h[n]}
  <2>4. \A n \in 0 .. N : n \in T
    <3>1. 0 \in T
      BY <2>1, <2>2, <2>3
    <3>2. \A n \in 0 .. N - 1 : n \in T => n + 1 \in T
      <4> SUFFICES ASSUME NEW n \in 0 .. N - 1, n \in T
                   PROVE  n + 1 \in T
        OBVIOUS
      <4>1. n + 1 \in 1 .. N /\ n + 1 \in 1 .. N + 1 /\ n + 1 \in 0 .. N /\ (n + 1) - 1 = n
        BY <2>1
      <4>2. g[n + 1] = RecoverRecord(g[n], M[n + 1]) /\ h[n + 1] = RecoverRecord(h[n], L[n + 1])
        BY <2>2, <2>3, <4>1
      <4> QED
        BY <2>1, <4>1, <4>2
    <3> HIDE DEF T
    <3> QED
      BY <2>1, <3>1, <3>2, NumbersUpTo
  <2>5. g[N] = h[N] /\ h[N] \in Progress
    BY <2>1, <2>3, <2>4
  <2>6. g[N + 1] = RecoverRecord(g[N], M[N + 1])
    <3>1. N + 1 \in 1 .. N + 1 /\ (N + 1) - 1 = N
      BY <2>1
    <3> QED
      BY <2>2, <3>1
  <2> QED
    BY <2>1, <2>2, <2>3, <2>5, <2>6 DEF M
<1> QED
  BY <1>1, <1>2

\* A state that came from a log: what is not retained has no job, no attempts
\* and no header.
WellKept(t) ==
  /\ t \in States /\ IsFiniteSet(t.requests)
  /\ \A q \in Requests \ t.requests : t.job[q] = "none" /\ t.attempts[q] = 0
  /\ t.plain \subseteq t.requests
  /\ t.seq # 0 => t.requests # {}

\* Every object retained in t is in the log where t says.
RefsHold(log, t) ==
  \A q \in t.requests : \A i \in 0 .. t.attempts[q] :
    t.ref[<<q, i>>] \in DOMAIN log /\ Holds(log[t.ref[<<q, i>>]], <<q, i>>)

NoTorn(log) == \A n \in DOMAIN log : log[n].kind # "torn"

\* A log that recovery accepts whole.
Sound(log) ==
  /\ log \in Seq(Records) /\ NoTorn(log)
  /\ Replayed(log).ok /\ Replayed(log).n = Len(log)
  /\ WellKept(Replayed(log).state) /\ RefsHold(log, Replayed(log).state)
  /\ log # <<>> => Replayed(log).state.seq # 0

\* What the operations of the store take care of before they append e.
Joins(t, e) ==
  /\ ValidState(t, e) /\ e.kind # "torn" /\ e.seq # 0
  /\ e.r \notin e.evicted
  /\ e.evicted # {} => e.request
  /\ e.request \/ e.job # "none" \/ e.attempt # 0
  /\ e.attempt # 0 => e.attempt = t.attempts[e.r] + 1

Follows(acc, e) ==
  /\ Joins(acc.state, e)
  /\ acc.state.seq = 0 \/ e.seq = acc.state.seq + 1
  /\ ~ (e.snapshot /\ acc.mutated)

\* Keys of what is retained.
LEMMA KeyTypes ==
  ASSUME NEW q \in Requests, NEW a \in 0 .. MaxAttempts, NEW i \in 0 .. a
  PROVE  <<q, i>> \in Keys /\ i \in Nat /\ i \in 0 .. MaxAttempts
<1>1. MaxAttempts \in Nat
  BY EventLogConstants
<1>2. i \in Nat /\ i \in 0 .. MaxAttempts
  BY <1>1
<1> QED
  BY <1>2 DEF Keys

\* Such an event keeps a state well-formed, and its references right.
LEMMA ApplyJoins ==
  ASSUME NEW L \in Seq(Records), NEW t, WellKept(t), RefsHold(L, t),
         NEW e \in Records, Joins(t, e)
  PROVE  /\ WellKept(Apply(t, e, Len(L) + 1))
         /\ RefsHold(Append(L, e), Apply(t, e, Len(L) + 1))
         /\ e.r \in Apply(t, e, Len(L) + 1).requests
<1> DEFINE n == Len(L) + 1
           a == Apply(t, e, n)
           kept == t.requests \ e.evicted
           new == IF e.request THEN {e.r} ELSE {}
<1>1. /\ t \in States /\ t.requests \in SUBSET Requests /\ t.attempts \in [Requests -> 0 .. MaxAttempts]
      /\ t.plain \subseteq t.requests
  BY DEF WellKept, States
<1>2. /\ e.r \in Requests /\ e.attempt \in 0 .. MaxAttempts /\ e.evicted \in SUBSET Requests
      /\ MaxAttempts \in Nat
  BY EventLogConstants DEF Records
<1>3. n \in Nat
  OBVIOUS
<1>4. /\ a \in States /\ a.seq = e.seq
      /\ a.requests = kept \cup new
      /\ a.plain = (t.plain \cap kept) \cup (IF e.plain THEN new ELSE {})
      /\ \A q \in Requests :
           /\ a.job[q] = IF q = e.r /\ e.job # "none" THEN e.job
                         ELSE IF q \in e.evicted THEN "none" ELSE t.job[q]
           /\ a.attempts[q] = IF q = e.r /\ e.attempt # 0 THEN e.attempt
                              ELSE IF q \in e.evicted THEN 0 ELSE t.attempts[q]
      /\ \A k \in Keys :
           a.ref[k] = IF Holds(e, k) THEN n ELSE IF k[1] \in e.evicted THEN 0 ELSE t.ref[k]
  BY <1>1, <1>3, ApplyTypes
<1> HIDE DEF a, n
<1>5. e.r \in a.requests
  BY <1>4 DEF Joins, ValidState
<1>6. IsFiniteSet(a.requests)
  <2>1. IsFiniteSet(kept)
    BY FS_Difference DEF WellKept
  <2>2. IsFiniteSet(kept \cup {e.r})
    BY <2>1, FS_AddElement
  <2> QED
    BY <1>4, <2>1, <2>2
<1>7. \A q \in Requests \ a.requests : a.job[q] = "none" /\ a.attempts[q] = 0
  <2> SUFFICES ASSUME NEW q \in Requests \ a.requests
               PROVE  a.job[q] = "none" /\ a.attempts[q] = 0
    OBVIOUS
  <2>1. q # e.r /\ (q \in e.evicted \/ q \notin t.requests)
    BY <1>4, <1>5
  <2> QED
    BY <1>4, <2>1 DEF WellKept
<1>8. a.plain \subseteq a.requests
  BY <1>4
<1>9. WellKept(a)
  BY <1>4, <1>5, <1>6, <1>7, <1>8 DEF WellKept
<1>10. ASSUME NEW q \in a.requests, NEW i \in 0 .. a.attempts[q]
       PROVE  a.ref[<<q, i>>] \in DOMAIN Append(L, e) /\ Holds(Append(L, e)[a.ref[<<q, i>>]], <<q, i>>)
  <2>1. q \in Requests /\ a.attempts[q] \in 0 .. MaxAttempts
    BY <1>4 DEF States
  <2>2. <<q, i>> \in Keys /\ i \in Nat /\ <<q, i>>[1] = q
    BY <2>1, KeyTypes
  <2>3. /\ DOMAIN Append(L, e) = 1 .. n /\ Append(L, e)[n] = e /\ n \in 1 .. n
        /\ \A m \in DOMAIN L : m \in DOMAIN Append(L, e) /\ Append(L, e)[m] = L[m]
    BY DEF n
  <2>4. CASE Holds(e, <<q, i>>)
    BY <1>4, <2>2, <2>3, <2>4
  <2>5. CASE ~ Holds(e, <<q, i>>)
    <3>1. q \notin e.evicted
      BY <1>4, <1>5 DEF Joins
    <3>2. q \in t.requests /\ i \in 0 .. t.attempts[q]
      <4>1. CASE q = e.r
        <5>1. ~ (e.request /\ i = 0) /\ ~ (e.attempt # 0 /\ i = e.attempt)
          BY <2>5, <4>1 DEF Holds
        <5>2. t.attempts[q] \in Nat /\ e.attempt \in Nat
          BY <1>1, <1>2, <2>1
        <5>3. i \in 0 .. t.attempts[q]
          <6>1. CASE e.attempt # 0
            BY <1>4, <2>1, <2>2, <4>1, <5>1, <5>2, <6>1 DEF Joins
          <6>2. CASE e.attempt = 0
            BY <1>4, <2>1, <3>1, <6>2
          <6> QED
            BY <6>1, <6>2
        <5>4. CASE e.request
          <6>1. t.attempts[q] = 0
            BY <1>2, <4>1, <5>4 DEF Joins, ValidState, WellKept
          <6> QED
            BY <5>1, <5>3, <5>4, <6>1
        <5>5. CASE ~ e.request
          BY <1>4, <4>1, <5>3, <5>5
        <5> QED
          BY <5>4, <5>5
      <4>2. CASE q # e.r
        BY <1>4, <2>1, <3>1, <4>2
      <4> QED
        BY <4>1, <4>2
    <3>3. a.ref[<<q, i>>] = t.ref[<<q, i>>]
      BY <1>4, <2>2, <2>5, <3>1
    <3>4. t.ref[<<q, i>>] \in DOMAIN L /\ Holds(L[t.ref[<<q, i>>]], <<q, i>>)
      BY <3>2 DEF RefsHold
    <3> QED
      BY <2>3, <3>3, <3>4
  <2> QED
    BY <2>4, <2>5
<1>11. RefsHold(Append(L, e), a)
  BY <1>10 DEF RefsHold
<1> QED
  BY <1>5, <1>9, <1>11 DEF a, n

\* The number of events since the last compaction is nothing to a restart.
LEMMA Recounted ==
  ASSUME NEW t \in States, NEW c \in Nat
  PROVE  LET u == [t EXCEPT !.count = c]
         IN /\ u \in States /\ u.seq = t.seq /\ u.requests = t.requests /\ u.plain = t.plain
            /\ u.job = t.job /\ u.attempts = t.attempts /\ u.ref = t.ref /\ Kept(u) = Kept(t)
            /\ WellKept(t) => WellKept(u)
            /\ \A L : RefsHold(L, t) => RefsHold(L, u)
<1> DEFINE u == [t EXCEPT !.count = c]
<1>1. /\ u \in States /\ u.seq = t.seq /\ u.requests = t.requests /\ u.plain = t.plain
      /\ u.job = t.job /\ u.attempts = t.attempts /\ u.ref = t.ref
  BY DEF States
<1> HIDE DEF u
<1>2. Kept(u) = Kept(t)
  BY <1>1 DEF Kept
<1>3. WellKept(t) => WellKept(u)
  BY <1>1 DEF WellKept
<1>4. \A L : RefsHold(L, t) => RefsHold(L, u)
  BY <1>1 DEF RefsHold
<1> QED
  BY <1>1, <1>2, <1>3, <1>4 DEF u

\* A sound log with an event that follows is sound.
LEMMA SoundAppend ==
  ASSUME NEW L, Sound(L), NEW e \in Records, Follows(Replayed(L), e)
  PROVE  LET r == Replayed(Append(L, e))
             a == Apply(Replayed(L).state, e, Len(L) + 1)
         IN /\ Sound(Append(L, e))
            /\ r.mutated = (Replayed(L).mutated \/ ~ e.snapshot)
            /\ r.state.seq = e.seq /\ r.state.requests = a.requests /\ r.state.job = a.job
            /\ r.state.attempts = a.attempts /\ Kept(r.state) = Kept(a)
<1> DEFINE acc == Replayed(L)
           n == acc.n + 1
           a == Apply(acc.state, e, Len(L) + 1)
           c == a.count + (IF e.snapshot THEN 0 ELSE 1)
           u == [a EXCEPT !.count = c]
           r == Replayed(Append(L, e))
<1>1. /\ L \in Seq(Records) /\ acc \in Progress /\ r = RecoverRecord(acc, e)
      /\ acc.ok /\ n = Len(L) + 1 /\ WellKept(acc.state) /\ RefsHold(L, acc.state)
      /\ Len(L) \in Nat
  BY ReplayAppend DEF Sound
<1>2. Joins(acc.state, e)
  BY DEF Follows
<1>3. /\ WellKept(a) /\ RefsHold(Append(L, e), a) /\ a \in States
  BY <1>1, <1>2, ApplyJoins DEF WellKept
<1>4. c \in Nat
  BY <1>3 DEF States
<1>5. /\ e.kind # "torn"
      /\ e.seq # 0 /\ (acc.state.seq = 0 \/ e.seq = acc.state.seq + 1)
      /\ ValidState(acc.state, e) /\ ~ (e.snapshot /\ acc.mutated)
  BY <1>2 DEF Follows, Joins
<1>6. r.n = n /\ r.ok = TRUE /\ r.mutated = (acc.mutated \/ ~ e.snapshot) /\ r.state = u
  <2>1. acc.ok = TRUE /\ acc.mutated \in BOOLEAN /\ acc.n + 1 = Len(L) + 1
    BY <1>1 DEF Progress
  <2>2. RecoverRecord(acc, e).state = [Apply(acc.state, e, Len(L) + 1) EXCEPT
                                         !.count = @ + (IF e.snapshot THEN 0 ELSE 1)]
    BY <1>5, <2>1 DEF RecoverRecord
  <2>3. /\ RecoverRecord(acc, e).n = n /\ RecoverRecord(acc, e).ok = TRUE
        /\ RecoverRecord(acc, e).mutated = (acc.mutated \/ ~ e.snapshot)
    BY <1>5, <2>1 DEF RecoverRecord
  <2> QED
    BY <1>1, <2>2, <2>3
<1> HIDE DEF u, c
<1>7. /\ u \in States /\ u.seq = a.seq /\ u.requests = a.requests /\ u.job = a.job
      /\ u.attempts = a.attempts /\ Kept(u) = Kept(a) /\ WellKept(u) /\ RefsHold(Append(L, e), u)
  BY <1>3, <1>4, Recounted DEF u
<1>8. a.seq = e.seq
  BY <1>1, ApplyTypes DEF WellKept
<1> HIDE DEF a, acc, n, r
<1>9. Append(L, e) \in Seq(Records) /\ Len(Append(L, e)) = n
  BY <1>1
<1>10. NoTorn(Append(L, e))
  <2>1. \A m \in DOMAIN Append(L, e) : Append(L, e)[m] = e \/ \E k \in DOMAIN L : Append(L, e)[m] = L[k]
    BY <1>1
  <2> QED
    BY <1>5, <2>1 DEF NoTorn, Sound
<1>11. u.seq # 0
  BY <1>5, <1>7, <1>8
<1>12. Sound(Append(L, e))
  BY <1>6, <1>7, <1>9, <1>10, <1>11 DEF Sound, r
<1> QED
  BY <1>6, <1>7, <1>8, <1>12 DEF a, acc, r

\* No log at all is sound.
LEMMA NothingSound == Sound(<<>>) /\ Replayed(<<>>) = Fresh
<1>1. /\ Replayed(<<>>) = Fresh /\ <<>> \in Seq(Records) /\ Len(<<>>) = 0 /\ DOMAIN <<>> = {}
  BY ReplayAppend
<1>2. IsFiniteSet({})
  BY FS_EmptySet
<1>3. WellKept(Empty) /\ RefsHold(<<>>, Empty)
  BY <1>2, FreshTypes DEF WellKept, RefsHold
<1> QED
  BY <1>1, <1>3, FreshTypes DEF Sound, NoTorn

\* A torn record is cut off when it is the last one.
LEMMA TornCut ==
  ASSUME NEW L \in Seq(Records), NoTorn(L)
  PROVE  /\ WholeRecords(L) = L
         /\ \A e \in Records : e.kind = "torn" => WholeRecords(Append(L, e)) = L
<1>1. WholeRecords(L) = L
  <2>1. CASE L = <<>>
    BY <2>1 DEF WholeRecords
  <2>2. CASE L # <<>>
    <3>1. Len(L) \in DOMAIN L
      BY <2>2
    <3> QED
      BY <3>1 DEF WholeRecords, Last, NoTorn
  <2> QED
    BY <2>1, <2>2
<1>2. ASSUME NEW e \in Records, e.kind = "torn"
      PROVE  WholeRecords(Append(L, e)) = L
  <2> DEFINE M == Append(L, e)
  <2>1. M # <<>> /\ Len(M) = Len(L) + 1 /\ M[Len(M)] = e /\ Len(L) \in Nat
    OBVIOUS
  <2>2. SubSeq(M, 1, Len(M) - 1) = L
    <3>1. /\ SubSeq(M, 1, Len(L)) \in Seq(Records) /\ Len(SubSeq(M, 1, Len(L))) = Len(L)
          /\ \A i \in 1 .. Len(L) : SubSeq(M, 1, Len(L))[i] = L[i]
      BY <2>1
    <3>2. SubSeq(M, 1, Len(L)) = L
      BY <3>1
    <3> QED
      BY <2>1, <3>2
  <2> QED
    BY <1>2, <2>1, <2>2 DEF WholeRecords, Last, Front
<1> QED
  BY <1>1, <1>2

\* What an event does to what is kept depends on nothing else.
LEMMA KeptApply ==
  ASSUME NEW t \in States, NEW u \in States, Kept(t) = Kept(u), NEW e \in Records,
         NEW m \in Nat, NEW n \in Nat
  PROVE  /\ Kept(Apply(t, e, m)) = Kept(Apply(u, e, n))
         /\ Joins(t, e) <=> Joins(u, e)
         /\ ValidState(t, e) <=> ValidState(u, e)
<1>1. t.requests = u.requests /\ t.job = u.job /\ t.attempts = u.attempts
  BY DEF Kept
<1>2. /\ Joins(t, e) <=> Joins(u, e)
      /\ ValidState(t, e) <=> ValidState(u, e)
  BY <1>1 DEF Joins, ValidState
<1>3. Kept(Apply(t, e, m)) = Kept(Apply(u, e, n))
  <2> DEFINE a == Apply(t, e, m)
             b == Apply(u, e, n)
  <2>1. a \in States /\ Applied(a, t, e)
    BY ApplyKept
  <2>2. b \in States /\ Applied(b, u, e)
    BY ApplyKept
  <2> HIDE DEF a, b
  <2>3. /\ a.requests = b.requests /\ a \in States /\ b \in States
        /\ \A q \in Requests : a.job[q] = b.job[q] /\ a.attempts[q] = b.attempts[q]
    BY <1>1, <2>1, <2>2 DEF Applied
  <2>4. a.job = b.job /\ a.attempts = b.attempts
    BY <2>3 DEF States
  <2> QED
    BY <2>3, <2>4 DEF Kept, a, b
<1> QED
  BY <1>2, <1>3

-----------------------------------------------------------------------------
(* The log that a compaction writes *)

\* The records x, as snapshotRecordsLocked numbers them after number b.
InSnapshot(e, n) == [e EXCEPT !.seq = n, !.snapshot = TRUE]

NumberedFrom(b, x) == [i \in DOMAIN x |-> InSnapshot(x[i], b + i)]

\* What t keeps of the requests D ...
Part(t, D) ==
  [t EXCEPT !.requests = D,
            !.job = [q \in Requests |-> IF q \in D THEN t.job[q] ELSE "none"],
            !.attempts = [q \in Requests |-> IF q \in D THEN t.attempts[q] ELSE 0]]

\* ... and of r, with the job j and the attempts up to a.
PartOf(t, D, r, j, a) ==
  [t EXCEPT !.requests = D \cup {r},
            !.job = [q \in Requests |-> IF q = r THEN j ELSE IF q \in D THEN t.job[q] ELSE "none"],
            !.attempts = [q \in Requests |->
                            IF q = r THEN a ELSE IF q \in D THEN t.attempts[q] ELSE 0]]

\* The records x of a snapshot of t bring back what u keeps.
Copies(t, x, u) ==
  LET r == Replayed(NumberedFrom(t.seq, x))
  IN /\ x \in Seq(Records) /\ Sound(NumberedFrom(t.seq, x))
     /\ r.mutated = FALSE
     /\ r.state.seq = IF x = <<>> THEN 0 ELSE t.seq + Len(x)
     /\ Kept(r.state) = Kept(u)
     /\ \A n \in DOMAIN x : x[n].plain => x[n].r \in t.plain

\* Numbering a log with one more record.
LEMMA NumberedAppend ==
  ASSUME NEW b \in Nat, NEW x \in Seq(Records), NEW e \in Records
  PROVE  LET d == InSnapshot(e, b + (Len(x) + 1))
         IN /\ d \in Records /\ NumberedFrom(b, x) \in Seq(Records)
            /\ Len(NumberedFrom(b, x)) = Len(x)
            /\ NumberedFrom(b, Append(x, e)) = Append(NumberedFrom(b, x), d)
            /\ d.seq = b + (Len(x) + 1) /\ d.snapshot
            /\ d.kind = e.kind /\ d.r = e.r /\ d.request = e.request /\ d.job = e.job
            /\ d.attempt = e.attempt /\ d.evicted = e.evicted /\ d.plain = e.plain
<1> DEFINE d == InSnapshot(e, b + (Len(x) + 1))
           N == NumberedFrom(b, x)
           M == NumberedFrom(b, Append(x, e))
<1>1. Len(x) \in Nat /\ DOMAIN x = 1 .. Len(x) /\ \A i \in 1 .. Len(x) : x[i] \in Records
  OBVIOUS
<1>2. ASSUME NEW c \in Records, NEW i \in Nat
      PROVE  InSnapshot(c, b + i) \in Records
  <2>1. b + i \in Nat
    OBVIOUS
  <2> QED
    BY <2>1 DEF Records, InSnapshot
<1>3. /\ d.seq = b + (Len(x) + 1) /\ d.snapshot
      /\ d.kind = e.kind /\ d.r = e.r /\ d.request = e.request /\ d.job = e.job
      /\ d.attempt = e.attempt /\ d.evicted = e.evicted /\ d.plain = e.plain
  BY DEF Records, InSnapshot
<1>4. d \in Records
  <2>1. Len(x) + 1 \in Nat
    BY <1>1
  <2> QED
    BY <1>2, <2>1
<1> DEFINE At(i) == InSnapshot(x[i], b + i)
<1>5. N = [i \in 1 .. Len(x) |-> At(i)] /\ \A i \in 1 .. Len(x) : At(i) \in Records
  <2>1. N = [i \in 1 .. Len(x) |-> At(i)]
    BY <1>1 DEF NumberedFrom
  <2>2. ASSUME NEW i \in 1 .. Len(x)
        PROVE  At(i) \in Records
    <3>1. x[i] \in Records /\ i \in Nat
      BY <1>1
    <3> QED
      BY <1>2, <3>1
  <2> QED
    BY <2>1, <2>2
<1> HIDE DEF At
<1>6. N \in Seq(Records) /\ Len(N) = Len(x)
  <2>1. N \in [1 .. Len(x) -> Records]
    BY <1>5
  <2> QED
    BY <1>1, <2>1
<1>7. /\ DOMAIN Append(x, e) = 1 .. Len(x) + 1 /\ Append(x, e)[Len(x) + 1] = e
      /\ \A i \in 1 .. Len(x) : Append(x, e)[i] = x[i]
  BY <1>1
<1> HIDE DEF N
<1>8. /\ DOMAIN Append(N, d) = 1 .. Len(x) + 1 /\ Append(N, d)[Len(x) + 1] = d
      /\ \A i \in 1 .. Len(x) : Append(N, d)[i] = N[i]
      /\ Append(N, d) \in Seq(Records)
  BY <1>1, <1>4, <1>6
<1>9. M = [i \in 1 .. Len(x) + 1 |-> InSnapshot(Append(x, e)[i], b + i)]
  BY <1>7 DEF NumberedFrom
<1>10. ASSUME NEW i \in 1 .. Len(x) + 1
       PROVE  Append(N, d)[i] = M[i]
  <2>1. CASE i = Len(x) + 1
    BY <1>7, <1>8, <1>9, <2>1
  <2>2. CASE i \in 1 .. Len(x)
    <3>1. Append(N, d)[i] = At(i)
      BY <1>5, <1>8, <2>2
    <3>2. M[i] = InSnapshot(Append(x, e)[i], b + i) /\ Append(x, e)[i] = x[i]
      BY <1>7, <1>9, <2>2
    <3> QED
      BY <3>1, <3>2 DEF At
  <2>3. i = Len(x) + 1 \/ i \in 1 .. Len(x)
    BY <1>1
  <2> QED
    BY <2>1, <2>2, <2>3
<1>11. M = Append(N, d)
  <2>1. Append(N, d) = [i \in 1 .. Len(x) + 1 |-> Append(N, d)[i]]
    BY <1>8
  <2>2. M = [i \in 1 .. Len(x) + 1 |-> M[i]]
    BY <1>9
  <2> HIDE DEF M, d
  <2> QED
    BY <1>10, <2>1, <2>2
<1> QED
  BY <1>3, <1>4, <1>6, <1>11 DEF N

\* One record of the snapshot more.
LEMMA CopiesAppend ==
  ASSUME NEW t \in States, NEW x, NEW u \in States, Copies(t, x, u), NEW e \in Records,
         NEW v, Kept(v) = Kept(Apply(u, e, 0)),
         ValidState(u, e), e.kind # "torn", e.evicted = {},
         e.request \/ e.job # "none" \/ e.attempt # 0,
         e.attempt # 0 => e.attempt = u.attempts[e.r] + 1,
         e.plain => e.r \in t.plain
  PROVE  Copies(t, Append(x, e), v)
<1> DEFINE b == t.seq
           d == InSnapshot(e, b + (Len(x) + 1))
           N == NumberedFrom(b, x)
           acc == Replayed(N)
           r == Replayed(Append(N, d))
<1>1. b \in Nat /\ x \in Seq(Records) /\ Len(x) \in Nat
  BY DEF States, Copies
<1>2. /\ d \in Records /\ N \in Seq(Records) /\ Len(N) = Len(x)
      /\ NumberedFrom(b, Append(x, e)) = Append(N, d)
      /\ d.seq = b + (Len(x) + 1) /\ d.snapshot
      /\ d.kind = e.kind /\ d.r = e.r /\ d.request = e.request /\ d.job = e.job
      /\ d.attempt = e.attempt /\ d.evicted = e.evicted /\ d.plain = e.plain
  <2>1. b \in Nat /\ x \in Seq(Records) /\ e \in Records
    BY <1>1
  <2> HIDE DEF b
  <2>2. /\ d \in Records /\ N \in Seq(Records) /\ Len(N) = Len(x)
        /\ NumberedFrom(b, Append(x, e)) = Append(N, d)
    BY <2>1, NumberedAppend
  <2>3. /\ d.seq = b + (Len(x) + 1) /\ d.snapshot
        /\ d.kind = e.kind /\ d.r = e.r /\ d.request = e.request /\ d.job = e.job
    BY <2>1, NumberedAppend, ZenonT(60)
  <2>4. d.attempt = e.attempt /\ d.evicted = e.evicted /\ d.plain = e.plain
    BY <2>1, NumberedAppend, ZenonT(60)
  <2> QED
    BY <2>2, <2>3, <2>4
<1>3. /\ Sound(N) /\ acc.mutated = FALSE
      /\ acc.state.seq = IF x = <<>> THEN 0 ELSE b + Len(x)
      /\ Kept(acc.state) = Kept(u)
  BY DEF Copies
<1>4. acc.state \in States
  BY <1>3 DEF Sound, WellKept
<1> HIDE DEF d, N, acc, r, b
<1>5. Joins(u, d)
  BY <1>1, <1>2 DEF Joins, ValidState
<1>6. Joins(acc.state, d)
  BY <1>2, <1>3, <1>4, <1>5, KeptApply
<1>7. Follows(acc, d)
  BY <1>1, <1>2, <1>3, <1>6 DEF Follows
<1>8. /\ Sound(Append(N, d)) /\ r.mutated = (acc.mutated \/ ~ d.snapshot)
      /\ r.state.seq = d.seq /\ Kept(r.state) = Kept(Apply(acc.state, d, Len(N) + 1))
  BY <1>2, <1>3, <1>7, SoundAppend DEF acc, r
<1>9. Kept(Apply(acc.state, d, Len(N) + 1)) = Kept(Apply(u, d, 0))
  BY <1>1, <1>2, <1>3, <1>4, KeptApply
<1>10. Kept(Apply(u, d, 0)) = Kept(Apply(u, e, 0))
  BY <1>2 DEF Apply, Kept, States
<1>11. /\ Append(x, e) \in Seq(Records) /\ Append(x, e) # <<>> /\ Len(Append(x, e)) = Len(x) + 1
       /\ \A n \in DOMAIN Append(x, e) :
            Append(x, e)[n] = e \/ \E m \in DOMAIN x : Append(x, e)[n] = x[m]
  BY <1>1
<1>12. \A n \in DOMAIN Append(x, e) : Append(x, e)[n].plain => Append(x, e)[n].r \in t.plain
  BY <1>11 DEF Copies
<1>13. r.mutated = FALSE
  BY <1>2, <1>3, <1>8
<1>14. r.state.seq = b + Len(Append(x, e))
  BY <1>1, <1>2, <1>8, <1>11
<1>15. Kept(r.state) = Kept(v)
  BY <1>8, <1>9, <1>10
<1> QED
  BY <1>2, <1>8, <1>11, <1>12, <1>13, <1>14, <1>15 DEF Copies, r, b

\* What a part of a state is.
LEMMA PartTypes ==
  ASSUME NEW t \in States, NEW D \in SUBSET Requests
  PROVE  /\ Part(t, D) \in States /\ Part(t, D).requests = D
         /\ \A q \in Requests :
              /\ Part(t, D).job[q] = IF q \in D THEN t.job[q] ELSE "none"
              /\ Part(t, D).attempts[q] = IF q \in D THEN t.attempts[q] ELSE 0
<1>1. /\ t.job \in [Requests -> JobStates] /\ t.attempts \in [Requests -> 0 .. MaxAttempts]
      /\ "none" \in JobStates /\ 0 \in 0 .. MaxAttempts
  BY EventLogConstants DEF States, JobStates
<1> DEFINE j == [q \in Requests |-> IF q \in D THEN t.job[q] ELSE "none"]
           a == [q \in Requests |-> IF q \in D THEN t.attempts[q] ELSE 0]
<1>2. j \in [Requests -> JobStates]
  BY <1>1
<1>3. a \in [Requests -> 0 .. MaxAttempts]
  BY <1>1
<1>4. Part(t, D) = [t EXCEPT !.requests = D, !.job = j, !.attempts = a]
  BY DEF Part
<1> HIDE DEF j, a
<1>5. /\ Part(t, D) \in States /\ Part(t, D).requests = D
      /\ Part(t, D).job = j /\ Part(t, D).attempts = a
  BY <1>2, <1>3, <1>4 DEF States
<1> QED
  BY <1>5 DEF j, a

IsPartOf(p, t, D, r, j, a) ==
  /\ p \in States /\ p.requests = D \cup {r}
  /\ \A q \in Requests :
       /\ p.job[q] = IF q = r THEN j ELSE IF q \in D THEN t.job[q] ELSE "none"
       /\ p.attempts[q] = IF q = r THEN a ELSE IF q \in D THEN t.attempts[q] ELSE 0

LEMMA PartOfTypes ==
  ASSUME NEW t \in States, NEW D \in SUBSET Requests, NEW r \in Requests,
         NEW j \in JobStates, NEW a \in 0 .. MaxAttempts
  PROVE  IsPartOf(PartOf(t, D, r, j, a), t, D, r, j, a)
<1>1. /\ t.job \in [Requests -> JobStates] /\ t.attempts \in [Requests -> 0 .. MaxAttempts]
      /\ "none" \in JobStates /\ 0 \in 0 .. MaxAttempts
  BY EventLogConstants DEF States, JobStates
<1> DEFINE jb == [q \in Requests |-> IF q = r THEN j ELSE IF q \in D THEN t.job[q] ELSE "none"]
           at == [q \in Requests |-> IF q = r THEN a ELSE IF q \in D THEN t.attempts[q] ELSE 0]
           p == PartOf(t, D, r, j, a)
<1>2. jb \in [Requests -> JobStates]
  BY <1>1
<1>3. at \in [Requests -> 0 .. MaxAttempts]
  BY <1>1
<1>4. p = [t EXCEPT !.requests = D \cup {r}, !.job = jb, !.attempts = at]
  BY DEF PartOf
<1> HIDE DEF jb, at, p
<1>5. p \in States /\ p.requests = D \cup {r} /\ p.job = jb /\ p.attempts = at
  BY <1>2, <1>3, <1>4 DEF States
<1> QED
  BY <1>5 DEF jb, at, p, IsPartOf

\* Two states that agree on each request keep the same.
LEMMA SameKept ==
  ASSUME NEW t \in States, NEW u \in States, t.requests = u.requests,
         \A q \in Requests : t.job[q] = u.job[q] /\ t.attempts[q] = u.attempts[q]
  PROVE  Kept(t) = Kept(u)
<1>1. t.job = u.job /\ t.attempts = u.attempts
  BY DEF States
<1> QED
  BY <1>1 DEF Kept

\* The records a snapshot is made of.
RequestRecord(t, r) == [Record("request", r) EXCEPT !.request = TRUE, !.plain = r \in t.plain]

JobRecord(t, r) == [Record("job", r) EXCEPT !.job = t.job[r]]

AttemptRecord(r, i) == [Record("attempt", r) EXCEPT !.attempt = i]

LEMMA SnapshotRecordTypes ==
  ASSUME NEW t \in States, NEW r \in Requests
  PROVE  /\ LET e == RequestRecord(t, r)
            IN /\ e \in Records /\ e.kind # "torn" /\ e.r = r /\ e.request /\ e.job = "none"
               /\ e.attempt = 0 /\ e.evicted = {} /\ (e.plain => r \in t.plain)
         /\ LET e == JobRecord(t, r)
            IN /\ e \in Records /\ e.kind # "torn" /\ e.r = r /\ ~ e.request /\ e.job = t.job[r]
               /\ e.attempt = 0 /\ e.evicted = {} /\ ~ e.plain
         /\ \A i \in 0 .. MaxAttempts :
              LET e == AttemptRecord(r, i)
              IN /\ e \in Records /\ e.kind # "torn" /\ e.r = r /\ ~ e.request /\ e.job = "none"
                 /\ e.attempt = i /\ e.evicted = {} /\ ~ e.plain
<1>1. /\ t.job[r] \in JobStates /\ "none" \in JobStates /\ 0 \in 0 .. MaxAttempts
      /\ (r \in t.plain) \in BOOLEAN
  BY EventLogConstants DEF States, JobStates
<1>2. LET e == RequestRecord(t, r)
      IN /\ e \in Records /\ e.kind # "torn" /\ e.r = r /\ e.request /\ e.job = "none"
         /\ e.attempt = 0 /\ e.evicted = {} /\ (e.plain => r \in t.plain)
  BY <1>1 DEF RequestRecord, Record, Records
<1>3. LET e == JobRecord(t, r)
      IN /\ e \in Records /\ e.kind # "torn" /\ e.r = r /\ ~ e.request /\ e.job = t.job[r]
         /\ e.attempt = 0 /\ e.evicted = {} /\ ~ e.plain
  BY <1>1 DEF JobRecord, Record, Records
<1>4. ASSUME NEW i \in 0 .. MaxAttempts
      PROVE  LET e == AttemptRecord(r, i)
             IN /\ e \in Records /\ e.kind # "torn" /\ e.r = r /\ ~ e.request /\ e.job = "none"
                /\ e.attempt = i /\ e.evicted = {} /\ ~ e.plain
  BY <1>1 DEF AttemptRecord, Record, Records
<1> QED
  BY <1>2, <1>3, <1>4

\* Concatenation from the left.
LEMMA Regrouped ==
  ASSUME NEW S, NEW x \in Seq(S), NEW a \in Seq(S), NEW b \in Seq(S), NEW c \in Seq(S)
  PROVE  /\ x \o ((a \o b) \o c) = ((x \o a) \o b) \o c
         /\ (a \o b) \o c \in Seq(S)
<1>1. a \o b \in Seq(S) /\ (a \o b) \o c \in Seq(S)
  BY ConcatProperties
<1>2. x \o (a \o b) = (x \o a) \o b
  BY ConcatAssociative, SMTT(30)
<1> DEFINE ab == a \o b
<1> HIDE DEF ab
<1>3. x \o (ab \o c) = (x \o ab) \o c
  BY <1>1, ConcatAssociative, SMTT(30) DEF ab
<1> QED
  BY <1>1, <1>2, <1>3 DEF ab

\* The records of one request, in the order snapshotRecordsLocked writes them.
LEMMA CopiesRequest ==
  ASSUME NEW t, WellKept(t), NEW D \in SUBSET t.requests, NEW r \in t.requests \ D,
         NEW x, Copies(t, x, Part(t, D))
  PROVE  /\ Copies(t, x \o SnapshotOf(t, r), Part(t, D \cup {r}))
         /\ x \o SnapshotOf(t, r) # <<>>
         /\ SnapshotOf(t, r) \in Seq(Records)
<1> DEFINE c == t.attempts[r]
           e1 == RequestRecord(t, r)
           e2 == JobRecord(t, r)
           A == <<e1>>
           B == IF t.job[r] = "none" THEN <<>> ELSE <<e2>>
           C(i) == [k \in 1 .. i |-> AttemptRecord(r, k)]
           u0 == Part(t, D)
           u1 == PartOf(t, D, r, "none", 0)
           u2 == PartOf(t, D, r, t.job[r], 0)
           u3(i) == PartOf(t, D, r, t.job[r], i)
           y1 == Append(x, e1)
           y2 == y1 \o B
<1>1. /\ t \in States /\ D \in SUBSET Requests /\ r \in Requests /\ r \notin D
      /\ t.job[r] \in JobStates /\ c \in 0 .. MaxAttempts /\ "none" \in JobStates
      /\ 0 \in 0 .. MaxAttempts /\ MaxAttempts \in Nat /\ c \in Nat /\ x \in Seq(Records)
  BY EventLogConstants DEF WellKept, States, JobStates, Copies
<1>2. /\ u0 \in States /\ u0.requests = D
      /\ \A q \in Requests : /\ u0.job[q] = IF q \in D THEN t.job[q] ELSE "none"
                             /\ u0.attempts[q] = IF q \in D THEN t.attempts[q] ELSE 0
  BY <1>1, PartTypes
<1>3. /\ t \in States /\ D \in SUBSET Requests /\ r \in Requests
      /\ "none" \in JobStates /\ t.job[r] \in JobStates /\ 0 \in 0 .. MaxAttempts
  BY <1>1
<1>4. /\ e1 \in Records /\ e1.kind # "torn" /\ e1.r = r /\ e1.request /\ e1.job = "none"
      /\ e1.attempt = 0 /\ e1.evicted = {} /\ (e1.plain => r \in t.plain)
  BY <1>1, SnapshotRecordTypes
<1>5. /\ e2 \in Records /\ e2.kind # "torn" /\ e2.r = r /\ ~ e2.request /\ e2.job = t.job[r]
      /\ e2.attempt = 0 /\ e2.evicted = {} /\ ~ e2.plain
  BY <1>1, SnapshotRecordTypes
<1> HIDE DEF e1, e2, c
<1>6. Copies(t, y1, u1)
  <2>1. IsPartOf(u1, t, D, r, "none", 0)
    BY <1>3, PartOfTypes
  <2> DEFINE a == Apply(u0, e1, 0)
  <2>2. a \in States /\ Applied(a, u0, e1)
    BY <1>2, <1>4, ApplyKept
  <2>3. ValidState(u0, e1)
    BY <1>1, <1>2, <1>4 DEF ValidState
  <2> HIDE DEF a, u0, u1
  <2>4. /\ a.requests = u1.requests
        /\ \A q \in Requests : a.job[q] = u1.job[q] /\ a.attempts[q] = u1.attempts[q]
    BY <1>1, <1>2, <1>4, <2>1, <2>2 DEF Applied, IsPartOf
  <2>5. Kept(u1) = Kept(a)
    BY <2>1, <2>2, <2>4, SameKept DEF IsPartOf
  <2>6. Copies(t, x, u0)
    BY DEF u0
  <2> QED
    BY <1>1, <1>2, <1>4, <2>3, <2>5, <2>6, CopiesAppend DEF a
<1>7. Copies(t, y2, u2) /\ y2 \in Seq(Records) /\ y2 # <<>>
  <2>1. y1 \in Seq(Records) /\ y1 # <<>>
    BY <1>1, <1>4
  <2> HIDE DEF y1
  <2>2. CASE t.job[r] = "none"
    BY <1>6, <2>1, <2>2
  <2>3. CASE t.job[r] # "none"
    <3>1. y2 = Append(y1, e2) /\ y2 \in Seq(Records) /\ y2 # <<>>
      BY <1>5, <2>1, <2>3
    <3> HIDE DEF y2
    <3>2. IsPartOf(u1, t, D, r, "none", 0)
      BY <1>3, PartOfTypes
    <3>3. IsPartOf(u2, t, D, r, t.job[r], 0)
      BY <1>3, PartOfTypes
    <3> DEFINE a == Apply(u1, e2, 0)
    <3>4. a \in States /\ Applied(a, u1, e2)
      BY <1>5, <3>2, ApplyKept DEF IsPartOf
    <3>5. ValidState(u1, e2)
      BY <1>5, <3>2 DEF ValidState, IsPartOf
    <3> HIDE DEF a, u1, u2
    <3>6. /\ a.requests = u2.requests
          /\ \A q \in Requests : a.job[q] = u2.job[q] /\ a.attempts[q] = u2.attempts[q]
      BY <1>1, <1>5, <2>3, <3>2, <3>3, <3>4 DEF Applied, IsPartOf
    <3>7. Kept(u2) = Kept(a)
      BY <3>3, <3>4, <3>6, SameKept DEF IsPartOf
    <3> QED
      BY <1>1, <1>5, <1>6, <2>3, <3>1, <3>2, <3>5, <3>7, CopiesAppend DEF a, IsPartOf
  <2> QED
    BY <2>2, <2>3
<1> HIDE DEF y2
<1>8. ASSUME NEW i \in 0 .. c
      PROVE  C(i) \in Seq(Records) /\ Len(C(i)) = i /\ \A k \in 1 .. i : C(i)[k] = AttemptRecord(r, k)
  <2>1. i \in Nat /\ \A k \in 1 .. i : k \in 0 .. MaxAttempts
    BY <1>1
  <2>2. \A k \in 1 .. i : AttemptRecord(r, k) \in Records
    BY <1>1, <2>1, SnapshotRecordTypes
  <2>3. C(i) \in [1 .. i -> Records]
    BY <2>2
  <2> QED
    BY <2>1, <2>3
<1> DEFINE T == {i \in 0 .. c : Copies(t, y2 \o C(i), u3(i))}
<1>9. 0 \in T
  <2>1. C(0) = <<>>
    BY <1>1, <1>8
  <2> HIDE DEF C
  <2>2. y2 \o C(0) = y2
    BY <1>7, <2>1, ConcatEmptySeq
  <2>3. Copies(t, y2 \o C(0), u3(0))
    BY <1>7, <2>2
  <2>4. 0 \in 0 .. c
    BY <1>1
  <2> QED
    BY <2>3, <2>4
<1>10. ASSUME NEW i \in 0 .. c - 1, i \in T
       PROVE  i + 1 \in T
  <2>1. /\ i \in 0 .. c /\ i + 1 \in 0 .. c /\ i + 1 # 0 /\ i \in Nat
        /\ i \in 0 .. MaxAttempts /\ i + 1 \in 0 .. MaxAttempts
    BY <1>1
  <2> DEFINE e == AttemptRecord(r, i + 1)
  <2>2. /\ e \in Records /\ e.kind # "torn" /\ e.r = r /\ ~ e.request /\ e.job = "none"
        /\ e.attempt = i + 1 /\ e.evicted = {} /\ ~ e.plain
    BY <1>1, <2>1, SnapshotRecordTypes
  <2>3. C(i + 1) = Append(C(i), e)
    <3>1. C(i) \in Seq(Records) /\ Len(C(i)) = i /\ \A k \in 1 .. i : C(i)[k] = AttemptRecord(r, k)
      BY <1>8, <2>1
    <3>2. /\ C(i + 1) \in Seq(Records) /\ Len(C(i + 1)) = i + 1
          /\ \A k \in 1 .. i + 1 : C(i + 1)[k] = AttemptRecord(r, k)
      BY <1>8, <2>1
    <3> HIDE DEF C, e
    <3>3. /\ Append(C(i), e) \in Seq(Records) /\ Len(Append(C(i), e)) = i + 1
          /\ Append(C(i), e)[i + 1] = e /\ \A k \in 1 .. i : Append(C(i), e)[k] = C(i)[k]
      BY <2>2, <3>1
    <3>4. \A k \in 1 .. i + 1 : k \in 1 .. i \/ k = i + 1
      BY <2>1
    <3>5. \A k \in 1 .. i + 1 : C(i + 1)[k] = Append(C(i), e)[k]
      BY <3>1, <3>2, <3>3, <3>4 DEF e
    <3> QED
      BY <3>2, <3>3, <3>5, SeqEqual
  <2>4. C(i) \in Seq(Records)
    BY <1>8, <2>1
  <2> HIDE DEF C, e
  <2>5. y2 \o C(i + 1) = Append(y2 \o C(i), e)
    <3> DEFINE W == C(i)
    <3>1. W \in Seq(Records) /\ y2 \in Seq(Records) /\ <<e>> \in Seq(Records)
      BY <1>7, <2>2, <2>4
    <3> HIDE DEF W
    <3>2. y2 \o W \in Seq(Records)
      BY <3>1, ConcatProperties
    <3>3. Append(W, e) = W \o <<e>>
      BY <3>1, <2>2
    <3>4. Append(y2 \o W, e) = (y2 \o W) \o <<e>>
      BY <3>2, <2>2
    <3>5. (y2 \o W) \o <<e>> = y2 \o (W \o <<e>>)
      BY <3>1, ConcatAssociative
    <3>6. C(i + 1) = Append(W, e)
      BY <2>3 DEF W
    <3> QED
      BY <3>3, <3>4, <3>5, <3>6 DEF W
  <2>6. Copies(t, y2 \o C(i), u3(i))
    BY <1>10
  <2> DEFINE p == u3(i)
             v == u3(i + 1)
  <2>7. IsPartOf(p, t, D, r, t.job[r], i)
    BY <1>3, <2>1, PartOfTypes
  <2>8. IsPartOf(v, t, D, r, t.job[r], i + 1)
    BY <1>3, <2>1, PartOfTypes
  <2> DEFINE a == Apply(p, e, 0)
  <2>9. a \in States /\ Applied(a, p, e)
    BY <2>2, <2>7, ApplyKept DEF IsPartOf
  <2> HIDE DEF p, v, a
  <2>10. ValidState(p, e)
    BY <1>1, <2>1, <2>2, <2>7 DEF ValidState, IsPartOf
  <2>11. /\ a.requests = v.requests
         /\ \A q \in Requests : a.job[q] = v.job[q] /\ a.attempts[q] = v.attempts[q]
    BY <1>1, <2>1, <2>2, <2>7, <2>8, <2>9 DEF Applied, IsPartOf
  <2>12. Kept(v) = Kept(a)
    BY <2>8, <2>9, <2>11, SameKept DEF IsPartOf
  <2>13. e.attempt = p.attempts[e.r] + 1
    BY <1>1, <2>2, <2>7 DEF IsPartOf
  <2>14. Copies(t, Append(y2 \o C(i), e), v)
    BY <1>1, <2>1, <2>2, <2>6, <2>7, <2>10, <2>12, <2>13, CopiesAppend DEF a, p, IsPartOf
  <2> QED
    BY <2>1, <2>5, <2>14 DEF v
<1>11. c \in T
  <2> HIDE DEF T
  <2>1. \A i \in 0 .. c : i \in T
    BY <1>1, <1>9, <1>10, NumbersUpTo
  <2> QED
    BY <1>1, <2>1
<1>12. C(c) \in Seq(Records)
  BY <1>1, <1>8
<1>13. SnapshotOf(t, r) = (A \o B) \o C(c)
  BY DEF SnapshotOf, RequestRecord, JobRecord, AttemptRecord, e1, e2, c
<1> DEFINE Z == C(c)
<1>14. Z \in Seq(Records) /\ A \in Seq(Records) /\ B \in Seq(Records)
  BY <1>4, <1>5, <1>12
<1>15. y2 = (x \o A) \o B
  <2>1. x \o A = Append(x, e1)
    BY <1>1, <1>4
  <2> QED
    BY <2>1 DEF y2
<1> HIDE DEF A, B, C, Z
<1>16. x \o ((A \o B) \o Z) = ((x \o A) \o B) \o Z /\ (A \o B) \o Z \in Seq(Records)
  <2>1. x \in Seq(Records) /\ A \in Seq(Records) /\ B \in Seq(Records) /\ Z \in Seq(Records)
    BY <1>1, <1>14
  <2>2. \A a, b, z \in Seq(Records) :
          /\ x \o ((a \o b) \o z) = ((x \o a) \o b) \o z
          /\ (a \o b) \o z \in Seq(Records)
    BY <2>1, Regrouped
  <2> QED
    BY <2>1, <2>2
<1>17. x \o SnapshotOf(t, r) = y2 \o Z /\ SnapshotOf(t, r) \in Seq(Records)
  BY <1>13, <1>15, <1>16 DEF Z
<1>18. Copies(t, x \o SnapshotOf(t, r), u3(c))
  BY <1>11, <1>17 DEF Z
<1>19. Kept(u3(c)) = Kept(Part(t, D \cup {r}))
  <2> DEFINE p == u3(c)
             v == Part(t, D \cup {r})
  <2>1. IsPartOf(p, t, D, r, t.job[r], c)
    <3>1. c \in 0 .. MaxAttempts
      BY <1>1
    <3> QED
      BY <1>3, <3>1, PartOfTypes
  <2>2. D \cup {r} \in SUBSET Requests
    BY <1>1
  <2>3. /\ v \in States /\ v.requests = D \cup {r}
        /\ \A q \in Requests :
             /\ v.job[q] = IF q \in D \cup {r} THEN t.job[q] ELSE "none"
             /\ v.attempts[q] = IF q \in D \cup {r} THEN t.attempts[q] ELSE 0
    BY <1>1, <2>2, PartTypes
  <2> HIDE DEF p, v
  <2>4. \A q \in Requests : p.job[q] = v.job[q] /\ p.attempts[q] = v.attempts[q]
    BY <2>1, <2>3 DEF c, IsPartOf
  <2> QED
    BY <2>1, <2>3, <2>4, SameKept, ZenonT(60) DEF p, v, IsPartOf
<1>20. y2 \o Z # <<>>
  BY <1>7, <1>14, ConcatEqualIffEmpty
<1> QED
  BY <1>17, <1>18, <1>19, <1>20 DEF Copies

\* FlattenSeq puts one sequence behind the other.
Flattens(g, seqs, n) ==
  /\ FlattenSeq(seqs) = g[n]
  /\ g[1] = seqs[1]
  /\ \A i \in 2 .. n : g[i] = g[i - 1] \o seqs[i]

LEMMA FlattenSteps ==
  ASSUME NEW seqs, NEW n \in Nat \ {0}, Len(seqs) = n
  PROVE  \E g : Flattens(g, seqs, n)
<1> DEFINE Rec(g, N) == g = [i \in 1 .. N |-> IF i = 1 THEN seqs[i] ELSE g[i - 1] \o seqs[i]]
           S == {N \in Nat : \E g : Rec(g, N)}
           flatten == CHOOSE g : g = [i \in 1 .. Len(seqs) |->
                                        IF i = 1 THEN seqs[i] ELSE g[i - 1] \o seqs[i]]
<1>1. 0 \in S
  <2> DEFINE g == [i \in 1 .. 0 |-> 0]
  <2>1. \A i \in 1 .. 0 : FALSE
    OBVIOUS
  <2>2. Rec(g, 0)
    BY <2>1
  <2> QED
    BY <2>2
<1>2. ASSUME NEW N \in Nat, N \in S
      PROVE  N + 1 \in S
  <2>1. PICK g : Rec(g, N)
    BY <1>2
  <2> DEFINE h == [m \in 1 .. N + 1 |->
                     IF m = N + 1 THEN IF m = 1 THEN seqs[m] ELSE g[N] \o seqs[m] ELSE g[m]]
  <2>2. \A m \in 1 .. N : h[m] = g[m]
    OBVIOUS
  <2>3. ASSUME NEW m \in 1 .. N + 1
        PROVE  h[m] = IF m = 1 THEN seqs[m] ELSE h[m - 1] \o seqs[m]
    <3>1. CASE m = N + 1
      <4>1. h[m] = IF m = 1 THEN seqs[m] ELSE g[N] \o seqs[m]
        BY <3>1
      <4>2. m # 1 => m - 1 = N /\ N \in 1 .. N
        BY <3>1
      <4> QED
        BY <2>2, <4>1, <4>2
    <3>2. CASE m \in 1 .. N
      <4>1. h[m] = IF m = 1 THEN seqs[m] ELSE g[m - 1] \o seqs[m]
        BY <2>1, <2>2, <3>2
      <4>2. m # 1 => m - 1 \in 1 .. N
        BY <3>2
      <4> QED
        BY <2>2, <4>1, <4>2
    <3> QED
      BY <3>1, <3>2
  <2>4. Rec(h, N + 1)
    BY <2>3
  <2>5. \E k : Rec(k, N + 1)
    BY <2>4
  <2>6. N + 1 \in Nat
    OBVIOUS
  <2> QED
    BY <2>5, <2>6
<1> HIDE DEF S
<1>3. n \in S
  BY <1>1, <1>2, AllNumbers
<1>4. Rec(flatten, n)
  <2>1. \E g : Rec(g, n)
    BY <1>3 DEF S
  <2> QED
    BY <2>1
<1>5. FlattenSeq(seqs) = flatten[n]
  BY DEF FlattenSeq, flatten
<1> HIDE DEF flatten
<1>6. \A i \in 1 .. n : flatten[i] = IF i = 1 THEN seqs[i] ELSE flatten[i - 1] \o seqs[i]
  BY <1>4
<1>7. 1 \in 1 .. n /\ \A i \in 2 .. n : i \in 1 .. n /\ i # 1
  OBVIOUS
<1>8. flatten[1] = seqs[1] /\ \A i \in 2 .. n : flatten[i] = flatten[i - 1] \o seqs[i]
  BY <1>6, <1>7
<1>9. Flattens(flatten, seqs, n)
  BY <1>5, <1>8 DEF Flattens
<1> QED
  BY <1>9

\* SetToSeq lists a finite set, each member once.
LEMMA ListOfSet ==
  ASSUME NEW S, IsFiniteSet(S)
  PROVE  LET n == Cardinality(S)
             order == SetToSeq(S)
         IN /\ n \in Nat /\ order \in [1 .. n -> S]
            /\ \A i, j \in 1 .. n : order[i] = order[j] => i = j
            /\ \A q \in S : \E i \in 1 .. n : order[i] = q
<1> DEFINE n == Cardinality(S)
           order == SetToSeq(S)
<1>1. n \in Nat /\ ExistsBijection(1 .. n, S)
  BY FS_CardinalityType
<1>2. \E g \in [1 .. n -> S] : IsInjective(g)
  BY <1>1 DEF ExistsBijection, Bijection, Injection
<1>3. order \in [1 .. n -> S] /\ IsInjective(order)
  BY <1>2 DEF SetToSeq
<1> HIDE DEF order, n
<1>4. order \in Injection(1 .. n, S)
  BY <1>3 DEF Injection
<1>5. Cardinality(1 .. n) = n
  BY <1>1, FS_Interval
<1>6. order \in Surjection(1 .. n, S)
  BY <1>4, <1>5, FS_Injection DEF n
<1>7. \A q \in S : \E i \in 1 .. n : order[i] = q
  BY <1>6 DEF Surjection
<1>8. \A i, j \in 1 .. n : order[i] = order[j] => i = j
  BY <1>3 DEF IsInjective
<1> QED
  BY <1>1, <1>3, <1>7, <1>8 DEF order, n

\* A snapshot is sound, and brings back what the store kept when it was taken.
LEMMA SnapshotSound ==
  ASSUME NEW t, WellKept(t)
  PROVE  LET L == SnapshotRecords(t)
             u == Replayed(L).state
         IN /\ Sound(L) /\ Kept(u) = Kept(t)
            /\ u.seq = IF t.requests = {} THEN 0 ELSE t.seq + Len(L)
            /\ t.requests # {} => L # <<>>
            /\ t.plain = {} => \A n \in DOMAIN L : ~ L[n].plain
<1> DEFINE n == Cardinality(t.requests)
           order == SetToSeq(t.requests)
           seqs == [i \in DOMAIN order |-> SnapshotOf(t, order[i])]
           x == FlattenSeq(seqs)
           D(i) == {order[k] : k \in 1 .. i}
<1>1. /\ n \in Nat /\ order \in [1 .. n -> t.requests]
      /\ \A i, j \in 1 .. n : order[i] = order[j] => i = j
      /\ \A q \in t.requests : \E i \in 1 .. n : order[i] = q
  BY ListOfSet DEF WellKept
<1> HIDE DEF n, order
<1>2. t \in States /\ t.requests \in SUBSET Requests /\ t.seq \in Nat
  BY DEF WellKept, States
<1>3. SnapshotRecords(t) = NumberedFrom(t.seq, x)
  BY DEF SnapshotRecords, NumberedFrom, InSnapshot, order
<1>4. DOMAIN seqs = 1 .. n /\ Len(seqs) = n /\ \A i \in 1 .. n : seqs[i] = SnapshotOf(t, order[i])
  BY <1>1
<1> HIDE DEF seqs
<1>5. Copies(t, <<>>, Part(t, {}))
  <2>1. NumberedFrom(t.seq, <<>>) = <<>>
    BY DEF NumberedFrom
  <2>2. Kept(Empty) = Kept(Part(t, {}))
    <3>1. {} \in SUBSET Requests
      OBVIOUS
    <3>2. /\ Part(t, {}) \in States /\ Part(t, {}).requests = {}
          /\ \A q \in Requests : Part(t, {}).job[q] = "none" /\ Part(t, {}).attempts[q] = 0
      BY <1>2, <3>1, PartTypes
    <3> QED
      <4> DEFINE v == Part(t, {})
      <4>1. /\ Empty \in States /\ Empty.requests = {}
            /\ \A q \in Requests : Empty.job[q] = "none" /\ Empty.attempts[q] = 0
        BY FreshTypes
      <4> HIDE DEF v
      <4>2. v \in States /\ Empty.requests = v.requests
        BY <3>2, <4>1 DEF v
      <4>3. \A q \in Requests : Empty.job[q] = v.job[q] /\ Empty.attempts[q] = v.attempts[q]
        BY <3>2, <4>1 DEF v
      <4> QED
        BY <4>1, <4>2, <4>3, SameKept DEF v
  <2> QED
    BY <2>1, <2>2, NothingSound, FreshTypes DEF Copies
<1>6. Copies(t, x, Part(t, t.requests)) /\ (t.requests = {} <=> x = <<>>)
  <2>1. CASE n = 0
    <3>1. t.requests = {}
      BY <1>1, <2>1
    <3>2. x = seqs /\ seqs = <<>>
      BY <1>4, <2>1 DEF FlattenSeq, seqs
    <3> QED
      BY <1>5, <3>1, <3>2
  <2>2. CASE n # 0
    <3>1. n \in Nat \ {0}
      BY <1>1, <2>2
    <3>2. PICK g : Flattens(g, seqs, n)
      <4>1. Len(seqs) = n
        BY <1>4
      <4> QED
        BY <3>1, <4>1, FlattenSteps
    <3>3. /\ x = g[n] /\ g[1] = seqs[1]
          /\ \A i \in 2 .. n : g[i] = g[i - 1] \o seqs[i]
      BY <3>2 DEF Flattens
    <3> HIDE DEF x
    <3>4. ASSUME NEW i \in 0 .. n - 1
          PROVE  /\ D(i) \in SUBSET t.requests /\ order[i + 1] \in t.requests \ D(i)
                 /\ D(i + 1) = D(i) \cup {order[i + 1]} /\ i + 1 \in 1 .. n
      <4>1. /\ i + 1 \in 1 .. n /\ (\A k \in 1 .. i : k \in 1 .. n /\ k # i + 1 /\ k \in 1 .. i + 1)
            /\ i + 1 \in 1 .. i + 1 /\ \A k \in 1 .. i + 1 : k \in 1 .. i \/ k = i + 1
        BY <3>1
      <4>2. D(i) \in SUBSET t.requests /\ order[i + 1] \in t.requests \ D(i)
        BY <1>1, <4>1
      <4>3. D(i + 1) = D(i) \cup {order[i + 1]}
        BY <4>1
      <4> QED
        BY <4>1, <4>2, <4>3
    <3> DEFINE T == {i \in 0 .. n : i # 0 => Copies(t, g[i], Part(t, D(i))) /\ g[i] # <<>>}
    <3>5. 0 \in T
      BY <1>1
    <3>6. ASSUME NEW i \in 0 .. n - 1, i \in T
          PROVE  i + 1 \in T
      <4> DEFINE y == IF i = 0 THEN <<>> ELSE g[i]
      <4>1. Copies(t, y, Part(t, D(i))) /\ y \in Seq(Records)
        <5>1. CASE i = 0
          <6>1. D(0) = {}
            OBVIOUS
          <6> HIDE DEF D
          <6> QED
            BY <1>5, <5>1, <6>1 DEF Copies
        <5>2. CASE i # 0
          BY <3>6, <5>2 DEF Copies
        <5> QED
          BY <5>1, <5>2
      <4> HIDE DEF D
      <4>2. /\ D(i) \in SUBSET t.requests /\ order[i + 1] \in t.requests \ D(i)
            /\ D(i + 1) = D(i) \cup {order[i + 1]} /\ i + 1 \in 1 .. n
        BY <3>4
      <4> HIDE DEF y
      <4>3. /\ Copies(t, y \o SnapshotOf(t, order[i + 1]), Part(t, D(i + 1)))
            /\ y \o SnapshotOf(t, order[i + 1]) # <<>>
            /\ SnapshotOf(t, order[i + 1]) \in Seq(Records)
        BY <4>1, <4>2, CopiesRequest
      <4>4. g[i + 1] = y \o SnapshotOf(t, order[i + 1])
        <5>1. seqs[i + 1] = SnapshotOf(t, order[i + 1])
          BY <1>4, <4>2
        <5>2. CASE i = 0
          <6>1. y = <<>> /\ g[i + 1] = SnapshotOf(t, order[i + 1])
            BY <3>3, <5>1, <5>2 DEF y
          <6> QED
            BY <4>3, <6>1, ConcatEmptySeq
        <5>3. CASE i # 0
          <6>1. i + 1 \in 2 .. n /\ (i + 1) - 1 = i
            BY <3>1, <5>3
          <6>2. g[i + 1] = g[i] \o seqs[i + 1]
            BY <3>3, <6>1
          <6> QED
            BY <5>1, <5>3, <6>2 DEF y
        <5> QED
          BY <5>2, <5>3
      <4>5. i + 1 \in 0 .. n
        BY <4>2
      <4> QED
        BY <4>3, <4>4, <4>5
    <3>7. n \in T
      <4> HIDE DEF T
      <4>1. \A i \in 0 .. n : i \in T
        BY <1>1, <3>5, <3>6, NumbersUpTo
      <4> QED
        BY <1>1, <4>1
    <3>8. D(n) = t.requests
      BY <1>1
    <3>9. t.requests # {}
      BY <1>1, <2>2
    <3> HIDE DEF D
    <3> QED
      BY <2>2, <3>3, <3>7, <3>8, <3>9
  <2> QED
    BY <2>1, <2>2
<1> HIDE DEF x
<1>7. Kept(Part(t, t.requests)) = Kept(t)
  <2>1. /\ Part(t, t.requests) \in States /\ Part(t, t.requests).requests = t.requests
        /\ \A q \in Requests :
             /\ Part(t, t.requests).job[q] = IF q \in t.requests THEN t.job[q] ELSE "none"
             /\ Part(t, t.requests).attempts[q] = IF q \in t.requests THEN t.attempts[q] ELSE 0
    BY <1>2, PartTypes
  <2>2. \A q \in Requests : /\ Part(t, t.requests).job[q] = t.job[q]
                            /\ Part(t, t.requests).attempts[q] = t.attempts[q]
    BY <2>1 DEF WellKept
  <2> QED
    BY <1>2, <2>1, <2>2, SameKept
<1> DEFINE L == NumberedFrom(t.seq, x)
           u == Replayed(L).state
<1>8. /\ x \in Seq(Records) /\ Sound(L) /\ u.seq = (IF x = <<>> THEN 0 ELSE t.seq + Len(x))
      /\ Kept(u) = Kept(t) /\ \A m \in DOMAIN x : x[m].plain => x[m].r \in t.plain
  BY <1>6, <1>7 DEF Copies
<1>9. /\ DOMAIN L = DOMAIN x /\ Len(L) = Len(x) /\ L \in Seq(Records)
      /\ \A m \in DOMAIN x : L[m].plain = x[m].plain
  <2>1. L = [i \in DOMAIN x |-> InSnapshot(x[i], t.seq + i)]
    BY DEF NumberedFrom
  <2>2. DOMAIN L = DOMAIN x /\ L \in Seq(Records)
    BY <1>8, <2>1 DEF Sound
  <2>3. ASSUME NEW m \in DOMAIN x
        PROVE  L[m].plain = x[m].plain
    <3>1. L[m] = InSnapshot(x[m], t.seq + m) /\ x[m] \in Records
      BY <1>8, <2>1
    <3> HIDE DEF L
    <3> QED
      BY <3>1 DEF InSnapshot, Records
  <2> HIDE DEF L
  <2>4. Len(L) = Len(x)
    BY <1>8, <2>2
  <2> QED
    BY <2>2, <2>3, <2>4
<1>10. t.requests # {} => L # <<>>
  BY <1>6, <1>8, <1>9
<1>11. t.plain = {} => \A m \in DOMAIN L : ~ L[m].plain
  BY <1>8, <1>9
<1> HIDE DEF L
<1>12. u.seq = IF t.requests = {} THEN 0 ELSE t.seq + Len(L)
  BY <1>6, <1>8, <1>9
<1> QED
  BY <1>3, <1>8, <1>10, <1>11, <1>12 DEF L

-----------------------------------------------------------------------------
(* The inductive invariant *)

\* One machine does not meet both kinds of crash: a kill leaves in the page cache
\* what the next process serves, and a loss of power then takes it.  And what it
\* leaves of a directory on Windows is not known.
OneKindOfCrash ==
  \A m \in Machines : "power" \in m => "kill" \notin m /\ "windows" \notin m

\* The first sync of a new log puts its directory entry on disk: OpenWithOptions,
\* which creates the file, does not sync the directory.
EntriesAreSynced == \A m \in Machines : "power" \in m => "entries" \in m

LogTypes ==
  /\ files["none"] = NoFile /\ (proc # "down" => dir # "none")
  /\ files \in Files /\ dir \in Names /\ dirSynced \in Names /\ f \in Names \cup {"closed"}
  /\ \A name \in Names : files[name].synced <= Len(files[name].log)
  /\ s \in States /\ IsFiniteSet(s.requests) /\ shown \in Nat
  /\ health \in {"ok", "poisoned"} /\ proc \in {"down", "opened", "up"} /\ machine \in Machines
  /\ pc \in {"idle", "written", "compact", "tmp", "synced", "swap", "renamed", "replaced"}
  /\ reader.pc \in {"idle", "reading", "failed"} /\ reader.file \in Names \cup {"closed"}

Healthy == proc \in {"opened", "up"} /\ health = "ok"

\* Who may be in the middle of something.
Phases ==
  /\ pc # "idle" => proc = "up" /\ health = "ok"
  /\ proc # "up" => health = "ok" /\ reader = NoReader
  /\ proc = "up" => s.plain = {}

\* Log is what a crash may leave: it brings back one of the states in may, and no
\* number before seen.
GoodFor(log, may, seen) ==
  /\ Sound(WholeRecords(log))
  /\ Kept(Recovered(log).state) \in may
  /\ Recovered(log).state.seq >= seen

Good(log) == GoodFor(log, allowed, shown)

CrashesAreGood ==
  /\ \A log \in NextLogs : Good(log)
  /\ proc = "down" => /\ Good(files[dir].log)
                      /\ \A name \in Names \ {dir, dirSynced} : files[name] = NoFile

\* On a machine that may lose power, what is on the disk but for a record being
\* written, a name being changed and a log that has just been created.
DiskIsSynced ==
  "power" \in machine /\ health = "ok" =>
    /\ pc # "renamed" => dirSynced \in {dir, "none"}
    /\ proc = "down" \/ pc = "replaced" => dirSynced = dir
    /\ pc # "written" => files[dir].synced = Len(files[dir].log)
    /\ pc = "written" => files[dir].synced >= Len(files[dir].log) - 1

\* The log brings back what is in memory.
Matches(log, t) ==
  /\ Sound(log) /\ RefsHold(log, t)
  /\ Replayed(log).state.seq = t.seq /\ Kept(Replayed(log).state) = Kept(t)

\* A record under way is one that recovery will take.
UnderWay(log, t) ==
  LET e == Last(log)
  IN /\ log # <<>> /\ Matches(Front(log), t)
     /\ Joins(t, e) /\ e.seq = t.seq + 1 /\ ~ e.snapshot /\ ~ e.plain
     /\ Kept(Apply(t, e, 0)) \in allowed

MemoryIsLogged ==
  Healthy =>
    /\ WellKept(s) /\ Kept(s) \in allowed /\ s.seq >= shown
    /\ pc \in {"idle", "compact", "tmp", "synced", "swap"} => Matches(files[dir].log, s)
    /\ pc = "written" => UnderWay(files[dir].log, s)
    /\ pc \in {"tmp", "synced", "swap"} => files[Tmp].log = SnapshotRecords(s)
    /\ pc \in {"synced", "swap"} => files[Tmp].synced = Len(files[Tmp].log)
    /\ pc \in {"renamed", "replaced"} => files[dir].log = SnapshotRecords(s)

\* The file that is open has what the references of the store say.
FileIsOpen ==
  /\ proc # "down" /\ f # "closed" => RefsHold(files[f].log, s)
  /\ f = "closed" => /\ Windows
                     /\ \/ proc = "down" \/ health = "poisoned"
                        \/ pc \in {"swap", "renamed", "replaced"}
  /\ Healthy /\ pc \in {"idle", "written", "compact", "tmp", "synced"} => f = dir
  /\ Healthy /\ pc = "swap" => f = "closed"

LogIsRedacted ==
  proc = "up" /\ health = "ok" /\ pc \in {"idle", "written"} =>
    \A n \in DOMAIN files[dir].log : ~ files[dir].log[n].plain

\* fileMu keeps the file of a read where it is.
ReadingIsSafe ==
  reader.pc = "reading" =>
    /\ proc = "up" /\ pc \in {"idle", "written", "compact"} /\ reader.file = f
    /\ f # "closed" => \A w \in reader.wants : Finds(f, w[1], w[2])

LogInvariant ==
  /\ LogTypes /\ Phases /\ CrashesAreGood /\ DiskIsSynced
  /\ MemoryIsLogged /\ FileIsOpen /\ LogIsRedacted /\ ReadingIsSafe

-----------------------------------------------------------------------------
(* What each step needs to know of logs *)

\* Of a sound log nothing is cut.
LEMMA WholeSound ==
  ASSUME NEW L, Sound(L)
  PROVE  WholeRecords(L) = L /\ Recovered(L) = Replayed(L)
BY TornCut DEF Sound, Recovered

\* A sound log that brings back what it may is good, and so it is with a torn end.
LEMMA GoodLogs ==
  ASSUME NEW L, NEW may, NEW seen, Sound(L),
         Kept(Replayed(L).state) \in may, Replayed(L).state.seq >= seen
  PROVE  /\ GoodFor(L, may, seen)
         /\ \A e \in Records : e.kind = "torn" => GoodFor(Append(L, e), may, seen)
<1>1. GoodFor(L, may, seen)
  BY WholeSound DEF GoodFor
<1>2. ASSUME NEW e \in Records, e.kind = "torn"
      PROVE  GoodFor(Append(L, e), may, seen)
  <2>1. WholeRecords(Append(L, e)) = L
    BY <1>2, TornCut DEF Sound
  <2> QED
    BY <2>1 DEF GoodFor, Recovered
<1> QED
  BY <1>1, <1>2

\* What a loss of power leaves of a file that is synced ...
LEMMA SyncedImages ==
  ASSUME NEW file, file.log \in Seq(Records), file.synced = Len(file.log)
  PROVE  Images(file) = {file.log}
<1>1. /\ Len(file.log) \in Nat /\ SubSeq(file.log, 1, Len(file.log)) = file.log
  BY SubSeqFull
<1>2. /\ file.synced .. Len(file.log) = {Len(file.log)}
      /\ file.synced .. Len(file.log) - 1 = {}
  BY <1>1
<1>3. {SubSeq(file.log, 1, n) : n \in file.synced .. Len(file.log)} = {file.log}
  BY <1>1, <1>2
<1>4. {Append(SubSeq(file.log, 1, n), Record("torn", file.log[n + 1].r)) :
          n \in file.synced .. Len(file.log) - 1} = {}
  BY <1>2
<1> QED
  BY <1>3, <1>4 DEF Images

\* ... and of one with a record that is not: the record, or none of it, or a part.
LEMMA UnsyncedImages ==
  ASSUME NEW L \in Seq(Records), NEW e \in Records, NEW file, file.log = Append(L, e),
         file.synced \in Nat, file.synced >= Len(L), NEW log \in Images(file)
  PROVE  log = L \/ log = file.log \/ log = Append(L, Record("torn", e.r))
<1> DEFINE M == Append(L, e)
<1>1. /\ M \in Seq(Records) /\ Len(M) = Len(L) + 1 /\ Len(L) \in Nat /\ M[Len(L) + 1] = e
      /\ \A i \in 1 .. Len(L) : M[i] = L[i]
  OBVIOUS
<1> HIDE DEF M
<1>2. SubSeq(M, 1, Len(M)) = M
  BY <1>1, SubSeqFull
<1>3. SubSeq(M, 1, Len(L)) = L
  <2>1. /\ SubSeq(M, 1, Len(L)) \in Seq(Records) /\ Len(SubSeq(M, 1, Len(L))) = Len(L)
        /\ \A i \in 1 .. Len(L) : SubSeq(M, 1, Len(L))[i] = L[i]
    BY <1>1
  <2> QED
    BY <2>1, SeqEqual
<1>4. \A n \in file.synced .. Len(M) : n = Len(L) \/ n = Len(M)
  BY <1>1
<1>5. \A n \in file.synced .. Len(M) - 1 : n = Len(L)
  BY <1>1
<1>6. CASE \E n \in file.synced .. Len(M) : log = SubSeq(M, 1, n)
  BY <1>2, <1>3, <1>4, <1>6 DEF M
<1>7. CASE \E n \in file.synced .. Len(M) - 1 : log = Append(SubSeq(M, 1, n), Record("torn", M[n + 1].r))
  <2>1. PICK n \in file.synced .. Len(M) - 1 : log = Append(SubSeq(M, 1, n), Record("torn", M[n + 1].r))
    BY <1>7
  <2>2. n = Len(L)
    BY <1>5
  <2> QED
    BY <1>1, <1>3, <2>1, <2>2
<1> QED
  BY <1>6, <1>7 DEF Images, M

\* A torn record is a record.
LEMMA TornTypes ==
  ASSUME NEW r \in Requests
  PROVE  Record("torn", r) \in Records /\ Record("torn", r).kind = "torn" /\ ~ Record("torn", r).plain
BY EventLogConstants DEF Record, Records, JobStates

\* References into a log hold in a longer one.
LEMMA RefsGrow ==
  ASSUME NEW L \in Seq(Records), NEW e \in Records, NEW t, RefsHold(L, t)
  PROVE  RefsHold(Append(L, e), t)
<1>1. \A n \in DOMAIN L : n \in DOMAIN Append(L, e) /\ Append(L, e)[n] = L[n]
  OBVIOUS
<1> QED
  BY <1>1 DEF RefsHold

\* The log with the event that was under way brings back the state after it.
LEMMA UnderWayDone ==
  ASSUME NEW L, NEW t, WellKept(t), Matches(L, t), NEW e \in Records,
         Joins(t, e), e.seq = t.seq + 1, ~ e.snapshot
  PROVE  LET M == Append(L, e)
             a == [Apply(t, e, Len(M)) EXCEPT !.count = @ + 1]
         IN /\ Matches(M, a) /\ WellKept(a) /\ a.seq = e.seq /\ Kept(a) = Kept(Apply(t, e, 0))
            /\ ~ e.plain /\ t.plain = {} => a.plain = {}
<1> DEFINE acc == Replayed(L)
           M == Append(L, e)
           b == Apply(t, e, Len(M))
           a == [b EXCEPT !.count = @ + 1]
           g == Apply(acc.state, e, Len(L) + 1)
<1>1. /\ Sound(L) /\ RefsHold(L, t) /\ acc.state.seq = t.seq /\ Kept(acc.state) = Kept(t)
      /\ L \in Seq(Records) /\ acc.state \in States /\ t \in States /\ t.seq \in Nat
  BY DEF Matches, Sound, WellKept, States
<1>2. M \in Seq(Records) /\ Len(M) = Len(L) + 1 /\ Len(L) \in Nat
  BY <1>1
<1> HIDE DEF acc, M
<1>3. Follows(acc, e)
  <2>1. Joins(acc.state, e)
    BY <1>1, KeptApply
  <2> QED
    BY <1>1, <2>1 DEF Follows
<1>4. Sound(M) /\ Replayed(M).state.seq = e.seq /\ Kept(Replayed(M).state) = Kept(g)
  BY <1>1, <1>3, SoundAppend DEF acc, M
<1>5. WellKept(b) /\ RefsHold(M, b) /\ b \in States /\ b.count \in Nat
  <2>1. WellKept(Apply(t, e, Len(L) + 1)) /\ RefsHold(M, Apply(t, e, Len(L) + 1))
    BY <1>1, ApplyJoins DEF M
  <2> QED
    BY <1>2, <2>1 DEF WellKept, States
<1>6. b.seq = e.seq /\ (~ e.plain /\ t.plain = {} => b.plain = {})
  <2>1. Len(M) \in Nat
    BY <1>2
  <2>2. b.seq = e.seq
    BY <1>1, <2>1, ApplyTypes
  <2>3. b.plain = (t.plain \cap (t.requests \ e.evicted))
                    \cup (IF e.plain THEN IF e.request THEN {e.r} ELSE {} ELSE {})
    BY <1>1, <2>1, ApplyTypes
  <2> QED
    BY <2>2, <2>3
<1>7. Kept(b) = Kept(g) /\ Kept(b) = Kept(Apply(t, e, 0))
  <2>1. Len(M) \in Nat /\ Len(L) + 1 \in Nat /\ 0 \in Nat
    BY <1>2
  <2> QED
    BY <1>1, <2>1, KeptApply
<1> HIDE DEF b, g
<1>8. /\ a.seq = b.seq /\ a.plain = b.plain /\ Kept(a) = Kept(b) /\ WellKept(a) /\ RefsHold(M, a)
  <2>1. b.count + 1 \in Nat
    BY <1>5
  <2> QED
    BY <1>5, <2>1, Recounted
<1> HIDE DEF a
<1>9. Matches(M, a)
  BY <1>4, <1>6, <1>7, <1>8 DEF Matches
<1> QED
  BY <1>6, <1>7, <1>8, <1>9 DEF a, b, M

\* A snapshot brings back what was kept, and its positions are references.
LEMMA SnapshotMatches ==
  ASSUME NEW t, WellKept(t)
  PROVE  LET L == SnapshotRecords(t)
             u == [t EXCEPT !.seq = @ + Len(L), !.count = 0,
                            !.ref = [k \in Keys |-> PositionIn(L, k)]]
         IN /\ Sound(L) /\ Kept(Replayed(L).state) = Kept(t) /\ Replayed(L).state.seq >= t.seq
            /\ Matches(L, u) /\ WellKept(u) /\ Kept(u) = Kept(t) /\ u.plain = t.plain
            /\ u.seq >= t.seq
            /\ t.plain = {} => \A n \in DOMAIN L : ~ L[n].plain
<1> DEFINE L == SnapshotRecords(t)
           rf == [k \in Keys |-> PositionIn(L, k)]
           u == [t EXCEPT !.seq = @ + Len(L), !.count = 0, !.ref = rf]
           v == Replayed(L).state
<1>1. /\ Sound(L) /\ Kept(v) = Kept(t)
      /\ v.seq = IF t.requests = {} THEN 0 ELSE t.seq + Len(L)
      /\ t.requests # {} => L # <<>>
      /\ t.plain = {} => \A n \in DOMAIN L : ~ L[n].plain
  BY SnapshotSound
<1> HIDE DEF L, v
<1>2. L \in Seq(Records) /\ Len(L) \in Nat /\ t \in States /\ t.seq \in Nat /\ (L # <<>> => v.seq # 0)
      /\ DOMAIN L \subseteq Nat
  <2>1. L \in Seq(Records) /\ (L # <<>> => v.seq # 0) /\ t \in States
    BY <1>1 DEF Sound, WellKept, v
  <2>2. Len(L) \in Nat /\ DOMAIN L = 1 .. Len(L)
    BY <2>1
  <2> QED
    BY <2>1, <2>2 DEF States
<1>3. rf \in [Keys -> Nat]
  <2>1. \A k \in Keys : PositionIn(L, k) \in Nat
    BY <1>2 DEF PositionIn
  <2> QED
    BY <2>1
<1>4. v.seq = t.seq + Len(L)
  <2>1. CASE t.requests = {}
    <3>1. v.seq = 0 /\ t.seq = 0
      BY <1>1, <2>1 DEF WellKept
    <3>2. L = <<>>
      BY <1>2, <3>1
    <3> QED
      BY <3>1, <3>2
  <2>2. CASE t.requests # {}
    BY <1>1, <2>2
  <2> QED
    BY <2>1, <2>2
<1> HIDE DEF rf
<1>5. /\ u \in States /\ u.seq = t.seq + Len(L) /\ u.requests = t.requests /\ u.plain = t.plain
      /\ u.job = t.job /\ u.attempts = t.attempts /\ u.ref = rf
  <2>1. t.seq + Len(L) \in Nat
    BY <1>2
  <2> DEFINE m == t.seq + Len(L)
  <2> HIDE DEF m
  <2>2. u = [t EXCEPT !.seq = m, !.count = 0, !.ref = rf]
    BY <1>2 DEF m, States
  <2> HIDE DEF u
  <2>3. m \in Nat
    BY <2>1 DEF m
  <2>4. /\ u \in States /\ u.seq = m /\ u.requests = t.requests /\ u.plain = t.plain
        /\ u.job = t.job /\ u.attempts = t.attempts /\ u.ref = rf
    BY <1>2, <1>3, <2>2, <2>3 DEF States
  <2> QED
    BY <2>4 DEF m
<1> HIDE DEF u
<1>6. Kept(u) = Kept(t)
  BY <1>5 DEF Kept
<1>7. WellKept(u)
  <2>1. u.seq # 0 => u.requests # {}
    BY <1>1, <1>2, <1>4, <1>5
  <2> QED
    BY <1>5, <2>1 DEF WellKept
<1>8. RefsHold(L, u)
  <2> SUFFICES ASSUME NEW q \in u.requests, NEW i \in 0 .. u.attempts[q]
               PROVE  u.ref[<<q, i>>] \in DOMAIN L /\ Holds(L[u.ref[<<q, i>>]], <<q, i>>)
    BY DEF RefsHold
  <2>1. q \in Requests /\ u.attempts[q] \in 0 .. MaxAttempts
    BY <1>5 DEF States
  <2>2. <<q, i>> \in Keys
    BY <2>1, KeyTypes
  <2>3. v.requests = u.requests /\ v.attempts = u.attempts /\ RefsHold(L, v)
    BY <1>1, <1>5 DEF Kept, Sound, v
  <2>4. v.ref[<<q, i>>] \in DOMAIN L /\ Holds(L[v.ref[<<q, i>>]], <<q, i>>)
    BY <2>3 DEF RefsHold
  <2>5. PositionIn(L, <<q, i>>) \in DOMAIN L /\ Holds(L[PositionIn(L, <<q, i>>)], <<q, i>>)
    BY <2>4 DEF PositionIn
  <2> QED
    BY <1>5, <2>2, <2>5 DEF rf
<1>9. Matches(L, u)
  BY <1>1, <1>4, <1>5, <1>6, <1>8 DEF Matches, v
<1>10. v.seq >= t.seq /\ u.seq >= t.seq
  BY <1>2, <1>4, <1>5
<1> QED
  BY <1>1, <1>5, <1>6, <1>7, <1>9, <1>10 DEF L, u, v, rf

\* A record gets its number.
LEMMA WithNumber ==
  ASSUME NEW e \in Records, NEW n \in Nat
  PROVE  LET d == [e EXCEPT !.seq = n]
         IN /\ d \in Records /\ d.kind = e.kind /\ d.r = e.r /\ d.seq = n
            /\ d.snapshot = e.snapshot /\ d.request = e.request /\ d.job = e.job
            /\ d.attempt = e.attempt /\ d.evicted = e.evicted /\ d.plain = e.plain
BY DEF Records

\* An event the store appends is one that recovery takes.
LEMMA EventJoins ==
  ASSUME s \in States, NEW e \in Events, NEW d, d = [e EXCEPT !.seq = s.seq + 1],
         ValidState(s, d)
  PROVE  /\ d \in Records /\ Joins(s, d)
         /\ d.seq = s.seq + 1 /\ ~ d.snapshot /\ ~ d.plain /\ e.r \in Requests
<1>1. /\ s.seq + 1 \in Nat /\ s.seq + 1 # 0 /\ s.requests \in SUBSET Requests /\ MaxAttempts \in Nat
      /\ s.attempts \in [Requests -> 0 .. MaxAttempts]
  BY EventLogConstants DEF States
<1>2. {"none", "pending", "leased", "retrying", "succeeded"} = JobStates /\ 0 \in 0 .. MaxAttempts
  BY <1>1 DEF JobStates
<1>3. CASE e \in Captures
  <2>1. PICK r \in Requests \ s.requests, j \in {"none", "pending"}, out \in SUBSET Finished :
          e = Capture(r, j, out)
    BY <1>3 DEF Captures
  <2>2. out \in SUBSET Requests /\ r \notin out /\ j \in JobStates
    BY <1>1, <1>2 DEF Finished
  <2>3. /\ e \in Records /\ e.kind = "capture" /\ e.r = r /\ ~ e.snapshot /\ e.request = TRUE
        /\ e.job = j /\ e.attempt = 0 /\ e.evicted = out /\ ~ e.plain
    BY <1>2, <2>1, <2>2 DEF Capture, Record, Records
  <2>4. /\ d \in Records /\ d.kind = "capture" /\ d.r = r /\ d.seq = s.seq + 1 /\ ~ d.snapshot
        /\ d.request /\ d.job = j /\ d.attempt = 0 /\ d.evicted = out /\ ~ d.plain /\ e.r = r
    BY <1>1, <2>3, WithNumber
  <2> QED
    BY <1>1, <2>2, <2>4 DEF Joins
<1>4. CASE e \in JobEvents
  <2>1. PICK r \in s.requests, j \in JobStates \ {"none"} : e = [Record("job", r) EXCEPT !.job = j]
    BY <1>4 DEF JobEvents
  <2>2. /\ e \in Records /\ e.kind = "job" /\ e.r = r /\ ~ e.snapshot
        /\ e.job = j /\ e.attempt = 0 /\ e.evicted = {} /\ ~ e.plain
    BY <1>1, <1>2, <2>1 DEF Record, Records
  <2>3. r \in Requests /\ j \in JobStates /\ j # "none"
    BY <1>1
  <2>4. /\ d \in Records /\ d.kind = "job" /\ d.r = r /\ d.seq = s.seq + 1 /\ ~ d.snapshot
        /\ d.job = j /\ d.attempt = 0 /\ d.evicted = {} /\ ~ d.plain /\ e.r = r
    BY <1>1, <2>2, WithNumber
  <2> QED
    BY <1>1, <2>3, <2>4 DEF Joins
<1>5. CASE e \in AttemptEvents /\ e.attempt <= MaxAttempts
  <2>1. PICK r \in s.requests, j \in {"retrying", "succeeded"} :
          e = Attempt(r, j, s.attempts[r] + 1)
    BY <1>5 DEF AttemptEvents
  <2> DEFINE a == s.attempts[r] + 1
  <2>2. r \in Requests /\ a \in Nat /\ a # 0
    BY <1>1
  <2> HIDE DEF a
  <2>3. e = Attempt(r, j, a)
    BY <2>1 DEF a
  <2>4. e.attempt = a
    BY <2>3 DEF Attempt, Record
  <2>5. a \in 0 .. MaxAttempts /\ j \in JobStates /\ j # "none"
    BY <1>1, <1>2, <1>5, <2>2, <2>4
  <2>6. /\ e \in Records /\ e.kind = "job" /\ e.r = r /\ ~ e.snapshot
        /\ e.job = j /\ e.evicted = {} /\ ~ e.plain
    BY <1>2, <2>2, <2>3, <2>5 DEF Attempt, Record, Records
  <2>7. /\ d \in Records /\ d.kind = "job" /\ d.r = r /\ d.seq = s.seq + 1 /\ ~ d.snapshot
        /\ d.job = j /\ d.attempt = a /\ d.evicted = {} /\ ~ d.plain /\ e.r = r
    BY <1>1, <2>4, <2>6, WithNumber
  <2>8. d.attempt = s.attempts[d.r] + 1
    BY <2>7 DEF a
  <2> QED
    BY <1>1, <2>2, <2>5, <2>7, <2>8 DEF Joins
<1> QED
  BY <1>3, <1>4, <1>5 DEF Events

\* So is what an earlier version has left.
LEMMA LegacySound ==
  ASSUME NEW log \in LegacyLogs
  PROVE  Sound(log)
<1> DEFINE d1(r) == [Legacy(r, {}) EXCEPT !.seq = 1]
           d2(q, r) == [Legacy(q, {r}) EXCEPT !.seq = 2]
<1>1. ASSUME NEW r \in Requests
      PROVE  /\ d1(r) \in Records /\ d1(r).kind = "capture" /\ d1(r).r = r /\ d1(r).seq = 1
             /\ d1(r).request /\ d1(r).job = "none" /\ d1(r).attempt = 0 /\ d1(r).evicted = {}
             /\ ~ d1(r).snapshot
  <2> DEFINE e == Legacy(r, {})
  <2>1. "none" \in JobStates /\ 0 \in 0 .. MaxAttempts
    BY EventLogConstants DEF JobStates
  <2>2. /\ e \in Records /\ e.kind = "capture" /\ e.r = r /\ ~ e.snapshot /\ e.request = TRUE
        /\ e.job = "none" /\ e.attempt = 0 /\ e.evicted = {}
    BY <2>1 DEF Legacy, Record, Records
  <2> HIDE DEF e
  <2>3. d1(r) = [e EXCEPT !.seq = 1]
    BY DEF e
  <2> HIDE DEF d1
  <2> QED
    BY <2>2, <2>3, WithNumber
<1>2. ASSUME NEW q \in Requests, NEW r \in Requests
      PROVE  /\ d2(q, r) \in Records /\ d2(q, r).kind = "capture" /\ d2(q, r).r = q
             /\ d2(q, r).seq = 2 /\ d2(q, r).request /\ d2(q, r).job = "none"
             /\ d2(q, r).attempt = 0 /\ d2(q, r).evicted = {r} /\ ~ d2(q, r).snapshot
  <2> DEFINE e == Legacy(q, {r})
  <2>1. "none" \in JobStates /\ 0 \in 0 .. MaxAttempts /\ {r} \in SUBSET Requests
    BY EventLogConstants DEF JobStates
  <2>2. /\ e \in Records /\ e.kind = "capture" /\ e.r = q /\ ~ e.snapshot /\ e.request = TRUE
        /\ e.job = "none" /\ e.attempt = 0 /\ e.evicted = {r}
    BY <2>1 DEF Legacy, Record, Records
  <2> HIDE DEF e
  <2>3. d2(q, r) = [e EXCEPT !.seq = 2]
    BY DEF e
  <2> HIDE DEF d2
  <2> QED
    BY <2>2, <2>3, WithNumber
<1>3. ASSUME NEW r \in Requests
      PROVE  /\ Sound(Append(<<>>, d1(r))) /\ Replayed(Append(<<>>, d1(r))).state.seq = 1
             /\ Replayed(Append(<<>>, d1(r))).state.requests = {r}
  <2> DEFINE d == d1(r)
             a == Apply(Empty, d, 0 + 1)
  <2>1. /\ d \in Records /\ d.kind = "capture" /\ d.r = r /\ d.seq = 1
        /\ d.request /\ d.job = "none" /\ d.attempt = 0 /\ d.evicted = {} /\ ~ d.snapshot
    BY <1>1
  <2> HIDE DEF d, d1
  <2>2. /\ Sound(<<>>) /\ Replayed(<<>>).state = Empty /\ Empty.seq = 0 /\ Empty.requests = {}
        /\ Empty \in States /\ Len(<<>>) = 0
    BY NothingSound, FreshTypes
  <2>3. Joins(Empty, d)
    BY <2>1, <2>2 DEF Joins, ValidState
  <2>4. Follows(Replayed(<<>>), d)
    BY <2>1, <2>2, <2>3 DEF Follows
  <2>5. a.requests = {r}
    <3>1. Applied(a, Empty, d)
      BY <2>1, <2>2, ApplyKept
    <3> QED
      BY <2>1, <2>2, <3>1 DEF Applied
  <2> HIDE DEF a
  <2>6. /\ Sound(Append(<<>>, d)) /\ Replayed(Append(<<>>, d)).state.seq = d.seq
        /\ Replayed(Append(<<>>, d)).state.requests = a.requests
    BY <2>1, <2>2, <2>4, SoundAppend DEF a
  <2> QED
    BY <2>1, <2>5, <2>6 DEF d
<1>4. ASSUME NEW r \in Requests, NEW q \in Requests \ {r}
      PROVE  Sound(Append(Append(<<>>, d1(r)), d2(q, r)))
  <2> DEFINE d == d2(q, r)
             L == Append(<<>>, d1(r))
             t == Replayed(L).state
  <2>1. /\ d \in Records /\ d.kind = "capture" /\ d.r = q /\ d.seq = 2 /\ d.request
        /\ d.job = "none" /\ d.attempt = 0 /\ d.evicted = {r} /\ ~ d.snapshot
    BY <1>2
  <2>2. Sound(L) /\ t.seq = 1 /\ t.requests = {r}
    BY <1>3
  <2> HIDE DEF d, L, d1, d2
  <2>3. Joins(t, d)
    BY <2>1, <2>2 DEF Joins, ValidState
  <2>4. Follows(Replayed(L), d)
    BY <2>1, <2>2, <2>3 DEF Follows
  <2> QED
    BY <2>1, <2>2, <2>4, SoundAppend DEF d, L
<1>5. ASSUME NEW r \in Requests
      PROVE  Numbered(<<Legacy(r, {})>>) = Append(<<>>, d1(r))
  <2>1. DOMAIN <<Legacy(r, {})>> = 1 .. 1
    OBVIOUS
  <2> QED
    BY <2>1 DEF Numbered
<1>6. ASSUME NEW r \in Requests, NEW q \in Requests \ {r}
      PROVE  Numbered(<<Legacy(r, {}), Legacy(q, {r})>>) = Append(Append(<<>>, d1(r)), d2(q, r))
  <2> DEFINE x == <<Legacy(r, {}), Legacy(q, {r})>>
  <2>1. DOMAIN x = 1 .. 2 /\ x[1] = Legacy(r, {}) /\ x[2] = Legacy(q, {r})
    OBVIOUS
  <2> HIDE DEF x
  <2>2. Numbered(x) = [i \in 1 .. 2 |-> IF i = 1 THEN d1(r) ELSE d2(q, r)]
    BY <2>1 DEF Numbered
  <2> HIDE DEF d1, d2
  <2>3. [i \in 1 .. 2 |-> IF i = 1 THEN d1(r) ELSE d2(q, r)] = <<d1(r), d2(q, r)>>
    OBVIOUS
  <2>4. <<d1(r), d2(q, r)>> = Append(Append(<<>>, d1(r)), d2(q, r))
    OBVIOUS
  <2> QED
    BY <2>2, <2>3, <2>4 DEF x
<1> HIDE DEF d1, d2
<1>7. CASE \E r \in Requests : log = Numbered(<<Legacy(r, {})>>)
  BY <1>3, <1>5, <1>7
<1>8. CASE \E r \in Requests : \E q \in Requests \ {r} :
             log = Numbered(<<Legacy(r, {}), Legacy(q, {r})>>)
  BY <1>4, <1>6, <1>8
<1> QED
  BY <1>7, <1>8 DEF LegacyLogs

-----------------------------------------------------------------------------
(* The invariant holds at first, and through the end of a process *)

LEMMA NoFileTypes ==
  /\ NoFile \in [log: Seq(Records), synced: Nat]
  /\ NoFile.log = <<>> /\ NoFile.synced = 0 /\ Len(NoFile.log) = 0
<1>1. <<>> \in Seq(Records) /\ Len(<<>>) = 0
  OBVIOUS
<1> QED
  BY <1>1 DEF NoFile

\* What a crash leaves of a log is a log.
LEMMA ImageTypes ==
  ASSUME NEW file \in [log: Seq(Records), synced: Nat], NEW log \in Images(file)
  PROVE  log \in Seq(Records) /\ Len(log) \in Nat
<1> DEFINE L == file.log
<1>1. L \in Seq(Records) /\ file.synced \in Nat /\ Len(L) \in Nat
  OBVIOUS
<1>2. ASSUME NEW n \in file.synced .. Len(L)
      PROVE  SubSeq(L, 1, n) \in Seq(Records)
  <2>1. n \in Nat /\ \A i \in 1 .. n : L[i] \in Records
    BY <1>1
  <2> HIDE DEF L
  <2> QED
    BY <2>1, SubSeqProperties
<1>3. CASE \E n \in file.synced .. Len(L) : log = SubSeq(L, 1, n)
  <2>1. log \in Seq(Records)
    BY <1>2, <1>3
  <2> QED
    BY <2>1
<1>4. CASE \E n \in file.synced .. Len(L) - 1 :
             log = Append(SubSeq(L, 1, n), Record("torn", L[n + 1].r))
  <2>1. PICK n \in file.synced .. Len(L) - 1 :
               log = Append(SubSeq(L, 1, n), Record("torn", L[n + 1].r))
    BY <1>4
  <2>2. n \in file.synced .. Len(L) /\ n + 1 \in 1 .. Len(L)
    BY <1>1
  <2>3. L[n + 1].r \in Requests
    <3>1. L[n + 1] \in Records
      BY <1>1, <2>2
    <3> QED
      BY <3>1 DEF Records
  <2>4. Record("torn", L[n + 1].r) \in Records
    BY <2>3, TornTypes
  <2> HIDE DEF L
  <2>5. SubSeq(L, 1, n) \in Seq(Records)
    BY <1>2, <2>2
  <2>6. log \in Seq(Records)
    BY <2>1, <2>4, <2>5
  <2> QED
    BY <2>6
<1> QED
  BY <1>3, <1>4 DEF Images

\* What is cut off a log is its end.
LEMMA WholeShorter ==
  ASSUME NEW L \in Seq(Records)
  PROVE  Len(WholeRecords(L)) <= Len(L) /\ Len(WholeRecords(L)) \in Nat
<1>1. CASE L # <<>> /\ Last(L).kind = "torn"
  <2>1. Len(L) - 1 \in Nat /\ Len(L) \in Nat /\ \A i \in 1 .. Len(L) - 1 : L[i] \in Records
    BY <1>1
  <2>2. Len(Front(L)) = Len(L) - 1
    <3>1. Len(SubSeq(L, 1, Len(L) - 1)) = Len(L) - 1
      <4> DEFINE n == Len(L) - 1
      <4>1. n \in Nat /\ 1 \in Int /\ n \in Int /\ \A i \in 1 .. n : L[i] \in Records
        BY <2>1
      <4> HIDE DEF n
      <4>2. Len(SubSeq(L, 1, n)) = IF 1 <= n THEN n - 1 + 1 ELSE 0
        BY <4>1, SubSeqProperties
      <4>3. Len(SubSeq(L, 1, n)) = n
        BY <4>1, <4>2
      <4> QED
        BY <4>3 DEF n
    <3> QED
      BY <3>1 DEF Front
  <2> QED
    BY <1>1, <2>1, <2>2 DEF WholeRecords
<1>2. CASE ~ (L # <<>> /\ Last(L).kind = "torn")
  BY <1>2 DEF WholeRecords
<1> QED
  BY <1>1, <1>2

\* A log that is on the disk, or none, before the first start.
LEMMA InitKeeps ==
  ASSUME Init
  PROVE  LogInvariant
<1>1. \E log \in Seq(Records) :
        /\ Sound(log) /\ (dir = "none" => log = <<>>)
        /\ files = [name \in Names |->
                      IF name = dir THEN [log |-> log, synced |-> Len(log)] ELSE NoFile]
        /\ allowed = {Kept(Recovered(log).state)}
  <2>1. CASE NewInstallation
    <3>1. /\ Sound(<<>>) /\ <<>> \in Seq(Records) /\ Len(<<>>) = 0
          /\ Recovered(<<>>).state = Empty
      BY NothingSound, WholeSound, FreshTypes
    <3>2. files = [name \in Names |->
                     IF name = dir THEN [log |-> <<>>, synced |-> Len(<<>>)] ELSE NoFile]
      BY <2>1 DEF NewInstallation, NoFile
    <3> QED
      BY <2>1, <3>1, <3>2 DEF NewInstallation
  <2>2. CASE ExistingLog
    <3>1. PICK log \in LegacyLogs :
            /\ files = [name \in Names |->
                          IF name = "a" THEN [log |-> log, synced |-> Len(log)] ELSE NoFile]
            /\ allowed = {Kept(Recovered(log).state)}
      BY <2>2 DEF ExistingLog
    <3>2. Sound(log) /\ log \in Seq(Records)
      BY LegacySound DEF Sound
    <3> QED
      BY <2>2, <3>1, <3>2 DEF ExistingLog
  <2> QED
    BY <2>1, <2>2 DEF Init
<1>2. PICK log \in Seq(Records) :
        /\ Sound(log) /\ (dir = "none" => log = <<>>)
        /\ files = [name \in Names |->
                      IF name = dir THEN [log |-> log, synced |-> Len(log)] ELSE NoFile]
        /\ allowed = {Kept(Recovered(log).state)}
  BY <1>1
<1>3. /\ dir \in Names /\ dirSynced = dir /\ f = dir /\ s = Empty /\ health = "ok"
      /\ proc = "down" /\ pc = "idle" /\ reader = NoReader /\ machine \in Machines /\ shown = 0
      /\ Len(log) \in Nat /\ f # "closed" /\ "none" \in Names
  BY DEF Init, NewInstallation, ExistingLog, Names
<1>4. /\ files \in Files /\ files[dir].log = log /\ files[dir].synced = Len(log)
      /\ files["none"] = NoFile
      /\ \A name \in Names : files[name].synced <= Len(files[name].log)
      /\ \A name \in Names \ {dir} : files[name] = NoFile
  <2> DEFINE d == [log |-> log, synced |-> Len(log)]
  <2>1. d \in [log: Seq(Records), synced: Nat] /\ d.log = log /\ d.synced = Len(log)
    BY <1>3
  <2>2. log = <<>> => d = NoFile
    BY DEF NoFile
  <2> HIDE DEF d
  <2>3. \A name \in Names : files[name] = IF name = dir THEN d ELSE NoFile
    BY <1>2 DEF d
  <2>4. files \in Files
    BY <1>2, <2>1, NoFileTypes DEF Files, d
  <2>5. \A name \in Names : files[name].synced <= Len(files[name].log)
    BY <1>3, <2>1, <2>3, NoFileTypes
  <2> QED
    BY <1>2, <1>3, <2>1, <2>2, <2>3, <2>4, <2>5
<1>5. Good(log)
  <2>1. Replayed(log).state.seq \in Nat
    BY <1>2 DEF Sound, WellKept, States
  <2>2. Kept(Replayed(log).state) \in allowed
    BY <1>2, WholeSound
  <2> QED
    BY <1>2, <1>3, <2>1, <2>2, GoodLogs DEF Good
<1>6. LogTypes
  <2>1. IsFiniteSet({})
    BY FS_EmptySet
  <2> QED
    BY <1>3, <1>4, <2>1, FreshTypes DEF LogTypes, NoReader, Names
<1>7. CrashesAreGood
  <2>1. Images(files[dir]) = {log}
    BY <1>2, <1>4, SyncedImages
  <2> QED
    BY <1>3, <1>4, <1>5, <2>1 DEF CrashesAreGood, NextLogs
<1>8. Phases /\ DiskIsSynced /\ MemoryIsLogged /\ FileIsOpen /\ LogIsRedacted /\ ReadingIsSafe
  BY <1>3, <1>4 DEF Phases, DiskIsSynced, MemoryIsLogged, Healthy, FileIsOpen, LogIsRedacted,
                    ReadingIsSafe, NoReader
<1> QED
  BY <1>6, <1>7, <1>8 DEF LogInvariant

LEMMA KillKeeps ==
  ASSUME LogInvariant, OneKindOfCrash, "kill" \in machine, Kill, machine' = machine
  PROVE  LogInvariant'
<1>1. /\ LogTypes /\ CrashesAreGood /\ FileIsOpen /\ "power" \notin machine
  BY DEF LogInvariant, OneKindOfCrash, LogTypes
<1>2. /\ proc' = "down" /\ s' = Empty /\ health' = "ok" /\ pc' = "idle" /\ reader' = NoReader
      /\ files' = [name \in Names |-> IF name \in {dir, dirSynced} THEN files[name] ELSE NoFile]
      /\ dir' = dir /\ dirSynced' = dirSynced /\ f' = f /\ allowed' = allowed /\ shown' = shown
  BY DEF Kill, Gone, history
<1>3. /\ files \in Files /\ dir \in Names
      /\ \A name \in Names : files[name] \in [log: Seq(Records), synced: Nat]
  BY <1>1 DEF LogTypes, Files
<1>4. /\ files' \in Files /\ files'[dir] = files[dir] /\ files'["none"] = NoFile
      /\ \A name \in Names \ {dir, dirSynced} : files'[name] = NoFile
      /\ \A name \in Names : files'[name].synced <= Len(files'[name].log)
  <2>1. files' \in Files
    BY <1>2, <1>3, NoFileTypes DEF Files
  <2>2. \A name \in Names : files'[name] = files[name] \/ files'[name] = NoFile
    BY <1>2
  <2> QED
    BY <1>1, <1>2, <1>3, <2>1, <2>2, NoFileTypes DEF LogTypes, Names
<1>5. LogTypes'
  <2>1. IsFiniteSet({})
    BY FS_EmptySet
  <2> QED
    BY <1>1, <1>2, <1>4, <2>1, FreshTypes DEF LogTypes, NoReader, Names
<1>6. CrashesAreGood'
  <2>1. Good(files[dir].log)
    BY <1>1 DEF CrashesAreGood, NextLogs
  <2> QED
    BY <1>1, <1>2, <1>4, <2>1 DEF CrashesAreGood, NextLogs, Good
<1>7. FileIsOpen'
  BY <1>1, <1>2 DEF FileIsOpen, Healthy, Windows
<1>8. Phases' /\ DiskIsSynced' /\ MemoryIsLogged' /\ LogIsRedacted' /\ ReadingIsSafe'
  BY <1>1, <1>2 DEF Phases, DiskIsSynced, MemoryIsLogged, Healthy, LogIsRedacted,
                    ReadingIsSafe, NoReader
<1> QED
  BY <1>5, <1>6, <1>7, <1>8 DEF LogInvariant

LEMMA PowerLossKeeps ==
  ASSUME LogInvariant, OneKindOfCrash, "power" \in machine, PowerLoss, machine' = machine
  PROVE  LogInvariant'
<1>1. LogTypes /\ CrashesAreGood /\ FileIsOpen /\ "kill" \notin machine
  BY DEF LogInvariant, OneKindOfCrash, LogTypes
<1>2. /\ proc' = "down" /\ s' = Empty /\ health' = "ok" /\ pc' = "idle" /\ reader' = NoReader
      /\ f' = f /\ allowed' = allowed /\ shown' = shown
  BY DEF PowerLoss, Gone, history
<1>3. PICK name \in {dir, dirSynced} : \E log \in Images(files[name]) :
        /\ files' = [n \in Names |-> IF n = name THEN [log |-> log, synced |-> Len(log)] ELSE NoFile]
        /\ dir' = name /\ dirSynced' = name
  BY DEF PowerLoss
<1>4. PICK log \in Images(files[name]) :
        /\ files' = [n \in Names |-> IF n = name THEN [log |-> log, synced |-> Len(log)] ELSE NoFile]
        /\ dir' = name /\ dirSynced' = name
  BY <1>3
<1>5. name \in Names /\ files[name] \in [log: Seq(Records), synced: Nat]
  BY <1>1 DEF LogTypes, Files
<1>6. log \in Seq(Records) /\ Len(log) \in Nat
  BY <1>5, ImageTypes
<1>7. /\ files' \in Files /\ files'[name].log = log /\ files'[name].synced = Len(log)
      /\ files'["none"] = NoFile /\ \A n \in Names \ {name} : files'[n] = NoFile
      /\ \A n \in Names : files'[n].synced <= Len(files'[n].log)
  <2> DEFINE a == [log |-> log, synced |-> Len(log)]
  <2>1. a \in [log: Seq(Records), synced: Nat] /\ a.log = log /\ a.synced = Len(log)
    BY <1>6
  <2>2. name = "none" => a = NoFile
    <3>1. Images(NoFile) = {<<>>}
      BY NoFileTypes, SyncedImages
    <3>2. name = "none" => log = <<>>
      BY <1>1, <3>1 DEF LogTypes
    <3> QED
      BY <3>2, NoFileTypes DEF NoFile
  <2> HIDE DEF a
  <2>3. \A n \in Names : files'[n] = IF n = name THEN a ELSE NoFile
    BY <1>4 DEF a
  <2>4. files' \in Files
    BY <1>4, <2>1, NoFileTypes DEF Files, a
  <2>5. \A n \in Names : files'[n].synced <= Len(files'[n].log)
    BY <1>6, <2>1, <2>3, NoFileTypes
  <2> QED
    BY <1>5, <2>1, <2>2, <2>3, <2>4, <2>5 DEF Names
<1>8. LogTypes'
  <2>1. IsFiniteSet({})
    BY FS_EmptySet
  <2> QED
    BY <1>1, <1>2, <1>4, <1>5, <1>7, <2>1, FreshTypes DEF LogTypes, NoReader, Names
<1>9. CrashesAreGood'
  <2>1. Good(log)
    BY <1>1, <1>3 DEF CrashesAreGood, NextLogs
  <2>2. Images(files'[name]) = {log}
    BY <1>6, <1>7, SyncedImages
  <2>3. Good(log)'
    BY <1>2, <2>1 DEF Good
  <2>4. NextLogs' \subseteq {log}
    BY <1>1, <1>4, <2>2 DEF NextLogs
  <2>5. files'[dir'].log = log
    BY <1>4, <1>7
  <2>6. \A n \in Names \ {dir', dirSynced'} : files'[n] = NoFile
    BY <1>4, <1>7
  <2> QED
    BY <2>3, <2>4, <2>5, <2>6 DEF CrashesAreGood
<1>10. FileIsOpen'
  BY <1>1, <1>2 DEF FileIsOpen, Healthy, Windows
<1>11. Phases' /\ DiskIsSynced' /\ MemoryIsLogged' /\ LogIsRedacted' /\ ReadingIsSafe'
  BY <1>2, <1>4, <1>7 DEF Phases, DiskIsSynced, MemoryIsLogged, Healthy, LogIsRedacted,
                          ReadingIsSafe, NoReader
<1> QED
  BY <1>8, <1>9, <1>10, <1>11 DEF LogInvariant

-----------------------------------------------------------------------------
(* The invariant holds through an open, an append, a read and a compaction *)

\* What a crash may leave is as good as before when no file it can reach changes.
LEMMA SameLogs ==
  ASSUME CrashesAreGood, machine' = machine, dir' = dir, dirSynced' = dirSynced,
         files'[dir] = files[dir], files'[dirSynced] = files[dirSynced],
         allowed' = allowed, shown' = shown, proc' = "down" => proc = "down" /\ files' = files
  PROVE  CrashesAreGood'
<1>1. \A log \in NextLogs' : log \in NextLogs
  BY DEF NextLogs
<1> QED
  BY <1>1 DEF CrashesAreGood, Good

\* The name for a new file is none that a crash may leave.
LEMMA TmpIsFree ==
  ASSUME dir \in Names, dirSynced \in Names
  PROVE  Tmp \in Names /\ Tmp # dir /\ Tmp # dirSynced /\ Tmp # "none"
<1>1. \E name \in Names \ {"none"} : name \notin {dir, dirSynced}
  BY DEF Names
<1> QED
  BY <1>1 DEF Tmp

LEMMA StutterKeeps ==
  ASSUME LogInvariant, UNCHANGED vars
  PROVE  LogInvariant'
<1>1. /\ files' = files /\ dir' = dir /\ dirSynced' = dirSynced /\ f' = f /\ s' = s
      /\ health' = health /\ proc' = proc /\ pc' = pc /\ reader' = reader /\ machine' = machine
      /\ allowed' = allowed /\ shown' = shown
  BY DEF vars, disk, history
<1>2. CrashesAreGood'
  BY <1>1, SameLogs DEF LogInvariant
<1>3. LogTypes' /\ Phases' /\ DiskIsSynced'
  BY <1>1 DEF LogInvariant, LogTypes, Phases, DiskIsSynced
<1>4. MemoryIsLogged'
  BY <1>1 DEF LogInvariant, MemoryIsLogged, Healthy, UnderWay, Tmp
<1>5. FileIsOpen' /\ LogIsRedacted' /\ ReadingIsSafe'
  BY <1>1 DEF LogInvariant, FileIsOpen, Healthy, Windows, LogIsRedacted, ReadingIsSafe, Finds
<1> QED
  BY <1>2, <1>3, <1>4, <1>5 DEF LogInvariant

LEMMA LoadBeginKeeps ==
  ASSUME LogInvariant, NEW r \in Requests, LoadBegin(r), machine' = machine
  PROVE  LogInvariant'
<1>1. /\ files' = files /\ dir' = dir /\ dirSynced' = dirSynced /\ f' = f /\ s' = s
      /\ health' = health /\ proc' = proc /\ pc' = pc /\ allowed' = allowed /\ shown' = shown
      /\ proc = "up" /\ pc = "idle" /\ r \in s.requests
      /\ reader' = [pc |-> "reading", file |-> f,
                    wants |-> {<<k, s.ref[k]>> : k \in {r} \X (0 .. s.attempts[r])}]
  BY DEF LoadBegin, disk, history
<1>2. CrashesAreGood'
  BY <1>1, SameLogs DEF LogInvariant
<1>3. LogTypes' /\ Phases' /\ DiskIsSynced'
  BY <1>1 DEF LogInvariant, LogTypes, Phases, DiskIsSynced
<1>4. MemoryIsLogged'
  BY <1>1 DEF LogInvariant, MemoryIsLogged, Healthy, UnderWay, Tmp
<1>5. FileIsOpen' /\ LogIsRedacted'
  BY <1>1 DEF LogInvariant, FileIsOpen, Healthy, Windows, LogIsRedacted
<1>6. ReadingIsSafe'
  <2>1. ASSUME f # "closed", NEW i \in 0 .. s.attempts[r]
        PROVE  Finds(f, <<r, i>>, s.ref[<<r, i>>])
    BY <1>1, <2>1 DEF LogInvariant, FileIsOpen, RefsHold, Finds
  <2>2. ASSUME f # "closed", NEW w \in reader'.wants
        PROVE  Finds(f, w[1], w[2])
    <3>1. PICK i \in 0 .. s.attempts[r] : w = <<<<r, i>>, s.ref[<<r, i>>]>>
      BY <1>1
    <3> QED
      BY <2>1, <2>2, <3>1
  <2> QED
    BY <1>1, <2>2 DEF ReadingIsSafe, Finds
<1> QED
  BY <1>2, <1>3, <1>4, <1>5, <1>6 DEF LogInvariant

LEMMA LoadReadKeeps ==
  ASSUME LogInvariant, LoadRead, machine' = machine
  PROVE  LogInvariant'
<1>1. /\ files' = files /\ dir' = dir /\ dirSynced' = dirSynced /\ f' = f /\ s' = s
      /\ health' = health /\ proc' = proc /\ pc' = pc /\ allowed' = allowed /\ shown' = shown
      /\ reader.pc = "reading" /\ reader'.pc \in {"idle", "failed"} /\ reader'.file = "a"
  BY DEF LoadRead, NoReader, disk, history
<1>2. CrashesAreGood'
  BY <1>1, SameLogs DEF LogInvariant
<1>3. LogTypes' /\ DiskIsSynced' /\ ReadingIsSafe'
  BY <1>1 DEF LogInvariant, LogTypes, DiskIsSynced, ReadingIsSafe, Names
<1>4. Phases'
  BY <1>1 DEF LogInvariant, Phases, ReadingIsSafe
<1>5. MemoryIsLogged'
  BY <1>1 DEF LogInvariant, MemoryIsLogged, Healthy, UnderWay, Tmp
<1>6. FileIsOpen' /\ LogIsRedacted'
  BY <1>1 DEF LogInvariant, FileIsOpen, Healthy, Windows, LogIsRedacted
<1> QED
  BY <1>2, <1>3, <1>4, <1>5, <1>6 DEF LogInvariant

LEMMA LoadPoisonKeeps ==
  ASSUME LogInvariant, LoadPoison, machine' = machine
  PROVE  LogInvariant'
<1>1. /\ files' = files /\ dir' = dir /\ dirSynced' = dirSynced /\ f' = f /\ s' = s
      /\ health' = "poisoned" /\ proc' = proc /\ pc' = pc /\ allowed' = allowed /\ shown' = shown
      /\ reader.pc = "failed" /\ reader' = NoReader /\ pc = "idle"
  BY DEF LoadPoison, disk, history
<1>2. CrashesAreGood'
  BY <1>1, SameLogs DEF LogInvariant
<1>3. LogTypes'
  BY <1>1 DEF LogInvariant, LogTypes, NoReader, Names
<1>4. Phases'
  BY <1>1 DEF LogInvariant, Phases, NoReader
<1>5. DiskIsSynced' /\ MemoryIsLogged' /\ FileIsOpen' /\ LogIsRedacted' /\ ReadingIsSafe'
  BY <1>1 DEF LogInvariant, DiskIsSynced, MemoryIsLogged, Healthy, FileIsOpen, Windows,
              LogIsRedacted, ReadingIsSafe, NoReader
<1> QED
  BY <1>2, <1>3, <1>4, <1>5 DEF LogInvariant

\* A file that is written.
LEMMA PutTypes ==
  ASSUME LogTypes, NEW name \in Names, NEW log \in Seq(Records), NEW n \in Nat, n <= Len(log),
         Put(name, log, n), name # "none"
  PROVE  /\ files' \in Files /\ files'[name].log = log /\ files'[name].synced = n
         /\ \A x \in Names : files'[x].synced <= Len(files'[x].log)
         /\ \A x \in Names \ {name} : files'[x] = files[x]
         /\ files'["none"] = NoFile
<1> DEFINE a == [log |-> log, synced |-> n]
<1>1. a \in [log: Seq(Records), synced: Nat] /\ a.log = log /\ a.synced = n
  OBVIOUS
<1> HIDE DEF a
<1>2. files' = [files EXCEPT ![name] = a] /\ files \in Files
  BY DEF Put, LogTypes, a
<1>3. files' \in Files /\ files'[name] = a /\ \A x \in Names \ {name} : files'[x] = files[x]
  BY <1>1, <1>2 DEF Files
<1> QED
  BY <1>1, <1>3 DEF LogTypes, Names

\* Without the headers a state is as good.
LEMMA PlainGone ==
  ASSUME NEW t \in States
  PROVE  LET u == [t EXCEPT !.plain = {}]
         IN /\ u \in States /\ u.plain = {} /\ u.seq = t.seq /\ u.requests = t.requests
            /\ Kept(u) = Kept(t) /\ (WellKept(t) => WellKept(u))
            /\ \A L : RefsHold(L, t) => RefsHold(L, u)
            /\ \A L : Matches(L, t) => Matches(L, u)
<1> DEFINE u == [t EXCEPT !.plain = {}]
<1>1. /\ u \in States /\ u.plain = {} /\ u.seq = t.seq /\ u.requests = t.requests
      /\ u.job = t.job /\ u.attempts = t.attempts /\ u.ref = t.ref
  BY DEF States
<1> HIDE DEF u
<1>2. Kept(u) = Kept(t)
  BY <1>1 DEF Kept
<1>3. WellKept(t) => WellKept(u)
  BY <1>1 DEF WellKept
<1>4. \A L : RefsHold(L, t) => RefsHold(L, u)
  BY <1>1 DEF RefsHold
<1>5. \A L : Matches(L, t) => Matches(L, u)
  BY <1>1, <1>2, <1>4 DEF Matches
<1> QED
  BY <1>1, <1>2, <1>3, <1>4, <1>5 DEF u

\* A number that is spent.
LEMMA NumberSpent ==
  ASSUME NEW t \in States
  PROVE  LET u == [t EXCEPT !.seq = @ + 1]
         IN /\ u \in States /\ u.plain = t.plain /\ u.requests = t.requests
            /\ \A L : RefsHold(L, t) => RefsHold(L, u)
<1> DEFINE u == [t EXCEPT !.seq = @ + 1]
<1>1. /\ u \in States /\ u.plain = t.plain /\ u.requests = t.requests
      /\ u.attempts = t.attempts /\ u.ref = t.ref
  BY DEF States
<1> HIDE DEF u
<1>2. \A L : RefsHold(L, t) => RefsHold(L, u)
  BY <1>1 DEF RefsHold
<1> QED
  BY <1>1, <1>2 DEF u

LEMMA RedactHeadersKeeps ==
  ASSUME LogInvariant, RedactHeaders, machine' = machine
  PROVE  LogInvariant'
<1>1. /\ files' = files /\ dir' = dir /\ dirSynced' = dirSynced /\ f' = f /\ reader' = reader
      /\ allowed' = allowed /\ shown' = shown /\ proc = "opened" /\ proc' = "up"
      /\ s' = [s EXCEPT !.plain = {}] /\ s \in States
      /\ \/ pc' = "compact" /\ health' = health
         \/ ~ LogIsPlain(Log) /\ pc' = pc /\ health' = health
         \/ health' = "poisoned" /\ pc' = pc
  BY DEF RedactHeaders, disk, history, LogInvariant, LogTypes
<1>2. health = "ok" /\ pc = "idle" /\ reader = NoReader
  BY <1>1 DEF LogInvariant, Phases
<1>3. f = dir /\ f # "closed" /\ f \in Names
  BY <1>1, <1>2 DEF LogInvariant, FileIsOpen, Healthy, LogTypes
<1>4. /\ s' \in States /\ s'.plain = {} /\ s'.seq = s.seq /\ s'.requests = s.requests
      /\ Kept(s') = Kept(s) /\ (WellKept(s) => WellKept(s'))
      /\ \A L : RefsHold(L, s) => RefsHold(L, s')
      /\ \A L : Matches(L, s) => Matches(L, s')
  BY <1>1, PlainGone
<1>5. CrashesAreGood'
  BY <1>1, SameLogs DEF LogInvariant
<1>6. LogTypes' /\ Phases'
  BY <1>1, <1>2, <1>4 DEF LogInvariant, LogTypes, Phases
<1>7. DiskIsSynced' /\ ReadingIsSafe'
  BY <1>1, <1>2 DEF LogInvariant, DiskIsSynced, ReadingIsSafe, NoReader
<1>8. MemoryIsLogged'
  BY <1>1, <1>2, <1>4 DEF LogInvariant, MemoryIsLogged, Healthy
<1>9. FileIsOpen'
  BY <1>1, <1>2, <1>3, <1>4 DEF LogInvariant, FileIsOpen, Healthy
<1>10. LogIsRedacted'
  BY <1>1, <1>2, <1>3 DEF LogIsRedacted, LogIsPlain, Log
<1> QED
  BY <1>5, <1>6, <1>7, <1>8, <1>9, <1>10 DEF LogInvariant

LEMMA SyncFailsKeeps ==
  ASSUME LogInvariant, SyncFails, machine' = machine
  PROVE  LogInvariant'
<1>1. /\ files' = files /\ dir' = dir /\ dirSynced' = dirSynced /\ f' = f /\ reader' = reader
      /\ allowed' = allowed /\ shown' = shown /\ proc' = proc /\ pc = "written" /\ pc' = "idle"
      /\ health' = "poisoned" /\ s' = [s EXCEPT !.seq = @ + 1] /\ s \in States
  BY DEF SyncFails, disk, history, LogInvariant, LogTypes
<1>2. proc = "up" /\ health = "ok"
  BY <1>1 DEF LogInvariant, Phases
<1>3. /\ s' \in States /\ s'.plain = s.plain /\ s'.requests = s.requests
      /\ \A L : RefsHold(L, s) => RefsHold(L, s')
  BY <1>1, NumberSpent
<1>4. CrashesAreGood'
  BY <1>1, SameLogs DEF LogInvariant
<1>5. LogTypes' /\ Phases'
  BY <1>1, <1>2, <1>3 DEF LogInvariant, LogTypes, Phases
<1>6. DiskIsSynced' /\ MemoryIsLogged' /\ LogIsRedacted'
  BY <1>1 DEF DiskIsSynced, MemoryIsLogged, Healthy, LogIsRedacted
<1>7. FileIsOpen'
  BY <1>1, <1>2, <1>3 DEF LogInvariant, FileIsOpen, Healthy
<1>8. ReadingIsSafe'
  BY <1>1 DEF LogInvariant, ReadingIsSafe, Finds
<1> QED
  BY <1>4, <1>5, <1>6, <1>7, <1>8 DEF LogInvariant

LEMMA CompactWriteKeeps ==
  ASSUME LogInvariant, CompactWrite, machine' = machine
  PROVE  LogInvariant'
<1>1. /\ dir' = dir /\ dirSynced' = dirSynced /\ f' = f /\ s' = s /\ health' = health
      /\ proc' = proc /\ reader' = reader /\ allowed' = allowed /\ shown' = shown
      /\ pc = "compact" /\ pc' = "tmp" /\ reader.pc # "reading"
      /\ Put(Tmp, SnapshotRecords(s), 0)
      /\ dir \in Names /\ dirSynced \in Names
  BY DEF CompactWrite, FileHeld, history, LogInvariant, LogTypes
<1>2. proc = "up" /\ health = "ok" /\ f = dir /\ WellKept(s)
  BY <1>1 DEF LogInvariant, Phases, FileIsOpen, MemoryIsLogged, Healthy
<1>3. Tmp \in Names /\ Tmp # dir /\ Tmp # dirSynced /\ Tmp # "none"
  BY <1>1, TmpIsFree
<1>4. SnapshotRecords(s) \in Seq(Records)
  BY <1>2, SnapshotMatches DEF Sound
<1>5. /\ files' \in Files /\ files'[Tmp].log = SnapshotRecords(s)
      /\ \A x \in Names : files'[x].synced <= Len(files'[x].log)
      /\ files'[dir] = files[dir] /\ files'[dirSynced] = files[dirSynced]
      /\ files'["none"] = NoFile
  <2>1. LogTypes /\ 0 \in Nat /\ 0 <= Len(SnapshotRecords(s))
    BY <1>4 DEF LogInvariant
  <2> QED
    BY <1>1, <1>3, <1>4, <2>1, PutTypes
<1>6. CrashesAreGood'
  BY <1>1, <1>2, <1>5, SameLogs DEF LogInvariant
<1>7. LogTypes' /\ Phases'
  BY <1>1, <1>2, <1>5 DEF LogInvariant, LogTypes, Phases
<1>8. DiskIsSynced' /\ LogIsRedacted' /\ ReadingIsSafe'
  BY <1>1, <1>5 DEF LogInvariant, DiskIsSynced, LogIsRedacted, ReadingIsSafe
<1>9. MemoryIsLogged'
  BY <1>1, <1>5 DEF LogInvariant, MemoryIsLogged, Healthy, Tmp
<1>10. FileIsOpen'
  BY <1>1, <1>2, <1>5 DEF LogInvariant, FileIsOpen, Healthy, Windows
<1> QED
  BY <1>6, <1>7, <1>8, <1>9, <1>10 DEF LogInvariant

LEMMA CompactSyncKeeps ==
  ASSUME LogInvariant, CompactSync, machine' = machine
  PROVE  LogInvariant'
<1>1. /\ dir' = dir /\ dirSynced' = dirSynced /\ f' = f /\ s' = s /\ health' = health
      /\ proc' = proc /\ reader' = reader /\ allowed' = allowed /\ shown' = shown
      /\ pc = "tmp" /\ pc' = "synced"
      /\ Put(Tmp, files[Tmp].log, Len(files[Tmp].log))
      /\ dir \in Names /\ dirSynced \in Names
  BY DEF CompactSync, history, LogInvariant, LogTypes
<1>2. proc = "up" /\ health = "ok" /\ f = dir /\ reader.pc # "reading"
  BY <1>1 DEF LogInvariant, Phases, FileIsOpen, ReadingIsSafe, Healthy
<1>3. Tmp \in Names /\ Tmp # dir /\ Tmp # dirSynced /\ Tmp # "none"
  BY <1>1, TmpIsFree
<1>4. /\ files' \in Files /\ files'[Tmp].log = files[Tmp].log
      /\ files'[Tmp].synced = Len(files[Tmp].log)
      /\ \A x \in Names : files'[x].synced <= Len(files'[x].log)
      /\ files'[dir] = files[dir] /\ files'[dirSynced] = files[dirSynced]
      /\ files'["none"] = NoFile
  <2>1. files[Tmp].log \in Seq(Records)
    BY <1>3 DEF LogInvariant, LogTypes, Files
  <2>2. LogTypes /\ Len(files[Tmp].log) \in Nat /\ Len(files[Tmp].log) <= Len(files[Tmp].log)
    BY <2>1 DEF LogInvariant
  <2> QED
    BY <1>1, <1>3, <2>1, <2>2, PutTypes
<1>5. CrashesAreGood'
  BY <1>1, <1>2, <1>4, SameLogs DEF LogInvariant
<1>6. LogTypes' /\ Phases'
  BY <1>1, <1>2, <1>4 DEF LogInvariant, LogTypes, Phases
<1>7. DiskIsSynced' /\ LogIsRedacted' /\ ReadingIsSafe'
  BY <1>1, <1>2, <1>4 DEF LogInvariant, DiskIsSynced, LogIsRedacted, ReadingIsSafe
<1>8. MemoryIsLogged'
  BY <1>1, <1>4 DEF LogInvariant, MemoryIsLogged, Healthy, Tmp
<1>9. FileIsOpen'
  BY <1>1, <1>2, <1>4 DEF LogInvariant, FileIsOpen, Healthy, Windows
<1> QED
  BY <1>5, <1>6, <1>7, <1>8, <1>9 DEF LogInvariant

LEMMA CloseOldKeeps ==
  ASSUME LogInvariant, CloseOld, machine' = machine
  PROVE  LogInvariant'
<1>1. /\ files' = files /\ dir' = dir /\ dirSynced' = dirSynced /\ s' = s /\ health' = health
      /\ proc' = proc /\ reader' = reader /\ allowed' = allowed /\ shown' = shown
      /\ pc = "synced" /\ pc' = "swap" /\ f' = "closed" /\ Windows
  BY DEF CloseOld, disk, history
<1>2. proc = "up" /\ health = "ok" /\ reader.pc # "reading"
  BY <1>1 DEF LogInvariant, Phases, ReadingIsSafe
<1>3. CrashesAreGood'
  BY <1>1, SameLogs DEF LogInvariant
<1>4. LogTypes' /\ Phases'
  BY <1>1, <1>2 DEF LogInvariant, LogTypes, Phases
<1>5. DiskIsSynced' /\ LogIsRedacted' /\ ReadingIsSafe'
  BY <1>1, <1>2 DEF LogInvariant, DiskIsSynced, LogIsRedacted, ReadingIsSafe
<1>6. MemoryIsLogged'
  BY <1>1 DEF LogInvariant, MemoryIsLogged, Healthy, Tmp
<1>7. FileIsOpen'
  BY <1>1, <1>2 DEF FileIsOpen, Windows
<1> QED
  BY <1>3, <1>4, <1>5, <1>6, <1>7 DEF LogInvariant

\* A log that is synced under its name is all that a crash may leave.
LEMMA SyncedLogIsGood ==
  ASSUME files'[dir'] \in [log: Seq(Records), synced: Nat],
         GoodFor(files'[dir'].log, allowed', shown'), 
         "power" \in machine' =>
           /\ files'[dir'].synced = Len(files'[dir'].log)
           /\ dirSynced' = dir' \/ Images(files'[dirSynced']) = {files'[dir'].log},
         proc' # "down"
  PROVE  CrashesAreGood'
<1>1. "power" \in machine' => Images(files'[dir']) = {files'[dir'].log}
  BY SyncedImages
<1>2. \A log \in NextLogs' : log = files'[dir'].log
  BY <1>1 DEF NextLogs
<1> QED
  BY <1>2 DEF CrashesAreGood, Good

LEMMA CompactRenameKeeps ==
  ASSUME LogInvariant, CompactRename, machine' = machine
  PROVE  LogInvariant'
<1>1. /\ files' = files /\ dirSynced' = dirSynced /\ f' = f /\ s' = s /\ health' = health
      /\ proc' = proc /\ reader' = reader /\ allowed' = allowed /\ shown' = shown
      /\ dir' = Tmp /\ pc \in {"synced", "swap"} /\ pc' = "renamed"
      /\ dir \in Names /\ dirSynced \in Names /\ (pc = "swap" => Windows)
  BY DEF CompactRename, history, LogInvariant, LogTypes
<1>2. /\ proc = "up" /\ health = "ok" /\ WellKept(s) /\ Kept(s) \in allowed /\ s.seq >= shown
      /\ files[Tmp].log = SnapshotRecords(s) /\ files[Tmp].synced = Len(files[Tmp].log)
      /\ reader.pc # "reading" /\ s.seq \in Nat /\ shown \in Nat
  BY <1>1 DEF LogInvariant, Phases, MemoryIsLogged, Healthy, ReadingIsSafe, LogTypes, States
<1>3. Tmp \in Names /\ Tmp # "none"
  BY <1>1, TmpIsFree
<1>4. files[Tmp] \in [log: Seq(Records), synced: Nat]
  BY <1>3 DEF LogInvariant, LogTypes, Files
<1>5. Good(files[Tmp].log)
  <2>1. /\ Sound(SnapshotRecords(s)) /\ Kept(Replayed(SnapshotRecords(s)).state) = Kept(s)
        /\ Replayed(SnapshotRecords(s)).state.seq >= s.seq
        /\ Replayed(SnapshotRecords(s)).state.seq \in Nat
    BY <1>2, SnapshotMatches DEF Sound, WellKept, States
  <2>2. Replayed(SnapshotRecords(s)).state.seq >= shown
    BY <1>2, <2>1
  <2> QED
    BY <1>2, <2>1, <2>2, GoodLogs DEF Good
<1>6. CrashesAreGood'
  <2>1. Images(files[Tmp]) = {files[Tmp].log}
    BY <1>2, <1>4, SyncedImages
  <2>2. \A log \in NextLogs' : log \in NextLogs \/ log = files[Tmp].log
    BY <1>1, <2>1 DEF NextLogs
  <2> QED
    BY <1>1, <1>2, <1>5, <2>2 DEF LogInvariant, CrashesAreGood, Good
<1>7. LogTypes' /\ Phases'
  BY <1>1, <1>2, <1>3 DEF LogInvariant, LogTypes, Phases
<1>8. DiskIsSynced' /\ LogIsRedacted' /\ ReadingIsSafe'
  BY <1>1, <1>2 DEF DiskIsSynced, LogIsRedacted, ReadingIsSafe
<1>9. MemoryIsLogged'
  BY <1>1, <1>2 DEF MemoryIsLogged
<1>10. FileIsOpen'
  BY <1>1, <1>2 DEF LogInvariant, FileIsOpen, Windows
<1> QED
  BY <1>6, <1>7, <1>8, <1>9, <1>10 DEF LogInvariant

LEMMA SyncDirectoryKeeps ==
  ASSUME LogInvariant, OneKindOfCrash, SyncDirectory, machine' = machine
  PROVE  LogInvariant'
<1>1. /\ files' = files /\ dir' = dir /\ f' = f /\ s' = s /\ health' = health
      /\ proc' = proc /\ reader' = reader /\ allowed' = allowed /\ shown' = shown
      /\ dirSynced' \in {dir, dirSynced} /\ pc = "renamed" /\ pc' = "replaced"
      /\ dir \in Names /\ dirSynced \in Names
  BY DEF SyncDirectory, history, LogInvariant, LogTypes
<1>2. proc = "up" /\ health = "ok" /\ reader.pc # "reading"
  BY <1>1 DEF LogInvariant, Phases, ReadingIsSafe
<1>3. "power" \in machine => dirSynced' = dir
  BY DEF SyncDirectory, Windows, OneKindOfCrash, LogInvariant, LogTypes
<1>4. CrashesAreGood'
  <2>1. \A log \in NextLogs' : log \in NextLogs
    BY <1>1 DEF NextLogs
  <2> QED
    BY <1>1, <1>2, <2>1 DEF LogInvariant, CrashesAreGood, Good
<1>5. LogTypes' /\ Phases'
  BY <1>1, <1>2 DEF LogInvariant, LogTypes, Phases
<1>6. DiskIsSynced' /\ LogIsRedacted' /\ ReadingIsSafe'
  BY <1>1, <1>2, <1>3 DEF LogInvariant, DiskIsSynced, LogIsRedacted, ReadingIsSafe
<1>7. MemoryIsLogged'
  BY <1>1 DEF LogInvariant, MemoryIsLogged, Healthy
<1>8. FileIsOpen'
  BY <1>1, <1>2 DEF LogInvariant, FileIsOpen, Windows
<1> QED
  BY <1>4, <1>5, <1>6, <1>7, <1>8 DEF LogInvariant

LEMMA CompactReopenKeeps ==
  ASSUME LogInvariant, CompactReopen, machine' = machine
  PROVE  LogInvariant'
<1> DEFINE L == SnapshotRecords(s)
           u == [s EXCEPT !.seq = @ + Len(L), !.count = 0,
                          !.ref = [k \in Keys |-> PositionIn(L, k)]]
<1>1. /\ dir' = dir /\ dirSynced' = dirSynced /\ f' = dir /\ proc' = proc /\ reader' = reader
      /\ shown' = shown /\ pc = "replaced" /\ pc' = "idle"
      /\ files' = [name \in Names |-> IF name = dir THEN files[dir] ELSE NoFile]
      /\ \/ allowed' = {Kept(s)} /\ health' = health
         \/ health' = "poisoned" /\ allowed' = allowed
      /\ dir \in Names /\ files \in Files
  BY DEF CompactReopen, OpenStoreFile, LogInvariant, LogTypes
<1>2. /\ proc = "up" /\ health = "ok" /\ s.plain = {}
      /\ WellKept(s) /\ Kept(s) \in allowed /\ s.seq >= shown
      /\ files[dir].log = L /\ reader.pc # "reading" /\ s.seq \in Nat /\ shown \in Nat
  BY <1>1 DEF LogInvariant, Phases, MemoryIsLogged, Healthy, ReadingIsSafe, LogTypes, States
<1>3. s' = u
  BY <1>2 DEF CompactReopen
<1>4. /\ Sound(L) /\ Kept(Replayed(L).state) = Kept(s) /\ Replayed(L).state.seq >= s.seq
      /\ Matches(L, u) /\ WellKept(u) /\ Kept(u) = Kept(s) /\ u.plain = {}
      /\ u.seq >= s.seq /\ \A n \in DOMAIN L : ~ L[n].plain
  BY <1>2, SnapshotMatches
<1>5. Replayed(L).state.seq \in Nat /\ u \in States /\ u.seq \in Nat
  BY <1>4 DEF Sound, WellKept, States
<1> HIDE DEF L, u
<1>6. Kept(s) \in allowed' /\ Replayed(L).state.seq >= shown /\ u.seq >= shown
  BY <1>1, <1>2, <1>4, <1>5
<1>7. /\ files' \in Files /\ files'[dir] = files[dir] /\ files'["none"] = NoFile
      /\ \A name \in Names : files'[name].synced <= Len(files'[name].log)
  <2>1. files' \in Files
    BY <1>1, NoFileTypes DEF Files
  <2>2. \A name \in Names : files'[name] = files[name] \/ files'[name] = NoFile
    BY <1>1
  <2> QED
    BY <1>1, <2>1, <2>2, NoFileTypes DEF LogInvariant, LogTypes, Names
<1>8. "power" \in machine => dirSynced = dir /\ files[dir].synced = Len(files[dir].log)
  BY <1>1, <1>2 DEF LogInvariant, DiskIsSynced
<1>9. CrashesAreGood'
  <2>1. GoodFor(L, allowed', shown')
    BY <1>1, <1>4, <1>6, GoodLogs
  <2>2. files'[dir'] \in [log: Seq(Records), synced: Nat]
    BY <1>1, <1>7 DEF Files
  <2> QED
    BY <1>1, <1>2, <1>7, <1>8, <2>1, <2>2, SyncedLogIsGood
<1>10. LogTypes'
  <2>1. IsFiniteSet(u.requests)
    BY <1>4 DEF WellKept
  <2> QED
    BY <1>1, <1>3, <1>5, <1>7, <2>1 DEF LogInvariant, LogTypes
<1>11. Phases'
  BY <1>1, <1>2, <1>3, <1>4 DEF Phases
<1>12. DiskIsSynced' /\ ReadingIsSafe'
  BY <1>1, <1>2, <1>7, <1>8 DEF DiskIsSynced, ReadingIsSafe
<1>13. MemoryIsLogged'
  BY <1>1, <1>2, <1>3, <1>4, <1>6, <1>7 DEF MemoryIsLogged
<1>14. FileIsOpen'
  <2>1. RefsHold(L, u) /\ dir # "closed"
    BY <1>1, <1>4 DEF Matches, Names
  <2> QED
    BY <1>1, <1>2, <1>3, <1>7, <2>1 DEF FileIsOpen
<1>15. LogIsRedacted'
  BY <1>1, <1>2, <1>4, <1>7 DEF LogIsRedacted
<1> QED
  BY <1>9, <1>10, <1>11, <1>12, <1>13, <1>14, <1>15 DEF LogInvariant

LEMMA CompactFailsKeeps ==
  ASSUME LogInvariant, CompactFails, machine' = machine
  PROVE  LogInvariant'
<1>1. /\ dir' = dir /\ dirSynced' = dirSynced /\ s' = s /\ health' = "poisoned"
      /\ proc' = proc /\ reader' = reader /\ allowed' = allowed /\ shown' = shown /\ pc' = "idle"
      /\ pc \in {"compact", "tmp", "synced", "swap", "renamed", "replaced"}
      /\ (pc = "compact" => reader.pc # "reading")
      /\ IF pc \in {"renamed", "replaced"} THEN files' = files ELSE Put(Tmp, <<>>, 0)
      /\ \/ f' = f
         \/ f' = "closed" /\ Windows
         \/ pc = "swap" /\ f' = dir
      /\ dir \in Names /\ dirSynced \in Names
  BY DEF CompactFails, FileHeld, OpenStoreFile, history, LogInvariant, LogTypes
<1>2. proc = "up" /\ health = "ok" /\ reader.pc # "reading"
  BY <1>1 DEF LogInvariant, Phases, ReadingIsSafe
<1>3. Tmp \in Names /\ Tmp # dir /\ Tmp # dirSynced /\ Tmp # "none"
  BY <1>1, TmpIsFree
<1>4. /\ files' \in Files
      /\ \A x \in Names : files'[x].synced <= Len(files'[x].log)
      /\ files'[dir] = files[dir] /\ files'[dirSynced] = files[dirSynced]
      /\ files'["none"] = NoFile
  <2>1. CASE pc \in {"renamed", "replaced"}
    BY <1>1, <2>1 DEF LogInvariant, LogTypes
  <2>2. CASE pc \notin {"renamed", "replaced"}
    <3>1. LogTypes /\ <<>> \in Seq(Records) /\ 0 \in Nat /\ 0 <= Len(<<>>)
      BY DEF LogInvariant
    <3> QED
      BY <1>1, <1>3, <2>2, <3>1, PutTypes
  <2> QED
    BY <2>1, <2>2
<1>5. CrashesAreGood'
  BY <1>1, <1>2, <1>4, SameLogs DEF LogInvariant
<1>6. LogTypes' /\ Phases'
  BY <1>1, <1>2, <1>4 DEF LogInvariant, LogTypes, Phases
<1>7. DiskIsSynced' /\ MemoryIsLogged' /\ LogIsRedacted' /\ ReadingIsSafe'
  BY <1>1, <1>2 DEF DiskIsSynced, MemoryIsLogged, Healthy, LogIsRedacted, ReadingIsSafe
<1>8. f' # "closed" => RefsHold(files'[f'].log, s)
  <2>1. CASE pc \in {"renamed", "replaced"} /\ f' = f
    BY <1>1, <1>2, <2>1 DEF LogInvariant, FileIsOpen
  <2>2. CASE pc \in {"compact", "tmp", "synced"} /\ f' = f
    BY <1>1, <1>2, <1>4, <2>2 DEF LogInvariant, FileIsOpen, Healthy
  <2>3. CASE pc = "swap" /\ f' = f
    BY <1>2, <2>3 DEF LogInvariant, FileIsOpen, Healthy
  <2>4. CASE pc = "swap" /\ f' = dir
    BY <1>2, <1>4, <2>4 DEF LogInvariant, MemoryIsLogged, Healthy, Matches
  <2> QED
    BY <1>1, <2>1, <2>2, <2>3, <2>4
<1>9. FileIsOpen'
  <2>1. f' = "closed" => Windows
    BY <1>1 DEF LogInvariant, FileIsOpen, Names
  <2> QED
    BY <1>1, <1>2, <1>8, <2>1 DEF FileIsOpen, Healthy, Windows
<1> QED
  BY <1>5, <1>6, <1>7, <1>9 DEF LogInvariant

LEMMA FrontOfAppend ==
  ASSUME NEW L \in Seq(Records), NEW e \in Records
  PROVE  /\ Append(L, e) \in Seq(Records) /\ Append(L, e) # <<>> /\ Last(Append(L, e)) = e
         /\ Front(Append(L, e)) = L /\ Len(Append(L, e)) = Len(L) + 1 /\ Len(L) \in Nat
<1> DEFINE M == Append(L, e)
<1>1. /\ M \in Seq(Records) /\ Len(M) = Len(L) + 1 /\ Len(L) \in Nat /\ M[Len(L) + 1] = e
      /\ \A i \in 1 .. Len(L) : M[i] = L[i]
  OBVIOUS
<1> HIDE DEF M
<1>2. M # <<>> /\ Last(M) = e
  BY <1>1 DEF Last
<1>3. /\ SubSeq(M, 1, Len(L)) \in Seq(Records) /\ Len(SubSeq(M, 1, Len(L))) = Len(L)
      /\ \A i \in 1 .. Len(L) : SubSeq(M, 1, Len(L))[i] = L[i]
  BY <1>1
<1>4. Front(M) = SubSeq(M, 1, Len(L))
  <2>1. Len(M) - 1 = Len(L)
    BY <1>1
  <2> QED
    BY <2>1 DEF Front
<1>5. Front(M) = L
  BY <1>3, <1>4, SeqEqual
<1> QED
  BY <1>1, <1>2, <1>5 DEF M

LEMMA FrontAndLast ==
  ASSUME NEW M \in Seq(Records), M # <<>>
  PROVE  /\ Front(M) \in Seq(Records) /\ Last(M) \in Records /\ M = Append(Front(M), Last(M))
<1>1. Len(M) \in Nat /\ Len(M) - 1 \in Nat /\ \A i \in 1 .. Len(M) : M[i] \in Records
  OBVIOUS
<1> DEFINE n == Len(M) - 1
<1>2. n \in Nat /\ Len(M) = n + 1
  BY <1>1
<1> HIDE DEF n
<1>3. /\ SubSeq(M, 1, n) \in Seq(Records) /\ Len(SubSeq(M, 1, n)) = n
      /\ \A i \in 1 .. n : SubSeq(M, 1, n)[i] = M[i]
  BY <1>1, <1>2
<1>4. Front(M) = SubSeq(M, 1, n)
  BY DEF Front, n
<1> DEFINE L == Front(M)
<1>5. L \in Seq(Records) /\ Len(L) = n /\ \A i \in 1 .. n : L[i] = M[i]
  BY <1>3, <1>4
<1>6. Last(M) = M[n + 1] /\ Last(M) \in Records
  BY <1>1, <1>2 DEF Last
<1> HIDE DEF L
<1> DEFINE A == Append(L, Last(M))
<1>7. /\ A \in Seq(Records) /\ Len(A) = n + 1 /\ A[n + 1] = Last(M)
      /\ \A i \in 1 .. n : A[i] = L[i]
  BY <1>2, <1>5, <1>6
<1> HIDE DEF A
<1>8. \A i \in 1 .. n + 1 : A[i] = M[i]
  BY <1>2, <1>5, <1>6, <1>7
<1>9. A = M
  BY <1>2, <1>7, <1>8, SeqEqual
<1> QED
  BY <1>5, <1>6, <1>9 DEF A, L

\* An event is of a request.
LEMMA EventRequests ==
  ASSUME s \in States, NEW e \in Events
  PROVE  e.r \in Requests
<1>1. s.requests \in SUBSET Requests
  BY DEF States
<1>2. CASE e \in Captures
  <2>1. PICK r \in Requests \ s.requests, j \in {"none", "pending"}, out \in SUBSET Finished :
          e = Capture(r, j, out)
    BY <1>2 DEF Captures
  <2>2. e.r = r
    BY <2>1 DEF Capture, Record
  <2> QED
    BY <2>2
<1>3. CASE e \in JobEvents
  <2>1. PICK r \in s.requests, j \in JobStates \ {"none"} : e = [Record("job", r) EXCEPT !.job = j]
    BY <1>3 DEF JobEvents
  <2>2. e.r = r
    BY <2>1 DEF Record
  <2> QED
    BY <1>1, <2>2
<1>4. CASE e \in AttemptEvents
  <2>1. PICK r \in s.requests, j \in {"retrying", "succeeded"} :
          e = Attempt(r, j, s.attempts[r] + 1)
    BY <1>4 DEF AttemptEvents
  <2> DEFINE i == s.attempts[r] + 1
  <2>2. e = Attempt(r, j, i)
    BY <2>1
  <2> HIDE DEF i
  <2>3. e.r = r
    BY <2>2 DEF Attempt, Record
  <2> QED
    BY <1>1, <2>3
<1> QED
  BY <1>2, <1>3, <1>4 DEF Events

LEMMA AppendSyncKeeps ==
  ASSUME LogInvariant, EntriesAreSynced, AppendSync, machine' = machine
  PROVE  LogInvariant'
<1> DEFINE M == files[dir].log
           e == Last(M)
           a == [Apply(s, e, Len(M)) EXCEPT !.count = @ + 1]
<1>1. /\ dir' = dir /\ dirSynced' \in {dirSynced, f} /\ f' = f /\ health' = health
      /\ proc' = proc /\ reader' = reader /\ pc = "written"
      /\ dir \in Names /\ files \in Files
  BY DEF AppendSync, LogInvariant, LogTypes
<1>2. /\ proc = "up" /\ health = "ok" /\ f = dir /\ s.plain = {} /\ WellKept(s)
      /\ Kept(s) \in allowed /\ s.seq >= shown /\ UnderWay(M, s) /\ s.seq \in Nat /\ shown \in Nat
  BY <1>1 DEF LogInvariant, Phases, FileIsOpen, MemoryIsLogged, Healthy, LogTypes, States
<1>3. /\ s' = a /\ shown' = a.seq /\ Put(dir, M, Len(M))
      /\ \/ pc' = "compact" /\ allowed' = allowed
         \/ pc' = "idle" /\ allowed' = {Kept(a)}
  BY <1>2 DEF AppendSync, Log
<1>4. M \in Seq(Records) /\ Len(M) \in Nat
  BY <1>1 DEF Files
<1>5. /\ M # <<>> /\ Matches(Front(M), s) /\ Joins(s, e) /\ e.seq = s.seq + 1
      /\ ~ e.snapshot /\ ~ e.plain /\ Kept(Apply(s, e, 0)) \in allowed
  BY <1>2 DEF UnderWay
<1>6. e \in Records /\ M = Append(Front(M), e)
  BY <1>4, <1>5, FrontAndLast
<1>7. /\ Matches(M, a) /\ WellKept(a) /\ a.seq = e.seq /\ Kept(a) = Kept(Apply(s, e, 0))
      /\ a.plain = {}
  <2> DEFINE F == Front(M)
             b == [Apply(s, e, Len(Append(F, e))) EXCEPT !.count = @ + 1]
  <2>1. M = Append(F, e)
    BY <1>6
  <2>2. b = a
    BY <2>1
  <2> HIDE DEF F, M, e, a
  <2>3. /\ Matches(Append(F, e), b) /\ WellKept(b) /\ b.seq = e.seq
        /\ Kept(b) = Kept(Apply(s, e, 0)) /\ (~ e.plain /\ s.plain = {} => b.plain = {})
    <3>1. WellKept(s) /\ Matches(F, s)
      BY <1>2, <1>5 DEF F
    <3>2. e \in Records /\ Joins(s, e) /\ e.seq = s.seq + 1 /\ ~ e.snapshot
      BY <1>5, <1>6
    <3> QED
      BY <3>1, <3>2, UnderWayDone
  <2> HIDE DEF b
  <2> QED
    BY <1>2, <1>5, <2>1, <2>2, <2>3
<1> HIDE DEF a
<1>8. /\ files' \in Files /\ files'["none"] = NoFile /\ files'[dir].log = M /\ files'[dir].synced = Len(M)
      /\ \A x \in Names : files'[x].synced <= Len(files'[x].log)
  <2>1. LogTypes /\ Len(M) <= Len(M)
    BY <1>4 DEF LogInvariant
  <2>2. dir # "none"
    BY <1>2, <2>1 DEF LogTypes
  <2> QED
    BY <1>1, <1>3, <1>4, <2>1, <2>2, PutTypes
<1> HIDE DEF M, e
<1>9. Kept(a) \in allowed' /\ a \in States /\ a.seq \in Nat /\ IsFiniteSet(a.requests)
  BY <1>3, <1>5, <1>7 DEF WellKept, States
<1>10. "power" \in machine => dirSynced' = dir
  <2>1. "power" \in machine => dirSynced \in {dir, "none"} /\ "entries" \in machine
    BY <1>1, <1>2 DEF LogInvariant, DiskIsSynced, EntriesAreSynced, LogTypes
  <2>2. dirSynced' = IF dirSynced = "none" /\ "entries" \in machine THEN f ELSE dirSynced
    BY DEF AppendSync
  <2> QED
    BY <1>2, <2>1, <2>2
<1>11. CrashesAreGood'
  <2>1. /\ Sound(M) /\ Kept(Replayed(M).state) \in allowed'
        /\ Replayed(M).state.seq >= shown'
    BY <1>3, <1>7, <1>9 DEF Matches
  <2>2. GoodFor(M, allowed', shown')
    BY <2>1, GoodLogs
  <2>3. files'[dir] \in [log: Seq(Records), synced: Nat]
    BY <1>1, <1>8 DEF Files
  <2>4. /\ files'[dir'] \in [log: Seq(Records), synced: Nat]
        /\ GoodFor(files'[dir'].log, allowed', shown') /\ proc' # "down"
    BY <1>1, <1>2, <1>8, <2>2, <2>3
  <2>5. "power" \in machine' =>
          dirSynced' = dir' /\ files'[dir'].synced = Len(files'[dir'].log)
    BY <1>1, <1>8, <1>10
  <2> QED
    BY <2>4, <2>5, SyncedLogIsGood
<1>12. LogTypes'
  BY <1>1, <1>2, <1>3, <1>8, <1>9 DEF LogInvariant, LogTypes
<1>13. Phases'
  BY <1>1, <1>2, <1>3, <1>7 DEF Phases
<1>14. DiskIsSynced'
  BY <1>1, <1>3, <1>8, <1>10 DEF DiskIsSynced
<1>15. MemoryIsLogged'
  BY <1>1, <1>3, <1>7, <1>8, <1>9 DEF MemoryIsLogged
<1>16. FileIsOpen'
  BY <1>1, <1>2, <1>3, <1>7, <1>8 DEF FileIsOpen, Matches, Names
<1>17. LogIsRedacted'
  BY <1>1, <1>2, <1>8 DEF LogInvariant, LogIsRedacted, M
<1>18. ReadingIsSafe'
  BY <1>1, <1>2, <1>3, <1>8 DEF LogInvariant, ReadingIsSafe, Finds, M
<1> QED
  BY <1>11, <1>12, <1>13, <1>14, <1>15, <1>16, <1>17, <1>18 DEF LogInvariant

LEMMA OpenKeeps ==
  ASSUME LogInvariant, Open, machine' = machine
  PROVE  LogInvariant'
<1> DEFINE N == Created
           L == files[N].log
           W == WholeRecords(L)
           t == Replayed(W).state
           synced == files[N].synced
           n == IF synced < Len(W) THEN synced ELSE Len(W)
<1>1. /\ dir' = N /\ dirSynced' = dirSynced /\ f' = N /\ health' = health /\ pc' = pc
      /\ reader' = reader /\ proc = "down" /\ N \in Names /\ N # "none" /\ files \in Files
      /\ files[N] = files[dir]
  <2>1. /\ dir \in Names /\ dirSynced \in Names /\ files["none"] = NoFile /\ files \in Files
        /\ proc = "down" /\ \A name \in Names \ {dir, dirSynced} : files[name] = NoFile
    BY DEF Open, LogInvariant, LogTypes, CrashesAreGood
  <2>2. N \in Names /\ N # "none" /\ (dir # "none" => N = dir)
        /\ (dir = "none" => N \notin {dir, dirSynced})
    BY <2>1, TmpIsFree DEF Created
  <2>3. files[N] = files[dir]
    BY <2>1, <2>2
  <2> QED
    BY <2>1, <2>2, <2>3 DEF Open
<1>2. /\ health = "ok" /\ pc = "idle" /\ reader = NoReader /\ shown \in Nat
      /\ Sound(W) /\ Kept(t) \in allowed /\ t.seq >= shown
  BY <1>1 DEF LogInvariant, Phases, CrashesAreGood, Good, GoodFor, Recovered, LogTypes
<1>3. WellKept(t) /\ RefsHold(W, t) /\ t \in States /\ t.seq \in Nat /\ Replayed(W).ok
  BY <1>2 DEF Sound, WellKept, States
<1>4. Recovered(L) = Replayed(W)
  BY DEF Recovered
<1>5. /\ Put(N, W, n) /\ s' = t /\ proc' = "opened" /\ Kept(t) \in allowed'
      /\ shown' = IF t.seq > shown THEN t.seq ELSE shown
  BY <1>3, <1>4 DEF Open
<1>6. /\ L \in Seq(Records) /\ synced \in Nat /\ synced <= Len(L) /\ W \in Seq(Records)
      /\ Len(W) <= Len(L) /\ Len(W) \in Nat /\ Len(L) \in Nat
  <2>1. L \in Seq(Records) /\ synced \in Nat
    BY <1>1 DEF Files
  <2>2. synced <= Len(L)
    BY <1>1 DEF LogInvariant, LogTypes
  <2> QED
    BY <1>2, <2>1, <2>2, WholeShorter DEF Sound
<1>7. /\ "power" \in machine => dirSynced = dir /\ synced = Len(L)
      /\ dir # N => dir = "none" /\ W = <<>>
  <2>1. dir # N => dir = "none"
    BY DEF Created
  <2>2. dir = "none" => L = <<>>
    BY <1>1, NoFileTypes DEF LogInvariant, LogTypes
  <2> QED
    BY <1>1, <1>2, <2>1, <2>2 DEF LogInvariant, DiskIsSynced, WholeRecords
<1> HIDE DEF N, L, W, t, synced
<1>8. n \in Nat /\ n <= Len(W) /\ ("power" \in machine => n = Len(W))
  BY <1>6, <1>7
<1> HIDE DEF n
<1>9. /\ files' \in Files /\ files'[N].log = W /\ files'[N].synced = n /\ files'["none"] = NoFile
      /\ \A x \in Names : files'[x].synced <= Len(files'[x].log)
  <2>1. LogTypes
    BY DEF LogInvariant
  <2> QED
    BY <1>1, <1>5, <1>6, <1>8, <2>1, PutTypes
<1>10. shown' = t.seq
  BY <1>2, <1>3, <1>5
<1>11. CrashesAreGood'
  <2>1. GoodFor(W, allowed', shown')
    BY <1>2, <1>3, <1>5, <1>10, GoodLogs DEF t
  <2>2. files'[N] \in [log: Seq(Records), synced: Nat]
    BY <1>1, <1>9 DEF Files
  <2>3. "power" \in machine => dirSynced = N \/ Images(files'[dirSynced]) = {W}
    BY <1>7, <1>9, NoFileTypes, SyncedImages
  <2> QED
    BY <1>1, <1>5, <1>7, <1>8, <1>9, <2>1, <2>2, <2>3, SyncedLogIsGood
<1>12. LogTypes'
  <2>1. IsFiniteSet(t.requests)
    BY <1>3 DEF WellKept
  <2> QED
    BY <1>1, <1>3, <1>5, <1>9, <1>10, <2>1 DEF LogInvariant, LogTypes
<1>13. Phases' /\ ReadingIsSafe'
  BY <1>1, <1>2, <1>5 DEF Phases, ReadingIsSafe, NoReader
<1>14. DiskIsSynced' /\ LogIsRedacted'
  BY <1>1, <1>2, <1>5, <1>7, <1>8, <1>9 DEF DiskIsSynced, LogIsRedacted
<1>15. MemoryIsLogged'
  <2>1. Matches(W, t)
    BY <1>2, <1>3 DEF Matches, t
  <2>2. t.seq >= t.seq
    BY <1>3
  <2> QED
    BY <1>1, <1>2, <1>3, <1>5, <1>9, <1>10, <2>1, <2>2 DEF MemoryIsLogged
<1>16. FileIsOpen'
  BY <1>1, <1>2, <1>3, <1>5, <1>9 DEF FileIsOpen, Names
<1> QED
  BY <1>11, <1>12, <1>13, <1>14, <1>15, <1>16 DEF LogInvariant

\* A record under way, whole or in part, is one that recovery takes or cuts off.
LEMMA AppendWriteKeeps ==
  ASSUME LogInvariant, NEW ev \in Events, AppendWrite(ev), machine' = machine
  PROVE  LogInvariant'
<1> DEFINE L == files[dir].log
           e == [ev EXCEPT !.seq = s.seq + 1]
           M == Append(L, e)
           a == [Apply(s, e, Len(M)) EXCEPT !.count = @ + 1]
           synced == files[dir].synced
<1>1. /\ dir' = dir /\ dirSynced' = dirSynced /\ f' = f /\ s' = s /\ health' = health
      /\ proc' = proc /\ reader' = reader /\ shown' = shown
      /\ proc = "up" /\ pc = "idle" /\ health = "ok" /\ pc' = "written" /\ dir # "none"
      /\ dir \in Names /\ files \in Files /\ s \in States /\ machine \in Machines
  BY DEF AppendWrite, MayAppend, LogInvariant, LogTypes
<1>2. /\ f = dir /\ f # "closed" /\ WellKept(s) /\ Kept(s) \in allowed /\ s.seq >= shown
      /\ Matches(L, s) /\ s.plain = {} /\ s.seq \in Nat /\ shown \in Nat
  BY <1>1 DEF LogInvariant, Phases, FileIsOpen, MemoryIsLogged, Healthy, LogTypes, States
<1>3. /\ ValidState(s, e) /\ Put(dir, M, synced)
      /\ allowed' = allowed \cup {Kept(Apply(s, e, 0))}
  BY <1>2 DEF AppendWrite, Log
<1>4. /\ e \in Records /\ Joins(s, e) /\ e.seq = s.seq + 1 /\ ~ e.snapshot /\ ~ e.plain
      /\ e.r \in Requests
  <2>1. e \in Records /\ Joins(s, e) /\ e.seq = s.seq + 1 /\ ~ e.snapshot /\ ~ e.plain
    BY <1>1, <1>3, EventJoins
  <2> HIDE DEF e
  <2> QED
    BY <2>1 DEF Records
<1> HIDE DEF e
<1>5. L \in Seq(Records) /\ synced \in Nat /\ synced <= Len(L) /\ Len(L) \in Nat
  <2>1. L \in Seq(Records) /\ synced \in Nat
    BY <1>1 DEF Files
  <2>2. synced <= Len(L)
    BY <1>1 DEF LogInvariant, LogTypes
  <2> QED
    BY <2>1, <2>2
<1>6. /\ "power" \in machine => dirSynced \in {dir, "none"} /\ synced = Len(L)
      /\ \A n \in DOMAIN L : ~ L[n].plain
  BY <1>1 DEF LogInvariant, DiskIsSynced, LogIsRedacted
<1> HIDE DEF L, synced
<1>7. /\ Matches(M, a) /\ WellKept(a) /\ a.seq = e.seq /\ Kept(a) = Kept(Apply(s, e, 0))
  BY <1>2, <1>4, UnderWayDone
<1>8. /\ M \in Seq(Records) /\ M # <<>> /\ Last(M) = e /\ Front(M) = L /\ Len(M) = Len(L) + 1
  BY <1>4, <1>5, FrontOfAppend
<1>9. RefsHold(M, s)
  BY <1>2, <1>4, <1>5, RefsGrow DEF Matches
<1>10. /\ \A n \in DOMAIN M : ~ M[n].plain
       /\ \A n \in DOMAIN L : n \in DOMAIN M /\ M[n] = L[n]
  BY <1>4, <1>5, <1>6
<1> HIDE DEF M, a
<1>11. /\ files' \in Files /\ files'["none"] = NoFile /\ files'[dir].log = M /\ files'[dir].synced = synced
       /\ \A x \in Names : files'[x].synced <= Len(files'[x].log)
       /\ files'["none"] = files["none"]
  <2>1. LogTypes /\ synced <= Len(M)
    BY <1>5, <1>8 DEF LogInvariant
  <2>2. files["none"] = NoFile
    BY <2>1 DEF LogTypes
  <2> QED
    BY <1>1, <1>3, <1>5, <1>8, <2>1, <2>2, PutTypes
<1>12. /\ GoodFor(L, allowed', shown') /\ GoodFor(M, allowed', shown')
       /\ GoodFor(Append(L, Record("torn", e.r)), allowed', shown')
  <2>1. /\ Sound(L) /\ Kept(Replayed(L).state) \in allowed' /\ Replayed(L).state.seq >= shown'
    BY <1>1, <1>2, <1>3 DEF Matches
  <2>2. /\ Sound(M) /\ Kept(Replayed(M).state) \in allowed' /\ Replayed(M).state.seq >= shown'
    BY <1>1, <1>2, <1>3, <1>4, <1>7 DEF Matches
  <2> QED
    BY <1>4, <2>1, <2>2, TornTypes, GoodLogs
<1>13. CrashesAreGood'
  <2> SUFFICES ASSUME NEW log \in NextLogs'
               PROVE  GoodFor(log, allowed', shown')
    BY <1>1 DEF CrashesAreGood, Good
  <2>1. CASE log = M
    BY <1>12, <2>1
  <2>2. CASE log \in NextLogs
    BY <1>1, <1>3, <2>2 DEF LogInvariant, CrashesAreGood, Good, GoodFor
  <2>3. CASE log # M /\ log \notin NextLogs
    <3>1. "power" \in machine /\ log \in Images(files'[dir])
      BY <1>1, <1>6, <1>11, <2>3 DEF NextLogs
    <3>2. files'[dir].log = Append(L, e) /\ files'[dir].synced \in Nat /\ files'[dir].synced >= Len(L)
      BY <1>5, <1>6, <1>11, <3>1 DEF M
    <3>3. log = L \/ log = Append(L, Record("torn", e.r))
      BY <1>4, <1>5, <1>11, <2>3, <3>1, <3>2, UnsyncedImages
    <3> QED
      BY <1>12, <3>3
  <2> QED
    BY <2>1, <2>2, <2>3
<1>14. LogTypes' /\ Phases'
  BY <1>1, <1>11 DEF LogInvariant, LogTypes, Phases
<1>15. DiskIsSynced'
  BY <1>1, <1>5, <1>6, <1>8, <1>11 DEF DiskIsSynced
<1>16. MemoryIsLogged'
  <2>1. Kept(Apply(s, e, 0)) \in allowed' /\ Kept(s) \in allowed'
    BY <1>2, <1>3
  <2>2. UnderWay(files[dir].log, s)'
    BY <1>2, <1>4, <1>8, <1>1, <1>11, <2>1 DEF UnderWay
  <2> QED
    BY <1>1, <1>2, <1>11, <2>1, <2>2 DEF MemoryIsLogged
<1>17. FileIsOpen'
  BY <1>1, <1>2, <1>9, <1>11 DEF FileIsOpen
<1>18. LogIsRedacted'
  BY <1>1, <1>10, <1>11 DEF LogIsRedacted
<1>19. ReadingIsSafe'
  BY <1>1, <1>2, <1>10, <1>11 DEF LogInvariant, ReadingIsSafe, Finds, L
<1> QED
  BY <1>13, <1>14, <1>15, <1>16, <1>17, <1>18, <1>19 DEF LogInvariant

\* A part of one is cut off.
LEMMA WriteFailsKeeps ==
  ASSUME LogInvariant, WriteFails, machine' = machine
  PROVE  LogInvariant'
<1> DEFINE L == files[dir].log
           synced == files[dir].synced
<1>1. /\ dir' = dir /\ dirSynced' = dirSynced /\ f' = f /\ pc' = pc /\ health' = "poisoned"
      /\ proc' = proc /\ reader' = reader /\ allowed' = allowed /\ shown' = shown
      /\ s' = [s EXCEPT !.seq = @ + 1]
      /\ proc = "up" /\ pc = "idle" /\ health = "ok" /\ dir # "none"
      /\ dir \in Names /\ files \in Files /\ s \in States
  BY DEF WriteFails, MayAppend, history, LogInvariant, LogTypes
<1>2. /\ f = dir /\ f # "closed" /\ Kept(s) \in allowed /\ s.seq >= shown /\ Matches(L, s)
  BY <1>1 DEF LogInvariant, FileIsOpen, MemoryIsLogged, Healthy
<1>3. /\ s' \in States /\ s'.plain = s.plain /\ s'.requests = s.requests
      /\ \A K : RefsHold(K, s) => RefsHold(K, s')
  BY <1>1, NumberSpent
<1>4. L \in Seq(Records) /\ synced \in Nat /\ synced <= Len(L) /\ Len(L) \in Nat
  <2>1. L \in Seq(Records) /\ synced \in Nat
    BY <1>1 DEF Files
  <2>2. synced <= Len(L)
    BY <1>1 DEF LogInvariant, LogTypes
  <2> QED
    BY <2>1, <2>2
<1>5. "power" \in machine => dirSynced \in {dir, "none"} /\ synced = Len(L)
  BY <1>1 DEF LogInvariant, DiskIsSynced
<1>6. DiskIsSynced' /\ MemoryIsLogged' /\ LogIsRedacted'
  BY <1>1 DEF DiskIsSynced, MemoryIsLogged, Healthy, LogIsRedacted
<1>7. CASE files' = files
  <2>1. CrashesAreGood'
    BY <1>1, <1>7, SameLogs DEF LogInvariant
  <2>2. LogTypes' /\ Phases'
    BY <1>1, <1>3, <1>7 DEF LogInvariant, LogTypes, Phases
  <2>3. FileIsOpen'
    BY <1>1, <1>2, <1>3, <1>7 DEF LogInvariant, FileIsOpen, Matches
  <2>4. ReadingIsSafe'
    BY <1>1, <1>7 DEF LogInvariant, ReadingIsSafe, Finds
  <2> QED
    BY <1>6, <2>1, <2>2, <2>3, <2>4 DEF LogInvariant
<1>8. ASSUME NEW ev \in Events, Put(f, Append(Log, Record("torn", ev.r)), files[f].synced)
      PROVE  LogInvariant'
  <2> DEFINE e == Record("torn", ev.r)
             M == Append(L, e)
  <2>1. Put(dir, M, synced)
    BY <1>2, <1>8 DEF Log
  <2>2. e \in Records /\ e.kind = "torn" /\ e.r \in Requests
    <3>1. e \in Records /\ e.kind = "torn"
      BY <1>1, EventRequests, TornTypes
    <3> HIDE DEF e
    <3> QED
      BY <3>1 DEF Records
  <2> HIDE DEF L, synced, e
  <2>3. M \in Seq(Records) /\ Len(M) = Len(L) + 1
    BY <1>4, <2>2, FrontOfAppend
  <2>4. RefsHold(M, s')
    BY <1>2, <1>3, <1>4, <2>2, RefsGrow DEF Matches
  <2>5. \A n \in DOMAIN L : n \in DOMAIN M /\ M[n] = L[n]
    BY <1>4, <2>2
  <2>6. GoodFor(L, allowed, shown) /\ GoodFor(M, allowed, shown)
        /\ GoodFor(Append(L, Record("torn", e.r)), allowed, shown)
    <3>1. /\ Sound(L) /\ Kept(Replayed(L).state) \in allowed /\ Replayed(L).state.seq >= shown
      BY <1>2 DEF Matches
    <3> QED
      BY <2>2, <3>1, TornTypes, GoodLogs
  <2> HIDE DEF M
  <2>7. /\ files' \in Files /\ files'["none"] = NoFile /\ files'[dir].log = M /\ files'[dir].synced = synced
        /\ \A x \in Names : files'[x].synced <= Len(files'[x].log)
        /\ files'["none"] = files["none"]
    <3>1. LogTypes /\ synced <= Len(M)
      BY <1>4, <2>3 DEF LogInvariant
    <3>2. files["none"] = NoFile
      BY <3>1 DEF LogTypes
    <3> QED
      BY <1>1, <1>4, <2>1, <2>3, <3>1, <3>2, PutTypes
  <2>8. CrashesAreGood'
    <3> SUFFICES ASSUME NEW log \in NextLogs'
                 PROVE  GoodFor(log, allowed, shown)
      BY <1>1 DEF CrashesAreGood, Good
    <3>1. CASE log = M
      BY <2>6, <3>1
    <3>2. CASE log \in NextLogs
      BY <1>1, <3>2 DEF LogInvariant, CrashesAreGood, Good, GoodFor
    <3>3. CASE log # M /\ log \notin NextLogs
      <4>1. "power" \in machine /\ log \in Images(files'[dir])
        BY <1>1, <1>5, <2>7, <3>3 DEF NextLogs
      <4>2. files'[dir].log = Append(L, e) /\ files'[dir].synced \in Nat /\ files'[dir].synced >= Len(L)
        BY <1>4, <1>5, <2>7, <4>1 DEF M
      <4>3. log = L \/ log = Append(L, Record("torn", e.r))
        BY <1>4, <2>2, <2>7, <3>3, <4>1, <4>2, UnsyncedImages
      <4> QED
        BY <2>6, <4>3
    <3> QED
      BY <3>1, <3>2, <3>3
  <2>9. LogTypes' /\ Phases'
    BY <1>1, <1>3, <2>7 DEF LogInvariant, LogTypes, Phases
  <2>10. FileIsOpen'
    BY <1>1, <1>2, <2>4, <2>7 DEF FileIsOpen, Healthy
  <2>11. ReadingIsSafe'
    BY <1>1, <1>2, <2>5, <2>7 DEF LogInvariant, ReadingIsSafe, Finds, L
  <2> QED
    BY <1>6, <2>8, <2>9, <2>10, <2>11 DEF LogInvariant
<1> QED
  BY <1>7, <1>8 DEF WriteFails

LEMMA NextKeeps ==
  ASSUME LogInvariant, OneKindOfCrash, EntriesAreSynced, [Next]_vars
  PROVE  LogInvariant'
<1>1. CASE UNCHANGED vars
  BY <1>1, StutterKeeps
<1> SUFFICES ASSUME Step, machine' = machine
             PROVE  LogInvariant'
  BY <1>1 DEF Next
<1>2. ASSUME NEW e \in Events, AppendWrite(e)
      PROVE  LogInvariant'
  BY <1>2, AppendWriteKeeps
<1>3. CASE WriteFails
  BY <1>3, WriteFailsKeeps
<1>4. CASE AppendSync
  BY <1>4, AppendSyncKeeps
<1>5. CASE SyncFails
  BY <1>5, SyncFailsKeeps
<1>6. CASE CompactWrite
  BY <1>6, CompactWriteKeeps
<1>7. CASE CompactSync
  BY <1>7, CompactSyncKeeps
<1>8. CASE CloseOld
  BY <1>8, CloseOldKeeps
<1>9. CASE CompactRename
  BY <1>9, CompactRenameKeeps
<1>10. CASE SyncDirectory
  BY <1>10, SyncDirectoryKeeps
<1>11. CASE CompactReopen
  BY <1>11, CompactReopenKeeps
<1>12. CASE CompactFails
  BY <1>12, CompactFailsKeeps
<1>13. ASSUME NEW r \in Requests, LoadBegin(r)
       PROVE  LogInvariant'
  BY <1>13, LoadBeginKeeps
<1>14. CASE LoadRead
  BY <1>14, LoadReadKeeps
<1>15. CASE LoadPoison
  BY <1>15, LoadPoisonKeeps
<1>16. CASE Open
  BY <1>16, OpenKeeps
<1>17. CASE RedactHeaders
  BY <1>17, RedactHeadersKeeps
<1>18. CASE End
  BY <1>18, KillKeeps, PowerLossKeeps DEF End
<1> QED
  BY <1>2, <1>3, <1>4, <1>5, <1>6, <1>7, <1>8, <1>9, <1>10, <1>11, <1>12, <1>13, <1>14,
     <1>15, <1>16, <1>17, <1>18
     DEF Step, Writer, Compact, Reader

-----------------------------------------------------------------------------
(* What holds at all times *)

\* At every step of an append, a compaction, a read, a migration of headers or
\* an open, and after an error in any of them, the invariant holds.
THEOREM Logging ==
  ASSUME OneKindOfCrash, EntriesAreSynced
  PROVE  Spec => []LogInvariant
<1>1. Init => LogInvariant
  BY InitKeeps
<1>2. OneKindOfCrash /\ EntriesAreSynced /\ LogInvariant /\ [Next]_vars => LogInvariant'
  BY NextKeeps
<1> QED
  BY <1>1, <1>2, PTL DEF Spec

\* Files, maps and references have their types, and a healthy store has nothing
\* in memory that a restart would not bring back (Store, appendLocked).
THEOREM LogBounds ==
  ASSUME OneKindOfCrash, EntriesAreSynced
  PROVE  Spec => []TypeOK
<1>1. LogInvariant => TypeOK
  <2> SUFFICES ASSUME LogInvariant
               PROVE  TypeOK
    OBVIOUS
  <2>1. LogTypes
    BY DEF LogInvariant
  <2>2. Kept(s) \in allowed \/ proc = "down" \/ health = "poisoned"
    BY <2>1 DEF LogInvariant, LogTypes, MemoryIsLogged, Healthy
  <2> QED
    BY <2>1, <2>2 DEF TypeOK, LogTypes, Files, Records, States
<1> QED
  BY <1>1, Logging, PTL

\* Wherever a process ends, recovery accepts what is left of the log, and brings
\* back what the last operation that succeeded has left, or that and the one
\* then under way (appendLocked, compactLocked, recover).
THEOREM CrashesKeepPromises ==
  ASSUME OneKindOfCrash, EntriesAreSynced
  PROVE  Spec => []AnyCrashKeepsPromises
<1>1. LogInvariant => AnyCrashKeepsPromises
  BY DEF LogInvariant, CrashesAreGood, Good, GoodFor, Sound, Recovered, AnyCrashKeepsPromises
<1> QED
  BY <1>1, Logging, PTL

\* No restart falls back behind an event that a client has seen: a snapshot goes
\* on with the numbers (snapshotRecordsLocked, recover).
THEOREM NumbersGoOn ==
  ASSUME OneKindOfCrash, EntriesAreSynced
  PROVE  Spec => []CursorsStayValid
<1>1. LogInvariant => CursorsStayValid
  BY DEF LogInvariant, CrashesAreGood, Good, GoodFor, CursorsStayValid
<1> QED
  BY <1>1, Logging, PTL

\* Once New has returned with a healthy store, no crash brings back a header in
\* the clear (RedactHeaders, compactLocked).
THEOREM HeadersStayRedacted ==
  ASSUME OneKindOfCrash, EntriesAreSynced
  PROVE  Spec => []NoPlainHeaders
<1>1. LogInvariant => NoPlainHeaders
  <2> SUFFICES ASSUME LogInvariant, proc = "up", pc = "idle", health = "ok", NEW log \in NextLogs
               PROVE  \A n \in DOMAIN log : ~ log[n].plain
    BY DEF NoPlainHeaders
  <2>1. \A n \in DOMAIN files[dir].log : ~ files[dir].log[n].plain
    BY DEF LogInvariant, LogIsRedacted
  <2>2. "power" \in machine => /\ dirSynced \in {dir, "none"}
                               /\ Images(files[dir]) = {files[dir].log}
                               /\ Images(files["none"]) = {<<>>}
    <3>1. /\ files[dir] \in [log: Seq(Records), synced: Nat] /\ files["none"] = NoFile
      BY DEF LogInvariant, LogTypes, Files
    <3> QED
      BY <3>1, SyncedImages, NoFileTypes DEF LogInvariant, DiskIsSynced
  <2>3. log = files[dir].log \/ log = <<>>
    BY <2>2 DEF NextLogs
  <2> QED
    BY <2>1, <2>3
<1> QED
  BY <1>1, Logging, PTL

\* However late a Load reads, and whenever a compaction begins, the records are
\* where the store says (readEventAt, hydrateSnapshotEventLocked, fileMu).
THEOREM ReadsFindTheirRecords ==
  ASSUME OneKindOfCrash, EntriesAreSynced
  PROVE  Spec => []LoadFindsItsRecords
<1>1. LogInvariant => LoadFindsItsRecords
  <2> SUFFICES ASSUME LogInvariant
               PROVE  LoadFindsItsRecords
    OBVIOUS
  <2>1. reader.pc = "reading" /\ reader.file # "closed" =>
          \A w \in reader.wants : Finds(reader.file, w[1], w[2])
    BY DEF LogInvariant, ReadingIsSafe
  <2>2. ASSUME proc = "up", pc \in {"idle", "compact"}, f # "closed"
        PROVE  Hydrated(s)
    BY <2>2 DEF LogInvariant, FileIsOpen, RefsHold, Hydrated, Finds
  <2>3. ASSUME proc = "up", pc \in {"idle", "compact"}, f = "closed"
        PROVE  Windows /\ health = "poisoned"
    BY <2>3 DEF LogInvariant, FileIsOpen
  <2> QED
    BY <2>1, <2>2, <2>3 DEF LoadFindsItsRecords
<1> QED
  BY <1>1, Logging, PTL

=============================================================================
