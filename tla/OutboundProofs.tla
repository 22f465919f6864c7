--------------------------- MODULE OutboundProofs ---------------------------
(***************************************************************************)
(* Facts about the outbound decisions, for all headers, policies, answers  *)
(* and times.                                                              *)
(***************************************************************************)
EXTENDS Outbound, TLAPS

\* docs/architecture.md: "Forwarding removes every redacted and hop-by-hop
\* header".  Headers are redacted when captured, under one policy, and sent
\* after any number of restarts, under another (redactWithPolicy,
\* forwardHeaders).  Exactly the values leave that no policy hides, that were
\* not captured as "[REDACTED]", and whose name neither belongs to the
\* connection nor was listed by it.
THEOREM ForwardedIsClean ==
  ASSUME NEW h, NEW captured, NEW current
  PROVE  LET stored == RedactWithPolicy(h, captured)
             sent == ForwardHeaders(stored, current)
             Leaves(n, v) == /\ n \in DOMAIN h /\ v \in h[n] /\ v.text # "[REDACTED]"
                             /\ ~ SensitiveHeader(n, captured)
                             /\ ~ SensitiveHeader(n, current)
                             /\ n.id \notin NeverSent
                             /\ ~ \E c \in DOMAIN h : \E w \in h[c] :
                                    /\ c.id = "Connection" /\ n.id \in w.lists
                                    /\ ~ SensitiveHeader(c, captured)
         IN \A n, v : n \in DOMAIN sent /\ v \in sent[n] <=> Leaves(n, v)
<1> DEFINE stored == RedactWithPolicy(h, captured)
           sent == ForwardHeaders(stored, current)
           plain(n) == {v \in stored[n] : v.text # REDACTED.text}
           Listed(id) == \E c \in DOMAIN h : \E w \in h[c] :
                           /\ c.id = "Connection" /\ id \in w.lists
                           /\ ~ SensitiveHeader(c, captured)
<1>1. /\ DOMAIN stored = DOMAIN h
      /\ \A n \in DOMAIN h :
           stored[n] = IF SensitiveHeader(n, captured) THEN {REDACTED} ELSE h[n]
  BY DEF RedactWithPolicy
<1>2. REDACTED.text = "[REDACTED]" /\ REDACTED.lists = {}
  BY DEF REDACTED
<1>3. \A n \in DOMAIN h : \A v :
        v \in plain(n) <=> /\ v \in h[n] /\ v.text # "[REDACTED]"
                           /\ ~ SensitiveHeader(n, captured)
  BY <1>1, <1>2
<1>4. \A id : id \in UNION {v.lists : v \in Values(stored, "Connection")} <=> Listed(id)
  BY <1>1, <1>2 DEF Values
<1>5. \A n, v : n \in DOMAIN sent /\ v \in sent[n] <=>
        /\ n \in DOMAIN stored /\ v \in plain(n)
        /\ ~ SensitiveHeader(n, current) /\ n.id \notin Dropped(stored)
  BY DEF ForwardHeaders
<1>6. \A id : id \in Dropped(stored) <=> id \in NeverSent \/ Listed(id)
  BY <1>4 DEF Dropped
<1> QED
  BY <1>1, <1>3, <1>5, <1>6

\* What a job and an attempt number may hash to, and bases whose back-off fits:
\* 640 is 1.25 times the largest power.
Fractions == 0 .. 65535

BackoffFits ==
  /\ BaseBackoff \in Nat /\ MaxDuration \in Nat
  /\ 640 * BaseBackoff <= MaxDuration

\* A product with a larger factor is no smaller.
LEMMA ProductMonotone ==
  ASSUME NEW x \in Nat, NEW y \in Nat, NEW z \in Nat, y <= z
  PROVE  x * y \in Nat /\ x * y <= x * z
OBVIOUS

\* The back-off of an attempt that -attempts allows is a time and does not
\* overflow (backoff), with a base of at most 2^63 / 640 ns, some 166 days.
LEMMA BackoffIsATime ==
  ASSUME BackoffFits, NEW n \in 1 .. MostAttempts, NEW f \in Fractions
  PROVE  Backoff(n, f) \in 0 .. MaxDuration
<1> DEFINE x == BaseBackoff * Power[n]
           y == 196605 + 2 * f
<1>1. x \in Nat /\ x <= 512 * BaseBackoff
  BY DEF Power, MostAttempts, BackoffFits
<1>2. y \in Nat /\ y <= 327675
  BY SMTT(60) DEF Fractions
<1> HIDE DEF x, y
<1>3. x * y \in Nat /\ x * y <= x * 327675
  BY <1>1, <1>2, ProductMonotone
<1>4. (x * y) \div 262140 \in 0 .. MaxDuration
  BY <1>1, <1>3 DEF BackoffFits
<1> QED
  BY <1>4 DEF Backoff, x, y

\* No number is so large that a retry would be due in the past, and none is due
\* later than MaxBackoff (forward, backoff, parseRetry): whatever the answer
\* says and for every attempt that -attempts allows.
THEOREM DelayWithinBounds ==
  ASSUME BackoffFits, MaxBackoff \in Nat, Second \in Nat \ {0},
         NEW n \in 1 .. MostAttempts, NEW f \in Fractions, NEW now \in Int,
         NEW v \in [form : {"none", "seconds", "date", "other"}, value : Int]
  PROVE  Delay(n, f, v, now) \in 0 .. MaxBackoff
<1>1. CASE v.form = "seconds" /\ v.value >= 0
  <2> DEFINE s == Smaller(v.value, MaxDuration \div Second)
  <2>1. s \in Nat
    BY <1>1 DEF Smaller, BackoffFits
  <2> HIDE DEF s
  <2>2. s * Second \in Nat
    BY <2>1
  <2>3. ParseRetry(v, now) = s * Second /\ RetryAfterValid(v)
    BY <1>1 DEF ParseRetry, RetryAfterValid, s
  <2> QED
    BY <2>2, <2>3 DEF Delay, Smaller
<1>2. CASE v.form = "date"
  BY <1>2 DEF Delay, RetryAfterValid, ParseRetry, Smaller, Larger
<1>3. CASE ~ RetryAfterValid(v)
  <2>1. Backoff(n, f) \in 0 .. MaxDuration
    BY BackoffIsATime, Zenon
  <2> QED
    BY <1>3, <2>1 DEF Delay, Smaller, BackoffFits
<1> QED
  BY <1>1, <1>2, <1>3 DEF RetryAfterValid

\* Every answer has one meaning, and a job is given up or tried again only
\* after a failure the destination may recover from (forward, retryStatus).
THEOREM OneOutcome ==
  ASSUME NEW failed \in BOOLEAN, NEW s \in Nat, NEW n \in Nat, NEW attempts \in Nat
  PROVE  /\ Outcome(failed, s, n, attempts)
              \in {"succeeded", "fatal", "dead-letter", "retrying"}
         /\ Outcome(failed, s, n, attempts) = "retrying" => n < attempts
         /\ Outcome(failed, s, n, attempts) = "succeeded" => ~ failed
BY SMT DEF Outcome, RetryStatus

=============================================================================
