------------------------------ MODULE Outbound ------------------------------
(***************************************************************************)
(* What forward decides about one request to the destination: the headers  *)
(* it carries, the address it is sent to, what its answer means and when it*)
(* is sent again.  Forwarding has the order of these decisions; here they  *)
(* are functions, with the parts of internal/app that they rest on.        *)
(***************************************************************************)
EXTENDS Integers, FiniteSets

CONSTANTS
  Second, MaxDuration,        \* a second, and the largest time.Duration
  BaseBackoff, MaxBackoff     \* of Config

-----------------------------------------------------------------------------
(* Headers: functions from names to sets of values.  A name is [id: what    *)
(* CanonicalHeaderKey makes of it, components: the words it is made of,     *)
(* marked: whether "token", "secret", "apikey" or the like is in it when    *)
(* punctuation is left out]; a value is [text, lists: the names in it].     *)

REDACTED == [text |-> "[REDACTED]", lists |-> {}]

SensitiveHeader(name, policy) ==
  name.id \in policy \/ "auth" \in name.components \/ name.marked

RedactWithPolicy(h, policy) ==
  [n \in DOMAIN h |-> IF SensitiveHeader(n, policy) THEN {REDACTED} ELSE h[n]]

HopByHop ==
  {"Connection", "Keep-Alive", "Proxy-Authenticate", "Proxy-Authorization",
   "Proxy-Connection", "Te", "Trailer", "Transfer-Encoding", "Upgrade"}

Spoofable ==
  {"Forwarded", "X-Forwarded-For", "X-Forwarded-Host", "X-Forwarded-Proto", "X-Real-Ip",
   "X-Relaybox-Job-Id", "X-Relaybox-Request-Id"}

Values(h, id) == UNION {h[n] : n \in {m \in DOMAIN h : m.id = id}}

\* A header without a name is dropped as well.
NeverSent == {""} \cup HopByHop \cup Spoofable

Dropped(h) == NeverSent \cup UNION {v.lists : v \in Values(h, "Connection")}

\* Names without a value left are not set.
ForwardHeaders(h, policy) ==
  LET plain(n) == {v \in h[n] : v.text # REDACTED.text}
      kept == {n \in DOMAIN h : /\ ~ SensitiveHeader(n, policy)
                                /\ n.id \notin Dropped(h) /\ plain(n) # {}}
  IN [n \in kept |-> plain(n)]

-----------------------------------------------------------------------------
(* Addresses: [class, mapped: an IPv4 address written as IPv6] *)

NotGlobal == {"unspecified", "broadcast", "multicast", "loopback", "link-local", "private"}

NonPublicPrefixes ==
  {"shared", "protocol", "documentation", "benchmarking", "translated", "teredo", "6to4"}

\* Unmap first: a mapped address is as blocked as the one it stands for
BlockedIP(ip) == ip.class \in {"invalid"} \cup NotGlobal \cup NonPublicPrefixes

\* The configured URL: [parses, scheme, host, user, ip: the literal address, if any]
ValidateTarget(u, allowPrivate) ==
  /\ u.parses /\ u.scheme \in {"http", "https"} /\ u.host /\ ~ u.user
  /\ \A ip \in u.ip : allowPrivate \/ ~ BlockedIP(ip)

\* DialContext: the addresses it may connect to, of those the name resolves to
\* at that moment; it takes the first, and fails if there is none
Dials(ips, allowPrivate) == {ip \in ips : allowPrivate \/ ~ BlockedIP(ip)}

-----------------------------------------------------------------------------
(* Answers *)

RetryStatus(s) == s \in {0, 408, 425, 429} \cup 500 .. 599

\* The switch of forward; failed: no answer came
Outcome(failed, s, n, attempts) ==
  CASE ~ failed /\ s \in 200 .. 299 -> "succeeded"
    [] ~ failed /\ s \notin 200 .. 299 /\ ~ RetryStatus(s) -> "fatal"
    [] failed \/ RetryStatus(s) -> IF n >= attempts THEN "dead-letter" ELSE "retrying"

-----------------------------------------------------------------------------
(* Times to wait *)

\* math.Pow(2, n - 1) for the attempts that -attempts allows
Power == <<1, 2, 4, 8, 16, 32, 64, 128, 256, 512>>

MostAttempts == 10

\* base * (0.75 + 0.5 * fraction / 65535); a float64 that does not fit an int64
\* becomes the smallest one (amd64)
Backoff(n, fraction) ==
  LET d == (BaseBackoff * Power[n] * (196605 + 2 * fraction)) \div 262140
  IN IF d <= MaxDuration THEN d ELSE - MaxDuration - 1

Smaller(a, b) == IF a < b THEN a ELSE b
Larger(a, b) == IF a < b THEN b ELSE a

\* A Retry-After is [form: "none", "seconds", "date" or "other", value]
RetryAfterValid(v) == (v.form = "seconds" /\ v.value >= 0) \/ v.form = "date"

ParseRetry(v, now) ==
  IF v.form = "seconds" THEN Smaller(v.value, MaxDuration \div Second) * Second
                        ELSE Larger(v.value - now, 0)

Delay(n, fraction, v, now) ==
  Smaller(MaxBackoff,
          IF RetryAfterValid(v) THEN ParseRetry(v, now) ELSE Backoff(n, fraction))

=============================================================================
