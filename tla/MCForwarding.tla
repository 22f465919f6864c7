---------------------------- MODULE MCForwarding ----------------------------
(* The forwarding workers on small instances, and the decisions of forward    *)
(* (Outbound) over small inputs, against what they are for.                   *)
EXTENDS Forwarding, Integers, TLC

\* For the runs without liveness: jobs and workers are only compared.
Symmetry == Permutations(Jobs) \cup Permutations(Workers)

-----------------------------------------------------------------------------
\* A second is 10 units; 640 * BaseBackoff is the longest time there is.
Units == INSTANCE Outbound WITH
  Second <- 10, MaxDuration <- 6400, BaseBackoff <- 10, MaxBackoff <- 300

\* The same with a base one unit longer
Over == INSTANCE Outbound WITH
  Second <- 10, MaxDuration <- 6400, BaseBackoff <- 11, MaxBackoff <- 300

RetryAfters ==
  [form : {"none", "seconds", "date", "other"}, value : {-1, 0, 1, 29, 30, 31, 640, 641}]

\* TestRetryClassificationAndParse, and further: the ends of the jitter, of the
\* attempts and of what a header may say.  One unit more of the base, and the
\* last back-off does not fit: the retry would be due in the past.
ASSUME DelaysAreBounded ==
  /\ \A n \in 1 .. 10, f \in {0, 1, 65534, 65535}, v \in RetryAfters, now \in {0, 30} :
       Units!Delay(n, f, v, now) \in 0 .. 300
  /\ Units!Backoff(1, 0) = 7 /\ Units!Backoff(2, 65535) = 25
  /\ Units!Backoff(10, 65535) = 6400 /\ Over!Backoff(10, 65535) < 0

\* Every answer is one of Answers, with the result Forwarding gives it.
ASSUME AnswersAreComplete ==
  \A failed \in BOOLEAN, n, attempts \in 1 .. 3,
     s \in {0, 100, 199, 200, 299, 300, 404, 408, 425, 429, 499, 500, 599, 600} :
    Units!Outcome(failed, s, n, attempts) =
      IF failed \/ s \in {0, 408, 425, 429, 500, 599}
        THEN IF n < attempts THEN "retrying" ELSE "dead-letter"
        ELSE IF s \in {200, 299} THEN "succeeded" ELSE "fatal"

Names ==
  {[id |-> i, components |-> c, marked |-> m] :
     i \in {"Connection", "Te", "X-Real-Ip", "X-A", "X-B"}, c \in {{}, {"auth"}},
     m \in BOOLEAN}

Plain(id) == [id |-> id, components |-> {}, marked |-> FALSE]
Text(t) == [text |-> t, lists |-> {}]

\* TestForwardHeadersDropSpoofingAndHopByHopValues, with a policy that changed
\* since the capture: no header of the connection, none it lists, and none either
\* policy hides.
ASSUME HeadersAreClean ==
  \A captured, current \in SUBSET {"X-A", "X-B", "Connection"},
     n \in Names \ {Plain("Connection")} :
    LET h == [m \in {Plain("Connection"), n} |->
                IF m = n THEN {Text("v"), Text("[REDACTED]")}
                         ELSE {[text |-> "X-B", lists |-> {"X-B"}]}]
        sent == Units!ForwardHeaders(Units!RedactWithPolicy(h, captured), current)
    IN /\ DOMAIN sent =
            IF /\ n.id \in {"X-A", "X-B"} \ (captured \cup current)
               /\ "auth" \notin n.components /\ ~ n.marked
               /\ n.id = "X-B" => "Connection" \in captured
              THEN {n} ELSE {}
       /\ \A m \in DOMAIN sent : sent[m] = {Text("v")}

Classes ==
  {"public", "invalid", "unspecified", "broadcast", "multicast", "loopback", "link-local",
   "private", "shared", "protocol", "documentation", "benchmarking", "translated", "teredo",
   "6to4"}

\* TestPrivateTargetValidation: an address the configuration would refuse is not
\* dialled either, if a name resolves to it only later.
ASSUME GuardsAgree ==
  \A class \in Classes, mapped, private \in BOOLEAN :
    LET ip == [class |-> class, mapped |-> mapped]
        u == [parses |-> TRUE, scheme |-> "https", host |-> TRUE, user |-> FALSE,
              ip |-> {ip}]
    IN /\ ip \in Units!Dials({ip}, private) <=> Units!ValidateTarget(u, private)
       /\ Units!ValidateTarget(u, private) <=> private \/ class = "public"

=============================================================================
