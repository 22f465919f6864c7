------------------------------ MODULE RelayStore ------------------------------
(***************************************************************************)
(* The logical state of the Relaybox store (internal/store): captures,     *)
(* the idempotency indexes, forwarding jobs with their leases and attempts,*)
(* retention, the poisoned store, crashes and recovery.                    *)
(*                                                                         *)
(* Every mutating method of Store holds mu from its first read to the      *)
(* return of appendLocked, so each is one action.  What is NOT atomic is   *)
(* the pair (memory, disk): an append may fail before or after its record  *)
(* became durable, and the process may stop at any time.  `mem' is the     *)
(* maps in memory, `disk' what recover() would rebuild from the log.  The  *)
(* log itself (records, sequence numbers, compaction) is module EventLog.  *)
(*                                                                         *)
(* All times are arguments: the store never reads a clock to decide, and   *)
(* callers stamp their arguments before they take the lock.  So a time is  *)
(* any member of Times, in any order; 0 is Go's zero time.                 *)
(*                                                                         *)
(* A definition under a comment that begins `Variant' is a deliberately    *)
(* wrong twin of the one after it; nothing uses it, and each property is   *)
(* known to fail when some twin takes the place of its original.           *)
(***************************************************************************)
EXTENDS Integers, Sequences, FiniteSets

CONSTANTS
  RequestIds,         \* values of Request.ID (App.IDSource draws them)
  JobIds,             \* values of Job.ID
  Deliveries,         \* non-empty X-GitHub-Delivery values
  Bodies,             \* request bodies, identified with their SHA-256
  Owners,             \* worker names passed to ClaimNextJob
  None,               \* no delivery ID, no owner, absent entry, nil pointer
  MaxTime,            \* BOUND on the times callers pass
  Lease,              \* App.c.LeaseDuration
  MaxCaptures, MaxJobsPerRequest, MaxAttemptsPerJob  \* store.Options

Times == 0 .. MaxTime
Terminal == {"succeeded", "failed", "fatal", "dead-letter", "poison"}
JobStates == {"pending", "queued", "leased", "running", "retrying"} \cup Terminal
\* Variant: the result state is not checked
AttemptResultsUnchecked == {"retrying", "succeeded", "fatal", "dead-letter", "lost"}
AttemptResults == {"retrying", "succeeded", "fatal", "dead-letter"}

Request == [deliveryID: Deliveries \cup {None}, body: Bodies, receivedAt: Times]
Job == [requestID: RequestIds, state: JobStates, owner: Owners \cup {None},
        createdAt: Times, availableAt: Times, leaseExpiresAt: 0 .. MaxTime + Lease]

ASSUME StoreConstants ==
  /\ MaxTime \in Nat /\ Lease \in Nat
  /\ MaxCaptures \in Nat \ {0} /\ MaxJobsPerRequest \in Nat \ {0}
  /\ MaxAttemptsPerJob \in Nat \ {0}
  /\ IsFiniteSet(RequestIds) /\ IsFiniteSet(JobIds)

ASSUME NoneIsNothing ==
  None \notin RequestIds \cup JobIds \cup Deliveries \cup Bodies \cup Owners
              \cup Request \cup Job

(***************************************************************************)
(* The maps of Store, as one value.  An absent map entry is None; attempts *)
(* keeps, per job, the Numbers of its recorded attempts in record order.   *)
(***************************************************************************)
Maps == [requests: [RequestIds -> Request \cup {None}],
         jobs: [JobIds -> Job \cup {None}],
         jobsByRequest: [RequestIds -> SUBSET JobIds],
         attempts: [JobIds -> Seq(Nat)],
         delivery: [Deliveries -> RequestIds \cup {None}],
         body: [Bodies -> RequestIds \cup {None}]]

EmptyMaps == [requests |-> [r \in RequestIds |-> None],
              jobs |-> [j \in JobIds |-> None],
              jobsByRequest |-> [r \in RequestIds |-> {}],
              attempts |-> [j \in JobIds |-> <<>>],
              delivery |-> [d \in Deliveries |-> None],
              body |-> [b \in Bodies |-> None]]

VARIABLES
  mem,      \* the maps in memory
  disk,     \* the maps recovery would rebuild
  health,   \* Store.health: "ok" or "poisoned"
  phase,    \* of the process: "down", "starting" (App.New), "up"
  acked,    \* history: the strongest reply ingest has given for a capture
  claimed   \* history: the jobs this run of the process has claimed

vars == <<mem, disk, health, phase, acked, claimed>>

-----------------------------------------------------------------------------
(* Queries on the maps *)

Retained(S) == {r \in RequestIds : S.requests[r] # None}
Present(S) == {j \in JobIds : S.jobs[j] # None}
IsTerminal(S, j) == S.jobs[j].state \in Terminal

\* Variant: only work in flight is protected
RequestNotLeased(S, r) == \A j \in S.jobsByRequest[r] : S.jobs[j].state # "leased"

\* requestTerminalLocked
RequestTerminal(S, r) == \A j \in S.jobsByRequest[r] : IsTerminal(S, j)

\* duplicateLocked: the capture that already holds the idempotency key
DuplicateOf(S, d, b) == IF d # None THEN S.delivery[d] ELSE S.body[b]

\* Variant: the new capture is not counted
CaptureEvictionsLate(S) ==
  LET over == Cardinality(Retained(S)) - MaxCaptures
      candidates == {r \in Retained(S) : RequestTerminal(S, r)}
  IN IF over <= 0 THEN {{}} ELSE {E \in SUBSET candidates : Cardinality(E) = over}

\* captureEvictionsLocked: the sets it may return (none when ErrCapacity);
\* equal receivedAt leave the order, hence the choice, open.
CaptureEvictions(S) ==
  LET over == Cardinality(Retained(S)) + 1 - MaxCaptures
      candidates == {r \in Retained(S) : RequestTerminal(S, r)}
      oldest(E) == \A x \in E, y \in candidates \ E :
                     S.requests[x].receivedAt <= S.requests[y].receivedAt
  IN IF over <= 0 THEN {{}}
     ELSE {E \in SUBSET candidates : Cardinality(E) = over /\ oldest(E)}

\* The eviction of Enqueue: one oldest terminal job once the slots are full
JobEvictions(S, r) ==
  LET candidates == {j \in S.jobsByRequest[r] : IsTerminal(S, j)}
  IN IF Cardinality(S.jobsByRequest[r]) < MaxJobsPerRequest THEN {{}}
     ELSE {{j} : j \in {x \in candidates : \A y \in candidates :
                          S.jobs[x].createdAt <= S.jobs[y].createdAt}}

\* The eligibility test of ClaimNextJob
Eligible(job, now) ==
  \/ job.state \in {"pending", "queued"}
  \/ job.state = "retrying" /\ job.availableAt <= now
  \/ job.state \in {"leased", "running"} /\ job.leaseExpiresAt <= now

\* The order of ClaimNextJob: by AvailableAt, then by CreatedAt
ClaimedBefore(a, b) ==
  \/ a.availableAt < b.availableAt
  \/ a.availableAt = b.availableAt /\ a.createdAt < b.createdAt

\* expectedAttempt of RecordAttempt: one more than the largest Number
ExpectedAttempt(S, j, n) ==
  /\ \A i \in DOMAIN S.attempts[j] : S.attempts[j][i] < n
  /\ n = 1 \/ \E i \in DOMAIN S.attempts[j] : S.attempts[j][i] + 1 = n

-----------------------------------------------------------------------------
(* Events and Store.apply *)

\* Variant: attempts survive their job
RemoveJobsKeepAttempts(S, J) ==
  [S EXCEPT
     !.jobs = [j \in JobIds |-> IF j \in J THEN None ELSE S.jobs[j]],
     !.jobsByRequest = [r \in RequestIds |-> S.jobsByRequest[r] \ J]]

\* removeJob, for every job of a set
RemoveJobs(S, J) ==
  [S EXCEPT
     !.jobs = [j \in JobIds |-> IF j \in J THEN None ELSE S.jobs[j]],
     !.jobsByRequest = [r \in RequestIds |-> S.jobsByRequest[r] \
                          {j \in J : S.jobs[j] # None /\ S.jobs[j].requestID = r}],
     !.attempts = [j \in JobIds |-> IF j \in J THEN <<>> ELSE S.attempts[j]]]

\* Variant: the body index is not cleared
RemoveRequestsKeepBody(S, R) ==
  LET T == RemoveJobs(S, UNION {S.jobsByRequest[r] : r \in R})
  IN [T EXCEPT
        !.requests = [r \in RequestIds |-> IF r \in R THEN None ELSE S.requests[r]],
        !.delivery = [d \in Deliveries |->
                        IF S.delivery[d] \in R THEN None ELSE S.delivery[d]]]

\* Variant: jobs survive their capture
RemoveRequestsKeepJobs(S, R) ==
  [S EXCEPT
     !.requests = [r \in RequestIds |-> IF r \in R THEN None ELSE S.requests[r]],
     !.delivery = [d \in Deliveries |-> IF S.delivery[d] \in R THEN None ELSE S.delivery[d]],
     !.body = [b \in Bodies |-> IF S.body[b] \in R THEN None ELSE S.body[b]]]

\* removeRequest, for every request of a set
RemoveRequests(S, R) ==
  LET T == RemoveJobs(S, UNION {S.jobsByRequest[r] : r \in R})
      Holds(r, d) == S.requests[r] # None /\ S.requests[r].deliveryID = d
  IN [T EXCEPT
        !.requests = [r \in RequestIds |-> IF r \in R THEN None ELSE S.requests[r]],
        !.jobsByRequest = [r \in RequestIds |-> IF r \in R THEN {} ELSE T.jobsByRequest[r]],
        !.delivery = [d \in Deliveries |->
           IF \E r \in R : S.delivery[d] = r /\ Holds(r, d)
             THEN None ELSE S.delivery[d]],
        !.body = [b \in Bodies |->
           IF \E r \in R : S.body[b] = r /\ Holds(r, None) /\ S.requests[r].body = b
             THEN None ELSE S.body[b]]]

PutRequest(S, r, request) ==
  IF request.deliveryID # None
    THEN [S EXCEPT !.requests[r] = request, !.delivery[request.deliveryID] = r]
    ELSE [S EXCEPT !.requests[r] = request, !.body[request.body] = r]

PutJob(S, j, job) ==
  [S EXCEPT !.jobs[j] = job, !.jobsByRequest[job.requestID] = @ \cup {j}]

PutAttempt(S, j, n) == [S EXCEPT !.attempts[j] = Append(@, n)]

\* An Event: a capture (or None), a job (or None), an attempt Number of that
\* job (or 0), and the identifiers it evicts.
JobEvent(j, job) == [requestID |-> None, request |-> None, jobID |-> j, job |-> job,
                     attempt |-> 0, evictedRequests |-> {}, evictedJobs |-> {}]

Apply(S, e) ==
  LET evicted == RemoveRequests(RemoveJobs(S, e.evictedJobs), e.evictedRequests)
      captured == IF e.request = None THEN evicted
                  ELSE PutRequest(evicted, e.requestID, e.request)
      attempted == IF e.attempt = 0 THEN captured
                   ELSE PutAttempt(captured, e.jobID, e.attempt)
  IN IF e.job = None THEN attempted ELSE PutJob(attempted, e.jobID, e.job)

(***************************************************************************)
(* appendLocked.  A healthy store has mem = disk.  The outcomes:           *)
(*   "ok"        written, synced, applied, published                       *)
(*   "lost"      a write or sync error, and the record is not (wholly) in  *)
(*               the file: recovery truncates it                           *)
(*   "unsynced"  a sync error, but the record survives in the file         *)
(*   "compact"   synced and applied, but the compaction it triggered fails *)
(* Every outcome but the first poisons the store and returns an error.     *)
(***************************************************************************)
Outcomes == {"ok", "lost", "unsynced", "compact"}

\* Variant: a write or sync error does not poison
AppendUnpoisoned(e, o) ==
  /\ health = "ok"
  /\ mem' = IF o \in {"ok", "compact"} THEN Apply(mem, e) ELSE mem
  /\ disk' = IF o = "lost" THEN disk ELSE Apply(disk, e)
  /\ health' = IF o = "compact" THEN "poisoned" ELSE "ok"

AppendLocked(e, o) ==
  /\ health = "ok"
  /\ mem' = IF o \in {"ok", "compact"} THEN Apply(mem, e) ELSE mem
  /\ disk' = IF o = "lost" THEN disk ELSE Apply(disk, e)
  /\ health' = IF o = "ok" THEN "ok" ELSE "poisoned"

\* What the log no longer keeps is no longer owed to anyone.
Forget(R, o) == IF o = "lost" THEN acked
                ELSE [r \in RequestIds |-> IF r \in R THEN "evicted" ELSE acked[r]]

-----------------------------------------------------------------------------
(* Captures: Accept *)

NewJob(r, t) == [requestID |-> r, state |-> "pending", owner |-> None,
                 createdAt |-> t, availableAt |-> 0, leaseExpiresAt |-> 0]

\* What a client that got a reply for a capture has been promised
Answered(level, hasJob) ==
  CASE level = "evicted" -> level
    [] level # "evicted" /\ hasJob -> "intent"
    [] level # "evicted" /\ ~ hasJob -> IF level = "none" THEN "capture" ELSE level

\* Variant: the job is left for a second event
CaptureEventWithoutIntent(r, request, j, t, E) ==
  [requestID |-> r, request |-> request, jobID |-> j, job |-> None,
   attempt |-> 0, evictedRequests |-> E, evictedJobs |-> {}]

CaptureEvent(r, request, j, t, E) ==
  [requestID |-> r, request |-> request, jobID |-> j,
   job |-> IF j = None THEN None ELSE NewJob(r, t),
   attempt |-> 0, evictedRequests |-> E, evictedJobs |-> {}]

\* A new capture, with its forwarding intent j (None: forwarding is off)
AcceptNew(r, request, j, t, o) ==
  /\ phase = "up"
  /\ DuplicateOf(mem, request.deliveryID, request.body) = None
  /\ mem.requests[r] = None
  /\ j # None => mem.jobs[j] = None
  /\ \E E \in CaptureEvictions(mem) :
       /\ AppendLocked(CaptureEvent(r, request, j, t, E), o)
       /\ acked' = [Forget(E, o) EXCEPT
                      ![r] = IF o = "ok" THEN Answered("none", j # None) ELSE "none"]
  /\ UNCHANGED <<phase, claimed>>

\* A duplicate that needs no repair: answered from memory, poisoned or not
AcceptDuplicate(d, b, j) ==
  LET id == DuplicateOf(mem, d, b)
  IN /\ phase = "up"
     /\ id # None
     /\ mem.requests[id].body = b
     /\ j = None \/ mem.jobsByRequest[id] # {}
     /\ acked' = [acked EXCEPT ![id] =
                    Answered(@, mem.jobsByRequest[id] # {})]
     /\ UNCHANGED <<mem, disk, health, phase, claimed>>

\* A duplicate of a capture without any job: the intent is added now
AcceptRepair(d, b, j, t, o) ==
  LET id == DuplicateOf(mem, d, b)
  IN /\ phase = "up"
     /\ id # None
     /\ mem.requests[id].body = b
     /\ mem.jobsByRequest[id] = {}
     /\ mem.jobs[j] = None
     /\ AppendLocked(JobEvent(j, NewJob(id, t)), o)
     /\ acked' = [acked EXCEPT ![id] = IF o = "ok" THEN Answered(@, TRUE) ELSE @]
     /\ UNCHANGED <<phase, claimed>>

-----------------------------------------------------------------------------
(* Jobs: Enqueue (replay), ClaimNextJob, RecordAttempt, FinishWithoutAttempt *)

Enqueue(r, j, t, o) ==
  /\ phase = "up"
  /\ mem.requests[r] # None
  /\ mem.jobs[j] = None
  /\ \E E \in JobEvictions(mem, r) :
       AppendLocked([JobEvent(j, NewJob(r, t)) EXCEPT !.evictedJobs = E], o)
  /\ UNCHANGED <<phase, acked, claimed>>

ClaimNextJob(owner, now, o) ==
  LET candidates == {j \in Present(mem) : Eligible(mem.jobs[j], now)}
  IN /\ phase = "up"
     /\ \E j \in candidates :
          /\ \A k \in candidates : ~ ClaimedBefore(mem.jobs[k], mem.jobs[j])
          /\ AppendLocked(JobEvent(j, [mem.jobs[j] EXCEPT
                                         !.state = "leased", !.owner = owner,
                                         !.leaseExpiresAt = now + Lease]), o)
          /\ claimed' = claimed \cup {j}
     /\ UNCHANGED <<phase, acked>>

\* Variant: any worker may report on any job
HoldsNothing(j, owner) == mem.jobs[j] # None

\* The guard shared by RecordAttempt and FinishWithoutAttempt
HoldsLease(j, owner) ==
  /\ mem.jobs[j] # None
  /\ mem.jobs[j].state = "leased"
  /\ mem.jobs[j].owner = owner

\* The job both write: the result state, with the lease cleared
Released(job, state) == [job EXCEPT !.state = state, !.owner = None,
                                    !.leaseExpiresAt = 0]

RecordAttempt(j, owner, n, state, availableAt, o) ==
  /\ phase = "up"
  /\ HoldsLease(j, owner)
  /\ n <= MaxAttemptsPerJob
  /\ ExpectedAttempt(mem, j, n)
  /\ LET job == [Released(mem.jobs[j], state) EXCEPT !.availableAt = availableAt]
     IN AppendLocked([JobEvent(j, job) EXCEPT !.attempt = n], o)
  /\ UNCHANGED <<phase, acked, claimed>>

FinishWithoutAttempt(j, owner, o) ==
  /\ phase = "up"
  /\ HoldsLease(j, owner)
  /\ AppendLocked(JobEvent(j, Released(mem.jobs[j], "poison")), o)
  /\ UNCHANGED <<phase, acked, claimed>>

-----------------------------------------------------------------------------
(* The process: crash or exit, Open with recover(), App.New *)

Stop == /\ phase # "down"
        /\ phase' = "down"
        /\ UNCHANGED <<mem, disk, health, acked, claimed>>

\* OpenWithOptions and RedactHeaders; a migration whose scan or compaction
\* fails poisons the store, and New carries on.
Open(h) == /\ phase = "down"
           /\ phase' = "starting"
           /\ mem' = disk
           /\ health' = h
           /\ claimed' = {}
           /\ UNCHANGED <<disk, acked>>

\* Variant: the legacy name of a lease is forgotten
StaleLeasesOfToday(S) == {j \in Present(S) : S.jobs[j].state = "leased"}
StaleLeases(S) == {j \in Present(S) : S.jobs[j].state \in {"leased", "running"}}

\* One iteration of the loop of RecoverLeases, oldest job first
RecoverLease(now, o) ==
  /\ phase = "starting"
  /\ \E j \in StaleLeases(mem) :
       /\ \A k \in StaleLeases(mem) : mem.jobs[j].createdAt <= mem.jobs[k].createdAt
       /\ AppendLocked(JobEvent(j, [Released(mem.jobs[j], "pending") EXCEPT
                                      !.availableAt = now]), o)
  /\ UNCHANGED <<phase, acked, claimed>>

\* New starts the workers and the handler, also after a failed recovery
Serve == /\ phase = "starting"
         /\ StaleLeases(mem) = {} \/ health = "poisoned"
         /\ phase' = "up"
         /\ UNCHANGED <<mem, disk, health, acked, claimed>>

\* Load finds a record it cannot read back (poison)
Poison == /\ phase = "up"
          /\ Retained(mem) # {}
          /\ health' = "poisoned"
          /\ UNCHANGED <<mem, disk, phase, acked, claimed>>

-----------------------------------------------------------------------------
\* A first log: empty, or one written by a version without atomic intents
\* (request.received, then possibly a job in a legacy state).
LegacyMaps ==
  {PutRequest(EmptyMaps, r, request) : r \in RequestIds, request \in Request}
  \cup {PutJob(PutRequest(EmptyMaps, r, request), j,
               [NewJob(r, 0) EXCEPT !.state = s]) :
          r \in RequestIds, request \in Request, j \in JobIds,
          s \in {"queued", "running", "failed"}}

Init == /\ disk \in {EmptyMaps} \cup LegacyMaps
        /\ mem = EmptyMaps
        /\ health = "poisoned"
        /\ phase = "down"
        /\ acked = [r \in RequestIds |-> "none"]
        /\ claimed = {}

Capture ==
  \E request \in Request, j \in JobIds \cup {None}, t \in Times, o \in Outcomes :
    \/ \E r \in RequestIds : AcceptNew(r, request, j, t, o)
    \/ AcceptDuplicate(request.deliveryID, request.body, j)
    \/ j # None /\ AcceptRepair(request.deliveryID, request.body, j, t, o)

Replay == \E r \in RequestIds, j \in JobIds, t \in Times, o \in Outcomes :
            Enqueue(r, j, t, o)

Work ==
  \E owner \in Owners, t \in Times, o \in Outcomes :
    \/ ClaimNextJob(owner, t, o)
    \/ \E j \in JobIds : FinishWithoutAttempt(j, owner, o)
    \/ \E j \in JobIds, n \in 1 .. MaxAttemptsPerJob, s \in AttemptResults :
         RecordAttempt(j, owner, n, s, t, o)

Process == \/ Stop
           \/ \E h \in {"ok", "poisoned"} : Open(h)
           \/ \E t \in Times, o \in Outcomes : RecoverLease(t, o)
           \/ Serve
           \/ Poison

Next == Capture \/ Replay \/ Work \/ Process

Spec == Init /\ [][Next]_vars

-----------------------------------------------------------------------------
(* Correctness.  The predicates on maps hold of memory and of the log.     *)

\* The maps, the health and the phase of the store (model.go, type Store), and
\* the two histories, have their types.
TypeOK ==
  /\ mem \in Maps /\ disk \in Maps
  /\ health \in {"ok", "poisoned"}
  /\ phase \in {"down", "starting", "up"}
  /\ acked \in [RequestIds -> {"none", "capture", "intent", "evicted"}]
  /\ claimed \subseteq JobIds

KeyFinds(S, r) ==
  IF S.requests[r].deliveryID # None
    THEN S.delivery[S.requests[r].deliveryID] = r
    ELSE S.body[S.requests[r].body] = r

\* Every retained capture is the one its idempotency key leads to (so no two
\* share a key), and no key leads to a capture that is gone.
KeysIndexed(S) ==
  /\ \A r \in Retained(S) : KeyFinds(S, r)
  /\ \A d \in Deliveries : S.delivery[d] # None =>
       S.delivery[d] \in Retained(S) /\ S.requests[S.delivery[d]].deliveryID = d
  /\ \A b \in Bodies : S.body[b] # None =>
       /\ S.body[b] \in Retained(S)
       /\ S.requests[S.body[b]].deliveryID = None /\ S.requests[S.body[b]].body = b

\* A duplicate finds the capture it duplicates and nothing else, over any
\* sequence of captures, evictions, failed appends and restarts
\* (duplicateLocked, removeRequest).
OneCapturePerKey == KeysIndexed(mem) /\ KeysIndexed(disk)

JobsIndexed(S) ==
  \A j \in JobIds, r \in RequestIds :
    /\ j \in S.jobsByRequest[r] <=> S.jobs[j] # None /\ S.jobs[j].requestID = r
    /\ j \in S.jobsByRequest[r] => r \in Retained(S)

\* jobsByRequest is the inverse of Job.RequestID, and no job outlives its
\* capture: what ClaimNextJob hands out can be loaded.
NoOrphanJob == JobsIndexed(mem) /\ JobsIndexed(disk)

AttemptsNumbered(S) ==
  \A j \in JobIds :
    /\ \A i \in DOMAIN S.attempts[j] : S.attempts[j][i] = i
    /\ Len(S.attempts[j]) <= MaxAttemptsPerJob
    /\ S.jobs[j] = None => S.attempts[j] = <<>>
    /\ j \in Present(S) /\ S.jobs[j].state \in AttemptResults => S.attempts[j] # <<>>

\* The attempts of a job are numbered 1, 2, ... up to the bound, go when the
\* job goes (an ID may be drawn again), and exist whenever its state says one
\* was made: neither half of RecordAttempt's event is ever seen alone.
AttemptsMatchStates == AttemptsNumbered(mem) /\ AttemptsNumbered(disk)

Bounded(S) ==
  /\ Cardinality(Retained(S)) <= MaxCaptures
  /\ \A r \in RequestIds : Cardinality(S.jobsByRequest[r]) <= MaxJobsPerRequest

\* Retention is a bound and not a hope: captures, and jobs per capture
\* (captureEvictionsLocked, Enqueue).
RetentionBounds == Bounded(mem) /\ Bounded(disk)

\* While the store accepts work, what it answers from is what a restart would
\* find: any error that could part the two has poisoned it (appendLocked).
HealthyIsDurable == phase # "down" /\ health = "ok" => mem = disk

\* A reply is never contradicted by a crash: an acknowledged capture is in the
\* log until retention evicts it, with a job if its reply implied one
\* (Accept is one event; a duplicate repairs a missing intent before the reply).
AckedIsDurable ==
  \A r \in RequestIds :
    /\ acked[r] \in {"capture", "intent"} => r \in Retained(disk)
    /\ acked[r] = "intent" => disk.jobsByRequest[r] # {}

\* No lease of an earlier process is alive once the workers run, in a store
\* they can write to (RecoverLeases, also for the legacy "running").
NoForeignLease ==
  phase = "up" /\ health = "ok" =>
    \A j \in Present(mem) : mem.jobs[j].state \in {"leased", "running"} => j \in claimed

\* Unfinished work leaves the log only by finishing: no eviction, of captures
\* or of jobs, takes it (captureEvictionsLocked, Enqueue).
UnfinishedNeverEvicted ==
  [][\A j \in Present(disk) : ~ IsTerminal(disk, j) =>
       /\ j \in Present(disk')
       /\ disk'.jobs[j].requestID = disk.jobs[j].requestID]_vars

\* The job's durable states follow the state machine of docs/architecture.md.
StatusOf(job) == CASE job = None -> "none"
                   [] job # None /\ job.state = "queued" -> "pending"
                   [] job # None /\ job.state = "running" -> "leased"
                   [] OTHER -> job.state

Lifecycle == INSTANCE JobLifecycle WITH
  Jobs <- JobIds, MaxTries <- MaxAttemptsPerJob,
  status <- [j \in JobIds |-> StatusOf(disk.jobs[j])],
  tries <- [j \in JobIds |-> Len(disk.attempts[j])]

\* Every change of the log is a step of JobLifecycle for all jobs together, or
\* no step of it at all, through failed appends, crashes and restarts.
FollowsLifecycle == Lifecycle!Spec

=============================================================================
