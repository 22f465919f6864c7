--------------------------- MODULE RelayStoreProofs ---------------------------
(***************************************************************************)
(* Theorems about RelayStore, for every value of its constants.            *)
(*                                                                         *)
(* Every change of the maps is Apply(S, e) for an event e that is Legal in *)
(* the maps S the method read under its lock (StepCases).  So it is enough *)
(* to know what Apply does to one value of the maps, whichever of memory   *)
(* and log it is, and that a healthy store has only one value of them.     *)
(***************************************************************************)
EXTENDS RelayStore, FiniteSetTheorems, TLAPS

\* What the methods of Store hand to appendLocked.
Event == [requestID: RequestIds \cup {None}, request: Request \cup {None},
          jobID: JobIds \cup {None}, job: Job \cup {None}, attempt: Nat,
          evictedRequests: SUBSET RequestIds, evictedJobs: SUBSET JobIds]

Legal(S, e) ==
  /\ e \in Event
  /\ e.request # None =>
       /\ e.requestID \in RequestIds
       /\ S.requests[e.requestID] = None
       /\ DuplicateOf(S, e.request.deliveryID, e.request.body) = None
  /\ e.job # None =>
       /\ e.jobID \in JobIds /\ e.jobID \notin e.evictedJobs
       /\ S.jobs[e.jobID] = None \/ S.jobs[e.jobID].requestID = e.job.requestID
       /\ e.job.requestID \notin e.evictedRequests
       /\ \/ e.job.requestID \in Retained(S)
          \/ e.request # None /\ e.requestID = e.job.requestID
  /\ e.attempt # 0 => e.job # None
  /\ \A j \in e.evictedJobs : /\ j \in Present(S) /\ IsTerminal(S, j)
                              /\ e.job # None
                              /\ S.jobs[j].requestID = e.job.requestID
  /\ \A r \in e.evictedRequests : RequestTerminal(S, r)

\* What an event is for: a capture, a job for a capture, or the next state of a
\* job.
Captures(S, e) ==
  /\ e.request # None /\ e.attempt = 0
  /\ e.evictedJobs = {} /\ e.evictedRequests \in CaptureEvictions(S)
  /\ e.job # None => /\ S.jobs[e.jobID] = None
                     /\ e.job.state = "pending" /\ e.job.requestID = e.requestID

Creates(S, e) ==
  /\ e.request = None /\ e.attempt = 0
  /\ e.job # None /\ S.jobs[e.jobID] = None /\ e.job.state = "pending"
  /\ e.evictedRequests = {} /\ e.evictedJobs \in JobEvictions(S, e.job.requestID)

Updates(S, e) ==
  /\ e.request = None /\ e.evictedRequests = {} /\ e.evictedJobs = {}
  /\ e.job # None /\ e.jobID \in Present(S)
  /\ \/ /\ e.attempt = 0
        /\ S.jobs[e.jobID].state \notin Terminal /\ e.job.state = "leased"
     \/ /\ e.attempt # 0 /\ e.attempt <= MaxAttemptsPerJob
        /\ ExpectedAttempt(S, e.jobID, e.attempt)
        /\ S.jobs[e.jobID].state = "leased" /\ e.job.state \in AttemptResults
     \/ /\ e.attempt = 0
        /\ S.jobs[e.jobID].state = "leased" /\ e.job.state = "poison"
     \/ /\ e.attempt = 0
        /\ S.jobs[e.jobID].state \in {"leased", "running"} /\ e.job.state = "pending"

\* Appended to the maps in memory; who appends a lease has claimed the job.
Purpose(e) ==
  /\ Captures(mem, e) \/ Creates(mem, e) \/ Updates(mem, e)
  /\ e.job # None /\ e.job.state = "leased" => e.jobID \in claimed'

\* What the reply to an append says of each capture: nothing new, or what the
\* append has made durable; and what it evicted is no longer owed to anyone.
Told(e, o) ==
  /\ \A r \in RequestIds :
       \/ acked'[r] \in {"none", "evicted"}
       \/ acked'[r] = acked[r] /\ (o = "lost" \/ r \notin e.evictedRequests)
       \/ o = "ok" /\ acked'[r] = "capture" /\ e.request # None /\ e.requestID = r
       \/ o = "ok" /\ acked'[r] = "intent" /\ e.job # None /\ e.job.requestID = r
  /\ o # "lost" => \A r \in e.evictedRequests : acked'[r] = "evicted"

Indexed(S) == KeysIndexed(S) /\ JobsIndexed(S)

-----------------------------------------------------------------------------
(* Types of the operators on maps *)

\* Removing any set of jobs leaves well-typed maps (removeJob).
LEMMA RemoveJobsType ==
  ASSUME NEW S \in Maps, NEW J \in SUBSET JobIds
  PROVE  RemoveJobs(S, J) \in Maps
<1>1. RemoveJobs(S, J).jobs \in [JobIds -> Job \cup {None}]
  BY DEF Maps, RemoveJobs
<1>2. RemoveJobs(S, J).jobsByRequest \in [RequestIds -> SUBSET JobIds]
  BY DEF Maps, RemoveJobs
<1>3. RemoveJobs(S, J).attempts \in [JobIds -> Seq(Nat)]
  BY DEF Maps, RemoveJobs
<1> QED
  BY <1>1, <1>2, <1>3 DEF Maps, RemoveJobs

\* Removing any set of captures leaves well-typed maps (removeRequest).
LEMMA RemoveRequestsType ==
  ASSUME NEW S \in Maps, NEW R \in SUBSET RequestIds
  PROVE  RemoveRequests(S, R) \in Maps
<1> DEFINE J == UNION {S.jobsByRequest[r] : r \in R}
           T == RemoveJobs(S, J)
<1>1. J \in SUBSET JobIds
  BY DEF Maps
<1>2. T \in Maps
  BY <1>1, RemoveJobsType
<1> HIDE DEF J, T
<1>3. /\ RemoveRequests(S, R).requests \in [RequestIds -> Request \cup {None}]
      /\ RemoveRequests(S, R).jobsByRequest \in [RequestIds -> SUBSET JobIds]
      /\ RemoveRequests(S, R).delivery \in [Deliveries -> RequestIds \cup {None}]
      /\ RemoveRequests(S, R).body \in [Bodies -> RequestIds \cup {None}]
  BY <1>2 DEF Maps, RemoveRequests, T, J
<1> QED
  BY <1>2, <1>3 DEF Maps, RemoveRequests, T, J

\* Storing a capture under its key leaves well-typed maps (apply).
LEMMA PutRequestType ==
  ASSUME NEW S \in Maps, NEW r \in RequestIds, NEW request \in Request
  PROVE  PutRequest(S, r, request) \in Maps
BY DEF Maps, PutRequest, Request

\* Storing a job under its capture leaves well-typed maps (apply).
LEMMA PutJobType ==
  ASSUME NEW S \in Maps, NEW j \in JobIds, NEW job \in Job
  PROVE  PutJob(S, j, job) \in Maps
<1>1. PutJob(S, j, job).jobs = [S.jobs EXCEPT ![j] = job]
  BY DEF Maps, PutJob
<1>2. PutJob(S, j, job).jobsByRequest
        = [S.jobsByRequest EXCEPT ![job.requestID] = @ \cup {j}]
  BY DEF Maps, PutJob
<1>3. job.requestID \in RequestIds
  BY DEF Job
<1> QED
  BY <1>1, <1>2, <1>3 DEF Maps, PutJob

\* Appending an attempt leaves well-typed maps (apply).
LEMMA PutAttemptType ==
  ASSUME NEW S \in Maps, NEW j \in JobIds, NEW n \in Nat
  PROVE  PutAttempt(S, j, n) \in Maps
<1>1. PutAttempt(S, j, n).attempts = [S.attempts EXCEPT ![j] = Append(@, n)]
  BY DEF Maps, PutAttempt
<1>2. Append(S.attempts[j], n) \in Seq(Nat)
  BY DEF Maps
<1> QED
  BY <1>1, <1>2 DEF Maps, PutAttempt

-----------------------------------------------------------------------------
(* None is no capture and no job, so a retained entry is a record *)

\* What is retained or present is a capture or a job, never None.
LEMMA Records ==
  ASSUME NEW S \in Maps
  PROVE  /\ \A r \in Retained(S) : r \in RequestIds /\ S.requests[r] \in Request
         /\ \A j \in Present(S) : j \in JobIds /\ S.jobs[j] \in Job
         /\ None \notin Request /\ None \notin Job
         /\ None \notin RequestIds /\ None \notin JobIds /\ None \notin Deliveries
BY NoneIsNothing DEF Maps, Retained, Present

-----------------------------------------------------------------------------
(* The indexes through each operator *)

\* removeJob keeps every index exact.
LEMMA RemoveJobsIndexed ==
  ASSUME NEW S \in Maps, NEW J \in SUBSET JobIds, Indexed(S)
  PROVE  Indexed(RemoveJobs(S, J))
<1> DEFINE T == RemoveJobs(S, J)
<1>1. /\ T.requests = S.requests /\ T.delivery = S.delivery /\ T.body = S.body
      /\ \A j \in JobIds : T.jobs[j] = IF j \in J THEN None ELSE S.jobs[j]
      /\ \A r \in RequestIds : T.jobsByRequest[r] = S.jobsByRequest[r] \
            {j \in J : S.jobs[j] # None /\ S.jobs[j].requestID = r}
  BY DEF Maps, RemoveJobs
<1> HIDE DEF T
<1>2. KeysIndexed(T)
  BY <1>1 DEF Indexed, KeysIndexed, KeyFinds, Retained
<1>3. JobsIndexed(T)
  BY <1>1 DEF Indexed, JobsIndexed, Retained
<1> QED
  BY <1>2, <1>3 DEF Indexed, T

\* removeRequest keeps every index exact: the captures that stay keep their
\* keys, and the keys of those that go lead nowhere.
LEMMA RemoveRequestsIndexed ==
  ASSUME NEW S \in Maps, NEW R \in SUBSET RequestIds, Indexed(S)
  PROVE  Indexed(RemoveRequests(S, R))
<1> DEFINE J == UNION {S.jobsByRequest[r] : r \in R}
           T == RemoveJobs(S, J)
           U == RemoveRequests(S, R)
<1>1. J \in SUBSET JobIds
  BY DEF Maps
<1>2. T \in Maps /\ Indexed(T)
  BY <1>1, RemoveJobsType, RemoveJobsIndexed
<1>3. /\ T.requests = S.requests /\ T.delivery = S.delivery /\ T.body = S.body
      /\ \A j \in JobIds : T.jobs[j] = IF j \in J THEN None ELSE S.jobs[j]
  BY DEF Maps, RemoveJobs
<1>4. /\ \A r \in RequestIds : U.requests[r] = IF r \in R THEN None ELSE S.requests[r]
      /\ U.jobs = T.jobs
      /\ \A r \in RequestIds :
           U.jobsByRequest[r] = IF r \in R THEN {} ELSE T.jobsByRequest[r]
      /\ \A d \in Deliveries : U.delivery[d] =
           IF \E r \in R : S.delivery[d] = r /\ S.requests[r] # None
                             /\ S.requests[r].deliveryID = d
             THEN None ELSE S.delivery[d]
      /\ \A b \in Bodies : U.body[b] =
           IF \E r \in R : S.body[b] = r /\ S.requests[r] # None
                             /\ S.requests[r].deliveryID = None
                             /\ S.requests[r].body = b
             THEN None ELSE S.body[b]
  BY <1>2, <1>3 DEF Maps, RemoveRequests
<1>5. \A r \in R, j \in JobIds : T.jobs[j] # None => T.jobs[j].requestID # r
  <2> SUFFICES ASSUME NEW r \in R, NEW j \in JobIds,
                      T.jobs[j] # None, T.jobs[j].requestID = r
               PROVE  FALSE
    OBVIOUS
  <2>1. j \notin J /\ S.jobs[j] = T.jobs[j]
    BY <1>3
  <2>2. j \in S.jobsByRequest[r]
    BY <2>1 DEF Indexed, JobsIndexed
  <2> QED
    BY <2>1, <2>2
<1> HIDE DEF J, T, U
<1>6. JobsIndexed(U)
  BY <1>2, <1>3, <1>4, <1>5 DEF Indexed, JobsIndexed, Retained
<1>7. \A r \in Retained(U) : KeyFinds(U, r)
  <2> SUFFICES ASSUME NEW r \in Retained(U)
               PROVE  KeyFinds(U, r)
    OBVIOUS
  <2>1. r \in RequestIds \ R /\ r \in Retained(S) /\ U.requests[r] = S.requests[r]
    BY <1>4 DEF Retained
  <2>2. KeyFinds(S, r) /\ S.requests[r] \in Request
    BY <2>1, Records DEF Indexed, KeysIndexed
  <2> QED
    BY <1>4, <2>1, <2>2 DEF KeyFinds, Request
<1>8. KeysIndexed(U)
  BY <1>4, <1>7 DEF Indexed, KeysIndexed, Retained
<1> QED
  BY <1>6, <1>8 DEF Indexed, U

\* A capture whose key was free keeps every index exact.
LEMMA PutRequestIndexed ==
  ASSUME NEW S \in Maps, NEW r \in RequestIds, NEW request \in Request, Indexed(S),
         S.requests[r] = None, DuplicateOf(S, request.deliveryID, request.body) = None
  PROVE  /\ Indexed(PutRequest(S, r, request))
         /\ Retained(PutRequest(S, r, request)) = Retained(S) \cup {r}
<1> DEFINE T == PutRequest(S, r, request)
<1>0. request # None /\ request.body \in Bodies
      /\ request.deliveryID \in Deliveries \cup {None}
  BY Records DEF Request
<1>1. /\ T.requests = [S.requests EXCEPT ![r] = request]
      /\ T.jobs = S.jobs /\ T.jobsByRequest = S.jobsByRequest
      /\ T.delivery = IF request.deliveryID # None
                        THEN [S.delivery EXCEPT ![request.deliveryID] = r]
                        ELSE S.delivery
      /\ T.body = IF request.deliveryID = None
                    THEN [S.body EXCEPT ![request.body] = r] ELSE S.body
  BY DEF Maps, PutRequest
<1> HIDE DEF T
<1>2. \A q \in RequestIds : T.requests[q] = IF q = r THEN request ELSE S.requests[q]
  BY <1>1 DEF Maps
<1>3. Retained(T) = Retained(S) \cup {r}
  BY <1>0, <1>2 DEF Retained
<1>4. JobsIndexed(T)
  BY <1>1, <1>3 DEF Indexed, JobsIndexed
<1>5. /\ \A d \in Deliveries : T.delivery[d] =
           IF request.deliveryID # None /\ d = request.deliveryID THEN r ELSE S.delivery[d]
      /\ \A b \in Bodies : T.body[b] =
           IF request.deliveryID = None /\ b = request.body THEN r ELSE S.body[b]
  BY <1>0, <1>1 DEF Maps
<1>6. \A q \in Retained(T) : KeyFinds(T, q)
  <2> SUFFICES ASSUME NEW q \in Retained(T)
               PROVE  KeyFinds(T, q)
    OBVIOUS
  <2>1. CASE q = r
    BY <1>0, <1>2, <1>5, <2>1 DEF KeyFinds
  <2>2. CASE q # r
    <3>1. q \in Retained(S) /\ T.requests[q] = S.requests[q] /\ q \in RequestIds
      BY <1>2, <1>3, <2>2 DEF Retained
    <3>2. KeyFinds(S, q) /\ S.requests[q] \in Request /\ q # None
      BY <3>1, Records DEF Indexed, KeysIndexed
    <3> QED
      BY <1>5, <3>1, <3>2 DEF KeyFinds, DuplicateOf, Request
  <2> QED
    BY <2>1, <2>2
<1>7. KeysIndexed(T)
  <2>1. ASSUME NEW d \in Deliveries, T.delivery[d] # None
        PROVE  T.delivery[d] \in Retained(T) /\ T.requests[T.delivery[d]].deliveryID = d
    BY <1>2, <1>3, <1>5, <2>1 DEF Indexed, KeysIndexed, Retained
  <2>2. ASSUME NEW b \in Bodies, T.body[b] # None
        PROVE  /\ T.body[b] \in Retained(T)
               /\ T.requests[T.body[b]].deliveryID = None
               /\ T.requests[T.body[b]].body = b
    BY <1>2, <1>3, <1>5, <2>2 DEF Indexed, KeysIndexed, Retained
  <2> QED
    BY <1>6, <2>1, <2>2 DEF KeysIndexed
<1> QED
  BY <1>3, <1>4, <1>7 DEF Indexed, T

\* A job of a retained capture, new or known with the same capture, keeps
\* every index exact.
LEMMA PutJobIndexed ==
  ASSUME NEW S \in Maps, NEW j \in JobIds, NEW job \in Job, Indexed(S),
         job.requestID \in Retained(S),
         S.jobs[j] = None \/ S.jobs[j].requestID = job.requestID
  PROVE  Indexed(PutJob(S, j, job))
<1> DEFINE T == PutJob(S, j, job)
<1>1. job # None /\ job.requestID \in RequestIds
  BY Records DEF Job
<1>2. /\ T.requests = S.requests /\ T.delivery = S.delivery /\ T.body = S.body
      /\ \A k \in JobIds : T.jobs[k] = IF k = j THEN job ELSE S.jobs[k]
      /\ \A r \in RequestIds : T.jobsByRequest[r] =
           IF r = job.requestID THEN S.jobsByRequest[r] \cup {j} ELSE S.jobsByRequest[r]
  BY <1>1 DEF Maps, PutJob
<1> HIDE DEF T
<1>3. KeysIndexed(T)
  BY <1>2 DEF Indexed, KeysIndexed, KeyFinds, Retained
<1>4. JobsIndexed(T)
  <2> SUFFICES ASSUME NEW k \in JobIds, NEW r \in RequestIds
               PROVE  /\ k \in T.jobsByRequest[r] <=> T.jobs[k] # None /\ T.jobs[k].requestID = r
                      /\ k \in T.jobsByRequest[r] => r \in Retained(T)
    BY DEF JobsIndexed
  <2>1. Retained(T) = Retained(S)
    BY <1>2 DEF Retained
  <2>2. /\ k \in S.jobsByRequest[r] <=> S.jobs[k] # None /\ S.jobs[k].requestID = r
        /\ k \in S.jobsByRequest[r] => r \in Retained(S)
    BY DEF Indexed, JobsIndexed
  <2>3. CASE k = j
    BY <1>1, <1>2, <2>1, <2>2, <2>3
  <2>4. CASE k # j
    BY <1>1, <1>2, <2>1, <2>2, <2>4, ZenonT(60)
  <2> QED
    BY <2>3, <2>4
<1> QED
  BY <1>3, <1>4 DEF Indexed, T

\* An attempt touches no index.
LEMMA PutAttemptIndexed ==
  ASSUME NEW S \in Maps, NEW j \in JobIds, NEW n \in Nat, Indexed(S)
  PROVE  Indexed(PutAttempt(S, j, n))
BY DEF Maps, PutAttempt, Indexed, KeysIndexed, KeyFinds, JobsIndexed, Retained

-----------------------------------------------------------------------------
(* Apply on a legal event *)

\* The maps once e's evictions are done.
Evicted(S, e) == RemoveRequests(RemoveJobs(S, e.evictedJobs), e.evictedRequests)

\* The evictions of an event: well-typed, exact, and with a capture or a job
\* that was not there before still not there.
LEMMA EvictedMaps ==
  ASSUME NEW S \in Maps, NEW e \in Event
  PROVE  /\ Evicted(S, e) \in Maps
         /\ Indexed(S) => Indexed(Evicted(S, e))
         /\ \A r \in RequestIds : Evicted(S, e).requests[r] =
              IF r \in e.evictedRequests THEN None ELSE S.requests[r]
         /\ \A j \in JobIds : Evicted(S, e).jobs[j] \in {None, S.jobs[j]}
         /\ \A d \in Deliveries : Evicted(S, e).delivery[d] \in {None, S.delivery[d]}
         /\ \A b \in Bodies : Evicted(S, e).body[b] \in {None, S.body[b]}
<1> DEFINE T == RemoveJobs(S, e.evictedJobs)
           J == UNION {T.jobsByRequest[r] : r \in e.evictedRequests}
           U == RemoveJobs(T, J)
<1>1. e.evictedJobs \in SUBSET JobIds /\ e.evictedRequests \in SUBSET RequestIds
  BY DEF Event
<1>2. T \in Maps /\ (Indexed(S) => Indexed(T))
  BY <1>1, RemoveJobsType, RemoveJobsIndexed
<1>3. /\ T.requests = S.requests /\ T.delivery = S.delivery /\ T.body = S.body
      /\ \A j \in JobIds : T.jobs[j] \in {None, S.jobs[j]}
  BY <1>1 DEF Maps, RemoveJobs
<1>4. J \in SUBSET JobIds
  BY <1>1, <1>2 DEF Maps
<1>5. U \in Maps
  BY <1>2, <1>4, RemoveJobsType
<1>6. \A j \in JobIds : U.jobs[j] \in {None, T.jobs[j]}
  BY <1>2 DEF Maps, RemoveJobs
<1> HIDE DEF T, J, U
<1>7. /\ \A r \in RequestIds : RemoveRequests(T, e.evictedRequests).requests[r] =
           IF r \in e.evictedRequests THEN None ELSE T.requests[r]
      /\ RemoveRequests(T, e.evictedRequests).jobs = U.jobs
      /\ \A d \in Deliveries :
           RemoveRequests(T, e.evictedRequests).delivery[d] \in {None, T.delivery[d]}
      /\ \A b \in Bodies :
           RemoveRequests(T, e.evictedRequests).body[b] \in {None, T.body[b]}
  BY <1>5 DEF Maps, RemoveRequests, U, J
<1>8. /\ RemoveRequests(T, e.evictedRequests) \in Maps
      /\ Indexed(S) => Indexed(RemoveRequests(T, e.evictedRequests))
  BY <1>1, <1>2, RemoveRequestsType, RemoveRequestsIndexed
<1> QED
  BY <1>3, <1>6, <1>7, <1>8 DEF Evicted, T

\* What a method writes keeps the maps well-typed and the indexes exact.
LEMMA ApplyKeeps ==
  ASSUME NEW S \in Maps, NEW e, Legal(S, e)
  PROVE  /\ Apply(S, e) \in Maps
         /\ Indexed(S) => Indexed(Apply(S, e))
<1> DEFINE T == Evicted(S, e)
           U == IF e.request = None THEN T ELSE PutRequest(T, e.requestID, e.request)
           V == IF e.attempt = 0 THEN U ELSE PutAttempt(U, e.jobID, e.attempt)
<1>0. e \in Event
  BY DEF Legal
<1>1. /\ T \in Maps /\ (Indexed(S) => Indexed(T))
      /\ \A r \in RequestIds : T.requests[r] =
           IF r \in e.evictedRequests THEN None ELSE S.requests[r]
      /\ \A j \in JobIds : T.jobs[j] \in {None, S.jobs[j]}
      /\ \A d \in Deliveries : T.delivery[d] \in {None, S.delivery[d]}
      /\ \A b \in Bodies : T.body[b] \in {None, S.body[b]}
  BY <1>0, EvictedMaps
<1>2. Apply(S, e) = IF e.job = None THEN V ELSE PutJob(V, e.jobID, e.job)
  BY DEF Apply, Evicted
<1> HIDE DEF T
<1>3. /\ U \in Maps /\ (Indexed(S) => Indexed(U))
      /\ U.jobs = T.jobs
      /\ Indexed(S) =>
           Retained(U) = IF e.request = None THEN Retained(T)
                         ELSE Retained(T) \cup {e.requestID}
  <2>1. CASE e.request = None
    BY <1>1, <2>1
  <2>2. CASE e.request # None
    <3>1. /\ e.request \in Request /\ e.requestID \in RequestIds
          /\ S.requests[e.requestID] = None
          /\ DuplicateOf(S, e.request.deliveryID, e.request.body) = None
      BY <1>0, <2>2 DEF Legal, Event
    <3>2. e.request.body \in Bodies /\ e.request.deliveryID \in Deliveries \cup {None}
      BY <3>1 DEF Request
    <3>3. /\ T.requests[e.requestID] = None
          /\ DuplicateOf(T, e.request.deliveryID, e.request.body) = None
      BY <1>1, <3>1, <3>2 DEF DuplicateOf
    <3>4. U = PutRequest(T, e.requestID, e.request)
      BY <2>2
    <3>5. U \in Maps /\ U.jobs = T.jobs
      BY <1>1, <3>1, <3>4, PutRequestType DEF Maps, PutRequest
    <3>6. Indexed(S) => Indexed(U) /\ Retained(U) = Retained(T) \cup {e.requestID}
      BY <1>1, <3>1, <3>3, <3>4, PutRequestIndexed
    <3> QED
      BY <2>2, <3>5, <3>6
  <2> QED
    BY <2>1, <2>2
<1> HIDE DEF U
<1>4. /\ V \in Maps /\ (Indexed(S) => Indexed(V))
      /\ V.jobs = U.jobs /\ V.requests = U.requests
  <2>1. CASE e.attempt = 0
    BY <1>3, <2>1
  <2>2. CASE e.attempt # 0
    <3>1. e.jobID \in JobIds /\ e.attempt \in Nat
      BY <1>0, <2>2 DEF Legal, Event
    <3> QED
      BY <1>3, <2>2, <3>1, PutAttemptType, PutAttemptIndexed DEF Maps, PutAttempt
  <2> QED
    BY <2>1, <2>2
<1> HIDE DEF V
<1>5. CASE e.job = None
  BY <1>2, <1>4, <1>5
<1>6. CASE e.job # None
  <2>1. /\ e.jobID \in JobIds /\ e.job \in Job
        /\ S.jobs[e.jobID] = None \/ S.jobs[e.jobID].requestID = e.job.requestID
        /\ e.job.requestID \notin e.evictedRequests
        /\ \/ e.job.requestID \in Retained(S)
           \/ e.request # None /\ e.requestID = e.job.requestID
    BY <1>0, <1>6 DEF Legal, Event
  <2>2. V.jobs[e.jobID] = None \/ V.jobs[e.jobID].requestID = e.job.requestID
    BY <1>1, <1>3, <1>4, <2>1
  <2>3. Indexed(S) => e.job.requestID \in Retained(V)
    BY <1>1, <1>3, <1>4, <2>1 DEF Retained
  <2>4. Apply(S, e) = PutJob(V, e.jobID, e.job)
    BY <1>2, <1>6
  <2> QED
    BY <1>4, <2>1, <2>2, <2>3, <2>4, PutJobType, PutJobIndexed
<1> QED
  BY <1>5, <1>6

-----------------------------------------------------------------------------
(* The steps, as seen by the maps *)

\* A step changes neither memory nor log, or it is appendLocked on a legal
\* event, or it opens the store on the log, or it only poisons.
MapsStep ==
  \/ /\ UNCHANGED <<mem, disk, health>> /\ (phase' = "down" \/ phase # "down")
     /\ \/ UNCHANGED acked
        \/ \E request \in Request, j \in JobIds \cup {None} :
             AcceptDuplicate(request.deliveryID, request.body, j)
  \/ /\ phase # "down"
     /\ \E e : /\ Legal(mem, e) /\ Purpose(e)
               /\ \E o \in Outcomes : AppendLocked(e, o) /\ Told(e, o)
  \/ /\ phase = "down" /\ health' \in {"ok", "poisoned"}
     /\ mem' = disk /\ UNCHANGED <<disk, acked>>
  \/ phase = "up" /\ health' = "poisoned" /\ UNCHANGED <<mem, disk, acked>>

\* An event that evicts no capture, and no word of it to a client.
LEMMA NothingTold ==
  ASSUME NEW e, NEW o, e.evictedRequests = {}, acked' = acked
  PROVE  Told(e, o)
BY DEF Told

\* The job Accept and Enqueue create is a Job.
LEMMA NewJobType ==
  ASSUME NEW r \in RequestIds, NEW t \in Times
  PROVE  NewJob(r, t) \in Job /\ NewJob(r, t).requestID = r
BY StoreConstants DEF NewJob, Job, JobStates, Times

\* An event about one job that leaves the captures alone
LEMMA JobEventLegal ==
  ASSUME TypeOK, NEW e, NEW j \in JobIds, NEW job \in Job, e.jobID = j, e.job = job,
         e.requestID = None, e.request = None, e.evictedRequests = {},
         e \in Event, j \notin e.evictedJobs,
         \A k \in e.evictedJobs : /\ k \in Present(mem) /\ IsTerminal(mem, k)
                                  /\ mem.jobs[k].requestID = job.requestID,
         mem.jobs[j] = None \/ mem.jobs[j].requestID = job.requestID,
         job.requestID \in Retained(mem)
  PROVE  Legal(mem, e)
<1>1. job # None
  BY NoneIsNothing
<1> QED
  BY <1>1 DEF Legal

\* A job event is an Event.
LEMMA JobEventType ==
  ASSUME NEW j \in JobIds, NEW job \in Job
  PROVE  /\ JobEvent(j, job) \in Event
         /\ JobEvent(j, job).requestID = None /\ JobEvent(j, job).request = None
         /\ JobEvent(j, job).jobID = j /\ JobEvent(j, job).job = job
         /\ JobEvent(j, job).attempt = 0 /\ JobEvent(j, job).evictedRequests = {}
         /\ JobEvent(j, job).evictedJobs = {}
BY DEF JobEvent, Event

\* A job already on record has a retained capture.
LEMMA JobOnRecord ==
  ASSUME TypeOK, Indexed(mem), NEW j \in Present(mem)
  PROVE  /\ j \in JobIds /\ mem.jobs[j] \in Job
         /\ mem.jobs[j].requestID \in Retained(mem)
<1>1. j \in JobIds /\ mem.jobs[j] \in Job /\ mem.jobs[j] # None
  BY Records DEF TypeOK, Present
<1>2. mem.jobs[j].requestID \in RequestIds
  BY <1>1 DEF Job
<1> QED
  BY <1>1, <1>2 DEF Indexed, JobsIndexed

\* Every way through Accept appends a legal event or leaves the maps alone.
LEMMA CaptureCases ==
  ASSUME TypeOK, Indexed(mem), Capture
  PROVE  MapsStep
<1> PICK request \in Request, j \in JobIds \cup {None}, t \in Times, o \in Outcomes :
      \/ \E r \in RequestIds : AcceptNew(r, request, j, t, o)
      \/ AcceptDuplicate(request.deliveryID, request.body, j)
      \/ j # None /\ AcceptRepair(request.deliveryID, request.body, j, t, o)
  BY DEF Capture
<1>1. ASSUME NEW r \in RequestIds, AcceptNew(r, request, j, t, o)
      PROVE  MapsStep
  <2>1. PICK E \in CaptureEvictions(mem) :
          /\ AppendLocked(CaptureEvent(r, request, j, t, E), o)
          /\ acked' = [Forget(E, o) EXCEPT
                          ![r] = IF o = "ok" THEN Answered("none", j # None) ELSE "none"]
    BY <1>1 DEF AcceptNew
  <2>2. E \in SUBSET RequestIds
    BY <2>1 DEF CaptureEvictions, Retained
  <2> DEFINE e == CaptureEvent(r, request, j, t, E)
  <2>3. /\ e.requestID = r /\ e.request = request /\ e.jobID = j
        /\ e.job = IF j = None THEN None ELSE NewJob(r, t)
        /\ e.attempt = 0 /\ e.evictedRequests = E /\ e.evictedJobs = {}
    BY DEF CaptureEvent
  <2>4. e \in Event
    <3>1. (IF j = None THEN None ELSE NewJob(r, t)) \in Job \cup {None}
      BY NewJobType
    <3> QED
      BY <2>2, <3>1 DEF CaptureEvent, Event
  <2>5. /\ mem.requests[r] = None
        /\ DuplicateOf(mem, request.deliveryID, request.body) = None
        /\ j # None => mem.jobs[j] = None
    BY <1>1 DEF AcceptNew
  <2>6. r \notin E /\ \A x \in E : RequestTerminal(mem, x)
    <3>1. E \subseteq {x \in Retained(mem) : RequestTerminal(mem, x)}
      BY <2>1 DEF CaptureEvictions
    <3> QED
      BY <2>5, <3>1 DEF Retained
  <2>7. Legal(mem, e)
    <3>1. e.job # None => j # None /\ e.job.requestID = r
      BY <2>3, NewJobType
    <3>2. request # None
      BY Records DEF TypeOK
    <3> HIDE DEF e
    <3> QED
      BY <2>3, <2>4, <2>5, <2>6, <3>1, <3>2 DEF Legal
  <2>8. Purpose(e)
    <3>1. e.job # None => /\ mem.jobs[e.jobID] = None
                          /\ e.job.state = "pending" /\ e.job.requestID = e.requestID
      BY <2>3, <2>5 DEF NewJob
    <3>2. request # None
      BY Records DEF TypeOK
    <3> HIDE DEF e
    <3> QED
      BY <2>1, <2>3, <3>1, <3>2 DEF Purpose, Captures
  <2>9. Told(e, o)
    <3>1. \A x \in RequestIds : Forget(E, o)[x] =
            IF o # "lost" /\ x \in E THEN "evicted" ELSE acked[x]
      BY DEF Forget, TypeOK
    <3>2. acked'[r] = IF o = "ok" THEN Answered("none", j # None) ELSE "none"
      BY <2>1 DEF Forget, TypeOK
    <3>3. \A x \in RequestIds \ {r} : acked'[x] = Forget(E, o)[x]
      BY <2>1 DEF Forget, TypeOK
    <3>4. Answered("none", j # None) = IF j # None THEN "intent" ELSE "capture"
      BY DEF Answered
    <3>5. request # None /\ (j # None => e.job # None /\ e.job.requestID = r)
      BY <2>3, Records, NewJobType, NoneIsNothing DEF TypeOK
    <3> HIDE DEF e
    <3>6. \A x \in E : x \in RequestIds \ {r}
      BY <2>2, <2>6
    <3> QED
      BY <2>3, <3>1, <3>2, <3>3, <3>4, <3>5, <3>6 DEF Told
  <2> QED
    BY <1>1, <2>1, <2>7, <2>8, <2>9 DEF MapsStep, AcceptNew
<1>2. ASSUME AcceptDuplicate(request.deliveryID, request.body, j)
      PROVE  MapsStep
  <2>1. UNCHANGED <<mem, disk, health>> /\ phase # "down"
    BY <1>2 DEF AcceptDuplicate
  <2> QED
    BY <1>2, <2>1 DEF MapsStep
<1>3. ASSUME j # None, AcceptRepair(request.deliveryID, request.body, j, t, o)
      PROVE  MapsStep
  <2> DEFINE id == DuplicateOf(mem, request.deliveryID, request.body)
             job == NewJob(id, t)
  <2>1. /\ id # None /\ mem.jobs[j] = None /\ j \in JobIds
        /\ mem.jobsByRequest[id] = {}
        /\ AppendLocked(JobEvent(j, job), o)
        /\ acked' = [acked EXCEPT ![id] = IF o = "ok" THEN Answered(@, TRUE) ELSE @]
    BY <1>3 DEF AcceptRepair
  <2>2. id \in Retained(mem)
    BY <2>1 DEF DuplicateOf, Indexed, KeysIndexed, Request
  <2>3. job \in Job /\ job.requestID = id /\ job.state = "pending"
    BY <2>2, NewJobType DEF Retained, NewJob
  <2> HIDE DEF id, job
  <2>4. Legal(mem, JobEvent(j, job))
    BY <2>1, <2>2, <2>3, JobEventType, JobEventLegal
  <2>5. {} \in JobEvictions(mem, id)
    BY <2>1, FS_EmptySet, StoreConstants DEF JobEvictions
  <2>6. Purpose(JobEvent(j, job))
    <3> DEFINE e == JobEvent(j, job)
    <3>1. /\ e.jobID = j /\ e.job = job /\ e.request = None /\ e.attempt = 0
          /\ e.evictedRequests = {} /\ e.evictedJobs = {}
      BY <2>1, <2>3, JobEventType
    <3>2. job # None /\ job.state # "leased"
      BY <2>3, NoneIsNothing
    <3> HIDE DEF e
    <3>3. Creates(mem, e)
      BY <2>1, <2>3, <2>5, <3>1, <3>2 DEF Creates
    <3> QED
      BY <3>1, <3>2, <3>3 DEF Purpose, e
  <2>7. Told(JobEvent(j, job), o)
    <3>1. \A x \in RequestIds : acked'[x] =
            IF x = id /\ o = "ok" THEN Answered(acked[x], TRUE) ELSE acked[x]
      BY <2>1 DEF TypeOK
    <3>2. \A l : Answered(l, TRUE) = IF l = "evicted" THEN "evicted" ELSE "intent"
      BY DEF Answered
    <3>3. job # None
      BY <2>3, NoneIsNothing
    <3> DEFINE e == JobEvent(j, job)
    <3>4. e.job = job /\ e.evictedRequests = {}
      BY <2>1, <2>3, JobEventType
    <3> HIDE DEF e
    <3>5. Told(e, o)
      BY <2>3, <3>1, <3>2, <3>3, <3>4 DEF Told
    <3> QED
      BY <3>5 DEF e
  <2> QED
    BY <1>3, <2>1, <2>4, <2>6, <2>7 DEF MapsStep, AcceptRepair
<1> QED
  BY <1>1, <1>2, <1>3

\* Enqueue appends a legal event.
LEMMA ReplayCases ==
  ASSUME TypeOK, Indexed(mem), Replay
  PROVE  MapsStep
<1>1. PICK r \in RequestIds, j \in JobIds, t \in Times, o \in Outcomes :
        Enqueue(r, j, t, o)
  BY DEF Replay
<1>2. PICK E \in JobEvictions(mem, r) :
        AppendLocked([JobEvent(j, NewJob(r, t)) EXCEPT !.evictedJobs = E], o)
  BY <1>1 DEF Enqueue
<1> DEFINE job == NewJob(r, t)
           e == [JobEvent(j, job) EXCEPT !.evictedJobs = E]
<1>3. job \in Job /\ job.requestID = r /\ job.state = "pending"
  BY NewJobType DEF NewJob
<1>4. mem.jobs[j] = None /\ r \in Retained(mem)
  BY <1>1 DEF Enqueue, Retained
<1>5. /\ E \in SUBSET JobIds /\ j \notin E
      /\ \A k \in E : /\ k \in Present(mem) /\ IsTerminal(mem, k)
                      /\ mem.jobs[k].requestID = r
  <2>1. \A k \in E : k \in JobIds /\ k \in mem.jobsByRequest[r] /\ IsTerminal(mem, k)
    BY <1>2 DEF JobEvictions, TypeOK, Maps
  <2> QED
    BY <1>4, <2>1 DEF Indexed, JobsIndexed, Present
<1> HIDE DEF job
<1>6. /\ e \in Event /\ e.requestID = None /\ e.request = None
      /\ e.jobID = j /\ e.job = job /\ e.attempt = 0
      /\ e.evictedRequests = {} /\ e.evictedJobs = E
  BY <1>3, <1>5 DEF JobEvent, Event
<1> HIDE DEF e
<1>7. Legal(mem, e)
  BY <1>3, <1>4, <1>5, <1>6, JobEventLegal
<1>8. Purpose(e)
  BY <1>2, <1>3, <1>4, <1>6, NoneIsNothing DEF Purpose, Creates
<1>9. Told(e, o)
  BY <1>1, <1>6, NothingTold DEF Enqueue
<1> QED
  BY <1>1, <1>2, <1>7, <1>8, <1>9 DEF MapsStep, Enqueue, e, job

\* A new state for a job on record is a legal event.
LEMMA UpdateCases ==
  ASSUME TypeOK, Indexed(mem), phase # "down", NEW j \in Present(mem), NEW job \in Job,
         job.requestID = mem.jobs[j].requestID,
         \/ mem.jobs[j].state \notin Terminal /\ job.state = "leased" /\ j \in claimed'
         \/ mem.jobs[j].state = "leased" /\ job.state = "poison"
         \/ mem.jobs[j].state \in {"leased", "running"} /\ job.state = "pending",
         NEW o \in Outcomes, AppendLocked(JobEvent(j, job), o), acked' = acked
  PROVE  MapsStep
<1>1. Legal(mem, JobEvent(j, job))
  BY JobOnRecord, JobEventType, JobEventLegal
<1>2. Purpose(JobEvent(j, job))
  BY JobOnRecord, JobEventType, NoneIsNothing DEF Purpose, Updates
<1>3. Told(JobEvent(j, job), o)
  BY JobOnRecord, JobEventType, NothingTold
<1> QED
  BY <1>1, <1>2, <1>3 DEF MapsStep

\* The job RecordAttempt, FinishWithoutAttempt and RecoverLeases write is a Job.
LEMMA ReleasedType ==
  ASSUME NEW job \in Job, NEW state \in JobStates
  PROVE  /\ Released(job, state) \in Job /\ Released(job, state).requestID = job.requestID
         /\ Released(job, state).state = state
<1>1. 0 \in 0 .. MaxTime + Lease
  BY StoreConstants
<1> QED
  BY <1>1 DEF Released, Job

\* Every step of a worker appends a legal event.
LEMMA WorkCases ==
  ASSUME TypeOK, Indexed(mem), Work
  PROVE  MapsStep
<1> PICK owner \in Owners, t \in Times, o \in Outcomes :
      \/ ClaimNextJob(owner, t, o)
      \/ \E j \in JobIds : FinishWithoutAttempt(j, owner, o)
      \/ \E j \in JobIds, n \in 1 .. MaxAttemptsPerJob, s \in AttemptResults :
           RecordAttempt(j, owner, n, s, t, o)
  BY DEF Work
<1>1. ASSUME ClaimNextJob(owner, t, o)
      PROVE  MapsStep
  <2>1. PICK j \in Present(mem) :
          /\ Eligible(mem.jobs[j], t) /\ j \in claimed'
          /\ AppendLocked(JobEvent(j, [mem.jobs[j] EXCEPT
                                         !.state = "leased", !.owner = owner,
                                         !.leaseExpiresAt = t + Lease]), o)
    BY <1>1 DEF ClaimNextJob
  <2>2. mem.jobs[j] \in Job
    BY JobOnRecord
  <2>3. t + Lease \in 0 .. MaxTime + Lease
    BY StoreConstants DEF Times
  <2>4. /\ [mem.jobs[j] EXCEPT !.state = "leased", !.owner = owner,
                               !.leaseExpiresAt = t + Lease] \in Job
        /\ [mem.jobs[j] EXCEPT !.state = "leased", !.owner = owner,
                               !.leaseExpiresAt = t + Lease].requestID
           = mem.jobs[j].requestID
        /\ [mem.jobs[j] EXCEPT !.state = "leased", !.owner = owner,
                               !.leaseExpiresAt = t + Lease].state = "leased"
    BY <2>2, <2>3 DEF Job, JobStates
  <2>5. mem.jobs[j].state \notin Terminal
    BY <2>1 DEF Eligible, Terminal
  <2> QED
    BY <1>1, <2>1, <2>4, <2>5, UpdateCases DEF ClaimNextJob
<1>2. ASSUME NEW j \in JobIds, FinishWithoutAttempt(j, owner, o)
      PROVE  MapsStep
  <2>1. /\ j \in Present(mem) /\ mem.jobs[j].state = "leased"
        /\ AppendLocked(JobEvent(j, Released(mem.jobs[j], "poison")), o)
    BY <1>2 DEF FinishWithoutAttempt, HoldsLease, Present
  <2>2. mem.jobs[j] \in Job
    BY <2>1, JobOnRecord
  <2>3. "poison" \in JobStates
    BY DEF JobStates, Terminal
  <2> QED
    BY <1>2, <2>1, <2>2, <2>3, ReleasedType, UpdateCases DEF FinishWithoutAttempt
<1>3. ASSUME NEW j \in JobIds, NEW n \in 1 .. MaxAttemptsPerJob, NEW s \in AttemptResults,
             RecordAttempt(j, owner, n, s, t, o)
      PROVE  MapsStep
  <2> DEFINE job == [Released(mem.jobs[j], s) EXCEPT !.availableAt = t]
             e == [JobEvent(j, job) EXCEPT !.attempt = n]
  <2>1. /\ j \in Present(mem) /\ mem.jobs[j].state = "leased" /\ AppendLocked(e, o)
        /\ n <= MaxAttemptsPerJob /\ ExpectedAttempt(mem, j, n)
    BY <1>3 DEF RecordAttempt, HoldsLease, Present
  <2>2. mem.jobs[j] \in Job /\ mem.jobs[j].requestID \in Retained(mem)
    BY <2>1, JobOnRecord
  <2>3. s \in JobStates
    BY DEF AttemptResults, JobStates, Terminal
  <2>4. /\ Released(mem.jobs[j], s) \in Job
        /\ Released(mem.jobs[j], s).requestID = mem.jobs[j].requestID
        /\ Released(mem.jobs[j], s).state = s
    BY <2>2, <2>3, ReleasedType
  <2>5. job \in Job /\ job.requestID = mem.jobs[j].requestID /\ job.state = s
    BY <2>4 DEF Job
  <2> HIDE DEF job
  <2>6. n \in Nat /\ n # 0
    BY StoreConstants
  <2>7. /\ e \in Event /\ e.requestID = None /\ e.request = None
        /\ e.jobID = j /\ e.job = job /\ e.attempt = n
        /\ e.evictedRequests = {} /\ e.evictedJobs = {}
    BY <2>5, <2>6 DEF JobEvent, Event
  <2> HIDE DEF e
  <2>8. Legal(mem, e)
    BY <2>2, <2>5, <2>7, JobEventLegal
  <2>9. Purpose(e)
    <3>1. job # None /\ job.state # "leased" /\ job.state \in AttemptResults
      BY <2>5, NoneIsNothing DEF AttemptResults
    <3> QED
      BY <2>1, <2>6, <2>7, <3>1 DEF Purpose, Updates
  <2>10. Told(e, o)
    BY <1>3, <2>7, NothingTold DEF RecordAttempt
  <2> QED
    BY <1>3, <2>1, <2>8, <2>9, <2>10 DEF MapsStep, RecordAttempt
<1> QED
  BY <1>1, <1>2, <1>3

\* A start recovers the log, RecoverLeases appends legal events, and nothing
\* else of the process touches the maps.
LEMMA ProcessCases ==
  ASSUME TypeOK, Indexed(mem), Process
  PROVE  MapsStep
<1>1. ASSUME NEW t \in Times, NEW o \in Outcomes, RecoverLease(t, o)
      PROVE  MapsStep
  <2>1. PICK j \in StaleLeases(mem) :
          AppendLocked(JobEvent(j, [Released(mem.jobs[j], "pending") EXCEPT
                                      !.availableAt = t]), o)
    BY <1>1 DEF RecoverLease
  <2>2. j \in Present(mem) /\ mem.jobs[j].state \in {"leased", "running"}
    BY <2>1 DEF StaleLeases
  <2>3. "pending" \in JobStates
    BY DEF JobStates
  <2>4. /\ Released(mem.jobs[j], "pending") \in Job
        /\ Released(mem.jobs[j], "pending").requestID = mem.jobs[j].requestID
        /\ Released(mem.jobs[j], "pending").state = "pending"
    BY <2>2, <2>3, JobOnRecord, ReleasedType
  <2>5. /\ [Released(mem.jobs[j], "pending") EXCEPT !.availableAt = t] \in Job
        /\ [Released(mem.jobs[j], "pending") EXCEPT !.availableAt = t].requestID
           = mem.jobs[j].requestID
        /\ [Released(mem.jobs[j], "pending") EXCEPT !.availableAt = t].state = "pending"
    BY <2>4 DEF Job
  <2> QED
    BY <1>1, <2>1, <2>2, <2>5, UpdateCases DEF RecoverLease
<1> QED
  BY <1>1 DEF Process, Stop, Open, Serve, Poison, MapsStep

\* So every step of the store is one of the cases of MapsStep.
LEMMA StepCases ==
  ASSUME TypeOK, Indexed(mem), [Next]_vars
  PROVE  MapsStep
BY CaptureCases, ReplayCases, WorkCases, ProcessCases DEF Next, vars, MapsStep

-----------------------------------------------------------------------------
(* Theorems *)

\* The inductive invariant: the indexes of memory and log are exact, and a
\* healthy store has both in one value.  Neither half is inductive alone:
\* appendLocked applies to the log an event that is legal in memory.
StoreInvariant == TypeOK /\ Indexed(mem) /\ Indexed(disk) /\ HealthyIsDurable

\* The empty maps are well-typed and exact.
LEMMA EmptyIndexed == EmptyMaps \in Maps /\ Indexed(EmptyMaps)
BY DEF EmptyMaps, Maps, Indexed, KeysIndexed, KeyFinds, JobsIndexed, Retained

\* So is a log of an earlier version.
LEMMA LegacyIndexed ==
  ASSUME NEW S \in LegacyMaps
  PROVE  S \in Maps /\ Indexed(S)
<1>1. ASSUME NEW r \in RequestIds, NEW request \in Request
      PROVE  /\ PutRequest(EmptyMaps, r, request) \in Maps
             /\ Indexed(PutRequest(EmptyMaps, r, request))
             /\ r \in Retained(PutRequest(EmptyMaps, r, request))
             /\ \A j \in JobIds : PutRequest(EmptyMaps, r, request).jobs[j] = None
  <2>1. /\ EmptyMaps.requests[r] = None
        /\ DuplicateOf(EmptyMaps, request.deliveryID, request.body) = None
    BY DEF EmptyMaps, DuplicateOf, Request
  <2>2. \A j \in JobIds : PutRequest(EmptyMaps, r, request).jobs[j] = None
    BY DEF EmptyMaps, PutRequest
  <2> QED
    BY <2>1, <2>2, EmptyIndexed, PutRequestType, PutRequestIndexed
<1>2. CASE \E r \in RequestIds, request \in Request : S = PutRequest(EmptyMaps, r, request)
  BY <1>1, <1>2
<1>3. CASE \E r \in RequestIds, request \in Request, j \in JobIds,
              s \in {"queued", "running", "failed"} :
             S = PutJob(PutRequest(EmptyMaps, r, request), j,
                        [NewJob(r, 0) EXCEPT !.state = s])
  <2>1. PICK r \in RequestIds, request \in Request, j \in JobIds,
             s \in {"queued", "running", "failed"} :
          S = PutJob(PutRequest(EmptyMaps, r, request), j,
                     [NewJob(r, 0) EXCEPT !.state = s])
    BY <1>3
  <2>2. 0 \in Times
    BY StoreConstants DEF Times
  <2>3. /\ [NewJob(r, 0) EXCEPT !.state = s] \in Job
        /\ [NewJob(r, 0) EXCEPT !.state = s].requestID = r
    BY <2>2, NewJobType DEF Job, JobStates, Terminal
  <2> QED
    BY <1>1, <2>1, <2>3, PutJobType, PutJobIndexed
<1> QED
  BY <1>2, <1>3 DEF LegacyMaps

\* Every initial state satisfies the invariant.
LEMMA InitInvariant ==
  ASSUME Init
  PROVE  StoreInvariant
BY EmptyIndexed, LegacyIndexed DEF Init, StoreInvariant, TypeOK, HealthyIsDurable

\* The maps keep their invariant in every step.
LEMMA MapsKeep ==
  ASSUME StoreInvariant, MapsStep
  PROVE  /\ mem' \in Maps /\ Indexed(mem')
         /\ disk' \in Maps /\ Indexed(disk')
         /\ health' \in {"ok", "poisoned"}
<1>1. ASSUME NEW e, Legal(mem, e), NEW o \in Outcomes, AppendLocked(e, o), phase # "down"
      PROVE  /\ mem' \in Maps /\ Indexed(mem')
             /\ disk' \in Maps /\ Indexed(disk')
             /\ health' \in {"ok", "poisoned"}
  <2>1. mem = disk
    BY <1>1 DEF StoreInvariant, HealthyIsDurable, AppendLocked
  <2>2. Apply(mem, e) \in Maps /\ Indexed(Apply(mem, e))
    BY <1>1, ApplyKeeps DEF StoreInvariant, TypeOK
  <2> QED
    BY <1>1, <2>1, <2>2 DEF AppendLocked, StoreInvariant, TypeOK
<1> QED
  BY <1>1 DEF MapsStep, StoreInvariant, TypeOK

\* A capture changes neither the phase of the process nor the claims.
LEMMA CaptureFrame ==
  ASSUME Capture
  PROVE  UNCHANGED <<phase, claimed>>
<1>1. ASSUME NEW r, NEW request, NEW j, NEW t, NEW o, AcceptNew(r, request, j, t, o)
      PROVE  UNCHANGED <<phase, claimed>>
  BY <1>1 DEF AcceptNew
<1>2. ASSUME NEW d, NEW b, NEW j, AcceptDuplicate(d, b, j)
      PROVE  UNCHANGED <<phase, claimed>>
  BY <1>2 DEF AcceptDuplicate
<1>3. ASSUME NEW d, NEW b, NEW j, NEW t, NEW o, AcceptRepair(d, b, j, t, o)
      PROVE  UNCHANGED <<phase, claimed>>
  BY <1>3 DEF AcceptRepair
<1> QED
  BY <1>1, <1>2, <1>3 DEF Capture

\* Every step keeps the invariant.
LEMMA StepInvariant ==
  ASSUME StoreInvariant, [Next]_vars
  PROVE  StoreInvariant'
<1>1. MapsStep
  BY StepCases DEF StoreInvariant
<1>2. /\ mem' \in Maps /\ Indexed(mem') /\ disk' \in Maps /\ Indexed(disk')
      /\ health' \in {"ok", "poisoned"}
  BY <1>1, MapsKeep
<1>3. HealthyIsDurable'
  BY <1>1 DEF MapsStep, StoreInvariant, HealthyIsDurable, AppendLocked
<1>4. phase' \in {"down", "starting", "up"}
  <2>1. CASE Process
    BY <2>1 DEF StoreInvariant, TypeOK, Process, Stop, Open, RecoverLease, Serve, Poison
  <2>2. CASE Capture
    BY <2>2, CaptureFrame DEF StoreInvariant, TypeOK
  <2>3. CASE Replay \/ Work \/ UNCHANGED vars
    BY <2>3, ZenonT(60) DEF StoreInvariant, TypeOK, vars, Replay, Enqueue, Work, ClaimNextJob,
                RecordAttempt, FinishWithoutAttempt
  <2> QED
    BY <2>1, <2>2, <2>3 DEF Next
<1>5. claimed' \subseteq JobIds
  <2>1. CASE Process
    BY <2>1 DEF StoreInvariant, TypeOK, Process, Stop, Open, RecoverLease, Serve, Poison
  <2>2. CASE Capture
    BY <2>2, CaptureFrame DEF StoreInvariant, TypeOK
  <2>3. CASE Replay \/ UNCHANGED vars
    BY <2>3 DEF StoreInvariant, TypeOK, vars, Replay, Enqueue
  <2>4. CASE Work
    BY <2>4, ZenonT(60) DEF StoreInvariant, TypeOK, Work, ClaimNextJob, Present, RecordAttempt,
                FinishWithoutAttempt
  <2> QED
    BY <2>1, <2>2, <2>3, <2>4 DEF Next
<1>6. acked' \in [RequestIds -> {"none", "capture", "intent", "evicted"}]
  <2> DEFINE Levels == {"none", "capture", "intent", "evicted"}
  <2>0. acked \in [RequestIds -> Levels]
    BY DEF StoreInvariant, TypeOK
  <2>1. \A l \in Levels, b \in BOOLEAN : Answered(l, b) \in Levels
    BY DEF Answered
  <2>2. ASSUME NEW r \in RequestIds, NEW request \in Request,
               NEW j \in JobIds \cup {None}, NEW t \in Times, NEW o \in Outcomes,
               AcceptNew(r, request, j, t, o)
        PROVE  acked' \in [RequestIds -> Levels]
    <3>1. PICK E \in CaptureEvictions(mem) :
            acked' = [Forget(E, o) EXCEPT
                        ![r] = IF o = "ok" THEN Answered("none", j # None) ELSE "none"]
      BY <2>2 DEF AcceptNew
    <3>2. Forget(E, o) \in [RequestIds -> Levels]
      BY <2>0 DEF Forget
    <3>3. Answered("none", j # None) \in Levels
      BY <2>1
    <3> QED
      BY <3>1, <3>2, <3>3
  <2>3. ASSUME NEW d, NEW b, NEW j, AcceptDuplicate(d, b, j)
        PROVE  acked' \in [RequestIds -> Levels]
    <3> DEFINE id == DuplicateOf(mem, d, b)
    <3>1. acked' = [acked EXCEPT ![id] = Answered(@, mem.jobsByRequest[id] # {})]
      BY <2>3 DEF AcceptDuplicate
    <3> HIDE DEF id
    <3>2. CASE id \in RequestIds
      BY <2>0, <2>1, <3>1, <3>2
    <3>3. CASE id \notin RequestIds
      BY <2>0, <3>1, <3>3
    <3> QED
      BY <3>2, <3>3
  <2>4. ASSUME NEW d, NEW b, NEW j, NEW t, NEW o, AcceptRepair(d, b, j, t, o)
        PROVE  acked' \in [RequestIds -> Levels]
    <3> DEFINE id == DuplicateOf(mem, d, b)
    <3>1. acked' = [acked EXCEPT ![id] = IF o = "ok" THEN Answered(@, TRUE) ELSE @]
      BY <2>4 DEF AcceptRepair
    <3> HIDE DEF id
    <3>2. CASE id \in RequestIds
      BY <2>0, <2>1, <3>1, <3>2
    <3>3. CASE id \notin RequestIds
      BY <2>0, <3>1, <3>3
    <3> QED
      BY <3>2, <3>3
  <2>5. CASE UNCHANGED acked
    BY <2>0, <2>5
  <2>6. Capture => acked' \in [RequestIds -> Levels]
    BY <2>2, <2>3, <2>4 DEF Capture
  <2>7. [Next]_vars /\ ~ Capture => UNCHANGED acked
    BY DEF Next, vars, Replay, Enqueue, Work, ClaimNextJob, RecordAttempt,
           FinishWithoutAttempt, Process, Stop, Open, RecoverLease, Serve, Poison
  <2> QED
    BY <2>5, <2>6, <2>7
<1> QED
  BY <1>2, <1>3, <1>4, <1>5, <1>6 DEF StoreInvariant, TypeOK

\* In every behaviour the store is well-typed, its indexes are exact and a
\* healthy store is durable: the whole of StoreInvariant.
THEOREM Invariance == Spec => []StoreInvariant
<1>1. StoreInvariant /\ [Next]_vars => StoreInvariant'
  BY StepInvariant
<1> QED
  BY InitInvariant, <1>1, PTL DEF Spec

\* Type correctness of memory, log and histories.
THEOREM TypeCorrect == Spec => []TypeOK
<1>1. StoreInvariant => TypeOK
  BY DEF StoreInvariant
<1> QED
  BY Invariance, <1>1, PTL

\* Idempotency keys lead to exactly the captures that hold them, whatever is
\* captured, evicted, lost in a failed append or recovered (duplicateLocked).
THEOREM Idempotent == Spec => []OneCapturePerKey
<1>1. StoreInvariant => OneCapturePerKey
  BY DEF StoreInvariant, Indexed, OneCapturePerKey
<1> QED
  BY Invariance, <1>1, PTL

\* A job on record can always be loaded with its capture (jobsByRequest).
THEOREM JobsHaveCaptures == Spec => []NoOrphanJob
<1>1. StoreInvariant => NoOrphanJob
  BY DEF StoreInvariant, Indexed, NoOrphanJob
<1> QED
  BY Invariance, <1>1, PTL

\* A store that still takes writes answers from what a restart would find.
THEOREM Durable == Spec => []HealthyIsDurable
<1>1. StoreInvariant => HealthyIsDurable
  BY DEF StoreInvariant
<1> QED
  BY Invariance, <1>1, PTL

-----------------------------------------------------------------------------
(* What a legal event keeps *)

\* apply is evictions, then the capture, the attempt and the job, each of which
\* leaves the jobs it is not about alone.
LEMMA ApplyFields ==
  ASSUME NEW S \in Maps, NEW e, Legal(S, e)
  PROVE  /\ \A j \in JobIds : Apply(S, e).jobs[j] =
              IF e.job # None /\ j = e.jobID THEN e.job ELSE Evicted(S, e).jobs[j]
         /\ \A r \in RequestIds : Apply(S, e).requests[r] =
              IF e.request # None /\ r = e.requestID THEN e.request
              ELSE IF r \in e.evictedRequests THEN None ELSE S.requests[r]
<1> DEFINE T == Evicted(S, e)
           U == IF e.request = None THEN T ELSE PutRequest(T, e.requestID, e.request)
           V == IF e.attempt = 0 THEN U ELSE PutAttempt(U, e.jobID, e.attempt)
<1>0. e \in Event
  BY DEF Legal
<1>1. /\ T \in Maps
      /\ \A r \in RequestIds : T.requests[r] =
           IF r \in e.evictedRequests THEN None ELSE S.requests[r]
  BY <1>0, EvictedMaps
<1>2. Apply(S, e) = IF e.job = None THEN V ELSE PutJob(V, e.jobID, e.job)
  BY DEF Apply, Evicted
<1> HIDE DEF T
<1>3. /\ U \in Maps /\ U.jobs = T.jobs
      /\ \A r \in RequestIds : U.requests[r] =
           IF e.request # None /\ r = e.requestID THEN e.request ELSE T.requests[r]
  <2>1. CASE e.request = None
    BY <1>1, <2>1
  <2>2. CASE e.request # None
    <3>1. e.request \in Request /\ e.requestID \in RequestIds
      BY <1>0, <2>2 DEF Legal, Event
    <3>2. U = PutRequest(T, e.requestID, e.request)
      BY <2>2
    <3>3. U \in Maps
      BY <1>1, <3>1, <3>2, PutRequestType
    <3>4. /\ U.jobs = T.jobs
          /\ U.requests = [T.requests EXCEPT ![e.requestID] = e.request]
      BY <1>1, <3>1, <3>2 DEF Maps, PutRequest
    <3> HIDE DEF U
    <3> QED
      BY <1>1, <2>2, <3>1, <3>3, <3>4 DEF Maps
  <2> QED
    BY <2>1, <2>2
<1> HIDE DEF U
<1>4. V \in Maps /\ V.jobs = U.jobs /\ V.requests = U.requests
  <2>1. CASE e.attempt = 0
    BY <1>3, <2>1
  <2>2. CASE e.attempt # 0
    <3>1. e.jobID \in JobIds /\ e.attempt \in Nat
      BY <1>0, <2>2 DEF Legal, Event
    <3> QED
      BY <1>3, <2>2, <3>1, PutAttemptType DEF Maps, PutAttempt
  <2> QED
    BY <2>1, <2>2
<1> HIDE DEF V
<1>5. CASE e.job = None
  BY <1>1, <1>2, <1>3, <1>4, <1>5 DEF T
<1>6. CASE e.job # None
  <2>1. e.jobID \in JobIds /\ e.job \in Job
    BY <1>0, <1>6 DEF Legal, Event
  <2>2. Apply(S, e) = PutJob(V, e.jobID, e.job)
    BY <1>2, <1>6
  <2>3. /\ \A j \in JobIds : Apply(S, e).jobs[j] = IF j = e.jobID THEN e.job ELSE V.jobs[j]
        /\ Apply(S, e).requests = V.requests
    BY <1>4, <2>1, <2>2 DEF Maps, PutJob
  <2> QED
    BY <1>1, <1>3, <1>4, <1>6, <2>3 DEF T
<1> QED
  BY <1>5, <1>6

\* A job that is not evicted, nor its capture, is still on record for it.
LEMMA ApplyKeepsJob ==
  ASSUME NEW S \in Maps, Indexed(S), NEW e, Legal(S, e), NEW j \in Present(S),
         j \notin e.evictedJobs, S.jobs[j].requestID \notin e.evictedRequests
  PROVE  /\ j \in Present(Apply(S, e))
         /\ Apply(S, e).jobs[j].requestID = S.jobs[j].requestID
<1> DEFINE T == RemoveJobs(S, e.evictedJobs)
           J == UNION {T.jobsByRequest[r] : r \in e.evictedRequests}
<1>0. /\ e \in Event /\ e.evictedJobs \in SUBSET JobIds
      /\ e.evictedRequests \in SUBSET RequestIds /\ j \in JobIds
  BY DEF Legal, Event, Present
<1>1. T \in Maps
  BY <1>0, RemoveJobsType
<1>2. /\ T.jobs[j] = S.jobs[j]
      /\ \A r \in RequestIds : T.jobsByRequest[r] \subseteq S.jobsByRequest[r]
  BY <1>0 DEF Maps, RemoveJobs
<1> HIDE DEF T
<1>3. j \notin J
  BY <1>0, <1>2 DEF Indexed, JobsIndexed
<1>4. Evicted(S, e).jobs[j] = S.jobs[j]
  BY <1>0, <1>1, <1>2, <1>3 DEF Evicted, RemoveRequests, RemoveJobs, Maps, T
<1>5. CASE e.job # None /\ j = e.jobID
  BY <1>0, <1>5, ApplyFields DEF Legal, Present
<1>6. CASE ~ (e.job # None /\ j = e.jobID)
  BY <1>0, <1>4, <1>6, ApplyFields DEF Present
<1> QED
  BY <1>5, <1>6

\* A legal event leaves unfinished jobs on record, and with their capture.
LEMMA ApplyKeepsUnfinished ==
  ASSUME NEW S \in Maps, Indexed(S), NEW e, Legal(S, e), NEW j \in Present(S),
         ~ IsTerminal(S, j)
  PROVE  /\ j \in Present(Apply(S, e))
         /\ Apply(S, e).jobs[j].requestID = S.jobs[j].requestID
<1>1. j \notin e.evictedJobs
  BY DEF Legal
<1>2. j \in JobIds /\ S.jobs[j].requestID \in RequestIds
  BY Records DEF Job
<1>3. j \in S.jobsByRequest[S.jobs[j].requestID]
  BY <1>2 DEF Indexed, JobsIndexed, Present
<1>4. S.jobs[j].requestID \notin e.evictedRequests
  BY <1>3 DEF Legal, RequestTerminal
<1> QED
  BY <1>1, <1>4, ApplyKeepsJob

\* No step takes unfinished work out of the log (captureEvictionsLocked,
\* Enqueue, and every failure of appendLocked).
THEOREM UnfinishedKept == Spec => UnfinishedNeverEvicted
<1> DEFINE Keeps == \A j \in Present(disk) : ~ IsTerminal(disk, j) =>
             /\ j \in Present(disk')
             /\ disk'.jobs[j].requestID = disk.jobs[j].requestID
<1>1. StoreInvariant /\ [Next]_vars => Keeps
  <2> SUFFICES ASSUME StoreInvariant, MapsStep
               PROVE  Keeps
    BY StepCases DEF StoreInvariant
  <2>1. CASE disk' = disk
    BY <2>1
  <2>2. ASSUME NEW e, NEW o \in Outcomes, phase # "down", Legal(mem, e), AppendLocked(e, o)
        PROVE  Keeps
    <3>1. mem = disk /\ disk \in Maps /\ Indexed(disk)
      BY <2>2 DEF AppendLocked, StoreInvariant, TypeOK, HealthyIsDurable
    <3>2. disk' = disk \/ disk' = Apply(disk, e)
      BY <2>2 DEF AppendLocked
    <3>3. CASE disk' = Apply(disk, e)
      BY <2>2, <3>1, <3>3, ApplyKeepsUnfinished
    <3> QED
      BY <2>1, <3>2, <3>3
  <2> QED
    BY <2>1, <2>2 DEF MapsStep
<1>2. StoreInvariant /\ [Next]_vars => [Keeps]_vars
  BY <1>1
<1> QED
  BY Invariance, <1>2, PTL DEF Spec, UnfinishedNeverEvicted

=============================================================================
