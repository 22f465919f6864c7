-------------------------- MODULE RelayStorePromises --------------------------
(***************************************************************************)
(* What the store promises about jobs, attempts and replies, proved for    *)
(* every value of its constants on top of the invariant of                 *)
(* RelayStoreProofs: numbered attempts, the bounds of retention, leases of *)
(* this process only, acknowledged captures, and that the log implements   *)
(* JobLifecycle.                                                           *)
(***************************************************************************)
EXTENDS RelayStoreProofs

-----------------------------------------------------------------------------
(* Apply, job by job *)

\* An eviction takes a job with its attempts, or leaves both (removeJob).
LEMMA EvictedJob ==
  ASSUME NEW S \in Maps, NEW e \in Event, NEW j \in JobIds
  PROVE  \/ /\ Evicted(S, e).jobs[j] = None
            /\ Evicted(S, e).attempts[j] = <<>>
         \/ /\ j \notin e.evictedJobs
            /\ Evicted(S, e).jobs[j] = S.jobs[j]
            /\ Evicted(S, e).attempts[j] = S.attempts[j]
<1> DEFINE T == RemoveJobs(S, e.evictedJobs)
           J == UNION {T.jobsByRequest[r] : r \in e.evictedRequests}
           U == RemoveJobs(T, J)
<1>1. /\ T.jobs[j] = IF j \in e.evictedJobs THEN None ELSE S.jobs[j]
      /\ T.attempts[j] = IF j \in e.evictedJobs THEN <<>> ELSE S.attempts[j]
  BY DEF Maps, RemoveJobs
<1>2. T \in Maps
  BY RemoveJobsType DEF Event
<1> HIDE DEF T, J
<1>3. /\ U.jobs[j] = IF j \in J THEN None ELSE T.jobs[j]
      /\ U.attempts[j] = IF j \in J THEN <<>> ELSE T.attempts[j]
  BY <1>2 DEF Maps, RemoveJobs
<1>4. /\ RemoveRequests(T, e.evictedRequests).jobs = U.jobs
      /\ RemoveRequests(T, e.evictedRequests).attempts = U.attempts
  BY <1>2 DEF Maps, RemoveRequests, RemoveJobs, J
<1> HIDE DEF U
<1> QED
  BY <1>1, <1>3, <1>4 DEF Evicted, T

\* An event that evicts nothing leaves every job and its attempts.
LEMMA NothingEvicted ==
  ASSUME NEW S \in Maps, NEW e \in Event, NEW j \in JobIds,
         e.evictedJobs = {}, e.evictedRequests = {}
  PROVE  /\ Evicted(S, e).jobs[j] = S.jobs[j]
         /\ Evicted(S, e).attempts[j] = S.attempts[j]
<1> DEFINE T == RemoveJobs(S, {})
           J == UNION {T.jobsByRequest[r] : r \in {}}
           U == RemoveJobs(T, {})
<1>1. T.jobs[j] = S.jobs[j] /\ T.attempts[j] = S.attempts[j] /\ T \in Maps
  BY RemoveJobsType DEF Maps, RemoveJobs
<1>2. J = {}
  OBVIOUS
<1> HIDE DEF T, J
<1>3. U.jobs[j] = T.jobs[j] /\ U.attempts[j] = T.attempts[j]
  BY <1>1 DEF Maps, RemoveJobs
<1>4. /\ RemoveRequests(T, {}).jobs = RemoveJobs(T, J).jobs
      /\ RemoveRequests(T, {}).attempts = RemoveJobs(T, J).attempts
  BY <1>1 DEF Maps, RemoveRequests, RemoveJobs, J
<1> HIDE DEF U
<1> QED
  BY <1>1, <1>2, <1>3, <1>4 DEF Evicted, T, U

\* apply appends the attempt to those of the event's job, and to no other.
LEMMA ApplyAttempts ==
  ASSUME NEW S \in Maps, NEW e, Legal(S, e), NEW j \in JobIds
  PROVE  Apply(S, e).attempts[j] =
           IF e.attempt # 0 /\ j = e.jobID
             THEN Append(Evicted(S, e).attempts[j], e.attempt)
             ELSE Evicted(S, e).attempts[j]
<1> DEFINE T == Evicted(S, e)
           U == IF e.request = None THEN T ELSE PutRequest(T, e.requestID, e.request)
           V == IF e.attempt = 0 THEN U ELSE PutAttempt(U, e.jobID, e.attempt)
<1>0. e \in Event
  BY DEF Legal
<1>1. T \in Maps
  BY <1>0, EvictedMaps
<1>2. Apply(S, e) = IF e.job = None THEN V ELSE PutJob(V, e.jobID, e.job)
  BY DEF Apply, Evicted
<1> HIDE DEF T
<1>3. U \in Maps /\ U.attempts = T.attempts
  <2>1. CASE e.request = None
    BY <1>1, <2>1
  <2>2. CASE e.request # None
    <3>1. e.request \in Request /\ e.requestID \in RequestIds
      BY <1>0, <2>2 DEF Legal, Event
    <3> QED
      BY <1>1, <2>2, <3>1, PutRequestType DEF Maps, PutRequest
  <2> QED
    BY <2>1, <2>2
<1> HIDE DEF U
<1>4. V \in Maps /\ V.attempts[j] = IF e.attempt # 0 /\ j = e.jobID
                                      THEN Append(U.attempts[j], e.attempt)
                                      ELSE U.attempts[j]
  <2>1. CASE e.attempt = 0
    BY <1>3, <2>1
  <2>2. CASE e.attempt # 0
    <3>1. e.jobID \in JobIds /\ e.attempt \in Nat
      BY <1>0, <2>2 DEF Legal, Event
    <3>2. V = PutAttempt(U, e.jobID, e.attempt)
      BY <2>2
    <3>3. V \in Maps
      BY <1>3, <3>1, <3>2, PutAttemptType
    <3>4. V.attempts = [U.attempts EXCEPT ![e.jobID] = Append(@, e.attempt)]
      BY <1>3, <3>2 DEF Maps, PutAttempt
    <3> HIDE DEF V
    <3> QED
      BY <1>3, <2>2, <3>1, <3>3, <3>4 DEF Maps
  <2> QED
    BY <2>1, <2>2
<1> HIDE DEF V
<1>5. Apply(S, e).attempts = V.attempts
  BY <1>2, <1>4 DEF Maps, PutJob
<1> QED
  BY <1>3, <1>4, <1>5 DEF T

\* A job the event is not about is on record with its attempts as before, or
\* gone with them.
LEMMA OtherJob ==
  ASSUME NEW S \in Maps, NEW e, Legal(S, e), NEW j \in JobIds,
         e.job = None \/ j # e.jobID
  PROVE  \/ Apply(S, e).jobs[j] = None /\ Apply(S, e).attempts[j] = <<>>
         \/ /\ j \notin e.evictedJobs
            /\ Apply(S, e).jobs[j] = S.jobs[j]
            /\ Apply(S, e).attempts[j] = S.attempts[j]
<1>1. e \in Event /\ ~ (e.attempt # 0 /\ j = e.jobID)
  BY DEF Legal
<1>2. /\ Apply(S, e).jobs[j] = Evicted(S, e).jobs[j]
      /\ Apply(S, e).attempts[j] = Evicted(S, e).attempts[j]
  BY <1>1, ApplyFields, ApplyAttempts
<1> QED
  BY <1>1, <1>2, EvictedJob

-----------------------------------------------------------------------------
(* The attempts of a job *)

\* What an event is for, whoever appends it.
Purposeful(S, e) == Captures(S, e) \/ Creates(S, e) \/ Updates(S, e)

\* The Number RecordAttempt expects of a job whose attempts are 1, 2, ..., n is
\* n + 1.
LEMMA NextNumber ==
  ASSUME NEW S \in Maps, NEW j \in JobIds, NEW n \in Nat \ {0},
         \A i \in DOMAIN S.attempts[j] : S.attempts[j][i] = i,
         ExpectedAttempt(S, j, n)
  PROVE  n = Len(S.attempts[j]) + 1
<1>1. S.attempts[j] \in Seq(Nat)
  BY DEF Maps
<1>2. /\ DOMAIN S.attempts[j] = 1 .. Len(S.attempts[j])
      /\ Len(S.attempts[j]) \in Nat
  BY <1>1
<1>3. \A i \in 1 .. Len(S.attempts[j]) : i < n
  BY <1>2 DEF ExpectedAttempt
<1>4. n = 1 \/ \E i \in 1 .. Len(S.attempts[j]) : i + 1 = n
  BY <1>2 DEF ExpectedAttempt
<1> QED
  BY <1>2, <1>3, <1>4

\* No event that a method appends breaks the numbering of attempts: neither
\* evictions, nor a new job under an old ID, nor RecordAttempt at its bound.
LEMMA ApplyNumbers ==
  ASSUME NEW S \in Maps, NEW e, Legal(S, e), Purposeful(S, e), AttemptsNumbered(S)
  PROVE  AttemptsNumbered(Apply(S, e))
<1> DEFINE T == Apply(S, e)
<1> SUFFICES ASSUME NEW j \in JobIds
             PROVE  /\ \A i \in DOMAIN T.attempts[j] : T.attempts[j][i] = i
                    /\ Len(T.attempts[j]) <= MaxAttemptsPerJob
                    /\ T.jobs[j] = None => T.attempts[j] = <<>>
                    /\ T.jobs[j] # None /\ T.jobs[j].state \in AttemptResults
                         => T.attempts[j] # <<>>
  BY DEF AttemptsNumbered, Present
<1>1. /\ \A i \in DOMAIN S.attempts[j] : S.attempts[j][i] = i
      /\ Len(S.attempts[j]) <= MaxAttemptsPerJob
      /\ S.jobs[j] = None => S.attempts[j] = <<>>
      /\ S.jobs[j] # None /\ S.jobs[j].state \in AttemptResults => S.attempts[j] # <<>>
      /\ S.attempts[j] \in Seq(Nat)
  BY DEF AttemptsNumbered, Present, Maps
<1>2. e \in Event /\ MaxAttemptsPerJob \in Nat
  BY StoreConstants DEF Legal
<1>3. Len(<<>>) = 0 /\ DOMAIN <<>> = {}
  OBVIOUS
<1>4. CASE e.job = None \/ j # e.jobID
  <2>1. \/ T.jobs[j] = None /\ T.attempts[j] = <<>>
        \/ T.jobs[j] = S.jobs[j] /\ T.attempts[j] = S.attempts[j]
    BY <1>4, OtherJob
  <2> HIDE DEF T
  <2> QED
    BY <1>1, <1>2, <1>3, <2>1
<1>5. CASE e.job # None /\ j = e.jobID
  <2>1. /\ T.jobs[j] = e.job
        /\ T.attempts[j] = IF e.attempt # 0
                              THEN Append(Evicted(S, e).attempts[j], e.attempt)
                              ELSE Evicted(S, e).attempts[j]
    BY <1>5, ApplyFields, ApplyAttempts
  <2> HIDE DEF T
  <2>2. CASE Captures(S, e) \/ Creates(S, e)
    <3>1. e.attempt = 0 /\ S.jobs[j] = None /\ e.job.state = "pending"
      BY <1>5, <2>2 DEF Captures, Creates
    <3>2. T.attempts[j] = <<>>
      BY <1>1, <1>2, <2>1, <3>1, EvictedJob
    <3> QED
      BY <1>2, <1>3, <1>5, <2>1, <3>1, <3>2 DEF AttemptResults
  <2>3. CASE Updates(S, e)
    <3>1. /\ Evicted(S, e).attempts[j] = S.attempts[j]
          /\ e.attempt = 0 => e.job.state \notin AttemptResults
      BY <1>2, <2>3, NothingEvicted DEF Updates, AttemptResults
    <3>2. CASE e.attempt = 0
      BY <1>1, <1>5, <2>1, <3>1, <3>2
    <3>3. CASE e.attempt # 0
      <4>1. /\ e.attempt \in Nat \ {0} /\ e.attempt <= MaxAttemptsPerJob
            /\ ExpectedAttempt(S, j, e.attempt)
        BY <1>2, <1>5, <2>3, <3>3 DEF Updates, Event
      <4>2. e.attempt = Len(S.attempts[j]) + 1
        BY <1>1, <4>1, NextNumber
      <4>3. T.attempts[j] = Append(S.attempts[j], e.attempt)
        BY <2>1, <3>1, <3>3
      <4>4. /\ Len(T.attempts[j]) = Len(S.attempts[j]) + 1
            /\ DOMAIN T.attempts[j] = 1 .. Len(S.attempts[j]) + 1
            /\ \A i \in 1 .. Len(S.attempts[j]) : T.attempts[j][i] = S.attempts[j][i]
            /\ T.attempts[j][Len(S.attempts[j]) + 1] = e.attempt
            /\ T.attempts[j] # <<>>
        BY <1>1, <4>1, <4>3
      <4>5. /\ DOMAIN S.attempts[j] = 1 .. Len(S.attempts[j])
            /\ Len(S.attempts[j]) \in Nat
        BY <1>1
      <4>6. \A i \in DOMAIN T.attempts[j] : T.attempts[j][i] = i
        <5> TAKE i \in DOMAIN T.attempts[j]
        <5>1. i \in 1 .. Len(S.attempts[j]) \/ i = Len(S.attempts[j]) + 1
          BY <4>4, <4>5
        <5> QED
          BY <1>1, <4>2, <4>4, <4>5, <5>1
      <4>7. Len(T.attempts[j]) <= MaxAttemptsPerJob
        BY <4>1, <4>2, <4>4
      <4> QED
        BY <1>5, <2>1, <4>4, <4>6, <4>7
    <3> QED
      BY <3>2, <3>3
  <2> QED
    BY <2>2, <2>3 DEF Purposeful
<1> QED
  BY <1>4, <1>5

-----------------------------------------------------------------------------
(* The bounds of retention *)

\* Captures and jobs on record are finitely many.
LEMMA FinitelyMany ==
  ASSUME NEW S \in Maps
  PROVE  /\ IsFiniteSet(Retained(S)) /\ Cardinality(Retained(S)) \in Nat
         /\ \A r \in RequestIds : /\ IsFiniteSet(S.jobsByRequest[r])
                                  /\ Cardinality(S.jobsByRequest[r]) \in Nat
<1>1. Retained(S) \in SUBSET RequestIds
  BY DEF Retained
<1>2. \A r \in RequestIds : S.jobsByRequest[r] \in SUBSET JobIds
  BY DEF Maps
<1> QED
  BY <1>1, <1>2, StoreConstants, FS_Subset, FS_CardinalityType

\* A capture makes its room first: whatever captureEvictionsLocked returns, the
\* captures and the new one are within the limit.
LEMMA CaptureMakesRoom ==
  ASSUME NEW S \in Maps, Cardinality(Retained(S)) <= MaxCaptures,
         NEW E \in CaptureEvictions(S), NEW r
  PROVE  /\ IsFiniteSet((Retained(S) \ E) \cup {r})
         /\ Cardinality((Retained(S) \ E) \cup {r}) <= MaxCaptures
<1> DEFINE R == Retained(S)
           over == Cardinality(R) + 1 - MaxCaptures
<1>1. /\ IsFiniteSet(R) /\ Cardinality(R) \in Nat /\ MaxCaptures \in Nat \ {0}
      /\ Cardinality(R) <= MaxCaptures
  BY FinitelyMany, StoreConstants
<1>2. /\ E \subseteq R
      /\ IF over <= 0 THEN E = {} ELSE Cardinality(E) = over
  BY DEF CaptureEvictions
<1> HIDE DEF R
<1>3. /\ IsFiniteSet(R \ E)
      /\ Cardinality(R \ E) = Cardinality(R) - Cardinality(R \cap E)
  BY <1>1, FS_Difference
<1>4. R \cap E = E /\ Cardinality({}) = 0
  BY <1>2, FS_EmptySet
<1>5. Cardinality(R \ E) \in Nat
  BY <1>3, FS_CardinalityType
<1>6. Cardinality(R \ E) + 1 <= MaxCaptures
  <2>1. Cardinality(R \ E) = Cardinality(R) - Cardinality(E)
    BY <1>3, <1>4
  <2>2. Cardinality(E) = IF over <= 0 THEN 0 ELSE over
    BY <1>2, <1>4
  <2> QED
    BY <1>1, <2>1, <2>2
<1>7. /\ IsFiniteSet((R \ E) \cup {r})
      /\ \/ Cardinality((R \ E) \cup {r}) = Cardinality(R \ E)
         \/ Cardinality((R \ E) \cup {r}) = Cardinality(R \ E) + 1
  BY <1>3, FS_AddElement
<1> QED
  BY <1>1, <1>5, <1>6, <1>7 DEF R

\* So does a replay: the jobs of the capture without the evicted one, and with
\* the new one, are within the limit.
LEMMA ReplayMakesRoom ==
  ASSUME NEW S \in Maps, NEW r \in RequestIds,
         Cardinality(S.jobsByRequest[r]) <= MaxJobsPerRequest,
         NEW E \in JobEvictions(S, r), NEW j
  PROVE  /\ IsFiniteSet((S.jobsByRequest[r] \ E) \cup {j})
         /\ Cardinality((S.jobsByRequest[r] \ E) \cup {j}) <= MaxJobsPerRequest
<1> DEFINE Q == S.jobsByRequest[r]
<1>1. /\ IsFiniteSet(Q) /\ Cardinality(Q) \in Nat
      /\ MaxJobsPerRequest \in Nat \ {0}
  BY FinitelyMany, StoreConstants
<1>2. \/ E = {} /\ Cardinality(Q) < MaxJobsPerRequest
      \/ \E k \in Q : E = {k}
  BY DEF JobEvictions
<1> HIDE DEF Q
<1>3. IsFiniteSet(Q \ E) /\ Cardinality(Q \ E) \in Nat
      /\ Cardinality(Q \ E) + 1 <= MaxJobsPerRequest
  <2>1. CASE E = {} /\ Cardinality(Q) < MaxJobsPerRequest
    <3>1. Q \ E = Q
      BY <2>1
    <3> QED
      BY <1>1, <2>1, <3>1
  <2>2. CASE \E k \in Q : E = {k}
    <3>1. PICK k \in Q : E = {k}
      BY <2>2
    <3>2. IsFiniteSet(Q \ {k}) /\ Cardinality(Q \ {k}) = Cardinality(Q) - 1
      BY <1>1, FS_RemoveElement
    <3>3. Cardinality(Q \ {k}) \in Nat
      BY <3>2, FS_CardinalityType
    <3>4. Cardinality(Q) <= MaxJobsPerRequest
      BY DEF Q
    <3> QED
      BY <1>1, <3>1, <3>2, <3>3, <3>4
  <2> QED
    BY <1>2, <2>1, <2>2
<1>4. /\ IsFiniteSet((Q \ E) \cup {j})
      /\ \/ Cardinality((Q \ E) \cup {j}) = Cardinality(Q \ E)
         \/ Cardinality((Q \ E) \cup {j}) = Cardinality(Q \ E) + 1
  BY <1>3, FS_AddElement
<1> QED
  BY <1>1, <1>3, <1>4 DEF Q

\* The number of captures after an event.
LEMMA ApplyBoundsCaptures ==
  ASSUME NEW S \in Maps, NEW e, Legal(S, e), Purposeful(S, e),
         Cardinality(Retained(S)) <= MaxCaptures
  PROVE  Cardinality(Retained(Apply(S, e))) <= MaxCaptures
<1>1. \A r \in RequestIds : Apply(S, e).requests[r] =
        IF e.request # None /\ r = e.requestID THEN e.request
        ELSE IF r \in e.evictedRequests THEN None ELSE S.requests[r]
  BY ApplyFields
<1>2. /\ IsFiniteSet(Retained(S)) /\ Cardinality(Retained(S)) \in Nat
      /\ MaxCaptures \in Nat
  BY FinitelyMany, StoreConstants
<1>3. Apply(S, e) \in Maps
  BY ApplyKeeps
<1>4. /\ IsFiniteSet(Retained(Apply(S, e)))
      /\ Cardinality(Retained(Apply(S, e))) \in Nat
  BY <1>3, FinitelyMany
<1>5. CASE Captures(S, e)
  <2> DEFINE F == (Retained(S) \ e.evictedRequests) \cup {e.requestID}
  <2>1. Retained(Apply(S, e)) \in SUBSET F
    BY <1>1 DEF Retained
  <2>2. IsFiniteSet(F) /\ Cardinality(F) <= MaxCaptures
    BY <1>5, CaptureMakesRoom DEF Captures
  <2> HIDE DEF F
  <2>3. Cardinality(Retained(Apply(S, e))) <= Cardinality(F) /\ Cardinality(F) \in Nat
    BY <2>1, <2>2, FS_Subset, FS_CardinalityType
  <2> QED
    BY <1>2, <1>4, <2>2, <2>3
<1>6. CASE Creates(S, e) \/ Updates(S, e)
  <2>1. Retained(Apply(S, e)) \in SUBSET Retained(S)
    BY <1>1, <1>6 DEF Creates, Updates, Retained
  <2>2. Cardinality(Retained(Apply(S, e))) <= Cardinality(Retained(S))
    BY <1>2, <2>1, FS_Subset
  <2> QED
    BY <1>2, <1>4, <2>2
<1> QED
  BY <1>5, <1>6 DEF Purposeful

\* The jobs of a capture after an event: those it had, without the evicted
\* ones, and the event's if it is for this capture.
LEMMA JobsOfCapture ==
  ASSUME NEW S \in Maps, Indexed(S), NEW e, Legal(S, e), NEW r \in RequestIds
  PROVE  Apply(S, e).jobsByRequest[r] \subseteq
           (S.jobsByRequest[r] \ e.evictedJobs)
             \cup {j \in JobIds : e.job # None /\ e.jobID = j /\ e.job.requestID = r}
<1>1. Apply(S, e) \in Maps /\ Indexed(Apply(S, e)) /\ e \in Event
  BY ApplyKeeps DEF Legal
<1> SUFFICES ASSUME NEW j \in Apply(S, e).jobsByRequest[r],
                    ~ (e.job # None /\ e.jobID = j /\ e.job.requestID = r)
             PROVE  j \in S.jobsByRequest[r] /\ j \notin e.evictedJobs
  BY <1>1 DEF Maps
<1>2. /\ j \in JobIds
      /\ Apply(S, e).jobs[j] # None /\ Apply(S, e).jobs[j].requestID = r
  BY <1>1 DEF Maps, Indexed, JobsIndexed
<1>3. e.job = None \/ j # e.jobID
  BY <1>2, ApplyFields
<1>4. j \notin e.evictedJobs /\ Apply(S, e).jobs[j] = S.jobs[j]
  BY <1>2, <1>3, OtherJob
<1> QED
  BY <1>2, <1>4 DEF Indexed, JobsIndexed

\* The number of jobs of each capture after an event.
LEMMA ApplyBoundsJobs ==
  ASSUME NEW S \in Maps, Indexed(S), NEW e, Legal(S, e), Purposeful(S, e),
         \A r \in RequestIds : Cardinality(S.jobsByRequest[r]) <= MaxJobsPerRequest,
         NEW r \in RequestIds
  PROVE  Cardinality(Apply(S, e).jobsByRequest[r]) <= MaxJobsPerRequest
<1> DEFINE Q == Apply(S, e).jobsByRequest[r]
<1>1. Apply(S, e) \in Maps /\ e \in Event
  BY ApplyKeeps DEF Legal
<1>2. /\ IsFiniteSet(S.jobsByRequest[r]) /\ Cardinality(S.jobsByRequest[r]) \in Nat
      /\ MaxJobsPerRequest \in Nat \ {0} /\ Cardinality(Q) \in Nat
      /\ Cardinality(S.jobsByRequest[r]) <= MaxJobsPerRequest
  BY <1>1, FinitelyMany, StoreConstants
<1>3. Q \subseteq (S.jobsByRequest[r] \ e.evictedJobs)
             \cup {j \in JobIds : e.job # None /\ e.jobID = j /\ e.job.requestID = r}
  BY JobsOfCapture
<1> SUFFICES Cardinality(Q) <= MaxJobsPerRequest
  OBVIOUS
<1> HIDE DEF Q
<1>4. CASE Q \subseteq S.jobsByRequest[r]
  BY <1>2, <1>4, FS_Subset
<1>5. CASE e.job # None /\ e.job.requestID = r /\ Captures(S, e)
  <2>1. S.jobsByRequest[r] = {}
    BY <1>5 DEF Captures, Legal, Indexed, JobsIndexed, Retained, Maps
  <2>2. Q \subseteq {e.jobID}
    BY <1>3, <2>1
  <2>3. IsFiniteSet({e.jobID}) /\ Cardinality({e.jobID}) = 1
    BY FS_Singleton
  <2>4. Cardinality(Q) <= 1
    BY <2>2, <2>3, FS_Subset
  <2> QED
    BY <1>2, <2>4
<1>6. CASE e.job # None /\ e.job.requestID = r /\ Creates(S, e)
  <2> DEFINE F == (S.jobsByRequest[r] \ e.evictedJobs) \cup {e.jobID}
  <2>1. Q \in SUBSET F
    BY <1>3
  <2>2. IsFiniteSet(F) /\ Cardinality(F) <= MaxJobsPerRequest
    BY <1>2, <1>6, ReplayMakesRoom DEF Creates
  <2> HIDE DEF F
  <2>3. Cardinality(Q) <= Cardinality(F) /\ Cardinality(F) \in Nat
    BY <2>1, <2>2, FS_Subset, FS_CardinalityType
  <2> QED
    BY <1>2, <2>2, <2>3
<1>7. CASE e.job # None /\ e.job.requestID = r /\ Updates(S, e)
  <2>1. e.jobID \in S.jobsByRequest[r]
    BY <1>7 DEF Updates, Legal, Indexed, JobsIndexed, Present
  <2> QED
    BY <1>3, <1>4, <2>1
<1>8. CASE e.job = None \/ e.job.requestID # r
  BY <1>3, <1>4, <1>8
<1> QED
  BY <1>5, <1>6, <1>7, <1>8 DEF Purposeful

\* No event that a method appends breaks a bound of retention.
LEMMA ApplyBounds ==
  ASSUME NEW S \in Maps, Indexed(S), NEW e, Legal(S, e), Purposeful(S, e), Bounded(S)
  PROVE  Bounded(Apply(S, e))
BY ApplyBoundsCaptures, ApplyBoundsJobs DEF Bounded

-----------------------------------------------------------------------------
(* The invariant *)

Kept(S) == AttemptsNumbered(S) /\ Bounded(S)

\* What may be answered from memory, also by a poisoned store: what memory still
\* has is in the log, with a job if it has one in memory, unless the append that
\* poisoned the store evicted it there.
RepliesHold ==
  phase # "down" => \A r \in Retained(mem) :
    \/ acked[r] = "evicted"
    \/ /\ r \in Retained(disk)
       /\ mem.jobsByRequest[r] # {} => disk.jobsByRequest[r] # {}

\* AckedIsDurable is not inductive: a duplicate is acknowledged from memory,
\* which is not the log once the store is poisoned.  RepliesHold is what makes
\* that reply true.
PromiseInvariant ==
  /\ StoreInvariant
  /\ Kept(mem) /\ Kept(disk)
  /\ NoForeignLease
  /\ RepliesHold /\ AckedIsDurable

\* The states of the job in the log of an earlier version.
LegacyStates == {"queued", "running", "failed"}

\* A log of an earlier version, or an empty one, has no attempts and at most
\* one capture with one job.
LEMMA FirstLog ==
  ASSUME NEW S \in {EmptyMaps} \cup LegacyMaps
  PROVE  /\ \E r : \A x \in RequestIds : S.requests[x] # None => x = r
         /\ \E j : \A k \in JobIds : S.jobs[k] # None => k = j
         /\ \A k \in JobIds : /\ S.jobs[k] # None => S.jobs[k].state \in LegacyStates
                              /\ S.attempts[k] = <<>>
<1>1. /\ \A x \in RequestIds : EmptyMaps.requests[x] = None
      /\ \A k \in JobIds : EmptyMaps.jobs[k] = None /\ EmptyMaps.attempts[k] = <<>>
  BY DEF EmptyMaps
<1>2. ASSUME NEW r \in RequestIds, NEW request \in Request
      PROVE  /\ PutRequest(EmptyMaps, r, request) \in Maps
             /\ \A x \in RequestIds :
                  PutRequest(EmptyMaps, r, request).requests[x] # None => x = r
             /\ PutRequest(EmptyMaps, r, request).jobs = EmptyMaps.jobs
             /\ PutRequest(EmptyMaps, r, request).attempts = EmptyMaps.attempts
  <2>1. PutRequest(EmptyMaps, r, request) \in Maps
    BY EmptyIndexed, PutRequestType
  <2> QED
    BY <2>1, EmptyIndexed, <1>1 DEF PutRequest, Maps
<1>3. CASE S = EmptyMaps
  BY <1>1, <1>3
<1>4. CASE \E r \in RequestIds, request \in Request : S = PutRequest(EmptyMaps, r, request)
  <2>1. PICK r \in RequestIds, request \in Request : S = PutRequest(EmptyMaps, r, request)
    BY <1>4
  <2>2. /\ \A x \in RequestIds : S.requests[x] # None => x = r
        /\ \A k \in JobIds : S.jobs[k] = None /\ S.attempts[k] = <<>>
    BY <1>1, <1>2, <2>1
  <2> QED
    BY <2>2
<1>5. CASE \E r \in RequestIds, request \in Request, j \in JobIds,
              s \in {"queued", "running", "failed"} :
             S = PutJob(PutRequest(EmptyMaps, r, request), j,
                        [NewJob(r, 0) EXCEPT !.state = s])
  <2>1. PICK r \in RequestIds, request \in Request, j \in JobIds,
             s \in {"queued", "running", "failed"} :
          S = PutJob(PutRequest(EmptyMaps, r, request), j,
                     [NewJob(r, 0) EXCEPT !.state = s])
    BY <1>5
  <2> DEFINE U == PutRequest(EmptyMaps, r, request)
             job == [NewJob(r, 0) EXCEPT !.state = s]
  <2>2. job.state \in LegacyStates
    BY DEF NewJob, LegacyStates
  <2>3. /\ U \in Maps
        /\ \A x \in RequestIds : U.requests[x] # None => x = r
        /\ \A k \in JobIds : U.jobs[k] = None /\ U.attempts[k] = <<>>
    BY <1>1, <1>2
  <2>4. S = PutJob(U, j, job)
    BY <2>1
  <2> HIDE DEF U, job
  <2>5. /\ S.requests = U.requests /\ S.attempts = U.attempts
        /\ \A k \in JobIds : S.jobs[k] = IF k = j THEN job ELSE U.jobs[k]
    BY <2>3, <2>4 DEF PutJob, Maps
  <2>6. \A x \in RequestIds : S.requests[x] # None => x = r
    BY <2>3, <2>5
  <2>7. \A k \in JobIds : S.jobs[k] # None => k = j
    BY <2>3, <2>5
  <2>8. \A k \in JobIds : S.jobs[k] # None => S.jobs[k].state \in LegacyStates
    BY <2>2, <2>3, <2>5
  <2>9. \A k \in JobIds : S.attempts[k] = <<>>
    BY <2>3, <2>5
  <2> QED
    BY <2>6, <2>7, <2>8, <2>9
<1> QED
  BY <1>3, <1>4, <1>5 DEF LegacyMaps

\* So it keeps the numbering and the bounds.
LEMMA InitKept ==
  ASSUME NEW S \in {EmptyMaps} \cup LegacyMaps
  PROVE  Kept(S)
<1>1. S \in Maps /\ Indexed(S)
  BY EmptyIndexed, LegacyIndexed
<1>2. \A k \in JobIds : /\ S.jobs[k] # None => S.jobs[k].state \notin AttemptResults
                        /\ S.attempts[k] = <<>>
  BY FirstLog DEF LegacyStates, AttemptResults
<1>3. AttemptsNumbered(S)
  <2>1. Len(<<>>) <= MaxAttemptsPerJob /\ \A i \in DOMAIN <<>> : FALSE
    BY StoreConstants
  <2> SUFFICES ASSUME NEW k \in JobIds
               PROVE  /\ \A i \in DOMAIN S.attempts[k] : S.attempts[k][i] = i
                      /\ Len(S.attempts[k]) <= MaxAttemptsPerJob
                      /\ S.jobs[k] = None => S.attempts[k] = <<>>
                      /\ S.jobs[k] # None /\ S.jobs[k].state \in AttemptResults
                           => S.attempts[k] # <<>>
    BY DEF AttemptsNumbered, Present
  <2>2. S.attempts[k] = <<>> /\ (S.jobs[k] # None => S.jobs[k].state \notin AttemptResults)
    BY <1>2
  <2> QED
    BY <2>1, <2>2
<1>4. ASSUME NEW Q, NEW x, Q \subseteq {x}
      PROVE  Cardinality(Q) \in Nat /\ Cardinality(Q) <= 1
  <2>1. IsFiniteSet({x}) /\ Cardinality({x}) = 1
    BY FS_Singleton
  <2> QED
    BY <1>4, <2>1, FS_Subset, FS_CardinalityType
<1>5. \E r : Retained(S) \subseteq {r}
  BY FirstLog DEF Retained
<1>6. \A q \in RequestIds : \E j : S.jobsByRequest[q] \subseteq {j}
  <2> TAKE q \in RequestIds
  <2>1. S.jobsByRequest[q] \subseteq JobIds
    BY <1>1 DEF Maps
  <2>2. \A k \in S.jobsByRequest[q] : S.jobs[k] # None
    BY <1>1, <2>1 DEF Indexed, JobsIndexed
  <2>3. \E j : \A k \in JobIds : S.jobs[k] # None => k = j
    BY FirstLog
  <2> QED
    BY <2>1, <2>2, <2>3
<1>7. MaxCaptures \in Nat \ {0} /\ MaxJobsPerRequest \in Nat \ {0}
  BY StoreConstants
<1>8. /\ Cardinality(Retained(S)) \in Nat /\ Cardinality(Retained(S)) <= 1
      /\ \A q \in RequestIds : /\ Cardinality(S.jobsByRequest[q]) \in Nat
                               /\ Cardinality(S.jobsByRequest[q]) <= 1
  BY <1>4, <1>5, <1>6
<1>9. Bounded(S)
  BY <1>7, <1>8 DEF Bounded
<1> QED
  BY <1>3, <1>9 DEF Kept

\* Every initial state satisfies the invariant.
LEMMA InitPromises ==
  ASSUME Init
  PROVE  PromiseInvariant
<1>1. Kept(mem) /\ Kept(disk)
  BY InitKept DEF Init
<1>2. AckedIsDurable
  BY DEF Init, AckedIsDurable
<1> QED
  BY <1>1, <1>2, InitInvariant DEF Init, PromiseInvariant, NoForeignLease, RepliesHold

\* What an append does to memory and log, by its outcome: the log had been what
\* memory was.
LEMMA AppendOutcome ==
  ASSUME StoreInvariant, phase # "down", NEW e, NEW o \in Outcomes, AppendLocked(e, o)
  PROVE  /\ mem = disk
         /\ o \in {"ok", "compact"} => mem' = Apply(mem, e) /\ disk' = mem'
         /\ o = "lost" => mem' = mem /\ disk' = mem
         /\ o = "unsynced" => mem' = mem /\ disk' = Apply(mem, e)
         /\ health' = "ok" <=> o = "ok"
BY DEF StoreInvariant, HealthyIsDurable, AppendLocked, Outcomes

\* Numbered attempts and the bounds are kept, in memory and in the log.
LEMMA StepKept ==
  ASSUME StoreInvariant, Kept(mem), Kept(disk), MapsStep
  PROVE  Kept(mem') /\ Kept(disk')
<1>1. ASSUME phase # "down", NEW e, Legal(mem, e), Purpose(e),
             NEW o \in Outcomes, AppendLocked(e, o)
      PROVE  Kept(mem') /\ Kept(disk')
  <2>1. mem \in Maps /\ Indexed(mem) /\ Purposeful(mem, e)
    BY <1>1 DEF StoreInvariant, TypeOK, Purpose, Purposeful
  <2>2. Kept(Apply(mem, e))
    BY <1>1, <2>1, ApplyNumbers, ApplyBounds DEF Kept
  <2> QED
    BY <1>1, <2>2, AppendOutcome DEF Outcomes
<1> QED
  BY <1>1 DEF MapsStep

-----------------------------------------------------------------------------
(* Leases *)

\* The workers run from New on, and until then no claim of this run is made;
\* what a run has claimed it keeps claimed.
LEMMA UpFrame ==
  ASSUME [Next]_vars, phase' = "up"
  PROVE  \/ /\ phase = "starting"
            /\ StaleLeases(mem) = {} \/ health = "poisoned"
            /\ UNCHANGED <<mem, health>>
         \/ phase = "up" /\ claimed \subseteq claimed'
<1>1. CASE Capture
  <2>1. UNCHANGED <<phase, claimed>>
    BY <1>1, CaptureFrame
  <2> QED
    BY <2>1
<1>2. CASE Replay \/ UNCHANGED vars
  BY <1>2 DEF Replay, Enqueue, vars
<1>3. CASE Work
  BY <1>3, ZenonT(60) DEF Work, ClaimNextJob, RecordAttempt, FinishWithoutAttempt
<1>4. CASE Process
  BY <1>4 DEF Process, Stop, Open, RecoverLease, Serve, Poison
<1> QED
  BY <1>1, <1>2, <1>3, <1>4 DEF Next

\* A job that is leased after an event was leased before it, or the event leases
\* it; no event writes the legacy state "running".
LEMMA LeasedBefore ==
  ASSUME NEW S \in Maps, NEW e, Legal(S, e), Purposeful(S, e), NEW j \in JobIds,
         Apply(S, e).jobs[j] # None,
         Apply(S, e).jobs[j].state \in {"leased", "running"}
  PROVE  \/ e.job # None /\ j = e.jobID /\ e.job.state = "leased"
         \/ S.jobs[j] # None /\ S.jobs[j].state \in {"leased", "running"}
<1>1. CASE e.job = None \/ j # e.jobID
  BY <1>1, OtherJob
<1>2. CASE e.job # None /\ j = e.jobID
  <2>1. Apply(S, e).jobs[j] = e.job
    BY <1>2, ApplyFields
  <2>2. e.job.state # "running"
    BY <1>2 DEF Purposeful, Captures, Creates, Updates, AttemptResults
  <2> QED
    BY <1>2, <2>1, <2>2
<1> QED
  BY <1>1, <1>2

\* Every lease that is alive once the workers run is one this run has claimed.
LEMMA StepLeases ==
  ASSUME StoreInvariant, NoForeignLease, MapsStep, [Next]_vars
  PROVE  NoForeignLease'
<1> SUFFICES ASSUME phase' = "up", health' = "ok", NEW j \in Present(mem'),
                    mem'.jobs[j].state \in {"leased", "running"}
             PROVE  j \in claimed'
  BY DEF NoForeignLease, Present
<1>0. j \in JobIds /\ mem'.jobs[j] # None
  BY DEF Present
<1>1. CASE phase = "starting" /\ (StaleLeases(mem) = {} \/ health = "poisoned")
             /\ UNCHANGED <<mem, health>>
  BY <1>0, <1>1 DEF StaleLeases, Present
<1>2. CASE phase = "up" /\ claimed \subseteq claimed'
  <2>1. CASE mem' = mem /\ health' = health
    BY <1>0, <1>2, <2>1 DEF NoForeignLease, Present
  <2>2. ASSUME NEW e, Legal(mem, e), Purpose(e), NEW o \in Outcomes, AppendLocked(e, o)
        PROVE  j \in claimed'
    <3>1. health = "ok" /\ mem' = Apply(mem, e)
      BY <1>2, <2>2, AppendOutcome DEF AppendLocked
    <3>2. mem \in Maps /\ Purposeful(mem, e)
      BY <2>2 DEF StoreInvariant, TypeOK, Purpose, Purposeful
    <3>3. \/ e.job # None /\ j = e.jobID /\ e.job.state = "leased"
          \/ mem.jobs[j] # None /\ mem.jobs[j].state \in {"leased", "running"}
      BY <1>0, <2>2, <3>1, <3>2, LeasedBefore
    <3>4. CASE e.job # None /\ j = e.jobID /\ e.job.state = "leased"
      BY <2>2, <3>4 DEF Purpose
    <3>5. CASE mem.jobs[j] # None /\ mem.jobs[j].state \in {"leased", "running"}
      BY <1>0, <1>2, <3>1, <3>5 DEF NoForeignLease, Present
    <3> QED
      BY <3>3, <3>4, <3>5
  <2> QED
    BY <1>2, <2>1, <2>2 DEF MapsStep
<1> QED
  BY <1>1, <1>2, UpFrame

-----------------------------------------------------------------------------
(* Replies *)

\* A capture that an event does not evict stays on record, and with a job if it
\* had one: the only job an event may take from it makes room for another.
LEMMA ApplyKeepsCapture ==
  ASSUME NEW S \in Maps, Indexed(S), NEW e, Legal(S, e),
         NEW r \in Retained(S), r \notin e.evictedRequests
  PROVE  /\ r \in Retained(Apply(S, e))
         /\ S.jobsByRequest[r] # {} => Apply(S, e).jobsByRequest[r] # {}
<1>1. r \in RequestIds /\ S.requests[r] # None
  BY DEF Retained
<1>2. Apply(S, e) \in Maps /\ Indexed(Apply(S, e))
  BY ApplyKeeps
<1>3. r \in Retained(Apply(S, e))
  <2>1. e.request # None => e.requestID # r
    BY <1>1 DEF Legal
  <2> QED
    BY <1>1, <2>1, ApplyFields DEF Retained
<1>4. ASSUME S.jobsByRequest[r] # {}
      PROVE  Apply(S, e).jobsByRequest[r] # {}
  <2>1. PICK j \in JobIds : j \in S.jobsByRequest[r]
    BY <1>1, <1>4 DEF Maps
  <2>2. j \in Present(S) /\ S.jobs[j].requestID = r
    BY <1>1, <2>1 DEF Indexed, JobsIndexed, Present
  <2>3. CASE j \notin e.evictedJobs
    <3>1. j \in Present(Apply(S, e)) /\ Apply(S, e).jobs[j].requestID = r
      BY <2>2, <2>3, ApplyKeepsJob
    <3> QED
      BY <1>1, <1>2, <3>1 DEF Indexed, JobsIndexed, Present
  <2>4. CASE j \in e.evictedJobs
    <3>1. /\ e.job # None /\ e.jobID \in JobIds
          /\ e.job.requestID = r
      BY <2>2, <2>4 DEF Legal
    <3>2. Apply(S, e).jobs[e.jobID] = e.job
      BY <3>1, ApplyFields
    <3> QED
      BY <1>1, <1>2, <3>1, <3>2 DEF Indexed, JobsIndexed
  <2> QED
    BY <2>3, <2>4
<1> QED
  BY <1>3, <1>4

\* What an event captures, and for what it has a job, is on record after it.
LEMMA ApplyRecords ==
  ASSUME NEW S \in Maps, Indexed(S), NEW e, Legal(S, e), NEW r \in RequestIds
  PROVE  /\ e.request # None /\ e.requestID = r => r \in Retained(Apply(S, e))
         /\ e.job # None /\ e.job.requestID = r =>
              r \in Retained(Apply(S, e)) /\ Apply(S, e).jobsByRequest[r] # {}
<1>1. Apply(S, e) \in Maps /\ Indexed(Apply(S, e))
  BY ApplyKeeps
<1>2. ASSUME e.request # None, e.requestID = r
      PROVE  r \in Retained(Apply(S, e))
  BY <1>2, ApplyFields DEF Retained
<1>3. ASSUME e.job # None, e.job.requestID = r
      PROVE  r \in Retained(Apply(S, e)) /\ Apply(S, e).jobsByRequest[r] # {}
  <2>1. e.jobID \in JobIds
    BY <1>3 DEF Legal
  <2>2. Apply(S, e).jobs[e.jobID] = e.job
    BY <1>3, <2>1, ApplyFields
  <2> QED
    BY <1>1, <1>3, <2>1, <2>2 DEF Indexed, JobsIndexed
<1> QED
  BY <1>2, <1>3

\* After an append, memory still holds nothing that was promised and is gone.
LEMMA AppendReplies ==
  ASSUME StoreInvariant, AckedIsDurable, phase # "down",
         NEW e, Legal(mem, e), NEW o \in Outcomes, AppendLocked(e, o), Told(e, o)
  PROVE  RepliesHold' /\ AckedIsDurable'
<1>0. mem \in Maps /\ Indexed(mem)
  BY DEF StoreInvariant, TypeOK
<1>1. /\ mem = disk
      /\ disk' = IF o = "lost" THEN mem ELSE Apply(mem, e)
      /\ mem' = disk' \/ (o = "unsynced" /\ mem' = mem)
  BY AppendOutcome DEF Outcomes
<1>2. RepliesHold'
  <2>1. CASE mem' = disk'
    BY <2>1 DEF RepliesHold
  <2>2. CASE o = "unsynced" /\ mem' = mem
    <3> SUFFICES ASSUME NEW r \in Retained(mem), acked'[r] # "evicted"
                 PROVE  /\ r \in Retained(disk')
                        /\ mem.jobsByRequest[r] # {} => disk'.jobsByRequest[r] # {}
      BY <2>2 DEF RepliesHold
    <3>1. r \notin e.evictedRequests
      BY <2>2 DEF Told
    <3> QED
      BY <1>0, <1>1, <2>2, <3>1, ApplyKeepsCapture
  <2> QED
    BY <1>1, <2>1, <2>2
<1>3. AckedIsDurable'
  <2> SUFFICES ASSUME NEW r \in RequestIds, acked'[r] \in {"capture", "intent"}
               PROVE  /\ r \in Retained(disk')
                      /\ acked'[r] = "intent" => disk'.jobsByRequest[r] # {}
    BY DEF AckedIsDurable
  <2>1. CASE acked'[r] = acked[r] /\ (o = "lost" \/ r \notin e.evictedRequests)
    <3>1. /\ r \in Retained(mem)
          /\ acked'[r] = "intent" => mem.jobsByRequest[r] # {}
      BY <1>1, <2>1 DEF AckedIsDurable
    <3> QED
      BY <1>0, <1>1, <2>1, <3>1, ApplyKeepsCapture
  <2>2. CASE o = "ok" /\ acked'[r] = "capture" /\ e.request # None /\ e.requestID = r
    BY <1>0, <1>1, <2>2, ApplyRecords
  <2>3. CASE o = "ok" /\ acked'[r] = "intent" /\ e.job # None /\ e.job.requestID = r
    BY <1>0, <1>1, <2>3, ApplyRecords
  <2> QED
    BY <2>1, <2>2, <2>3 DEF Told
<1> QED
  BY <1>2, <1>3

\* A duplicate, answered from memory, is told no more than the log keeps.
LEMMA DuplicateReplies ==
  ASSUME StoreInvariant, RepliesHold, AckedIsDurable,
         NEW request \in Request, NEW j \in JobIds \cup {None},
         AcceptDuplicate(request.deliveryID, request.body, j)
  PROVE  RepliesHold' /\ AckedIsDurable'
<1> DEFINE id == DuplicateOf(mem, request.deliveryID, request.body)
<1>1. /\ phase = "up" /\ id # None
      /\ acked' = [acked EXCEPT ![id] = Answered(@, mem.jobsByRequest[id] # {})]
      /\ UNCHANGED <<mem, disk, phase>>
  BY DEF AcceptDuplicate
<1>2. id \in Retained(mem) /\ id \in RequestIds
  BY <1>1 DEF DuplicateOf, StoreInvariant, Indexed, KeysIndexed, Request, Retained
<1> HIDE DEF id
<1>3. acked \in [RequestIds -> {"none", "capture", "intent", "evicted"}]
  BY DEF StoreInvariant, TypeOK
<1>4. \A r \in RequestIds : acked'[r] =
        IF r = id THEN Answered(acked[id], mem.jobsByRequest[id] # {}) ELSE acked[r]
  BY <1>1, <1>2, <1>3
<1>5. /\ acked[id] = "evicted" <=> acked'[id] = "evicted"
      /\ acked'[id] = "intent" => acked[id] = "intent" \/ mem.jobsByRequest[id] # {}
  BY <1>2, <1>3, <1>4 DEF Answered
<1>6. acked[id] = "evicted" \/ (/\ id \in Retained(disk)
                                /\ mem.jobsByRequest[id] # {} => disk.jobsByRequest[id] # {})
  BY <1>1, <1>2 DEF RepliesHold
<1>7. RepliesHold'
  <2>1. \A r \in Retained(mem) : r \in RequestIds
    BY DEF Retained
  <2>2. \A r \in RequestIds : acked[r] = "evicted" => acked'[r] = "evicted"
    BY <1>4, <1>5
  <2> QED
    BY <1>1, <2>1, <2>2 DEF RepliesHold
<1>8. AckedIsDurable'
  <2> SUFFICES ASSUME NEW r \in RequestIds, acked'[r] \in {"capture", "intent"}
               PROVE  /\ r \in Retained(disk)
                      /\ acked'[r] = "intent" => disk.jobsByRequest[r] # {}
    BY <1>1 DEF AckedIsDurable
  <2>1. CASE r = id
    BY <1>5, <1>6, <2>1 DEF AckedIsDurable
  <2>2. CASE r # id
    BY <1>4, <2>2 DEF AckedIsDurable
  <2> QED
    BY <2>1, <2>2
<1> QED
  BY <1>7, <1>8

\* Every step keeps what clients were told true, of memory and of the log.
LEMMA StepReplies ==
  ASSUME StoreInvariant, RepliesHold, AckedIsDurable, MapsStep
  PROVE  RepliesHold' /\ AckedIsDurable'
<1>1. CASE UNCHANGED <<mem, disk, acked>> /\ (phase' = "down" \/ phase # "down")
  BY <1>1 DEF RepliesHold, AckedIsDurable
<1>2. CASE mem' = disk /\ UNCHANGED <<disk, acked>>
  BY <1>2 DEF RepliesHold, AckedIsDurable
<1> QED
  BY <1>1, <1>2, AppendReplies, DuplicateReplies DEF MapsStep

-----------------------------------------------------------------------------
(* Theorems *)

\* Every step keeps the invariant.
LEMMA StepPromises ==
  ASSUME PromiseInvariant, [Next]_vars
  PROVE  PromiseInvariant'
<1>1. MapsStep
  BY StepCases DEF PromiseInvariant, StoreInvariant
<1>2. StoreInvariant'
  BY StepInvariant DEF PromiseInvariant
<1>3. Kept(mem') /\ Kept(disk')
  BY <1>1, StepKept DEF PromiseInvariant
<1>4. NoForeignLease'
  BY <1>1, StepLeases DEF PromiseInvariant
<1>5. RepliesHold' /\ AckedIsDurable'
  BY <1>1, StepReplies DEF PromiseInvariant
<1> QED
  BY <1>2, <1>3, <1>4, <1>5 DEF PromiseInvariant

\* In every behaviour of the store, the whole of PromiseInvariant.
THEOREM PromisesKept == Spec => []PromiseInvariant
<1>1. PromiseInvariant /\ [Next]_vars => PromiseInvariant'
  BY StepPromises
<1> QED
  BY InitPromises, <1>1, PTL DEF Spec

\* The attempts of a job are numbered without gaps up to the bound, are there
\* when its state says so, and go when the job goes (RecordAttempt, removeJob).
THEOREM AttemptsMatch == Spec => []AttemptsMatchStates
<1>1. PromiseInvariant => AttemptsMatchStates
  BY DEF PromiseInvariant, Kept, AttemptsMatchStates
<1> QED
  BY PromisesKept, <1>1, PTL

\* Captures, and jobs per capture, stay within the options of the store
\* (captureEvictionsLocked, Enqueue).
THEOREM RetentionIsBounded == Spec => []RetentionBounds
<1>1. PromiseInvariant => RetentionBounds
  BY DEF PromiseInvariant, Kept, RetentionBounds
<1> QED
  BY PromisesKept, <1>1, PTL

\* Once the workers run in a store they can write to, every lease is one this
\* run has claimed (RecoverLeases).
THEOREM LeasesAreOurs == Spec => []NoForeignLease
<1>1. PromiseInvariant => NoForeignLease
  BY DEF PromiseInvariant
<1> QED
  BY PromisesKept, <1>1, PTL

\* No crash contradicts a reply of ingest: an acknowledged capture is in the log
\* until it is evicted, with its job if one was promised (Accept).
THEOREM RepliesAreDurable == Spec => []AckedIsDurable
<1>1. PromiseInvariant => AckedIsDurable
  BY DEF PromiseInvariant
<1> QED
  BY PromisesKept, <1>1, PTL

-----------------------------------------------------------------------------
(* The log implements JobLifecycle *)

\* What a job's status is by its name on record.
LEMMA StatusValue ==
  ASSUME NEW job
  PROVE  StatusOf(job) = IF job = None THEN "none"
                         ELSE IF job.state = "queued" THEN "pending"
                         ELSE IF job.state = "running" THEN "leased"
                         ELSE job.state
BY DEF StatusOf

\* The jobs an event takes from the maps.
Dropped(S, e) == {k \in JobIds : S.jobs[k] # None /\ Apply(S, e).jobs[k] = None}

\* They are finished, and go with their attempts; every other job the event is
\* not about keeps its status and the number of its attempts.
LEMMA DroppedAreDone ==
  ASSUME NEW S \in Maps, Indexed(S), AttemptsNumbered(S), NEW e, Legal(S, e),
         NEW k \in JobIds
  PROVE  /\ k \in Dropped(S, e) => StatusOf(S.jobs[k]) \in Terminal
         /\ e.job = None \/ k # e.jobID =>
              /\ StatusOf(Apply(S, e).jobs[k]) =
                   IF k \in Dropped(S, e) THEN "none" ELSE StatusOf(S.jobs[k])
              /\ Len(Apply(S, e).attempts[k]) =
                   IF k \in Dropped(S, e) THEN 0 ELSE Len(S.attempts[k])
<1>1. ASSUME k \in Dropped(S, e)
      PROVE  StatusOf(S.jobs[k]) \in Terminal
  <2>1. k \in Present(S) /\ k \notin Present(Apply(S, e))
    BY <1>1 DEF Dropped, Present
  <2>2. S.jobs[k].state \in Terminal
    BY <2>1, ApplyKeepsUnfinished DEF IsTerminal
  <2>3. S.jobs[k] # None
    BY <1>1 DEF Dropped
  <2> QED
    BY <2>2, <2>3, StatusValue DEF Terminal
<1>2. ASSUME e.job = None \/ k # e.jobID
      PROVE  /\ StatusOf(Apply(S, e).jobs[k]) =
                  IF k \in Dropped(S, e) THEN "none" ELSE StatusOf(S.jobs[k])
             /\ Len(Apply(S, e).attempts[k]) =
                  IF k \in Dropped(S, e) THEN 0 ELSE Len(S.attempts[k])
  <2>1. S.jobs[k] = None => S.attempts[k] = <<>>
    BY DEF AttemptsNumbered
  <2>2. Len(<<>>) = 0
    OBVIOUS
  <2>3. CASE Apply(S, e).jobs[k] = None /\ Apply(S, e).attempts[k] = <<>>
    <3>1. StatusOf(Apply(S, e).jobs[k]) = "none" /\ Len(Apply(S, e).attempts[k]) = 0
      BY <2>2, <2>3, StatusValue
    <3>2. S.jobs[k] = None => StatusOf(S.jobs[k]) = "none" /\ Len(S.attempts[k]) = 0
      BY <2>1, <2>2, StatusValue
    <3> QED
      BY <2>3, <3>1, <3>2 DEF Dropped
  <2>4. CASE /\ Apply(S, e).jobs[k] = S.jobs[k]
             /\ Apply(S, e).attempts[k] = S.attempts[k]
    BY <2>4 DEF Dropped
  <2> QED
    BY <1>2, <2>3, <2>4, OtherJob
<1> QED
  BY <1>1, <1>2

\* An event that updates a job touches no other job and no attempt of another.
LEMMA UpdatesOneJob ==
  ASSUME NEW S \in Maps, NEW e, Legal(S, e), Updates(S, e), NEW k \in JobIds
  PROVE  /\ Apply(S, e).jobs[k] = IF k = e.jobID THEN e.job ELSE S.jobs[k]
         /\ Apply(S, e).attempts[k] =
              IF e.attempt # 0 /\ k = e.jobID THEN Append(S.attempts[k], e.attempt)
              ELSE S.attempts[k]
<1>1. e \in Event /\ e.job # None /\ e.evictedJobs = {} /\ e.evictedRequests = {}
  BY DEF Updates, Legal
<1> QED
  BY <1>1, NothingEvicted, ApplyFields, ApplyAttempts

\* A capture, or a new job for one, is a step that creates the job and drops
\* finished ones, or only drops some.
LEMMA CreatesInLifecycle ==
  ASSUME disk \in Maps, Indexed(disk), AttemptsNumbered(disk),
         NEW e, Legal(disk, e), Captures(disk, e) \/ Creates(disk, e),
         disk' = Apply(disk, e)
  PROVE  Lifecycle!Next
<1>1. PICK D \in SUBSET JobIds : D = Dropped(disk, e)
  BY DEF Dropped
<1>2. \A k \in JobIds :
        /\ k \in D => StatusOf(disk.jobs[k]) \in Terminal
        /\ e.job = None \/ k # e.jobID =>
             /\ StatusOf(disk'.jobs[k]) = IF k \in D THEN "none" ELSE StatusOf(disk.jobs[k])
             /\ Len(disk'.attempts[k]) = IF k \in D THEN 0 ELSE Len(disk.attempts[k])
  BY <1>1, DroppedAreDone
<1>3. CASE e.job = None
  <2>1. /\ \A k \in D : StatusOf(disk.jobs[k]) \in Terminal
        /\ \A k \in JobIds :
             /\ StatusOf(disk'.jobs[k]) = IF k \in D THEN "none" ELSE StatusOf(disk.jobs[k])
             /\ Len(disk'.attempts[k]) = IF k \in D THEN 0 ELSE Len(disk.attempts[k])
    BY <1>2, <1>1, <1>3
  <2>2. Lifecycle!Drop(D)
    BY <1>1, <2>1 DEF Lifecycle!Drop, Lifecycle!Done, Terminal
  <2> QED
    BY <1>1, <2>2 DEF Lifecycle!Next
<1>4. CASE e.job # None
  <2> DEFINE j == e.jobID
  <2>1. /\ j \in JobIds /\ disk.jobs[j] = None /\ e.job.state = "pending"
        /\ e.attempt = 0 /\ e \in Event
    BY <1>4 DEF Captures, Creates, Legal
  <2>2. StatusOf(disk.jobs[j]) = "none" /\ j \notin D
    BY <1>1, <2>1, StatusValue DEF Dropped
  <2>3. StatusOf(disk'.jobs[j]) = "pending"
    BY <1>4, <2>1, ApplyFields, StatusValue
  <2>4. disk'.attempts[j] = <<>> /\ disk.attempts[j] = <<>>
    <3>1. disk.attempts[j] = <<>>
      BY <2>1 DEF AttemptsNumbered
    <3>2. disk'.attempts[j] = Evicted(disk, e).attempts[j]
      BY <2>1, ApplyAttempts
    <3> QED
      BY <2>1, <3>1, <3>2, EvictedJob
  <2> HIDE DEF j
  <2>5. /\ \A k \in D : StatusOf(disk.jobs[k]) \in Terminal
        /\ \A k \in JobIds :
             /\ StatusOf(disk'.jobs[k]) = IF k \in D THEN "none"
                                          ELSE IF k = j THEN "pending"
                                          ELSE StatusOf(disk.jobs[k])
             /\ Len(disk'.attempts[k]) = IF k \in D THEN 0 ELSE Len(disk.attempts[k])
    BY <1>2, <1>1, <2>2, <2>3, <2>4 DEF j
  <2>6. Lifecycle!Create(j, D)
    BY <1>1, <2>1, <2>2, <2>5 DEF Lifecycle!Create, Lifecycle!Done, Terminal, j
  <2> QED
    BY <1>1, <2>1, <2>6 DEF Lifecycle!Next, j
<1> QED
  BY <1>3, <1>4

\* A claim, a result, the end without an attempt and the recovery of a lease
\* are the steps of the same job in the life cycle.
LEMMA UpdatesInLifecycle ==
  ASSUME disk \in Maps, AttemptsNumbered(disk),
         NEW e, Legal(disk, e), Updates(disk, e), disk' = Apply(disk, e)
  PROVE  Lifecycle!Next
<1> DEFINE j == e.jobID
           before == disk.jobs[j].state
           after == e.job.state
<1>1. /\ j \in JobIds /\ disk.jobs[j] # None /\ e.job # None /\ disk.jobs[j] \in Job
      /\ e \in Event
  BY Records DEF Updates, Legal, Present
<1>2. \A k \in JobIds :
        /\ disk'.jobs[k] = IF k = j THEN e.job ELSE disk.jobs[k]
        /\ disk'.attempts[k] =
             IF e.attempt # 0 /\ k = j THEN Append(disk.attempts[k], e.attempt)
             ELSE disk.attempts[k]
  BY UpdatesOneJob
<1>3. /\ StatusOf(disk.jobs[j]) = IF before = "queued" THEN "pending"
                                  ELSE IF before = "running" THEN "leased" ELSE before
      /\ StatusOf(disk'.jobs[j]) = IF after = "queued" THEN "pending"
                                   ELSE IF after = "running" THEN "leased" ELSE after
  BY <1>1, <1>2, StatusValue
<1>4. before \in JobStates
  BY <1>1 DEF Job
<1>5. \/ e.attempt = 0 /\ before \notin Terminal /\ after = "leased"
      \/ /\ e.attempt # 0 /\ e.attempt <= MaxAttemptsPerJob
         /\ ExpectedAttempt(disk, j, e.attempt)
         /\ before = "leased" /\ after \in AttemptResults
      \/ e.attempt = 0 /\ before = "leased" /\ after = "poison"
      \/ e.attempt = 0 /\ before \in {"leased", "running"} /\ after = "pending"
  BY DEF Updates
<1> HIDE DEF j, before, after
<1>6. \A k \in JobIds \ {j} : StatusOf(disk'.jobs[k]) = StatusOf(disk.jobs[k])
  BY <1>2
<1>7. \A k \in JobIds : e.attempt = 0 \/ k # j => disk'.attempts[k] = disk.attempts[k]
  BY <1>2
<1>8. CASE e.attempt = 0 /\ before \notin Terminal /\ after = "leased"
  <2>1. /\ StatusOf(disk.jobs[j]) \in {"pending", "retrying", "leased"}
        /\ StatusOf(disk'.jobs[j]) = "leased"
    BY <1>3, <1>4, <1>8 DEF JobStates, Terminal
  <2>2. Lifecycle!Claim(j)
    BY <1>1, <1>6, <1>7, <1>8, <2>1 DEF Lifecycle!Claim, j
  <2> QED
    BY <1>1, <2>2 DEF Lifecycle!Next, j
<1>9. CASE /\ e.attempt # 0 /\ e.attempt <= MaxAttemptsPerJob
           /\ ExpectedAttempt(disk, j, e.attempt)
           /\ before = "leased" /\ after \in AttemptResults
  <2>1. StatusOf(disk.jobs[j]) = "leased" /\ StatusOf(disk'.jobs[j]) = after
    BY <1>3, <1>9 DEF AttemptResults
  <2>2. e.attempt \in Nat \ {0}
    BY <1>1, <1>9 DEF Event
  <2>3. \A i \in DOMAIN disk.attempts[j] : disk.attempts[j][i] = i
    BY <1>1 DEF AttemptsNumbered, j
  <2>4. e.attempt = Len(disk.attempts[j]) + 1
    BY <1>1, <1>9, <2>2, <2>3, NextNumber DEF j
  <2>5. disk.attempts[j] \in Seq(Nat)
    BY <1>1 DEF Maps, j
  <2>6. disk'.attempts[j] = Append(disk.attempts[j], e.attempt)
    BY <1>1, <1>2, <1>9 DEF j
  <2>7. /\ Len(disk'.attempts[j]) = Len(disk.attempts[j]) + 1
        /\ Len(disk.attempts[j]) < MaxAttemptsPerJob
    BY <1>9, <2>2, <2>4, <2>5, <2>6, StoreConstants
  <2>8. Lifecycle!Attempt(j, after)
    BY <1>1, <1>6, <1>7, <2>1, <2>7 DEF Lifecycle!Attempt, j
  <2> QED
    BY <1>1, <1>9, <2>8 DEF Lifecycle!Next, AttemptResults, j
<1>10. CASE e.attempt = 0 /\ before = "leased" /\ after = "poison"
  <2>1. StatusOf(disk.jobs[j]) = "leased" /\ StatusOf(disk'.jobs[j]) = "poison"
    BY <1>3, <1>10
  <2>2. Lifecycle!GiveUp(j)
    BY <1>1, <1>6, <1>7, <1>10, <2>1 DEF Lifecycle!GiveUp, j
  <2> QED
    BY <1>1, <2>2 DEF Lifecycle!Next, j
<1>11. CASE e.attempt = 0 /\ before \in {"leased", "running"} /\ after = "pending"
  <2>1. StatusOf(disk.jobs[j]) = "leased" /\ StatusOf(disk'.jobs[j]) = "pending"
    BY <1>3, <1>11
  <2>2. Lifecycle!Recover({j})
    BY <1>1, <1>6, <1>7, <1>11, <2>1 DEF Lifecycle!Recover, j
  <2>3. {j} \in SUBSET JobIds
    BY <1>1 DEF j
  <2> QED
    BY <2>2, <2>3 DEF Lifecycle!Next
<1> QED
  BY <1>5, <1>8, <1>9, <1>10, <1>11

\* The first log is a first state of the life cycle.
LEMMA InitInLifecycle ==
  ASSUME Init
  PROVE  Lifecycle!Init
<1>1. \A k \in JobIds : /\ disk.jobs[k] # None => disk.jobs[k].state \in LegacyStates
                        /\ disk.attempts[k] = <<>>
  BY FirstLog DEF Init
<1>2. \A k \in JobIds : StatusOf(disk.jobs[k]) \in {"none", "pending", "leased", "failed"}
  BY <1>1, StatusValue DEF LegacyStates
<1>3. Len(<<>>) = 0
  OBVIOUS
<1>4. \A k \in JobIds : Len(disk.attempts[k]) = 0
  BY <1>1, <1>3
<1> QED
  BY <1>2, <1>4 DEF Lifecycle!Init

\* Whatever goes on in memory, through failed appends, crashes and restarts, the
\* log takes steps of JobLifecycle for all jobs together, or none.
THEOREM LogFollowsLifecycle == Spec => FollowsLifecycle
<1>1. ASSUME PromiseInvariant, [Next]_vars
      PROVE  [Lifecycle!Next]_(Lifecycle!vars)
  <2>1. MapsStep
    BY <1>1, StepCases DEF PromiseInvariant, StoreInvariant
  <2>2. CASE UNCHANGED disk
    BY <2>2 DEF Lifecycle!vars
  <2>3. ASSUME phase # "down", NEW e, Legal(mem, e), Purpose(e),
               NEW o \in Outcomes, AppendLocked(e, o)
        PROVE  [Lifecycle!Next]_(Lifecycle!vars)
    <3>1. mem = disk /\ (disk' = disk \/ disk' = Apply(mem, e))
      BY <1>1, <2>3, AppendOutcome DEF PromiseInvariant, Outcomes
    <3>2. disk \in Maps /\ Indexed(disk) /\ AttemptsNumbered(disk)
      BY <1>1 DEF PromiseInvariant, StoreInvariant, TypeOK, Kept
    <3>3. CASE disk' = Apply(disk, e)
      <4>1. CASE Captures(disk, e) \/ Creates(disk, e)
        BY <2>3, <3>1, <3>2, <3>3, <4>1, CreatesInLifecycle
      <4>2. CASE Updates(disk, e)
        BY <2>3, <3>1, <3>2, <3>3, <4>2, UpdatesInLifecycle
      <4> QED
        BY <2>3, <3>1, <4>1, <4>2 DEF Purpose
    <3> QED
      BY <2>2, <3>1, <3>3
  <2> QED
    BY <2>1, <2>2, <2>3 DEF MapsStep
<1> QED
  BY <1>1, InitInLifecycle, PromisesKept, PTL DEF Spec, FollowsLifecycle, Lifecycle!Spec

=============================================================================
