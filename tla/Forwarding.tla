------------------------------ MODULE Forwarding ------------------------------
(***************************************************************************)
(* The forwarding side of internal/app: the handlers that accept work, the *)
(* fixed workers that claim, send and record, the wake-up channel, leases, *)
(* shutdown, crashes and restarts.                                         *)
(*                                                                         *)
(* Store methods are single steps here (RelayStore looks inside them); what*)
(* matters is everything a worker does between two of them without holding *)
(* a lock.  A job is reduced to what the workers decide on.  Time is only  *)
(* "due": the lease of a leased job, or the back-off of a retrying one, is *)
(* over.  A lease that runs out under a worker still at it is a stall: the *)
(* process was suspended, or the disk was slower than LeaseDuration.       *)
(***************************************************************************)
EXTENDS Naturals, FiniteSets

CONSTANTS
  Jobs, Workers,
  NoOne,        \* no owner, no job
  QueueSize,    \* Config.QueueSize, the capacity of wake
  Limits,       \* values -attempts may have in the runs of the process
  MaxRuns,      \* BOUND on the runs of the process
  MaxStalls     \* BOUND on leases that expire under a live worker

\* -attempts is at most 10, -concurrency a number of goroutines.
ASSUME ForwardingConstants ==
  /\ QueueSize \in Nat \ {0} /\ MaxRuns \in Nat \ {0} /\ MaxStalls \in Nat
  /\ Limits \subseteq Nat \ {0} /\ \E l \in Limits : \A k \in Limits : k <= l
  /\ IsFiniteSet(Workers) /\ NoOne \notin Jobs \cup Workers

Done == {"succeeded", "fatal", "dead-letter", "poison"}
States == {"none", "pending", "leased", "retrying"} \cup Done
\* fresh: AvailableAt is zero, which sorts before any other time
Job == [state: States, owner: Workers \cup {NoOne}, tries: Nat, fresh: BOOLEAN]
NoJob == [state |-> "none", owner |-> NoOne, tries |-> 0, fresh |-> TRUE]

VARIABLES
  job,        \* the jobs in memory
  log,        \* the jobs recovery would find
  health,     \* Store.health
  due,        \* jobs whose lease or back-off is over
  reading,    \* jobs whose handler was let in and is still reading the body
  worker,     \* per worker: pc, and the locals job, n and answer of forward
  wake,       \* hints in App.wake
  proc,       \* the process: see Process below
  limit,      \* -attempts of this run (Config.Attempts and MaxAttemptsPerJob)
  runs, stalls,       \* counted against their bounds
  sends,      \* history: requests sent for a job
  clean       \* history: ShutdownServer has met no error

store == <<job, log, health>>
app == <<reading, worker, wake, due>>
process == <<proc, limit, runs, clean>>
history == <<stalls, sends>>
vars == <<store, app, process, history>>

Answers == {"success", "refused", "retryable"}
Idle == [pc |-> "wait", job |-> NoOne, n |-> 0, answer |-> "retryable"]
Alive == proc \in {"up", "draining", "waiting", "cancelled"}
Cancelled == proc = "cancelled"          \* App.ctx is done

-----------------------------------------------------------------------------
(* What appendLocked does with a new value of one job; see RelayStore *)

Outcomes == {"ok", "lost", "unsynced", "compact"}

Write(j, new, o) ==
  /\ health = "ok"
  /\ job' = IF o \in {"ok", "compact"} THEN [job EXCEPT ![j] = new] ELSE job
  /\ log' = IF o = "lost" THEN log ELSE [log EXCEPT ![j] = new]
  /\ health' = IF o = "ok" THEN "ok" ELSE "poisoned"

\* Variant: a channel without a bound
HintAlways(w) == w + 1

\* signalWork: a hint is dropped when the channel is full
Hint(w) == IF w < QueueSize THEN w + 1 ELSE w

-----------------------------------------------------------------------------
(* ingest and replay: each job is brought by one handler *)

\* Only ingest looks at App.accepting: a replay is let in until http.Server.Shutdown
\* has seen the last connection end, or given up.
Begin(j) ==
  /\ proc \in {"up", "draining"} \/ (proc = "waiting" /\ ~ clean)
  /\ j \notin reading /\ log[j].state = "none"
  /\ reading' = reading \cup {j}
  /\ UNCHANGED <<store, worker, wake, due, process, history>>

\* Accept or Enqueue, signalWork, and the reply
Accept(j, o) ==
  /\ Alive
  /\ j \in reading
  /\ reading' = reading \ {j}
  /\ \/ /\ Write(j, [NoJob EXCEPT !.state = "pending"], o)
        /\ wake' = IF o = "ok" THEN Hint(wake) ELSE wake
     \/ /\ health = "poisoned"
        /\ UNCHANGED <<store, wake>>
  /\ UNCHANGED <<worker, due, process, history>>

-----------------------------------------------------------------------------
(* worker and forward *)

Goto(w, pc) == worker' = [worker EXCEPT ![w].pc = pc]

\* forward returns
Return(w) == worker' = [worker EXCEPT ![w] = [Idle EXCEPT !.pc = "check"]]

\* The select of worker: a hint, the ticker or the context, whichever is
\* ready, in no order.  The ticker may always have fired.
TakeHint(w) ==
  /\ worker[w].pc = "wait" /\ wake > 0
  /\ wake' = wake - 1
  /\ Goto(w, "claim")
  /\ UNCHANGED <<store, reading, due, process, history>>

\* Variant: work is only ever found by a hint
TickByHint(w) ==
  /\ worker[w].pc = "wait" /\ wake > 0
  /\ Goto(w, "claim")
  /\ UNCHANGED <<store, reading, wake, due, process, history>>

Tick(w) ==
  /\ worker[w].pc = "wait"
  /\ Goto(w, "claim")
  /\ UNCHANGED <<store, reading, wake, due, process, history>>

Leave(w) ==
  /\ worker[w].pc = "wait" /\ Cancelled
  /\ Goto(w, "exited")
  /\ UNCHANGED <<store, reading, wake, due, process, history>>

\* Variant: a lease is not looked at, so a claim may take work in hand
EligibleLeased(j) ==
  \/ job[j].state \in {"pending", "leased"}
  \/ job[j].state = "retrying" /\ j \in due

Eligible(j) == \/ job[j].state = "pending"
               \/ job[j].state \in {"retrying", "leased"} /\ j \in due

\* ClaimNextJob; the order among jobs of equal freshness is left open
Claim(w, j, o) ==
  /\ worker[w].pc = "claim"
  /\ Eligible(j)
  /\ job[j].fresh \/ \A k \in Jobs : Eligible(k) => ~ job[k].fresh
  /\ Write(j, [job[j] EXCEPT !.state = "leased", !.owner = w], o)
  /\ due' = due \ {j}
  /\ worker' = [worker EXCEPT ![w] =
                  IF o = "ok" THEN [Idle EXCEPT !.pc = "load", !.job = j] ELSE Idle]
  /\ wake' = IF o = "ok" THEN Hint(wake) ELSE wake
  /\ UNCHANGED <<reading, process, history>>

ClaimNothing(w) ==
  /\ worker[w].pc = "claim"
  /\ health = "poisoned" \/ \A j \in Jobs : ~ Eligible(j)
  /\ Goto(w, "wait")
  /\ UNCHANGED <<store, reading, wake, due, process, history>>

\* Load and AttemptsForJob; n is stale as soon as the lock is released
Load(w) ==
  /\ worker[w].pc = "load"
  /\ worker' = [worker EXCEPT ![w].pc = "send", ![w].n = job[worker[w].job].tries + 1]
  /\ UNCHANGED <<store, reading, wake, due, process, history>>

\* Load cannot read its record back: the store is poisoned
LoadFails(w) ==
  /\ worker[w].pc = "load"
  /\ Return(w)
  /\ health' = "poisoned"
  /\ UNCHANGED <<job, log, reading, wake, due, process, history>>

\* Variant: any worker may report on any job
HoldsAny(w, j) == job[j].state # "none"

HoldsLease(w, j) == job[j].state = "leased" /\ job[j].owner = w

\* IDSource fails: FinishWithoutAttempt
GiveUp(w, o) ==
  LET j == worker[w].job
  IN /\ worker[w].pc = "load"
     /\ Return(w)
     /\ IF HoldsLease(w, j) /\ health = "ok"
          THEN Write(j, [job[j] EXCEPT !.state = "poison", !.owner = NoOne], o)
          ELSE o = "ok" /\ UNCHANGED store
     /\ UNCHANGED <<reading, wake, due, process, history>>

\* Client.Do: on a live context the request leaves ...
Send(w) ==
  /\ worker[w].pc = "send" /\ ~ Cancelled
  /\ sends' = [sends EXCEPT ![worker[w].job] = @ + 1]
  /\ Goto(w, "answer")
  /\ UNCHANGED <<store, reading, wake, due, process, stalls>>

\* ... on a done one it does not, which forward takes for a transport failure
SendCancelled(w) ==
  /\ worker[w].pc = "send" /\ Cancelled
  /\ worker' = [worker EXCEPT ![w].pc = "record", ![w].answer = "retryable"]
  /\ UNCHANGED <<store, reading, wake, due, process, history>>

\* A response, or the client's timeout, or the context's end
Answer(w, a) ==
  /\ worker[w].pc = "answer"
  /\ worker' = [worker EXCEPT ![w].pc = "record", ![w].answer = a]
  /\ UNCHANGED <<store, reading, wake, due, process, history>>

\* Variant: off by one, one attempt too many
ResultLate(a, n) == CASE a = "success" -> "succeeded"
                      [] a = "refused" -> "fatal"
                      [] a = "retryable" -> IF n > limit THEN "dead-letter" ELSE "retrying"

\* The switch of forward on answer and attempt number
Result(a, n) == CASE a = "success" -> "succeeded"
                  [] a = "refused" -> "fatal"
                  [] a = "retryable" -> IF n >= limit THEN "dead-letter" ELSE "retrying"

\* The guards of RecordAttempt
MayRecord(w, j, n) == HoldsLease(w, j) /\ n <= limit /\ n = job[j].tries + 1

Record(w, o) ==
  LET j == worker[w].job
      n == worker[w].n
      result == Result(worker[w].answer, n)
  IN /\ worker[w].pc = "record"
     /\ Return(w)
     /\ IF MayRecord(w, j, n) /\ health = "ok"
          THEN /\ Write(j, [state |-> result, owner |-> NoOne, tries |-> n,
                            fresh |-> result # "retrying"], o)
               /\ due' = IF o = "lost" THEN due ELSE due \ {j}
               /\ wake' = IF o = "ok" /\ result = "retrying" THEN Hint(wake) ELSE wake
          ELSE o = "ok" /\ UNCHANGED <<store, due, wake>>
     /\ UNCHANGED <<reading, process, history>>

\* The test of a.ctx after forward
Check(w) ==
  /\ worker[w].pc = "check"
  /\ worker' = [worker EXCEPT ![w] = IF Cancelled THEN [Idle EXCEPT !.pc = "exited"]
                                     ELSE [Idle EXCEPT !.pc = "claim"]]
  /\ UNCHANGED <<store, reading, wake, due, process, history>>

Worker(w) ==
  /\ Alive
  /\ \/ TakeHint(w) \/ Tick(w) \/ Leave(w) \/ ClaimNothing(w) \/ Load(w) \/ LoadFails(w)
     \/ Send(w) \/ SendCancelled(w) \/ Check(w)
     \/ \E a \in Answers : Answer(w, a)
     \/ \E o \in Outcomes : \/ GiveUp(w, o) \/ Record(w, o)
                            \/ \E j \in Jobs : Claim(w, j, o)

-----------------------------------------------------------------------------
(* Time *)

\* Someone is between the claim of j and its record.
InHand(j) == \E w \in Workers : worker[w].job = j

BackoffOver(j) ==
  /\ job[j].state = "retrying" /\ j \notin due
  /\ due' = due \cup {j}
  /\ UNCHANGED <<store, reading, worker, wake, process, history>>

LeaseOver(j) ==
  /\ job[j].state = "leased" /\ j \notin due
  /\ ~ InHand(j)
  /\ due' = due \cup {j}
  /\ UNCHANGED <<store, reading, worker, wake, process, history>>

Stall(j) ==
  /\ job[j].state = "leased" /\ j \notin due
  /\ InHand(j) /\ stalls < MaxStalls
  /\ stalls' = stalls + 1
  /\ due' = due \cup {j}
  /\ UNCHANGED <<store, reading, worker, wake, process, sends>>

-----------------------------------------------------------------------------
(* Process: "up" until a signal; "draining", ShutdownServer waits for the   *)
(* handlers; "waiting", App.Wait; "cancelled", the workers are to exit;     *)
(* "stopped", main has returned; "down", it crashed.                       *)

Terminate ==
  /\ proc = "up"
  /\ proc' = "draining"
  /\ UNCHANGED <<store, app, limit, runs, clean, history>>

\* Variant: App.Shutdown does not wait for the server's
DrainedAtOnce ==
  /\ proc = "draining"
  /\ proc' = "waiting" /\ clean' = TRUE
  /\ UNCHANGED <<store, app, limit, runs, history>>

\* http.Server.Shutdown returns: no handler is active, or the deadline is over
Drained ==
  /\ proc = "draining"
  /\ \/ reading = {} /\ clean' = TRUE
     \/ clean' = FALSE
  /\ proc' = "waiting"
  /\ UNCHANGED <<store, app, limit, runs, history>>

\* App.Wait: UnfinishedJobs is empty
WorkDone ==
  /\ proc = "waiting"
  /\ \A j \in Jobs : job[j].state \in Done \cup {"none"}
  /\ proc' = "cancelled"
  /\ UNCHANGED <<store, app, limit, runs, clean, history>>

\* Variant: the shutdown waits for the work whatever its context says
CancelAtEnd ==
  /\ proc = "waiting"
  /\ \A j \in Jobs : job[j].state \in Done \cup {"none"}
  /\ proc' = "cancelled" /\ clean' = FALSE
  /\ UNCHANGED <<store, app, limit, runs, history>>

\* The deadline is over: ctx.Done
Cancel ==
  /\ proc = "waiting"
  /\ proc' = "cancelled" /\ clean' = FALSE
  /\ UNCHANGED <<store, app, limit, runs, history>>

\* wg.Wait, Close
Exit ==
  /\ proc = "cancelled"
  /\ \A w \in Workers : worker[w].pc = "exited"
  /\ proc' = "stopped"
  /\ UNCHANGED <<store, app, limit, runs, clean, history>>

\* What was in memory is gone.
Crash ==
  /\ Alive /\ runs < MaxRuns
  /\ proc' = "down"
  /\ job' = log /\ due' = {} /\ reading' = {} /\ wake' = 0 /\ clean' = FALSE
  /\ worker' = [w \in Workers |-> Idle]
  /\ UNCHANGED <<log, health, limit, runs, history>>

\* Variant: a job whose lease was taken back starts all over
RecoveredAfresh(J) == [j \in Jobs |->
  IF j \in J THEN [NoJob EXCEPT !.state = "pending"] ELSE log[j]]

Recovered(J) == [j \in Jobs |->
  IF j \in J THEN [log[j] EXCEPT !.state = "pending", !.owner = NoOne, !.fresh = FALSE]
             ELSE log[j]]

\* OpenWithOptions and New.  RecoverLeases gets through the jobs R, one append
\* each, and stops at one that fails (L: what of it is on record); or the store
\* is poisoned before it starts (RedactHeaders).  New serves all the same.
Restart(R, L, l) ==
  LET stale == {j \in Jobs : log[j].state = "leased"}
  IN /\ proc \in {"down", "stopped"} /\ runs < MaxRuns
     /\ R \subseteq L /\ L \subseteq stale /\ Cardinality(L \ R) <= 1
     /\ \/ R = stale /\ health' = "ok"
        \/ health' = "poisoned"
     /\ job' = Recovered(R) /\ log' = Recovered(L)
     /\ due' = {} /\ reading' = {} /\ wake' = 1
     /\ worker' = [w \in Workers |-> Idle]
     /\ proc' = "up" /\ limit' = l /\ runs' = runs + 1
     /\ clean' = FALSE
     /\ UNCHANGED history

SomeRestart == \E R, L \in SUBSET Jobs, l \in Limits : Restart(R, L, l)

Process == \/ Terminate \/ Drained \/ WorkDone \/ Cancel \/ Exit \/ Crash
           \/ SomeRestart

-----------------------------------------------------------------------------
Init ==
  /\ job = [j \in Jobs |-> NoJob] /\ log = job /\ health = "ok" /\ due = {}
  /\ reading = {}
  /\ worker = [w \in Workers |-> Idle] /\ wake = 1
  /\ proc = "up" /\ limit \in Limits /\ runs = 1
  /\ stalls = 0 /\ sends = [j \in Jobs |-> 0] /\ clean = FALSE

Next ==
  \/ \E j \in Jobs : \/ Begin(j) \/ BackoffOver(j) \/ LeaseOver(j) \/ Stall(j)
                     \/ \E o \in Outcomes : Accept(j, o)
  \/ \E w \in Workers : Worker(w)
  \/ Process

\* Goroutines are scheduled and timers fire; a select takes each of its ready
\* cases with equal chance, so the context's end is not passed over for ever;
\* Client.Do ends (Client.Timeout);
\* a crashed process is restarted (compose.yml, restart: unless-stopped).
\* Nobody has to send requests, signals or failures, and SSE clients may keep
\* http.Server.Shutdown waiting until the deadline.
Fairness ==
  /\ \A w \in Workers : WF_vars(Worker(w)) /\ SF_vars(Leave(w))
  /\ \A j \in Jobs : WF_vars(BackoffOver(j)) /\ WF_vars(LeaseOver(j))
  /\ WF_vars(Drained) /\ WF_vars(Exit)
  /\ WF_vars(WorkDone) /\ WF_vars(Cancel)
  /\ WF_vars(proc = "down" /\ SomeRestart)

Spec == Init /\ [][Next]_vars

FairSpec == Spec /\ Fairness

-----------------------------------------------------------------------------
(* Correctness *)

\* Jobs, workers and process have their types; App.wake never holds more than
\* QueueSize hints (signalWork).
TypeOK ==
  /\ job \in [Jobs -> Job] /\ log \in [Jobs -> Job]
  /\ health \in {"ok", "poisoned"} /\ due \subseteq Jobs
  /\ reading \subseteq Jobs
  /\ worker \in [Workers ->
       [pc: {"wait", "claim", "load", "send", "answer", "record", "check", "exited"},
        job: Jobs \cup {NoOne}, n: Nat, answer: Answers]]
  /\ wake \in 0 .. QueueSize
  /\ proc \in {"up", "draining", "waiting", "cancelled", "stopped", "down"}
  /\ clean \in BOOLEAN /\ limit \in Limits
  /\ runs \in 1 .. MaxRuns /\ stalls \in 0 .. MaxStalls /\ sends \in [Jobs -> Nat]

\* As long as no lease ran out under a live worker, every worker between its
\* claim and its record holds the lease and will record the next attempt: no
\* two work on one job, and nothing sent is refused (ClaimNextJob, HoldsLease).
WorkIsOwned ==
  Alive /\ stalls = 0 =>
    \A w \in Workers : worker[w].pc \in {"load", "send", "answer", "record"} =>
      /\ HoldsLease(w, worker[w].job)
      /\ worker[w].pc # "load" => worker[w].n = job[worker[w].job].tries + 1

HighestLimit == CHOOSE l \in Limits : \A k \in Limits : k <= l

\* docs/operations.md: "-attempts ... bound delivery attempts".  A job is sent
\* at most that often, and once more for each restart and each stall.
SendsBounded ==
  \A j \in Jobs : sends[j] <= HighestLimit + (runs - 1) + stalls

\* README: "Delivery is at least once".  Only a job that was sent is given up.
DeadLetterWasSent == \A j \in Jobs : log[j].state = "dead-letter" => sends[j] > 0

\* A shutdown that reports no error has left nothing unfinished behind: no
\* handler slips a job in after Wait has looked (ShutdownServer, Wait).  Only
\* an append that failed, which nobody was told of, may still turn up later.
CleanStopLeavesNothing ==
  clean /\ proc \in {"cancelled", "stopped"} =>
    \A j \in Jobs : \/ log[j].state \in Done \cup {"none"}
                    \/ health = "poisoned" /\ job[j].state = "none"

\* The log follows the state machine of docs/architecture.md.
Lifecycle == INSTANCE JobLifecycle WITH
  MaxTries <- HighestLimit,
  status <- [j \in Jobs |-> log[j].state],
  tries <- [j \in Jobs |-> log[j].tries]

FollowsLifecycle == Lifecycle!Spec

\* Work on record is finished, whatever hints were dropped, leases orphaned or
\* processes crashed, unless the store is poisoned or the process told to stop
\* (worker's ticker, ClaimNextJob, RecoverLeases).
WorkIsFinished ==
  \A j \in Jobs : log[j].state \in {"pending", "leased", "retrying"} ~>
                    \/ log[j].state \in Done
                    \/ health = "poisoned" \/ proc \notin {"up", "down"}

\* A signal ends the process, whatever the destination, the handlers and the
\* store do (Shutdown's deadline, the cancelled context, worker's returns).
ShutdownEnds == proc = "draining" ~> proc \in {"stopped", "down"}

=============================================================================
