--------------------------- MODULE ForwardingProofs ---------------------------
(***************************************************************************)
(* Theorems about Forwarding, for every value of its constants: who works  *)
(* on what, what a clean shutdown leaves, the job's life cycle, and, for a *)
(* service that is always started with the same -attempts, how often a job *)
(* is sent.                                                                *)
(*                                                                         *)
(* A worker's step is one of three: it moves on by itself (MoveKeeps), it  *)
(* writes a job through the store (WriteLog), or it does both.             *)
(***************************************************************************)
EXTENDS Forwarding, FiniteSetTheorems, TLAPS

\* A worker between the claim of a job and its record.
Busy == {"load", "send", "answer", "record"}

WorkerState ==
  [pc: {"wait", "claim", "load", "send", "answer", "record", "check", "exited"},
   job: Jobs \cup {NoOne}, n: Nat, answer: Answers]

\* A healthy store is in step with its log; a poisoned one is behind it by one
\* write, which is of an unfinished job and takes none from the log.
LogAhead ==
  /\ health = "ok" => job = log
  /\ \A j \in Jobs : /\ log[j].state = "none" => job[j].state = "none"
                     /\ job[j].state \in Done => log[j] = job[j]

\* A handler that still reads is the one that will bring its job.
HandlersBring == \A j \in reading : log[j].state = "none"

\* A worker has a job exactly between its claim and its record.
AtWork == \A w \in Workers : worker[w].job \in Jobs <=> worker[w].pc \in Busy

\* WorkIsOwned, and why it lasts: the lease of work in hand is not over, so no
\* claim can take it.
Owned ==
  Alive /\ stalls = 0 =>
    \A w \in Workers : worker[w].pc \in Busy =>
      /\ HoldsLease(w, worker[w].job)
      /\ worker[w].job \notin due
      /\ worker[w].pc # "load" => worker[w].n = job[worker[w].job].tries + 1

\* A shutdown without an error has seen the handlers go, and then the work.
CleanStop ==
  clean => /\ proc \in {"waiting", "cancelled", "stopped"} /\ reading = {}
           /\ proc # "waiting" => \A j \in Jobs : job[j].state \in Done \cup {"none"}

ForwardingInvariant ==
  TypeOK /\ LogAhead /\ HandlersBring /\ AtWork /\ Owned /\ CleanStop

-----------------------------------------------------------------------------
(* Types *)

\* The values jobs and workers start from have their types.
LEMMA StartTypes ==
  /\ NoJob \in Job /\ NoJob.state = "none" /\ NoJob.tries = 0
  /\ [NoJob EXCEPT !.state = "pending"] \in Job
  /\ [NoJob EXCEPT !.state = "pending"].state = "pending"
  /\ [NoJob EXCEPT !.state = "pending"].tries = 0
  /\ Idle \in WorkerState /\ Idle.pc = "wait" /\ Idle.job = NoOne
  /\ \A pc \in {"check", "claim", "exited"} :
       /\ [Idle EXCEPT !.pc = pc] \in WorkerState
       /\ [Idle EXCEPT !.pc = pc].pc = pc /\ [Idle EXCEPT !.pc = pc].job = NoOne
  /\ NoOne \notin Jobs /\ NoOne \notin Workers
BY ForwardingConstants DEF NoJob, Job, States, Done, Idle, WorkerState, Answers

\* A hint keeps the channel within its capacity (signalWork).
LEMMA HintType ==
  ASSUME NEW n \in 0 .. QueueSize
  PROVE  Hint(n) \in 0 .. QueueSize
BY ForwardingConstants DEF Hint

-----------------------------------------------------------------------------
(* The steps, as seen by the store *)

\* A write of an unfinished job keeps log and memory in step, or poisons the
\* store and leaves the log ahead (appendLocked).
LEMMA WriteLog ==
  ASSUME TypeOK, LogAhead, NEW j \in Jobs, NEW new \in Job, NEW o \in Outcomes,
         Write(j, new, o), job[j].state \notin Done, new.state # "none"
  PROVE  /\ job = log /\ health = "ok"
         /\ job' \in [Jobs -> Job] /\ log' \in [Jobs -> Job]
         /\ health' \in {"ok", "poisoned"}
         /\ \A k \in Jobs \ {j} : job'[k] = job[k] /\ log'[k] = log[k]
         /\ o \in {"ok", "compact"} => job'[j] = new /\ log'[j] = new
         /\ o \notin {"ok", "compact"} => job' = job /\ log'[j] \in {log[j], new}
         /\ LogAhead'
<1>1. /\ job = log /\ health = "ok"
      /\ job' = IF o \in {"ok", "compact"} THEN [job EXCEPT ![j] = new] ELSE job
      /\ log' = IF o = "lost" THEN log ELSE [log EXCEPT ![j] = new]
      /\ health' = IF o = "ok" THEN "ok" ELSE "poisoned"
  BY DEF Write, LogAhead
<1>2. job \in [Jobs -> Job] /\ log \in [Jobs -> Job]
  BY DEF TypeOK
<1>3. o \in {"ok", "lost", "unsynced", "compact"}
  BY DEF Outcomes
<1>4. /\ job' \in [Jobs -> Job] /\ log' \in [Jobs -> Job]
      /\ \A k \in Jobs \ {j} : job'[k] = job[k] /\ log'[k] = log[k]
      /\ job'[j] = IF o \in {"ok", "compact"} THEN new ELSE job[j]
      /\ log'[j] = IF o = "lost" THEN log[j] ELSE new
  BY <1>1, <1>2, <1>3
<1>5. LogAhead'
  <2>1. health' = "ok" => job' = log'
    BY <1>1, <1>3
  <2>2. ASSUME NEW k \in Jobs
        PROVE  /\ log'[k].state = "none" => job'[k].state = "none"
               /\ job'[k].state \in Done => log'[k] = job'[k]
    <3>1. CASE k = j
      BY <1>1, <1>3, <1>4, <3>1
    <3>2. CASE k # j
      BY <1>1, <1>4, <3>2
    <3> QED
      BY <3>1, <3>2
  <2> QED
    BY <2>1, <2>2 DEF LogAhead
<1> QED
  BY <1>1, <1>3, <1>4, <1>5

-----------------------------------------------------------------------------
(* The steps, as seen by the workers *)

\* A worker that only moves: it leaves its job, or goes on with it, and what it
\* reads of the attempts it reads under its lease.
LEMMA MoveKeeps ==
  ASSUME ForwardingInvariant, NEW w \in Workers, NEW v \in WorkerState,
         worker' = [worker EXCEPT ![w] = v],
         UNCHANGED <<job, log, due, reading, proc, limit, runs, clean, stalls>>,
         health' \in {health, "poisoned"},
         wake' \in 0 .. QueueSize, sends' \in [Jobs -> Nat],
         v.job \in Jobs <=> v.pc \in Busy,
         v.pc \in Busy =>
           /\ worker[w].pc \in Busy /\ v.job = worker[w].job
           /\ \/ v.n = job[v.job].tries + 1
              \/ worker[w].pc # "load" /\ v.n = worker[w].n
  PROVE  ForwardingInvariant'
<1>1. worker \in [Workers -> WorkerState]
  BY DEF ForwardingInvariant, TypeOK, WorkerState
<1>2. /\ worker' \in [Workers -> WorkerState] /\ worker'[w] = v
      /\ \A x \in Workers \ {w} : worker'[x] = worker[x]
  BY <1>1
<1>3. TypeOK'
  BY <1>2 DEF ForwardingInvariant, TypeOK, WorkerState
<1>4. LogAhead' /\ HandlersBring' /\ CleanStop'
  BY DEF ForwardingInvariant, TypeOK, LogAhead, HandlersBring, CleanStop
<1>5. AtWork'
  BY <1>2 DEF ForwardingInvariant, AtWork
<1>6. Owned'
  <2> SUFFICES ASSUME Alive, stalls = 0, NEW x \in Workers, worker'[x].pc \in Busy
               PROVE  /\ HoldsLease(x, worker'[x].job)
                      /\ worker'[x].job \notin due
                      /\ worker'[x].pc # "load" => worker'[x].n = job[worker'[x].job].tries + 1
    BY DEF Owned, Alive, HoldsLease
  <2>1. \A y \in Workers : worker[y].pc \in Busy =>
          /\ HoldsLease(y, worker[y].job)
          /\ worker[y].job \notin due
          /\ worker[y].pc # "load" => worker[y].n = job[worker[y].job].tries + 1
    BY DEF ForwardingInvariant, Owned
  <2>2. CASE x = w
    BY <1>2, <2>1, <2>2
  <2>3. CASE x # w
    BY <1>2, <2>1, <2>3
  <2> QED
    BY <2>2, <2>3
<1> QED
  BY <1>3, <1>4, <1>5, <1>6 DEF ForwardingInvariant

\* A step that writes the unfinished job j: a worker that stays at work has
\* another job, or has just claimed this one.
LEMMA WriteKeeps ==
  ASSUME ForwardingInvariant, NEW j \in Jobs, NEW new \in Job, NEW o \in Outcomes,
         Write(j, new, o), job[j].state \notin Done, new.state # "none",
         UNCHANGED <<proc, limit, runs, clean, stalls, sends>>,
         reading' \subseteq reading, j \notin reading',
         due' \subseteq due, wake' \in 0 .. QueueSize,
         worker' \in [Workers -> WorkerState], AtWork',
         clean => proc = "waiting",
         Alive /\ stalls = 0 =>
           \A x \in Workers : worker'[x].pc \in Busy =>
             \/ worker'[x] = worker[x] /\ worker[x].job # j
             \/ /\ worker'[x].job = j /\ worker'[x].pc = "load"
                /\ j \notin due' /\ o = "ok"
                /\ new.state = "leased" /\ new.owner = x
  PROVE  ForwardingInvariant'
<1>1. TypeOK /\ LogAhead
  BY DEF ForwardingInvariant
<1>2. /\ job = log /\ health = "ok"
      /\ job' \in [Jobs -> Job] /\ log' \in [Jobs -> Job]
      /\ health' \in {"ok", "poisoned"}
      /\ \A k \in Jobs \ {j} : job'[k] = job[k] /\ log'[k] = log[k]
      /\ o \in {"ok", "compact"} => job'[j] = new /\ log'[j] = new
      /\ o \notin {"ok", "compact"} => job' = job /\ log'[j] \in {log[j], new}
      /\ LogAhead'
  BY <1>1, WriteLog
<1>3. TypeOK'
  BY <1>1, <1>2 DEF TypeOK, WorkerState
<1>4. HandlersBring'
  BY <1>2 DEF ForwardingInvariant, HandlersBring, TypeOK
<1>5. Owned'
  <2> SUFFICES ASSUME Alive, stalls = 0, NEW x \in Workers, worker'[x].pc \in Busy
               PROVE  /\ HoldsLease(x, worker[x].job)'
                      /\ worker'[x].job \notin due'
                      /\ worker'[x].pc # "load" => worker'[x].n = job'[worker'[x].job].tries + 1
    BY DEF Owned, Alive, HoldsLease
  <2>1. CASE worker'[x] = worker[x] /\ worker[x].job # j
    <3>1. /\ HoldsLease(x, worker[x].job) /\ worker[x].job \notin due
          /\ worker[x].pc # "load" => worker[x].n = job[worker[x].job].tries + 1
          /\ worker[x].job \in Jobs
      BY <2>1 DEF ForwardingInvariant, Owned, AtWork
    <3> QED
      BY <1>2, <2>1, <3>1 DEF HoldsLease
  <2>2. CASE /\ worker'[x].job = j /\ worker'[x].pc = "load"
             /\ j \notin due' /\ o = "ok"
             /\ new.state = "leased" /\ new.owner = x
    BY <1>2, <2>2 DEF HoldsLease
  <2> QED
    BY <2>1, <2>2
<1>6. CleanStop'
  BY DEF ForwardingInvariant, CleanStop
<1> QED
  BY <1>2, <1>3, <1>4, <1>5, <1>6 DEF ForwardingInvariant

\* The program counters without a job are those that are not at work, and a
\* worker's record with another program counter is one of its values.
LEMMA WorkerTypes ==
  ASSUME ForwardingInvariant, NEW w \in Workers
  PROVE  /\ worker[w] \in WorkerState
         /\ worker[w].job \in Jobs <=> worker[w].pc \in Busy
         /\ \A pc \in {"wait", "claim", "send", "answer", "record", "exited"} :
              /\ [worker[w] EXCEPT !.pc = pc] \in WorkerState
              /\ [worker[w] EXCEPT !.pc = pc].pc = pc
              /\ [worker[w] EXCEPT !.pc = pc].job = worker[w].job
              /\ [worker[w] EXCEPT !.pc = pc].n = worker[w].n
BY DEF ForwardingInvariant, TypeOK, AtWork, WorkerState

\* goto of a worker that has no job.
LEMMA GotoKeeps ==
  ASSUME ForwardingInvariant, NEW w \in Workers, worker[w].pc \in {"wait", "claim"},
         NEW pc \in {"wait", "claim", "exited"}, Goto(w, pc),
         UNCHANGED <<store, reading, due, process, history>>, wake' \in 0 .. QueueSize
  PROVE  ForwardingInvariant'
<1> DEFINE v == [worker[w] EXCEPT !.pc = pc]
<1>0. v \in WorkerState /\ v.pc = pc /\ v.job = worker[w].job
  <2>1. worker[w] \in WorkerState
    BY WorkerTypes
  <2> QED
    BY <2>1 DEF WorkerState
<1>1. v \in WorkerState /\ v.job \notin Jobs /\ v.pc \notin Busy
  BY <1>0, WorkerTypes DEF Busy
<1>2. worker' = [worker EXCEPT ![w] = v]
  BY DEF Goto, ForwardingInvariant, TypeOK
<1>3. /\ UNCHANGED <<job, log, due, reading, proc, limit, runs, clean, stalls>>
      /\ health' = health /\ sends' \in [Jobs -> Nat]
  BY DEF store, process, history, ForwardingInvariant, TypeOK
<1> QED
  BY <1>1, <1>2, <1>3, MoveKeeps

\* forward returns without having written: the worker has no job any more.
LEMMA ReturnKeeps ==
  ASSUME ForwardingInvariant, NEW w \in Workers, Return(w),
         UNCHANGED <<job, log, due, reading, wake, process, history>>,
         health' \in {health, "poisoned"}
  PROVE  ForwardingInvariant'
<1> DEFINE v == [Idle EXCEPT !.pc = "check"]
<1>1. v \in WorkerState /\ v.job \notin Jobs /\ v.pc \notin Busy
  BY StartTypes DEF Busy
<1>2. worker' = [worker EXCEPT ![w] = v]
  BY DEF Return
<1>3. /\ UNCHANGED <<job, log, due, reading, proc, limit, runs, clean, stalls>>
      /\ wake' \in 0 .. QueueSize /\ sends' \in [Jobs -> Nat]
  BY DEF process, history, ForwardingInvariant, TypeOK
<1> QED
  BY <1>1, <1>2, <1>3, MoveKeeps

\* A step of a worker that has no job, and of one that goes on with its job.
LEMMA WorkerMoves ==
  ASSUME ForwardingInvariant, NEW w \in Workers,
         \/ TakeHint(w) \/ Tick(w) \/ Leave(w) \/ ClaimNothing(w) \/ Load(w)
         \/ LoadFails(w) \/ Send(w) \/ SendCancelled(w) \/ Check(w)
         \/ \E a \in Answers : Answer(w, a)
  PROVE  ForwardingInvariant'
<1>0. /\ worker \in [Workers -> WorkerState] /\ worker[w] \in WorkerState
      /\ worker[w].job \in Jobs <=> worker[w].pc \in Busy
      /\ wake \in 0 .. QueueSize /\ sends \in [Jobs -> Nat] /\ job \in [Jobs -> Job]
  BY WorkerTypes DEF ForwardingInvariant, TypeOK, WorkerState
<1>1. CASE TakeHint(w) \/ Tick(w) \/ Leave(w) \/ ClaimNothing(w)
  <2>1. wake' \in 0 .. QueueSize /\ UNCHANGED <<store, reading, due, process, history>>
    BY <1>0, <1>1, ForwardingConstants DEF TakeHint, Tick, Leave, ClaimNothing
  <2>2. worker[w].pc \in {"wait", "claim"} /\ \E pc \in {"wait", "claim", "exited"} : Goto(w, pc)
    BY <1>1 DEF TakeHint, Tick, Leave, ClaimNothing
  <2> QED
    BY <2>1, <2>2, GotoKeeps
<1>2. CASE LoadFails(w)
  BY <1>2, ReturnKeeps DEF LoadFails
<1>3. CASE Load(w)
  <2> DEFINE v == [worker[w] EXCEPT !.pc = "send", !.n = job[worker[w].job].tries + 1]
  <2>1. /\ worker[w].pc = "load" /\ worker' = [worker EXCEPT ![w] = v]
        /\ UNCHANGED <<job, log, health, due, reading, wake, proc, limit, runs, clean, stalls, sends>>
    BY <1>0, <1>3 DEF Load, store, process, history
  <2>2. worker[w].job \in Jobs
    BY <1>0, <2>1 DEF Busy
  <2>3. job[worker[w].job].tries + 1 \in Nat
    BY <1>0, <2>2 DEF Job
  <2>4. /\ v \in WorkerState /\ v.pc = "send" /\ v.job = worker[w].job
        /\ v.n = job[v.job].tries + 1
    BY <1>0, <2>3 DEF WorkerState
  <2> QED
    BY <1>0, <2>1, <2>2, <2>4, MoveKeeps DEF Busy
<1>4. CASE Send(w)
  <2> DEFINE v == [worker[w] EXCEPT !.pc = "answer"]
  <2>1. /\ worker[w].pc = "send" /\ worker' = [worker EXCEPT ![w] = v]
        /\ UNCHANGED <<job, log, health, due, reading, wake, proc, limit, runs, clean, stalls>>
        /\ sends' = [sends EXCEPT ![worker[w].job] = @ + 1]
    BY <1>0, <1>4 DEF Send, Goto, store, process
  <2>2. sends' \in [Jobs -> Nat]
    BY <1>0, <2>1 DEF Busy
  <2>3. /\ v \in WorkerState /\ v.pc = "answer" /\ v.job = worker[w].job /\ v.n = worker[w].n
    BY WorkerTypes
  <2> QED
    BY <1>0, <2>1, <2>2, <2>3, MoveKeeps DEF Busy
<1>5. CASE SendCancelled(w) \/ \E a \in Answers : Answer(w, a)
  <2>1. PICK a \in Answers :
          /\ worker[w].pc \in {"send", "answer"}
          /\ worker' = [worker EXCEPT ![w].pc = "record", ![w].answer = a]
          /\ UNCHANGED <<job, log, health, due, reading, wake, proc, limit, runs, clean, stalls, sends>>
    BY <1>5 DEF SendCancelled, Answer, Answers, store, process, history
  <2> DEFINE v == [worker[w] EXCEPT !.pc = "record", !.answer = a]
  <2>2. worker' = [worker EXCEPT ![w] = v]
    BY <1>0, <2>1
  <2>3. v \in WorkerState /\ v.pc = "record" /\ v.job = worker[w].job /\ v.n = worker[w].n
    BY <1>0, <2>1 DEF WorkerState
  <2> QED
    BY <1>0, <2>1, <2>2, <2>3, MoveKeeps DEF Busy
<1>6. CASE Check(w)
  <2> DEFINE v == IF Cancelled THEN [Idle EXCEPT !.pc = "exited"] ELSE [Idle EXCEPT !.pc = "claim"]
  <2>1. /\ worker' = [worker EXCEPT ![w] = v]
        /\ UNCHANGED <<job, log, health, due, reading, wake, proc, limit, runs, clean, stalls, sends>>
    BY <1>6 DEF Check, store, process, history
  <2>2. v \in WorkerState /\ v.job \notin Jobs /\ v.pc \notin Busy
    BY StartTypes DEF Busy
  <2> QED
    BY <1>0, <2>1, <2>2, MoveKeeps
<1> QED
  BY <1>1, <1>2, <1>3, <1>4, <1>5, <1>6

\* The worker's own write of its job: under its lease nobody else is at it.
LEMMA OwnerWrites ==
  ASSUME ForwardingInvariant, NEW w \in Workers, worker[w].pc \in Busy,
         HoldsLease(w, worker[w].job), Return(w),
         NEW new \in Job, new.state # "none", NEW o \in Outcomes,
         Write(worker[w].job, new, o),
         due' \subseteq due, wake' \in 0 .. QueueSize,
         UNCHANGED <<reading, process, history>>
  PROVE  ForwardingInvariant'
<1> DEFINE v == [Idle EXCEPT !.pc = "check"]
<1>1. /\ TypeOK /\ LogAhead /\ HandlersBring /\ AtWork /\ Owned /\ CleanStop
      /\ worker \in [Workers -> WorkerState] /\ worker[w].job \in Jobs
  BY WorkerTypes DEF ForwardingInvariant, TypeOK, WorkerState
<1>2. PICK j \in Jobs : j = worker[w].job
  BY <1>1
<1>3. v \in WorkerState /\ v.job \notin Jobs /\ v.pc \notin Busy
  BY StartTypes DEF Busy
<1>4. /\ worker' \in [Workers -> WorkerState] /\ worker'[w] = v
      /\ \A x \in Workers \ {w} : worker'[x] = worker[x]
  BY <1>1, <1>3 DEF Return
<1>5. AtWork'
  BY <1>1, <1>3, <1>4 DEF AtWork
<1>6. job[j].state = "leased" /\ job[j].owner = w
  BY <1>2 DEF HoldsLease
<1>7. job[j].state \notin Done \cup {"none"}
  BY <1>6 DEF Done
<1>8. Write(j, new, o) /\ UNCHANGED <<reading, proc, limit, runs, clean, stalls, sends>>
  BY <1>2 DEF process, history
<1>9. j \notin reading'
  BY <1>1, <1>7, <1>8 DEF HandlersBring, LogAhead
<1>10. clean => proc = "waiting"
  BY <1>1, <1>7 DEF CleanStop
<1>11. ASSUME Alive, stalls = 0, NEW x \in Workers, worker'[x].pc \in Busy
       PROVE  worker'[x] = worker[x] /\ worker[x].job # j
  <2>1. x # w /\ worker'[x] = worker[x]
    BY <1>3, <1>4, <1>11
  <2>2. job[worker[x].job].owner = x
    BY <1>1, <1>11, <2>1 DEF Owned, HoldsLease
  <2> QED
    BY <1>6, <2>1, <2>2
<1> QED
  BY <1>4, <1>5, <1>7, <1>8, <1>9, <1>10, <1>11, WriteKeeps

\* ingest or replay brings its job.
LEMMA AcceptKeeps ==
  ASSUME ForwardingInvariant, NEW j \in Jobs, NEW o \in Outcomes, Accept(j, o)
  PROVE  ForwardingInvariant'
<1> DEFINE new == [NoJob EXCEPT !.state = "pending"]
<1>1. /\ TypeOK /\ LogAhead /\ HandlersBring /\ AtWork /\ Owned /\ CleanStop
      /\ worker \in [Workers -> WorkerState] /\ wake \in 0 .. QueueSize
      /\ j \in reading /\ reading' = reading \ {j} /\ ~ clean
      /\ UNCHANGED <<worker, due, proc, limit, runs, clean, stalls, sends>>
  BY DEF Accept, ForwardingInvariant, TypeOK, WorkerState, CleanStop, process, history
<1>2. CASE Write(j, new, o) /\ wake' = IF o = "ok" THEN Hint(wake) ELSE wake
  <2>1. wake' \in 0 .. QueueSize
    BY <1>1, <1>2, HintType
  <2>2. job[j].state = "none"
    BY <1>1 DEF HandlersBring, LogAhead
  <2>3. job[j].state \notin Done /\ new \in Job /\ new.state # "none"
    BY <2>2, StartTypes DEF Done
  <2>4. AtWork' /\ reading' \subseteq reading /\ j \notin reading' /\ due' \subseteq due
    BY <1>1 DEF AtWork
  <2>5. Alive /\ stalls = 0 =>
          \A x \in Workers : worker'[x].pc \in Busy =>
            worker'[x] = worker[x] /\ worker[x].job # j
    BY <1>1, <2>2 DEF Owned, HoldsLease
  <2> HIDE DEF new
  <2>6. Write(j, new, o)
    BY <1>2 DEF new
  <2> QED
    BY <1>1, <2>1, <2>3, <2>4, <2>5, <2>6, WriteKeeps
<1>3. CASE UNCHANGED <<store, wake>>
  BY <1>1, <1>3 DEF ForwardingInvariant, TypeOK, LogAhead, HandlersBring, AtWork, Owned,
                    CleanStop, store, Alive, HoldsLease
<1> QED
  BY <1>2, <1>3 DEF Accept

\* ClaimNextJob takes a job nobody has in hand, unless its lease ran out.
LEMMA ClaimKeeps ==
  ASSUME ForwardingInvariant, NEW w \in Workers, NEW j \in Jobs, NEW o \in Outcomes,
         Alive, Claim(w, j, o)
  PROVE  ForwardingInvariant'
<1> DEFINE new == [job[j] EXCEPT !.state = "leased", !.owner = w]
           v == IF o = "ok" THEN [Idle EXCEPT !.pc = "load", !.job = j] ELSE Idle
<1>1. /\ TypeOK /\ LogAhead /\ HandlersBring /\ AtWork /\ Owned /\ CleanStop
      /\ worker \in [Workers -> WorkerState] /\ wake \in 0 .. QueueSize
      /\ job \in [Jobs -> Job] /\ due \subseteq Jobs
  BY DEF ForwardingInvariant, TypeOK, WorkerState
<1>2. /\ worker[w].pc = "claim" /\ Eligible(j) /\ Write(j, new, o)
      /\ due' = due \ {j}
      /\ worker' = [worker EXCEPT ![w] = v]
      /\ wake' = IF o = "ok" THEN Hint(wake) ELSE wake
      /\ UNCHANGED <<reading, proc, limit, runs, clean, stalls, sends>>
  BY DEF Claim, process, history
<1>3. /\ new \in Job /\ new.state = "leased" /\ new.owner = w
  BY <1>1 DEF Job, States
<1>4. /\ job[j].state \in {"pending", "retrying", "leased"}
      /\ job[j].state \notin Done \cup {"none"}
      /\ job[j].state = "leased" => j \in due
  BY <1>2 DEF Eligible, Done
<1>5. /\ v \in WorkerState
      /\ IF o = "ok" THEN v.job = j /\ v.pc = "load" ELSE v.job = NoOne /\ v.pc = "wait"
  BY StartTypes DEF Idle, WorkerState
<1>6. /\ worker' \in [Workers -> WorkerState] /\ worker'[w] = v
      /\ \A x \in Workers \ {w} : worker'[x] = worker[x]
  BY <1>1, <1>2, <1>5
<1>7. AtWork'
  <2>1. v.job \in Jobs <=> v.pc \in Busy
    BY <1>5, StartTypes DEF Busy
  <2> QED
    BY <1>1, <1>6, <2>1 DEF AtWork
<1>8. wake' \in 0 .. QueueSize
  BY <1>1, <1>2, HintType
<1>9. /\ j \notin reading' /\ reading' \subseteq reading
      /\ due' \subseteq due /\ j \notin due'
  BY <1>1, <1>2, <1>4 DEF HandlersBring, LogAhead
<1>10. clean => proc = "waiting"
  BY <1>1, <1>4 DEF CleanStop, Alive
<1>11. ASSUME Alive, stalls = 0, NEW x \in Workers, worker'[x].pc \in Busy
       PROVE  \/ worker'[x] = worker[x] /\ worker[x].job # j
              \/ /\ worker'[x].job = j /\ worker'[x].pc = "load"
                 /\ j \notin due' /\ o = "ok"
                 /\ new.state = "leased" /\ new.owner = x
  <2>1. CASE x = w
    BY <1>3, <1>5, <1>6, <1>9, <1>11, <2>1 DEF Busy
  <2>2. CASE x # w
    <3>1. worker'[x] = worker[x]
      BY <1>6, <2>2
    <3>2. HoldsLease(x, worker[x].job) /\ worker[x].job \notin due
      BY <1>1, <1>11, <3>1 DEF Owned
    <3> QED
      BY <1>4, <3>1, <3>2 DEF HoldsLease
  <2> QED
    BY <2>1, <2>2
<1> HIDE DEF new, v
<1> QED
  BY <1>2, <1>3, <1>4, <1>6, <1>7, <1>8, <1>9, <1>10, <1>11, WriteKeeps

\* The outcomes of an attempt, whatever the attempt number.
LEMMA ResultTypes ==
  ASSUME NEW a \in Answers, NEW n
  PROVE  Result(a, n) \in {"retrying", "succeeded", "fatal", "dead-letter"}
BY DEF Result, Answers

\* The job without an attempt is set aside, or nothing is written.
LEMMA GiveUpKeeps ==
  ASSUME ForwardingInvariant, NEW w \in Workers, NEW o \in Outcomes, GiveUp(w, o)
  PROVE  ForwardingInvariant'
<1>1. PICK j \in Jobs : j = worker[w].job
  BY WorkerTypes DEF GiveUp, Busy
<1>2. /\ worker[w].pc \in Busy /\ Return(w) /\ due' \subseteq due /\ wake' = wake
      /\ wake \in 0 .. QueueSize /\ job \in [Jobs -> Job]
      /\ UNCHANGED <<reading, due, wake, process, history>>
  BY DEF GiveUp, Busy, ForwardingInvariant, TypeOK
<1>3. CASE HoldsLease(w, j) /\ health = "ok"
  <2> DEFINE new == [job[j] EXCEPT !.state = "poison", !.owner = NoOne]
  <2>1. Write(j, new, o)
    BY <1>1, <1>3 DEF GiveUp
  <2>2. new \in Job /\ new.state # "none"
    BY <1>2 DEF Job, States, Done
  <2> HIDE DEF new
  <2> QED
    BY <1>1, <1>2, <1>3, <2>1, <2>2, OwnerWrites
<1>4. CASE ~ (HoldsLease(w, j) /\ health = "ok")
  <2>1. UNCHANGED <<job, log, health>>
    BY <1>1, <1>4 DEF GiveUp, store
  <2> QED
    BY <1>2, <2>1, ReturnKeeps
<1> QED
  BY <1>3, <1>4

\* The attempt and the state it leads to are one write, or nothing is written.
LEMMA RecordKeeps ==
  ASSUME ForwardingInvariant, NEW w \in Workers, NEW o \in Outcomes, Record(w, o)
  PROVE  ForwardingInvariant'
<1>1. PICK j \in Jobs : j = worker[w].job
  BY WorkerTypes DEF Record, Busy
<1> DEFINE n == worker[w].n
           result == Result(worker[w].answer, n)
<1>2. /\ worker[w].pc \in Busy /\ Return(w) /\ n \in Nat /\ worker[w].answer \in Answers
      /\ wake \in 0 .. QueueSize /\ job \in [Jobs -> Job]
      /\ UNCHANGED <<reading, process, history>>
  BY WorkerTypes DEF Record, Busy, ForwardingInvariant, TypeOK, WorkerState
<1>3. CASE MayRecord(w, j, n) /\ health = "ok"
  <2> DEFINE new == [state |-> result, owner |-> NoOne, tries |-> n,
                     fresh |-> result # "retrying"]
  <2>1. /\ Write(j, new, o)
        /\ due' = IF o = "lost" THEN due ELSE due \ {j}
        /\ wake' = IF o = "ok" /\ result = "retrying" THEN Hint(wake) ELSE wake
    BY <1>1, <1>3 DEF Record
  <2>2. new \in Job /\ new.state # "none"
    BY <1>2, ResultTypes DEF Job, States, Done
  <2>3. due' \subseteq due /\ wake' \in 0 .. QueueSize
    BY <1>2, <2>1, HintType
  <2>4. HoldsLease(w, j)
    BY <1>3 DEF MayRecord
  <2> HIDE DEF new
  <2> QED
    BY <1>1, <1>2, <2>1, <2>2, <2>3, <2>4, OwnerWrites
<1>4. CASE ~ (MayRecord(w, j, n) /\ health = "ok")
  <2>1. UNCHANGED <<job, log, health, due, wake>>
    BY <1>1, <1>4 DEF Record, store
  <2> QED
    BY <1>2, <2>1, ReturnKeeps
<1> QED
  BY <1>3, <1>4

-----------------------------------------------------------------------------
(* The steps of handlers, time and process *)

\* A handler begins, a back-off or a lease is over.  A lease in hand is over
\* only in a stall.
LEMMA JobKeeps ==
  ASSUME ForwardingInvariant, NEW j \in Jobs,
         Begin(j) \/ BackoffOver(j) \/ LeaseOver(j) \/ Stall(j)
  PROVE  ForwardingInvariant'
<1>1. /\ TypeOK /\ LogAhead /\ HandlersBring /\ AtWork /\ Owned /\ CleanStop
      /\ UNCHANGED <<job, log, health, worker, wake, proc, limit, runs, clean, sends>>
  BY DEF ForwardingInvariant, Begin, BackoffOver, LeaseOver, Stall, store, process, history
<1>2. TypeOK'
  <2>1. CASE Begin(j)
    BY <1>1, <2>1 DEF Begin, TypeOK, history
  <2>2. CASE BackoffOver(j) \/ LeaseOver(j)
    BY <1>1, <2>2 DEF BackoffOver, LeaseOver, TypeOK, history
  <2>3. CASE Stall(j)
    <3>1. stalls' \in 0 .. MaxStalls
      BY <1>1, <2>3, ForwardingConstants DEF Stall, TypeOK
    <3> QED
      BY <1>1, <2>3, <3>1 DEF Stall, TypeOK
  <2> QED
    BY <2>1, <2>2, <2>3
<1>3. LogAhead' /\ AtWork'
  BY <1>1 DEF LogAhead, AtWork
<1>4. HandlersBring'
  BY <1>1 DEF HandlersBring, Begin, BackoffOver, LeaseOver, Stall
<1>5. Owned'
  <2>1. CASE Begin(j)
    BY <1>1, <2>1 DEF Begin, Owned, Alive, HoldsLease, history
  <2>2. CASE BackoffOver(j) \/ LeaseOver(j)
    <3> SUFFICES ASSUME Alive, stalls = 0, NEW x \in Workers, worker[x].pc \in Busy
                 PROVE  /\ HoldsLease(x, worker[x].job)
                        /\ worker[x].job \notin due'
                        /\ worker[x].pc # "load" => worker[x].n = job[worker[x].job].tries + 1
      BY <1>1, <2>2 DEF BackoffOver, LeaseOver, Owned, Alive, HoldsLease, history
    <3>1. /\ HoldsLease(x, worker[x].job) /\ worker[x].job \notin due
          /\ worker[x].pc # "load" => worker[x].n = job[worker[x].job].tries + 1
      BY <1>1 DEF Owned
    <3>2. worker[x].job # j
      BY <2>2, <3>1 DEF BackoffOver, LeaseOver, InHand, HoldsLease
    <3> QED
      BY <2>2, <3>1, <3>2 DEF BackoffOver, LeaseOver
  <2>3. CASE Stall(j)
    BY <1>1, <2>3 DEF Stall, Owned, TypeOK
  <2> QED
    BY <2>1, <2>2, <2>3
<1>6. CleanStop'
  BY <1>1 DEF CleanStop, Begin, BackoffOver, LeaseOver, Stall
<1> QED
  BY <1>2, <1>3, <1>4, <1>5, <1>6 DEF ForwardingInvariant

\* A signal, and the steps of ShutdownServer.
LEMMA ShutdownKeeps ==
  ASSUME ForwardingInvariant, Terminate \/ Drained \/ WorkDone \/ Cancel \/ Exit
  PROVE  ForwardingInvariant'
<1>1. /\ TypeOK /\ LogAhead /\ HandlersBring /\ AtWork /\ Owned /\ CleanStop
      /\ UNCHANGED <<job, log, health, reading, due, worker, wake, limit, runs, stalls, sends>>
  BY DEF ForwardingInvariant, Terminate, Drained, WorkDone, Cancel, Exit, store, app, history
<1>2. TypeOK' /\ Alive
  BY <1>1 DEF TypeOK, Alive, Terminate, Drained, WorkDone, Cancel, Exit
<1>3. CleanStop'
  <2>1. CASE Terminate \/ Cancel \/ Exit
    BY <1>1, <2>1 DEF CleanStop, Terminate, Cancel, Exit
  <2>2. CASE Drained
    BY <1>1, <2>2 DEF CleanStop, Drained
  <2>3. CASE WorkDone
    BY <1>1, <2>3 DEF CleanStop, WorkDone
  <2> QED
    BY <2>1, <2>2, <2>3
<1>4. LogAhead' /\ HandlersBring' /\ AtWork'
  BY <1>1 DEF LogAhead, HandlersBring, AtWork
<1>5. Owned'
  BY <1>1, <1>2 DEF Owned, HoldsLease
<1> QED
  BY <1>2, <1>3, <1>4, <1>5 DEF ForwardingInvariant

\* What the process knew is gone; what it wrote is not.
LEMMA CrashKeeps ==
  ASSUME ForwardingInvariant, Crash
  PROVE  ForwardingInvariant'
<1>1. /\ TypeOK /\ LogAhead /\ Idle \in WorkerState /\ Idle.job \notin Jobs /\ Idle.pc \notin Busy
      /\ proc' = "down" /\ job' = log /\ due' = {} /\ reading' = {} /\ wake' = 0
      /\ clean' = FALSE /\ worker' = [w \in Workers |-> Idle]
      /\ UNCHANGED <<log, health, limit, runs, stalls, sends>>
  BY StartTypes DEF ForwardingInvariant, Crash, history, Busy
<1>2. TypeOK'
  <2>1. /\ wake' \in 0 .. QueueSize /\ worker' \in [Workers -> WorkerState]
        /\ due' \subseteq Jobs /\ reading' \subseteq Jobs
    BY <1>1, ForwardingConstants
  <2> QED
    BY <1>1, <2>1 DEF TypeOK, WorkerState
<1>3. LogAhead' /\ HandlersBring' /\ AtWork' /\ CleanStop' /\ ~ Alive'
  BY <1>1 DEF LogAhead, HandlersBring, AtWork, CleanStop, Alive
<1> QED
  BY <1>2, <1>3 DEF ForwardingInvariant, Owned

\* RecoverLeases puts leased jobs back to pending, in memory never more than on
\* record.
LEMMA RecoveredTypes ==
  ASSUME TypeOK, NEW J \in SUBSET Jobs
  PROVE  /\ Recovered(J) \in [Jobs -> Job]
         /\ \A j \in J : /\ Recovered(J)[j].state = "pending"
                         /\ Recovered(J)[j].tries = log[j].tries
         /\ \A j \in Jobs \ J : Recovered(J)[j] = log[j]
<1>1. log \in [Jobs -> Job] /\ NoOne \in Workers \cup {NoOne} /\ "pending" \in States
  BY DEF TypeOK, States
<1>2. ASSUME NEW j \in Jobs
      PROVE  LET r == [log[j] EXCEPT !.state = "pending", !.owner = NoOne, !.fresh = FALSE]
             IN r \in Job /\ r.state = "pending" /\ r.tries = log[j].tries
  BY <1>1 DEF Job
<1> QED
  BY <1>1, <1>2 DEF Recovered

\* A new process takes the old one's leases back and starts with idle workers.
LEMMA RestartKeeps ==
  ASSUME ForwardingInvariant, NEW R \in SUBSET Jobs, NEW L \in SUBSET Jobs,
         NEW l \in Limits, Restart(R, L, l)
  PROVE  ForwardingInvariant'
<1>1. /\ TypeOK /\ Idle \in WorkerState /\ Idle.job \notin Jobs /\ Idle.pc \notin Busy
      /\ R \subseteq L /\ \A j \in L : log[j].state = "leased"
      /\ \/ R = L /\ health' = "ok"
         \/ health' = "poisoned"
      /\ job' = Recovered(R) /\ log' = Recovered(L)
      /\ due' = {} /\ reading' = {} /\ wake' = 1
      /\ worker' = [w \in Workers |-> Idle]
      /\ proc' = "up" /\ limit' = l /\ runs' = runs + 1 /\ runs < MaxRuns
      /\ clean' = FALSE /\ UNCHANGED <<stalls, sends>>
  BY StartTypes DEF ForwardingInvariant, Restart, history, Busy
<1>2. /\ job' \in [Jobs -> Job] /\ log' \in [Jobs -> Job]
      /\ \A j \in R : job'[j].state = "pending"
      /\ \A j \in L : log'[j].state = "pending"
      /\ \A j \in Jobs \ R : job'[j] = log[j]
      /\ \A j \in Jobs \ L : log'[j] = log[j]
  BY <1>1, RecoveredTypes
<1>3. TypeOK'
  <2>1. runs' \in 1 .. MaxRuns /\ wake' \in 0 .. QueueSize
    BY <1>1, ForwardingConstants DEF TypeOK
  <2> QED
    BY <1>1, <1>2, <2>1 DEF TypeOK, WorkerState
<1>4. LogAhead'
  <2>1. health' = "ok" => job' = log'
    BY <1>1
  <2>2. ASSUME NEW j \in Jobs
        PROVE  /\ log'[j].state = "none" => job'[j].state = "none"
               /\ job'[j].state \in Done => log'[j] = job'[j]
    BY <1>1, <1>2 DEF Done
  <2> QED
    BY <2>1, <2>2 DEF LogAhead
<1>5. HandlersBring' /\ AtWork' /\ CleanStop'
  BY <1>1 DEF HandlersBring, AtWork, CleanStop
<1>6. Owned'
  BY <1>1 DEF Owned
<1> QED
  BY <1>3, <1>4, <1>5, <1>6 DEF ForwardingInvariant

-----------------------------------------------------------------------------
(* The invariant, and what follows from it *)

\* An empty store, idle workers and one hint.
LEMMA InitKeeps == Init => ForwardingInvariant
<1> SUFFICES ASSUME Init PROVE ForwardingInvariant
  OBVIOUS
<1>1. /\ job = [j \in Jobs |-> NoJob] /\ log = job /\ health = "ok" /\ due = {}
      /\ reading = {} /\ worker = [w \in Workers |-> Idle] /\ wake = 1
      /\ proc = "up" /\ limit \in Limits /\ runs = 1
      /\ stalls = 0 /\ sends = [j \in Jobs |-> 0] /\ clean = FALSE
      /\ NoJob \in Job /\ Idle \in WorkerState /\ Idle.job \notin Jobs /\ Idle.pc \notin Busy
  BY StartTypes DEF Init, Busy
<1>2. TypeOK
  <2>1. /\ wake \in 0 .. QueueSize /\ worker \in [Workers -> WorkerState]
        /\ runs \in 1 .. MaxRuns /\ stalls \in 0 .. MaxStalls
        /\ job \in [Jobs -> Job] /\ sends \in [Jobs -> Nat]
    BY <1>1, ForwardingConstants
  <2> QED
    BY <1>1, <2>1 DEF TypeOK, WorkerState
<1>3. LogAhead /\ HandlersBring /\ AtWork /\ CleanStop
  BY <1>1 DEF LogAhead, HandlersBring, AtWork, CleanStop
<1>4. Owned
  BY <1>1 DEF Owned
<1> QED
  BY <1>2, <1>3, <1>4 DEF ForwardingInvariant

\* Every step keeps the invariant.
LEMMA NextKeeps == ForwardingInvariant /\ [Next]_vars => ForwardingInvariant'
<1> SUFFICES ASSUME ForwardingInvariant, [Next]_vars PROVE ForwardingInvariant'
  OBVIOUS
<1>1. ASSUME NEW j \in Jobs, \/ Begin(j) \/ BackoffOver(j) \/ LeaseOver(j) \/ Stall(j)
                             \/ \E o \in Outcomes : Accept(j, o)
      PROVE  ForwardingInvariant'
  BY <1>1, JobKeeps, AcceptKeeps
<1>2. ASSUME NEW w \in Workers, Worker(w)
      PROVE  ForwardingInvariant'
  BY <1>2, WorkerMoves, GiveUpKeeps, RecordKeeps, ClaimKeeps DEF Worker
<1>3. CASE Process
  BY <1>3, ShutdownKeeps, CrashKeeps, RestartKeeps DEF Process, SomeRestart
<1>4. CASE UNCHANGED vars
  BY <1>4 DEF vars, store, app, process, history, ForwardingInvariant, TypeOK, LogAhead,
              HandlersBring, AtWork, Owned, CleanStop, Alive, HoldsLease
<1> QED
  BY <1>1, <1>2, <1>3, <1>4 DEF Next

\* The invariant holds throughout.
THEOREM Invariance == Spec => []ForwardingInvariant
BY InitKeeps, NextKeeps, PTL DEF Spec

\* Jobs, workers and process have their types; App.wake never holds more than
\* QueueSize hints (signalWork).
THEOREM Types == Spec => []TypeOK
BY Invariance, PTL DEF ForwardingInvariant

\* As long as no lease ran out under a live worker, a worker between claim and
\* record holds the lease and has the next attempt's number, so nothing it
\* sends goes unrecorded (ClaimNextJob, RecordAttempt, HoldsLease).
THEOREM NobodyShares == Spec => []WorkIsOwned
<1>1. ForwardingInvariant => WorkIsOwned
  BY DEF ForwardingInvariant, Owned, WorkIsOwned, Busy
<1> QED
  BY <1>1, Invariance, PTL

\* A shutdown that reports no error leaves no unfinished work on record, but
\* for an append that failed and nobody was told of (ShutdownServer, Wait).
THEOREM CleanStopIsClean == Spec => []CleanStopLeavesNothing
<1>1. ForwardingInvariant => CleanStopLeavesNothing
  <2> SUFFICES ASSUME ForwardingInvariant, clean, proc \in {"cancelled", "stopped"},
                      NEW j \in Jobs
               PROVE  \/ log[j].state \in Done \cup {"none"}
                      \/ health = "poisoned" /\ job[j].state = "none"
    BY DEF CleanStopLeavesNothing
  <2>1. job[j].state \in Done \cup {"none"}
    BY DEF ForwardingInvariant, CleanStop
  <2>2. health \in {"ok", "poisoned"} /\ LogAhead
    BY DEF ForwardingInvariant, TypeOK
  <2> QED
    BY <2>1, <2>2 DEF LogAhead
<1> QED
  BY <1>1, Invariance, PTL

-----------------------------------------------------------------------------
(* The log, job by job *)

\* What one append may make of a job on record.
Appends(j, new) ==
  \/ log[j].state = "none" /\ new.state = "pending" /\ new.tries = 0
  \/ /\ log[j].state \in {"pending", "retrying", "leased"}
     /\ new.state = "leased" /\ new.tries = log[j].tries
  \/ log[j].state = "leased" /\ new.state = "poison" /\ new.tries = log[j].tries
  \/ /\ log[j].state = "leased"
     /\ new.state \in {"retrying", "succeeded", "fatal", "dead-letter"}
     /\ new.tries = log[j].tries + 1 /\ new.tries <= limit
     /\ new.state = "retrying" => new.tries < limit

\* What one step makes of the log: nothing, one append, or a recovery.
LogStep ==
  \/ log' = log
  \/ \E j \in Jobs, new \in Job : log' = [log EXCEPT ![j] = new] /\ Appends(j, new)
  \/ \E L \in SUBSET Jobs : log' = Recovered(L) /\ \A j \in L : log[j].state = "leased"

\* A write that has the purpose of an append is a step of the log.
LEMMA WriteIsLogStep ==
  ASSUME NEW j \in Jobs, NEW new \in Job, NEW o \in Outcomes, Write(j, new, o),
         Appends(j, new)
  PROVE  LogStep
BY DEF Write, LogStep

\* Workers append what they read under the lock: in a healthy store the job in
\* memory is the job on record (Accept, ClaimNextJob, RecordAttempt,
\* FinishWithoutAttempt).
LEMMA WritersAppend ==
  ASSUME ForwardingInvariant, NEW o \in Outcomes
  PROVE  /\ \A j \in Jobs : Accept(j, o) => LogStep
         /\ \A w \in Workers, j \in Jobs : Claim(w, j, o) => LogStep
         /\ \A w \in Workers : GiveUp(w, o) \/ Record(w, o) => LogStep
<1>1. /\ job \in [Jobs -> Job] /\ log \in [Jobs -> Job]
      /\ health = "ok" => job = log
      /\ HandlersBring
  BY DEF ForwardingInvariant, TypeOK, LogAhead
<1>2. ASSUME NEW j \in Jobs, Accept(j, o)
      PROVE  LogStep
  <2>1. CASE UNCHANGED <<store, wake>>
    BY <2>1 DEF store, LogStep
  <2>2. CASE Write(j, [NoJob EXCEPT !.state = "pending"], o)
    <3>1. log[j].state = "none"
      BY <1>1, <1>2 DEF Accept, HandlersBring
    <3>2. Appends(j, [NoJob EXCEPT !.state = "pending"])
      BY <3>1, StartTypes DEF Appends
    <3> QED
      BY <2>2, <3>2, StartTypes, WriteIsLogStep
  <2> QED
    BY <1>2, <2>1, <2>2 DEF Accept
<1>3. ASSUME NEW w \in Workers, NEW j \in Jobs, Claim(w, j, o)
      PROVE  LogStep
  <2> DEFINE new == [job[j] EXCEPT !.state = "leased", !.owner = w]
  <2>1. Write(j, new, o) /\ job[j].state \in {"pending", "retrying", "leased"} /\ job = log
    BY <1>1, <1>3 DEF Claim, Eligible, Write
  <2>2. new \in Job /\ new.state = "leased" /\ new.tries = job[j].tries
    BY <1>1 DEF Job, States
  <2> HIDE DEF new
  <2> QED
    BY <2>1, <2>2, WriteIsLogStep DEF Appends
<1>4. ASSUME NEW w \in Workers, GiveUp(w, o)
      PROVE  LogStep
  <2>1. PICK j \in Jobs : j = worker[w].job
    BY <1>4, WorkerTypes DEF GiveUp, Busy
  <2> DEFINE new == [job[j] EXCEPT !.state = "poison", !.owner = NoOne]
  <2>2. CASE HoldsLease(w, j) /\ health = "ok"
    <3>1. Write(j, new, o) /\ job[j].state = "leased" /\ job = log
      BY <1>1, <1>4, <2>1, <2>2 DEF GiveUp, HoldsLease
    <3>2. new \in Job /\ new.state = "poison" /\ new.tries = job[j].tries
      BY <1>1, ZenonT(60) DEF Job, States, Done
    <3> HIDE DEF new
    <3> QED
      BY <3>1, <3>2, WriteIsLogStep DEF Appends
  <2>3. CASE ~ (HoldsLease(w, j) /\ health = "ok")
    BY <1>4, <2>1, <2>3 DEF GiveUp, store, LogStep
  <2> QED
    BY <2>2, <2>3
<1>5. ASSUME NEW w \in Workers, Record(w, o)
      PROVE  LogStep
  <2>1. PICK j \in Jobs : j = worker[w].job
    BY <1>5, WorkerTypes DEF Record, Busy
  <2> DEFINE n == worker[w].n
             result == Result(worker[w].answer, n)
             new == [state |-> result, owner |-> NoOne, tries |-> n,
                     fresh |-> result # "retrying"]
  <2>2. CASE MayRecord(w, j, n) /\ health = "ok"
    <3>1. Write(j, new, o)
      BY <1>5, <2>1, <2>2 DEF Record
    <3>2. /\ job[j].state = "leased" /\ job = log
          /\ n = job[j].tries + 1 /\ n <= limit /\ n \in Nat
      BY <1>1, <2>2, WorkerTypes DEF MayRecord, HoldsLease, WorkerState
    <3>3. worker[w].answer \in Answers /\ limit \in Nat
      BY WorkerTypes, ForwardingConstants DEF WorkerState, ForwardingInvariant, TypeOK
    <3>4. /\ result \in {"retrying", "succeeded", "fatal", "dead-letter"}
          /\ result = "retrying" => n < limit
      BY <3>2, <3>3 DEF Result, Answers
    <3>5. new \in Job /\ new.state = result /\ new.tries = n
      BY <3>2, <3>4 DEF Job, States, Done
    <3> HIDE DEF new, result, n
    <3> QED
      BY <3>1, <3>2, <3>4, <3>5, WriteIsLogStep DEF Appends
  <2>3. CASE ~ (MayRecord(w, j, n) /\ health = "ok")
    BY <1>5, <2>1, <2>3 DEF Record, store, LogStep
  <2> QED
    BY <2>2, <2>3
<1> QED
  BY <1>2, <1>3, <1>4, <1>5

\* Every step is one of those of the log.
LEMMA NextIsLogStep ==
  ASSUME ForwardingInvariant, [Next]_vars
  PROVE  LogStep
<1>1. ASSUME NEW j \in Jobs, \/ Begin(j) \/ BackoffOver(j) \/ LeaseOver(j) \/ Stall(j)
                             \/ \E o \in Outcomes : Accept(j, o)
      PROVE  LogStep
  <2>1. CASE Begin(j) \/ BackoffOver(j) \/ LeaseOver(j) \/ Stall(j)
    BY <2>1 DEF Begin, BackoffOver, LeaseOver, Stall, store, LogStep
  <2> QED
    BY <1>1, <2>1, WritersAppend
<1>2. ASSUME NEW w \in Workers, Worker(w)
      PROVE  LogStep
  <2>1. CASE \/ TakeHint(w) \/ Tick(w) \/ Leave(w) \/ ClaimNothing(w) \/ Load(w)
             \/ LoadFails(w) \/ Send(w) \/ SendCancelled(w) \/ Check(w)
             \/ \E a \in Answers : Answer(w, a)
    BY <2>1 DEF TakeHint, Tick, Leave, ClaimNothing, Load, LoadFails, Send, SendCancelled,
                Check, Answer, store, LogStep
  <2>2. CASE \E o \in Outcomes : \/ GiveUp(w, o) \/ Record(w, o)
                                 \/ \E j \in Jobs : Claim(w, j, o)
    BY <2>2, WritersAppend
  <2> QED
    BY <1>2, <2>1, <2>2 DEF Worker
<1>3. CASE Process
  <2>1. CASE Terminate \/ Drained \/ WorkDone \/ Cancel \/ Exit \/ Crash
    BY <2>1 DEF Terminate, Drained, WorkDone, Cancel, Exit, Crash, store, LogStep
  <2>2. ASSUME NEW R \in SUBSET Jobs, NEW L \in SUBSET Jobs, NEW l \in Limits,
               Restart(R, L, l)
        PROVE  LogStep
    BY <2>2 DEF Restart, LogStep
  <2> QED
    BY <1>3, <2>1, <2>2 DEF Process, SomeRestart
<1>4. CASE UNCHANGED vars
  BY <1>4 DEF vars, store, LogStep
<1> QED
  BY <1>1, <1>2, <1>3, <1>4 DEF Next

\* A job that is not on record has no attempts there, one that is unfinished has
\* attempts left, and none has more than the largest -attempts.
Counted ==
  \A j \in Jobs : /\ log[j].state = "none" => log[j].tries = 0
                  /\ log[j].state \notin Done => log[j].tries < HighestLimit
                  /\ log[j].tries <= HighestLimit

\* The largest -attempts is one of them, and no run has more.
LEMMA HighestIsLargest ==
  /\ HighestLimit \in Limits /\ HighestLimit \in Nat \ {0}
  /\ \A l \in Limits : l <= HighestLimit
BY ForwardingConstants DEF HighestLimit

\* No step of the log lets a job have more attempts than it may.
LEMMA CountedKeeps ==
  ASSUME TypeOK, Counted, LogStep
  PROVE  Counted'
<1>1. /\ log \in [Jobs -> Job] /\ limit <= HighestLimit
      /\ HighestLimit \in Nat \ {0} /\ limit \in Nat
  BY HighestIsLargest, ForwardingConstants DEF TypeOK
<1>2. ASSUME NEW j \in Jobs, NEW new \in Job, log' = [log EXCEPT ![j] = new], Appends(j, new)
      PROVE  Counted'
  <2>1. /\ log'[j] = new
        /\ \A k \in Jobs \ {j} : log'[k] = log[k]
        /\ new.tries \in Nat /\ log[j].tries \in Nat
    BY <1>1, <1>2 DEF Job
  <2>2. /\ new.state = "none" => new.tries = 0
        /\ new.state \notin Done => new.tries < HighestLimit
        /\ new.tries <= HighestLimit
    <3>1. CASE log[j].state \in Done \cup {"none"}
      BY <1>1, <1>2, <3>1 DEF Appends, Done
    <3>2. CASE log[j].state \notin Done \cup {"none"}
      <4>1. log[j].tries < HighestLimit
        BY <3>2 DEF Counted
      <4> QED
        BY <1>1, <1>2, <2>1, <3>2, <4>1 DEF Appends, Done
    <3> QED
      BY <3>1, <3>2
  <2> QED
    BY <2>1, <2>2 DEF Counted
<1>3. ASSUME NEW L \in SUBSET Jobs, log' = Recovered(L), \A j \in L : log[j].state = "leased"
      PROVE  Counted'
  <2>1. /\ \A k \in L : log'[k].state = "pending" /\ log'[k].tries = log[k].tries
        /\ \A k \in Jobs \ L : log'[k] = log[k]
    BY <1>3, RecoveredTypes
  <2> QED
    BY <1>3, <2>1 DEF Counted, Done
<1> QED
  BY <1>2, <1>3 DEF LogStep, Counted

\* An append and a recovery are steps of JobLifecycle.
LEMMA LogStepInLifecycle ==
  ASSUME TypeOK, Counted, LogStep
  PROVE  [Lifecycle!Next]_(Lifecycle!vars)
<1>1. log \in [Jobs -> Job] /\ limit <= HighestLimit /\ HighestLimit \in Nat /\ limit \in Nat
  BY HighestIsLargest, ForwardingConstants DEF TypeOK
<1>2. ASSUME NEW j \in Jobs, NEW new \in Job, log' = [log EXCEPT ![j] = new], Appends(j, new)
      PROVE  Lifecycle!Next
  <2>1. /\ log'[j] = new
        /\ \A k \in Jobs \ {j} : log'[k] = log[k]
        /\ new.tries \in Nat /\ log[j].tries \in Nat
    BY <1>1, <1>2 DEF Job
  <2>2. CASE log[j].state = "none" /\ new.state = "pending" /\ new.tries = 0
    <3>1. Lifecycle!Create(j, {})
      BY <2>1, <2>2 DEF Lifecycle!Create, Counted
    <3> QED
      BY <3>1 DEF Lifecycle!Next
  <2>3. CASE /\ log[j].state \in {"pending", "retrying", "leased"}
             /\ new.state = "leased" /\ new.tries = log[j].tries
    <3>1. Lifecycle!Claim(j)
      BY <2>1, <2>3 DEF Lifecycle!Claim
    <3> QED
      BY <3>1 DEF Lifecycle!Next
  <2>4. CASE log[j].state = "leased" /\ new.state = "poison" /\ new.tries = log[j].tries
    <3>1. Lifecycle!GiveUp(j)
      BY <2>1, <2>4 DEF Lifecycle!GiveUp
    <3> QED
      BY <3>1 DEF Lifecycle!Next
  <2>5. CASE /\ log[j].state = "leased"
             /\ new.state \in {"retrying", "succeeded", "fatal", "dead-letter"}
             /\ new.tries = log[j].tries + 1 /\ new.tries <= limit
    <3>1. log[j].tries < HighestLimit
      BY <1>1, <2>1, <2>5
    <3>2. Lifecycle!Attempt(j, new.state)
      BY <2>1, <2>5, <3>1 DEF Lifecycle!Attempt
    <3> QED
      BY <2>5, <3>2 DEF Lifecycle!Next
  <2> QED
    BY <1>2, <2>2, <2>3, <2>4, <2>5 DEF Appends
<1>3. ASSUME NEW L \in SUBSET Jobs, log' = Recovered(L), \A j \in L : log[j].state = "leased"
      PROVE  Lifecycle!Next
  <2>1. /\ \A j \in L : log'[j].state = "pending" /\ log'[j].tries = log[j].tries
        /\ \A j \in Jobs \ L : log'[j] = log[j]
    BY <1>3, RecoveredTypes
  <2>2. Lifecycle!Recover(L)
    BY <1>3, <2>1 DEF Lifecycle!Recover
  <2> QED
    BY <2>2 DEF Lifecycle!Next
<1>4. CASE log' = log
  BY <1>4 DEF Lifecycle!vars
<1> QED
  BY <1>2, <1>3, <1>4 DEF LogStep

\* No run adds an attempt beyond its -attempts, and none more to a job that has
\* them all (RecordAttempt, forward).
THEOREM AttemptsCounted == Spec => []Counted
<1>1. Init => Counted
  BY StartTypes, HighestIsLargest DEF Init, Counted, Done
<1>2. Counted /\ ForwardingInvariant /\ [Next]_vars => Counted'
  BY NextIsLogStep, CountedKeeps DEF ForwardingInvariant
<1> QED
  BY <1>1, <1>2, Invariance, PTL DEF Spec

\* Whatever workers, handlers, shutdowns, crashes and restarts do, the jobs on
\* record take steps of JobLifecycle, with the largest -attempts as the limit.
THEOREM WorkFollowsLifecycle == Spec => FollowsLifecycle
<1>1. Init => Lifecycle!Init
  BY StartTypes DEF Init, Lifecycle!Init
<1>2. Counted /\ ForwardingInvariant /\ [Next]_vars => [Lifecycle!Next]_(Lifecycle!vars)
  BY NextIsLogStep, LogStepInLifecycle DEF ForwardingInvariant
<1> QED
  BY <1>1, <1>2, Invariance, AttemptsCounted, PTL DEF Spec, FollowsLifecycle, Lifecycle!Spec

-----------------------------------------------------------------------------
(* How often a job is sent                                                 *)
(*                                                                         *)
(* Every request is paid for: by the attempt on record that it led to, by  *)
(* a restart, by a stall, or by a lease on record that still waits for its *)
(* attempt.  Workers that may yet send count as if they had.               *)

One(b) == IF b THEN 1 ELSE 0

\* The state x of a worker is one in which a request for j may still leave.
MaySend(x, j) == x.job = j /\ x.pc \in {"load", "send"}

Senders(j) == {w \in Workers : MaySend(worker[w], j)}

\* A lease on record whose end no claim can use: the job is in hand, or nobody
\* will claim it before a restart.
OnLease(j) ==
  log[j].state = "leased" /\ (j \notin due \/ health = "poisoned" \/ ~ Alive)

SendsPaid ==
  \A j \in Jobs :
    sends[j] + Cardinality(Senders(j))
      <= log[j].tries + One(OnLease(j)) + (runs - 1) + stalls

\* The owner of a lease is at that job, with the number of its next attempt.
OwnersWork ==
  Alive /\ health = "ok" =>
    \A j \in Jobs : job[j].state = "leased" =>
      \E p \in Workers : /\ job[j].owner = p /\ worker[p].job = j
                         /\ worker[p].pc # "load" => worker[p].n = job[j].tries + 1

SendInvariant == ForwardingInvariant /\ Counted /\ OwnersWork /\ SendsPaid

\* One worker more or less.
LEMMA SendersChange ==
  ASSUME TypeOK, NEW w \in Workers, NEW v \in WorkerState,
         worker' = [worker EXCEPT ![w] = v], NEW j \in Jobs
  PROVE  /\ Cardinality(Senders(j)) \in Nat /\ Cardinality(Senders(j)') \in Nat
         /\ Cardinality(Senders(j)') + One(MaySend(worker[w], j))
              = Cardinality(Senders(j)) + One(MaySend(v, j))
<1>1. worker \in [Workers -> WorkerState] /\ IsFiniteSet(Workers)
  BY ForwardingConstants DEF TypeOK, WorkerState
<1>2. worker'[w] = v /\ \A x \in Workers \ {w} : worker'[x] = worker[x]
  BY <1>1
<1> DEFINE Rest == Senders(j) \ {w}
<1>3. Rest \subseteq Workers /\ IsFiniteSet(Rest) /\ Cardinality(Rest) \in Nat /\ w \notin Rest
  BY <1>1, FS_Subset, FS_CardinalityType DEF Senders
<1>4. /\ Senders(j) = IF MaySend(worker[w], j) THEN Rest \cup {w} ELSE Rest
      /\ Senders(j)' = IF MaySend(v, j) THEN Rest \cup {w} ELSE Rest
  BY <1>2 DEF Senders, MaySend
<1>5. Cardinality(Rest \cup {w}) = Cardinality(Rest) + 1
  BY <1>3, FS_AddElement
<1> HIDE DEF Rest
<1> QED
  BY <1>3, <1>4, <1>5 DEF One

\* When workers are idle, none may send.
LEMMA NobodySends ==
  ASSUME NEW j \in Jobs
  PROVE  /\ worker = [w \in Workers |-> Idle] => Cardinality(Senders(j)) = 0
         /\ worker' = [w \in Workers |-> Idle] => Cardinality(Senders(j)') = 0
<1>1. ~ MaySend(Idle, j)
  BY StartTypes DEF MaySend
<1>2. worker = [w \in Workers |-> Idle] => Senders(j) = {}
  BY <1>1 DEF Senders
<1>3. worker' = [w \in Workers |-> Idle] => Senders(j)' = {}
  BY <1>1 DEF Senders, MaySend
<1> QED
  BY <1>2, <1>3, FS_EmptySet

\* A worker's step keeps the account when it does job by job.
LEMMA StepPays ==
  ASSUME ForwardingInvariant, SendsPaid, NEW w \in Workers, NEW v \in WorkerState,
         worker' = [worker EXCEPT ![w] = v], UNCHANGED <<runs, stalls>>,
         sends' \in [Jobs -> Nat], log' \in [Jobs -> Job],
         \A j \in Jobs :
           sends'[j] + One(MaySend(v, j)) + log[j].tries + One(OnLease(j))
             <= sends[j] + One(MaySend(worker[w], j)) + log'[j].tries + One(OnLease(j)')
  PROVE  SendsPaid'
<1> SUFFICES ASSUME NEW j \in Jobs
             PROVE  sends'[j] + Cardinality(Senders(j)')
                      <= log'[j].tries + One(OnLease(j)') + (runs - 1) + stalls
  BY DEF SendsPaid
<1>1. /\ sends[j] \in Nat /\ sends'[j] \in Nat /\ log[j].tries \in Nat /\ log'[j].tries \in Nat
      /\ runs \in Nat /\ stalls \in Nat
  BY DEF ForwardingInvariant, TypeOK, Job
<1>2. /\ Cardinality(Senders(j)) \in Nat /\ Cardinality(Senders(j)') \in Nat
      /\ Cardinality(Senders(j)') + One(MaySend(worker[w], j))
           = Cardinality(Senders(j)) + One(MaySend(v, j))
  BY SendersChange DEF ForwardingInvariant
<1>3. \A b \in BOOLEAN : One(b) \in Nat
  BY DEF One
<1>4. sends[j] + Cardinality(Senders(j)) <= log[j].tries + One(OnLease(j)) + (runs - 1) + stalls
  BY DEF SendsPaid
<1>5. /\ One(MaySend(worker[w], j)) \in Nat /\ One(MaySend(v, j)) \in Nat
      /\ One(OnLease(j)) \in Nat /\ One(OnLease(j)') \in Nat
  BY DEF One
<1> QED
  BY <1>1, <1>2, <1>4, <1>5

\* A lease on record lasts until a write of its job, an expiry or a restart.
LEMMA LeaseLasts ==
  ASSUME NEW j \in Jobs, log'[j] = log[j], health' \in {health, "poisoned"},
         j \in due' => j \in due, Alive' => Alive
  PROVE  /\ OnLease(j) => OnLease(j)'
         /\ One(OnLease(j)) \in {0, 1} /\ One(OnLease(j)') \in {0, 1}
         /\ One(OnLease(j)) <= One(OnLease(j)')
<1>1. OnLease(j) => OnLease(j)'
  BY DEF OnLease
<1> QED
  BY <1>1 DEF One

\* A worker that only moves does not leave the lease it holds, as long as the
\* store is healthy, and is worth no more than before.
LEMMA MovePays ==
  ASSUME SendInvariant, NEW w \in Workers, NEW v \in WorkerState,
         worker' = [worker EXCEPT ![w] = v],
         UNCHANGED <<job, log, due, proc, runs, stalls>>, health' \in {health, "poisoned"},
         sends' \in [Jobs -> Nat],
         \A j \in Jobs :
           sends'[j] + One(MaySend(v, j)) <= sends[j] + One(MaySend(worker[w], j)),
         Alive /\ health' = "ok" /\ worker[w].job \in Jobs /\ HoldsLease(w, worker[w].job) =>
           /\ v.job = worker[w].job
           /\ \/ v.pc = "load"
              \/ v.n = job[v.job].tries + 1
              \/ worker[w].pc # "load" /\ v.n = worker[w].n
  PROVE  OwnersWork' /\ SendsPaid'
<1>1. /\ ForwardingInvariant /\ OwnersWork /\ SendsPaid
      /\ worker \in [Workers -> WorkerState] /\ log \in [Jobs -> Job]
  BY DEF SendInvariant, ForwardingInvariant, TypeOK, WorkerState
<1>2. worker'[w] = v /\ \A x \in Workers \ {w} : worker'[x] = worker[x]
  BY <1>1
<1>3. OwnersWork'
  <2> SUFFICES ASSUME Alive, health' = "ok", NEW j \in Jobs, job[j].state = "leased"
               PROVE  \E p \in Workers :
                        /\ job[j].owner = p /\ worker'[p].job = j
                        /\ worker'[p].pc # "load" => worker'[p].n = job[j].tries + 1
    BY DEF OwnersWork, Alive
  <2>1. health = "ok"
    OBVIOUS
  <2>2. PICK p \in Workers : /\ job[j].owner = p /\ worker[p].job = j
                             /\ worker[p].pc # "load" => worker[p].n = job[j].tries + 1
    BY <1>1, <2>1 DEF OwnersWork
  <2>3. CASE p = w
    BY <1>2, <2>2, <2>3 DEF HoldsLease
  <2>4. CASE p # w
    BY <1>2, <2>2, <2>4
  <2> QED
    BY <2>3, <2>4
<1>4. SendsPaid'
  <2>1. ASSUME NEW j \in Jobs
        PROVE  sends'[j] + One(MaySend(v, j)) + log[j].tries + One(OnLease(j))
                 <= sends[j] + One(MaySend(worker[w], j)) + log'[j].tries + One(OnLease(j)')
    <3>1. /\ One(OnLease(j)) \in {0, 1} /\ One(OnLease(j)') \in {0, 1}
          /\ One(OnLease(j)) <= One(OnLease(j)')
      BY LeaseLasts DEF Alive
    <3>2. /\ sends'[j] + One(MaySend(v, j)) <= sends[j] + One(MaySend(worker[w], j))
          /\ sends[j] \in Nat /\ sends'[j] \in Nat /\ log[j].tries \in Nat
          /\ log'[j] = log[j]
      BY <1>1 DEF ForwardingInvariant, TypeOK, Job
    <3>3. One(MaySend(v, j)) \in {0, 1} /\ One(MaySend(worker[w], j)) \in {0, 1}
      BY DEF One
    <3> HIDE DEF One, OnLease, MaySend
    <3> QED
      BY <3>1, <3>2, <3>3
  <2> QED
    BY <1>1, <2>1, StepPays
<1> QED
  BY <1>3, <1>4

\* Without a request, a worker's state decides.
LEMMA Unsent ==
  ASSUME TypeOK, sends' = sends, NEW x, NEW v,
         \A j \in Jobs : One(MaySend(v, j)) <= One(MaySend(x, j))
  PROVE  /\ sends' \in [Jobs -> Nat]
         /\ \A j \in Jobs : sends'[j] + One(MaySend(v, j)) <= sends[j] + One(MaySend(x, j))
<1>1. \A j \in Jobs : sends[j] \in Nat /\ sends'[j] = sends[j]
  BY DEF TypeOK
<1>2. \A j \in Jobs : One(MaySend(v, j)) \in {0, 1} /\ One(MaySend(x, j)) \in {0, 1}
  BY DEF One
<1>3. ASSUME NEW j \in Jobs
      PROVE  sends'[j] + One(MaySend(v, j)) <= sends[j] + One(MaySend(x, j))
  BY <1>1, <1>2
<1> QED
  BY <1>3 DEF TypeOK

\* A worker that has no job owns no lease; one that stays at its job stays
\* worth as much, but for the request that leaves.
LEMMA WorkersPay ==
  ASSUME SendInvariant, NEW w \in Workers,
         \/ TakeHint(w) \/ Tick(w) \/ Leave(w) \/ ClaimNothing(w) \/ Load(w)
         \/ LoadFails(w) \/ Send(w) \/ SendCancelled(w) \/ Check(w)
         \/ \E a \in Answers : Answer(w, a)
  PROVE  OwnersWork' /\ SendsPaid'
<1>0. /\ ForwardingInvariant /\ TypeOK /\ worker \in [Workers -> WorkerState] /\ worker[w] \in WorkerState
      /\ worker[w].job \in Jobs <=> worker[w].pc \in Busy
      /\ sends \in [Jobs -> Nat] /\ job \in [Jobs -> Job]
  BY WorkerTypes DEF SendInvariant, ForwardingInvariant, TypeOK, WorkerState
<1>1. CASE TakeHint(w) \/ Tick(w) \/ Leave(w) \/ ClaimNothing(w)
  <2>1. PICK pc \in {"wait", "claim", "exited"} :
          /\ worker[w].pc \in {"wait", "claim"} /\ Goto(w, pc)
          /\ UNCHANGED <<job, log, due, proc, runs, stalls, health, sends>>
    BY <1>1 DEF TakeHint, Tick, Leave, ClaimNothing, store, process, history
  <2> DEFINE v == [worker[w] EXCEPT !.pc = pc]
  <2>2. worker' = [worker EXCEPT ![w] = v] /\ v \in WorkerState /\ v.pc = pc
    BY <1>0, <2>1 DEF Goto, WorkerState
  <2>3. worker[w].job \notin Jobs /\ \A j \in Jobs : ~ MaySend(v, j)
    BY <1>0, <2>1, <2>2 DEF MaySend, Busy
  <2>4. \A j \in Jobs : One(MaySend(v, j)) <= One(MaySend(worker[w], j))
    BY <2>3 DEF One
  <2> QED
    BY <1>0, <2>1, <2>2, <2>3, <2>4, Unsent, MovePays
<1>2. CASE LoadFails(w) \/ Check(w)
  <2>1. PICK v \in WorkerState :
          /\ worker' = [worker EXCEPT ![w] = v] /\ v.job \notin Jobs
          /\ UNCHANGED <<job, log, due, proc, runs, stalls, sends>>
          /\ health' \in {health, "poisoned"}
          /\ health' = "poisoned" \/ worker[w].pc = "check"
    BY <1>2, StartTypes DEF LoadFails, Return, Check, store, process, history
  <2>2. ~ (health' = "ok" /\ worker[w].job \in Jobs)
    BY <1>0, <2>1 DEF Busy
  <2>3. \A j \in Jobs : One(MaySend(v, j)) <= One(MaySend(worker[w], j))
    BY <2>1 DEF One, MaySend
  <2> QED
    BY <1>0, <2>1, <2>2, <2>3, Unsent, MovePays
<1>3. CASE Load(w)
  <2> DEFINE v == [worker[w] EXCEPT !.pc = "send", !.n = job[worker[w].job].tries + 1]
  <2>1. /\ worker[w].pc = "load" /\ worker' = [worker EXCEPT ![w] = v]
        /\ UNCHANGED <<job, log, health, due, proc, runs, stalls, sends>>
    BY <1>0, <1>3 DEF Load, store, process, history
  <2>2. job[worker[w].job].tries + 1 \in Nat
    BY <1>0, <2>1 DEF Job, Busy
  <2>3. /\ v \in WorkerState /\ v.pc = "send" /\ v.job = worker[w].job
        /\ v.n = job[v.job].tries + 1
    BY <1>0, <2>2 DEF WorkerState
  <2>4. \A j \in Jobs : One(MaySend(v, j)) <= One(MaySend(worker[w], j))
    BY <2>1, <2>3 DEF One, MaySend
  <2> HIDE DEF v
  <2> QED
    BY <1>0, <2>1, <2>3, <2>4, Unsent, MovePays
<1>4. CASE Send(w)
  <2> DEFINE v == [worker[w] EXCEPT !.pc = "answer"]
  <2>1. /\ worker[w].pc = "send" /\ worker' = [worker EXCEPT ![w] = v]
        /\ UNCHANGED <<job, log, health, due, proc, runs, stalls>>
        /\ sends' = [sends EXCEPT ![worker[w].job] = @ + 1]
    BY <1>0, <1>4 DEF Send, Goto, store, process
  <2>2. sends' \in [Jobs -> Nat] /\ worker[w].job \in Jobs
    BY <1>0, <2>1 DEF Busy
  <2>3. /\ v \in WorkerState /\ v.pc = "answer" /\ v.job = worker[w].job /\ v.n = worker[w].n
    BY <1>0 DEF WorkerState
  <2>4. ASSUME NEW j \in Jobs
        PROVE  sends'[j] + One(MaySend(v, j)) <= sends[j] + One(MaySend(worker[w], j))
    <3>1. ~ MaySend(v, j)
      BY <2>3 DEF MaySend
    <3>2. sends'[j] = IF j = worker[w].job THEN sends[j] + 1 ELSE sends[j]
      BY <1>0, <2>1
    <3>3. MaySend(worker[w], j) <=> j = worker[w].job
      BY <2>1 DEF MaySend
    <3>4. sends[j] \in Nat
      BY <1>0
    <3> QED
      BY <3>1, <3>2, <3>3, <3>4 DEF One
  <2> HIDE DEF v
  <2> QED
    BY <1>0, <2>1, <2>2, <2>3, <2>4, MovePays
<1>5. CASE SendCancelled(w) \/ \E a \in Answers : Answer(w, a)
  <2>1. PICK a \in Answers :
          /\ worker[w].pc \in {"send", "answer"}
          /\ worker' = [worker EXCEPT ![w].pc = "record", ![w].answer = a]
          /\ UNCHANGED <<job, log, health, due, proc, runs, stalls, sends>>
    BY <1>5 DEF SendCancelled, Answer, Answers, store, process, history
  <2> DEFINE v == [worker[w] EXCEPT !.pc = "record", !.answer = a]
  <2>2. worker' = [worker EXCEPT ![w] = v]
    BY <1>0, <2>1
  <2>3. v \in WorkerState /\ v.pc = "record" /\ v.job = worker[w].job /\ v.n = worker[w].n
    BY <1>0, <2>1 DEF WorkerState
  <2>4. \A j \in Jobs : One(MaySend(v, j)) <= One(MaySend(worker[w], j))
    BY <2>3 DEF One, MaySend
  <2> HIDE DEF v
  <2> QED
    BY <1>0, <2>1, <2>2, <2>3, <2>4, Unsent, MovePays
<1> QED
  BY <1>1, <1>2, <1>3, <1>4, <1>5

\* The end of a lease by its owner: the attempt is on record, or there was none
\* and no request either.
LEMMA OwnerPays ==
  ASSUME SendInvariant, NEW w \in Workers, NEW j \in Jobs, worker[w].job = j,
         HoldsLease(w, j), Return(w),
         NEW new \in Job, NEW o \in Outcomes, Write(j, new, o),
         new.state \notin {"none", "leased"},
         job[j].tries + 1 <= new.tries + One(MaySend(worker[w], j)),
         due' \subseteq due, UNCHANGED <<process, history>>
  PROVE  OwnersWork' /\ SendsPaid'
<1> DEFINE v == [Idle EXCEPT !.pc = "check"]
<1>1. /\ ForwardingInvariant /\ TypeOK /\ LogAhead /\ OwnersWork /\ SendsPaid
      /\ worker \in [Workers -> WorkerState] /\ sends \in [Jobs -> Nat]
      /\ log \in [Jobs -> Job]
      /\ UNCHANGED <<proc, runs, stalls, sends>>
  BY DEF SendInvariant, ForwardingInvariant, TypeOK, WorkerState, process, history
<1>2. v \in WorkerState /\ v.job \notin Jobs
  BY StartTypes
<1>3. /\ worker' = [worker EXCEPT ![w] = v] /\ worker'[w] = v
      /\ \A x \in Workers \ {w} : worker'[x] = worker[x]
  BY <1>1, <1>2 DEF Return
<1>4. job[j].state \notin Done
  BY DEF HoldsLease, Done
<1>5. /\ job = log /\ health = "ok" /\ health' \in {"ok", "poisoned"}
      /\ log' \in [Jobs -> Job]
      /\ \A k \in Jobs \ {j} : job'[k] = job[k] /\ log'[k] = log[k]
      /\ log'[j] \in {log[j], new}
      /\ health' = "ok" => job'[j] = new
  <2>1. /\ job = log /\ health = "ok"
        /\ log' \in [Jobs -> Job]
        /\ health' \in {"ok", "poisoned"}
        /\ \A k \in Jobs \ {j} : job'[k] = job[k] /\ log'[k] = log[k]
        /\ o \in {"ok", "compact"} => job'[j] = new /\ log'[j] = new
        /\ o \notin {"ok", "compact"} => job' = job /\ log'[j] \in {log[j], new}
    BY <1>1, <1>4, WriteLog
  <2>2. health' = "ok" => o = "ok"
    BY DEF Write
  <2> QED
    BY <2>1, <2>2
<1>6. OwnersWork'
  <2> SUFFICES ASSUME Alive, health' = "ok", NEW k \in Jobs, job'[k].state = "leased"
               PROVE  \E p \in Workers :
                        /\ job'[k].owner = p /\ worker'[p].job = k
                        /\ worker'[p].pc # "load" => worker'[p].n = job'[k].tries + 1
    BY <1>1 DEF OwnersWork, Alive
  <2>1. k # j /\ job'[k] = job[k]
    BY <1>5
  <2>2. PICK p \in Workers : /\ job[k].owner = p /\ worker[p].job = k
                             /\ worker[p].pc # "load" => worker[p].n = job[k].tries + 1
    BY <1>1, <1>5, <2>1 DEF OwnersWork
  <2> QED
    BY <1>3, <2>1, <2>2
<1>7. ASSUME NEW k \in Jobs
      PROVE  sends'[k] + One(MaySend(v, k)) + log[k].tries + One(OnLease(k))
               <= sends[k] + One(MaySend(worker[w], k)) + log'[k].tries + One(OnLease(k)')
  <2>1. /\ sends'[k] = sends[k] /\ sends[k] \in Nat
        /\ log[k].tries \in Nat /\ log'[k].tries \in Nat
        /\ One(MaySend(v, k)) = 0 /\ One(MaySend(worker[w], k)) \in {0, 1}
        /\ One(OnLease(k)) \in {0, 1} /\ One(OnLease(k)') \in {0, 1}
    BY <1>1, <1>2, <1>5 DEF One, MaySend, Job
  <2>2. CASE log'[k] = log[k]
    <3>1. One(OnLease(k)) <= One(OnLease(k)')
      BY <1>1, <1>5, <2>2, LeaseLasts DEF Alive
    <3> HIDE DEF One, OnLease, MaySend, v
    <3> QED
      BY <2>1, <2>2, <3>1
  <2>3. CASE log'[k] # log[k]
    <3>1. k = j /\ log'[k] = new /\ log[k].tries + 1 <= new.tries + One(MaySend(worker[w], k))
      BY <1>5, <2>3
    <3> HIDE DEF One, OnLease, MaySend, v
    <3> QED
      BY <2>1, <3>1
  <2> QED
    BY <2>2, <2>3
<1> HIDE DEF v
<1>8. SendsPaid'
  BY <1>1, <1>2, <1>3, <1>5, <1>7, StepPays
<1> QED
  BY <1>6, <1>8

\* forward returns without a write of a job it does not hold, or a poisoned one.
LEMMA ReturnPays ==
  ASSUME SendInvariant, NEW w \in Workers, Return(w),
         UNCHANGED <<store, due, process, history>>,
         ~ (Alive /\ health = "ok" /\ HoldsLease(w, worker[w].job))
  PROVE  OwnersWork' /\ SendsPaid'
<1> DEFINE v == [Idle EXCEPT !.pc = "check"]
<1>1. v \in WorkerState /\ v.job \notin Jobs /\ worker' = [worker EXCEPT ![w] = v] /\ TypeOK
  BY StartTypes DEF Return, SendInvariant, ForwardingInvariant
<1>2. UNCHANGED <<job, log, health, due, proc, runs, stalls, sends>>
  BY DEF store, process, history
<1>3. \A j \in Jobs : One(MaySend(v, j)) <= One(MaySend(worker[w], j))
  BY <1>1 DEF One, MaySend
<1> HIDE DEF v
<1> QED
  BY <1>1, <1>2, <1>3, Unsent, MovePays

\* FinishWithoutAttempt ends a lease before any request has left.
LEMMA GiveUpPays ==
  ASSUME SendInvariant, NEW w \in Workers, NEW o \in Outcomes, GiveUp(w, o)
  PROVE  OwnersWork' /\ SendsPaid'
<1>1. /\ ForwardingInvariant /\ job \in [Jobs -> Job]
      /\ worker[w].pc = "load" /\ Return(w) /\ UNCHANGED <<due, process, history>>
  BY DEF SendInvariant, ForwardingInvariant, TypeOK, GiveUp
<1>2. PICK j \in Jobs : j = worker[w].job
  BY <1>1, WorkerTypes DEF Busy
<1>3. CASE HoldsLease(w, j) /\ health = "ok"
  <2> DEFINE new == [job[j] EXCEPT !.state = "poison", !.owner = NoOne]
  <2>1. Write(j, new, o)
    BY <1>2, <1>3 DEF GiveUp
  <2>2. new \in Job /\ new.state = "poison" /\ new.tries = job[j].tries
    BY <1>1 DEF Job, States, Done
  <2>3. One(MaySend(worker[w], j)) = 1 /\ job[j].tries \in Nat
    BY <1>1, <1>2 DEF One, MaySend, Job
  <2> HIDE DEF new
  <2>4. job[j].tries + 1 <= new.tries + One(MaySend(worker[w], j))
    BY <2>2, <2>3
  <2> QED
    BY <1>1, <1>2, <1>3, <2>1, <2>2, <2>4, OwnerPays
<1>4. CASE ~ (HoldsLease(w, j) /\ health = "ok")
  <2>1. UNCHANGED store
    BY <1>2, <1>4 DEF GiveUp
  <2> QED
    BY <1>1, <1>2, <1>4, <2>1, ReturnPays
<1> QED
  BY <1>3, <1>4

\* Every run of the process has the same -attempts.
OneLimit == \A k, l \in Limits : k = l

\* RecordAttempt takes what the owner of a lease has to record: the number is
\* the next one and, when no run had a larger -attempts, within the limit.
LEMMA RecordPays ==
  ASSUME OneLimit, SendInvariant, NEW w \in Workers, NEW o \in Outcomes, Alive, Record(w, o)
  PROVE  OwnersWork' /\ SendsPaid'
<1> DEFINE n == worker[w].n
           result == Result(worker[w].answer, n)
<1>1. /\ ForwardingInvariant /\ OwnersWork /\ Counted /\ LogAhead
      /\ job \in [Jobs -> Job] /\ limit \in Limits
      /\ worker[w].pc = "record" /\ Return(w) /\ UNCHANGED <<process, history>>
  BY DEF SendInvariant, ForwardingInvariant, TypeOK, Record
<1>2. n \in Nat /\ worker[w].answer \in Answers
  BY <1>1, WorkerTypes DEF WorkerState
<1>3. PICK j \in Jobs : j = worker[w].job
  BY <1>1, WorkerTypes DEF Busy
<1>4. CASE MayRecord(w, j, n) /\ health = "ok"
  <2> DEFINE new == [state |-> result, owner |-> NoOne, tries |-> n,
                     fresh |-> result # "retrying"]
  <2>1. Write(j, new, o) /\ due' = IF o = "lost" THEN due ELSE due \ {j}
    BY <1>3, <1>4 DEF Record
  <2>2. result \in {"retrying", "succeeded", "fatal", "dead-letter"}
    BY <1>2, ResultTypes
  <2>3. new \in Job /\ new.state = result /\ new.tries = n
    BY <1>2, <2>2 DEF Job, States, Done
  <2>4. HoldsLease(w, j) /\ n = job[j].tries + 1 /\ due' \subseteq due
    BY <1>4, <2>1 DEF MayRecord
  <2> HIDE DEF new, result
  <2>5. job[j].tries + 1 <= new.tries + One(MaySend(worker[w], j))
    BY <1>2, <2>3, <2>4 DEF One
  <2> QED
    BY <1>1, <1>3, <2>1, <2>2, <2>3, <2>4, <2>5, OwnerPays
<1>5. CASE ~ (MayRecord(w, j, n) /\ health = "ok")
  <2>1. UNCHANGED <<store, due>>
    BY <1>3, <1>5 DEF Record
  <2>2. ASSUME health = "ok", HoldsLease(w, j)
        PROVE  FALSE
    <3>1. job[j].state = "leased" /\ job[j].owner = w /\ job = log
      BY <1>1, <2>2 DEF HoldsLease, LogAhead
    <3>2. n = job[j].tries + 1
      BY <1>1, <2>2, <3>1 DEF OwnersWork
    <3>3. job[j].tries < HighestLimit /\ limit = HighestLimit
      BY <1>1, <3>1, HighestIsLargest DEF Counted, Done, OneLimit
    <3>4. n <= limit
      BY <1>1, <3>2, <3>3, HighestIsLargest DEF Job
    <3> QED
      BY <1>5, <2>2, <3>2, <3>4 DEF MayRecord
  <2> QED
    BY <1>1, <1>3, <2>1, <2>2, ReturnPays
<1> QED
  BY <1>4, <1>5

\* A claim takes on what the end of the lease before it, if any, has freed.
LEMMA ClaimPays ==
  ASSUME SendInvariant, NEW w \in Workers, NEW j \in Jobs, NEW o \in Outcomes,
         Alive, Claim(w, j, o)
  PROVE  OwnersWork' /\ SendsPaid'
<1> DEFINE new == [job[j] EXCEPT !.state = "leased", !.owner = w]
           v == IF o = "ok" THEN [Idle EXCEPT !.pc = "load", !.job = j] ELSE Idle
<1>1. /\ ForwardingInvariant /\ TypeOK /\ LogAhead /\ OwnersWork /\ SendsPaid
      /\ worker \in [Workers -> WorkerState] /\ sends \in [Jobs -> Nat]
      /\ job \in [Jobs -> Job] /\ log \in [Jobs -> Job]
  BY DEF SendInvariant, ForwardingInvariant, TypeOK, WorkerState
<1>2. /\ worker[w].pc = "claim" /\ Eligible(j) /\ Write(j, new, o)
      /\ due' = due \ {j}
      /\ worker' = [worker EXCEPT ![w] = v]
      /\ UNCHANGED <<proc, runs, stalls, sends>>
  BY DEF Claim, process, history
<1>3. new \in Job /\ new.state = "leased" /\ new.owner = w /\ new.tries = job[j].tries
  BY <1>1 DEF Job, States
<1>4. /\ v \in WorkerState
      /\ IF o = "ok" THEN v.job = j /\ v.pc = "load" ELSE v.job = NoOne /\ v.pc = "wait"
  BY StartTypes DEF Idle, WorkerState
<1>5. /\ worker'[w] = v /\ worker[w].job \notin Jobs
      /\ \A x \in Workers \ {w} : worker'[x] = worker[x]
  BY <1>1, <1>2, WorkerTypes DEF Busy
<1> HIDE DEF new, v
<1>6. job[j].state \notin Done
  BY <1>2 DEF Eligible, Done
<1>7. /\ job = log /\ health = "ok"
      /\ log' \in [Jobs -> Job]
      /\ health' \in {"ok", "poisoned"}
      /\ \A k \in Jobs \ {j} : job'[k] = job[k] /\ log'[k] = log[k]
      /\ o \in {"ok", "compact"} => job'[j] = new /\ log'[j] = new
      /\ o \notin {"ok", "compact"} => job' = job /\ log'[j] \in {log[j], new}
  BY <1>1, <1>2, <1>3, <1>6, WriteLog
<1>8. o = "ok" <=> health' = "ok"
  BY <1>2 DEF Write
<1>9. OwnersWork'
  <2> SUFFICES ASSUME health' = "ok", NEW k \in Jobs, job'[k].state = "leased"
               PROVE  \E p \in Workers :
                        /\ job'[k].owner = p /\ worker'[p].job = k
                        /\ worker'[p].pc # "load" => worker'[p].n = job'[k].tries + 1
    BY DEF OwnersWork
  <2>1. CASE k = j
    BY <1>3, <1>4, <1>5, <1>7, <1>8, <2>1
  <2>2. CASE k # j
    <3>1. PICK p \in Workers : /\ job[k].owner = p /\ worker[p].job = k
                               /\ worker[p].pc # "load" => worker[p].n = job[k].tries + 1
      BY <1>1, <1>7, <2>2 DEF OwnersWork
    <3> QED
      BY <1>5, <1>7, <2>2, <3>1
  <2> QED
    BY <2>1, <2>2
<1>10. ASSUME NEW k \in Jobs
       PROVE  sends'[k] + One(MaySend(v, k)) + log[k].tries + One(OnLease(k))
                <= sends[k] + One(MaySend(worker[w], k)) + log'[k].tries + One(OnLease(k)')
  <2>1. /\ sends'[k] = sends[k] /\ sends[k] \in Nat
        /\ log[k].tries \in Nat /\ log'[k].tries = log[k].tries
        /\ One(MaySend(v, k)) \in {0, 1} /\ One(MaySend(worker[w], k)) = 0
        /\ One(OnLease(k)) \in {0, 1} /\ One(OnLease(k)') \in {0, 1}
    BY <1>1, <1>2, <1>3, <1>5, <1>7 DEF One, MaySend, Job
  <2>2. CASE o = "ok" /\ k = j
    <3>1. ~ OnLease(k)
      BY <1>2, <1>7, <2>2 DEF OnLease, Eligible
    <3>2. OnLease(k)'
      BY <1>2, <1>3, <1>7, <2>2 DEF OnLease
    <3>3. One(OnLease(k)) = 0 /\ One(OnLease(k)') = 1
      BY <3>1, <3>2 DEF One
    <3> HIDE DEF One, OnLease, MaySend
    <3> QED
      BY <2>1, <3>3
  <2>3. CASE ~ (o = "ok" /\ k = j)
    <3>1. One(MaySend(v, k)) = 0
      BY <1>4, <2>3, StartTypes DEF One, MaySend
    <3>2. OnLease(k) => OnLease(k)'
      <4>1. CASE k = j
        BY <1>2, <1>3, <1>7, <1>8, <2>3, <4>1 DEF OnLease
      <4>2. CASE k # j
        BY <1>2, <1>7, <4>2 DEF OnLease, Alive
      <4> QED
        BY <4>1, <4>2
    <3>3. One(OnLease(k)) <= One(OnLease(k)')
      BY <3>2 DEF One
    <3> HIDE DEF One, OnLease, MaySend
    <3> QED
      BY <2>1, <3>1, <3>3
  <2> QED
    BY <2>2, <2>3
<1>11. SendsPaid'
  BY <1>1, <1>2, <1>4, <1>7, <1>10, StepPays
<1> QED
  BY <1>9, <1>11

\* A step without the workers keeps the account when every job's budget stays.
LEMMA BudgetPays ==
  ASSUME SendInvariant, TypeOK', UNCHANGED <<worker, sends>>,
         \A j \in Jobs : log[j].tries + One(OnLease(j)) + runs + stalls
                           <= log'[j].tries + One(OnLease(j)') + runs' + stalls'
  PROVE  SendsPaid'
<1> SUFFICES ASSUME NEW j \in Jobs
             PROVE  sends[j] + Cardinality(Senders(j))
                      <= log'[j].tries + One(OnLease(j)') + (runs' - 1) + stalls'
  BY DEF SendsPaid, Senders
<1>1. /\ sends[j] \in Nat /\ log[j].tries \in Nat /\ log'[j].tries \in Nat
      /\ runs \in Nat /\ stalls \in Nat /\ runs' \in Nat /\ stalls' \in Nat
  BY DEF SendInvariant, ForwardingInvariant, TypeOK, Job
<1>2. Cardinality(Senders(j)) \in Nat
  <2>1. Senders(j) \subseteq Workers
    BY DEF Senders
  <2> QED
    BY <2>1, ForwardingConstants, FS_Subset, FS_CardinalityType
<1>3. One(OnLease(j)) \in {0, 1} /\ One(OnLease(j)') \in {0, 1}
  BY DEF One
<1>4. sends[j] + Cardinality(Senders(j)) <= log[j].tries + One(OnLease(j)) + (runs - 1) + stalls
  BY DEF SendInvariant, SendsPaid
<1> QED
  BY <1>1, <1>2, <1>3, <1>4

\* A job that is brought has no lease yet.
LEMMA AcceptPays ==
  ASSUME SendInvariant, NEW j \in Jobs, NEW o \in Outcomes, Accept(j, o)
  PROVE  OwnersWork' /\ SendsPaid'
<1>0. ForwardingInvariant'
  BY AcceptKeeps DEF SendInvariant
<1>1. /\ TypeOK /\ LogAhead /\ OwnersWork /\ TypeOK'
      /\ j \in reading /\ log[j].state = "none" /\ job[j].state = "none"
      /\ UNCHANGED <<worker, due, proc, runs, stalls, sends>>
  BY <1>0 DEF SendInvariant, ForwardingInvariant, HandlersBring, LogAhead, Accept, process, history
<1> DEFINE new == [NoJob EXCEPT !.state = "pending"]
<1>2. CASE Write(j, new, o)
  <2>1. new \in Job /\ new.state = "pending" /\ new.tries = 0
    BY StartTypes
  <2> HIDE DEF new
  <2>2. /\ job = log /\ health = "ok" /\ health' \in {"ok", "poisoned"}
        /\ \A k \in Jobs \ {j} : job'[k] = job[k] /\ log'[k] = log[k]
        /\ o \in {"ok", "compact"} => job'[j] = new
        /\ o \notin {"ok", "compact"} => job' = job
        /\ log'[j] \in {log[j], new}
    BY <1>1, <1>2, <2>1, WriteLog DEF Done
  <2>3. OwnersWork'
    BY <1>1, <2>1, <2>2 DEF OwnersWork, Alive
  <2>4. ASSUME NEW k \in Jobs
        PROVE  log[k].tries + One(OnLease(k)) + runs + stalls
                 <= log'[k].tries + One(OnLease(k)') + runs' + stalls'
    <3>1. /\ log[k].tries \in Nat /\ log'[k].tries \in Nat /\ runs \in Nat /\ stalls \in Nat
      BY <1>1 DEF TypeOK, Job
    <3>2. log[k].tries <= log'[k].tries /\ (OnLease(k) => OnLease(k)')
      <4>1. CASE k = j
        BY <1>1, <3>1, <4>1 DEF OnLease, SendInvariant, Counted
      <4>2. CASE k # j
        BY <1>1, <2>2, <3>1, <4>2 DEF OnLease, Alive
      <4> QED
        BY <4>1, <4>2
    <3>3. /\ One(OnLease(k)) \in {0, 1} /\ One(OnLease(k)') \in {0, 1}
          /\ One(OnLease(k)) <= One(OnLease(k)')
      BY <3>2 DEF One
    <3> HIDE DEF One, OnLease
    <3> QED
      BY <1>1, <3>1, <3>2, <3>3
  <2> QED
    BY <1>1, <2>3, <2>4, BudgetPays
<1>3. CASE UNCHANGED store
  <2>1. UNCHANGED <<job, log, health>>
    BY <1>3 DEF store
  <2>2. OwnersWork' /\ \A k \in Jobs : OnLease(k)' = OnLease(k)
    BY <1>1, <2>1 DEF OwnersWork, Alive, OnLease
  <2>3. ASSUME NEW k \in Jobs
        PROVE  log[k].tries + One(OnLease(k)) + runs + stalls
                 <= log'[k].tries + One(OnLease(k)') + runs' + stalls'
    <3>1. log[k].tries \in Nat /\ runs \in Nat /\ stalls \in Nat
      BY <1>1 DEF TypeOK, Job
    <3>2. One(OnLease(k)) \in {0, 1} /\ One(OnLease(k)') = One(OnLease(k))
      BY <2>2 DEF One
    <3> HIDE DEF One, OnLease
    <3> QED
      BY <1>1, <2>1, <3>1, <3>2
  <2> QED
    BY <1>1, <2>2, <2>3, BudgetPays
<1> QED
  BY <1>2, <1>3 DEF Accept

\* Time and the shutdown's steps: a lease in hand is over only in a stall, which
\* pays for it, and one nobody has in hand only where nobody will claim it.
LEMMA TimePays ==
  ASSUME SendInvariant,
         \/ \E j \in Jobs : Begin(j) \/ BackoffOver(j) \/ LeaseOver(j) \/ Stall(j)
         \/ Terminate \/ Drained \/ WorkDone \/ Cancel \/ Exit
  PROVE  OwnersWork' /\ SendsPaid'
<1>0. ForwardingInvariant'
  BY JobKeeps, ShutdownKeeps DEF SendInvariant
<1>1. /\ TypeOK /\ LogAhead /\ OwnersWork /\ TypeOK'
      /\ UNCHANGED <<job, log, health, worker, runs, sends>> /\ (Alive' => Alive)
  BY <1>0 DEF SendInvariant, ForwardingInvariant, Begin, BackoffOver, LeaseOver, Stall, Terminate,
              Drained, WorkDone, Cancel, Exit, store, app, process, history, Alive
<1>2. OwnersWork'
  BY <1>1 DEF OwnersWork
<1>3. ASSUME NEW k \in Jobs
      PROVE  log[k].tries + One(OnLease(k)) + runs + stalls
               <= log'[k].tries + One(OnLease(k)') + runs' + stalls'
  <2>1. /\ log[k].tries \in Nat /\ runs \in Nat /\ stalls \in Nat
        /\ One(OnLease(k)) \in {0, 1} /\ One(OnLease(k)') \in {0, 1}
    BY <1>1 DEF TypeOK, Job, One
  <2>2. CASE \E j \in Jobs : Stall(j)
    <3>1. stalls' = stalls + 1
      BY <2>2 DEF Stall
    <3> HIDE DEF One, OnLease
    <3> QED
      BY <1>1, <2>1, <3>1
  <2>3. CASE ~ \E j \in Jobs : Stall(j)
    <3>1. stalls' = stalls
      BY <2>3 DEF Begin, BackoffOver, LeaseOver, Terminate, Drained, WorkDone, Cancel, Exit, history
    <3>2. ASSUME OnLease(k) PROVE OnLease(k)'
      <4>1. CASE k \in due' => k \in due
        BY <1>1, <3>2, <4>1 DEF OnLease
      <4>2. CASE k \in due' /\ k \notin due
        <5>1. BackoffOver(k) \/ LeaseOver(k)
          BY <2>3, <4>2 DEF Begin, BackoffOver, LeaseOver, Terminate, Drained, WorkDone, Cancel,
                            Exit, app
        <5>2. health = "ok" => job = log
          BY <1>1 DEF LogAhead
        <5>3. health = "ok" /\ Alive => FALSE
          <6>1. CASE BackoffOver(k)
            BY <3>2, <5>2, <6>1 DEF BackoffOver, OnLease
          <6>2. CASE LeaseOver(k)
            BY <1>1, <6>2 DEF LeaseOver, InHand, OwnersWork
          <6> QED
            BY <5>1, <6>1, <6>2
        <5>4. health \in {"ok", "poisoned"}
          BY <1>1 DEF TypeOK
        <5> QED
          BY <1>1, <3>2, <5>3, <5>4 DEF OnLease
      <4> QED
        BY <4>1, <4>2
    <3>3. One(OnLease(k)) <= One(OnLease(k)')
      BY <3>2 DEF One
    <3> HIDE DEF One, OnLease
    <3> QED
      BY <1>1, <2>1, <3>1, <3>3
  <2> QED
    BY <2>2, <2>3
<1> QED
  BY <1>1, <1>2, <1>3, BudgetPays

\* A crash leaves the leases to the restart, which pays for one more request
\* for each job.
LEMMA ProcessPays ==
  ASSUME SendInvariant,
         \/ Crash
         \/ \E R, L \in SUBSET Jobs, l \in Limits : Restart(R, L, l)
  PROVE  OwnersWork' /\ SendsPaid'
<1>1. /\ TypeOK /\ SendsPaid /\ worker' = [w \in Workers |-> Idle]
      /\ UNCHANGED <<stalls, sends>>
  BY DEF SendInvariant, ForwardingInvariant, Crash, Restart, history
<1>2. ASSUME NEW k \in Jobs
      PROVE  /\ sends[k] <= log[k].tries + One(OnLease(k)) + (runs - 1) + stalls
             /\ sends[k] \in Nat /\ log[k].tries \in Nat /\ runs \in Nat /\ stalls \in Nat
             /\ One(OnLease(k)) \in {0, 1} /\ One(OnLease(k)') \in {0, 1}
             /\ Cardinality(Senders(k)') = 0
  <2>1. Senders(k) \subseteq Workers
    BY DEF Senders
  <2>2. Cardinality(Senders(k)) \in Nat
    BY <2>1, ForwardingConstants, FS_Subset, FS_CardinalityType
  <2>3. /\ sends[k] \in Nat /\ log[k].tries \in Nat /\ runs \in Nat /\ stalls \in Nat
        /\ One(OnLease(k)) \in {0, 1} /\ One(OnLease(k)') \in {0, 1}
    BY <1>1 DEF TypeOK, Job, One
  <2>4. sends[k] + Cardinality(Senders(k)) <= log[k].tries + One(OnLease(k)) + (runs - 1) + stalls
    BY <1>1 DEF SendsPaid
  <2>5. Cardinality(Senders(k)') = 0
    BY <1>1, NobodySends
  <2> HIDE DEF One, OnLease, Senders
  <2> QED
    BY <2>2, <2>3, <2>4, <2>5
<1>3. CASE Crash
  <2>1. UNCHANGED <<log, health, runs>> /\ ~ Alive'
    BY <1>3 DEF Crash, Alive
  <2>2. ASSUME NEW k \in Jobs
        PROVE  One(OnLease(k)) <= One(OnLease(k)')
    BY <2>1 DEF OnLease, One
  <2>3. ASSUME NEW k \in Jobs
        PROVE  sends'[k] + Cardinality(Senders(k)')
                 <= log'[k].tries + One(OnLease(k)') + (runs' - 1) + stalls'
    <3> HIDE DEF One, OnLease, Senders
    <3> QED
      BY <1>1, <1>2, <2>1, <2>2
  <2> QED
    BY <2>1, <2>3 DEF OwnersWork, SendsPaid
<1>4. ASSUME NEW R \in SUBSET Jobs, NEW L \in SUBSET Jobs, NEW l \in Limits, Restart(R, L, l)
      PROVE  OwnersWork' /\ SendsPaid'
  <2>1. /\ job' = Recovered(R) /\ log' = Recovered(L) /\ runs' = runs + 1
        /\ health' = "ok" => R = {j \in Jobs : log[j].state = "leased"}
    BY <1>4 DEF Restart
  <2>2. /\ \A k \in R : job'[k].state = "pending"
        /\ \A k \in Jobs \ R : job'[k] = log[k]
        /\ \A k \in Jobs : log'[k].tries = log[k].tries
    BY <1>1, <2>1, RecoveredTypes
  <2>3. OwnersWork'
    BY <2>1, <2>2 DEF OwnersWork
  <2>4. ASSUME NEW k \in Jobs
        PROVE  sends'[k] + Cardinality(Senders(k)')
                 <= log'[k].tries + One(OnLease(k)') + (runs' - 1) + stalls'
    <3> HIDE DEF One, OnLease, Senders
    <3> QED
      BY <1>1, <1>2, <2>1, <2>2
  <2> QED
    BY <2>3, <2>4 DEF SendsPaid
<1> QED
  BY <1>3, <1>4

\* Every step keeps the account.
LEMMA EveryStepPays ==
  ASSUME OneLimit, SendInvariant, [Next]_vars
  PROVE  OwnersWork' /\ SendsPaid'
<1>1. ASSUME NEW j \in Jobs, \/ Begin(j) \/ BackoffOver(j) \/ LeaseOver(j) \/ Stall(j)
                             \/ \E o \in Outcomes : Accept(j, o)
      PROVE  OwnersWork' /\ SendsPaid'
  BY <1>1, TimePays, AcceptPays
<1>2. ASSUME NEW w \in Workers, Worker(w)
      PROVE  OwnersWork' /\ SendsPaid'
  BY <1>2, WorkersPay, GiveUpPays, RecordPays, ClaimPays DEF Worker
<1>3. CASE Process
  BY <1>3, TimePays, ProcessPays DEF Process, SomeRestart
<1>4. CASE UNCHANGED vars
  <2>1. UNCHANGED <<job, log, health, due, worker, proc, runs, stalls, sends>>
    BY <1>4 DEF vars, store, app, process, history
  <2>2. OwnersWork /\ SendsPaid
    BY DEF SendInvariant
  <2> QED
    BY <2>1, <2>2 DEF OwnersWork, SendsPaid, Senders, OnLease, Alive
<1> QED
  BY <1>1, <1>2, <1>3, <1>4 DEF Next

\* The account is kept, when the process is always started with one -attempts.
THEOREM SendsArePaid ==
  ASSUME OneLimit
  PROVE  Spec => []SendInvariant
<1>1. ASSUME Init PROVE OwnersWork /\ SendsPaid
  <2>1. /\ job = [j \in Jobs |-> NoJob] /\ log = job /\ worker = [w \in Workers |-> Idle]
        /\ runs = 1 /\ stalls = 0 /\ sends = [j \in Jobs |-> 0]
    BY <1>1 DEF Init
  <2>2. OwnersWork
    BY <2>1, StartTypes DEF OwnersWork
  <2>3. ASSUME NEW k \in Jobs
        PROVE  sends[k] + Cardinality(Senders(k))
                 <= log[k].tries + One(OnLease(k)) + (runs - 1) + stalls
    <3>1. Cardinality(Senders(k)) = 0
      BY <2>1, NobodySends
    <3>2. One(OnLease(k)) \in {0, 1} /\ log[k].tries = 0
      BY <2>1, StartTypes DEF One
    <3> HIDE DEF One, OnLease, Senders
    <3> QED
      BY <2>1, <3>1, <3>2
  <2> QED
    BY <2>2, <2>3 DEF SendsPaid
<1>2. OwnersWork /\ SendsPaid /\ ForwardingInvariant /\ Counted /\ [Next]_vars
        => OwnersWork' /\ SendsPaid'
  BY EveryStepPays DEF SendInvariant
<1>3. ForwardingInvariant /\ Counted /\ OwnersWork /\ SendsPaid => SendInvariant
  BY DEF SendInvariant
<1> QED
  BY <1>1, <1>2, <1>3, Invariance, AttemptsCounted, PTL DEF Spec

\* docs/operations.md, "-attempts ... bound delivery attempts": a job is sent at
\* most that often, and once more for each restart and each stall (forward,
\* RecordAttempt, RecoverLeases).  With a smaller -attempts in a later run it
\* does not hold: what was sent beyond the limit is refused and sent again.
THEOREM SendsAreBounded ==
  ASSUME OneLimit
  PROVE  Spec => []SendsBounded
<1>1. ASSUME SendInvariant, NEW j \in Jobs
      PROVE  sends[j] <= HighestLimit + (runs - 1) + stalls
  <2>1. /\ sends[j] \in Nat /\ log[j].tries \in Nat /\ runs \in Nat /\ stalls \in Nat
        /\ HighestLimit \in Nat
    BY <1>1, HighestIsLargest DEF SendInvariant, ForwardingInvariant, TypeOK, Job
  <2>2. Senders(j) \subseteq Workers
    BY DEF Senders
  <2>3. Cardinality(Senders(j)) \in Nat
    BY <2>2, ForwardingConstants, FS_Subset, FS_CardinalityType
  <2>4. log[j].tries + One(OnLease(j)) <= HighestLimit /\ One(OnLease(j)) \in {0, 1}
    BY <1>1, <2>1 DEF SendInvariant, Counted, OnLease, One, Done
  <2>5. sends[j] + Cardinality(Senders(j)) <= log[j].tries + One(OnLease(j)) + (runs - 1) + stalls
    BY <1>1 DEF SendInvariant, SendsPaid
  <2> HIDE DEF One, OnLease, Senders
  <2> QED
    BY <2>1, <2>3, <2>4, <2>5
<1>2. SendInvariant => SendsBounded
  BY <1>1 DEF SendsBounded
<1> QED
  BY <1>2, SendsArePaid, PTL

=============================================================================
