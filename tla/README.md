# Relaybox: specifications, model checking and proofs

Relaybox (Go, `src/internal` and `src/cmd`) captures webhooks into an append-only log,
forwards them to a fixed destination with retries, and shows them to an operator in a
browser page; a second command verifies its releases. This directory holds TLA+ modules
for these parts, the TLC configurations that check them on small instances, and proofs
that TLAPS checks for all instances.
`PROJECT.json` lists components, runs, mutants, hazards, findings, theorems, and for each
definition the source lines it stands for.

    tlc -workers 2 -config Forwarding.cfg MCForwarding
    tlapm EventLogProofs.tla      # or another of the modules with theorems below

## Inventory

| part | state | operations | what is hard | what makes it correct |
|---|---|---|---|---|
| **Store** (`store.go`) | maps of captures, jobs, attempts; two idempotency indexes; `health` | `Accept`, `Enqueue`, `ClaimNextJob`, `RecordAttempt`, `FinishWithoutAttempt`, `RecoverLeases`, `Load`, `Open`, `Close` | an append fails before, in or after its durable point; process ends anywhere; retention must not take what is needed | keys find their captures; no orphans; bounds; unfinished work stays; an acknowledged capture stays; a store that takes writes equals its log |
| **Event log** (`appendLocked`, `recover`, `compactLocked`, `Load`) | file, directory entry, descriptor, offsets, `seq`, `eventCount`, `mu`, `fileMu` | append, compaction, recovery, read beside both | a stop between any two system calls; what a file system keeps; readers during a swap; lock order | any stop leaves a log recovery accepts, with all that was promised; sequence numbers never fall back; readers find their records; nobody waits for ever |
| **Redaction migration** (`RedactHeaders`) | headers in memory, ring and file | once per start | evicted records are in the file only | no plain header can come back |
| **Ring and live events** (`appendRing`, `SubscribeFrom`, `App.events`) | ring within two bounds, subscriber channels, per client a cursor | publish, subscribe, catch up, live, cancel | two locks, slow clients, gaps in the numbering | in order, once, no silent gap, nobody left over, persistent clients catch up |
| **Forwarding** (`App.worker`, `forward`, `signalWork`, `Wait`, `Shutdown`) | worker goroutines and their locals, `wake` channel, context | hint, tick, claim, load, send, record; shutdown in three stages | everything between two store calls; leases that expire; dropped hints; shutdown races | one worker per job, sends bounded, work finished, shutdown ends and a clean one leaves nothing |
| **Inbox handler** (`ingest`, `replay`) | in-flight semaphore | one request | its place in the shutdown | with Forwarding |
| **Operator gate, sessions** | none (the cookie is a hash of the token) | one request | a session outlives the process that gave it | with the web inspector |
| **Search and listing** | none (reads the maps) | page | bounds of pages and of the scan | pagination is complete |
| **Outbound request** (`forwardHeaders`, `parseRetry`, `backoff`, dial guard) | none | one request | two redaction policies, one at capture and one at sending; overflow | nothing hidden leaves; the time to wait is within bounds; one result per answer |
| **Web inspector** (`app.js`) | selected capture, shown detail, event source, timers | clicks, events, replies in any order | every listener awaits requests while others run; the stream, the server and the session come and go | one stream; the selection is the user's; a lost stream is replaced |
| **Command line** (`main.go`) | flags | start, signal, exit | order of the shutdown | with Forwarding |
| **Release checker** (`distcheck`) | locals of nested loops | one pass over a directory, a manifest, archives and their entries | sets compared by counting, repeats and omissions that cancel out, limits, trailing data | accepts exactly the complete releases |

The handlers and the workers call methods of the store, which lock `mu`; workers are woken
through `wake`, a channel of hints that may be dropped; the store publishes every event to
the channels of its subscribers, which the SSE handlers read; payloads are read from the
file beside all of that, under `fileMu`.

## Modules

| module | what it is |
|---|---|
| `JobLifecycle` | the promise about forwarding jobs: durable states, the steps between them, attempts on record. The state machine of `docs/architecture.md`, abstract over memory, workers and failures |
| `RelayStore` | the store's maps, in memory (`mem`) and as recovery would rebuild them (`disk`); implements `JobLifecycle` |
| `Forwarding` | the workers, hints, leases, shutdown, crash and restart; store methods are single steps; implements `JobLifecycle` |
| `EventLog` | the file under the store: write, sync, rename, directory sync, descriptors, readers, recovery, compaction, redaction migration |
| `EventStream` | the ring, the subscribers, the SSE handler and its clients |
| `Inspector` | the page `app.js`: its listeners between their awaits, over the operator handlers and their gate |
| `Outbound` | what `forward` decides about one request: headers, addresses, results, times to wait. Operators only |
| `Release` | `distcheck.Verify`, loop by loop |
| `RelayStoreProofs`, `RelayStorePromises` | theorems about `RelayStore`: its maps and indexes; on top of them what it promises about jobs, attempts and replies |
| `ForwardingProofs`, `EventLogProofs`, `EventStreamProofs`, `ReleaseProofs`, `InspectorProofs`, `OutboundProofs` | theorems about the module of that name |
| `MC*` | instances for TLC: model values and symmetry; `MCRelease` builds the directories; `MCForwarding` and `MCRelease` also evaluate operators over small inputs (their ASSUMEs) |

`RelayStore`, `Forwarding` and `EventLog` meet at `appendLocked`. `RelayStore` and
`Forwarding` use its four outcomes (`"ok"`; `"lost"`: not in the file; `"unsynced"`: in
the file although an error was returned; `"compact"`: durable and applied, but the
compaction behind it failed). `EventLog` is where these come from: it takes an append
apart into system calls. `RelayStore` and `Forwarding` are both shown to implement
`JobLifecycle` by a refinement mapping (`Lifecycle == INSTANCE JobLifecycle WITH ...`);
it maps the log, not memory, so it says what a restart may find.

`Forwarding` and `Outbound` meet in `forward`: the three `Answers` of `Forwarding` are the
classes of `Outcome` (`MCForwarding!AnswersAreComplete`). `Inspector` and `EventStream` meet
at the subscription: `EventStream` has what the server sends on one stream, `Inspector`
which streams the page has.

A definition under a comment that begins *Variant* is a wrong twin of the definition after
it, as a plausible bug would write it. Nothing uses it. Each property is known to fail when
the twin named with it in `PROJECT.json` takes the place of the original.

### RelayStore

Every method of `Store` that writes holds `mu` from its first read to the return of
`appendLocked`, so each is one action: `AcceptNew`, `AcceptDuplicate` and `AcceptRepair`
(the three ways through `Accept`), `Enqueue`, `ClaimNextJob`, `RecordAttempt`,
`FinishWithoutAttempt`, and `RecoverLease` for an iteration of `RecoverLeases`. An
error return that changes nothing is a stutter and has no action. `Apply` is
`Store.apply` in its order: jobs evicted, captures evicted, capture, attempt, job.

- *Time* is an argument. The store compares the times that callers stamped before they took
  the lock, so they come in any order; 0 is Go's zero time.
- *Phases*: `down`, `starting` (recovery and `App.New`), `up`. `New` goes on when
  `RecoverLeases` fails, and so does `Serve`.
- *History*: `acked` is the strongest reply a client got for a capture, `claimed` the jobs
  this process has claimed.
- *Initial logs* include those of versions without atomic intents (`queued`, `running`,
  `failed`, captures without a job).

Abstracted: payloads, URLs and error texts; the generated IDs are any unused ones. A
conflict (same delivery ID, other body) is answered without a change and has no action.

### Forwarding

A worker's `pc` is its place in `worker` and `forward`: `wait` (the select), `claim`,
`load`, `send` (before `Client.Do`), `answer`, `record`, `check`, `exited`. Its locals
`job`, `n` (read before the request, used after it) and `answer` are state, since
everything may happen between two of its steps. Time is a set `due` of jobs whose lease
or back-off is over. `LeaseOver` is for a lease nobody works under any more (after a failed
record); `Stall` lets one expire under a live worker, `MaxStalls` times. `proc` follows
`serve`: `up`, `draining` (`http.Server.Shutdown`), `waiting` (`App.Wait`), `cancelled`,
`stopped`; `Crash` leads to `down` and `Restart` back, with `RecoverLeases` interrupted
anywhere. Only `ingest` looks at `App.accepting`; a replay may begin as long as
`http.Server.Shutdown` waits for connections, or once it has given up.

### EventLog

`pc` is how far the holder of `mu` is; a `Load` between its halves is `reader`. Files have
contents and a synced length, the directory an entry and a synced entry. `Kill` keeps what
was written; `PowerLoss` keeps what was synced and any longer prefix, with a torn record
possibly at the end, under the old or the new directory entry. The log starts as one that an
earlier version left (`ExistingLog`) or not at all (`NewInstallation`: the path names `"none"`,
now and after a loss of power), and `Open` then creates it without syncing a directory. `allowed` is the set of
states a restart may bring back: the last one that was answered for, and those of operations
under way or failed.
`RecoverRecord` is the loop of `recover` with its checks (contiguous numbers, valid state,
no snapshot record after a mutation), `WholeRecords` the cut of the torn record, `Replayed`
the loop over a log, a recursive function of the number of records read. An event
is reduced to what these checks read. Not modelled: temporary files left behind by a kill,
which nothing reads.

`machine` is the platform and what can go wrong with it, one of `Machines`. `"entries"` is a file
system whose first sync of a new file commits the directory entries that lead to it, too, which
POSIX does not promise and the code does not ask for. The attribute only matters until the path
names a file after a loss of power, so an existing log behaves the same on any machine. On Windows a
compaction closes the old file before the rename (`CloseOld`) and opens whatever the path
names when the rename has failed, which may fail as well: `f` is then `"closed"` and the store
poisoned. `syncDirectory` does nothing on Windows, and what a loss of power leaves of a rename
there is for the file system to say, so only kills are considered on it. Elsewhere the old
file is closed last, and a `close` that fails poisons a store that is otherwise complete.

### EventStream

An event is a number and a size. The handler's `pc`: `asked` (it has a cursor, from
`Last-Event-ID` or from `Sequence()` in a lock of its own), `catchup` (what
`SubscribeFrom` gave it), `live` (its channel). `client` is what the client has; it
reconnects with its last number, or afresh after a 409. A compaction makes the numbers jump
and does not touch the ring; a restart fills the ring from the log. `RestartRedacted` is a restart
under a policy that hides more: the events of the ring are rewritten, which makes them larger or
smaller, the ring is counted and cut again, and the log is compacted, before a client is served.
`Trimmed` is the longest end of the ring within both bounds, which is what the code's loop of
removals leaves; `After` is what of a log a cursor has not seen.

### Inspector

A listener of the page is an asynchronous function: it runs up to an `await`, and what
follows is run when the reply is there, after anything else that has happened meanwhile.
`call[c]` is one such call under way: the function it is `of`, the request it is `at` (or
the `"timer"`), what that is `about`, the credential it was sent `as`, and how far it is
(`asked`, `ok`, `failed`). `Login`, `Search`, `Click`, `PressReplay`, `Dispatch` and
`StreamError` begin a call; `Unlocked`, `TimerFires`, `Listed`, `Replayed`, `Shown` are what
the page does after a reply, up to its next `await` or its end; `Fails` is every `catch`.
`ShowRequest` is shared by three of them as in the code. `Serve` is the handler
with `operator` before it, in which credential and token are compared as they are at that
moment: a server may have stopped and started with another token (`Stop`, `Start`), and a
session may be over (`SessionEnds`). `Lose` loses a request or its reply.

A stream is `closed`, `connecting`, `open` or `lost`; `backlog` are events the browser has
and the page has not yet handled. `Tokens` are compared only with one another. Lists are
reduced to having been shown: a click may be on any capture that has come, also on one that
has been evicted since (`"gone"`, a 404).

### Outbound

A header name is what the code asks of it: its canonical form, the words it is made of,
whether a marker ("token", "secret", ...) is in it; a value is its text and the names it
lists. An address is a class. Numbers are numbers: `Backoff` multiplies and divides as the
code does, and becomes negative beyond `MaxDuration`, which is the conversion of a
`float64` that does not fit (amd64).

### Release

`pc` is the loop the verifier is in: `tag`, `discover`, `manifest`, `lines`, `inspect`
(between archives), `entries`, `smoke`; then `accepted` or `refused`. Directories and
archives are looked at in any order, which covers the sorted one. A file name is what
`parseArchiveName` makes of it, a digest the content it was made of, an entry the answers
to the questions `visit` asks. `Break` is a read that fails, or an executable that does
not come to an end, at any point. `Complete` says without loops, counters or maps what a
release is; the properties compare the verdict with it in both directions.

## Runs

Every bound is named in its module's CONSTANTS. All runs but the two of the store and
`release` set `CHECK_DEADLOCK FALSE`: the system may stop there (a bound is reached, the
process has exited, recovery refuses a log).

| run | instance | what it shows |
|---|---|---|
| `relay_store` | 2 captures, 2 jobs, 1 delivery ID, 1 body, 1 worker, 2 times, 1 slot for captures and for jobs, 2 attempts | `AttemptsMatchStates`, `HealthyIsDurable`, `NoForeignLease`, and `FollowsLifecycle`: the store implements `JobLifecycle`. One slot makes every capture and replay evict; two times are enough for a lease or a back-off to be over or not, and for each order of two jobs |
| `relay_store_retention` | 3 captures for 2 slots, 2 bodies, with or without the delivery ID | `OneCapturePerKey`, `NoOrphanJob`, `RetentionBounds`, `AckedIsDurable`, `UnfinishedNeverEvicted`. Three captures for two slots is the least where a choice of what to evict exists; time is constant, so that choice is free |
| `forwarding` | 2 jobs, 2 workers, 1 hint, limit 2, one stall | `WorkIsOwned`, `SendsBounded`, `FollowsLifecycle` with both workers after the same job. The channel of one hint is full whenever it is not empty |
| `forwarding_live` | 2 jobs, 1 worker, 2 runs of the process | under `FairSpec`: `WorkIsFinished`, `ShutdownEnds`; and `CleanStopLeavesNothing`, `FollowsLifecycle` over a restart |
| `event_log` | 2 requests, a new log or an existing one, a compaction behind every second append, a reader; on Windows with processes that are killed, or on another system, which loses power and commits a new file's entry with its first sync | under `FairSpec`: `AnyCrashKeepsPromises`, `CursorsStayValid`, `NoPlainHeaders`, `LoadFindsItsRecords`, `LocksAreReleased`. `MaxSeq` 6 allows two compactions with an append between them. A kill leaves at each step the files it leaves elsewhere, and Windows has one step more, so its order stands for both. Machines that do not commit the entries of new files (`event_log_new`), or meet both kinds of crash, are under Findings, 3 |
| `event_stream` | 1 client, ring of 2 events or 3 bytes, channel of 1, compactions of 1 or 2 records | `NoSilentGap`, `InOrder`, `NothingIsMissed`, `SubscribersAreServed`, `ClientsCatchUp`. Clients share nothing but the ring, which they do not change, so one is enough |
| `inspector` | 2 calls and 2 streams at a time, 2 captures (1 at the start), 1 token or none, 1 event, 1 fault | under `FairSpec`: `OneStream`, `SelectionIsUsers`, `StreamComesBack`. Two calls are the least that can overlap, and each pair of listeners does; the proofs cover any number. One fault is a lost request, a lost stream, a server that stops or a session that ends |
| `release` | 3 targets (one Windows), 1 document, 2 versions, limit of 2 entries; 1 mistake of 8 kinds in an entry, 6 in a file, 4 in the list of entries, before or after the manifest was made, with 8 kinds in the manifest | `AcceptedIsComplete`, `CompleteIsAccepted`. The limit is what a good archive has, so that it is met; three targets let a repeat stand for an omission |
| `forwarding_lowered`, `forwarding_cancelled`, `event_log_new`, `event_stream_oversized` | the smallest instances | violations, see Findings |

`TypeOK` is checked in one run of each module.

The runs of `MCForwarding` evaluate `DelaysAreBounded`, `AnswersAreComplete`,
`HeadersAreClean` and `GuardsAgree` over `Outbound`, those of `MCRelease` `TagsAreSemantic`
over `ValidTag`: small inputs, with the boundaries, against a plain statement of what the
function is for.

### Fairness

- `Forwarding`: goroutines run and timers fire (`WF` on workers, back-off, lease expiry);
  a Go select takes each of its ready cases with equal chance, so a worker does not pass over
  the cancelled context for ever (`SF` on `Leave`); `Client.Do` has a timeout; the
  deadline of the shutdown comes (`WF` on `Drained`, `Cancel`), and it is this and not the
  good will of handlers that `ShutdownEnds` rests on; `compose.yml` restarts a process that
  crashed. No fairness for requests, signals, failures, stalls.
- `EventLog`: system calls return, and a lock that is free goes to who waits (`WF` on the
  writer and the reader).
- `EventStream`: handlers run, browsers reconnect, a connection is not cut every single time
  it is about to carry an event (`SF` on the two sends), a crashed process comes back. All of
  its conclusions except while the store is poisoned or the server is down.
- `Inspector`: `fetch` settles, timers fire, and what follows an `await` is run (`WF` for each
  call); a lost stream has its `error` delivered (`SF`, since the bound on calls can take
  the step away again and again, which the browser has no such bound to do). Servers need
  not be started, users need not act, and `StreamComesBack` stops where the page does: at a
  load after the error that fails.

## Findings

Four statements of the documents that the code does not keep; each is a run that TLC refutes,
with the trace described in `PROJECT.json`.

1. **`forwarding_lowered`**: after a restart with fewer `-attempts`, a job that already has as
   many attempts on record is sent again for every expired lease, for ever: `RecordAttempt`
   refuses each attempt, so the job never leaves `leased` (`store.go:798`).
2. **`forwarding_cancelled`**: an attempt whose request was never sent, because the shutdown
   had cancelled the context, is recorded and counted (`app.go:684`); a job can be
   dead-lettered without having been sent, against "at least once".
3. **`event_log_new`**: a new installation creates its log without syncing the directory
   (`store.go:120`, `store.go:123`; the one call of `syncDirectory` is in a compaction). On a file
   system that syncs a file without its directory entry, a loss of power before the first
   compaction may take the file with all that was acknowledged on it.

   That `OpenWithOptions` syncs no directory has a second consequence, which the same configuration
   shows with `Machines = {{"kill", "power", "entries"}}`, where new files are safe: killed between
   rename and directory sync (`store.go:1328`, `store.go:1343`), the store opens the new file by its
   path and acknowledges events on it; a later loss of power may bring the old file back.
   This takes both kinds of crash, and a file system that does not commit the rename with the
   file's own sync.
4. **`event_stream_oversized`**: an event larger than the whole ring empties it, and an empty
   ring accepts any cursor instead of answering 409 (`store.go:1218`). A client whose connection
   ends just before that event reconnects, is given the one behind it, and is not told.

Another is visible in `EventStream` and not a run: when the compaction behind an append fails,
the event is durable but not published (`AppendCompactFails`); `NothingIsMissed` therefore
speaks of a healthy store.

Two more are visible in `Inspector`. `docs/architecture.md:41` lets clients reconnect "from
their last delivered sequence"; the page closes its event source on the first error, loads the
list and opens a new one, which sends no `Last-Event-ID`: events between the load and the
subscription are not shown until the next one comes, and if the load fails (a restart that
takes more than a second) the page does not try again (`app.js:95`). And `showRequest` sets
the selection before it asks for the detail: after two clicks whose answers come in the
other order, or one that fails, the detail shown and the capture that the replay button acts on
are different (`app.js:58`).

## Proofs

Every theorem is about every value of the constants. Hypotheses are the assumptions on
constants named below, in the module that declares them, and for some theorems a condition
stated with the theorem, each of which excludes one of the findings.

Every invariant and every safety action property that a run checks is proved, and both
refinements of `JobLifecycle`.

### The store

`RelayStoreProofs` and `RelayStorePromises`, from `StoreConstants` (the bounds are natural
numbers, the identifiers finite sets) and `NoneIsNothing` (the sentinel is no value of the store):

| theorem | property |
|---|---|
| `TypeCorrect` | `TypeOK` |
| `Idempotent` | `OneCapturePerKey` |
| `JobsHaveCaptures` | `NoOrphanJob` |
| `Durable` | `HealthyIsDurable` |
| `UnfinishedKept` | `UnfinishedNeverEvicted` (an action property) |
| `Invariance` | their common inductive invariant |
| `AttemptsMatch` | `AttemptsMatchStates` |
| `RetentionIsBounded` | `RetentionBounds` |
| `LeasesAreOurs` | `NoForeignLease` |
| `RepliesAreDurable` | `AckedIsDurable` |
| `PromisesKept` | the inductive invariant of the last four |
| `LogFollowsLifecycle` | `FollowsLifecycle`: the log implements `JobLifecycle` |

*The invariants*. `StoreInvariant == TypeOK /\ Indexed(mem) /\ Indexed(disk) /\
HealthyIsDurable`, with `Indexed(S) == KeysIndexed(S) /\ JobsIndexed(S)`. None of its parts
is inductive alone. An event is chosen by looking at memory and applied to the log, so that
the log stays indexed only because memory equals it (`HealthyIsDurable`) when the store is
healthy, which is when it appends. Evicting the jobs of a capture with it is right only if the
job index is exact, and a duplicate is recognised only if the key index is.
`PromiseInvariant` adds that attempts are numbered and the bounds kept in memory and in the
log (`Kept`), and `RepliesHold`: a poisoned store still acknowledges duplicates from memory,
which is no longer the log, so what memory retains must be in the log, with a job if it has
one in memory, unless the very append that poisoned the store evicted it there.

*The argument*. Lemmas about the operators first: `RemoveJobs`, `RemoveRequests`,
`PutRequest`, `PutJob`, `PutAttempt` keep types and indexes. `Legal(S, e)` collects what
the methods check before they append; `ApplyKeeps` shows that applying a legal event keeps
the maps well-formed. `StepCases` shows that every step of `Next` is one of four: a legal
event is appended, the log is recovered, the store is poisoned, or the maps are left alone.
The invariants and `UnfinishedKept` are proved over these cases and not over the actions.
For the promises an event is also `Purposeful`: it brings a capture or a job, with room made for
it, or it takes one job a step on, with the attempt whose number is next or with none. The
bounds need the cardinality of what `captureEvictionsLocked` and the two job bounds evict
(`FiniteSetTheorems`). The refinement is proved job by job: what an appended event makes of a
job in the log is a step of `JobLifecycle` or none.

### Forwarding

`ForwardingProofs`, from `ForwardingConstants`: finitely many workers (`-concurrency`), and
among the values of `-attempts` of the runs a largest one (`main.go` allows 1 to 10). Any
number of jobs, runs, stalls and hints.

| theorem | property |
|---|---|
| `Types` | `TypeOK` |
| `NobodyShares` | `WorkIsOwned` |
| `CleanStopIsClean` | `CleanStopLeavesNothing` |
| `WorkFollowsLifecycle` | `FollowsLifecycle`: jobs on record take steps of `JobLifecycle` only |
| `SendsAreBounded` | `SendsBounded`, under `OneLimit` |
| `Invariance`, `AttemptsCounted`, `SendsArePaid` | the invariants they rest on |

*The invariant*. `ForwardingInvariant` says besides the types where memory and log may differ
(`LogAhead`: by the one write that poisoned the store, and never by a finished job), that a
handler that still reads is the one that will bring its job, that a worker has a job exactly
between claim and record (`AtWork`), that the lease of work in hand is not over (`Owned`,
without which `WorkIsOwned` is not inductive: another claim could take the job), and what each
stage of a clean shutdown has seen (`CleanStop`).

*The argument*. A step of a worker moves it on by itself, writes a job through the store, or
does both. `LogStep` says what a step makes of the log: nothing, one job brought to a state
that may follow its own, or, at a restart, leased jobs given back. Every step of `Next` is a
`LogStep` (`NextIsLogStep`), and a `LogStep` is a step of `JobLifecycle` or a stutter; the count
of attempts is kept by it too.

The bound on sends is an account (`SendsPaid`): what was sent for a job, and what workers may
still send, is at most its attempts on record, one for a lease that still waits for its attempt,
the restarts and the stalls. A claim buys the lease, a record turns it into an attempt, a restart
or an expired lease of a stalled worker pays for what is sent again. `RecordAttempt` must not
refuse what the owner of a lease brings (`OwnersWork`, `RecordPays`): that is where the condition
`OneLimit` (all runs have the same `-attempts`) is used, and where the run `forwarding_lowered`
shows that it is needed.

### The event log

`EventLogProofs`, from `EventLogConstants` (the bounds are natural numbers): any requests, any
number of appends, compactions, crashes and readers.

| theorem | property |
|---|---|
| `LogBounds` | `TypeOK` |
| `CrashesKeepPromises` | `AnyCrashKeepsPromises` |
| `NumbersGoOn` | `CursorsStayValid` |
| `HeadersStayRedacted` | `NoPlainHeaders` |
| `ReadsFindTheirRecords` | `LoadFindsItsRecords` |
| `Logging` | their inductive invariant |

All are proved from the creation of the log on, under two conditions on the machines. Each
excludes one case of finding 3, in which `AnyCrashKeepsPromises` is false:

- `OneKindOfCrash`: a machine that loses power does not also kill the process (the
  second case of finding 3), and is not Windows, where nothing syncs the directory.
- `EntriesAreSynced`: a machine that loses power commits the directory entry of a new file with
  the file's first sync (the first case, run `event_log_new`). It matters to a new log only: an
  existing one takes the same steps on a machine without the attribute.

The theorems do cover kills on systems other than Windows, which the run leaves to its Windows
machine.

*The argument* has two halves. The first is about logs, without states. A log is `Sound` when
recovery accepts it, has no torn record in it, and finds every retained object where the
recovered references say. The empty log is sound; so is a sound one with one more event that
passes the checks of the methods (`SoundAppend`; `Joins`, `EventJoins`), the logs of earlier
versions (`LegacySound`), and what a compaction writes: `SnapshotSound` shows, for any state that
came from a log, that its snapshot is sound and brings the same state back, numbered on from it.
Recovery of a log with a torn end is recovery of the log before it (`TornCut`). What `Replayed`
computes is proved record by record (`ReplaySteps`, `ReplayAppend`), with inductions over numbers
made by hand from the well-ordering of `Nat` as `AllNumbers` and `NumbersUpTo`.

The second half is about files (`LogInvariant`): whatever a crash may leave is a log that brings
back an allowed state and no number before one that was shown (`CrashesAreGood`); at each `pc`,
which file holds the log that matches memory, and which the snapshot (`MemoryIsLogged`); what of
that, and of the directory entry, is synced where power may be lost (`DiskIsSynced`); that the open file is the one the
references are about, and when a file may be closed (`FileIsOpen`); that a read under way has the
open file, since compactions wait for it (`ReadingIsSafe`). One lemma per action.

### Live events

`EventStreamProofs`, from `EventStreamConstants` (bounds are positive numbers):

| theorem | property |
|---|---|
| `StreamBounds` | `TypeOK` |
| `OnlyReadersSubscribe` | `SubscribersAreServed` |
| `NothingTwice` | `InOrder` (an action property) |
| `HandlersHaveAll` | `NothingIsMissed`, under `EveryEventFits` |
| `GapsAreTold` | `NoSilentGap`, under `EveryEventFits` |
| `Streaming`, `GapsAreLast` | the inductive invariants |

*The argument* is about three sequences, the log, the ring and what a handler has in hand
(its catch-up slice, then its channel): each is in order, and each covers what was appended from
its first event on. `StreamInvariant` has the order, the bounds and that a handler that is served is
a subscriber. `GapInvariant` says what a handler may lack: only what comes after all it has, and
only once it was cut off or an append has failed. That needs the ring to be empty only before the
first event, which is the condition `EveryEventFits` (no event is larger than the ring's bytes);
`event_stream_oversized` shows what happens otherwise.

### Release, inspector, outbound requests

`ReleaseProofs` proves, from `ReleaseConstants` (the limit on entries leaves room for the
required ones; names of targets and documents do not collide; a directory has one file per
name), for any targets, documents, limits and directories:

| theorem | property |
|---|---|
| `TypesHold` | `TypeOK` |
| `Accepted` | `AcceptedIsComplete` |
| `Refused` | `CompleteIsAccepted` |
| `Invariance` | their inductive invariant |

*The invariant* says per loop what of the directory has been established and that nothing
has been skipped: the archives discovered are those not unread, with distinct targets and one
version; the lines before `line` are valid, distinct and match; `listed` are their names;
what was inspected holds what it must. *The argument* needs a counting step where the code
does: a manifest of as many lines as archives, all distinct and each matching an archive,
omits none, and conversely a complete release passes the test of the length; and an
archive with each required entry once has no more entries than the limit allows. These are
lemmas on finite sets (`FiniteSetTheorems`). `Refused` is proved by showing that each of
the verifier's tests, at the place where it is made, holds of a complete release.

`InspectorProofs` proves, from `InspectorConstants` (the sentinel is no capture, token or
stream):

| theorem | property |
|---|---|
| `TypesHold` | `TypeOK` |
| `AtMostOneStream` | `OneStream` |
| `SelectionStays` | `SelectionIsUsers` |

*The invariant* adds that a detail or replay under way is about a capture and that something
is selected then (`CallsHaveSubjects`), which is what makes an enabled button safe, and
that backlogs are bounded by the events there were. One lemma per action; `AskingKeeps`,
`ReturnKeeps` and `ShowRequestKeeps` are shared by the actions as their operators are.

`OutboundProofs` has three theorems about operators: `ForwardedIsClean` (exactly the
values leave that neither policy hides and that do not belong to the connection, although
the second policy sees headers the first has redacted), `DelayWithinBounds` (0 to
`MaxBackoff`, for the ten attempts that `-attempts` allows and a base of at most 1/640 of
the longest `Duration`, some 166 days: `BackoffFits`; `MCForwarding` shows one unit more to
overflow) and `OneOutcome`.

### Only model-checked

Liveness (`WorkIsFinished`, `ShutdownEnds`, `LocksAreReleased`, `ClientsCatchUp`,
`StreamComesBack`), `DeadLetterWasSent` and the other refuted statements, and the evaluations of
`MCForwarding` and `MCRelease`. Liveness under fairness is out of the prover's reach. So are the
library's induction theorems, which take an operator as a parameter; where a proof needs an
induction (over the records of a log, over the requests of a snapshot) it makes it from the
well-ordering of numbers, over a set of numbers.

## Plan

Done: the modules, runs and theorems above. Next, in this order:

1. Options that change between two runs of the store (lowered retention), and `Accept` of
   records that are not yet synced after a kill.
2. `ListSummariesContext`: pagination against a reference definition.
3. The detail that is shown and the capture that is selected in `Inspector`, when the page
   orders its answers.

## Not modelled

The inbox handler's in-flight semaphore, body limit and HMAC check are tests of one request
that end it before it has an effect; what comes after them is in `RelayStore` and `Forwarding`.
`sameOrigin` takes an origin apart and is the test of a class in `Inspector`. What is in a
list, its order and its pages only read the store. The content security policy and
the other headers of replies are constants. `demo` and `healthcheck` are clients. `copy`
writes to the clipboard. Scripts, CI and the example receiver are not part of the program.
