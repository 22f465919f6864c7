------------------------------ MODULE EventLog ------------------------------
(***************************************************************************)
(* The event log of internal/store: how an append, a compaction, a read and*)
(* a recovery use the file, with a crash or an I/O error between any two   *)
(* system calls.                                                           *)
(*                                                                         *)
(* Store.mu is held by one writer at a time (pc tells how far it is); what *)
(* runs beside it is a Load that has let go of mu and reads the file under *)
(* fileMu.  What an event says is reduced to what recovery checks: which   *)
(* requests there are, the state of the one job of each, its attempts, and *)
(* whether headers are retained that the redaction policy forbids.         *)
(* A record that was cut short is the kind "torn".                         *)
(***************************************************************************)
EXTENDS Naturals, Sequences, FiniteSets, SequencesExt

CONSTANTS
  Requests,
  MaxEvents,     \* Options.MaxEvents
  MaxAttempts,   \* Options.MaxAttemptsPerJob
  MaxSeq,        \* BOUND: no append beyond this sequence number
  Machines       \* sets of what a machine has: processes that are killed, losses
                 \* of power, Windows, and a file system whose sync of a new file
                 \* puts the directory entry it was created under on disk, too

ASSUME EventLogConstants ==
  /\ MaxEvents \in Nat \ {0} /\ MaxAttempts \in Nat \ {0} /\ MaxSeq \in Nat
  /\ Machines \subseteq SUBSET {"kill", "power", "windows", "entries"}

JobStates == {"none", "pending", "leased", "retrying", "succeeded"}
Attempts == 1 .. MaxAttempts
\* Files: the log, its successor, and one that only a restart may still find;
\* "none" is what a path names that names no file
Names == {"none", "a", "b", "c"}
NoFile == [log |-> <<>>, synced |-> 0]

\* What a record was written for: a request (0) or one of its attempts
Keys == Requests \X (0 .. MaxAttempts)

VARIABLES
  files,      \* name -> the records of the file, and how many are synced
  dir,        \* the file the path names ...
  dirSynced,  \* ... and the one it names after a loss of power
  f,          \* Store.f, or "closed"
  s,          \* the maps and counters of Store: see Empty
  health,
  proc,       \* "down", "opened" (recover is done, New is not), "up", "refused"
  pc,         \* how far the holder of Store.mu is, "idle" when mu is free
  reader,     \* a Load between its two halves
  machine,    \* one of Machines
  allowed,    \* history: what a restart may bring back; one state, but for
              \* operations under way or failed
  shown       \* history: the last event a subscriber can have seen

disk == <<files, dir, dirSynced>>
history == <<allowed, shown>>
vars == <<disk, f, s, health, proc, pc, reader, machine, history>>

-----------------------------------------------------------------------------
(* Records and what they do *)

\* attempt: the attempt finished, 0 for none; attempt i has the identifier i
Record(kind, r) ==
  [kind |-> kind, r |-> r, seq |-> 0, snapshot |-> FALSE, request |-> FALSE,
   job |-> "none", attempt |-> 0, evicted |-> {}, plain |-> FALSE]

Empty == [seq |-> 0, count |-> 0, requests |-> {}, plain |-> {},
          job |-> [r \in Requests |-> "none"],
          attempts |-> [r \in Requests |-> 0],
          ref |-> [k \in Keys |-> 0]]

\* What a restart has to bring back
Kept(t) == <<t.requests, t.job, t.attempts>>

\* The object whose payload record e holds
Holds(e, k) == \/ e.request /\ k = <<e.r, 0>>
               \/ e.attempt # 0 /\ k = <<e.r, e.attempt>>

\* apply, for the record at position n of the file
Apply(t, e, n) ==
  LET new == IF e.request THEN {e.r} ELSE {}
      kept == t.requests \ e.evicted
      Of(q, value, none) == IF q \in e.evicted THEN none ELSE value
  IN [t EXCEPT
        !.seq = e.seq,
        !.requests = kept \cup new,
        !.plain = (@ \cap kept) \cup (IF e.plain THEN new ELSE {}),
        !.job = [q \in Requests |-> IF q = e.r /\ e.job # "none" THEN e.job
                                    ELSE Of(q, @[q], "none")],
        !.attempts = [q \in Requests |-> IF q = e.r /\ e.attempt # 0 THEN e.attempt
                                         ELSE Of(q, @[q], 0)],
        !.ref = [k \in Keys |-> IF Holds(e, k) THEN n ELSE Of(k[1], @[k], 0)]]

\* validateStateLocked: judged before the evictions of the event take place
ValidState(t, e) ==
  /\ e.request => e.r \notin t.requests
  /\ e.job # "none" \/ e.attempt # 0 => e.request \/ e.r \in t.requests
  /\ e.attempt # 0 => e.attempt > t.attempts[e.r]

\* The loop of recover, one record at a time
RecoverRecord(acc, e) ==
  LET n == acc.n + 1
      valid == /\ e.kind # "torn"
               /\ e.seq # 0 /\ (acc.state.seq = 0 \/ e.seq = acc.state.seq + 1)
               /\ ValidState(acc.state, e)
               /\ ~ (e.snapshot /\ acc.mutated)
      after == Apply(acc.state, e, n)
  IN [n |-> n,
      ok |-> acc.ok /\ valid,
      mutated |-> acc.mutated \/ ~ e.snapshot,
      state |-> IF acc.ok /\ valid
                  THEN [after EXCEPT !.count = @ + (IF e.snapshot THEN 0 ELSE 1)]
                  ELSE acc.state]

Fresh == [n |-> 0, ok |-> TRUE, mutated |-> FALSE, state |-> Empty]

Replayed(log) ==
  LET after[n \in 0 .. Len(log)] ==
        IF n = 0 THEN Fresh ELSE RecoverRecord(after[n - 1], log[n])
  IN after[Len(log)]

\* readRecord: a cut record is no record when it is the last one
WholeRecords(log) == IF log # <<>> /\ Last(log).kind = "torn" THEN Front(log) ELSE log

Recovered(log) == Replayed(WholeRecords(log))

\* snapshotRecordsLocked: per request its own record, its job, its attempts
SnapshotOf(t, r) ==
  <<[Record("request", r) EXCEPT !.request = TRUE, !.plain = r \in t.plain]>>
  \o (IF t.job[r] = "none" THEN <<>> ELSE <<[Record("job", r) EXCEPT !.job = t.job[r]]>>)
  \o [i \in 1 .. t.attempts[r] |-> [Record("attempt", r) EXCEPT !.attempt = i]]

\* Variant: the new log is numbered from one again
SnapshotFromOne(t) ==
  LET order == SetToSeq(t.requests)
      records == FlattenSeq([i \in DOMAIN order |-> SnapshotOf(t, order[i])])
  IN [i \in DOMAIN records |-> [records[i] EXCEPT !.seq = i, !.snapshot = TRUE]]

SnapshotRecords(t) ==
  LET order == SetToSeq(t.requests)
      records == FlattenSeq([i \in DOMAIN order |-> SnapshotOf(t, order[i])])
  IN [i \in DOMAIN records |->
        [records[i] EXCEPT !.seq = t.seq + i, !.snapshot = TRUE]]

-----------------------------------------------------------------------------
(* appendLocked *)

Put(name, log, synced) ==
  files' = [files EXCEPT ![name] = [log |-> log, synced |-> synced]]

Log == files[f].log

\* The events the store's operations append (RelayStore has their conditions)
Finished == {r \in s.requests : s.job[r] \in {"none", "succeeded"}}

Capture(r, j, out) ==
  [Record("capture", r) EXCEPT !.request = TRUE, !.job = j, !.evicted = out]

Captures ==
  {Capture(r, j, out) :
     r \in Requests \ s.requests, j \in {"none", "pending"}, out \in SUBSET Finished}

Moves == {<<"pending", "leased">>, <<"retrying", "leased">>, <<"leased", "pending">>}

JobEvents ==
  {[Record("job", r) EXCEPT !.job = j] : r \in s.requests, j \in JobStates \ {"none"}}

Attempt(r, j, i) == [Record("job", r) EXCEPT !.job = j, !.attempt = i]

AttemptEvents ==
  {Attempt(r, j, s.attempts[r] + 1) : r \in s.requests, j \in {"retrying", "succeeded"}}

\* Variant: RecordAttempt does not look at MaxAttemptsPerJob
EventsUnlimited ==
  Captures
  \cup {e \in JobEvents : <<s.job[e.r], e.job>> \in Moves}
  \cup {e \in AttemptEvents : s.job[e.r] = "leased"}

Events ==
  Captures
  \cup {e \in JobEvents : <<s.job[e.r], e.job>> \in Moves}
  \cup {e \in AttemptEvents : s.job[e.r] = "leased" /\ e.attempt <= MaxAttempts}

MayAppend == proc = "up" /\ pc = "idle" /\ health = "ok" /\ s.seq < MaxSeq

AppendWrite(e) ==
  LET record == [e EXCEPT !.seq = s.seq + 1]
  IN /\ MayAppend /\ ValidState(s, record)
     /\ Put(f, Append(Log, record), files[f].synced)
     /\ pc' = "written"
     /\ allowed' = allowed \cup {Kept(Apply(s, record, 0))}
     /\ UNCHANGED <<dir, dirSynced, f, s, health, proc, reader, shown>>

\* Part of the record is written, or none of it; the number is spent.
WriteFails ==
  /\ MayAppend
  /\ \/ \E e \in Events : Put(f, Append(Log, Record("torn", e.r)), files[f].synced)
     \/ UNCHANGED files
  /\ s' = [s EXCEPT !.seq = @ + 1]
  /\ health' = "poisoned"
  /\ UNCHANGED <<dir, dirSynced, f, proc, pc, reader, history>>

AppendSync ==
  LET after == [Apply(s, Last(Log), Len(Log)) EXCEPT !.count = @ + 1]
  IN /\ pc = "written"
     /\ Put(f, Log, Len(Log))
     /\ s' = after
     /\ shown' = after.seq
     /\ dirSynced' = IF dirSynced = "none" /\ "entries" \in machine THEN f ELSE dirSynced
     /\ IF after.count > MaxEvents
          THEN pc' = "compact" /\ UNCHANGED allowed
          ELSE pc' = "idle" /\ allowed' = {Kept(after)}
     /\ UNCHANGED <<dir, f, health, proc, reader>>

SyncFails ==
  /\ pc = "written"
  /\ s' = [s EXCEPT !.seq = @ + 1]
  /\ health' = "poisoned" /\ pc' = "idle"
  /\ UNCHANGED <<disk, f, proc, reader, history>>

-----------------------------------------------------------------------------
(* Load: the first half under mu and fileMu, the second under fileMu alone *)

NoReader == [pc |-> "idle", file |-> "a", wants |-> {}]

LoadBegin(r) ==
  /\ proc = "up" /\ pc = "idle" /\ reader.pc = "idle"
  /\ r \in s.requests
  /\ reader' = [pc |-> "reading", file |-> f,
                wants |-> {<<k, s.ref[k]>> : k \in {r} \X (0 .. s.attempts[r])}]
  /\ UNCHANGED <<disk, f, s, health, proc, pc, history>>

\* readEventAt, and the test that the record is the one looked for
Finds(file, k, n) ==
  file # "closed" /\ n \in DOMAIN files[file].log /\ Holds(files[file].log[n], k)

LoadRead ==
  /\ reader.pc = "reading"
  /\ \/ /\ \A w \in reader.wants : Finds(reader.file, w[1], w[2])
        /\ reader' = NoReader
     \/ reader' = [NoReader EXCEPT !.pc = "failed"]
  /\ UNCHANGED <<disk, f, s, health, proc, pc, history>>

\* poison takes mu, after fileMu has been given back
LoadPoison ==
  /\ reader.pc = "failed" /\ pc = "idle"
  /\ health' = "poisoned"
  /\ reader' = NoReader
  /\ UNCHANGED <<disk, f, s, proc, pc, history>>

\* Variant: Load gives back mu and takes no fileMu
FileNeverHeld == FALSE

\* Variant: fileMu is given back after poison
FileHeldOver == reader.pc # "idle"

\* A reader holds fileMu
FileHeld == reader.pc = "reading"

-----------------------------------------------------------------------------
(* compactLocked: under mu and, from the first step on, under fileMu *)

Windows == "windows" \in machine

\* Of whatever file the path names
OpenStoreFile == f' = dir

\* A name no file has: of a file that is about to be created
Tmp == CHOOSE name \in Names \ {"none"} : name \notin {dir, dirSynced}

\* hydrateSnapshotEventLocked reads every payload back through s.ref.
Hydrated(t) ==
  \A r \in t.requests : \A i \in 0 .. t.attempts[r] : Finds(f, <<r, i>>, t.ref[<<r, i>>])

CompactWrite ==
  /\ pc = "compact" /\ ~ FileHeld
  /\ Hydrated(s)
  /\ Put(Tmp, SnapshotRecords(s), 0)
  /\ pc' = "tmp"
  /\ UNCHANGED <<dir, dirSynced, f, s, health, proc, reader, history>>

\* Variant: the new file is closed but not synced
CompactClose ==
  /\ pc = "tmp"
  /\ pc' = "synced"
  /\ UNCHANGED <<disk, f, s, health, proc, reader, history>>

CompactSync ==
  /\ pc = "tmp"
  /\ Put(Tmp, files[Tmp].log, Len(files[Tmp].log))
  /\ pc' = "synced"
  /\ UNCHANGED <<dir, dirSynced, f, s, health, proc, reader, history>>

\* On Windows the old file has to be closed before it can be replaced.
CloseOld ==
  /\ pc = "synced" /\ Windows
  /\ f' = "closed"
  /\ pc' = "swap"
  /\ UNCHANGED <<disk, s, health, proc, reader, history>>

CompactRename ==
  /\ pc = IF Windows THEN "swap" ELSE "synced"
  /\ dir' = Tmp
  /\ pc' = "renamed"
  /\ UNCHANGED <<files, dirSynced, f, s, health, proc, reader, history>>

SyncDirectory ==
  /\ pc = "renamed"
  /\ dirSynced' = IF Windows THEN dirSynced ELSE dir
  /\ pc' = "replaced"
  /\ UNCHANGED <<files, dir, f, s, health, proc, reader, history>>

PositionIn(log, k) ==
  IF \E n \in DOMAIN log : Holds(log[n], k) THEN CHOOSE n \in DOMAIN log : Holds(log[n], k)
                                            ELSE 0

\* The swap of s.f and of the references; the old file may fail to close, if it
\* is still open.
CompactReopen ==
  /\ pc = "replaced"
  /\ OpenStoreFile
  /\ LET log == files[dir].log
     IN s' = [s EXCEPT !.seq = @ + Len(log), !.count = 0,
                       !.ref = [k \in Keys |-> PositionIn(log, k)]]
  /\ files' = [name \in Names |-> IF name = dir THEN files[dir] ELSE NoFile]
  /\ pc' = "idle"
  /\ \/ allowed' = {Kept(s)} /\ UNCHANGED health
     \/ ~ Windows /\ health' = "poisoned" /\ UNCHANGED allowed
  /\ UNCHANGED <<dir, dirSynced, proc, reader, shown>>

\* Any step may fail; the new file is removed unless it took the old one's name.
\* On Windows the old one is opened again if it kept its name, which may fail too.
CompactFails ==
  /\ \/ pc \in {"tmp", "synced", "renamed", "replaced"} /\ UNCHANGED f
     \/ pc = "compact" /\ ~ FileHeld /\ UNCHANGED f
     \/ pc = "synced" /\ Windows /\ f' = "closed"
     \/ pc = "swap" /\ (OpenStoreFile \/ UNCHANGED f)
  /\ IF pc \in {"renamed", "replaced"} THEN UNCHANGED files ELSE Put(Tmp, <<>>, 0)
  /\ health' = "poisoned" /\ pc' = "idle"
  /\ UNCHANGED <<dir, dirSynced, s, proc, reader, history>>

Compact == \/ CompactWrite \/ CompactSync \/ CloseOld \/ CompactRename
           \/ SyncDirectory \/ CompactReopen \/ CompactFails

-----------------------------------------------------------------------------
(* OpenWithOptions, and RedactHeaders called from New *)

\* openStoreFile(path, true) creates a file when there is none; no directory is
\* synced.
Created == IF dir = "none" THEN Tmp ELSE dir

\* What a restart brings back is promised from then on, if it is synced.
Open ==
  /\ proc = "down"
  /\ dir' = Created
  /\ LET file == files[Created]
         r == Recovered(file.log)
         log == WholeRecords(file.log)
     IN IF r.ok
          THEN /\ Put(Created, log, IF file.synced < Len(log) THEN file.synced ELSE Len(log))
               /\ s' = r.state
               /\ proc' = "opened"
               /\ allowed' = {Kept(r.state)} \cup
                    IF Created = dirSynced /\ file.synced >= Len(log) THEN {} ELSE allowed
               /\ shown' = IF r.state.seq > shown THEN r.state.seq ELSE shown
          ELSE /\ proc' = "refused"
               /\ UNCHANGED <<files, s, allowed, shown>>
  /\ f' = Created
  /\ UNCHANGED <<dirSynced, health, pc, reader>>

\* Variant: only what is retained is looked at
RetainedIsPlain(log) == s.plain # {}

\* logNeedsHeaderRedactionLocked: evicted requests are still in the file.
LogIsPlain(log) == \E n \in DOMAIN log : log[n].plain

RedactHeaders ==
  /\ proc = "opened"
  /\ proc' = "up"
  /\ s' = [s EXCEPT !.plain = {}]
  /\ \/ /\ s.plain # {} \/ LogIsPlain(Log)
        /\ pc' = "compact" /\ UNCHANGED health
     \/ /\ s.plain = {} /\ ~ LogIsPlain(Log)
        /\ UNCHANGED <<pc, health>>
     \/ s.plain = {} /\ health' = "poisoned" /\ UNCHANGED pc   \* the scan failed
  /\ UNCHANGED <<disk, f, reader, history>>

-----------------------------------------------------------------------------
(* The end of the process; Close is a kill at a time when nothing is going on *)

Gone ==
  /\ proc \in {"opened", "up"}
  /\ proc' = "down"
  /\ s' = Empty /\ health' = "ok" /\ pc' = "idle" /\ reader' = NoReader

\* The files stay as they are.
Kill ==
  /\ Gone
  /\ files' = [name \in Names |-> IF name \in {dir, dirSynced} THEN files[name] ELSE NoFile]
  /\ UNCHANGED <<dir, dirSynced, f, history>>

\* A file keeps what was synced, and perhaps more; its last record may be cut.
Images(file) ==
  {SubSeq(file.log, 1, n) : n \in file.synced .. Len(file.log)}
  \cup {Append(SubSeq(file.log, 1, n), Record("torn", file.log[n + 1].r)) :
          n \in file.synced .. Len(file.log) - 1}

PowerLoss ==
  /\ Gone
  /\ \E name \in {dir, dirSynced} : \E log \in Images(files[name]) :
       /\ files' = [n \in Names |-> IF n = name
                      THEN [log |-> log, synced |-> Len(log)]
                      ELSE NoFile]
       /\ dir' = name /\ dirSynced' = name
  /\ UNCHANGED <<f, history>>

End == \/ "kill" \in machine /\ Kill
       \/ "power" \in machine /\ PowerLoss

-----------------------------------------------------------------------------
(* A log left by an earlier version, with headers as they came *)

Numbered(log) == [i \in DOMAIN log |-> [log[i] EXCEPT !.seq = i]]

Legacy(r, evicted) ==
  [Record("capture", r) EXCEPT
     !.request = TRUE, !.plain = evicted = {}, !.evicted = evicted]

LegacyLogs ==
  {Numbered(<<Legacy(r, {})>>) : r \in Requests}
  \cup UNION {{Numbered(<<Legacy(r, {}), Legacy(q, {r})>>) : q \in Requests \ {r}} :
                r \in Requests}

\* The log is created by the first Open.
NewInstallation ==
  /\ files = [name \in Names |-> NoFile]
  /\ dir = "none" /\ dirSynced = "none"
  /\ allowed = {Kept(Empty)}

\* It has outlived the process, and perhaps the machine, that wrote it.
ExistingLog ==
  /\ \E log \in LegacyLogs :
       /\ files = [name \in Names |->
                    IF name = "a" THEN [log |-> log, synced |-> Len(log)] ELSE NoFile]
       /\ allowed = {Kept(Recovered(log).state)}
  /\ dir = "a" /\ dirSynced = "a"

Init ==
  /\ NewInstallation \/ ExistingLog
  /\ f = dir
  /\ s = Empty /\ health = "ok" /\ proc = "down" /\ pc = "idle" /\ reader = NoReader
  /\ machine \in Machines /\ shown = 0

Writer == AppendSync \/ SyncFails \/ Compact

Reader == LoadRead \/ LoadPoison

Step ==
  \/ \E e \in Events : AppendWrite(e)
  \/ WriteFails \/ Writer
  \/ \E r \in Requests : LoadBegin(r)
  \/ Reader
  \/ Open \/ RedactHeaders \/ End

Next == Step /\ UNCHANGED machine

Spec == Init /\ [][Next]_vars

\* System calls return, and a lock that is free is given to who waits for it.
FairSpec ==
  Spec /\ WF_vars(Writer /\ UNCHANGED machine) /\ WF_vars(Reader /\ UNCHANGED machine)

-----------------------------------------------------------------------------
(* Correctness *)

\* Files, maps and references have their types, and what is in memory is
\* something a restart may bring back (Store, appendLocked).
TypeOK ==
  /\ files \in [Names -> [log: Seq([kind: {"capture", "request", "job", "attempt", "torn"},
                                    r: Requests, seq: Nat, snapshot: BOOLEAN,
                                    request: BOOLEAN, job: JobStates,
                                    attempt: 0 .. MaxAttempts,
                                    evicted: SUBSET Requests, plain: BOOLEAN]),
                          synced: Nat]]
  /\ {dir, dirSynced} \subseteq Names /\ f \in Names \cup {"closed"}
  /\ \A name \in Names : files[name].synced <= Len(files[name].log)
  /\ s \in [seq: Nat, count: Nat, requests: SUBSET Requests, plain: SUBSET Requests,
            job: [Requests -> JobStates], attempts: [Requests -> 0 .. MaxAttempts],
            ref: [Keys -> Nat]]
  /\ health \in {"ok", "poisoned"} /\ proc \in {"down", "opened", "up", "refused"}
  /\ machine \in Machines
  /\ pc \in {"idle", "written", "compact", "tmp", "synced", "swap", "renamed", "replaced"}
  /\ reader.pc \in {"idle", "reading", "failed"} /\ reader.file \in Names \cup {"closed"}
  /\ Kept(s) \in allowed \/ proc = "down" \/ health = "poisoned"

\* What the next Open may read: a machine that loses power keeps less than a
\* process that is killed.
NextLogs ==
  (IF "kill" \in machine THEN {files[dir].log} ELSE {})
  \cup (IF "power" \in machine THEN UNION {Images(files[n]) : n \in {dir, dirSynced}}
                                ELSE {})

\* Wherever the process ends, in an append or a compaction, after an error or
\* in the middle of one, recovery accepts the log and brings back what the last
\* operation that returned success left, or that and the one then under way
\* (appendLocked, compactLocked, recover).
AnyCrashKeepsPromises ==
  \A log \in NextLogs :
    LET r == Recovered(log) IN r.ok /\ Kept(r.state) \in allowed

\* No restart falls back behind an event a client has seen: its cursor would
\* hide the events that get the same numbers (the numbering of snapshots).
CursorsStayValid == \A log \in NextLogs : Recovered(log).state.seq >= shown

\* Once New has returned and the store is healthy, no header in the clear can
\* come back, from whichever file the path names (RedactHeaders, syncDirectory).
NoPlainHeaders ==
  proc = "up" /\ pc = "idle" /\ health = "ok" =>
    \A log \in NextLogs : \A n \in DOMAIN log : ~ log[n].plain

\* A Load finds its records where it saw them, however late it reads: no
\* compaction takes the file from under it; and a compaction finds them too
\* (fileMu, readEventAt, the new references).  Only a store whose compaction has
\* failed on Windows may be without its file, and it is poisoned.
LoadFindsItsRecords ==
  /\ reader.pc = "reading" /\ reader.file # "closed" =>
       \A w \in reader.wants : Finds(reader.file, w[1], w[2])
  /\ proc = "up" /\ pc \in {"idle", "compact"} =>
       Hydrated(s) \/ (f = "closed" /\ Windows /\ health = "poisoned")

\* Nobody waits for ever: not the appends behind a compaction, which waits for
\* readers, nor a reader that has to poison the store (mu, fileMu).
LocksAreReleased == []<>(pc = "idle") /\ []<>(reader.pc = "idle")

=============================================================================
