----------------------------- MODULE EventStream -----------------------------
(***************************************************************************)
(* Live events: the catch-up ring and the subscribers of internal/store,   *)
(* and the handler of GET /events in internal/app, which serves each client*)
(* from both.                                                              *)
(*                                                                         *)
(* Every operation of the store is one step under Store.mu.  Between them  *)
(* a handler asks for the sequence number, subscribes, sends what it was   *)
(* given and then what its channel brings, to a client that may be slow or *)
(* gone.  An event is its number and its size; the log keeps what a restart*)
(* fills the ring from.                                                    *)
(***************************************************************************)
EXTENDS Naturals, Sequences, FiniteSets, SequencesExt

CONSTANTS
  Clients,
  RingEvents, RingBytes,   \* Options.MaxCatchUpEvents, MaxCatchUpBytes
  Backlog,                 \* Options.SubscriberBacklog
  Sizes,                   \* sizes of an encoded event
  Records,                 \* records a compaction may write
  MaxSeq                   \* BOUND on sequence numbers

ASSUME EventStreamConstants ==
  /\ RingEvents \in Nat \ {0} /\ RingBytes \in Nat \ {0} /\ Backlog \in Nat \ {0}
  /\ Sizes \subseteq Nat \ {0} /\ Records \subseteq Nat \ {0} /\ MaxSeq \in Nat

VARIABLES
  seq, ring,  \* Store.seq, Store.ring
  log,        \* the records in the file
  health, up,
  subs,       \* Store.subs, by the client it serves
  handler,    \* per client: see Handler
  appended,   \* history: the numbers of the events appended
  client      \* per client: the last number it has, and what it got since when

store == <<seq, ring, log, health, up>>
vars == <<store, subs, handler, appended, client>>

\* next: what the handler has still to send before it looks at its channel
\* ch: the events in its channel; closed: the store closed it
Off == [pc |-> "off", seq |-> 0, next |-> <<>>, ch |-> <<>>, closed |-> FALSE]

\* since: the number from which on the client wants everything
Stranger == [last |-> 0, since |-> 0, got |-> {}, known |-> FALSE]

Connected(c) == handler[c].pc \in {"catchup", "live"}

-----------------------------------------------------------------------------
(* The ring *)

Bytes(r) ==
  LET sum[n \in 0 .. Len(r)] == IF n = 0 THEN 0 ELSE sum[n - 1] + r[n].size
  IN sum[Len(r)]

Fits(r) == Len(r) <= RingEvents /\ Bytes(r) <= RingBytes

\* Variant: the bytes are not counted
TrimmedByCount(r) == IF Len(r) > RingEvents THEN Tail(r) ELSE r

\* appendRing drops from the front until the rest fits.
Trimmed(r) ==
  LET n == CHOOSE n \in 0 .. Len(r) :
             /\ Fits(SubSeq(r, n + 1, Len(r)))
             /\ \A m \in 0 .. n - 1 : ~ Fits(SubSeq(r, m + 1, Len(r)))
  IN SubSeq(r, n + 1, Len(r))

Event(n, size) == [seq |-> n, size |-> size]

-----------------------------------------------------------------------------
(* appendLocked, from apply on *)

\* Variant: an event that finds no room is dropped, the subscriber stays
DropEvent(c, e) ==
  IF c \notin subs \/ Len(handler[c].ch) = Backlog THEN handler[c]
  ELSE [handler[c] EXCEPT !.ch = Append(@, e)]

\* The loop over subs: who has no room for the event is cut off.
Deliver(c, e) ==
  IF c \notin subs THEN handler[c]
  ELSE IF Len(handler[c].ch) < Backlog THEN [handler[c] EXCEPT !.ch = Append(@, e)]
  ELSE [handler[c] EXCEPT !.closed = TRUE]

Publish(e) ==
  /\ handler' = [c \in Clients |-> Deliver(c, e)]
  /\ subs' = {c \in subs : ~ handler'[c].closed}

\* k: the records of the compaction the append triggers, 0 for none
AppendEvent(size, k) ==
  LET e == Event(seq + 1, size)
  IN /\ up /\ health = "ok" /\ e.seq + k <= MaxSeq
     /\ seq' = e.seq + k
     /\ ring' = Trimmed(Append(ring, e))
     /\ log' = IF k = 0 THEN Append(log, e) ELSE [i \in 1 .. k |-> Event(e.seq + i, 1)]
     /\ appended' = appended \cup {e.seq}
     /\ Publish(e)
     /\ UNCHANGED <<health, up, client>>

\* The compaction fails: the event is on record and in the ring, and the loop
\* over subs is not reached.
AppendCompactFails(size) ==
  LET e == Event(seq + 1, size)
  IN /\ up /\ health = "ok" /\ e.seq <= MaxSeq
     /\ seq' = e.seq
     /\ ring' = Trimmed(Append(ring, e))
     /\ log' = Append(log, e)
     /\ appended' = appended \cup {e.seq}
     /\ health' = "poisoned"
     /\ UNCHANGED <<up, subs, handler, client>>

-----------------------------------------------------------------------------
(* events, the handler *)

\* A client that knows nothing asks for the number first, in a lock of its own;
\* one that has been here sends its cursor.
Connect(c) ==
  /\ up /\ handler[c].pc = "off"
  /\ LET from == IF client[c].known THEN client[c].last ELSE seq
     IN /\ handler' = [handler EXCEPT ![c] = [Off EXCEPT !.pc = "asked", !.seq = from]]
        /\ client' = IF client[c].known THEN client
                     ELSE [client EXCEPT ![c] = [last |-> from, since |-> from,
                                                 got |-> {}, known |-> TRUE]]
  /\ UNCHANGED <<store, subs, appended>>

\* Variant: one too many
TooOldByTwo(from) == ring # <<>> /\ ring[1].seq > from + 2

TooOld(from) == ring # <<>> /\ ring[1].seq > from + 1

\* Variant: the event of the cursor is sent again
FromCursor(from) == SelectSeq(ring, LAMBDA e : e.seq >= from)

\* The loop takes what is after from.  The ring is in order, so that is its end;
\* where it were not, there would be no such n.
After(from) ==
  LET n == CHOOSE n \in 0 .. Len(ring) :
             \A i \in DOMAIN ring : ring[i].seq > from <=> i > n
  IN SubSeq(ring, n + 1, Len(ring))

SubscribeFrom(c) ==
  /\ up /\ handler[c].pc = "asked" /\ ~ TooOld(handler[c].seq)
  /\ handler' = [handler EXCEPT ![c].pc = "catchup", ![c].next = After(handler[c].seq)]
  /\ subs' = subs \cup {c}
  /\ UNCHANGED <<store, appended, client>>

\* 409 Conflict: the client starts afresh.
Conflict(c) ==
  /\ up /\ handler[c].pc = "asked" /\ TooOld(handler[c].seq)
  /\ handler' = [handler EXCEPT ![c] = Off]
  /\ client' = [client EXCEPT ![c] = Stranger]
  /\ UNCHANGED <<store, subs, appended>>

Receive(c, n) == client' = [client EXCEPT ![c].last = n, ![c].got = @ \cup {n}]

SendOld(c) ==
  /\ up /\ handler[c].pc = "catchup" /\ handler[c].next # <<>>
  /\ LET n == Head(handler[c].next).seq
     IN /\ handler' = [handler EXCEPT ![c].next = Tail(@), ![c].seq = n]
        /\ Receive(c, n)
  /\ UNCHANGED <<store, subs, appended>>

CaughtUp(c) ==
  /\ up /\ handler[c].pc = "catchup" /\ handler[c].next = <<>>
  /\ handler' = [handler EXCEPT ![c].pc = "live"]
  /\ UNCHANGED <<store, subs, appended, client>>

\* What is in the channel is still read after it was closed.
SendLive(c) ==
  /\ up /\ handler[c].pc = "live" /\ handler[c].ch # <<>>
  /\ LET n == Head(handler[c].ch).seq
     IN IF n <= handler[c].seq
          THEN handler' = [handler EXCEPT ![c].ch = Tail(@)] /\ UNCHANGED client
          ELSE /\ handler' = [handler EXCEPT ![c].ch = Tail(@), ![c].seq = n]
               /\ Receive(c, n)
  /\ UNCHANGED <<store, subs, appended>>

\* Variant: the handler returns without cancel
LeaveOpen(c) ==
  /\ handler' = [handler EXCEPT ![c] = Off]
  /\ UNCHANGED <<store, subs, appended, client>>

\* The deferred cancel
Cancel(c) ==
  /\ handler' = [handler EXCEPT ![c] = Off]
  /\ subs' = subs \ {c}
  /\ UNCHANGED <<store, appended, client>>

\* The channel is empty and closed.
CutOff(c) ==
  /\ up /\ handler[c].pc = "live" /\ handler[c].ch = <<>> /\ handler[c].closed
  /\ Cancel(c)

\* A write fails or the client goes.  An event that was written but did not
\* arrive is, for the client, one that was not sent.
Disconnect(c) ==
  /\ up /\ Connected(c)
  /\ Cancel(c)

Crash ==
  /\ up
  /\ up' = FALSE /\ health' = "ok" /\ ring' = <<>> /\ seq' = 0 /\ subs' = {}
  /\ handler' = [c \in Clients |-> Off]
  /\ UNCHANGED <<log, appended, client>>

\* recover applies every record, and so fills the ring.
Restart ==
  /\ ~ up
  /\ up' = TRUE
  /\ ring' = Trimmed(log)
  /\ seq' = IF log = <<>> THEN 0 ELSE Last(log).seq
  /\ UNCHANGED <<log, health, subs, handler, appended, client>>

\* The same under a policy that hides more than the last one did: New redacts
\* the ring in place, which changes the sizes of events, counts it again, and
\* compacts the log, before a client is served.
RestartRedacted(k) ==
  LET read == Trimmed(log)
      last == Last(log).seq
  IN /\ ~ up /\ log # <<>> /\ last + k <= MaxSeq
     /\ up' = TRUE
     /\ \E size \in [DOMAIN read -> Sizes] :
          ring' = Trimmed([i \in DOMAIN read |-> Event(read[i].seq, size[i])])
     /\ seq' = last + k
     /\ log' = [i \in 1 .. k |-> Event(last + i, 1)]
     /\ UNCHANGED <<health, subs, handler, appended, client>>

-----------------------------------------------------------------------------
Init ==
  /\ seq = 0 /\ ring = <<>> /\ log = <<>> /\ health = "ok" /\ up = TRUE
  /\ subs = {} /\ handler = [c \in Clients |-> Off]
  /\ appended = {} /\ client = [c \in Clients |-> Stranger]

Handler(c) == \/ SubscribeFrom(c) \/ Conflict(c)
              \/ SendOld(c) \/ CaughtUp(c) \/ SendLive(c) \/ CutOff(c)

Next ==
  \/ \E size \in Sizes : \/ AppendCompactFails(size)
                          \/ \E k \in Records \cup {0} : AppendEvent(size, k)
  \/ \E c \in Clients : Connect(c) \/ Handler(c) \/ Disconnect(c)
  \/ Crash \/ Restart
  \/ \E k \in Records : RestartRedacted(k)

Spec == Init /\ [][Next]_vars

\* Handlers are scheduled and clients reconnect (the browser's EventSource); a
\* connection does not break every time it is about to carry an event; a
\* crashed process is started again.
FairSpec ==
  /\ Spec /\ WF_vars(Restart)
  /\ \A c \in Clients : /\ WF_vars(Handler(c)) /\ WF_vars(Connect(c))
                        /\ SF_vars(SendOld(c)) /\ SF_vars(SendLive(c))

-----------------------------------------------------------------------------
(* Correctness *)

Events == [seq: Nat, size: Sizes \cup {1}]

\* Ring, subscribers and handlers have their types; the ring stays within both
\* of its bounds and a channel within its backlog (appendRing, SubscribeFrom).
TypeOK ==
  /\ seq \in Nat /\ ring \in Seq(Events) /\ log \in Seq(Events) /\ Fits(ring)
  /\ health \in {"ok", "poisoned"} /\ up \in BOOLEAN /\ subs \subseteq Clients
  /\ handler \in [Clients -> [pc: {"off", "asked", "catchup", "live"}, seq: Nat,
                              next: Seq(Events), ch: Seq(Events), closed: BOOLEAN]]
  /\ \A c \in Clients : Len(handler[c].ch) <= Backlog
  /\ appended \subseteq Nat
  /\ client \in [Clients -> [last: Nat, since: Nat, got: SUBSET Nat, known: BOOLEAN]]

\* A client never gets an event twice or out of order, whatever it reconnects
\* with and however its catch-up overlaps with its channel (events).
InOrder == [][\A c \in Clients :
  client'[c].known /\ client[c].known /\ client'[c] # client[c] =>
    client'[c].last > client[c].last]_client

\* A client that is not told (409) has everything that was appended between
\* where it began and the last event it has, over all its connections, over
\* compactions and restarts (SubscribeFrom, appendRing, the loop over subs).
NoSilentGap ==
  \A c \in Clients : \A n \in appended :
    client[c].since < n /\ n <= client[c].last => n \in client[c].got

\* What a client has once got is followed by what was appended next, also when it
\* comes back with its cursor: one too old is refused (SubscribeFrom, and
\* docs/architecture.md: "A cursor older than the ring receives 409 Conflict").
ResumesWithoutGap ==
  \A c \in Clients : \A m \in client[c].got, n \in appended :
    m < n /\ n <= client[c].last => n \in client[c].got

\* As long as no append has failed, a connected handler has all that is new in
\* its hands: what it sends next and its channel reach up to the last event.
NothingIsMissed ==
  \A c \in Clients : Connected(c) /\ ~ handler[c].closed /\ health = "ok" =>
    LET coming == handler[c].next \o handler[c].ch
    IN \A n \in appended : n > handler[c].seq => \E i \in DOMAIN coming : coming[i].seq = n

\* Store.subs holds the channels of the handlers that still read them, all of
\* them and open: none is left over and none is closed twice (cancel).
SubscribersAreServed == subs = {c \in Clients : Connected(c) /\ ~ handler[c].closed}

\* Clients that keep reconnecting get to the end of the stream, unless told
\* that they are too late, cut off, or the server fails.
ClientsCatchUp ==
  \A c \in Clients : \A n \in 1 .. MaxSeq :
    n \in appended /\ client[c].known /\ client[c].since < n
      ~> client[c].last >= n \/ ~ client[c].known \/ health = "poisoned" \/ ~ up

=============================================================================
