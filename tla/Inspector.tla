------------------------------ MODULE Inspector ------------------------------
(***************************************************************************)
(* The browser inspector (internal/web/app.js), the operator handlers it   *)
(* calls and the gate before them.  Each handler of the page is an         *)
(* asynchronous function: between its requests other handlers run, and     *)
(* replies come back in any order.  EventStream has the stream from the    *)
(* server's side; here a stream is open or not, with events not yet taken. *)
(***************************************************************************)
EXTENDS Naturals, FiniteSets

CONSTANTS
  Captures,    \* identifiers, numbers in order of arrival
  Loaded,      \* the ones the log had at the start
  Tokens,      \* values -operator-token may have
  None,        \* no capture, token, stream or origin
  Calls,       \* BOUND on calls of asynchronous functions under way at once
  Streams,     \* BOUND on EventSource objects in use at once
  MaxEvents,   \* BOUND on the events of the server
  MaxFaults    \* BOUND on lost connections, restarts and ended sessions

ASSUME InspectorConstants ==
  /\ Captures \subseteq Nat /\ Loaded \subseteq Captures
  /\ MaxEvents \in Nat /\ MaxFaults \in Nat
  /\ None \notin Captures \cup Tokens \cup Streams

VARIABLES
  token,       \* -operator-token of the process; None: it does not run
  capture,     \* each capture is yet to come, stored or evicted
  cookie,      \* the token the browser's session cookie was made of
  call,        \* the calls under way: who asked for what, and the reply
  stream, backlog,              \* EventSources, and events not yet dispatched
  current,                      \* state.events
  selected, detail,             \* state.selectedID, the capture in state.detail
  enabled, listed,              \* the buttons can be pressed, a list was shown
  events, faults,               \* counted against their bounds
  clicked                       \* history: the capture clicked last

server == <<token, capture, events>>
source == <<stream, backlog, current>>
page == <<selected, detail, enabled, listed>>
history == <<faults, clicked>>
vars == <<server, cookie, call, source, page, history>>

Functions == {"login", "event", "reconnect", "search", "click", "replay"}
Requests == {"session", "list", "detail", "replay"}

Free == [of |-> "none", at |-> "none", about |-> None, as |-> None, state |-> "asked"]

\* fetch, by call c of function f
Asking(f, request, about, as) ==
  [Free EXCEPT !.of = f, !.at = request, !.about = about, !.as = as]

Fetch(c, f, request, about, as) ==
  call' = [call EXCEPT ![c] = Asking(f, request, about, as)]

\* showRequest, up to its await
ShowRequest(c, f, id) == selected' = id /\ Fetch(c, f, "detail", id, cookie)

-----------------------------------------------------------------------------
(* The server *)

\* operator and sameOrigin.  A bearer carries the token, a cookie what
\* sessionToken makes of it; origin "same" has the scheme and host expected.
Operator(credential, bearer, write, origin) ==
  /\ credential = token
  /\ write /\ ~ bearer => origin # None
  /\ write => origin \in {None, "same"}

\* What the call needs no more is dropped with the reply.
Answered(k, state) ==
  [k EXCEPT !.state = state,
            !.about = IF state = "ok" THEN k.about ELSE None,
            !.as = IF state = "ok" /\ k.at = "session" THEN k.as ELSE None]

Reply(c, state) == call' = [call EXCEPT ![c] = Answered(@, state)]

\* The handlers behind the gate: session, list, get and replay.  All but session
\* can fail: a search takes too long, the capture is not there, the store cannot
\* be read, or there is no target or no capacity for a replay.  The events of the
\* job a replay makes are among those of Happens.
Serve(c) ==
  /\ token # None
  /\ call[c].at \in Requests /\ call[c].state = "asked"
  /\ LET request == call[c].at
         allowed == Operator(call[c].as, request = "session",
                             request \in {"session", "replay"}, "same")
     IN \/ /\ ~ allowed \/ request # "session"
           /\ Reply(c, "failed")
        \/ /\ allowed
           /\ \/ request \in {"session", "list"}
              \/ request \in {"detail", "replay"} /\ capture[call[c].about] = "stored"
           /\ Reply(c, "ok")
  /\ UNCHANGED <<server, source, cookie, page, history>>

\* A capture comes, and may take the place of another, or a job changes: an event
\* that reaches the streams that are open.
Happens ==
  /\ token # None
  /\ events < MaxEvents
  /\ events' = events + 1
  /\ backlog' = [s \in Streams |-> backlog[s] + (IF stream[s] = "open" THEN 1 ELSE 0)]
  /\ \/ UNCHANGED capture
     \/ \E id \in Captures :
          /\ \A c \in Captures : capture[c] = "new" <=> c >= id
          /\ \/ capture' = [capture EXCEPT ![id] = "stored"]
             \/ \E old \in Captures :
                  /\ capture[old] = "stored"
                  /\ capture' = [capture EXCEPT ![id] = "stored", ![old] = "gone"]
  /\ UNCHANGED <<token, cookie, call, stream, current, page, history>>

Fault == faults < MaxFaults /\ faults' = faults + 1

\* The streams of a process end with it.
Stop ==
  /\ token # None /\ Fault
  /\ token' = None
  /\ stream' = [s \in Streams |-> IF stream[s] = "open" THEN "lost" ELSE stream[s]]
  /\ UNCHANGED <<capture, events, cookie, call, backlog, current, page, clicked>>

Start ==
  /\ token = None
  /\ token' \in Tokens
  /\ UNCHANGED <<capture, events, cookie, call, source, page, history>>

-----------------------------------------------------------------------------
(* The browser *)

\* The cookie's eight hours are over.
SessionEnds ==
  /\ cookie # None /\ Fault
  /\ cookie' = None
  /\ UNCHANGED <<server, call, source, page, clicked>>

\* A request or a reply is lost, or there is nobody to send it to.
Lose(c) ==
  /\ call[c].at \in Requests
  /\ \/ token = None /\ call[c].state = "asked" /\ UNCHANGED faults
     \/ call[c].state # "failed" /\ Fault
  /\ Reply(c, "failed")
  /\ UNCHANGED <<server, cookie, source, page, clicked>>

Closed(s) == /\ stream' = [t \in Streams |-> IF t = s THEN "closed" ELSE stream[t]]
             /\ backlog' = [t \in Streams |-> IF t = s THEN 0 ELSE backlog[t]]

\* The server takes the stream: operator, SubscribeFrom without a cursor
Connect(s) ==
  /\ stream[s] = "connecting" /\ token # None
  /\ Operator(cookie, FALSE, FALSE, None)
  /\ stream' = [stream EXCEPT ![s] = "open"]
  /\ UNCHANGED <<server, cookie, call, backlog, current, page, history>>

\* Variant: the stream is closed and no timer set
StreamErrorNoTimer(s, c) ==
  /\ stream[s] = "lost" /\ call[c] = Free
  /\ Closed(current)
  /\ UNCHANGED <<server, cookie, call, current, page, history>>

\* The stream cannot be had, or is lost: the handler of "error" closes
\* state.events and sets the timer.
StreamError(s, c) ==
  /\ stream[s] # "closed" /\ call[c] = Free
  /\ \/ stream[s] = "lost" /\ UNCHANGED faults
     \/ /\ stream[s] = "connecting"
        /\ (token = None \/ ~ Operator(cookie, FALSE, FALSE, None))
        /\ UNCHANGED faults
     \/ stream[s] # "lost" /\ Fault
  /\ Closed(current)
  /\ call' = [call EXCEPT ![c] = Asking("reconnect", "timer", None, None)]
  /\ UNCHANGED <<server, cookie, current, page, clicked>>

\* The browser hands an event to the page.
Dispatch(s, c) ==
  /\ stream[s] = "open" /\ backlog[s] > 0 /\ call[c] = Free
  /\ backlog' = [backlog EXCEPT ![s] = @ - 1]
  /\ Fetch(c, "event", "list", None, cookie)
  /\ UNCHANGED <<server, cookie, stream, current, page, history>>

-----------------------------------------------------------------------------
(* The user *)

Login(c) ==
  /\ call[c] = Free
  /\ \E typed \in Tokens \cup {None} : Fetch(c, "login", "session", None, typed)
  /\ UNCHANGED <<server, cookie, source, page, history>>

Search(c) ==
  /\ call[c] = Free
  /\ Fetch(c, "search", "list", None, cookie)
  /\ UNCHANGED <<server, cookie, source, page, history>>

\* Variant: the buttons are enabled while the detail is on its way
ClickEnables(c) ==
  /\ call[c] = Free /\ listed
  /\ \E id \in Captures :
       /\ capture[id] # "new"
       /\ ShowRequest(c, "click", id)
       /\ clicked' = id
  /\ enabled' = TRUE
  /\ UNCHANGED <<server, cookie, source, detail, listed, faults>>

\* The contents of lists are not kept: any capture that has come may be in the
\* one shown, also one that is gone by now.
Click(c) ==
  /\ call[c] = Free /\ listed
  /\ \E id \in Captures :
       /\ capture[id] # "new"
       /\ ShowRequest(c, "click", id)
       /\ clicked' = id
  /\ UNCHANGED <<server, cookie, source, detail, enabled, listed, faults>>

PressReplay(c) ==
  /\ call[c] = Free /\ enabled
  /\ Fetch(c, "replay", "replay", selected, cookie)
  /\ UNCHANGED <<server, cookie, source, page, history>>

-----------------------------------------------------------------------------
(* What the page does with a reply *)

Return(c) == call' = [call EXCEPT ![c] = Free]

\* Variant: the old stream is left open
StartBeside ==
  \E s \in Streams :
    /\ stream[s] = "closed"
    /\ stream' = [stream EXCEPT ![s] = "connecting"]
    /\ current' = s
    /\ UNCHANGED backlog

StartEventStream ==
  \E s \in Streams :
    /\ stream[s] = "closed"
    /\ stream' = [t \in Streams |-> IF t = s THEN "connecting"
                                    ELSE IF t = current THEN "closed" ELSE stream[t]]
    /\ backlog' = [t \in Streams |-> IF t \in {s, current} THEN 0 ELSE backlog[t]]
    /\ current' = s

Fails(c) ==
  /\ call[c].state = "failed"
  /\ Return(c)
  /\ UNCHANGED <<server, cookie, source, page, history>>

Unlocked(c) ==
  /\ call[c].at = "session" /\ call[c].state = "ok"
  /\ cookie' = call[c].as
  /\ Fetch(c, "login", "list", None, call[c].as)
  /\ UNCHANGED <<server, source, page, history>>

TimerFires(c) ==
  /\ call[c].at = "timer"
  /\ Fetch(c, "reconnect", "list", None, cookie)
  /\ UNCHANGED <<server, cookie, source, page, history>>

Listed(c) ==
  /\ call[c].at = "list" /\ call[c].state = "ok"
  /\ listed' = TRUE
  /\ LET f == call[c].of
     IN \/ /\ f \in {"login", "reconnect"}
           /\ StartEventStream /\ Return(c) /\ UNCHANGED selected
        \/ /\ f = "event" /\ selected # None
           /\ ShowRequest(c, f, selected) /\ UNCHANGED source
        \/ /\ f = "search" \/ (f = "event" /\ selected = None)
           /\ Return(c) /\ UNCHANGED <<source, selected>>
  /\ UNCHANGED <<server, cookie, detail, enabled, history>>

\* Variant: the identifier read before the await is used after it
ReplayedAsked(c) ==
  /\ call[c].at = "replay" /\ call[c].state = "ok"
  /\ ShowRequest(c, "replay", call[c].about)
  /\ UNCHANGED <<server, cookie, source, detail, enabled, listed, history>>

Replayed(c) ==
  /\ call[c].at = "replay" /\ call[c].state = "ok"
  /\ ShowRequest(c, "replay", selected)
  /\ UNCHANGED <<server, cookie, source, detail, enabled, listed, history>>

Shown(c) ==
  /\ call[c].at = "detail" /\ call[c].state = "ok"
  /\ detail' = call[c].about /\ enabled' = TRUE
  /\ Return(c)
  /\ UNCHANGED <<server, cookie, source, selected, listed, history>>

Resume(c) ==
  Fails(c) \/ Unlocked(c) \/ TimerFires(c) \/ Listed(c) \/ Replayed(c) \/ Shown(c)

-----------------------------------------------------------------------------
Init ==
  /\ token \in Tokens
  /\ capture = [c \in Captures |-> IF c \in Loaded THEN "stored" ELSE "new"]
  /\ cookie \in Tokens \cup {None}
  /\ call = [c \in Calls |-> Free]
  /\ stream = [s \in Streams |-> "closed"] /\ backlog = [s \in Streams |-> 0]
  /\ current = None
  /\ selected = None /\ detail = None /\ enabled = FALSE /\ listed = FALSE
  /\ events = 0 /\ faults = 0 /\ clicked = None

Server == \/ Happens \/ Stop \/ Start
          \/ \E c \in Calls : Serve(c)

Browser == \/ SessionEnds
           \/ \E c \in Calls : Lose(c)
           \/ \E s \in Streams : \/ Connect(s)
                                 \/ \E c \in Calls : StreamError(s, c) \/ Dispatch(s, c)

User == \E c \in Calls : Login(c) \/ Search(c) \/ Click(c) \/ PressReplay(c)

Next == Server \/ Browser \/ User \/ \E c \in Calls : Resume(c)

Spec == Init /\ [][Next]_vars

\* fetch settles, timers fire and continuations are run.  A stream that is lost
\* has its "error" delivered: at the latest when, again and again, there is one of
\* Calls to run the timer.  A server need not be started, nor a user do anything.
FairSpec ==
  /\ Spec
  /\ \A c \in Calls : WF_vars(Serve(c) \/ Lose(c) \/ Resume(c))
  /\ SF_vars(\E s \in Streams, c \in Calls : stream[s] = "lost" /\ StreamError(s, c))

-----------------------------------------------------------------------------
(* Correctness *)

\* The page's state has its types, and a button that is enabled has a capture
\* to act on (showRequest, the click handlers of copy and replay).
TypeOK ==
  /\ token \in Tokens \cup {None} /\ cookie \in Tokens \cup {None}
  /\ capture \in [Captures -> {"new", "stored", "gone"}]
  /\ call \in [Calls -> [of: Functions \cup {"none"}, at: Requests \cup {"none", "timer"},
                         about: Captures \cup {None}, as: Tokens \cup {None},
                         state: {"asked", "ok", "failed"}]]
  /\ stream \in [Streams -> {"closed", "connecting", "open", "lost"}]
  /\ backlog \in [Streams -> 0 .. MaxEvents] /\ current \in Streams \cup {None}
  /\ {selected, detail, clicked} \subseteq Captures \cup {None}
  /\ {enabled, listed} \subseteq BOOLEAN
  /\ events \in 0 .. MaxEvents /\ faults \in 0 .. MaxFaults
  /\ (enabled => detail # None /\ selected # None)

\* However logins, errors and the timers of earlier errors overlap, the page has
\* at most one stream, and state.events is it (startEventStream): no event is
\* handled twice, and no stream is left that nobody can close.
OneStream == \A s \in Streams : stream[s] # "closed" => s = current

\* The selection is the capture the user clicked last: no handler that was under
\* way, for an event or a replay, takes the page back to an earlier one
\* (state.selectedID read after the await).
SelectionIsUsers == selected = clicked

\* After a lost stream the page has another one in use, unless the load of the
\* list that it does first fails (the handler of "error", its timer).
StreamComesBack ==
  (\E s \in Streams : stream[s] = "lost") ~>
    \/ \E s \in Streams : stream[s] \in {"connecting", "open"}
    \/ \E c \in Calls : call[c].of = "reconnect" /\ call[c].state = "failed"

=============================================================================
