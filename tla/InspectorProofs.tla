--------------------------- MODULE InspectorProofs ---------------------------
(***************************************************************************)
(* The page keeps one stream and the user's selection, for any number of   *)
(* captures, calls, streams, events and faults.                            *)
(***************************************************************************)
EXTENDS Inspector, TLAPS

\* What a call is about is there while it is needed, and when a detail is on its
\* way something is selected (showRequest, the click handler of replay).
CallsHaveSubjects ==
  \A c \in Calls :
    call[c].at \in {"detail", "replay"} /\ call[c].state # "failed" =>
      call[c].about \in Captures /\ selected # None

\* A stream has no more events than there have been.
BacklogsBounded == \A s \in Streams : backlog[s] <= events

IInv == TypeOK /\ CallsHaveSubjects /\ BacklogsBounded /\ OneStream /\ SelectionIsUsers

Call == [of: Functions \cup {"none"}, at: Requests \cup {"none", "timer"},
         about: Captures \cup {None}, as: Tokens \cup {None},
         state: {"asked", "ok", "failed"}]

-----------------------------------------------------------------------------
\* A reply leaves the call typed, and what was asked for.
LEMMA AnsweredType ==
  ASSUME NEW k \in Call, NEW state \in {"ok", "failed"}
  PROVE  /\ Answered(k, state) \in Call
         /\ Answered(k, state).at = k.at /\ Answered(k, state).state = state
         /\ state = "ok" => Answered(k, state).about = k.about
BY DEF Answered, Call

\* The page starts with no stream and nothing selected.
LEMMA InitIInv == Init => IInv
<1> SUFFICES ASSUME Init PROVE IInv
  OBVIOUS
<1> USE InspectorConstants DEF Init
<1>1. Free \in Call /\ Free.at = "none"
  BY DEF Free, Call
<1>2. TypeOK
  <2>1. /\ capture \in [Captures -> {"new", "stored", "gone"}] /\ call \in [Calls -> Call]
        /\ stream \in [Streams -> {"closed", "connecting", "open", "lost"}]
        /\ backlog \in [Streams -> 0 .. MaxEvents]
    BY <1>1
  <2>2. {enabled, listed} \subseteq BOOLEAN /\ ~ enabled
    OBVIOUS
  <2> QED
    BY <2>1, <2>2 DEF TypeOK, Call
<1>3. CallsHaveSubjects
  BY <1>1 DEF CallsHaveSubjects
<1> QED
  BY <1>2, <1>3 DEF IInv, BacklogsBounded, OneStream, SelectionIsUsers

\* The step of one call keeps the others as they are.
LEMMA OneCall ==
  ASSUME IInv, NEW c \in Calls, NEW k \in Call, call' = [call EXCEPT ![c] = k],
         selected # None => selected' # None,
         k.at \in {"detail", "replay"} /\ k.state # "failed" =>
           k.about \in Captures /\ selected' # None
  PROVE  call' \in [Calls -> Call] /\ CallsHaveSubjects'
<1>1. call \in [Calls -> Call]
  BY DEF IInv, TypeOK, Call
<1>2. call' \in [Calls -> Call]
  BY <1>1
<1>3. \A d \in Calls : call'[d] = IF d = c THEN k ELSE call[d]
  BY <1>1
<1> QED
  BY <1>2, <1>3 DEF IInv, CallsHaveSubjects

\* What the invariant says of a page that is left as it is
LEMMA PageStays ==
  ASSUME IInv, UNCHANGED <<page, clicked>>
  PROVE  /\ {selected, detail, clicked}' \subseteq Captures \cup {None}
         /\ {enabled, listed}' \subseteq BOOLEAN
         /\ (enabled' => detail' # None /\ selected' # None)
         /\ SelectionIsUsers'
BY DEF IInv, TypeOK, SelectionIsUsers, page

\* What it says of streams that are left as they are
LEMMA SourceStays ==
  ASSUME IInv, UNCHANGED <<source, events>>
  PROVE  /\ stream' \in [Streams -> {"closed", "connecting", "open", "lost"}]
         /\ backlog' \in [Streams -> 0 .. MaxEvents] /\ current' \in Streams \cup {None}
         /\ BacklogsBounded' /\ OneStream'
BY DEF IInv, TypeOK, BacklogsBounded, OneStream, source

-----------------------------------------------------------------------------
(* The server *)

\* A reply of the server, or its failure (operator, list, get, replay)
LEMMA ServeKeeps ==
  ASSUME IInv, NEW c \in Calls, Serve(c)
  PROVE  IInv'
<1> USE DEF server, history
<1>1. PICK state \in {"ok", "failed"} : Reply(c, state)
  BY DEF Serve
<1>2. UNCHANGED <<server, source, cookie, page, history>>
  BY DEF Serve
<1>3. call[c] \in Call /\ call[c].state = "asked"
  BY DEF IInv, TypeOK, Call, Serve
<1>4. call' = [call EXCEPT ![c] = Answered(call[c], state)]
  BY <1>1 DEF Reply
<1>5. selected' = selected
  BY <1>2 DEF page
<1>6. call' \in [Calls -> Call] /\ CallsHaveSubjects'
  BY <1>3, <1>4, <1>5, AnsweredType, OneCall DEF IInv, CallsHaveSubjects
<1>7. TypeOK'
  BY <1>2, <1>6, PageStays, SourceStays DEF IInv, TypeOK, Call
<1> QED
  BY <1>2, <1>6, <1>7, PageStays, SourceStays DEF IInv

\* A capture or a job changes on the server.
LEMMA HappensKeeps == IInv /\ Happens => IInv'
<1> SUFFICES ASSUME IInv, Happens PROVE IInv'
  OBVIOUS
<1>1. UNCHANGED <<token, cookie, call, stream, current, page, history>>
  BY DEF Happens
<1>2. /\ events' \in 0 .. MaxEvents
      /\ backlog' \in [Streams -> 0 .. MaxEvents] /\ \A s \in Streams : backlog'[s] <= events'
  BY InspectorConstants DEF Happens, IInv, TypeOK, BacklogsBounded
<1>3. capture' \in [Captures -> {"new", "stored", "gone"}]
  BY DEF Happens, IInv, TypeOK
<1>4. UNCHANGED <<page, clicked>>
  BY <1>1 DEF history
<1>5. TypeOK'
  BY <1>1, <1>2, <1>3, <1>4, PageStays DEF IInv, TypeOK, history
<1>6. CallsHaveSubjects' /\ OneStream'
  BY <1>1 DEF IInv, CallsHaveSubjects, OneStream, page
<1> QED
  BY <1>2, <1>4, <1>5, <1>6, PageStays DEF IInv, BacklogsBounded

\* The process stops, and its streams are lost.
LEMMA StopKeeps == IInv /\ Stop => IInv'
<1> SUFFICES ASSUME IInv, Stop PROVE IInv'
  OBVIOUS
<1> USE DEF Stop, Fault
<1>1. UNCHANGED <<page, clicked>>
  OBVIOUS
<1>2. \A s \in Streams : stream'[s] # "closed" => stream[s] # "closed"
  BY DEF IInv, TypeOK
<1>3. stream' \in [Streams -> {"closed", "connecting", "open", "lost"}]
  BY DEF IInv, TypeOK
<1>4. faults' \in 0 .. MaxFaults
  BY InspectorConstants DEF IInv, TypeOK
<1>5. TypeOK'
  BY <1>1, <1>3, <1>4, PageStays DEF IInv, TypeOK
<1>6. CallsHaveSubjects' /\ BacklogsBounded' /\ OneStream'
  BY <1>1, <1>2 DEF IInv, CallsHaveSubjects, BacklogsBounded, OneStream, page
<1> QED
  BY <1>1, <1>5, <1>6, PageStays DEF IInv

\* A process starts, with a token of its own.
LEMMA StartKeeps == IInv /\ Start => IInv'
<1> SUFFICES ASSUME IInv, Start PROVE IInv'
  OBVIOUS
<1> USE DEF Start, history
<1>1. TypeOK'
  BY PageStays, SourceStays DEF IInv, TypeOK
<1>2. CallsHaveSubjects'
  BY DEF IInv, CallsHaveSubjects, page
<1> QED
  BY <1>1, <1>2, PageStays, SourceStays DEF IInv

-----------------------------------------------------------------------------
(* The browser *)

\* The session's cookie is gone.
LEMMA SessionEndsKeeps == IInv /\ SessionEnds => IInv'
<1> SUFFICES ASSUME IInv, SessionEnds PROVE IInv'
  OBVIOUS
<1> USE DEF SessionEnds, Fault, server
<1>1. faults' \in 0 .. MaxFaults
  BY InspectorConstants DEF IInv, TypeOK
<1>2. TypeOK'
  BY <1>1, PageStays, SourceStays DEF IInv, TypeOK
<1>3. CallsHaveSubjects'
  BY DEF IInv, CallsHaveSubjects, page
<1> QED
  BY <1>2, <1>3, PageStays, SourceStays DEF IInv

\* A request or its reply is lost.
LEMMA LoseKeeps ==
  ASSUME IInv, NEW c \in Calls, Lose(c)
  PROVE  IInv'
<1>1. UNCHANGED <<server, cookie, source, page, clicked>>
  BY DEF Lose
<1>2. call[c] \in Call /\ call' = [call EXCEPT ![c] = Answered(call[c], "failed")]
  BY DEF IInv, TypeOK, Call, Lose, Reply
<1>3. call' \in [Calls -> Call] /\ CallsHaveSubjects'
  BY <1>1, <1>2, AnsweredType, OneCall DEF page
<1>4. faults' \in 0 .. MaxFaults
  BY InspectorConstants DEF Lose, Fault, IInv, TypeOK
<1>5. TypeOK'
  BY <1>1, <1>3, <1>4, PageStays, SourceStays DEF IInv, TypeOK, Call, server
<1> QED
  BY <1>1, <1>3, <1>5, PageStays, SourceStays DEF IInv, server

\* The server takes the stream.
LEMMA ConnectKeeps ==
  ASSUME IInv, NEW s \in Streams, Connect(s)
  PROVE  IInv'
<1> USE DEF Connect, history, server
<1>1. stream' \in [Streams -> {"closed", "connecting", "open", "lost"}]
  BY DEF IInv, TypeOK
<1>2. \A t \in Streams : stream'[t] # "closed" => stream[t] # "closed"
  BY DEF IInv, TypeOK
<1>3. TypeOK'
  BY <1>1, PageStays DEF IInv, TypeOK
<1>4. CallsHaveSubjects' /\ BacklogsBounded' /\ OneStream'
  BY <1>2 DEF IInv, CallsHaveSubjects, BacklogsBounded, OneStream, page
<1> QED
  BY <1>3, <1>4, PageStays DEF IInv

\* fetch and setTimeout leave the calls typed and with their subjects.
LEMMA AskingKeeps ==
  ASSUME IInv, NEW c \in Calls, NEW f \in Functions, NEW request \in Requests \cup {"timer"},
         NEW about \in Captures \cup {None}, NEW as \in Tokens \cup {None},
         call' = [call EXCEPT ![c] = Asking(f, request, about, as)],
         selected # None => selected' # None,
         request \in {"detail", "replay"} => about \in Captures /\ selected' # None
  PROVE  call' \in [Calls -> Call] /\ CallsHaveSubjects'
<1> DEFINE k == Asking(f, request, about, as)
<1>1. k \in Call /\ k.at = request /\ k.about = about
  BY DEF Asking, Free, Call, Functions, Requests
<1> HIDE DEF k
<1> QED
  BY <1>1, OneCall DEF k

\* The handler of "error" closes state.events and sets its timer.
LEMMA StreamErrorKeeps ==
  ASSUME IInv, NEW s \in Streams, NEW c \in Calls, StreamError(s, c)
  PROVE  IInv'
<1>1. UNCHANGED <<server, cookie, current, page, clicked>> /\ Closed(current)
  BY DEF StreamError
<1>2. call' \in [Calls -> Call] /\ CallsHaveSubjects'
  <2>1. call' = [call EXCEPT ![c] = Asking("reconnect", "timer", None, None)]
    BY DEF StreamError
  <2>2. selected' = selected
    BY <1>1 DEF page
  <2> QED
    BY <2>1, <2>2, AskingKeeps DEF Functions
<1>3. faults' \in 0 .. MaxFaults
  <2>1. UNCHANGED faults \/ Fault
    BY DEF StreamError
  <2> QED
    BY <2>1, InspectorConstants DEF Fault, IInv, TypeOK
<1>4. /\ stream' \in [Streams -> {"closed", "connecting", "open", "lost"}]
      /\ backlog' \in [Streams -> 0 .. MaxEvents]
      /\ BacklogsBounded' /\ OneStream'
  BY <1>1, InspectorConstants
  DEF Closed, IInv, TypeOK, BacklogsBounded, OneStream, server
<1>5. TypeOK'
  BY <1>1, <1>2, <1>3, <1>4, PageStays DEF IInv, TypeOK, Call, server
<1> QED
  BY <1>1, <1>2, <1>4, <1>5, PageStays DEF IInv

\* The handler of an event begins a load.
LEMMA DispatchKeeps ==
  ASSUME IInv, NEW s \in Streams, NEW c \in Calls, Dispatch(s, c)
  PROVE  IInv'
<1>1. UNCHANGED <<server, cookie, stream, current, page, history>>
  BY DEF Dispatch
<1>2. call' \in [Calls -> Call] /\ CallsHaveSubjects'
  <2>1. call' = [call EXCEPT ![c] = Asking("event", "list", None, cookie)]
    BY DEF Dispatch, Fetch
  <2>2. selected' = selected /\ cookie \in Tokens \cup {None}
    BY <1>1 DEF page, IInv, TypeOK
  <2> QED
    BY <2>1, <2>2, AskingKeeps DEF Functions, Requests
<1>3. backlog' \in [Streams -> 0 .. MaxEvents] /\ BacklogsBounded'
  BY <1>1, InspectorConstants DEF Dispatch, IInv, TypeOK, BacklogsBounded, server
<1>4. TypeOK'
  BY <1>1, <1>2, <1>3, PageStays DEF IInv, TypeOK, Call, server, history
<1>5. OneStream'
  BY <1>1 DEF IInv, OneStream
<1> QED
  BY <1>1, <1>2, <1>3, <1>4, <1>5, PageStays DEF IInv, history

-----------------------------------------------------------------------------
(* The user *)

\* login, up to its first await
LEMMA LoginKeeps ==
  ASSUME IInv, NEW c \in Calls, Login(c)
  PROVE  IInv'
<1>1. UNCHANGED <<server, cookie, source, page, history>>
  BY DEF Login
<1>2. PICK typed \in Tokens \cup {None} :
        call' = [call EXCEPT ![c] = Asking("login", "session", None, typed)]
  BY DEF Login, Fetch
<1>3. call' \in [Calls -> Call] /\ CallsHaveSubjects'
  BY <1>1, <1>2, AskingKeeps DEF Functions, Requests, page
<1>4. TypeOK'
  BY <1>1, <1>3, PageStays, SourceStays DEF IInv, TypeOK, Call, server, history
<1> QED
  BY <1>1, <1>3, <1>4, PageStays, SourceStays DEF IInv, server, history

\* A load of the list that leaves the rest of the page as it is (Search,
\* TimerFires; with the session's cookie, Unlocked).
LEMMA LoadKeeps ==
  ASSUME IInv, NEW c \in Calls, NEW f \in Functions, NEW as \in Tokens \cup {None},
         Fetch(c, f, "list", None, as), cookie' \in Tokens \cup {None},
         UNCHANGED <<server, source, page, history>>
  PROVE  IInv'
<1>1. call' \in [Calls -> Call] /\ CallsHaveSubjects'
  BY AskingKeeps DEF Fetch, Requests, page
<1>2. TypeOK'
  BY <1>1, PageStays, SourceStays DEF IInv, TypeOK, Call, server, history
<1> QED
  BY <1>1, <1>2, PageStays, SourceStays DEF IInv, server, history

\* Showing a capture that is selected from now on, by a click or again.
LEMMA ShowRequestKeeps ==
  ASSUME IInv, NEW c \in Calls, NEW f \in Functions, NEW id \in Captures,
         ShowRequest(c, f, id), clicked' = id, listed' \in BOOLEAN,
         UNCHANGED <<server, cookie, source, detail, enabled, faults>>
  PROVE  IInv'
<1>1. selected' = id /\ id # None
  BY InspectorConstants DEF ShowRequest
<1>2. cookie \in Tokens \cup {None}
  BY DEF IInv, TypeOK
<1>3. call' \in [Calls -> Call] /\ CallsHaveSubjects'
  BY <1>1, <1>2, AskingKeeps DEF ShowRequest, Fetch, Requests
<1>4. TypeOK'
  BY <1>1, <1>3, SourceStays DEF IInv, TypeOK, Call, server
<1> QED
  BY <1>1, <1>3, <1>4, SourceStays DEF IInv, SelectionIsUsers, server

\* A click on a capture of the list
LEMMA ClickKeeps ==
  ASSUME IInv, NEW c \in Calls, Click(c)
  PROVE  IInv'
<1>1. PICK id \in Captures : ShowRequest(c, "click", id) /\ clicked' = id
  BY DEF Click
<1>2. UNCHANGED <<server, cookie, source, detail, enabled, listed, faults>>
  BY DEF Click
<1> QED
  BY <1>1, <1>2, ShowRequestKeeps DEF Functions, IInv, TypeOK

\* The click handler of replay, up to its await
LEMMA PressReplayKeeps ==
  ASSUME IInv, NEW c \in Calls, PressReplay(c)
  PROVE  IInv'
<1>1. UNCHANGED <<server, cookie, source, page, history>>
  BY DEF PressReplay
<1>2. selected \in Captures /\ selected # None /\ cookie \in Tokens \cup {None}
  BY InspectorConstants DEF PressReplay, IInv, TypeOK
<1>3. call' = [call EXCEPT ![c] = Asking("replay", "replay", selected, cookie)]
  BY DEF PressReplay, Fetch
<1>4. selected' = selected
  BY <1>1 DEF page
<1>5. call' \in [Calls -> Call] /\ CallsHaveSubjects'
  BY <1>2, <1>3, <1>4, AskingKeeps DEF Functions, Requests
<1>6. TypeOK'
  BY <1>1, <1>5, PageStays, SourceStays DEF IInv, TypeOK, Call, server, history
<1> QED
  BY <1>1, <1>5, <1>6, PageStays, SourceStays DEF IInv, server, history

-----------------------------------------------------------------------------
(* What the page does with a reply *)

\* A call that ends leaves the others typed and with their subjects.
LEMMA ReturnKeeps ==
  ASSUME IInv, NEW c \in Calls, Return(c), selected' = selected
  PROVE  call' \in [Calls -> Call] /\ CallsHaveSubjects'
<1>1. Free \in Call /\ Free.at = "none"
  BY DEF Free, Call
<1> QED
  BY <1>1, OneCall DEF Return

\* startEventStream leaves the page one stream, state.events.
LEMMA StartEventStreamKeeps ==
  ASSUME IInv, StartEventStream, events' = events
  PROVE  /\ stream' \in [Streams -> {"closed", "connecting", "open", "lost"}]
         /\ backlog' \in [Streams -> 0 .. MaxEvents] /\ current' \in Streams \cup {None}
         /\ BacklogsBounded' /\ OneStream'
BY InspectorConstants
DEF StartEventStream, IInv, TypeOK, BacklogsBounded, OneStream

\* A handler ends with what its request threw.
LEMMA FailsKeeps ==
  ASSUME IInv, NEW c \in Calls, Fails(c)
  PROVE  IInv'
<1>1. UNCHANGED <<server, cookie, source, page, history>>
  BY DEF Fails
<1>2. call' \in [Calls -> Call] /\ CallsHaveSubjects'
  BY <1>1, ReturnKeeps DEF Fails, page
<1>3. TypeOK'
  BY <1>1, <1>2, PageStays, SourceStays DEF IInv, TypeOK, Call, server, history
<1> QED
  BY <1>1, <1>2, <1>3, PageStays, SourceStays DEF IInv, server, history

\* loadRequests returns, to each of the functions that call it.
LEMMA ListedKeeps ==
  ASSUME IInv, NEW c \in Calls, Listed(c)
  PROVE  IInv'
<1>1. UNCHANGED <<server, cookie, detail, enabled, history>> /\ listed' = TRUE
  BY DEF Listed
<1>2. CASE StartEventStream /\ Return(c) /\ UNCHANGED selected
  <2>1. call' \in [Calls -> Call] /\ CallsHaveSubjects'
    BY <1>2, ReturnKeeps
  <2>2. TypeOK'
    BY <1>1, <1>2, <2>1, StartEventStreamKeeps DEF IInv, TypeOK, Call, server, history
  <2> QED
    BY <1>1, <1>2, <2>1, <2>2, StartEventStreamKeeps
    DEF IInv, SelectionIsUsers, server, history
<1>3. CASE selected # None /\ ShowRequest(c, call[c].of, selected) /\ UNCHANGED source
           /\ call[c].of = "event"
  <2>1. selected \in Captures /\ clicked' = selected
    BY <1>1, <1>3 DEF IInv, TypeOK, SelectionIsUsers, history
  <2> QED
    BY <1>1, <1>3, <2>1, ShowRequestKeeps DEF Functions, history
<1>4. CASE Return(c) /\ UNCHANGED <<source, selected>>
  <2>1. call' \in [Calls -> Call] /\ CallsHaveSubjects'
    BY <1>4, ReturnKeeps
  <2>2. TypeOK'
    BY <1>1, <1>4, <2>1, SourceStays DEF IInv, TypeOK, Call, server, history
  <2> QED
    BY <1>1, <1>4, <2>1, <2>2, SourceStays DEF IInv, SelectionIsUsers, server, history
<1> QED
  BY <1>2, <1>3, <1>4 DEF Listed

\* The click handler of replay shows the selection.
LEMMA ReplayedKeeps ==
  ASSUME IInv, NEW c \in Calls, Replayed(c)
  PROVE  IInv'
<1>1. /\ ShowRequest(c, "replay", selected)
      /\ UNCHANGED <<server, cookie, source, detail, enabled, listed, history>>
  BY DEF Replayed
<1>2. selected \in Captures /\ clicked' = selected
  BY <1>1 DEF Replayed, IInv, TypeOK, CallsHaveSubjects, SelectionIsUsers, history
<1> QED
  BY <1>1, <1>2, ShowRequestKeeps DEF Functions, IInv, TypeOK, history

\* showRequest writes the detail and enables the buttons.
LEMMA ShownKeeps ==
  ASSUME IInv, NEW c \in Calls, Shown(c)
  PROVE  IInv'
<1>1. /\ UNCHANGED <<server, cookie, source, selected, listed, history>>
      /\ detail' = call[c].about /\ enabled' = TRUE
  BY DEF Shown
<1>2. call[c].about \in Captures /\ selected # None
  BY DEF Shown, IInv, CallsHaveSubjects
<1>3. call[c].about # None
  BY <1>2, InspectorConstants
<1>4. call' \in [Calls -> Call] /\ CallsHaveSubjects'
  BY <1>1, ReturnKeeps DEF Shown
<1>5. TypeOK'
  BY <1>1, <1>2, <1>3, <1>4, SourceStays DEF IInv, TypeOK, Call, server, history
<1> QED
  BY <1>1, <1>4, <1>5, SourceStays DEF IInv, SelectionIsUsers, server, history

\* login has its session and loads the list.
LEMMA UnlockedKeeps ==
  ASSUME IInv, NEW c \in Calls, Unlocked(c)
  PROVE  IInv'
<1>1. /\ cookie' = call[c].as /\ Fetch(c, "login", "list", None, call[c].as)
      /\ UNCHANGED <<server, source, page, history>>
  BY DEF Unlocked
<1>2. call[c].as \in Tokens \cup {None}
  BY DEF IInv, TypeOK
<1> QED
  BY <1>1, <1>2, LoadKeeps DEF Functions

\* The timer of an error, and a search, begin a load of the list.
LEMMA LoadsKeep ==
  ASSUME IInv, NEW c \in Calls, TimerFires(c) \/ Search(c)
  PROVE  IInv'
<1>1. PICK f \in Functions : Fetch(c, f, "list", None, cookie)
  BY DEF TimerFires, Search, Functions
<1>2. UNCHANGED <<server, cookie, source, page, history>>
  BY DEF TimerFires, Search
<1>3. cookie \in Tokens \cup {None}
  BY DEF IInv, TypeOK
<1> QED
  BY <1>1, <1>2, <1>3, LoadKeeps

-----------------------------------------------------------------------------
(* The theorems *)

\* A step that leaves every variable as it is
LEMMA StutterKeeps == IInv /\ UNCHANGED vars => IInv'
<1> SUFFICES ASSUME IInv, UNCHANGED vars PROVE IInv'
  OBVIOUS
<1> USE DEF vars, server, history
<1>1. TypeOK'
  BY PageStays, SourceStays DEF IInv, TypeOK
<1>2. CallsHaveSubjects'
  BY DEF IInv, CallsHaveSubjects, page
<1> QED
  BY <1>1, <1>2, PageStays, SourceStays DEF IInv

\* Every step keeps the invariant.
LEMMA NextIInv == IInv /\ [Next]_vars => IInv'
<1> SUFFICES ASSUME IInv, [Next]_vars PROVE IInv'
  OBVIOUS
<1>1. CASE Server
  BY <1>1, HappensKeeps, StopKeeps, StartKeeps, ServeKeeps DEF Server
<1>2. CASE Browser
  BY <1>2, SessionEndsKeeps, LoseKeeps, ConnectKeeps, StreamErrorKeeps, DispatchKeeps
  DEF Browser
<1>3. CASE User
  BY <1>3, LoginKeeps, LoadsKeep, ClickKeeps, PressReplayKeeps DEF User
<1>4. CASE \E c \in Calls : Resume(c)
  BY <1>4, FailsKeeps, UnlockedKeeps, LoadsKeep, ListedKeeps, ReplayedKeeps, ShownKeeps
  DEF Resume
<1>5. CASE UNCHANGED vars
  BY <1>5, StutterKeeps
<1> QED
  BY <1>1, <1>2, <1>3, <1>4, <1>5 DEF Next

\* The invariant holds of the page from the first load on, whatever the server,
\* the network and the user do.
THEOREM Invariance == Spec => []IInv
BY InitIInv, NextIInv, PTL DEF Spec

\* The page's variables keep their types, and a button that is enabled has a
\* capture to act on (showRequest, the click handlers of copy and replay).
THEOREM TypesHold == Spec => []TypeOK
<1>1. IInv => TypeOK
  BY DEF IInv
<1> QED
  BY <1>1, Invariance, PTL

\* The page never has two streams, and the one it has is state.events
\* (startEventStream, the handler of "error" and its timer).
THEOREM AtMostOneStream == Spec => []OneStream
<1>1. IInv => OneStream
  BY DEF IInv
<1> QED
  BY <1>1, Invariance, PTL

\* No handler takes the selection from what the user clicked last (showRequest
\* as it is called for events and replays).
THEOREM SelectionStays == Spec => []SelectionIsUsers
<1>1. IInv => SelectionIsUsers
  BY DEF IInv
<1> QED
  BY <1>1, Invariance, PTL

=============================================================================
