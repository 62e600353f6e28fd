----------------------------- MODULE PanelEvents -----------------------------
(***************************************************************************)
(* How the server's interface learns of what happens: Api._emit, the live  *)
(* poll that repeats the status every second (api.py), the broker that     *)
(* hands each event to the queues of the connected browsers, and the       *)
(* threads that write those queues to their connections (web_server.py).   *)
(* A browser may vanish without closing its connection.                    *)
(***************************************************************************)
EXTENDS Naturals, Sequences

CONSTANTS
    Tabs,          \* connected browsers
    QueueSize,     \* of a subscriber's queue
    MaxIdlePings,  \* sse_max_idle_pings
    SendBuffer,    \* writes a vanished peer's connection takes before it fails
    MaxChanges, MaxVisits  \* bounds: changes of state, connections made

ASSUME PanelEventsAssumption ==
    /\ QueueSize \in Nat \ {0} /\ MaxIdlePings \in Nat /\ SendBuffer \in Nat
    /\ MaxChanges \in Nat /\ MaxVisits \in Nat

VARIABLES
    peState,     \* what the manager's state is: a count of its changes
    pePolls,     \* does the live poll run?
    peQueue,     \* a queue per connected browser
    peStream,    \* the thread of each connection: "closed", "open" or "blocked"
    pePeer,      \* the browser: "absent", "there", or "vanished" with the connection open
    peView,      \* the last status a browser was shown
    peIdlePings, \* heartbeats in a row
    peSent,      \* writes a vanished peer has taken
    peVisits     \* what the bound counts

peVars == <<peState, pePolls, peQueue, peStream, pePeer, peView, peIdlePings, peSent, peVisits>>

PeInit ==
    /\ peState = 0 /\ pePolls = FALSE /\ peVisits = 0
    /\ peQueue = [t \in Tabs |-> <<>>] /\ peStream = [t \in Tabs |-> "closed"]
    /\ pePeer = [t \in Tabs |-> "absent"] /\ peView = [t \in Tabs |-> 0]
    /\ peIdlePings = [t \in Tabs |-> 0] /\ peSent = [t \in Tabs |-> 0]

\* EventBroker.publish: an event that does not fit a queue is dropped.
Publish(status) ==
    peQueue' = [t \in Tabs |->
        IF peStream[t] # "closed" /\ Len(peQueue[t]) < QueueSize
        THEN Append(peQueue[t], status) ELSE peQueue[t]]

\* _handle_events: subscribed from here on.
OpenStream(t) ==
    /\ peStream[t] = "closed" /\ pePeer[t] # "vanished" /\ peVisits < MaxVisits
    /\ peVisits' = peVisits + 1
    /\ peStream' = [peStream EXCEPT ![t] = "open"] /\ pePeer' = [pePeer EXCEPT ![t] = "there"]
    /\ peIdlePings' = [peIdlePings EXCEPT ![t] = 0] /\ peSent' = [peSent EXCEPT ![t] = 0]
    /\ UNCHANGED <<peState, pePolls, peQueue, peView>>

\* notify_ready: the page is mounted, the poll is started if it does not run.
NotifyReady(t) ==
    /\ pePeer[t] = "there" /\ ~pePolls /\ pePolls' = TRUE
    /\ UNCHANGED <<peState, peQueue, peStream, pePeer, peView, peIdlePings, peSent, peVisits>>

StateChanges ==
    /\ peState < MaxChanges /\ peState' = peState + 1 /\ Publish(peState + 1)
    /\ UNCHANGED <<pePolls, peStream, pePeer, peView, peIdlePings, peSent, peVisits>>

\* Mutant of LivePoll: only the traffic numbers are sent again, never the status.
LivePollStats == pePolls /\ UNCHANGED peVars

\* Every second: the status, whatever became of the events before it.
LivePoll ==
    /\ pePolls /\ Publish(peState)
    /\ UNCHANGED <<peState, pePolls, peStream, pePeer, peView, peIdlePings, peSent, peVisits>>

EndStream(t) ==
    /\ peStream' = [peStream EXCEPT ![t] = "closed"] /\ peQueue' = [peQueue EXCEPT ![t] = <<>>]
    /\ pePeer' = [pePeer EXCEPT ![t] = "absent"]

\* A write: shown by a browser that is there; a vanished one's connection takes
\* some, then blocks until the socket's timeout.
WriteTo(t) ==
    \/ pePeer[t] = "there" /\ UNCHANGED <<peStream, peSent>>
    \/ /\ pePeer[t] = "vanished" /\ peSent[t] < SendBuffer
       /\ peSent' = [peSent EXCEPT ![t] = @ + 1] /\ UNCHANGED peStream
    \/ /\ pePeer[t] = "vanished" /\ peSent[t] >= SendBuffer
       /\ peStream' = [peStream EXCEPT ![t] = "blocked"] /\ UNCHANGED peSent

Deliver(t) ==
    /\ peStream[t] = "open" /\ peQueue[t] # <<>>
    /\ WriteTo(t)
    /\ peQueue' = [peQueue EXCEPT ![t] = Tail(@)]
    /\ peView' = [peView EXCEPT ![t] = IF pePeer[t] = "there" THEN Head(peQueue[t]) ELSE @]
    /\ peIdlePings' = [peIdlePings EXCEPT ![t] = 0]
    /\ UNCHANGED <<peState, pePolls, pePeer, peVisits>>

\* Mutant of Heartbeat: it pings and never closes.
HeartbeatForEver(t) ==
    /\ peStream[t] = "open" /\ peQueue[t] = <<>> /\ ~pePolls
    /\ peIdlePings' = [peIdlePings EXCEPT ![t] = (@ + 1) % 2]
    /\ UNCHANGED <<peState, pePolls, peQueue, peStream, pePeer, peView, peSent, peVisits>>

\* Fifteen seconds without an event: a ping, and after too many the connection
\* is closed for the browser to open it again.
Heartbeat(t) ==
    /\ peStream[t] = "open" /\ peQueue[t] = <<>> /\ ~pePolls
    /\ IF peIdlePings[t] >= MaxIdlePings
       THEN EndStream(t) /\ UNCHANGED <<peIdlePings, peSent>>
       ELSE /\ peIdlePings' = [peIdlePings EXCEPT ![t] = @ + 1] /\ WriteTo(t)
            /\ UNCHANGED <<peQueue, pePeer>>
    /\ UNCHANGED <<peState, pePolls, peView, peVisits>>

\* The handler's timeout ends a write that blocks.
WriteTimeout(t) ==
    /\ peStream[t] = "blocked" /\ EndStream(t)
    /\ UNCHANGED <<peState, pePolls, peView, peIdlePings, peSent, peVisits>>

\* A tab is closed: the connection is reset; or it vanishes without a word.
TabCloses(t) ==
    /\ peStream[t] = "open" /\ pePeer[t] = "there" /\ EndStream(t)
    /\ UNCHANGED <<peState, pePolls, peView, peIdlePings, peSent, peVisits>>

TabVanishes(t) ==
    /\ peStream[t] = "open" /\ pePeer[t] = "there"
    /\ pePeer' = [pePeer EXCEPT ![t] = "vanished"]
    /\ UNCHANGED <<peState, pePolls, peQueue, peStream, peView, peIdlePings, peSent, peVisits>>

StreamStep(t) == Deliver(t) \/ Heartbeat(t) \/ WriteTimeout(t)

PeNext ==
    \/ StateChanges \/ LivePoll
    \/ \E t \in Tabs : OpenStream(t) \/ NotifyReady(t) \/ StreamStep(t) \/ TabCloses(t) \/ TabVanishes(t)

\* The threads run and their timers fire; a mounted page says so; browsers
\* come and go as they please.
PeFairness ==
    /\ WF_peVars(LivePoll)
    /\ \A t \in Tabs : WF_peVars(StreamStep(t)) /\ WF_peVars(NotifyReady(t))

PeSpec == PeInit /\ [][PeNext]_peVars /\ PeFairness

-----------------------------------------------------------------------------
(* Properties.                                                             *)

\* However many events a slow browser's queue has dropped, the poll makes it
\* show the state the manager is in, as long as it stays connected.
PeViewHeals ==
    \A t \in Tabs :
        (pePeer[t] = "there") ~> (pePeer[t] # "there" \/ peView[t] = peState)

\* The thread of a browser that vanished without closing its connection ends,
\* with and without events to write to it.
PeThreadReclaimed ==
    \A t \in Tabs : (pePeer[t] = "vanished") ~> (peStream[t] = "closed")
=============================================================================
