------------------------ MODULE TunnelManagerSafety ------------------------
(***************************************************************************)
(* The kill switch covers a session, whatever fails and whatever the       *)
(* worker is doing: NoLeak, for any number of rungs and attempts, and also *)
(* when the worker outlasts the join in stop().  One controller: two of    *)
(* them can tear down each other's session.                                *)
(*                                                                         *)
(* And a stop leaves nothing: StoppedClean, where the worker does end      *)
(* within the join.  It speaks of the time after stop() has returned;      *)
(* Tidy adds what each step of stop() may rely on, and that the worker     *)
(* leaves a process or an interface only where a later step removes it.    *)
(*                                                                         *)
(* From both, the manager implements TunnelLifecycle: Staged says which    *)
(* state the manager is in at each label of its worker.                    *)
(***************************************************************************)
EXTENDS TunnelManagerProofs

\* There is at most one controller.
Alone == \A c, d \in Controllers : c = d

\* Before a stop has been asked for, no controller is inside stop().
Calm == ~halted => \A c \in Controllers : pc[c] \in {"idle", "halt", "start", "launch"}

\* start() only goes on when the old thread is dead, and it stays so.
Launching == \A c \in Controllers : pc[c] = "launch" => At("dead")

Wanted == session => ~halted

\* What connect() has just established is still there, unless a stop is on.
Fresh == At("won") /\ ~halted => iface = "up"

\* Away from the watch loop and the two reconciliations around it.
Ruled(l, n) ==
    l \notin {"watch", "lost", "drop"} /\ ~(l = "guard" /\ n \in {"watch", "teardown"})

\* How a session is covered, with the worker at label l, to return to n: by
\* the tunnel while it is being watched, and by the rules everywhere else.  In
\* between are the two reconciliations that put one for the other.
Covered(l, n) ==
    \/ l \in {"watch", "lost", "drop"} /\ state = "connected" /\ iface # "down"
    \/ l = "guard" /\ n = "watch" /\ state = "connected" /\ iface = "up"
    \/ l = "guard" /\ n = "teardown" /\ iface # "down"
    \/ Ruled(l, n) /\ ks

Protects == KillSwitch /\ "engage" \notin Faults
Cover == Protects /\ session => Covered(pc[Worker], then[Worker])

Safe == Typed /\ Calm /\ Launching /\ Wanted /\ Fresh /\ Cover

LEMMA InitSafe == Init => Safe
<1> SUFFICES ASSUME Init PROVE Safe  OBVIOUS
<1>1. Typed  BY InitTyped
<1>2. pc[Worker] = "dead" /\ \A c \in Controllers : pc[c] = "idle"
  BY WorkerThread, ControllerThread DEF Init
<1>3. ~session  BY DEF Init
<1> QED BY <1>1, <1>2, <1>3 DEF Safe, Calm, Launching, Wanted, Fresh, Cover, At

\* The strengthening is one: Cover leaves no gap.
LEMMA SafeNoLeak == Safe => NoLeak
<1> SUFFICES ASSUME Safe, Protects, session
             PROVE  /\ iface = "down" => ks
                    /\ iface = "gone" => ks \/ state = "connected" \/ pc[Worker] = "guard"
  BY DEF NoLeak, Protects
<1> QED BY DEF Safe, Cover, Covered

-----------------------------------------------------------------------------
(* The worker's steps.                                                     *)

\* A worker that takes a step is not dead and moves no controller.
LEMMA WorkerAlone ==
    ASSUME Typed, WorkerStep
    PROVE  /\ pc[Worker] # "dead" /\ halted' = halted
           /\ \A c \in Controllers : pc'[c] = pc[c]
<1> USE ControllerThread DEF At, WorkerGoto, Raise, RungFails, SetState, Call, Return, Goto,
        manager, control, Typed, Control
<1>1. CASE Boot \/ Loop \/ Enter \/ Dial \/ Install \/ Flag \/ Rung \/ Pin \/ Check
  BY <1>1 DEF Boot, Loop, Enter, Dial, Install, Flag, Rung, Pin, Check
<1>2. CASE Spawn \/ Await \/ Hear \/ NextRung \/ Won \/ Watch \/ Lost \/ Drop
  BY <1>2 DEF Spawn, Await, Hear, NextRung, Won, Watch, Lost, Drop
<1>3. CASE Teardown \/ Retry \/ Failed \/ Count \/ Backoff \/ Unavailable
  BY <1>3 DEF Teardown, Retry, Failed, Count, Backoff, Unavailable
<1>4. CASE Shared(Worker)
  BY <1>4 DEF Shared, Guard, Terminate, Forget, Down, Unflag
<1> QED BY <1>1, <1>2, <1>3, <1>4 DEF WorkerStep

\* What is left of Safe for a step of the worker.
Sound == Wanted /\ Fresh /\ Cover

\* A step that leaves the rules in place, or puts them there.
LEMMA StaysRuled ==
    ASSUME Safe, UNCHANGED <<halted, session>>, Protects /\ ks => ks',
           Ruled(pc[Worker], then[Worker]), pc'[Worker] # "won",
           Ruled(pc'[Worker], then'[Worker])
    PROVE  Sound'
BY DEF Safe, Sound, Wanted, Fresh, Cover, Covered, Ruled, At

LEMMA DialStepsSafe ==
    ASSUME Safe, Loop \/ Dial \/ Install \/ Flag \/ Rung \/ Pin \/ Check \/ Spawn \/ Await
                 \/ NextRung \/ Teardown \/ Failed \/ Backoff
    PROVE  Sound'
<1>1. pc \in [Threads -> Labels] /\ then \in [Threads -> Labels] /\ Worker \in Threads
  BY WorkerThread DEF Safe, Typed, Control
<1> USE <1>1, StaysRuled
    DEF At, WorkerGoto, Raise, RungFails, Call, Goto, manager, Ruled
<1>2. CASE Loop \/ Dial \/ Install \/ Flag  BY <1>2 DEF Loop, Dial, Install, Flag
<1>3. CASE Rung \/ Pin \/ Check  BY <1>3 DEF Rung, Pin, Check
<1>4. CASE Spawn \/ Await \/ NextRung  BY <1>4 DEF Spawn, Await, NextRung
<1>5. CASE Teardown \/ Failed \/ Backoff  BY <1>5 DEF Teardown, Failed, Backoff
<1> QED BY <1>2, <1>3, <1>4, <1>5

LEMMA StateStepsSafe ==
    ASSUME Safe, Boot \/ Enter \/ Retry \/ Count \/ Unavailable
    PROVE  Sound'
<1>1. pc \in [Threads -> Labels] /\ then \in [Threads -> Labels] /\ Worker \in Threads
  BY WorkerThread DEF Safe, Typed, Control
<1> USE <1>1, StaysRuled DEF At, WorkerGoto, SetState, Call, Goto, Ruled
<1>2. CASE Boot \/ Enter  BY <1>2 DEF Boot, Enter
<1>3. CASE Retry \/ Count  BY <1>3 DEF Retry, Count
<1>4. CASE Unavailable  BY <1>4 DEF Unavailable
<1> QED BY <1>2, <1>3, <1>4

\* The steps around the watch loop, where the tunnel itself is the cover.
LEMMA WatchStepsSafe ==
    ASSUME Safe, Hear \/ Won \/ Watch \/ Lost \/ Drop
    PROVE  Sound'
<1>1. pc \in [Threads -> Labels] /\ then \in [Threads -> Labels] /\ Worker \in Threads
  BY WorkerThread DEF Safe, Typed, Control
<1> USE <1>1 DEF At, WorkerGoto, RungFails, SetState, Call, Goto, manager, tunnel, control,
                 Sound, Safe, Wanted, Fresh, Cover, Covered, Ruled
<1>2. CASE Hear  BY <1>2 DEF Hear, IsActive
<1>3. CASE Won  BY <1>3 DEF Won, Protects
<1>4. CASE Watch  BY <1>4 DEF Watch
<1>5. CASE Lost  BY <1>5 DEF Lost
<1>6. CASE Drop  BY <1>6 DEF Drop, Protects
<1> QED BY <1>2, <1>3, <1>4, <1>5, <1>6

\* disconnect() only removes the interface where the rules are in place.
LEMMA WorkerSharedSafe ==
    ASSUME Safe, Shared(Worker)
    PROVE  Sound'
<1>1. /\ pc \in [Threads -> Labels] /\ then \in [Threads -> Labels] /\ Worker \in Threads
      /\ WorkerFlow(pc[Worker], then[Worker], target[Worker])
  BY WorkerThread, WorkerFlowNow DEF Safe, Typed, Control
<1> USE <1>1 DEF Call, Return, Goto, manager, WorkerFlow, AfterRaise
<1>2. CASE Terminate(Worker) \/ Forget(Worker) \/ Down(Worker) \/ Unflag(Worker)
  <2>1. CASE Terminate(Worker)  BY <2>1, StaysRuled DEF Terminate, Ruled
  <2>2. CASE Forget(Worker)  BY <2>2, StaysRuled DEF Forget, Ruled
  <2>3. CASE Down(Worker)  BY <2>3, StaysRuled DEF Down, Ruled
  <2>4. CASE Unflag(Worker)  BY <2>4, StaysRuled DEF Unflag, Ruled
  <2> QED BY <1>2, <2>1, <2>2, <2>3, <2>4
<1>3. CASE Guard(Worker)
  <2> USE <1>3 DEF Guard, WorkerStates, Engages, Releases, Protects, tunnel
  <2>1. CASE then[Worker] \in {"dial", "dead"}
    BY <2>1, StaysRuled DEF Ruled
  <2>2. CASE then[Worker] = "watch"
    BY <2>2 DEF Sound, Safe, Wanted, Fresh, Cover, Covered, Ruled, At
  <2>3. CASE then[Worker] = "teardown"
    BY <2>3 DEF Sound, Safe, Wanted, Fresh, Cover, Covered, Ruled, At
  <2> QED BY <2>1, <2>2, <2>3
<1> QED BY <1>2, <1>3 DEF Shared

LEMMA WorkerSafe ==
    ASSUME Safe, WorkerStep
    PROVE  Safe'
<1>1. Sound'
  BY DialStepsSafe, StateStepsSafe, WatchStepsSafe, WorkerSharedSafe DEF WorkerStep
<1>2. Typed'
  BY NextTyped DEF Safe, Next
<1>3. Calm' /\ Launching'
  BY WorkerAlone DEF Safe, Calm, Launching, At
<1> QED BY <1>1, <1>2, <1>3 DEF Safe, Sound

-----------------------------------------------------------------------------
(* The controller's steps.                                                 *)

\* Inside stop() nothing of the session is left to protect.
LEMMA StoppingSafe ==
    ASSUME Safe, Alone, NEW c \in Controllers,
           Shared(c) \/ Settle(c) \/ Cancel(c) \/ Join(c)
    PROVE  Safe'
<1> USE DEF manager, tunnel
<1>1. halted /\ ~session
  <2>1. pc[c] \in {"guard", "terminate", "forget", "down", "unflag", "settle", "resettle", "cancel", "join"}
    BY DEF Shared, Guard, Terminate, Forget, Down, Unflag, Settle, Cancel, Join
  <2> QED BY <2>1 DEF Safe, Calm, Wanted
<1>2. Typed'
  BY NextTyped DEF Safe, Next, ControllerStep
<1>3. halted' /\ ~session'
  <2>1. UNCHANGED <<halted, session>>
    <3>1. CASE Guard(c)  BY <3>1 DEF Guard
    <3>2. CASE Terminate(c) \/ Forget(c)  BY <3>2 DEF Terminate, Forget
    <3>3. CASE Down(c) \/ Unflag(c)  BY <3>3 DEF Down, Unflag
    <3>4. CASE Settle(c) \/ Cancel(c) \/ Join(c)  BY <3>4 DEF Settle, Cancel, Join
    <3> QED BY <3>1, <3>2, <3>3, <3>4 DEF Shared
  <2> QED BY <1>1, <2>1
<1>4. pc'[Worker] = pc[Worker] /\ \A d \in Controllers : pc'[d] # "launch"
  <2>1. /\ pc \in [Threads -> Labels] /\ c \in Threads /\ c # Worker /\ Worker \in Threads
        /\ ControllerFlow(pc[c], then[c], target[c])
    BY WorkerThread, ControllerThread, ControllerFlowNow DEF Safe, Typed, Control
  <2>2. PICK l \in Labels \ {"launch"} : pc' = [pc EXCEPT ![c] = l]
    <3> USE <2>1 DEF Goto, Call, Return, ControllerFlow, DisconnectLabels, Labels
    <3>1. CASE Guard(c)  BY <3>1 DEF Guard, ControllerLabels
    <3>2. CASE Terminate(c)  BY <3>2 DEF Terminate
    <3>3. CASE Forget(c)  BY <3>3 DEF Forget
    <3>4. CASE Down(c)  BY <3>4 DEF Down, ControllerLabels
    <3>5. CASE Unflag(c)  BY <3>5 DEF Unflag, ControllerLabels
    <3>6. CASE Settle(c)  BY <3>6 DEF Settle, SetState, ControllerLabels
    <3>7. CASE Cancel(c)  BY <3>7 DEF Cancel, ControllerLabels
    <3>8. CASE Join(c)  BY <3>8 DEF Join
    <3> QED BY <3>1, <3>2, <3>3, <3>4, <3>5, <3>6, <3>7, <3>8 DEF Shared
  <2> QED BY <2>1, <2>2 DEF Alone
<1> QED BY <1>2, <1>3, <1>4 DEF Safe, Calm, Launching, Wanted, Fresh, Cover

\* The calls themselves, and the two halves of start().
LEMMA CallsSafe ==
    ASSUME Safe, Alone, NEW c \in Controllers,
           Halt(c) \/ Start(c) \/ \E op \in Ops : Request(c, op)
    PROVE  Safe'
<1> USE ControllerThread, WorkerThread DEF manager, tunnel, Goto, Call, At
<1>1. pc \in [Threads -> Labels] /\ then \in [Threads -> Labels]
  BY DEF Safe, Typed, Control
<1>2. Typed'
  BY NextTyped DEF Safe, Next, ControllerStep
<1>3. pc'[Worker] = pc[Worker] /\ then'[Worker] = then[Worker]
  BY <1>1 DEF Halt, Start, Request
<1>4. CASE Halt(c)
  BY <1>1, <1>2, <1>3, <1>4 DEF Halt, Safe, Calm, Launching, Wanted, Fresh, Cover, Alone
<1>5. CASE Start(c)
  <2>1. ~session => UNCHANGED session  BY <1>5 DEF Start
  <2>2. Calm' /\ Launching'
    BY <1>1, <1>3, <1>5 DEF Start, Safe, Calm, Launching, Alone
  <2>3. Wanted' /\ Fresh'
    BY <1>3, <1>5 DEF Start, Safe, Wanted, Fresh
  <2>4. Cover'
    BY <1>3, <1>5 DEF Start, Safe, Cover, Covered
  <2> QED BY <1>2, <2>2, <2>3, <2>4 DEF Safe
<1>6. CASE \E op \in Ops : Request(c, op)
  <2>1. Calm' /\ Launching'
    BY <1>1, <1>3, <1>6 DEF Request, Safe, Calm, Launching, Alone
  <2>2. Wanted' /\ Fresh'
    BY <1>3, <1>6 DEF Request, Safe, Wanted, Fresh
  <2>3. Cover'
    BY <1>3, <1>6 DEF Request, Safe, Cover, Covered
  <2> QED BY <1>2, <2>1, <2>2, <2>3 DEF Safe
<1> QED BY <1>4, <1>5, <1>6

\* A new worker inherits the rules its predecessor left.
LEMMA LaunchSafe ==
    ASSUME Safe, Alone, NEW c \in Controllers, Launch(c)
    PROVE  Safe'
<1>1. pc[Worker] = "dead" /\ pc[c] = "launch"
  BY DEF Launch, Safe, Launching, At
<1>2. pc'[Worker] = "boot" /\ \A d \in Controllers : pc'[d] = "idle"
  BY ControllerThread, WorkerThread DEF Launch, Alone
<1>3. Typed'
  BY NextTyped DEF Safe, Next, ControllerStep
<1> QED BY <1>1, <1>2, <1>3
        DEF Launch, tunnel, Safe, Calm, Launching, Wanted, Fresh, Cover, Covered, Ruled, At

-----------------------------------------------------------------------------

LEMMA SurroundingsSafe ==
    ASSUME Safe, TransportDies \/ InterfaceVanishes \/ UNCHANGED vars
    PROVE  Safe'
<1> USE DEF manager, tunnel, control, vars
<1>1. Typed'
  BY NextTyped DEF Safe, Next
<1>2. UNCHANGED <<state, halted, pc, then, ks, session>>
  BY DEF TransportDies, InterfaceVanishes
<1>3. iface' = iface \/ (At("watch") /\ iface' = "gone")
  BY DEF TransportDies, InterfaceVanishes
<1> QED BY <1>1, <1>2, <1>3
        DEF Safe, Calm, Launching, Wanted, Fresh, Cover, Covered, Ruled, At

LEMMA NextSafe == ASSUME Alone, Safe, [Next]_vars PROVE Safe'
<1>1. CASE WorkerStep  BY <1>1, WorkerSafe
<1>2. ASSUME NEW c \in Controllers, ControllerStep(c) \/ \E op \in Ops : Request(c, op)
      PROVE  Safe'
  BY <1>2, StoppingSafe, CallsSafe, LaunchSafe DEF ControllerStep
<1>3. CASE TransportDies \/ InterfaceVanishes \/ UNCHANGED vars
  BY <1>3, SurroundingsSafe
<1> QED BY <1>1, <1>2, <1>3 DEF Next

\* With one controller, whatever fails (except the firewall command itself) and
\* however long the worker takes to notice a stop: from the first connection
\* until somebody asks to stop, no traffic leaves outside the tunnel.
THEOREM SessionNeverLeaks ==
    ASSUME Alone
    PROVE  Spec => []NoLeak
<1>1. Init => Safe  BY InitSafe
<1>2. Safe /\ [Next]_vars => Safe'  BY NextSafe
<1>3. Safe => NoLeak  BY SafeNoLeak
<1> QED BY <1>1, <1>2, <1>3, PTL DEF Spec

-----------------------------------------------------------------------------
(* What a stop leaves behind.                                              *)

\* One controller, and a worker that ends within the join of stop().
Orderly == Alone /\ ~SlowWorker

\* A controller inside stop(): before the join is over, until wstunnel has been
\* told to end, once it is gone, and once the interface is.
Asking == \E c \in Controllers : pc[c] \in {"cancel", "join"}
Closing == \E c \in Controllers : pc[c] \in {"cancel", "join", "terminate"}
Releasing == \E c \in Controllers : pc[c] = "guard"
Joined(c) == pc[c] \in DisconnectLabels \cup {"settle", "resettle", "guard"}
Emptied(c) == pc[c] \in {"down", "unflag", "settle", "resettle", "guard"}
Unwired(c) == pc[c] \in {"settle", "resettle", "guard"}

\* The worker at label l, to return to n, may have a wstunnel running.
MayRun(l, n) ==
    \/ l \in {"await", "hear", "won", "watch", "lost", "drop", "teardown", "terminate"}
    \/ l = "guard" /\ n \in {"watch", "teardown"}

\* What is so at every step of the worker: a process only where it will be
\* ended, an interface only where the flag will have it removed, rules only
\* where a state calls for them.  Of the interface and the rules this holds as
\* long as they are among x, what the manager answers for: until the command
\* that removes them fails, and again once they are replaced.
Processes ==
    /\ strays = 0
    /\ proc = "alive" => MayRun(pc[Worker], then[Worker]) \/ (At("dead") /\ Closing)
    /\ ~At("dead") /\ halted => Asking
Interfaces(x) ==
    "interface" \in x =>
        /\ \A t \in Threads : pc[t] = "unflag" => iface = "down"
        /\ ~wg => iface = "down" \/ At("flag")
Rules(x) ==
    /\ ks \/ pc[Worker] = "guard" => KillSwitch
    /\ pc[Worker] = "guard" => state # "disconnected"
    /\ "rules" \in x /\ ks /\ state = "disconnected" => Releasing

\* How far a stop has come.
Stopping ==
    \A c \in Controllers :
        /\ Joined(c) => At("dead")
        /\ pc[c] = "forget" => proc # "alive"
        /\ Emptied(c) => proc = "none"
        /\ Unwired(c) => ~wg
        /\ pc[c] = "guard" => state = "disconnected"
        /\ pc[c] = "launch" => ~halted

\* Nothing runs, and nothing is left.
AtRest(x) ==
    /\ At("dead") /\ state = "disconnected" /\ proc = "none" /\ ~wg
    /\ "rules" \in x => ~ks
    /\ "interface" \in x => iface = "down"
Stopped(x) ==
    halted /\ (\A c \in Controllers : pc[c] \in {"idle", "halt", "start"}) => AtRest(x)

\* All of it.
TidyFor(x) == Processes /\ Interfaces(x) /\ Rules(x) /\ Stopping /\ Stopped(x)

\* From x the manager answers for y after a step.
Answers(x, y) ==
    /\ "interface" \in y => ("interface" \in x \/ Installs) /\ ~RemovalFails
    /\ "rules" \in y => ("rules" \in x \/ Reports) /\ ~ReleaseFails

\* It always does for what cannot fail to be removed.
Sure == {x \in {"interface"} : "teardown" \notin Faults}
            \cup {x \in {"rules"} : "release" \notin Faults}
Tidy == TidyFor(Sure)

(* Before the first connection nothing runs.                             *)
LEMMA InitTidy == ASSUME NEW x PROVE Init => TidyFor(x)
<1> SUFFICES ASSUME Init PROVE TidyFor(x)  OBVIOUS
<1>1. pc[Worker] = "dead" /\ \A t \in Threads : pc[t] \in {"dead", "idle"}
  BY WorkerThread DEF Init
<1>2. \A c \in Controllers : pc[c] = "idle"
  BY ControllerThread DEF Init
<1> QED BY <1>1, <1>2 DEF Init, TidyFor, Processes, Interfaces, Rules, Stopping, Stopped, At,
           Joined, Emptied, Unwired, DisconnectLabels

-----------------------------------------------------------------------------
\* A step of the worker: no stop has come past its join.
LEMMA WorkerLeaves ==
    ASSUME Safe, NEW x, NEW y, TidyFor(x), Answers(x, y), WorkerStep
    PROVE  /\ Stopping' /\ Stopped(y)'
           /\ Asking' = Asking /\ Closing' = Closing /\ Releasing' = Releasing
           /\ \A t \in Threads : t # Worker => pc'[t] = pc[t] /\ pc[t] # "unflag"
<1>1. pc[Worker] # "dead" /\ halted' = halted /\ \A c \in Controllers : pc'[c] = pc[c]
  BY WorkerAlone DEF Safe
<1>2. \A c \in Controllers : ~Joined(c)
  BY <1>1 DEF TidyFor, Stopping, At
<1>3. Asking' = Asking /\ Closing' = Closing /\ Releasing' = Releasing
  BY <1>1 DEF Asking, Closing, Releasing
<1>4. Stopping'
  BY <1>1, <1>2 DEF TidyFor, Stopping, Joined, Emptied, Unwired, DisconnectLabels
<1>5. Stopped(y)'
  BY <1>1 DEF TidyFor, Stopped, AtRest, At
<1>6. \A t \in Threads : t # Worker => pc'[t] = pc[t] /\ pc[t] # "unflag"
  BY <1>1, <1>2 DEF Threads, Joined, DisconnectLabels
<1> QED BY <1>3, <1>4, <1>5, <1>6

\* What is left of it for a step of the worker.
WorkerTidy(x) == Processes /\ Interfaces(x) /\ Rules(x)

\* A step that touches neither process, interface nor rules.
LEMMA HandsOff ==
    ASSUME Safe, NEW x, NEW y, TidyFor(x), Answers(x, y), WorkerStep, UNCHANGED <<tunnel, ks>>,
           proc = "alive" /\ MayRun(pc[Worker], then[Worker]) =>
               MayRun(pc'[Worker], then'[Worker]) \/ (pc'[Worker] = "dead" /\ halted),
           pc[Worker] # "flag", pc'[Worker] # "flag", pc'[Worker] # "unflag",
           state' = state \/ state' # "disconnected",
           pc'[Worker] = "guard" => KillSwitch /\ state' # "disconnected"
    PROVE  WorkerTidy(y)'
<1> USE DEF tunnel, At
<1>1. pc[Worker] # "dead" /\ halted' = halted  BY WorkerAlone DEF Safe
<1>2. Asking => Closing  BY DEF Asking, Closing
<1>3. Processes'
  BY <1>1, <1>2, WorkerLeaves DEF TidyFor, Processes
<1>4. Interfaces(y)'
  BY WorkerLeaves, WorkerThread DEF TidyFor, Interfaces, Answers, Installs
<1>5. Rules(y)'
  BY WorkerLeaves DEF TidyFor, Rules, Answers, Reports
<1> QED BY <1>3, <1>4, <1>5 DEF WorkerTidy

(* The steps between two attempts and on a rung, ...                     *)
LEMMA DialStepsTidy ==
    ASSUME Safe, NEW x, NEW y, TidyFor(x), Answers(x, y),
           Loop \/ Dial \/ Rung \/ Pin \/ Check \/ Await \/ Hear \/ NextRung
                \/ Teardown \/ Failed \/ Backoff \/ Watch \/ Lost
    PROVE  WorkerTidy(y)'
<1>1. pc \in [Threads -> Labels] /\ then \in [Threads -> Labels] /\ Worker \in Threads
  BY WorkerThread DEF Safe, Typed, Control
<1>2. WorkerStep BY DEF WorkerStep
<1> USE <1>1, <1>2, HandsOff
    DEF At, WorkerGoto, Raise, RungFails, Call, Goto, manager, MayRun, control
<1>3. CASE Loop \/ Dial  BY <1>3 DEF Loop, Dial
<1>4. CASE Rung \/ Pin \/ Check  BY <1>4 DEF Rung, Pin, Check
<1>5. CASE Await \/ Hear \/ NextRung  BY <1>5 DEF Await, Hear, NextRung
<1>6. CASE Teardown \/ Failed \/ Backoff  BY <1>6 DEF Teardown, Failed, Backoff
<1>7. CASE Watch  BY <1>7 DEF Watch
<1>8. CASE Lost  BY <1>8 DEF Lost
<1> QED BY <1>3, <1>4, <1>5, <1>6, <1>7, <1>8

(* ... and those that set the state.                                     *)
LEMMA StateStepsTidy ==
    ASSUME Safe, NEW x, NEW y, TidyFor(x), Answers(x, y),
           Boot \/ Enter \/ Retry \/ Count \/ Unavailable \/ Won \/ Drop
    PROVE  WorkerTidy(y)'
<1>1. pc \in [Threads -> Labels] /\ then \in [Threads -> Labels] /\ Worker \in Threads
  BY WorkerThread DEF Safe, Typed, Control
<1>2. WorkerStep BY DEF WorkerStep
<1> USE <1>1, <1>2, HandsOff DEF At, WorkerGoto, SetState, Call, Goto, MayRun
<1>3. CASE Boot \/ Enter  BY <1>3 DEF Boot, Enter
<1>4. CASE Retry \/ Count  BY <1>4 DEF Retry, Count
<1>5. CASE Unavailable  BY <1>5 DEF Unavailable
<1>6. CASE Won \/ Drop  BY <1>6 DEF Won, Drop
<1> QED BY <1>3, <1>4, <1>5, <1>6

\* The steps that handle the process and the interface.
LEMMA HandlingTidy ==
    ASSUME Safe, NEW x, NEW y, TidyFor(x), Answers(x, y),
           Install \/ Flag \/ Spawn \/ Terminate(Worker) \/ Forget(Worker)
                \/ Down(Worker) \/ Unflag(Worker) \/ Guard(Worker)
    PROVE  WorkerTidy(y)'
<1>1. /\ pc \in [Threads -> Labels] /\ then \in [Threads -> Labels] /\ Worker \in Threads
      /\ WorkerFlow(pc[Worker], then[Worker], target[Worker])
  BY WorkerThread, WorkerFlowNow DEF Safe, Typed, Control
<1>2. WorkerStep BY DEF WorkerStep, Shared
<1>3. pc[Worker] # "dead" /\ halted' = halted  BY <1>2, WorkerAlone DEF Safe
<1>4. /\ Asking' = Asking /\ Closing' = Closing /\ Releasing' = Releasing
      /\ \A t \in Threads : t # Worker => pc'[t] = pc[t] /\ pc[t] # "unflag"
  BY <1>2, WorkerLeaves
<1> USE DEF At, WorkerGoto, Raise, RungFails, Call, Return, Goto, manager, MayRun, WorkerFlow,
    AfterRaise, WorkerTidy, TidyFor, Processes, Interfaces, Rules, control, Answers, Installs,
    Reports
<1>5. CASE Install  BY <1>1, <1>3, <1>4, <1>5 DEF Install
<1>6. CASE Flag  BY <1>1, <1>3, <1>4, <1>6 DEF Flag
<1>7. CASE Spawn  BY <1>1, <1>3, <1>4, <1>7 DEF Spawn
<1>8. CASE Terminate(Worker)  BY <1>1, <1>3, <1>4, <1>8 DEF Terminate
<1>9. CASE Forget(Worker)  BY <1>1, <1>3, <1>4, <1>9 DEF Forget
<1>10. CASE Down(Worker)  BY <1>1, <1>3, <1>4, <1>10 DEF Down, RemovalFails
<1>11. CASE Unflag(Worker)  BY <1>1, <1>3, <1>4, <1>11 DEF Unflag
<1>12. CASE Guard(Worker)  BY <1>1, <1>3, <1>4, <1>12 DEF Guard, WorkerStates, Engages, Releases, tunnel
<1> QED BY <1>5, <1>6, <1>7, <1>8, <1>9, <1>10, <1>11, <1>12

(* Together: a step of the worker.                                       *)
LEMMA WorkerStepTidy ==
    ASSUME Safe, NEW x, NEW y, TidyFor(x), Answers(x, y), WorkerStep
    PROVE  TidyFor(y)'
<1>1. WorkerTidy(y)'
  BY DialStepsTidy, StateStepsTidy, HandlingTidy DEF WorkerStep, Shared
<1>2. Stopping' /\ Stopped(y)'  BY WorkerLeaves
<1> QED BY <1>1, <1>2 DEF TidyFor, WorkerTidy
-----------------------------------------------------------------------------

\* What a controller's step leaves alone, with the controller now at l.
Moved(c, l) ==
    /\ pc'[c] = l /\ (\A t \in Threads \ {c} : pc'[t] = pc[t])
    /\ then'[Worker] = then[Worker]

LEMMA ControllerMoves ==
    ASSUME Safe, Orderly, NEW c \in Controllers, NEW l,
           \/ Goto(c, l) /\ then' = then
           \/ Goto(c, l) /\ \E n : then' = [then EXCEPT ![c] = n]
    PROVE  /\ Moved(c, l) /\ pc'[Worker] = pc[Worker]
           /\ \A d \in Controllers : d = c
BY WorkerThread, ControllerThread DEF Safe, Typed, Control, Goto, Moved, Orderly, Alone

\* With the worker dead and its process gone, each step of disconnect().
LEMMA DisconnectTidy ==
    ASSUME Safe, Orderly, NEW x, NEW y, TidyFor(x), Answers(x, y), NEW c \in Controllers,
           Terminate(c) \/ Forget(c) \/ Down(c) \/ Unflag(c)
    PROVE  TidyFor(y)'
<1>1. /\ c \in Threads /\ c # Worker /\ Worker \in Threads
      /\ ControllerFlow(pc[c], then[c], target[c])
  BY WorkerThread, ControllerThread, ControllerFlowNow DEF Safe, Typed, Control
<1>2. At("dead") /\ halted /\ halted' = halted /\ UNCHANGED <<state, ks>>
  BY DEF TidyFor, Stopping, Joined, DisconnectLabels, Safe, Calm, Terminate, Forget, Down, Unflag, manager
<1>3. then[c] \in {"settle", "resettle"}
  BY <1>1 DEF ControllerFlow, DisconnectLabels, Terminate, Forget, Down, Unflag
<1>4. PICK l \in {"forget", "down", "unflag", "settle", "resettle"} :
         /\ Moved(c, l) /\ pc'[Worker] = pc[Worker] /\ \A d \in Controllers : d = c
         /\ l \in {"settle", "resettle"} => pc[c] \in {"down", "unflag"}
         /\ l = "unflag" <=> pc[c] = "down" /\ wg
         /\ l = "forget" <=> pc[c] = "terminate" /\ proc # "none"
         /\ l = "down" => pc[c] \in {"terminate", "forget"}
  <2> USE <1>1, <1>3, ControllerMoves DEF Call, Return
  <2>1. CASE Terminate(c)  BY <2>1 DEF Terminate
  <2>2. CASE Forget(c)  BY <2>2 DEF Forget
  <2>3. CASE Down(c)
    <3>1. CASE wg  BY <2>3, <3>1 DEF Down
    <3>2. CASE ~wg  BY <2>3, <3>2 DEF Down
    <3> QED BY <3>1, <3>2
  <2>4. CASE Unflag(c)  BY <2>4 DEF Unflag
  <2> QED BY <2>1, <2>2, <2>3, <2>4
<1>0. /\ "interface" \in y => "interface" \in x
      /\ "rules" \in y => "rules" \in x
      /\ "interface" \in y => ~RemovalFails
  BY <1>2 DEF Answers, Installs, Reports, At
<1>5. \A d \in Controllers : ~(pc'[d] \in {"idle", "halt", "start", "guard", "launch"})
  BY <1>4 DEF Moved
<1>6. Stopped(y)' BY <1>4 DEF Stopped, Moved
<1>7. CASE Terminate(c)
  <2>1. /\ proc' = IF proc = "none" THEN "none" ELSE "dead"
        /\ UNCHANGED <<strays, wg, iface>> /\ pc[c] = "terminate"
    BY <1>7 DEF Terminate
  <2>2. Processes' BY <1>2, <1>4, <2>1 DEF TidyFor, Processes, At
  <2>3. Interfaces(y)' BY <1>0, <1>1, <1>2, <1>4, <2>1 DEF TidyFor, Interfaces, At, Moved
  <2>4. Rules(y)' BY <1>0, <1>1, <1>2, <1>4, <2>1 DEF TidyFor, Rules, At, Releasing
  <2>5. Stopping' BY <1>2, <1>4, <1>5, <2>1 DEF TidyFor, Stopping, At, Joined, Emptied, Unwired, Moved
  <2> QED BY <1>6, <2>2, <2>3, <2>4, <2>5 DEF TidyFor
<1>8. CASE Forget(c)
  <2>1. /\ proc' = "none" /\ pc[c] = "forget" /\ proc # "alive"
        /\ UNCHANGED <<strays, wg, iface>>
    BY <1>8 DEF Forget, TidyFor, Stopping
  <2>2. Processes' BY <1>2, <1>4, <2>1 DEF TidyFor, Processes, At
  <2>3. Interfaces(y)' BY <1>0, <1>1, <1>2, <1>4, <2>1 DEF TidyFor, Interfaces, At, Moved
  <2>4. Rules(y)' BY <1>0, <1>1, <1>2, <1>4, <2>1 DEF TidyFor, Rules, At, Releasing
  <2>5. Stopping' BY <1>2, <1>4, <1>5, <2>1 DEF TidyFor, Stopping, At, Joined, Emptied, Unwired, Moved
  <2> QED BY <1>6, <2>2, <2>3, <2>4, <2>5 DEF TidyFor
<1>9. CASE Down(c)
  <2>1. /\ UNCHANGED <<proc, strays, wg>> /\ pc[c] = "down"
        /\ wg => iface' = "down" \/ "teardown" \in Faults
        /\ ~wg => iface' = iface
    BY <1>9 DEF Down
  <2>0. proc = "none" BY <2>1 DEF TidyFor, Stopping, Emptied
  <2>2. Processes' BY <1>2, <1>4, <2>0, <2>1 DEF TidyFor, Processes, At
  <2>3. Interfaces(y)' BY <1>0, <1>1, <1>2, <1>4, <2>1
    DEF TidyFor, Interfaces, At, Moved, RemovalFails
  <2>4. Rules(y)' BY <1>0, <1>1, <1>2, <1>4, <2>1 DEF TidyFor, Rules, At, Releasing
  <2>5. Stopping'
    BY <1>2, <1>4, <1>5, <2>0, <2>1 DEF TidyFor, Stopping, At, Joined, Emptied, Unwired, Moved
  <2> QED BY <1>6, <2>2, <2>3, <2>4, <2>5 DEF TidyFor
<1>10. CASE Unflag(c)
  <2>1. /\ UNCHANGED <<proc, strays, iface>> /\ pc[c] = "unflag" /\ ~wg'
    BY <1>10 DEF Unflag
  <2>0. proc = "none" BY <2>1 DEF TidyFor, Stopping, Emptied
  <2>2. Processes' BY <1>2, <1>4, <2>0, <2>1 DEF TidyFor, Processes, At
  <2>3. Interfaces(y)' BY <1>0, <1>1, <1>2, <1>4, <2>1 DEF TidyFor, Interfaces, At, Moved
  <2>4. Rules(y)' BY <1>0, <1>1, <1>2, <1>4, <2>1 DEF TidyFor, Rules, At, Releasing
  <2>5. Stopping'
    BY <1>2, <1>4, <1>5, <2>0, <2>1 DEF TidyFor, Stopping, At, Joined, Emptied, Unwired, Moved
  <2> QED BY <1>6, <2>2, <2>3, <2>4, <2>5 DEF TidyFor
<1> QED BY <1>7, <1>8, <1>9, <1>10

\* The end of stop(): the state, the kill switch, and nothing is left.
LEMMA SettleTidy ==
    ASSUME Safe, Orderly, NEW x, NEW y, TidyFor(x), Answers(x, y),
           NEW c \in Controllers, Settle(c) \/ Guard(c)
    PROVE  TidyFor(y)'
<1>1. /\ c \in Threads /\ c # Worker /\ Worker \in Threads
      /\ ControllerFlow(pc[c], then[c], target[c])
      /\ \A d \in Controllers : d = c
  BY WorkerThread, ControllerThread, ControllerFlowNow DEF Safe, Typed, Control, Orderly, Alone
<1>2. At("dead") /\ halted /\ halted' = halted /\ proc = "none" /\ ~wg /\ UNCHANGED tunnel
  BY DEF TidyFor, Stopping, Joined, Emptied, Unwired, Safe, Calm, Settle, Guard, manager
<1>0. /\ "interface" \in y => "interface" \in x
      /\ "rules" \in y => ("rules" \in x \/ state' # state) /\ ~ReleaseFails
  BY <1>2 DEF Answers, Installs, Reports, At
<1>3. "interface" \in y => iface = "down"
  BY <1>0, <1>2 DEF TidyFor, Interfaces, At
<1>4. /\ state' = "disconnected"
      /\ \/ pc'[c] \in {"idle", "start"} /\ ("rules" \in y => ~ks') /\ (ks' => KillSwitch)
         \/ pc'[c] = "guard" /\ KillSwitch /\ ks' = ks
      /\ \A t \in Threads \ {c} : pc'[t] = pc[t]
      /\ then'[Worker] = then[Worker]
  <2>1. CASE Settle(c)
    <3>1. PICK n \in {"idle", "start"} :
            SetState(c, "disconnected", n) /\ pc[c] # "guard" /\ ks' = ks
      BY <2>1 DEF Settle
    <3>2. CASE state = "disconnected"
      <4>1. ("rules" \in y => ~ks) /\ (ks => KillSwitch)
        <5>1. state' = state BY <3>1, <3>2 DEF SetState
        <5> QED BY <1>0, <1>1, <3>1, <3>2, <5>1 DEF TidyFor, Rules, Releasing
      <4> QED BY <3>1, <3>2, <4>1, ControllerMoves DEF SetState, Moved
    <3>3. CASE state # "disconnected" /\ KillSwitch
      BY <3>1, <3>3, ControllerMoves DEF SetState, Call, Moved
    <3>4. CASE state # "disconnected" /\ ~KillSwitch
      <4>1. ~ks BY <3>4 DEF TidyFor, Rules
      <4> QED BY <3>1, <3>4, <4>1, ControllerMoves DEF SetState, Moved
    <3> QED BY <3>2, <3>3, <3>4
  <2>2. CASE Guard(c)
    <3>1. /\ pc[c] = "guard" /\ then[c] \in {"idle", "start"} /\ target[c] = "disconnected"
      BY <1>1, <2>2 DEF Guard, ControllerFlow
    <3>2. /\ ks' = FALSE \/ ks' = ks
          /\ state' = state /\ Return(c)
      BY <2>2, <3>1 DEF Guard, Engages, Releases, manager
    <3>3. state = "disconnected" BY <3>1 DEF TidyFor, Stopping
    <3>4. pc'[c] = then[c] /\ Moved(c, then[c]) BY <3>2, ControllerMoves DEF Return, Moved
    <3>5. "rules" \in y => ~ks'
      BY <1>0, <1>1, <3>1, <3>4 DEF ReleaseFails, Releases
    <3>6. ks' => KillSwitch BY <3>2 DEF TidyFor, Rules
    <3> QED BY <3>1, <3>2, <3>3, <3>4, <3>5, <3>6 DEF Moved
  <2> QED BY <2>1, <2>2
<1>5. Processes' BY <1>1, <1>2, <1>4 DEF TidyFor, Processes, At, tunnel
<1>6. Interfaces(y)' BY <1>1, <1>2, <1>3, <1>4 DEF TidyFor, Interfaces, At, tunnel
<1>7. Rules(y)' BY <1>1, <1>2, <1>4 DEF TidyFor, Rules, At, Releasing
<1>8. Stopping' BY <1>1, <1>2, <1>4 DEF Stopping, At, Joined, Emptied, Unwired, tunnel
<1>9. Stopped(y)' BY <1>1, <1>2, <1>3, <1>4 DEF Stopped, AtRest, At, tunnel
<1> QED BY <1>5, <1>6, <1>7, <1>8, <1>9 DEF TidyFor

\* Calls, and the steps of stop() up to its join.
LEMMA CallTidy ==
    ASSUME Safe, Orderly, NEW x, NEW y, TidyFor(x), Answers(x, y), NEW c \in Controllers,
           Halt(c) \/ Cancel(c) \/ Join(c) \/ Start(c) \/ \E op \in Ops : Request(c, op)
    PROVE  TidyFor(y)'
<1>1. c \in Threads /\ c # Worker /\ Worker \in Threads /\ \A d \in Controllers : d = c
  BY WorkerThread, ControllerThread DEF Orderly, Alone
<1>2. UNCHANGED <<state, tunnel, ks>>
  BY DEF Halt, Cancel, Join, Start, Request, manager
<1>3. PICK l : Moved(c, l) /\ pc'[Worker] = pc[Worker]
               /\ (Halt(c) => l = "cancel") /\ (Cancel(c) => l = "join") /\ (Join(c) => l = "terminate")
               /\ (Start(c) => l \in {"launch", "idle"}) /\ (Start(c) /\ l = "launch" => At("dead"))
               /\ (Start(c) /\ At("dead") => l = "launch")
               /\ ((\E op \in Ops : Request(c, op)) => l \in {"start", "halt"})
  <2> USE ControllerMoves
  <2>1. CASE Halt(c) BY <2>1 DEF Halt, Cancel, Join, Start, Request
  <2>2. CASE Cancel(c) BY <2>2 DEF Halt, Cancel, Join, Start, Request
  <2>3. CASE Join(c) BY <2>3 DEF Halt, Cancel, Join, Start, Request
  <2>4. CASE Start(c) BY <2>4 DEF Halt, Cancel, Join, Start, Request
  <2>5. CASE \E op \in Ops : Request(c, op) BY <2>5 DEF Halt, Cancel, Join, Start, Request, Call
  <2> QED BY <2>1, <2>2, <2>3, <2>4, <2>5
<1>4. /\ Moved(c, pc'[c]) /\ pc'[Worker] = pc[Worker]
      /\ pc[c] \in {"halt", "cancel", "join", "start", "idle"}
      /\ pc'[c] \in {"cancel", "join", "terminate", "launch", "idle", "start", "halt"}
  BY <1>3 DEF Moved, Halt, Cancel, Join, Start, Request
<1>0. ("interface" \in y => "interface" \in x) /\ ("rules" \in y => "rules" \in x)
  BY <1>2, <1>4 DEF Answers, Installs, Reports
<1>5. Interfaces(y)' BY <1>0, <1>1, <1>2, <1>4 DEF TidyFor, Interfaces, At, Moved, tunnel
<1>6. Rules(y)' BY <1>0, <1>1, <1>2, <1>4 DEF TidyFor, Rules, At, Moved, Releasing
<1>7. CASE Halt(c)
  <2>1. halted' = TRUE /\ pc'[c] = "cancel" BY <1>3, <1>7 DEF Halt, Moved
  <2>2. Processes'
    BY <1>1, <1>2, <1>4, <1>7, <2>1 DEF TidyFor, Processes, At, Closing, Asking, Moved, tunnel, Halt
  <2>3. Stopping' BY <1>1, <1>4, <2>1 DEF Stopping, Joined, Emptied, Unwired, DisconnectLabels
  <2>4. Stopped(y)' BY <1>1, <2>1 DEF Stopped
  <2> QED BY <1>5, <1>6, <2>2, <2>3, <2>4 DEF TidyFor
<1>8. CASE Cancel(c)
  <2>1. halted' = halted /\ pc'[c] = "join" /\ pc[c] = "cancel" BY <1>3, <1>8 DEF Cancel, Moved
  <2>2. Processes' BY <1>1, <1>2, <1>4, <2>1 DEF TidyFor, Processes, At, Closing, Asking, Moved, tunnel
  <2>3. Stopping' BY <1>1, <1>4, <2>1 DEF Stopping, Joined, Emptied, Unwired, DisconnectLabels
  <2>4. Stopped(y)' BY <1>1, <2>1 DEF Stopped
  <2> QED BY <1>5, <1>6, <2>2, <2>3, <2>4 DEF TidyFor
<1>9. CASE Join(c)
  <2>1. halted' = halted /\ pc'[c] = "terminate" /\ pc[c] = "join"
    BY <1>3, <1>9 DEF Join, Moved, manager
  <2>2. At("dead")
    <3>1. halted BY <2>1 DEF Safe, Calm
    <3> QED BY <1>9, <3>1 DEF Join, Orderly
  <2>3. Processes'
    BY <1>1, <1>2, <1>4, <2>1, <2>2 DEF TidyFor, Processes, At, Closing, Asking, Moved, tunnel
  <2>4. Stopping' BY <1>1, <1>4, <2>1, <2>2 DEF Stopping, Joined, Emptied, Unwired, DisconnectLabels, At
  <2>5. Stopped(y)' BY <1>1, <2>1 DEF Stopped
  <2> QED BY <1>5, <1>6, <2>3, <2>4, <2>5 DEF TidyFor
<1>10. CASE Start(c)
  <2>1. /\ pc[c] = "start"
        /\ \/ pc'[c] = "launch" /\ At("dead") /\ halted' = FALSE
           \/ pc'[c] = "idle" /\ ~At("dead") /\ halted' = halted
    <3>1. CASE At("dead")
      <4>1. pc[c] = "start" /\ halted' = FALSE BY <1>10, <3>1 DEF Start
      <4>2. l = "launch" BY <1>3, <1>10, <3>1
      <4> QED BY <1>3, <3>1, <4>1, <4>2 DEF Moved
    <3>2. CASE ~At("dead")
      <4>1. pc[c] = "start" /\ halted' = halted BY <1>10, <3>2 DEF Start
      <4>2. l = "idle" BY <1>3, <1>10, <3>2
      <4> QED BY <1>3, <3>2, <4>1, <4>2 DEF Moved
    <3> QED BY <3>1, <3>2
  <2>2. Processes' BY <1>1, <1>2, <1>4, <2>1 DEF TidyFor, Processes, At, Closing, Asking, Moved, tunnel
  <2>3. Stopping' BY <1>1, <1>4, <2>1 DEF Stopping, Joined, Emptied, Unwired, DisconnectLabels, At
  <2>4. Stopped(y)' BY <1>0, <1>1, <1>2, <1>4, <2>1 DEF TidyFor, Stopped, AtRest, At
  <2> QED BY <1>5, <1>6, <2>2, <2>3, <2>4 DEF TidyFor
<1>11. CASE \E op \in Ops : Request(c, op)
  <2>1. pc[c] = "idle" /\ pc'[c] \in {"start", "halt"} /\ halted' = halted
    BY <1>3, <1>11 DEF Request, Moved, manager
  <2>2. Processes' BY <1>1, <1>2, <1>4, <2>1 DEF TidyFor, Processes, At, Closing, Asking, Moved, tunnel
  <2>3. Stopping' BY <1>1, <1>4, <2>1 DEF Stopping, Joined, Emptied, Unwired, DisconnectLabels, At
  <2>4. Stopped(y)' BY <1>0, <1>1, <1>2, <1>4, <2>1 DEF TidyFor, Stopped, AtRest, At, tunnel
  <2> QED BY <1>5, <1>6, <2>2, <2>3, <2>4 DEF TidyFor
<1> QED BY <1>7, <1>8, <1>9, <1>10, <1>11

(* start() has found the worker dead, and a stop had left nothing.       *)
LEMMA LaunchTidy ==
    ASSUME Safe, Orderly, NEW x, NEW y, TidyFor(x), Answers(x, y), NEW c \in Controllers, Launch(c)
    PROVE  TidyFor(y)'
<1>1. At("dead") /\ ~halted /\ pc[c] = "launch" /\ \A d \in Controllers : d = c
  BY DEF Launch, Safe, Launching, TidyFor, Stopping, Orderly, Alone
<1>2. /\ pc'[Worker] = "boot" /\ \A d \in Controllers : pc'[d] = "idle"
      /\ \A t \in Threads : t = Worker \/ t \in Controllers
  BY <1>1, ControllerThread, WorkerThread DEF Launch, Threads
<1>3. UNCHANGED <<state, halted, tunnel, ks>> BY DEF Launch
<1>0. ("interface" \in y => "interface" \in x) /\ ("rules" \in y => "rules" \in x)
  BY <1>1, <1>2, <1>3 DEF Answers, Installs, Reports, At
<1>4. proc # "alive" BY <1>1 DEF TidyFor, Processes, At, MayRun, Closing
<1>5. Processes' BY <1>1, <1>2, <1>3, <1>4 DEF TidyFor, Processes, At, tunnel
<1>6. Interfaces(y)' BY <1>0, <1>1, <1>2, <1>3 DEF TidyFor, Interfaces, At, tunnel
<1>7. Rules(y)' BY <1>0, <1>1, <1>2, <1>3 DEF TidyFor, Rules, Releasing
<1>8. Stopping' BY <1>2 DEF Stopping, Joined, Emptied, Unwired, DisconnectLabels
<1>9. Stopped(y)' BY <1>1, <1>3 DEF Stopped
<1> QED BY <1>5, <1>6, <1>7, <1>8, <1>9 DEF TidyFor

(* wstunnel dies by itself, and the interface may vanish.                *)
LEMMA SurroundingsTidy ==
    ASSUME Safe, NEW x, NEW y, TidyFor(x), Answers(x, y),
           TransportDies \/ InterfaceVanishes \/ UNCHANGED vars
    PROVE  TidyFor(y)'
<1>1. UNCHANGED <<state, halted, pc, then, strays, wg, ks>>
  BY DEF TransportDies, InterfaceVanishes, vars, manager, tunnel, control
<1>0. ("interface" \in y => "interface" \in x) /\ ("rules" \in y => "rules" \in x)
  BY <1>1 DEF Answers, Installs, Reports
<1>2. proc' = proc \/ (proc = "alive" /\ proc' = "dead")
  BY DEF TransportDies, InterfaceVanishes, vars, tunnel
<1>3. iface' = iface \/ (At("watch") /\ iface = "up" /\ iface' = "gone")
  BY DEF TransportDies, InterfaceVanishes, vars, tunnel
<1>4. Asking' = Asking /\ Closing' = Closing /\ Releasing' = Releasing
  BY <1>1 DEF Asking, Closing, Releasing
<1>5. Processes' BY <1>1, <1>2, <1>4 DEF TidyFor, Processes, At
<1>6. Interfaces(y)' BY <1>0, <1>1, <1>3 DEF TidyFor, Interfaces, At
<1>7. Rules(y)' BY <1>0, <1>1, <1>4 DEF TidyFor, Rules
<1>8. Stopping' BY <1>1, <1>2 DEF TidyFor, Stopping, Joined, Emptied, Unwired, At
<1>9. Stopped(y)' BY <1>0, <1>1, <1>2, <1>3 DEF TidyFor, Stopped, AtRest, At
<1> QED BY <1>5, <1>6, <1>7, <1>8, <1>9 DEF TidyFor

(* Every step keeps it.                                                  *)
LEMMA NextTidy ==
    ASSUME Orderly, Safe, NEW x, NEW y, TidyFor(x), Answers(x, y), [Next]_vars
    PROVE  TidyFor(y)'
<1>1. CASE WorkerStep  BY <1>1, WorkerStepTidy
<1>2. ASSUME NEW c \in Controllers, ControllerStep(c) \/ \E op \in Ops : Request(c, op)
      PROVE  TidyFor(y)'
  BY <1>2, DisconnectTidy, SettleTidy, CallTidy, LaunchTidy DEF ControllerStep, Shared
<1>3. CASE TransportDies \/ InterfaceVanishes \/ UNCHANGED vars
  BY <1>3, SurroundingsTidy
<1> QED BY <1>1, <1>2, <1>3 DEF Next

(* Where neither removal can fail there is nothing that may go unanswered. *)
LEMMA SureAnswers == ASSUME Safe, [Next]_vars PROVE Answers(Sure, Sure)
<1> USE WorkerThread, ControllerThread
<1>1. /\ pc \in [Threads -> Labels] /\ then \in [Threads -> Labels]
      /\ \A t \in Threads : Flow(t, pc[t], then[t], target[t])
  BY DEF Safe, Typed, Control
(* Who removes, removes the interface or the rules in that step.           *)
<1>2. ASSUME NEW t \in Threads,
             \/ pc[t] = "down" /\ pc'[t] = "unflag"
             \/ pc[t] = "guard" /\ pc'[t] # "guard"
      PROVE  Down(t) \/ Guard(t)
  <2>1. CASE WorkerStep
    <3>1. t = Worker BY <1>2, <2>1, WorkerAlone DEF Safe, Threads
    <3> QED
      BY <1>2, <2>1, <3>1 DEF WorkerStep, Boot, Loop, Enter, Dial, Install, Flag, Rung, Pin, Check,
         Spawn, Await, Hear, NextRung, Won, Watch, Lost, Drop, Teardown, Retry, Failed, Count,
         Backoff, Unavailable, Shared, Terminate, Forget, Unflag, At
  <2>2. ASSUME NEW c \in Controllers, Launch(c) PROVE FALSE
    <3>1. pc[c] = "launch" /\ pc[Worker] = "dead" BY <2>2 DEF Launch, Safe, Launching, At
    <3>2. t # Worker /\ t # c BY <1>2, <3>1
    <3>3. pc'[t] = pc[t] BY <1>1, <1>2, <2>2, <3>2 DEF Launch
    <3> QED BY <1>2, <3>3
  <2>3. ASSUME NEW c \in Controllers, ControllerStep(c) \/ (\E op \in Ops : Request(c, op)),
               ~Launch(c)
        PROVE  Down(t) \/ Guard(t)
    <3>1. PICK l : pc' = [pc EXCEPT ![c] = l]
      BY <2>3 DEF ControllerStep, Start, Halt, Cancel, Join, Settle, Shared, Guard, Terminate,
         Forget, Down, Unflag, Request, SetState, Call, Return, Goto
    <3>2. t = c BY <1>1, <1>2, <3>1
    <3> QED
      BY <1>2, <2>3, <3>2 DEF ControllerStep, Start, Halt, Cancel, Join, Settle, Shared, Terminate,
         Forget, Unflag, Request
  <2>4. CASE TransportDies \/ InterfaceVanishes \/ UNCHANGED vars
    BY <1>2, <2>4 DEF TransportDies, InterfaceVanishes, vars, control
  <2> QED BY <2>1, <2>2, <2>3, <2>4 DEF Next
<1>3. ASSUME NEW t \in Threads, Down(t), pc'[t] = "unflag" PROVE wg
  <2>1. then[t] # "unflag"
    BY <1>1, <1>3 DEF Down, Flow, WorkerFlow, ControllerFlow, AfterRaise, DisconnectLabels
  <2> QED BY <1>1, <1>3, <2>1 DEF Down, Return, Goto
<1>4. "interface" \in Sure => ~RemovalFails
  BY <1>2, <1>3 DEF Sure, RemovalFails, Down, Guard
<1>5. "rules" \in Sure => ~ReleaseFails
  BY <1>2 DEF Sure, ReleaseFails, Guard, Down, Engages, Releases
<1> QED BY <1>4, <1>5 DEF Answers

(* Once stop() has returned nothing is left of the session: no process   *)
(* of it, no interface but one whose removal failed, and no kill switch  *)
(* rules (tunnel.py, TunnelManager.stop), whatever fails and wherever    *)
(* the worker was. One controller, and a worker that ends within the     *)
(* join: of two controllers one may leave a wstunnel behind, as a run    *)
(* shows.                                                                *)
THEOREM StopsClean ==
    ASSUME Orderly
    PROVE  Spec => []StoppedClean
<1>1. Init => Safe /\ Tidy  BY InitSafe, InitTidy DEF Tidy
<1>2. Safe /\ Tidy /\ [Next]_vars => (Safe /\ Tidy)'  BY NextSafe, NextTidy, SureAnswers DEF Orderly, Tidy
<1>3. Tidy => StoppedClean
  BY DEF Tidy, TidyFor, Sure, Processes, Stopped, AtRest, At, StoppedClean, AllIdle
<1> QED BY <1>1, <1>2, <1>3, PTL DEF Spec

-----------------------------------------------------------------------------
(* The lifecycle.                                                        *)

\* The labels between the beginning of an attempt and what comes of it.
Attempting ==
    {"dial", "install", "flag", "rung", "pin", "check", "spawn", "await", "hear", "won", "next",
     "teardown", "retry", "failed", "count", "backoff", "unavailable"} \cup DisconnectLabels

\* An attempt is under way, or none is and nothing is connected.
IsTrying == state \in {"connecting", "reconnecting"}
IsOver == state \in {"disconnected", "failed"}

\* What the state is with the worker at label l.
StateAt(l) ==
    /\ l = "boot" \/ (l = "dead" /\ ~halted) => IsOver
    /\ l \in {"loop", "enter"} => IF attempt = 0 THEN IsOver ELSE IsTrying
    /\ l \in Attempting => IsTrying
    /\ l = "backoff" => attempt # 0
    /\ l \in {"watch", "lost", "drop"} => state = "connected"
    /\ l = "guard" => state = target[Worker]
    /\ l = "won" => iface = "up"

\* The state always fits what the worker is doing.
Staged == StateAt(pc[Worker])

\* A step of the worker that changes neither the state nor the count, between
\* two labels at which the state is the same.
LEMMA StagedMove ==
    ASSUME Typed, Staged, UNCHANGED <<state, halted, attempt>>,
           NEW l \in Labels, pc' = [pc EXCEPT ![Worker] = l],
           \/ pc[Worker] \in Attempting /\ l \in Attempting \ {"won", "backoff"}
           \/ pc[Worker] \in Attempting /\ l = "won" /\ iface' = "up"
           \/ pc[Worker] \in {"watch", "lost"} /\ l \in {"lost", "drop"}
           \/ l = "dead" /\ halted
    PROVE  Staged'
<1>1. pc'[Worker] = l BY WorkerThread DEF Typed, Control
<1> QED BY <1>1 DEF Staged, StateAt, IsTrying, IsOver, Attempting, DisconnectLabels

\* _set_state, seen from the worker: the state is the one that was set.
LEMMA SetStateStaged ==
    ASSUME Typed, NEW s \in States, NEW n \in Labels, SetState(Worker, s, n)
    PROVE  /\ state' = s
           /\ \/ pc'[Worker] = n
              \/ pc'[Worker] = "guard" /\ then'[Worker] = n /\ target'[Worker] = s
  BY WorkerThread DEF Typed, Control, SetState, Call, Goto

(* A step of the worker: the states are set where its labels say.        *)
LEMMA WorkerStaged ==
    ASSUME Safe, Staged, WorkerStep
    PROVE  Staged'
<1>1. /\ Typed /\ pc \in [Threads -> Labels] /\ then \in [Threads -> Labels] /\ Worker \in Threads
      /\ target \in [Threads -> States] /\ WorkerFlow(pc[Worker], then[Worker], target[Worker])
      /\ attempt \in 0..MaxAttempts /\ attempt \in Nat
  BY WorkerThread, WorkerFlowNow, TunnelAssumption DEF Safe, Typed, Control, Counters
<1> USE <1>1 DEF At
(* Without a new state.                                                    *)
<1>2. CASE Dial \/ Install \/ Flag \/ Rung \/ Pin \/ Check \/ Spawn \/ Await \/ NextRung
             \/ Teardown \/ Failed \/ Lost
  <2> USE StagedMove DEF WorkerGoto, Raise, RungFails, Call, Goto, manager, local, Attempting, Labels,
          WorkerLabels, DisconnectLabels
  <2>1. CASE Dial BY <2>1 DEF Dial
  <2>2. CASE Install \/ Flag BY <2>2 DEF Install, Flag
  <2>3. CASE Rung \/ Pin \/ Check BY <2>3 DEF Rung, Pin, Check
  <2>4. CASE Spawn \/ Await BY <2>4 DEF Spawn, Await
  <2>5. CASE NextRung \/ Teardown BY <2>5 DEF NextRung, Teardown
  <2>6. CASE Failed \/ Lost BY <2>6 DEF Failed, Lost
  <2> QED BY <1>2, <2>1, <2>2, <2>3, <2>4, <2>5, <2>6
<1>3. CASE Hear
  <2>1. CASE IsActive /\ WorkerGoto("won") /\ iface' = iface
    BY <1>3, <2>1, StagedMove DEF Hear, IsActive, WorkerGoto, Goto, manager, tunnel, local, Attempting,
       Labels, WorkerLabels
  <2>2. CASE RungFails
    BY <1>3, <2>2, StagedMove DEF Hear, RungFails, Call, Goto, manager, local, Attempting, Labels,
       DisconnectLabels
  <2> QED BY <1>3, <2>1, <2>2 DEF Hear, tunnel
<1>4. CASE Terminate(Worker) \/ Forget(Worker) \/ Down(Worker) \/ Unflag(Worker)
  <2> USE StagedMove
       DEF Return, Goto, manager, local, Attempting, Labels, WorkerLabels, DisconnectLabels,
          WorkerFlow, AfterRaise
  <2>1. CASE Terminate(Worker) BY <2>1 DEF Terminate
  <2>2. CASE Forget(Worker) BY <2>2 DEF Forget
  <2>3. CASE Down(Worker) BY <2>3 DEF Down
  <2>4. CASE Unflag(Worker) BY <2>4 DEF Unflag
  <2> QED BY <1>4, <2>1, <2>2, <2>3, <2>4
(* The watch, the head of the loop and the wait.                           *)
<1>5. CASE Watch \/ Loop \/ Backoff
  <2> USE DEF WorkerGoto, Goto, manager, local, control, Staged, StateAt, IsTrying, IsOver, Attempting,
          DisconnectLabels
  <2>1. CASE Watch BY <2>1 DEF Watch
  <2>2. CASE Loop BY <2>2 DEF Loop
  <2>3. CASE Backoff BY <2>3 DEF Backoff
  <2> QED BY <1>5, <2>1, <2>2, <2>3
(* With a new state.                                                       *)
<1>6. CASE Boot \/ Enter \/ Won \/ Drop \/ Retry \/ Count \/ Unavailable
  <2> USE SetStateStaged DEF WorkerGoto, Goto, local, Staged, StateAt, IsTrying, IsOver,
          Attempting, DisconnectLabels, Labels, WorkerLabels, ControllerLabels, States
  <2>1. CASE Boot BY <2>1 DEF Boot
  <2>2. CASE Enter BY <2>2 DEF Enter
  <2>3. CASE Won BY <2>3 DEF Won
  <2>4. CASE Drop BY <2>4 DEF Drop
  <2>5. CASE Retry BY <2>5 DEF Retry
  <2>6. CASE Count
    <3>1. attempt + 1 # 0 BY <1>1
    <3> QED BY <2>6, <3>1 DEF Count
  <2>7. CASE Unavailable BY <2>7 DEF Unavailable
  <2> QED BY <1>6, <2>1, <2>2, <2>3, <2>4, <2>5, <2>6, <2>7
<1>7. CASE Guard(Worker)
  BY <1>7
     DEF Guard, Return, Goto, manager, local, tunnel, WorkerFlow, WorkerStates, Staged, StateAt,
        IsTrying,
     IsOver, Attempting, DisconnectLabels
<1> QED BY <1>2, <1>3, <1>4, <1>5, <1>6, <1>7 DEF WorkerStep, Shared

\* The kill switch is reconciled only if it is enabled.
Switched == KillSwitch \/ \A t \in Threads : pc[t] # "guard"

(* Nothing but a change of state calls reconcile, and it looks first.    *)
LEMMA GuardsSwitched ==
    ASSUME Typed, Switched, [Next]_vars
    PROVE  Switched'
<1> SUFFICES ASSUME ~KillSwitch, NEW t \in Threads PROVE pc'[t] # "guard"
  BY DEF Switched
<1>1. /\ pc \in [Threads -> Labels] /\ then \in [Threads -> Labels] /\ Worker \in Threads
      /\ \A d \in Threads : pc[d] # "guard"
      /\ WorkerFlow(pc[Worker], then[Worker], target[Worker])
  BY WorkerThread, WorkerFlowNow DEF Typed, Control, Switched
<1> USE <1>1 DEF At, WorkerGoto, Raise, RungFails, SetState, Call, Return, Goto, manager, control
<1>2. CASE Boot \/ Loop \/ Enter \/ Dial \/ Install \/ Flag \/ Rung \/ Pin \/ Check
  BY <1>2 DEF Boot, Loop, Enter, Dial, Install, Flag, Rung, Pin, Check
<1>3. CASE Spawn \/ Await \/ Hear \/ NextRung \/ Won \/ Watch \/ Lost \/ Drop
  BY <1>3 DEF Spawn, Await, Hear, NextRung, Won, Watch, Lost, Drop
<1>4. CASE Teardown \/ Retry \/ Failed \/ Count \/ Backoff \/ Unavailable
  BY <1>4 DEF Teardown, Retry, Failed, Count, Backoff, Unavailable
<1>5. CASE Shared(Worker)
  BY <1>5 DEF Shared, Guard, Terminate, Forget, Down, Unflag, WorkerFlow, AfterRaise
<1>6. ASSUME NEW c \in Controllers, ControllerStep(c) \/ \E op \in Ops : Request(c, op)
      PROVE  pc'[t] # "guard"
  <2>1. c \in Threads /\ ControllerFlow(pc[c], then[c], target[c])
    BY ControllerThread, ControllerFlowNow DEF Typed, Control
  <2>2. CASE Start(c) \/ Launch(c) \/ Halt(c) \/ Cancel(c)
    BY <2>1, <2>2 DEF Start, Launch, Halt, Cancel
  <2>3. CASE Join(c) \/ Settle(c) \/ \E op \in Ops : Request(c, op)
    BY <2>1, <2>3 DEF Join, Settle, Request
  <2>4. CASE Shared(c)
    BY <2>1, <2>4 DEF Shared, Guard, Terminate, Forget, Down, Unflag, ControllerFlow, DisconnectLabels
  <2> QED BY <1>6, <2>2, <2>3, <2>4 DEF ControllerStep
<1>7. CASE TransportDies \/ InterfaceVanishes \/ UNCHANGED vars
  BY <1>7 DEF TransportDies, InterfaceVanishes, vars
<1> QED BY <1>2, <1>3, <1>4, <1>5, <1>6, <1>7 DEF Next, WorkerStep

\* A step as the lifecycle sees it.
LifecycleStep == Lifecycle!Next \/ UNCHANGED <<state, iface, ks, session>>

(* A step of the worker is a step of the lifecycle, or one it does not   *)
(* see.                                                                  *)
LEMMA WorkerFollows ==
    ASSUME Safe, Staged, Switched, WorkerStep
    PROVE  LifecycleStep
<1>1. /\ Typed /\ pc \in [Threads -> Labels] /\ then \in [Threads -> Labels] /\ Worker \in Threads
      /\ target \in [Threads -> States] /\ WorkerFlow(pc[Worker], then[Worker], target[Worker])
      /\ session \in BOOLEAN /\ halted \in BOOLEAN /\ ks \in BOOLEAN
  BY WorkerThread, WorkerFlowNow DEF Safe, Typed, Control, SharedTyped
<1> USE <1>1 DEF At, LifecycleStep, Lifecycle!Next, Lifecycle!StateChange, Lifecycle!Trying,
                 Lifecycle!Protected, Protects
<1>2. CASE Loop \/ Dial \/ Flag \/ Rung \/ Pin \/ Check \/ Spawn \/ Await \/ Hear \/ NextRung
             \/ Teardown \/ Failed \/ Watch \/ Lost \/ Backoff
  <2> USE DEF manager, tunnel
  <2>1. CASE Loop \/ Dial \/ Flag \/ Rung BY <2>1 DEF Loop, Dial, Flag, Rung
  <2>2. CASE Pin \/ Check \/ Spawn \/ Await \/ Hear BY <2>2 DEF Pin, Check, Spawn, Await, Hear
  <2>3. CASE NextRung \/ Teardown \/ Failed \/ Watch \/ Lost \/ Backoff
    BY <2>3 DEF NextRung, Teardown, Failed, Watch, Lost, Backoff
  <2> QED BY <1>2, <2>1, <2>2, <2>3
<1>3. CASE Install
  <2>1. IsTrying BY <1>3 DEF Install, Staged, StateAt, Attempting
  <2>2. Protects /\ session => ks
    BY <1>3 DEF Install, Safe, Cover, Covered
  <2> QED BY <1>3, <2>1, <2>2 DEF Install, manager, IsTrying, Lifecycle!Install
<1>4. CASE Terminate(Worker) \/ Forget(Worker) \/ Unflag(Worker)
  BY <1>4 DEF Terminate, Forget, Unflag, manager
<1>5. CASE Down(Worker)
  <2>1. Protects /\ session => ks
    BY <1>5 DEF Down, Safe, Cover, Covered
  <2> QED BY <1>5, <2>1 DEF Down, manager, Lifecycle!Uninstall
<1>6. CASE Guard(Worker)
  <2>1. state = target[Worker] /\ KillSwitch BY <1>6 DEF Guard, Staged, StateAt, Switched
  <2>2. <<then[Worker], target[Worker]>> \in WorkerStates
    BY <1>6 DEF Guard, WorkerFlow
  <2>3. Releases(target[Worker]) /\ Protects /\ session => iface = "up"
    BY <1>6, <2>2 DEF Guard, Releases, WorkerStates, Safe, Cover, Covered, Ruled
  <2> QED
    BY <1>6, <2>1, <2>3
       DEF Guard, manager, tunnel, Engages, Releases, Lifecycle!Engage, Lifecycle!Release
<1>7. CASE Boot \/ Enter \/ Won \/ Drop \/ Retry \/ Count \/ Unavailable
  <2> USE SetStateStaged DEF tunnel, Staged, StateAt, IsTrying, IsOver, Attempting, States, Labels,
          WorkerLabels
  <2>1. CASE Boot BY <2>1 DEF Boot, Lifecycle!GiveUp
  <2>2. CASE Enter BY <2>2 DEF Enter, Lifecycle!Attempt
  <2>3. CASE Won BY <2>3 DEF Won, Lifecycle!Established
  <2>4. CASE Drop BY <2>4 DEF Drop, Lifecycle!Attempt
  <2>5. CASE Retry BY <2>5 DEF Retry, Lifecycle!GiveUp
  <2>6. CASE Count BY <2>6 DEF Count, Lifecycle!GiveUp
  <2>7. CASE Unavailable BY <2>7 DEF Unavailable, Lifecycle!GiveUp
  <2> QED BY <1>7, <2>1, <2>2, <2>3, <2>4, <2>5, <2>6, <2>7
<1> QED BY <1>2, <1>3, <1>4, <1>5, <1>6, <1>7 DEF WorkerStep, Shared

\* A step of the controller: what it does to the state, which only a stop sets.
LEMMA ControllerStaged ==
    ASSUME Orderly, Safe, Tidy, Staged, NEW c \in Controllers,
           ControllerStep(c) \/ \E op \in Ops : Request(c, op)
    PROVE  Staged'
<1>1. /\ pc \in [Threads -> Labels] /\ then \in [Threads -> Labels]
      /\ target \in [Threads -> States] /\ Worker \in Threads /\ c \in Threads /\ c # Worker
      /\ \A d \in Controllers : d = c
  BY WorkerThread, ControllerThread DEF Safe, Typed, Control, Orderly, Alone
<1> USE <1>1 DEF Goto, Call, Return, manager, tunnel, local, Staged, StateAt, IsOver, IsTrying, At
<1>2. CASE Start(c)
  <2>1. CASE At("dead") /\ halted
    <3>1. state = "disconnected" BY <1>2, <2>1 DEF Start, Tidy, TidyFor, Stopped, AtRest
    <3> QED BY <1>2, <2>1, <3>1 DEF Start, Attempting, DisconnectLabels
  <2>2. CASE ~At("dead") \/ ~halted BY <1>2, <2>2 DEF Start
  <2> QED BY <2>1, <2>2
<1>3. CASE Launch(c)
  <2>1. At("dead") /\ ~halted BY <1>3 DEF Launch, Safe, Launching, Tidy, TidyFor, Stopping
  <2> QED BY <1>3, <2>1 DEF Launch, Attempting, DisconnectLabels
<1>4. CASE Halt(c) \/ Cancel(c) \/ Join(c) \/ \E op \in Ops : Request(c, op)
  <2>1. CASE Halt(c) \/ Cancel(c) \/ Join(c) BY <2>1 DEF Halt, Cancel, Join
  <2>2. CASE \E op \in Ops : Request(c, op) BY <2>2 DEF Request
  <2> QED BY <1>4, <2>1, <2>2
<1>5. CASE Settle(c) \/ Shared(c)
  <2>1. halted /\ At("dead")
    <3>1. pc[c] \in {"settle", "resettle", "guard"} \cup DisconnectLabels
      BY <1>5 DEF Settle, Shared, Guard, Terminate, Forget, Down, Unflag, DisconnectLabels
    <3> QED BY <3>1 DEF Tidy, TidyFor, Stopping, Joined, Safe, Calm, DisconnectLabels
  <2>2. pc'[Worker] = "dead" /\ halted'
    <3> USE <2>1
    <3>1. CASE Settle(c) BY <3>1 DEF Settle, SetState
    <3>2. CASE Guard(c) BY <3>2 DEF Guard
    <3>3. CASE Terminate(c) \/ Forget(c) BY <3>3 DEF Terminate, Forget
    <3>4. CASE Down(c) \/ Unflag(c) BY <3>4 DEF Down, Unflag
    <3> QED BY <1>5, <3>1, <3>2, <3>3, <3>4 DEF Shared
  <2> QED BY <2>2 DEF Attempting, DisconnectLabels
<1> QED BY <1>2, <1>3, <1>4, <1>5 DEF ControllerStep

(* So is one of the controller: only the end of a stop is seen, ...      *)
LEMMA ControllerFollows ==
    ASSUME Orderly, Safe, Tidy, NEW c \in Controllers,
           ControllerStep(c) \/ \E op \in Ops : Request(c, op)
    PROVE  LifecycleStep
<1>1. ControllerFlow(pc[c], then[c], target[c])
  BY ControllerThread, ControllerFlowNow DEF Safe, Typed, Control
<1> USE <1>1 DEF LifecycleStep, Lifecycle!Next, Lifecycle!StateChange, Lifecycle!Protected, manager,
                 tunnel, At
<1>2. CASE Start(c) \/ Launch(c) \/ Cancel(c) \/ Join(c) \/ \E op \in Ops : Request(c, op)
  <2>1. CASE Start(c) \/ Launch(c) BY <2>1 DEF Start, Launch
  <2>2. CASE Cancel(c) \/ Join(c) BY <2>2 DEF Cancel, Join
  <2>3. CASE \E op \in Ops : Request(c, op) BY <2>3 DEF Request
  <2> QED BY <1>2, <2>1, <2>2, <2>3
<1>3. CASE Halt(c) BY <1>3 DEF Halt, Lifecycle!StopAsked
<1>4. CASE Terminate(c) \/ Forget(c) \/ Unflag(c) BY <1>4 DEF Terminate, Forget, Unflag
<1>5. CASE Down(c)
  <2>1. ~session BY <1>5 DEF Down, Safe, Calm, Wanted
  <2> QED BY <1>5, <2>1 DEF Down, Lifecycle!Uninstall
<1>6. CASE Guard(c)
  <2>1. state = "disconnected" /\ target[c] = "disconnected"
    BY <1>1, <1>6 DEF Guard, Tidy, TidyFor, Stopping, ControllerFlow
  <2>2. ~session BY <1>6 DEF Guard, Safe, Calm, Wanted
  <2> QED BY <1>6, <2>1, <2>2 DEF Guard, Engages, Releases, Lifecycle!Release
<1>7. CASE Settle(c)
  <2>1. pc[c] \in {"settle", "resettle"} BY <1>7 DEF Settle
  <2>2. ~session BY <2>1 DEF Safe, Calm, Wanted
  <2>3. "teardown" \notin Faults => iface # "up"
    BY <2>1 DEF Tidy, TidyFor, Stopping, Unwired, Joined, Interfaces, At, Sure
  <2>4. state' = "disconnected" BY <1>7 DEF Settle, SetState
  <2> QED BY <1>7, <2>2, <2>3, <2>4 DEF Settle, Lifecycle!Stopped
<1> QED BY <1>2, <1>3, <1>4, <1>5, <1>6, <1>7 DEF ControllerStep, Shared

\* A step of nobody.
LEMMA SurroundingsFollow ==
    ASSUME Staged, TransportDies \/ InterfaceVanishes \/ UNCHANGED vars
    PROVE  Staged' /\ LifecycleStep
<1>1. CASE TransportDies \/ UNCHANGED vars
  BY <1>1
     DEF TransportDies, vars, manager, tunnel, control, local, LifecycleStep, Staged, StateAt, IsOver,
     IsTrying
<1>2. CASE InterfaceVanishes
  BY <1>2
     DEF InterfaceVanishes, At, manager, tunnel, control, local, LifecycleStep, Staged, StateAt, IsOver,
     IsTrying, Lifecycle!Next, Lifecycle!Vanish
<1> QED BY <1>1, <1>2

(* The invariant of the refinement at the start ...                      *)
LEMMA InitFollows == Init => Staged /\ Switched /\ Lifecycle!Init
BY WorkerThread
   DEF Init, Switched, Staged, StateAt, IsOver, IsTrying, Attempting, DisconnectLabels, Lifecycle!Init

\* Every step of the manager, with the invariants it relies on.
Followed == Safe /\ Tidy /\ Staged /\ Switched

(* ... and over every step, which the lifecycle allows.                  *)
LEMMA NextFollows ==
    ASSUME Orderly, Followed, [Next]_vars
    PROVE  Followed' /\ LifecycleStep
<1>1. Safe' /\ Tidy' BY NextSafe, NextTidy, SureAnswers DEF Orderly, Followed, Tidy
<1>2. Staged' /\ LifecycleStep
  <2>1. CASE WorkerStep BY <2>1, WorkerStaged, WorkerFollows DEF Followed
  <2>2. CASE \E c \in Controllers : ControllerStep(c) \/ \E op \in Ops : Request(c, op)
    BY <2>2, ControllerStaged, ControllerFollows DEF Followed
  <2>3. CASE TransportDies \/ InterfaceVanishes \/ UNCHANGED vars
    BY <2>3, SurroundingsFollow DEF Followed
  <2> QED BY <2>1, <2>2, <2>3 DEF Next
<1>3. Switched' BY GuardsSwitched DEF Followed, Safe
<1> QED BY <1>1, <1>2, <1>3 DEF Followed

(* Whatever the worker, the controller and the network do, the state of  *)
(* the connection, the interface and the kill switch move as             *)
(* TunnelLifecycle says: an attempt begins from rest, a lost connection  *)
(* closes the network before its interface goes, and only a connection   *)
(* or a stop opens it again (tunnel.py; killswitch.py). Also when the    *)
(* commands for the interface and the firewall fail, and with the switch *)
(* disabled: the lifecycle says what is left of its promises then.       *)
THEOREM FollowsLifecycle ==
    ASSUME Orderly
    PROVE  Spec => ImplementsLifecycle
<1>1. Init => Followed /\ Lifecycle!Init BY InitSafe, InitTidy, InitFollows DEF Followed, Tidy
<1>2. Followed /\ [Next]_vars => Followed' /\ [Lifecycle!Next]_(Lifecycle!vars)
  BY NextFollows DEF LifecycleStep, Lifecycle!vars
<1> QED BY <1>1, <1>2, PTL DEF Spec, ImplementsLifecycle, Lifecycle!Spec

(* What the lifecycle is worth to a user: whatever implements it never   *)
(* has the interface of a protected session down without the rules, and  *)
(* no rules of a switch that is not enabled.                             *)
THEOREM LifecycleShut == Lifecycle!Spec => []Lifecycle!Shut
<1> USE DEF Lifecycle!Shut, Lifecycle!Protected
<1>1. Lifecycle!Init => Lifecycle!Shut
  BY DEF Lifecycle!Init
<1>2. Lifecycle!Shut /\ [Lifecycle!Next]_(Lifecycle!vars) => Lifecycle!Shut'
  <2> SUFFICES ASSUME Lifecycle!Shut, [Lifecycle!Next]_(Lifecycle!vars) PROVE Lifecycle!Shut'
    OBVIOUS
  <2>1. CASE Lifecycle!StateChange \/ UNCHANGED Lifecycle!vars
    BY <2>1
       DEF Lifecycle!StateChange, Lifecycle!Attempt, Lifecycle!Established, Lifecycle!GiveUp,
           Lifecycle!Stopped, Lifecycle!vars
  <2>2. CASE Lifecycle!StopAsked \/ Lifecycle!Install \/ Lifecycle!Uninstall \/ Lifecycle!Vanish
    BY <2>2 DEF Lifecycle!StopAsked, Lifecycle!Install, Lifecycle!Uninstall, Lifecycle!Vanish
  <2>3. CASE Lifecycle!Engage \/ Lifecycle!Release
    BY <2>3 DEF Lifecycle!Engage, Lifecycle!Release
  <2> QED BY <2>1, <2>2, <2>3 DEF Lifecycle!Next
<1> QED BY <1>1, <1>2, PTL DEF Lifecycle!Spec

(* The manager therefore keeps it, too: what a failing removal leaves    *)
(* up, and what a disabled switch leaves open, is no exception to it.    *)
THEOREM ManagerShut ==
    ASSUME Orderly
    PROVE  Spec => []Lifecycle!Shut
BY FollowsLifecycle, LifecycleShut, PTL DEF ImplementsLifecycle
=============================================================================
