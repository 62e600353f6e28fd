------------------------ MODULE TunnelManagerProofs ------------------------
(***************************************************************************)
(* Type correctness of TunnelManager, for any number of controllers, rungs *)
(* and attempts, and any faults.  Where a thread is and where it will go   *)
(* next go together: Flow says how.                                        *)
(***************************************************************************)
EXTENDS TunnelManager, TLAPS

\* What a disconnect() of the worker's may be followed by.
AfterRaise == {"failed", "unavailable", "retry"}

\* The calls of _set_state in the worker, with what follows them.
WorkerStates ==
    {<<"dial", "connecting">>, <<"dial", "reconnecting">>, <<"dead", "failed">>,
     <<"watch", "connected">>, <<"teardown", "reconnecting">>}

\* The worker at label l, to return to n, with g the state it is setting.
WorkerFlow(l, n, g) ==
    /\ l \in WorkerLabels \cup DisconnectLabels \cup {"guard"}
    /\ l \in {"terminate", "forget"} => n \in AfterRaise \cup {"next"}
    /\ l \in {"down", "unflag"} => n \in AfterRaise
    /\ l = "guard" => <<n, g>> \in WorkerStates

\* The same for a controller.
ControllerFlow(l, n, g) ==
    /\ l \in ControllerLabels \cup DisconnectLabels \cup {"guard"}
    /\ l \in {"halt", "cancel", "join"} \cup DisconnectLabels => n \in {"settle", "resettle"}
    /\ l = "guard" => n \in {"idle", "start"} /\ g = "disconnected"

Flow(t, l, n, g) == IF t = Worker THEN WorkerFlow(l, n, g) ELSE ControllerFlow(l, n, g)

Control ==
    /\ pc \in [Threads -> Labels] /\ then \in [Threads -> Labels]
    /\ target \in [Threads -> States]
    /\ \A t \in Threads : Flow(t, pc[t], then[t], target[t])

\* A worker that has failed max_attempts times goes no further.
MayGoOn(l, n, a) == a < MaxAttempts \/ l \in {"dead", "boot"} \/ (l = "guard" /\ n = "dead")

\* The worker is at a rung of the ladder, not past its end.
OnLadder(l, n) ==
    \/ l \in {"pin", "check", "spawn", "await", "hear", "next"}
    \/ l \in {"terminate", "forget"} /\ n = "next"

Counters(l, n, a, r) ==
    /\ a \in 0..MaxAttempts /\ r \in 1..(Rungs + 1)
    /\ MayGoOn(l, n, a)
    /\ OnLadder(l, n) => r \in 1..Rungs

\* What is nobody's control state.
SharedTyped ==
    /\ state \in States /\ halted \in BOOLEAN /\ cancel \in BOOLEAN
    /\ proc \in {"none", "alive", "dead"} /\ strays \in Nat
    /\ wg \in BOOLEAN /\ iface \in {"up", "down", "gone"} /\ ks \in BOOLEAN
    /\ session \in BOOLEAN /\ calls \in 0..MaxCalls

Typed == SharedTyped /\ Control /\ Counters(pc[Worker], then[Worker], attempt, rung)

\* Thread t goes to label l, to return to n, setting state g; nobody else moves.
Moves(t, l, n, g) ==
    /\ pc' = [pc EXCEPT ![t] = l]
    /\ then' = [then EXCEPT ![t] = n]
    /\ target' = [target EXCEPT ![t] = g]

LEMMA WorkerThread == Worker \in Threads /\ Worker \notin Controllers
BY TunnelAssumption DEF Threads

LEMMA ControllerThread ==
    ASSUME NEW c \in Controllers PROVE c \in Threads /\ c # Worker
BY TunnelAssumption DEF Threads

LEMMA MovesControl ==
    ASSUME Control, NEW t \in Threads, NEW l \in Labels, NEW n \in Labels,
           NEW g \in States, Moves(t, l, n, g), Flow(t, l, n, g)
    PROVE  /\ Control'
           /\ pc'[t] = l /\ then'[t] = n /\ target'[t] = g
           /\ \A s \in Threads \ {t} :
                pc'[s] = pc[s] /\ then'[s] = then[s] /\ target'[s] = target[s]
<1>1. /\ pc'[t] = l /\ then'[t] = n /\ target'[t] = g
      /\ \A s \in Threads \ {t} :
            pc'[s] = pc[s] /\ then'[s] = then[s] /\ target'[s] = target[s]
  BY DEF Control, Moves
<1>2. /\ pc' \in [Threads -> Labels] /\ then' \in [Threads -> Labels]
      /\ target' \in [Threads -> States]
  BY DEF Control, Moves
<1>3. ASSUME NEW s \in Threads PROVE Flow(s, pc'[s], then'[s], target'[s])
  BY <1>1, <1>3 DEF Control
<1> QED BY <1>1, <1>2, <1>3 DEF Control

\* The ways the actions move a thread.
LEMMA GotoMoves ==
    ASSUME Control, NEW t \in Threads, NEW l, Goto(t, l), UNCHANGED <<then, target>>
    PROVE  Moves(t, l, then[t], target[t])
BY DEF Control, Goto, Moves

LEMMA CallMoves ==
    ASSUME Control, NEW t \in Threads, NEW l, NEW n, Call(t, l, n), UNCHANGED target
    PROVE  Moves(t, l, n, target[t])
BY DEF Control, Call, Goto, Moves

LEMMA ReturnMoves ==
    ASSUME Control, NEW t \in Threads, Return(t), UNCHANGED target
    PROVE  Moves(t, then[t], "idle", target[t])
BY DEF Control, Return, Goto, Moves

LEMMA SetStateMoves ==
    ASSUME Control, NEW t \in Threads, NEW s \in States, NEW n, SetState(t, s, n)
    PROVE  \/ /\ Moves(t, n, then[t], target[t])
              /\ state' = s /\ (state = s \/ ~KillSwitch)
           \/ Moves(t, "guard", n, s) /\ state' = s /\ state # s /\ KillSwitch
<1>1. CASE state = s
  BY <1>1, GotoMoves DEF SetState
<1>2. CASE state # s /\ KillSwitch
  BY <1>2 DEF SetState, Call, Goto, Moves
<1>3. CASE state # s /\ ~KillSwitch
  BY <1>3, GotoMoves DEF SetState
<1> QED BY <1>1, <1>2, <1>3

LEMMA LabelSets ==
    /\ WorkerLabels \cup ControllerLabels \cup DisconnectLabels \cup {"guard"} = Labels
    /\ AfterRaise \subseteq Labels
BY DEF Labels, AfterRaise, WorkerLabels

-----------------------------------------------------------------------------
(* What a step has to satisfy, by who takes it.                            *)

LEMMA TypedTypeOK == Typed => TypeOK
BY DEF Typed, TypeOK, SharedTyped, Control, Counters

\* A step of the worker is typed if its new control state, count and rung fit.
LEMMA WorkerMove ==
    ASSUME Typed, NEW l, NEW n \in Labels, NEW g \in States,
           Moves(Worker, l, n, g), WorkerFlow(l, n, g), SharedTyped', Counters(l, n, attempt', rung')
    PROVE  Typed'
<1>1. l \in Labels  BY LabelSets DEF WorkerFlow
<1>2. Flow(Worker, l, n, g)  BY DEF Flow
<1>3. /\ Control'
      /\ pc'[Worker] = l /\ then'[Worker] = n
  BY <1>1, <1>2, MovesControl, WorkerThread DEF Typed
<1> QED BY <1>3 DEF Typed

\* A step of a controller moves neither the worker nor its count.
LEMMA ControllerMove ==
    ASSUME Typed, NEW c \in Controllers, NEW l, NEW n \in Labels, NEW g \in States,
           Moves(c, l, n, g), ControllerFlow(l, n, g), SharedTyped', UNCHANGED local
    PROVE  Typed'
<1>1. l \in Labels  BY LabelSets DEF ControllerFlow
<1>2. Flow(c, l, n, g)  BY ControllerThread DEF Flow
<1>3. /\ Control'
      /\ pc'[Worker] = pc[Worker] /\ then'[Worker] = then[Worker]
  BY <1>1, <1>2, MovesControl, WorkerThread, ControllerThread DEF Typed
<1> QED BY <1>3 DEF Typed, local

\* A step of the surroundings moves nobody.
LEMMA QuietMove ==
    ASSUME Typed, SharedTyped', UNCHANGED <<control, local>>
    PROVE  Typed'
<1> USE DEF control, local
<1>1. Control'  BY DEF Typed, Control, Flow, WorkerFlow, ControllerFlow
<1> QED BY <1>1 DEF Typed

LEMMA WorkerFlowNow ==
    ASSUME Typed
    PROVE  /\ WorkerFlow(pc[Worker], then[Worker], target[Worker])
           /\ then[Worker] \in Labels /\ target[Worker] \in States
BY WorkerThread DEF Typed, Control, Flow

LEMMA ControllerFlowNow ==
    ASSUME Typed, NEW c \in Controllers
    PROVE  /\ ControllerFlow(pc[c], then[c], target[c])
           /\ then[c] \in Labels /\ target[c] \in States
BY ControllerThread DEF Typed, Control, Flow

LEMMA InitTyped == Init => Typed
<1> SUFFICES ASSUME Init PROVE Typed  OBVIOUS
<1>1. /\ pc \in [Threads -> Labels] /\ then \in [Threads -> Labels]
      /\ target \in [Threads -> States]
  BY DEF Init, Labels, WorkerLabels, ControllerLabels, States
<1>2. ASSUME NEW t \in Threads PROVE Flow(t, pc[t], then[t], target[t])
  <2>1. CASE t = Worker
    BY <2>1, <1>2 DEF Init, Flow, WorkerFlow, WorkerLabels
  <2>2. CASE t # Worker
    BY <2>2, <1>2 DEF Init, Flow, ControllerFlow, ControllerLabels, DisconnectLabels
  <2> QED BY <2>1, <2>2
<1>3. Control  BY <1>1, <1>2 DEF Control
<1>4. SharedTyped
  <2>1. MaxCalls \in Nat  BY TunnelAssumption
  <2>2. /\ state \in States /\ proc \in {"none", "alive", "dead"} /\ strays \in Nat
        /\ iface \in {"up", "down", "gone"} /\ calls \in 0..MaxCalls
    BY <2>1 DEF Init, States
  <2>3. /\ halted \in BOOLEAN /\ cancel \in BOOLEAN /\ wg \in BOOLEAN /\ ks \in BOOLEAN
        /\ session \in BOOLEAN
    BY DEF Init
  <2> QED BY <2>2, <2>3 DEF SharedTyped
<1>5. pc[Worker] = "dead"  BY WorkerThread DEF Init
<1>6. Counters(pc[Worker], then[Worker], attempt, rung)
  BY <1>5, TunnelAssumption DEF Init, Counters, MayGoOn, OnLadder
<1> QED BY <1>3, <1>4, <1>6 DEF Typed

-----------------------------------------------------------------------------
(* The worker's ways to go on.                                             *)

\* A jump to one of its own labels.
LEMMA WorkerGoes ==
    ASSUME Typed, NEW l \in WorkerLabels, WorkerGoto(l),
           SharedTyped', Counters(l, then[Worker], attempt', rung')
    PROVE  Typed'
<1>1. Moves(Worker, l, then[Worker], target[Worker])
  BY GotoMoves, WorkerThread DEF WorkerGoto, Typed
<1>2. WorkerFlow(l, then[Worker], target[Worker])
  BY DEF WorkerFlow, WorkerLabels
<1> QED BY <1>1, <1>2, WorkerFlowNow, WorkerMove

\* A call of disconnect(), or of _stop_wstunnel alone.
LEMMA WorkerCalls ==
    ASSUME Typed, NEW n \in AfterRaise \cup {"next"},
           Call(Worker, "terminate", n), UNCHANGED target,
           SharedTyped', Counters("terminate", n, attempt', rung')
    PROVE  Typed'
<1>1. Moves(Worker, "terminate", n, target[Worker])
  BY CallMoves, WorkerThread DEF Typed
<1>2. WorkerFlow("terminate", n, target[Worker]) /\ n \in Labels
  BY DEF WorkerFlow, DisconnectLabels, AfterRaise, Labels, WorkerLabels
<1> QED BY <1>1, <1>2, WorkerFlowNow, WorkerMove

\* A change of state.
LEMMA WorkerSets ==
    ASSUME Typed, NEW n, NEW s, <<n, s>> \in WorkerStates, SetState(Worker, s, n),
           SharedTyped', Counters(n, then[Worker], attempt', rung'),
           Counters("guard", n, attempt', rung')
    PROVE  Typed'
<1>1. n \in WorkerLabels /\ n \in Labels /\ s \in States
  BY DEF WorkerStates, WorkerLabels, Labels, States
<1>2. CASE Moves(Worker, n, then[Worker], target[Worker])
  <2>1. WorkerFlow(n, then[Worker], target[Worker])
    BY <1>1 DEF WorkerFlow, WorkerLabels
  <2> QED BY <1>2, <2>1, WorkerFlowNow, WorkerMove
<1>3. CASE Moves(Worker, "guard", n, s)
  <2>1. WorkerFlow("guard", n, s)
    BY DEF WorkerFlow
  <2> QED BY <1>1, <1>3, <2>1, WorkerMove
<1> QED BY <1>1, <1>2, <1>3, SetStateMoves, WorkerThread DEF Typed

-----------------------------------------------------------------------------
(* The worker's steps.                                                     *)


-----------------------------------------------------------------------------
(* The worker's steps.                                                     *)

LEMMA NumbersAssumed ==
    Rungs \in Nat /\ Rungs >= 1 /\ MaxAttempts \in Nat /\ MaxAttempts >= 1
BY TunnelAssumption

\* The worker is at its label, with what Typed says of it there.
LEMMA WorkerHere ==
    ASSUME Typed
    PROVE  /\ SharedTyped /\ Counters(pc[Worker], then[Worker], attempt, rung)
           /\ WorkerFlow(pc[Worker], then[Worker], target[Worker])
BY WorkerThread, WorkerFlowNow DEF Typed, Control

\* Steps that touch neither the counters nor the state.
LEMMA DialStepsTyped ==
    ASSUME Typed, Loop \/ Dial \/ Rung \/ Pin \/ Check \/ Await \/ Hear \/ Lost
                  \/ Teardown \/ Failed \/ Backoff
    PROVE  Typed'
<1> USE WorkerHere, NumbersAssumed
<1> USE DEF manager, tunnel, local, At, Raise, RungFails, AfterRaise, WorkerLabels,
            Counters, MayGoOn, OnLadder
<1>1. SharedTyped' /\ attempt' = attempt /\ rung' = rung
  BY DEF SharedTyped, Loop, Dial, Rung, Pin, Check, Await, Hear, Lost, Teardown, Failed, Backoff
<1>2. CASE Loop  BY <1>1, <1>2, WorkerGoes DEF Loop
<1>3. CASE Dial  BY <1>1, <1>3, WorkerGoes DEF Dial
<1>4. CASE Rung  BY <1>1, <1>4, WorkerGoes, WorkerCalls DEF Rung
<1>5. CASE Pin  BY <1>1, <1>5, WorkerGoes, WorkerCalls DEF Pin
<1>6. CASE Check  BY <1>1, <1>6, WorkerGoes, WorkerCalls DEF Check
<1>7. CASE Await  BY <1>1, <1>7, WorkerGoes, WorkerCalls DEF Await
<1>8. CASE Hear  BY <1>1, <1>8, WorkerGoes, WorkerCalls DEF Hear
<1>9. CASE Lost  BY <1>1, <1>9, WorkerGoes DEF Lost
<1>10. CASE Teardown  BY <1>1, <1>10, WorkerCalls DEF Teardown
<1>11. CASE Failed  BY <1>1, <1>11, WorkerGoes DEF Failed
<1>12. CASE Backoff  BY <1>1, <1>12, WorkerGoes DEF Backoff
<1> QED BY <1>2, <1>3, <1>4, <1>5, <1>6, <1>7, <1>8, <1>9, <1>10, <1>11, <1>12

\* Steps that set the state or count failures.
LEMMA StateStepsTyped ==
    ASSUME Typed, Boot \/ Enter \/ Won \/ Drop \/ Retry \/ Count \/ Unavailable
    PROVE  Typed'
<1> USE WorkerHere, NumbersAssumed, SetStateMoves, WorkerThread
<1> USE DEF manager, tunnel, local, At, WorkerLabels, Counters, MayGoOn, OnLadder, WorkerStates
<1>1. CASE Boot
  <2>1. SharedTyped' /\ attempt' = 0 /\ rung' = rung
    BY <1>1 DEF Boot, SharedTyped, Typed, WorkerGoto, States
  <2>2. CASE WorkerGoto("loop")  BY <2>1, <2>2, WorkerGoes
  <2>3. CASE SetState(Worker, "failed", "dead")  BY <2>1, <2>3, WorkerSets
  <2> QED BY <1>1, <2>2, <2>3 DEF Boot
<1>2. CASE Enter
  <2>1. SharedTyped' /\ attempt' = attempt /\ rung' = rung
    BY <1>2 DEF Enter, SharedTyped, Typed, States
  <2> QED BY <1>2, <2>1, WorkerSets DEF Enter
<1>3. CASE Won
  <2>1. SharedTyped' /\ attempt' = attempt /\ rung' = rung
    BY <1>3 DEF Won, SharedTyped, Typed, States
  <2> QED BY <1>3, <2>1, WorkerSets DEF Won
<1>4. CASE Drop
  <2>1. SharedTyped' /\ attempt' = attempt /\ rung' = rung
    BY <1>4 DEF Drop, SharedTyped, Typed, States
  <2> QED BY <1>4, <2>1, WorkerSets DEF Drop
<1>5. CASE Retry
  <2>1. SharedTyped' /\ attempt' = attempt /\ rung' = rung
    BY <1>5 DEF Retry, SharedTyped, Typed, WorkerGoto, States
  <2>2. CASE WorkerGoto("count")  BY <1>5, <2>1, <2>2, WorkerGoes DEF Retry
  <2>3. CASE SetState(Worker, "failed", "dead")  BY <1>5, <2>1, <2>3, WorkerSets DEF Retry
  <2> QED BY <1>5, <2>2, <2>3 DEF Retry
<1>6. CASE Count
  <2>1. SharedTyped' /\ attempt' = attempt + 1 /\ rung' = rung
    BY <1>6 DEF Count, SharedTyped, Typed, WorkerGoto, States
  <2>2. attempt < MaxAttempts /\ attempt \in Nat
    BY <1>6 DEF Count
  <2>3. CASE WorkerGoto("backoff") /\ attempt' < MaxAttempts
    BY <2>1, <2>2, <2>3, WorkerGoes
  <2>4. CASE SetState(Worker, "failed", "dead")
    BY <2>1, <2>2, <2>4, WorkerSets
  <2> QED BY <1>6, <2>1, <2>2, <2>3, <2>4 DEF Count
<1>7. CASE Unavailable
  <2>1. SharedTyped' /\ attempt' = attempt /\ rung' = rung
    BY <1>7 DEF Unavailable, SharedTyped, Typed, States
  <2> QED BY <1>7, <2>1, WorkerSets DEF Unavailable
<1> QED BY <1>1, <1>2, <1>3, <1>4, <1>5, <1>6, <1>7

\* Steps on the interface, the process and the ladder.
LEMMA LadderStepsTyped ==
    ASSUME Typed, Install \/ Flag \/ Spawn \/ NextRung \/ Watch
    PROVE  Typed'
<1> USE WorkerHere, NumbersAssumed
<1> USE DEF manager, tunnel, local, At, Raise, RungFails, AfterRaise, WorkerLabels,
            Counters, MayGoOn, OnLadder
<1>1. CASE Install
  <2>1. SharedTyped' /\ attempt' = attempt /\ rung' = rung
    BY <1>1 DEF Install, SharedTyped, Typed
  <2> QED BY <1>1, <2>1, WorkerGoes, WorkerCalls DEF Install
<1>2. CASE Flag
  <2>1. SharedTyped' /\ attempt' = attempt /\ rung' = 1
    BY <1>2 DEF Flag, SharedTyped, Typed
  <2> QED BY <1>2, <2>1, WorkerGoes DEF Flag
<1>3. CASE Spawn
  <2>1. SharedTyped' /\ attempt' = attempt /\ rung' = rung
    BY <1>3 DEF Spawn, SharedTyped, Typed
  <2> QED BY <1>3, <2>1, WorkerGoes, WorkerCalls DEF Spawn
<1>4. CASE NextRung
  <2>1. SharedTyped' /\ attempt' = attempt /\ rung' = rung + 1 /\ rung \in 1..Rungs
    BY <1>4 DEF NextRung, SharedTyped, Typed
  <2>2. Moves(Worker, "rung", "idle", target[Worker])
    BY <1>4, WorkerThread DEF NextRung, Goto, Moves, Typed, Control
  <2>3. WorkerFlow("rung", "idle", target[Worker]) /\ "idle" \in Labels
    BY DEF WorkerFlow, Labels, ControllerLabels
  <2> QED BY <1>4, <2>1, <2>2, <2>3, WorkerMove, WorkerFlowNow DEF NextRung
<1>5. CASE Watch
  <2>1. SharedTyped' /\ attempt' \in {0, attempt} /\ rung' = rung
    BY <1>5 DEF Watch, SharedTyped, Typed
  <2>2. CASE UNCHANGED control
    BY <1>5, <2>1, <2>2 DEF Watch, control, Typed, Control, Flow, WorkerFlow, ControllerFlow
  <2>3. CASE WorkerGoto("dead") \/ WorkerGoto("lost")
    BY <1>5, <2>1, <2>3, WorkerGoes DEF Watch
  <2> QED BY <1>5, <2>2, <2>3 DEF Watch
<1> QED BY <1>1, <1>2, <1>3, <1>4, <1>5

\* The routines the worker shares with the controllers.
LEMMA WorkerSharedTyped ==
    ASSUME Typed, Shared(Worker)
    PROVE  Typed'
<1> USE WorkerHere, NumbersAssumed, WorkerThread, WorkerFlowNow
<1> USE DEF manager, tunnel, local, AfterRaise, WorkerFlow, Counters, MayGoOn, OnLadder
<1>1. "idle" \in Labels /\ "disconnected" \in States
  BY DEF Labels, ControllerLabels, States
<1>2. CASE Guard(Worker)
  <2>1. SharedTyped' /\ attempt' = attempt /\ rung' = rung
    BY <1>2 DEF Guard, SharedTyped, Typed
  <2>2. Moves(Worker, then[Worker], "idle", "disconnected")
    BY <1>2 DEF Guard, Return, Goto, Moves, Typed, Control
  <2>3. then[Worker] \in {"dial", "dead", "watch", "teardown"}
    BY <1>2 DEF Guard, WorkerStates
  <2>4. WorkerFlow(then[Worker], "idle", "disconnected")
    BY <2>3 DEF WorkerLabels
  <2>5. Counters(then[Worker], "idle", attempt, rung)
    BY <1>2, <2>3 DEF Guard
  <2> QED BY <1>1, <2>1, <2>2, <2>4, <2>5, WorkerMove
<1>3. CASE Terminate(Worker)
  <2>1. SharedTyped' /\ attempt' = attempt /\ rung' = rung
    BY <1>3 DEF Terminate, SharedTyped, Typed
  <2>2. PICK l \in {"forget", "next", "down"} :
          /\ l = "next" => then[Worker] = "next"
          /\ l = "down" => then[Worker] # "next"
          /\ Goto(Worker, l) /\ UNCHANGED <<then, target>>
    BY <1>3 DEF Terminate
  <2>3. Moves(Worker, l, then[Worker], target[Worker])
    BY <2>2, GotoMoves DEF Typed
  <2>4. WorkerFlow(l, then[Worker], target[Worker])
    BY <1>3, <2>2 DEF Terminate, WorkerLabels, DisconnectLabels
  <2>5. Counters(l, then[Worker], attempt, rung)
    BY <1>3, <2>2 DEF Terminate
  <2> QED BY <2>1, <2>3, <2>4, <2>5, WorkerMove
<1>4. CASE Forget(Worker)
  <2>1. SharedTyped' /\ attempt' = attempt /\ rung' = rung
    BY <1>4 DEF Forget, SharedTyped, Typed
  <2>2. PICK l \in {"next", "down"} :
          /\ l = "next" => then[Worker] = "next"
          /\ l = "down" => then[Worker] # "next"
          /\ Goto(Worker, l) /\ UNCHANGED <<then, target>>
    BY <1>4 DEF Forget
  <2>3. Moves(Worker, l, then[Worker], target[Worker])
    BY <2>2, GotoMoves DEF Typed
  <2>4. WorkerFlow(l, then[Worker], target[Worker])
    BY <1>4, <2>2 DEF Forget, WorkerLabels, DisconnectLabels
  <2>5. Counters(l, then[Worker], attempt, rung)
    BY <1>4, <2>2 DEF Forget
  <2> QED BY <2>1, <2>3, <2>4, <2>5, WorkerMove
<1>5. CASE Down(Worker) \/ Unflag(Worker)
  <2>1. SharedTyped' /\ attempt' = attempt /\ rung' = rung
    BY <1>5 DEF Down, Unflag, SharedTyped, Typed
  <2>2. then[Worker] \in AfterRaise /\ MayGoOn("retry", "idle", attempt)
    BY <1>5 DEF Down, Unflag
  <2>3. CASE Return(Worker) /\ UNCHANGED target
    <3>1. Moves(Worker, then[Worker], "idle", target[Worker])
      BY <2>3, ReturnMoves DEF Typed
    <3>2. WorkerFlow(then[Worker], "idle", target[Worker])
      BY <2>2 DEF WorkerLabels
    <3>3. Counters(then[Worker], "idle", attempt, rung)
      BY <2>2
    <3> QED BY <1>1, <2>1, <3>1, <3>2, <3>3, WorkerMove
  <2>4. CASE Goto(Worker, "unflag") /\ UNCHANGED <<then, target>>
    <3>1. Moves(Worker, "unflag", then[Worker], target[Worker])
      BY <2>4, GotoMoves DEF Typed
    <3>2. WorkerFlow("unflag", then[Worker], target[Worker])
      BY <2>2 DEF DisconnectLabels
    <3>3. Counters("unflag", then[Worker], attempt, rung)
      BY <2>2
    <3> QED BY <2>1, <3>1, <3>2, <3>3, WorkerMove
  <2> QED BY <1>5, <2>3, <2>4 DEF Down, Unflag
<1> QED BY <1>2, <1>3, <1>4, <1>5 DEF Shared

-----------------------------------------------------------------------------
(* The controllers' steps.                                                 *)

LEMMA ControllerSharedTyped ==
    ASSUME Typed, NEW c \in Controllers, Shared(c)
    PROVE  Typed'
<1> USE WorkerHere, ControllerThread, ControllerFlowNow
<1> USE DEF manager, tunnel, local, ControllerFlow
<1>1. "idle" \in Labels /\ "disconnected" \in States
  BY DEF Labels, ControllerLabels, States
<1>2. SharedTyped' /\ UNCHANGED local
  <2>1. CASE Guard(c)  BY <2>1 DEF Guard, SharedTyped
  <2>2. CASE Terminate(c)  BY <2>2 DEF Terminate, SharedTyped
  <2>3. CASE Forget(c)  BY <2>3 DEF Forget, SharedTyped
  <2>4. CASE Down(c)  BY <2>4 DEF Down, SharedTyped
  <2>5. CASE Unflag(c)  BY <2>5 DEF Unflag, SharedTyped
  <2> QED BY <2>1, <2>2, <2>3, <2>4, <2>5 DEF Shared
<1>3. CASE Guard(c)
  <2>1. Moves(c, then[c], "idle", "disconnected")
    BY <1>3 DEF Guard, Return, Goto, Moves, Typed, Control
  <2>2. ControllerFlow(then[c], "idle", "disconnected")
    BY <1>3 DEF Guard, ControllerLabels, DisconnectLabels
  <2> QED BY <1>1, <1>2, <2>1, <2>2, ControllerMove
<1>4. CASE Terminate(c) \/ Forget(c) \/ (Down(c) /\ wg)
  <2>1. PICK l \in {"forget", "down", "unflag"} : Goto(c, l) /\ UNCHANGED <<then, target>>
    BY <1>4 DEF Terminate, Forget, Down, DisconnectLabels
  <2>2. Moves(c, l, then[c], target[c])
    BY <2>1, GotoMoves DEF Typed
  <2>3. ControllerFlow(l, then[c], target[c])
    BY <1>4 DEF Terminate, Forget, Down, DisconnectLabels
  <2> QED BY <1>2, <2>2, <2>3, ControllerMove
<1>5. CASE (Down(c) /\ ~wg) \/ Unflag(c)
  <2>1. Moves(c, then[c], "idle", target[c])
    BY <1>5, ReturnMoves DEF Down, Unflag, Typed
  <2>2. ControllerFlow(then[c], "idle", target[c])
    BY <1>5 DEF Down, Unflag, ControllerLabels, DisconnectLabels
  <2> QED BY <1>1, <1>2, <2>1, <2>2, ControllerMove
<1> QED BY <1>3, <1>4, <1>5 DEF Shared

LEMMA RequestTyped ==
    ASSUME Typed, NEW c \in Controllers, NEW op \in Ops, Request(c, op)
    PROVE  Typed'
<1> USE WorkerHere, ControllerThread, ControllerFlowNow
<1> USE DEF manager, tunnel, local, ControllerFlow
<1>1. SharedTyped' /\ UNCHANGED local
  <2>1. calls' \in 0..MaxCalls
    BY TunnelAssumption DEF Request, SharedTyped
  <2> QED BY <2>1 DEF Request, SharedTyped
<1>2. CASE Goto(c, "start") /\ UNCHANGED <<then, target>>
  <2>1. Moves(c, "start", then[c], target[c])
    BY <1>2, GotoMoves DEF Typed
  <2>2. ControllerFlow("start", then[c], target[c])
    BY DEF ControllerLabels, DisconnectLabels
  <2> QED BY <1>1, <2>1, <2>2, ControllerMove
<1>3. ASSUME NEW n \in {"settle", "resettle"}, Call(c, "halt", n), UNCHANGED target
      PROVE  Typed'
  <2>1. Moves(c, "halt", n, target[c])
    BY <1>3, CallMoves DEF Typed
  <2>2. ControllerFlow("halt", n, target[c]) /\ n \in Labels
    BY DEF ControllerLabels, DisconnectLabels, Labels
  <2> QED BY <1>1, <2>1, <2>2, ControllerMove
<1> QED BY <1>2, <1>3 DEF Request

LEMMA StopTyped ==
    ASSUME Typed, NEW c \in Controllers, Halt(c) \/ Cancel(c) \/ Join(c) \/ Start(c)
    PROVE  Typed'
<1> USE WorkerHere, ControllerThread, ControllerFlowNow
<1> USE DEF manager, tunnel, local, ControllerFlow, ControllerLabels, DisconnectLabels
<1>1. SharedTyped' /\ UNCHANGED local
  BY DEF Halt, Cancel, Join, Start, SharedTyped
<1>2. PICK l \in {"cancel", "join", "terminate", "launch", "idle"} :
        /\ Goto(c, l) /\ UNCHANGED <<then, target>>
        /\ l \in {"cancel", "join", "terminate"} => then[c] \in {"settle", "resettle"}
  BY DEF Halt, Cancel, Join, Start
<1>3. Moves(c, l, then[c], target[c])
  BY <1>2, GotoMoves DEF Typed
<1>4. ControllerFlow(l, then[c], target[c])
  BY <1>2
<1> QED BY <1>1, <1>3, <1>4, ControllerMove

LEMMA SettleTyped ==
    ASSUME Typed, NEW c \in Controllers, Settle(c)
    PROVE  Typed'
<1> USE WorkerHere, ControllerThread, ControllerFlowNow
<1> USE DEF manager, tunnel, local, ControllerFlow, ControllerLabels, DisconnectLabels
<1>1. PICK n \in {"idle", "start"} : SetState(c, "disconnected", n)
  BY DEF Settle
<1>2. "disconnected" \in States /\ n \in Labels
  BY DEF States, Labels
<1>3. SharedTyped' /\ UNCHANGED local
  BY <1>1, <1>2, SetStateMoves DEF Settle, SharedTyped, Typed
<1>4. CASE Moves(c, n, then[c], target[c])
  BY <1>3, <1>4, ControllerMove
<1>5. CASE Moves(c, "guard", n, "disconnected")
  BY <1>2, <1>3, <1>5, ControllerMove
<1> QED BY <1>1, <1>2, <1>4, <1>5, SetStateMoves DEF Typed

\* The one step that moves several threads.
LEMMA LaunchTyped ==
    ASSUME Typed, NEW c \in Controllers, Launch(c)
    PROVE  Typed'
<1> USE WorkerHere, ControllerThread, WorkerThread
<1>1. SharedTyped' /\ UNCHANGED <<then, target, local>>
  BY DEF Launch, SharedTyped, tunnel
<1>2. /\ pc' \in [Threads -> Labels]
      /\ pc'[Worker] = "boot"
      /\ \A t \in Threads \ {Worker} :
            \/ pc'[t] = pc[t] \/ pc'[t] = "idle"
            \/ pc[t] = "join" /\ pc'[t] = "terminate"
  BY DEF Launch, Typed, Control, Labels, WorkerLabels, ControllerLabels, DisconnectLabels
<1>3. ASSUME NEW t \in Threads PROVE Flow(t, pc'[t], then'[t], target'[t])
  <2>1. CASE t = Worker
    BY <2>1, <1>2 DEF Flow, WorkerFlow, WorkerLabels
  <2>2. CASE t # Worker
    <3>1. ControllerFlow(pc[t], then[t], target[t])
      BY <2>2 DEF Typed, Control, Flow
    <3> QED BY <1>1, <1>2, <2>2, <3>1
            DEF Flow, ControllerFlow, ControllerLabels, DisconnectLabels
  <2> QED BY <2>1, <2>2
<1>4. Control'
  BY <1>1, <1>2, <1>3 DEF Control, Typed
<1>5. Counters(pc[Worker], then[Worker], attempt, rung)'
  BY <1>1, <1>2 DEF Counters, MayGoOn, OnLadder, local
<1> QED BY <1>1, <1>4, <1>5 DEF Typed

-----------------------------------------------------------------------------

LEMMA NextTyped == Typed /\ [Next]_vars => Typed'
<1> SUFFICES ASSUME Typed, [Next]_vars PROVE Typed'  OBVIOUS
<1>1. CASE WorkerStep
  BY <1>1, DialStepsTyped, StateStepsTyped, LadderStepsTyped, WorkerSharedTyped DEF WorkerStep
<1>2. ASSUME NEW c \in Controllers, ControllerStep(c) \/ \E op \in Ops : Request(c, op)
      PROVE  Typed'
  BY <1>2, ControllerSharedTyped, RequestTyped, StopTyped, SettleTyped, LaunchTyped
  DEF ControllerStep
<1>3. CASE TransportDies \/ InterfaceVanishes \/ UNCHANGED vars
  <2>1. SharedTyped' /\ UNCHANGED <<control, local>>
    BY <1>3 DEF TransportDies, InterfaceVanishes, vars, manager, tunnel, SharedTyped, Typed
  <2> QED BY <2>1, QuietMove
<1> QED BY <1>1, <1>2, <1>3 DEF Next

\* Every variable keeps to its values: a thread is always at one of its labels,
\* the worker's failures never pass max_attempts, and it is never at a rung
\* past the end of the ladder.
THEOREM TypeCorrect == Spec => []TypeOK
<1>1. Typed => TypeOK  BY TypedTypeOK
<1> QED BY <1>1, InitTyped, NextTyped, PTL DEF Spec

THEOREM TypedAlways == Spec => []Typed
BY InitTyped, NextTyped, PTL DEF Spec
=============================================================================
