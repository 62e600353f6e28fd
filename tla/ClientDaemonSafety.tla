------------------------ MODULE ClientDaemonSafety ------------------------
(***************************************************************************)
(* Theorems about the background service: what it leaves when it is        *)
(* stopped, and that a killed service leaves the network closed.           *)
(*                                                                         *)
(* The service drives a TunnelManager, so that the invariants of that      *)
(* module carry over: Safe over every restart and kill, since it speaks of *)
(* a session and a new process has none; TidyFor of what the service       *)
(* answers for, since a kill takes away the handles that the interface and *)
(* the rules hang on, and a command that fails leaves them behind.         *)
(***************************************************************************)
EXTENDS ClientDaemon, TunnelManagerSafety

\* The memory of a process that does not run, beside what outlives one.
Unborn ==
    /\ state = "disconnected" /\ halted = FALSE /\ cancel = FALSE
    /\ proc = "none" /\ strays = 0 /\ wg = FALSE
    /\ pc = [t \in Threads |-> IF t = Worker THEN "dead" ELSE "idle"]
    /\ then = [t \in Threads |-> "idle"]
    /\ target = [t \in Threads |-> "disconnected"]
    /\ attempt = 0 /\ rung = 1 /\ session = FALSE

\* What the service answers for, and what is left in the system of x.
Owned == {"interface", "rules"} \ orphans
Cleared(x) == ("rules" \in x => ~ks) /\ ("interface" \in x => iface = "down")

Outlives == iface \in {"up", "down", "gone"} /\ ks \in BOOLEAN /\ calls \in 0..MaxCalls

\* A worker that sets a state is about to reconcile the kill switch with it,
\* and there is something to reconcile only where the switch is on.
Aimed ==
    /\ pc[Worker] = "guard" /\ ~halted => state = target[Worker]
    /\ ks \/ (\E t \in Threads : pc[t] = "guard") => KillSwitch

\* The service, over kills, ...
Guarded == Safe /\ Aimed /\ kills \in Nat /\ (unit # "active" => Unborn)

\* ... and what there is to tell of a service that has stopped.
Answered == TidyFor(Owned) /\ (unit # "active" => Cleared(Owned))

-----------------------------------------------------------------------------
(* One thread calls the manager.                                           *)
LEMMA MainAlone ==
    /\ Alone /\ Main \in Controllers /\ Main \in Threads /\ Main # Worker /\ Worker \in Threads
    /\ Threads = {Main, Worker} /\ Controllers = {Main}
  BY DaemonAssumption, TunnelAssumption DEF Alone, Threads

(* A process that has not begun keeps the invariants of the manager, over  *)
(* whatever its predecessor has left.                                      *)
LEMMA UnbornSafe == Unborn /\ Outlives => Safe
<1> SUFFICES ASSUME Unborn, Outlives PROVE Safe OBVIOUS
<1> USE MainAlone
<1>1. pc[Worker] = "dead" /\ \A c \in Controllers : pc[c] = "idle" BY DEF Unborn
<1>2. Typed
  <2>1. /\ pc \in [Threads -> Labels] /\ then \in [Threads -> Labels]
        /\ target \in [Threads -> States]
    BY DEF Unborn, Labels, WorkerLabels, ControllerLabels, States
  <2>2. \A t \in Threads : Flow(t, pc[t], then[t], target[t])
    BY <1>1 DEF Unborn, Flow, WorkerFlow, ControllerFlow, WorkerLabels, ControllerLabels,
       DisconnectLabels
  <2>3. SharedTyped BY DEF Unborn, Outlives, SharedTyped, States
  <2>4. Counters(pc[Worker], then[Worker], attempt, rung)
    BY <1>1, TunnelAssumption DEF Unborn, Counters, MayGoOn, OnLadder
  <2> QED BY <2>1, <2>2, <2>3, <2>4 DEF Typed, Control
<1> QED BY <1>1, <1>2 DEF Unborn, Safe, Calm, Launching, Wanted, Fresh, Cover, At

LEMMA UnbornTidy ==
    ASSUME NEW x, Unborn, Cleared(x), ks => KillSwitch
    PROVE  TidyFor(x)
<1>1. pc[Worker] = "dead" /\ \A t \in Threads : pc[t] \in {"dead", "idle"} /\ ~halted
  BY MainAlone DEF Unborn
<1>2. \A c \in Controllers : pc[c] = "idle" BY MainAlone DEF Unborn
<1>3. Rules(x)
  BY <1>1 DEF Unborn, Cleared, Rules
<1> QED BY <1>1, <1>2, <1>3 DEF Unborn, Cleared, TidyFor, Processes, Interfaces, Stopping, Stopped,
           At, Joined, Emptied, Unwired, DisconnectLabels

LEMMA DaemonAtStart == DaemonInit => Guarded /\ Answered
<1> SUFFICES ASSUME DaemonInit PROVE Guarded /\ Answered OBVIOUS
<1>1. Unborn /\ ~ks /\ Cleared(Owned) BY DEF DaemonInit, Init, Unborn, Cleared
<1>2. Outlives
  <2>1. calls \in 0..MaxCalls BY TunnelAssumption DEF DaemonInit, Init
  <2>2. iface \in {"up", "down", "gone"} /\ ks = FALSE BY DEF DaemonInit, Init
  <2> QED BY <2>1, <2>2 DEF Outlives
<1>3. Aimed BY <1>1, MainAlone DEF Aimed, Unborn
<1> QED BY <1>1, <1>2, <1>3, UnbornSafe, UnbornTidy DEF DaemonInit, Guarded, Answered

-----------------------------------------------------------------------------
(* The manager's own steps.                                                *)

\* What the kill switch is about to do, and that it opens the network only for
\* a tunnel that is up or a stop.
Shut == ks /\ ~ks' => state = "connected" \/ halted

(* A step of the worker that sets no state and reconciles nothing.         *)
LEMMA AimsAside ==
    ASSUME Safe, Aimed, WorkerStep, pc'[Worker] # "guard", ks' = ks
    PROVE  Aimed' /\ Shut
<1>1. \A c \in Controllers : pc'[c] = pc[c] BY WorkerAlone DEF Safe
<1> QED BY <1>1, MainAlone DEF Aimed, Shut

LEMMA WorkerAims ==
    ASSUME Safe, Aimed, WorkerStep
    PROVE  Aimed' /\ Shut
<1>1. /\ Typed /\ pc \in [Threads -> Labels] /\ then \in [Threads -> Labels] /\ Worker \in Threads
      /\ target \in [Threads -> States] /\ WorkerFlow(pc[Worker], then[Worker], target[Worker])
      /\ halted' = halted /\ \A c \in Controllers : pc'[c] = pc[c]
  BY WorkerThread, WorkerFlowNow, WorkerAlone DEF Safe, Typed, Control
<1> USE <1>1 DEF At
<1>2. CASE Loop \/ Dial \/ Install \/ Flag \/ Rung \/ Pin \/ Check \/ Spawn \/ Await \/ Hear
             \/ NextRung \/ Teardown \/ Failed \/ Watch \/ Lost \/ Backoff
  <2> USE AimsAside DEF WorkerGoto, Raise, RungFails, Call, Goto, control
  <2>1. CASE Loop \/ Dial \/ Install \/ Flag BY <2>1 DEF Loop, Dial, Install, Flag
  <2>2. CASE Rung \/ Pin \/ Check BY <2>2 DEF Rung, Pin, Check
  <2>3. CASE Spawn \/ Await \/ Hear BY <2>3 DEF Spawn, Await, Hear
  <2>4. CASE NextRung \/ Teardown \/ Failed BY <2>4 DEF NextRung, Teardown, Failed
  <2>5. CASE Watch \/ Lost \/ Backoff BY <2>5 DEF Watch, Lost, Backoff
  <2> QED BY <1>2, <2>1, <2>2, <2>3, <2>4, <2>5
<1>3. CASE Terminate(Worker) \/ Forget(Worker) \/ Down(Worker) \/ Unflag(Worker)
  <2> USE AimsAside DEF Return, Goto, WorkerFlow, AfterRaise
  <2>1. CASE Terminate(Worker) BY <2>1 DEF Terminate
  <2>2. CASE Forget(Worker) BY <2>2 DEF Forget
  <2>3. CASE Down(Worker) BY <2>3 DEF Down
  <2>4. CASE Unflag(Worker) BY <2>4 DEF Unflag
  <2> QED BY <1>3, <2>1, <2>2, <2>3, <2>4
<1>4. CASE Boot \/ Enter \/ Won \/ Drop \/ Retry \/ Count \/ Unavailable
  <2>1. \/ \E l \in {"loop", "count", "backoff"} : WorkerGoto(l) /\ ks' = ks
        \/ \E s \in States, n \in {"dial", "watch", "teardown", "dead"} :
              SetState(Worker, s, n) /\ ks' = ks
    BY <1>4 DEF Boot, Enter, Won, Drop, Retry, Count, Unavailable, States
  <2>2. CASE \E l \in {"loop", "count", "backoff"} : WorkerGoto(l) /\ ks' = ks
    BY <2>2, AimsAside DEF WorkerGoto, Goto
  <2>3. ASSUME NEW s \in States, NEW n \in {"dial", "watch", "teardown", "dead"},
               SetState(Worker, s, n), ks' = ks
        PROVE  Aimed' /\ Shut
    <3>1. CASE s = state \/ ~KillSwitch
      BY <2>3, <3>1, AimsAside DEF SetState, Goto
    <3>2. CASE s # state /\ KillSwitch
      <4>1. state' = s /\ target'[Worker] = s
        BY <2>3, <3>2 DEF SetState, Call, Goto
      <4> QED BY <2>3, <3>2, <4>1 DEF Aimed, Shut
    <3> QED BY <3>1, <3>2
  <2> QED BY <2>1, <2>2, <2>3
<1>5. CASE Guard(Worker)
  <2>1. pc[Worker] = "guard" /\ pc'[Worker] # "guard" /\ state' = state
    BY <1>5 DEF Guard, Return, Goto, WorkerFlow, WorkerStates, manager
  <2>2. KillSwitch BY <2>1 DEF Aimed
  <2>3. Shut
    BY <1>5, <2>1 DEF Guard, Aimed, Shut, WorkerFlow, WorkerStates, Engages, Releases
  <2> QED BY <2>1, <2>2, <2>3 DEF Aimed
<1> QED BY <1>2, <1>3, <1>4, <1>5 DEF WorkerStep, Shared

LEMMA MainAims ==
    ASSUME Safe, Aimed, ControllerStep(Main)
    PROVE  Aimed' /\ Shut
<1>1. /\ pc \in [Threads -> Labels] /\ then \in [Threads -> Labels]
      /\ target \in [Threads -> States] /\ ControllerFlow(pc[Main], then[Main], target[Main])
  BY MainAlone, ControllerFlowNow DEF Safe, Typed, Control
<1> USE <1>1, MainAlone DEF Goto, At
(* Outside of set_state: no thread begins to reconcile.                    *)
<1>2. ASSUME pc'[Main] # "guard", pc'[Worker] = pc[Worker] \/ pc'[Worker] = "boot",
             target' = target, state' = state, ks' = ks,
             halted' = halted \/ halted' = TRUE \/ pc[Worker] = "dead"
      PROVE  Aimed' /\ Shut
  BY <1>2 DEF Aimed, Shut
<1>3. CASE Start(Main) BY <1>2, <1>3 DEF Start
<1>4. CASE Launch(Main) BY <1>2, <1>4 DEF Launch
<1>5. CASE Halt(Main) \/ Cancel(Main) \/ Join(Main)
  BY <1>2, <1>5 DEF Halt, Cancel, Join, manager
<1>6. CASE Terminate(Main) \/ Forget(Main) \/ Down(Main) \/ Unflag(Main)
  <2>1. CASE Terminate(Main) BY <1>2, <2>1 DEF Terminate, manager
  <2>2. CASE Forget(Main) BY <1>2, <2>2 DEF Forget, manager
  <2>3. CASE Down(Main) BY <1>2, <2>3 DEF Down, Return, manager, ControllerFlow, DisconnectLabels
  <2>4. CASE Unflag(Main) BY <1>2, <2>4 DEF Unflag, Return, manager, ControllerFlow, DisconnectLabels
  <2> QED BY <1>6, <2>1, <2>2, <2>3, <2>4
(* The end of stop().                                                      *)
<1>7. CASE Settle(Main)
  <2>1. halted /\ halted' = halted /\ ks' = ks /\ pc'[Worker] = pc[Worker]
    BY <1>7 DEF Settle, SetState, Call, Safe, Calm
  <2>2. pc'[Main] = "guard" => KillSwitch BY <1>7 DEF Settle, SetState
  <2> QED BY <2>1, <2>2 DEF Aimed, Shut
<1>8. CASE Guard(Main)
  <2>1. halted /\ KillSwitch /\ halted' = halted /\ pc'[Worker] = pc[Worker]
    BY <1>8 DEF Guard, Return, manager, Safe, Calm, Aimed
  <2> QED BY <2>1 DEF Aimed, Shut
<1> QED BY <1>3, <1>4, <1>5, <1>6, <1>7, <1>8 DEF ControllerStep, Shared

-----------------------------------------------------------------------------
(* The steps of the service.                                               *)

LEMMA UnbornAgain == (Unborn /\ Outlives => Safe)'
BY UnbornSafe, PTL

(* The same of what it has done in a step.                                 *)
LEMMA UnbornTidyAgain ==
    ASSUME NEW x, Unborn', Cleared(x)', (ks => KillSwitch)'
    PROVE  TidyFor(x)'
<1>1. pc'[Worker] = "dead" /\ \A t \in Threads : pc'[t] \in {"dead", "idle"} /\ ~halted'
  BY MainAlone DEF Unborn
<1>2. \A c \in Controllers : pc'[c] = "idle" BY MainAlone DEF Unborn
<1>3. Rules(x)'
  BY <1>1 DEF Unborn, Cleared, Rules
<1> QED BY <1>1, <1>2, <1>3 DEF Unborn, Cleared, TidyFor, Processes, Interfaces, Stopping, Stopped,
           At, Joined, Emptied, Unwired, DisconnectLabels

LEMMA OwnedThen == ASSUME NEW y, y = Owned', TidyFor(y)' PROVE TidyFor(Owned)'
BY DEF TidyFor, Interfaces, Rules, Stopped, AtRest

LEMMA UnbornThen ==
    ASSUME Unborn', Cleared(Owned)', (ks => KillSwitch)'
    PROVE  TidyFor(Owned)'
<1>1. PICK y : y = Owned' OBVIOUS
<1>2. Cleared(y)' BY <1>1 DEF Cleared
<1> QED BY <1>1, <1>2, UnbornTidyAgain, OwnedThen


(* Where there is no process, nothing of the manager moves.                *)
LEMMA UnbornStill ==
    ASSUME Unborn
    PROVE  ~WorkerStep /\ ~ControllerStep(Main) /\ ~TransportDies /\ ~InterfaceVanishes
<1>1. pc[Worker] = "dead" /\ pc[Main] = "idle" /\ proc = "none" BY MainAlone DEF Unborn
<1>2. ~WorkerStep
  BY <1>1 DEF WorkerStep, Boot, Loop, Enter, Dial, Install, Flag, Rung, Pin, Check, Spawn, Await,
     Hear, NextRung, Won, Watch, Lost, Drop, Teardown, Retry, Failed, Count, Backoff, Unavailable,
     Shared, Guard, Terminate, Forget, Down, Unflag, At
<1>3. ~ControllerStep(Main)
  BY <1>1 DEF ControllerStep, Start, Launch, Halt, Cancel, Join, Settle, Shared, Guard, Terminate,
     Forget, Down, Unflag
<1> QED BY <1>1, <1>2, <1>3 DEF TransportDies, InterfaceVanishes, At

(* Main leaves its loop: the call of stop() like any other.                *)
LEMMA LeavingSafe ==
    ASSUME Safe, Aimed, Looping, LeaveLoop, UNCHANGED <<manager, tunnel, ks, local, session, calls>>
    PROVE  Safe' /\ Aimed' /\ Shut
<1> USE MainAlone DEF manager, tunnel, local, Looping, Goto, Call, At
<1>1. /\ pc \in [Threads -> Labels] /\ then \in [Threads -> Labels] /\ Typed
      /\ target \in [Threads -> States]
  BY DEF Safe, Typed, Control
<1>2. Typed'
  <2>1. SharedTyped' BY <1>1 DEF Typed, SharedTyped
  <2>2. Moves(Main, "halt", "settle", target[Main])
    BY <1>1, CallMoves DEF Typed, LeaveLoop
  <2>3. ControllerFlow("halt", "settle", target[Main]) /\ "settle" \in Labels /\ target[Main] \in States
    BY <1>1, ControllerFlowNow DEF ControllerFlow, ControllerLabels, DisconnectLabels, Labels
  <2> QED BY <1>1, <2>1, <2>2, <2>3, ControllerMove
<1>3. /\ pc'[Worker] = pc[Worker] /\ then'[Worker] = then[Worker] /\ pc'[Main] = "halt"
      /\ target' = target
  BY <1>1 DEF LeaveLoop
<1>4. Calm' /\ Launching' BY <1>3 DEF Safe, Calm, Launching
<1>5. Wanted' /\ Fresh' BY <1>3 DEF Safe, Wanted, Fresh
<1>6. Cover' BY <1>3 DEF Safe, Cover, Covered
<1>7. Aimed' /\ Shut BY <1>3 DEF Aimed, Shut
<1> QED BY <1>2, <1>4, <1>5, <1>6, <1>7 DEF Safe

LEMMA LeavingTidy ==
    ASSUME NEW x, ~SlowWorker, Safe, TidyFor(x), Looping, LeaveLoop, UNCHANGED <<manager, tunnel, ks>>
    PROVE  TidyFor(x)'
<1> USE MainAlone DEF manager, tunnel, Looping
<1>1. Moved(Main, "halt") /\ pc'[Worker] = pc[Worker]
  BY ControllerMoves DEF Orderly, LeaveLoop, Call
<1>2. pc[Main] = "idle" /\ pc'[Main] = "halt" /\ ~halted BY <1>1 DEF Moved
<1>3. Processes' BY <1>1, <1>2 DEF TidyFor, Processes, At, Closing, Asking, Moved
<1>4. Interfaces(x)' BY <1>1, <1>2 DEF TidyFor, Interfaces, At
<1>5. Rules(x)' BY <1>1, <1>2 DEF TidyFor, Rules, Releasing
<1>6. Stopping' BY <1>2 DEF Stopping, Joined, Emptied, Unwired, DisconnectLabels
<1>7. Stopped(x)' BY <1>2 DEF Stopped
<1> QED BY <1>3, <1>4, <1>5, <1>6, <1>7 DEF TidyFor

(* A process starts from what its predecessor has left.                    *)
LEMMA StartupSafe ==
    ASSUME Unborn, Outlives, Aimed, Startup
    PROVE  Safe' /\ Aimed' /\ Shut
<1> USE MainAlone DEF manager, tunnel, local
<1>1. /\ pc' = [t \in Threads |-> IF t = Main THEN "start" ELSE "dead"]
      /\ then' = then /\ target' = target /\ halted' = FALSE /\ session' = FALSE
      /\ pc'[Worker] = "dead" /\ pc'[Main] = "start"
  BY DEF Startup, Unborn
<1>2. Typed'
  <2>1. /\ pc' \in [Threads -> Labels] /\ then' \in [Threads -> Labels]
        /\ target' \in [Threads -> States]
    BY <1>1 DEF Unborn, Labels, WorkerLabels, ControllerLabels, States
  <2>2. \A t \in Threads : Flow(t, pc'[t], then'[t], target'[t])
    BY <1>1 DEF Unborn, Flow, WorkerFlow, ControllerFlow, WorkerLabels, ControllerLabels,
       DisconnectLabels
  <2>3. SharedTyped'
    <3>1. ks' \in BOOLEAN BY DEF Startup, Outlives
    <3> QED BY <3>1 DEF Unborn, Outlives, SharedTyped, States, Startup
  <2>4. Counters(pc'[Worker], then'[Worker], attempt', rung')
    BY <1>1, TunnelAssumption DEF Unborn, Startup, Counters, MayGoOn, OnLadder
  <2> QED BY <2>1, <2>2, <2>3, <2>4 DEF Typed, Control
<1>3. Aimed' /\ Shut
  <2>1. ks' => KillSwitch BY DEF Startup
  <2>2. ks => ks' BY DEF Startup, Aimed
  <2> QED BY <1>1, <2>1, <2>2 DEF Aimed, Shut
<1> QED BY <1>1, <1>2, <1>3 DEF Safe, Calm, Launching, Wanted, Fresh, Cover, At

LEMMA StartupTidy ==
    ASSUME NEW x, Unborn, Cleared(x), Aimed, Startup
    PROVE  TidyFor(x)'
<1>1. /\ pc'[Worker] = "dead" /\ pc'[Main] = "start" /\ ~halted'
      /\ (ks' => KillSwitch) /\ ("rules" \in x => ~ks')
      /\ iface' = iface /\ proc' = "none" /\ strays' = 0
  BY MainAlone DEF Unborn, Cleared, Startup, manager, tunnel, Aimed
<1>2. Rules(x)' BY <1>1 DEF Rules
<1> QED BY <1>1, <1>2, MainAlone DEF Cleared, TidyFor, Processes, Interfaces, Stopping, Stopped, At,
           Joined, Emptied, Unwired, DisconnectLabels

(* A process that is gone takes its memory with it.                        *)
LEMMA MemoryGone ==
    ASSUME Safe, Aimed, FreshMemory, UNCHANGED <<iface, ks, calls>>,
           pc' = [t \in Threads |-> IF t = Worker THEN "dead" ELSE "idle"]
    PROVE  Unborn' /\ Safe' /\ Aimed' /\ Shut
<1>1. Unborn' BY DEF Unborn, FreshMemory
<1>2. Outlives' BY DEF Outlives, Safe, Typed, SharedTyped
<1>3. Aimed' /\ Shut BY MainAlone DEF Aimed, Shut
<1> QED BY <1>1, <1>2, <1>3, UnbornAgain

(* Every step of the service.                                              *)
LEMMA DaemonGuarded == Guarded /\ [DaemonNext]_dvars => Guarded' /\ Shut
<1> SUFFICES ASSUME Guarded, [DaemonNext]_dvars PROVE Guarded' /\ Shut OBVIOUS
<1> USE MainAlone
<1>1. Safe /\ Aimed /\ kills \in Nat /\ (unit # "active" => Unborn) BY DEF Guarded
<1>2. CASE Startup
  <2>1. Unborn BY <1>1, <1>2 DEF Startup
  <2>2. Outlives BY <1>1 DEF Outlives, Safe, Typed, SharedTyped
  <2>3. unit' = "active" /\ kills' = kills BY <1>2 DEF Startup
  <2> QED BY <1>1, <1>2, <2>1, <2>2, <2>3, StartupSafe DEF Guarded
<1>3. CASE GaveUp \/ Terminated
  <2>1. /\ Looping /\ LeaveLoop /\ UNCHANGED <<manager, tunnel, ks, local, session, calls>>
        /\ unit' = unit /\ kills' = kills
    BY <1>3 DEF GaveUp, Terminated, service
  <2> QED BY <1>1, <2>1, LeavingSafe DEF Guarded, Looping
<1>4. CASE Exit
  <2>1. kills' = kills BY <1>4 DEF Exit
  <2> QED BY <1>1, <1>4, <2>1, MemoryGone DEF Guarded, Exit
<1>5. CASE Killed
  <2>1. kills' \in Nat BY <1>1, <1>5 DEF Killed
  <2> QED BY <1>1, <1>5, <2>1, MemoryGone DEF Guarded, Killed
<1>6. CASE ManagerStep
  <2>1. unit = "active" /\ unit' = unit /\ kills' = kills /\ (WorkerStep \/ ControllerStep(Main))
    BY <1>1, <1>6, UnbornStill DEF ManagerStep, Beside
  <2>2. Safe' BY <1>1, <2>1, NextSafe DEF Next
  <2>3. Aimed' /\ Shut BY <1>1, <2>1, WorkerAims, MainAims
  <2> QED BY <1>1, <2>1, <2>2, <2>3 DEF Guarded
<1>7. CASE Surroundings
  <2>1. unit = "active" /\ unit' = unit /\ kills' = kills /\ (TransportDies \/ InterfaceVanishes)
    BY <1>1, <1>7, UnbornStill DEF Surroundings, service
  <2>2. Safe' BY <1>1, <2>1, NextSafe DEF Next
  <2>3. UNCHANGED <<state, halted, pc, target, ks>>
    BY <2>1 DEF TransportDies, InterfaceVanishes, manager, control
  <2> QED BY <1>1, <2>1, <2>2, <2>3 DEF Guarded, Aimed, Shut
<1>8. CASE StopService \/ UNCHANGED dvars
  <2>1. UNCHANGED vars /\ (unit' = "active" <=> unit = "active") /\ kills' = kills
    BY <1>8 DEF StopService, dvars, service
  <2>2. Safe' BY <1>1, <2>1, NextSafe
  <2>3. Unborn' = Unborn
    BY <2>1 DEF Unborn, vars, manager, tunnel, control, local
  <2>4. Aimed' /\ Shut
    BY <1>1, <2>1 DEF Aimed, Shut, vars, manager, control
  <2> QED BY <1>1, <2>1, <2>2, <2>3, <2>4 DEF Guarded
<1> QED BY <1>2, <1>3, <1>4, <1>5, <1>6, <1>7, <1>8 DEF DaemonNext, MainStep

LEMMA DaemonAnswered ==
    ASSUME ~SlowWorker, Guarded, Answered, [DaemonNext]_dvars
    PROVE  Answered'
<1> USE MainAlone
<1>1. Safe /\ Aimed /\ (unit # "active" => Unborn) /\ Orderly BY DEF Guarded, Orderly
<1>2. TidyFor(Owned) /\ (unit # "active" => Cleared(Owned)) BY DEF Answered
<1>3. (ks' => KillSwitch)
  BY DaemonGuarded DEF Guarded, Aimed
<1>4. CASE Startup
  <2>1. Unborn /\ Cleared(Owned) /\ unit' = "active" /\ Owned' = Owned
    BY <1>1, <1>2, <1>4 DEF Startup, Owned
  <2> QED BY <1>1, <1>4, <2>1, StartupTidy, OwnedThen DEF Answered
<1>5. CASE GaveUp \/ Terminated
  <2>1. /\ Looping /\ LeaveLoop /\ UNCHANGED <<manager, tunnel, ks>>
        /\ unit' = "active" /\ Owned' = Owned
    BY <1>5 DEF GaveUp, Terminated, service, Owned, Looping
  <2> QED BY <1>1, <1>2, <2>1, LeavingTidy, OwnedThen DEF Answered
(* stop() has returned.                                                    *)
<1>6. CASE Exit
  <2>1. AtRest(Owned) BY <1>2, <1>6 DEF TidyFor, Stopped, Exit, Returned
  <2>2. Owned' = Owned BY <1>6 DEF Exit, Owned
  <2>3. Cleared(Owned)' BY <1>6, <2>1, <2>2 DEF Exit, AtRest, Cleared
  <2>4. Unborn' BY <1>1, <1>6, MemoryGone DEF Exit
  <2> QED BY <1>3, <2>3, <2>4, UnbornThen DEF Answered
(* A kill in the middle of anything.                                       *)
<1>7. CASE Killed
  <2>1. Cleared(Owned)' BY <1>7 DEF Killed, Cleared, Owned, InPlace
  <2>2. Unborn' BY <1>1, <1>7, MemoryGone DEF Killed
  <2> QED BY <1>3, <2>1, <2>2, UnbornThen DEF Answered
<1>8. CASE ManagerStep \/ Surroundings
  <2>1. /\ unit = "active" /\ unit' = unit
        /\ WorkerStep \/ ControllerStep(Main) \/ TransportDies \/ InterfaceVanishes
    BY <1>1, <1>8, UnbornStill DEF ManagerStep, Surroundings, service, Beside
  <2>2. PICK y : y = Owned' OBVIOUS
  <2>3. Answers(Owned, y)
    <3>1. CASE ManagerStep
      BY <2>2, <3>1 DEF ManagerStep, Beside, Orphaned, Owned, Answers
    <3>2. CASE Surroundings
      <4>1. pc' = pc /\ Owned' = Owned
        BY <3>2 DEF Surroundings, TransportDies, InterfaceVanishes, control, service, Owned
      <4> QED BY <2>2, <4>1 DEF Answers, RemovalFails, ReleaseFails
    <3> QED BY <1>8, <3>1, <3>2
  <2>4. TidyFor(y)' BY <1>1, <1>2, <2>1, <2>3, NextTidy DEF Next
  <2> QED BY <2>1, <2>2, <2>4, OwnedThen DEF Answered
<1>9. CASE StopService \/ UNCHANGED dvars
  <2>1. /\ UNCHANGED vars /\ (unit' = "active" <=> unit = "active") /\ Owned' = Owned
    BY <1>9 DEF StopService, dvars, service, Owned
  <2>2. Answers(Owned, Owned)
    BY <2>1 DEF Answers, RemovalFails, ReleaseFails, vars, control
  <2>3. TidyFor(Owned)' BY <1>1, <1>2, <2>1, <2>2, NextTidy, OwnedThen
  <2>4. Cleared(Owned)' = Cleared(Owned) BY <2>1 DEF Cleared, vars, tunnel
  <2> QED BY <1>2, <2>1, <2>3, <2>4 DEF Answered
<1> QED BY <1>4, <1>5, <1>6, <1>7, <1>8, <1>9 DEF DaemonNext, MainStep

-----------------------------------------------------------------------------

(* A service that is stopped leaves nothing of itself in the system: no    *)
(* wstunnel when stop() returns, and no interface and no rule but one      *)
(* whose removal was the last to fail, or that a killed process has left   *)
(* and its successor, stopped too soon, has not replaced; wherever the     *)
(* signal meets it, and over every kill and restart (service.py,           *)
(* run_daemon; tunnel.py, stop), provided that its worker ends within the  *)
(* join.                                                                   *)
THEOREM ServiceLeavesNothing ==
    ASSUME ~SlowWorker
    PROVE  DaemonSpec => []StopLeavesNothing
<1>1. DaemonInit => Guarded /\ Answered BY DaemonAtStart
<1>2. Guarded /\ Answered /\ [DaemonNext]_dvars => (Guarded /\ Answered)'
  BY DaemonGuarded, DaemonAnswered
<1>3. Guarded /\ Answered => StopLeavesNothing
  <2> SUFFICES ASSUME Guarded, Answered PROVE StopLeavesNothing OBVIOUS
  <2>1. Returned => AtRest(Owned) /\ strays = 0
    BY MainAlone DEF Answered, TidyFor, Stopped, Processes, Returned
  <2>2. unit # "active" => Cleared(Owned) BY DEF Answered
  <2> QED BY <2>1, <2>2 DEF StopLeavesNothing, AtRest, Cleared, Owned
<1> QED BY <1>1, <1>2, <1>3, PTL DEF DaemonSpec

(* The rules of the kill switch are taken away for a tunnel that is up or  *)
(* for a stop, and by nothing else: not by a restart of the service, not   *)
(* by a kill, not by the worker that gives up (service.py: the restarting  *)
(* service must not open the network; killswitch.py, reconcile).           *)
THEOREM ServiceKeepsClosed == DaemonSpec => ClosedUntilConnected
<1>1. DaemonInit => Guarded BY DaemonAtStart
<1>2. Guarded /\ [DaemonNext]_dvars => Guarded' /\ Shut BY DaemonGuarded
<1>3. Guarded /\ [DaemonNext]_dvars => [ks /\ ~ks' => state = "connected" \/ halted]_dvars
  BY <1>2 DEF Shut
<1> QED BY <1>1, <1>2, <1>3, PTL DEF DaemonSpec, ClosedUntilConnected
=============================================================================
