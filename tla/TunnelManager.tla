---------------------------- MODULE TunnelManager ----------------------------
(***************************************************************************)
(* The client's tunnel: TunnelManager.start and stop called by the threads *)
(* of a user interface, the worker thread that dials, watches and retries  *)
(* (tunnel.py), the wstunnel process and the WireGuard interface they both *)
(* handle, and the kill switch that follows every change of state          *)
(* (killswitch.py).                                                        *)
(*                                                                         *)
(* Threads meet in the two events of the manager, in the handle to the     *)
(* wstunnel process and in the flag that remembers an installed interface; *)
(* each access to one of these is a step of its own.                       *)
(***************************************************************************)
EXTENDS Naturals

CONSTANTS
    Controllers,  \* threads that call start() and stop()
    Worker,       \* the manager's thread
    Ops,          \* what the controllers call: "start", "stop", "restart"
    Rungs,        \* attemptable rungs of the ladder
    MaxAttempts,  \* reconnect.max_attempts
    KillSwitch,   \* is the kill switch enabled in the settings?
    AutoReconnect, \* the values the auto_reconnect setting takes
    Faults,       \* what may go wrong, besides the network
    SlowWorker,   \* may the worker outlast stop()'s join of ten seconds?
    MaxCalls      \* bound: calls of the controllers

Threads == Controllers \cup {Worker}

ASSUME TunnelAssumption ==
    /\ Worker \notin Controllers
    /\ Ops \subseteq {"start", "stop", "restart"}
    /\ Rungs \in Nat \ {0} /\ MaxAttempts \in Nat \ {0} /\ MaxCalls \in Nat
    /\ KillSwitch \in BOOLEAN /\ SlowWorker \in BOOLEAN
    /\ AutoReconnect \subseteq BOOLEAN /\ AutoReconnect # {}
    /\ Faults \subseteq {"expired", "transport", "preflight", "wg", "blocked",
                         "teardown", "engage", "release", "vanish"}

States == {"disconnected", "connecting", "connected", "reconnecting", "failed"}

DisconnectLabels == {"terminate", "forget", "down", "unflag"}
WorkerLabels ==
    {"dead", "boot", "loop", "enter", "dial", "install", "flag", "rung", "pin", "check",
     "spawn", "await", "hear", "won", "watch", "lost", "drop", "teardown", "retry",
     "failed", "count", "backoff", "unavailable", "next"}
ControllerLabels == {"idle", "halt", "cancel", "join", "settle", "resettle", "start", "launch"}
Labels == WorkerLabels \cup ControllerLabels \cup DisconnectLabels \cup {"guard"}

VARIABLES
    state,    \* TunnelManager._state
    halted,   \* TunnelManager._stop_event
    cancel,   \* Tunnel._cancel
    proc,     \* the process behind Tunnel._proc: "none", "alive" or "dead"
    strays,   \* live wstunnel processes no handle refers to
    wg,       \* Tunnel._wg_installed
    iface,    \* the interface itself: "gone" if it vanished by itself
    ks,       \* are the kill switch's firewall rules in place?
    pc,       \* where each thread is
    then,     \* where it goes after disconnect() or _set_state()
    target,   \* the state _set_state was called with
    attempt,  \* failed attempts in a row, of the worker
    rung,     \* the rung the worker is at
    session,  \* history: was a connection up that nobody has asked to stop?
    calls     \* calls made by controllers

manager == <<state, halted, cancel>>
tunnel == <<proc, strays, wg, iface>>
control == <<pc, then, target>>
local == <<attempt, rung>>
vars == <<manager, tunnel, ks, control, local, session, calls>>

Init ==
    /\ state = "disconnected" /\ halted = FALSE /\ cancel = FALSE
    /\ proc = "none" /\ strays = 0 /\ wg = FALSE /\ iface = "down" /\ ks = FALSE
    /\ pc = [t \in Threads |-> IF t = Worker THEN "dead" ELSE "idle"]
    /\ then = [t \in Threads |-> "idle"]
    /\ target = [t \in Threads |-> "disconnected"]
    /\ attempt = 0 /\ rung = 1 /\ session = FALSE /\ calls = 0

-----------------------------------------------------------------------------
(* Helpers.                                                                *)

Goto(t, label) == pc' = [pc EXCEPT ![t] = label]

\* Call a routine that ends at `label` and goes on to `next`.
Call(t, label, next) == Goto(t, label) /\ then' = [then EXCEPT ![t] = next]
Return(t) == Goto(t, then[t]) /\ then' = [then EXCEPT ![t] = "idle"]

\* TunnelManager._set_state: nothing if the state is the same; otherwise it is
\* assigned under the lock, and the kill switch reconciled after it.
SetState(t, s, next) ==
    IF s = state
    THEN Goto(t, next) /\ UNCHANGED <<state, then, target>>
    ELSE /\ state' = s
         /\ IF KillSwitch
            THEN Call(t, "guard", next) /\ target' = [target EXCEPT ![t] = s]
            ELSE Goto(t, next) /\ UNCHANGED <<then, target>>

\* Mutant of Releases: a fresh attempt opens the network.
ReleasesEarly(s) == s \in {"connecting", "connected", "disconnected"}

\* Mutant of Releases: a stop keeps the rules of a failed session.
ReleasesConnected(s) == s = "connected"

\* killswitch.reconcile; a CONNECTING is left alone.
Engages(s) == s \in {"reconnecting", "failed"}
Releases(s) == s \in {"connected", "disconnected"}

IsActive == proc = "alive" /\ iface = "up"

-----------------------------------------------------------------------------
(* Routines that both kinds of thread run.                                 *)

\* killswitch.reconcile.  Engaging fails when no bypass address resolves or
\* the firewall command does; a release whose command fails is only logged on
\* Windows and goes unnoticed on Linux (the helper's `nft delete ... || true`).
Guard(t) ==
    LET s == target[t] IN
    /\ pc[t] = "guard"
    /\ \/ Engages(s) /\ ks' = TRUE
       \/ Engages(s) /\ "engage" \in Faults /\ UNCHANGED ks
       \/ Releases(s) /\ ks' = FALSE
       \/ Releases(s) /\ "release" \in Faults /\ UNCHANGED ks
       \/ ~Engages(s) /\ ~Releases(s) /\ UNCHANGED ks
    /\ Return(t)
    /\ target' = [target EXCEPT ![t] = "disconnected"]
    /\ UNCHANGED <<manager, tunnel, local, session, calls>>

\* _stop_wstunnel: terminate the process behind the handle and wait for it.
Terminate(t) ==
    /\ pc[t] = "terminate"
    /\ proc' = IF proc = "none" THEN "none" ELSE "dead"
    /\ Goto(t, IF proc # "none" THEN "forget"
               ELSE IF then[t] = "next" THEN "next" ELSE "down")
    /\ UNCHANGED <<manager, strays, wg, iface, ks, then, target, local, session, calls>>

\* Its `finally`: the handle is dropped, whatever it refers to by now.
Forget(t) ==
    /\ pc[t] = "forget"
    /\ strays' = IF proc = "alive" THEN strays + 1 ELSE strays
    /\ proc' = "none"
    /\ Goto(t, IF then[t] = "next" THEN "next" ELSE "down")
    /\ UNCHANGED <<manager, wg, iface, ks, then, target, local, session, calls>>

\* The second half of disconnect(): uninstall the interface if it is ours.
Down(t) ==
    /\ pc[t] = "down"
    /\ IF wg
       THEN /\ \/ iface' = "down"
               \/ "teardown" \in Faults /\ UNCHANGED iface
            /\ Goto(t, "unflag") /\ UNCHANGED then
       ELSE Return(t) /\ UNCHANGED iface
    /\ UNCHANGED <<manager, proc, strays, wg, ks, target, local, session, calls>>

Unflag(t) ==
    /\ pc[t] = "unflag"
    /\ wg' = FALSE
    /\ Return(t)
    /\ UNCHANGED <<manager, proc, strays, iface, ks, target, local, session, calls>>

Shared(t) == Guard(t) \/ Terminate(t) \/ Forget(t) \/ Down(t) \/ Unflag(t)

\* What decides, step by step, whether the manager still answers for what is in
\* the system: a command that fails leaves the interface or the rules without a
\* hand on them; a new interface, or a new state to reconcile, puts one there.
RemovalFails == \E t \in Threads : pc[t] = "down" /\ pc'[t] = "unflag" /\ iface' # "down"
ReleaseFails ==
    \E t \in Threads : pc[t] = "guard" /\ pc'[t] # "guard" /\ Releases(target[t]) /\ ks'
Installs == pc[Worker] = "install" /\ pc'[Worker] = "flag"
Reports == state' # state

-----------------------------------------------------------------------------
(* The worker: TunnelManager._run, with Tunnel.connect inlined.            *)

At(label) == pc[Worker] = label
WorkerGoto(label) == Goto(Worker, label) /\ UNCHANGED <<then, target>>

\* An expired profile or a missing wstunnel ends the thread at once; a worker
\* counts its failed attempts from zero.
Boot ==
    /\ At("boot")
    /\ attempt' = 0
    /\ \/ WorkerGoto("loop") /\ UNCHANGED state
       \/ Faults \cap {"expired", "transport"} # {} /\ SetState(Worker, "failed", "dead")
    /\ UNCHANGED <<halted, cancel, tunnel, ks, rung, session, calls>>

Loop ==
    /\ At("loop")
    /\ WorkerGoto(IF halted THEN "dead" ELSE "enter")
    /\ UNCHANGED <<manager, tunnel, ks, local, session, calls>>

Enter ==
    /\ At("enter")
    /\ SetState(Worker, IF attempt = 0 THEN "connecting" ELSE "reconnecting", "dial")
    /\ UNCHANGED <<halted, cancel, tunnel, ks, local, session, calls>>

\* connect() up to its `try`: a missing wstunnel, or no rung to dial, raises
\* before the interface is touched and without any cleanup.
Dial ==
    /\ At("dial")
    /\ \/ WorkerGoto("install")
       \/ "transport" \in Faults /\ WorkerGoto("unavailable")
       \/ "preflight" \in Faults /\ WorkerGoto("failed")
    /\ UNCHANGED <<manager, tunnel, ks, local, session, calls>>

\* An exception inside connect's `try`: disconnect(), then raise.
Raise(next) == Call(Worker, "terminate", next) /\ UNCHANGED target

\* The platform replaces any interface of that name, so a failure leaves none.
Install ==
    /\ At("install")
    /\ \/ cancel /\ Raise("failed") /\ UNCHANGED iface
       \/ ~cancel /\ iface' = "up" /\ WorkerGoto("flag")
       \/ ~cancel /\ "wg" \in Faults /\ iface' = "down" /\ Raise("failed")
    /\ UNCHANGED <<manager, proc, strays, wg, ks, local, session, calls>>

Flag ==
    /\ At("flag")
    /\ wg' = TRUE /\ rung' = 1
    /\ WorkerGoto("rung")
    /\ UNCHANGED <<manager, proc, strays, iface, ks, attempt, session, calls>>

\* The head of the ladder's loop: no rung left, or cancelled, raises.
Rung ==
    /\ At("rung")
    /\ IF rung > Rungs \/ cancel THEN Raise("failed") ELSE WorkerGoto("pin")
    /\ UNCHANGED <<manager, tunnel, ks, local, session, calls>>

\* A rung that fails: its wstunnel is stopped, and the next rung tried.
RungFails == Call(Worker, "terminate", "next") /\ UNCHANGED target

\* _check_pin: a TLS probe of the rung, which may take its time and fail.
Pin ==
    /\ At("pin")
    /\ WorkerGoto("check") \/ RungFails
    /\ UNCHANGED <<manager, tunnel, ks, local, session, calls>>

\* The last checkpoint before wstunnel is spawned.
Check ==
    /\ At("check")
    /\ IF cancel THEN Raise("failed") ELSE WorkerGoto("spawn")
    /\ UNCHANGED <<manager, tunnel, ks, local, session, calls>>

\* _start_wstunnel: a process already behind the handle would be forgotten.
\* A binary that may not run here ends the whole session, not just the rung.
Spawn ==
    /\ At("spawn")
    /\ \/ /\ strays' = IF proc = "alive" THEN strays + 1 ELSE strays
          /\ proc' = "alive"
          /\ WorkerGoto("await")
       \/ RungFails /\ UNCHANGED <<proc, strays>>
       \/ "blocked" \in Faults /\ Raise("unavailable") /\ UNCHANGED <<proc, strays>>
    /\ UNCHANGED <<manager, wg, iface, ks, local, session, calls>>

\* _await_handshake and _await_ping look at the cancel event before each wait.
Await ==
    /\ At("await")
    /\ IF cancel THEN RungFails ELSE WorkerGoto("hear")
    /\ UNCHANGED <<manager, tunnel, ks, local, session, calls>>

\* The handshake and the ping come through, or the wait runs out.
Hear ==
    /\ At("hear")
    /\ \/ IsActive /\ WorkerGoto("won")
       \/ RungFails
    /\ UNCHANGED <<manager, tunnel, ks, local, session, calls>>

NextRung ==
    /\ At("next")
    /\ rung' = rung + 1
    /\ Goto(Worker, "rung") /\ then' = [then EXCEPT ![Worker] = "idle"]
    /\ UNCHANGED <<manager, tunnel, ks, target, attempt, session, calls>>

\* connect() has returned; a connection that a stop() has overtaken is not a
\* session to protect.
Won ==
    /\ At("won")
    /\ SetState(Worker, "connected", "watch")
    /\ session' = ~halted
    /\ UNCHANGED <<halted, cancel, tunnel, ks, local, calls>>

\* Mutant of Watch: only a dead tunnel ends the watch, not a stop.
WatchDeaf ==
    /\ At("watch") /\ ~IsActive
    /\ WorkerGoto("lost")
    /\ UNCHANGED <<manager, tunnel, ks, local, session, calls>>

\* The watch loop: leave on a stop or a dead tunnel; after the stability
\* window, forget the failures.
Watch ==
    /\ At("watch")
    /\ \/ halted /\ WorkerGoto("dead") /\ UNCHANGED attempt
       \/ ~halted /\ ~IsActive /\ WorkerGoto("lost") /\ UNCHANGED attempt
       \/ ~halted /\ IsActive /\ attempt # 0 /\ attempt' = 0 /\ UNCHANGED control
    /\ UNCHANGED <<manager, tunnel, ks, rung, session, calls>>

Lost ==
    /\ At("lost")
    /\ WorkerGoto(IF halted THEN "dead" ELSE "drop")
    /\ UNCHANGED <<manager, tunnel, ks, local, session, calls>>

\* Mutant of Drop: the teardown first, the state afterwards.
DropLate ==
    /\ At("drop")
    /\ Raise("failed")
    /\ UNCHANGED <<manager, tunnel, ks, local, session, calls>>

\* The state changes before the interface is torn down: the kill switch covers
\* the teardown and the wait that follow.
Drop ==
    /\ At("drop")
    /\ SetState(Worker, "reconnecting", "teardown")
    /\ UNCHANGED <<halted, cancel, tunnel, ks, local, session, calls>>

Teardown ==
    /\ At("teardown")
    /\ Raise("retry")
    /\ UNCHANGED <<manager, tunnel, ks, local, session, calls>>

Retry ==
    /\ At("retry")
    /\ \E auto \in AutoReconnect :
          IF auto THEN WorkerGoto("count") /\ UNCHANGED state
                  ELSE SetState(Worker, "failed", "dead")
    /\ UNCHANGED <<halted, cancel, tunnel, ks, local, session, calls>>

\* connect() raised: silent if a stop caused it, otherwise one more failure.
Failed ==
    /\ At("failed")
    /\ WorkerGoto(IF halted THEN "dead" ELSE "count")
    /\ UNCHANGED <<manager, tunnel, ks, local, session, calls>>

\* Mutant of Count: the failure is reported but not counted.
Uncounted ==
    /\ At("count") /\ WorkerGoto("backoff")
    /\ UNCHANGED <<manager, tunnel, ks, local, session, calls>>

\* Mutant of Count: one failure too many.
CountOneMore ==
    /\ At("count")
    /\ attempt' = attempt + 1
    /\ IF attempt' > MaxAttempts
       THEN SetState(Worker, "failed", "dead")
       ELSE WorkerGoto("backoff") /\ UNCHANGED state
    /\ UNCHANGED <<halted, cancel, tunnel, ks, rung, session, calls>>

\* One more failure: give up after max_attempts, otherwise wait.
Count ==
    /\ At("count")
    /\ attempt' = attempt + 1
    /\ IF attempt' >= MaxAttempts
       THEN SetState(Worker, "failed", "dead")
       ELSE WorkerGoto("backoff") /\ UNCHANGED state
    /\ UNCHANGED <<halted, cancel, tunnel, ks, rung, session, calls>>

\* The wait ends by a stop, or when the delay is over.
Backoff ==
    /\ At("backoff")
    /\ WorkerGoto(IF halted THEN "dead" ELSE "loop")
    /\ UNCHANGED <<manager, tunnel, ks, local, session, calls>>

\* TransportUnavailableError: FAILED, whether or not a stop was asked for.
Unavailable ==
    /\ At("unavailable")
    /\ SetState(Worker, "failed", "dead")
    /\ UNCHANGED <<halted, cancel, tunnel, ks, local, session, calls>>

WorkerStep ==
    \/ Boot \/ Loop \/ Enter \/ Dial \/ Install \/ Flag \/ Rung \/ Pin \/ Check
    \/ Spawn \/ Await \/ Hear \/ NextRung \/ Won \/ Watch \/ Lost \/ Drop
    \/ Teardown \/ Retry \/ Failed \/ Count \/ Backoff \/ Unavailable
    \/ Shared(Worker)

-----------------------------------------------------------------------------
(* The controllers: api.connect, disconnect and reconnect, the TUI's keys, *)
(* the command line's signals.                                             *)

Request(c, op) ==
    /\ pc[c] = "idle" /\ calls < MaxCalls
    /\ op \in Ops
    /\ calls' = calls + 1
    /\ \/ op = "start" /\ Goto(c, "start") /\ UNCHANGED then
       \/ op = "stop" /\ Call(c, "halt", "settle")
       \/ op = "restart" /\ Call(c, "halt", "resettle")
    /\ UNCHANGED <<manager, tunnel, ks, target, local, session>>

\* TunnelManager._lock, which start() holds throughout and _set_state takes.
LockFree == \A d \in Controllers : pc[d] # "launch"

\* start(), up to clearing the first event; nothing happens while the old
\* thread lives.
Start(c) ==
    /\ pc[c] = "start" /\ LockFree
    /\ IF At("dead")
       THEN halted' = FALSE /\ Goto(c, "launch")
       ELSE UNCHANGED halted /\ Goto(c, "idle")
    /\ UNCHANGED <<state, cancel, tunnel, ks, then, target, local, session, calls>>

\* The second event, and the thread.  A stop() that was joining the previous
\* thread goes on to disconnect(); one that has not read _thread yet will join
\* the new one.
Launch(c) ==
    /\ pc[c] = "launch"
    /\ cancel' = FALSE
    /\ \E joining \in SUBSET {d \in Controllers : pc[d] = "join"} :
          pc' = [t \in Threads |->
                    IF t = Worker THEN "boot"
                    ELSE IF t = c THEN "idle"
                    ELSE IF t \in joining THEN "terminate" ELSE pc[t]]
    /\ UNCHANGED <<state, halted, tunnel, ks, then, target, local, session, calls>>

\* stop(): the first event, and the second through Tunnel.cancel.
Halt(c) ==
    /\ pc[c] = "halt"
    /\ halted' = TRUE /\ session' = FALSE
    /\ Goto(c, "cancel")
    /\ UNCHANGED <<state, cancel, tunnel, ks, then, target, local, calls>>

Cancel(c) ==
    /\ pc[c] = "cancel"
    /\ cancel' = TRUE
    /\ Goto(c, "join")
    /\ UNCHANGED <<state, halted, tunnel, ks, then, target, local, session, calls>>

\* Mutant of Join: the teardown does not wait for the worker.
NoJoin(c) ==
    /\ pc[c] = "join"
    /\ Goto(c, "terminate")
    /\ UNCHANGED <<manager, tunnel, ks, then, target, local, session, calls>>

\* The join, and its timeout: for a worker that is slow, or that a start() has
\* told to go on.
Join(c) ==
    /\ pc[c] = "join"
    /\ At("dead") \/ SlowWorker \/ ~halted
    /\ Goto(c, "terminate")
    /\ UNCHANGED <<manager, tunnel, ks, then, target, local, session, calls>>

\* The end of stop(): a clean DISCONNECTED, and start() if it is a reconnect.
Settle(c) ==
    /\ LockFree
    /\ \/ pc[c] = "settle" /\ SetState(c, "disconnected", "idle")
       \/ pc[c] = "resettle" /\ SetState(c, "disconnected", "start")
    /\ UNCHANGED <<halted, cancel, tunnel, ks, local, session, calls>>

ControllerStep(c) ==
    Start(c) \/ Launch(c) \/ Halt(c) \/ Cancel(c) \/ Join(c) \/ Settle(c) \/ Shared(c)

-----------------------------------------------------------------------------
(* The surroundings.                                                       *)

\* wstunnel crashes or is killed, or its connection breaks for good.
TransportDies ==
    /\ proc = "alive" /\ proc' = "dead"
    /\ UNCHANGED <<manager, strays, wg, iface, ks, control, local, session, calls>>

\* Somebody else takes the interface down under a watched tunnel.  (Under a
\* dialling one this is a rung that fails.)
InterfaceVanishes ==
    /\ "vanish" \in Faults /\ At("watch") /\ iface = "up"
    /\ iface' = "gone"
    /\ UNCHANGED <<manager, proc, strays, wg, ks, control, local, session, calls>>

Next ==
    \/ WorkerStep
    \/ \E c \in Controllers : ControllerStep(c) \/ \E op \in Ops : Request(c, op)
    \/ TransportDies \/ InterfaceVanishes

Spec == Init /\ [][Next]_vars

\* Threads that can run do; nobody has to call, and nothing has to break.
FairSpec ==
    /\ Spec
    /\ WF_vars(WorkerStep)
    /\ \A c \in Controllers : WF_vars(ControllerStep(c))

-----------------------------------------------------------------------------
(* Properties.                                                             *)

TypeOK ==
    /\ state \in States /\ halted \in BOOLEAN /\ cancel \in BOOLEAN
    /\ proc \in {"none", "alive", "dead"} /\ strays \in Nat
    /\ wg \in BOOLEAN /\ iface \in {"up", "down", "gone"} /\ ks \in BOOLEAN
    /\ pc \in [Threads -> Labels] /\ then \in [Threads -> Labels]
    /\ target \in [Threads -> States]
    /\ attempt \in 0..MaxAttempts /\ rung \in 1..(Rungs + 1)
    /\ session \in BOOLEAN /\ calls \in 0..MaxCalls

\* Once a connection has been up, and until somebody asks to stop, traffic
\* leaves through the tunnel or not at all: whenever the interface is down the
\* kill switch is engaged.  An interface that vanished by itself is only
\* noticed at the next poll of the watch loop.
NoLeak ==
    KillSwitch /\ "engage" \notin Faults /\ session =>
        /\ iface = "down" => ks
        /\ iface = "gone" => ks \/ state = "connected" \/ pc[Worker] = "guard"

AllIdle == \A c \in Controllers : pc[c] = "idle"

\* After stop() has returned nothing of the session is left: no thread, no
\* wstunnel (not even one no handle refers to), and no interface and no firewall
\* rule where the commands that remove them do not fail.
StoppedClean ==
    AllIdle /\ halted =>
        /\ pc[Worker] = "dead" /\ state = "disconnected"
        /\ proc = "none" /\ strays = 0
        /\ ~wg /\ ("release" \notin Faults => ~ks)
        /\ "teardown" \notin Faults => iface = "down"

\* No wstunnel is left running that nobody will ever stop: stop()'s disconnect
\* is "an idempotent safety net rather than a concurrent teardown" (tunnel.py),
\* so it never drops the handle of a process it has not terminated.
NoStrays == strays = 0

\* Every call of a controller returns.
CallsReturn == \A c \in Controllers : pc[c] # "idle" ~> pc[c] = "idle"

\* An attempt ends: connected, given up or stopped.
AttemptsEnd ==
    state \in {"connecting", "reconnecting"} ~>
        state \in {"connected", "failed", "disconnected"}

\* The states, the interface and the kill switch move as TunnelLifecycle says.
Lifecycle == INSTANCE TunnelLifecycle WITH Enabled <- KillSwitch, Refused <- Faults
ImplementsLifecycle == Lifecycle!Spec
=============================================================================
