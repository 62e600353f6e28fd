---------------------------- MODULE ServerManager ----------------------------
(***************************************************************************)
(* The process that runs the server's transport, or watches it: the        *)
(* ServerManager (server_manager.py) inside `outwarp-server serve` of a    *)
(* container, the desktop application, or the GUI or web panel beside      *)
(* systemd units.  Its start runs on a thread of its own, its watchdog on  *)
(* another, and the panel's API (api.py) calls stop, restart and the       *)
(* configuration changes each on a further one; none of them takes a lock  *)
(* for longer than the first test of start().                              *)
(***************************************************************************)
EXTENDS Naturals, FiniteSets

CONSTANTS
    Main,         \* the process's main thread
    Callers,      \* threads of its API
    Starters,     \* threads of start(), by number: how many may run at once
    SmFaults,     \* can prerequisites, WireGuard or wstunnel fail a start?
    MaxApiCalls, MaxSpawns, MaxUpsets, MaxEdits  \* bounds: API calls, wstunnels
                  \* started, crashes and unit changes, configuration edits

ASSUME ServerManagerAssumption ==
    /\ Main \notin Callers /\ Starters \subseteq Nat
    /\ SmFaults \in BOOLEAN
    /\ {MaxApiCalls, MaxSpawns, MaxUpsets, MaxEdits} \subseteq Nat

SmThreads == Callers \cup {Main}
Spawns == 1 .. MaxSpawns
StopLabels == {"signal", "take", "kill", "unwire", "settle", "restart"}
SmLabels == StopLabels \cup {"idle", "setup", "start", "bounce", "rewire", "gone"}
StarterLabels == {"off", "wire", "spawn", "announce", "watch", "attend"}

VARIABLES
    smHost,      \* what the process is: "serve", "desktop", "gui" or "web"
    smState,     \* ServerManager._state
    smHandle,    \* ServerManager._wstunnel: which spawn, 0 if None
    smProcs,     \* the wstunnel processes: "none", "up" or "dead"
    smVersions,  \* the configuration each of them was started with
    smWatched,   \* does a monitor thread run?
    smSchedule,  \* [handle |-> _traffic_scheduler, alive |-> those that run]
    smListen,    \* [handle |-> _enroll_server, bound |-> the one on the port]
    smStarter,   \* where each starter is, and the spawn it has made
    smPc, smJob, \* where each thread is, and what it does
    smGrip,      \* the process a stop has taken and not yet killed
    smUnit,      \* the systemd unit of wstunnel: "absent", "up" or "down"
    smUnitRuns,  \* the configuration it runs
    smWg,        \* is the WireGuard interface up?
    smDisk, smMem, \* configuration on disk and in the manager
    smHup, smTerm, smExit, \* serve: signals; its exit code, 9 while it runs
    smAsked,     \* history: the configuration a SIGHUP asked for
    smMet,       \* history: did a stop or a start meet another one?
    smRevived,   \* history: was a dead server started again without a stop?
    smCalls, smUpsets  \* what the bounds count

smThreadVars == <<smStarter, smPc, smJob, smGrip>>
smOwned == <<smHandle, smProcs, smVersions, smWatched, smSchedule, smListen>>
smOutside == <<smUnit, smUnitRuns, smWg, smDisk, smMem>>
smSignals == <<smHup, smTerm, smExit>>
smHistory == <<smAsked, smMet, smRevived, smCalls, smUpsets>>
smVars == <<smHost, smState, smOwned, smThreadVars, smOutside, smSignals, smHistory>>

SmInit ==
    /\ smHost = "none" /\ smState = "stopped" /\ smHandle = 0 /\ smWatched = FALSE
    /\ smProcs = [i \in Spawns |-> "none"] /\ smVersions = [i \in Spawns |-> 0]
    /\ smSchedule = [handle |-> 0, alive |-> {}] /\ smListen = [handle |-> 0, bound |-> 0]
    /\ smStarter = [s \in Starters |-> [at |-> "off", made |-> 0]]
    /\ smPc = [c \in SmThreads |-> "idle"] /\ smJob = [c \in SmThreads |-> "none"]
    /\ smGrip = [c \in SmThreads |-> 0]
    /\ smUnit = "absent" /\ smUnitRuns = 0 /\ smWg = FALSE /\ smDisk = 0 /\ smMem = 0
    /\ smHup = FALSE /\ smTerm = FALSE /\ smExit = 9
    /\ smAsked = 0 /\ smMet = FALSE /\ smRevived = FALSE /\ smCalls = 0 /\ smUpsets = 0

-----------------------------------------------------------------------------
(* Helpers.                                                                *)

SmAlive == smHost # "none" /\ smPc[Main] # "gone"
SmGoto(c, label) == smPc' = [smPc EXCEPT ![c] = label]
SmStopping(c) == smPc[c] \in StopLabels
SmStarting == \E s \in Starters : smStarter[s].at # "off"
OsManaged == smHost \in {"gui", "web"}

\* A process ends; what it ran with is of no interest any more.
Ends(i) ==
    /\ smProcs' = [smProcs EXCEPT ![i] = "dead"] /\ smVersions' = [smVersions EXCEPT ![i] = 0]

\* Mutant of SmSet: nobody in serve listens to the state.
SmSetUnheard(s) == smState' = s /\ UNCHANGED <<smTerm, smExit>>

\* _set_state; serve's listener flags a failure and ends the main loop.
SmSet(s) ==
    /\ smState' = s
    /\ smTerm' = (smTerm \/ (s = "error" /\ smState # s /\ smHost = "serve"))
    /\ smExit' = IF s = "error" /\ smState # s /\ smHost = "serve" THEN 3 ELSE smExit

\* effective_state: a manager that never started anything asks the platform.
\* systemd is asked about its unit, elsewhere any wstunnel process will do.
SeesTransport ==
    /\ IF OsManaged THEN smUnit = "up" ELSE \E i \in Spawns : smProcs[i] = "up"
    /\ smWg
EffectivelyRunning == smState = "running" \/ (smState = "stopped" /\ SeesTransport)

\* reconcile: the file is written and the interface brought up or synchronised.
WgUp == smWg' = TRUE
\* uninstall_wg_config: wg-quick is stopped and disabled and its file removed,
\* whoever had brought the interface up.
WgDown == smWg' = FALSE
\* install_services: the units of wstunnel and the listener, and the interface.
InstallServices == smUnit' = "up" /\ WgUp

\* restart_services: WireGuard first; if that fails the transport is left alone.
RestartUnits ==
    \/ SmFaults /\ UNCHANGED <<smUnit, smUnitRuns, smWg>>
    \/ WgUp /\ SmFaults /\ UNCHANGED <<smUnit, smUnitRuns>>
    \/ WgUp /\ smUnit' = "up" /\ smUnitRuns' = smMem

\* _service_control: what the panel may do to the transport.
Control == IF smHandle # 0 THEN "full" ELSE IF OsManaged THEN "restart" ELSE "none"

-----------------------------------------------------------------------------
(* The process: launch, first-run setup, quit.                             *)

SmBegins(h, label) ==
    /\ smHost = "none" /\ smHost' = h /\ SmGoto(Main, label)
    /\ UNCHANGED <<smState, smOwned, smStarter, smJob, smGrip, smUnitRuns, smDisk, smMem,
                   smSignals, smHistory>>
\* systemd units exist already, or there are none.
SmFinds(units) ==
    /\ smUnit' \in IF units THEN {"up", "down"} ELSE {"absent"}
    /\ smWg' = (smUnit' = "up")

\* _cmd_serve: the container's process.
LaunchServe == SmBegins("serve", "start") /\ SmFinds(FALSE)

\* The window starts the manager, or the wizard when there is no configuration.
LaunchApp ==
    \E h \in {"desktop", "gui"} :
        \/ SmBegins(h, "setup") /\ SmFinds(FALSE)
        \/ SmBegins(h, "start") /\ SmFinds(h = "gui")

\* _cmd_web: the panel only looks on.
LaunchWeb == SmBegins("web", "idle") /\ SmFinds(TRUE)

\* run_setup: on a systemd install the services come up before the new manager
\* is started; a failure leaves the wizard open.
SmSetup ==
    /\ SmAlive /\ smPc[Main] = "setup"
    /\ \/ UNCHANGED <<smUnit, smWg, smPc>> /\ SmFaults
       \/ OsManaged /\ InstallServices /\ SmGoto(Main, "start")
       \/ ~OsManaged /\ UNCHANGED <<smUnit, smWg>> /\ SmGoto(Main, "start")
    /\ UNCHANGED <<smHost, smState, smOwned, smStarter, smJob, smGrip, smUnitRuns, smDisk,
                   smMem, smSignals, smHistory>>

\* SIGTERM, tray Quit, window closed: api.shutdown(), or the end of serve's loop.
SmQuit ==
    /\ SmAlive /\ smPc[Main] = "idle"
    /\ smHost = "serve" => smTerm
    /\ SmGoto(Main, "signal") /\ smJob' = [smJob EXCEPT ![Main] = "exit"]
    /\ UNCHANGED <<smHost, smState, smOwned, smStarter, smGrip, smOutside, smSignals, smHistory>>

-----------------------------------------------------------------------------
(* serve's main loop.                                                      *)

Sighup ==
    /\ smHost = "serve" /\ SmAlive /\ ~smHup /\ smCalls < MaxApiCalls
    /\ smHup' = TRUE /\ smAsked' = smDisk /\ smCalls' = smCalls + 1
    /\ UNCHANGED <<smHost, smState, smOwned, smThreadVars, smOutside, smTerm, smExit,
                   smMet, smRevived, smUpsets>>

Sigterm ==
    /\ smHost = "serve" /\ SmAlive /\ ~smTerm /\ smTerm' = TRUE
    /\ UNCHANGED <<smHost, smState, smOwned, smThreadVars, smOutside, smHup, smExit, smHistory>>

\* Mutant of Reload: the manager is restarted with what it has in memory.
ReloadNothing ==
    /\ smHost = "serve" /\ smPc[Main] = "idle" /\ smHup /\ ~smTerm
    /\ smHup' = FALSE
    /\ SmGoto(Main, "signal") /\ smJob' = [smJob EXCEPT ![Main] = "restart"]
    /\ UNCHANGED <<smHost, smState, smOwned, smStarter, smGrip, smOutside, smTerm, smExit,
                   smHistory>>

\* The flag is cleared, the configuration reloaded, the manager restarted.
Reload ==
    /\ smHost = "serve" /\ smPc[Main] = "idle" /\ smHup /\ ~smTerm
    /\ smHup' = FALSE /\ smMem' = smDisk
    /\ SmGoto(Main, "signal") /\ smJob' = [smJob EXCEPT ![Main] = "restart"]
    /\ UNCHANGED <<smHost, smState, smOwned, smStarter, smGrip, smUnit, smUnitRuns, smWg,
                   smDisk, smTerm, smExit, smHistory>>

-----------------------------------------------------------------------------
(* ServerManager.stop, a statement at a time.                              *)

\* Mutant of StopSignal: the listener is let go of without being shut down.
StopSignalHalf(c) ==
    /\ smPc[c] = "signal" /\ SmGoto(c, "take") /\ smWatched' = FALSE
    /\ smSchedule' = [handle |-> 0, alive |-> smSchedule.alive \ {smSchedule.handle}]
    /\ smListen' = [smListen EXCEPT !.handle = 0]
    /\ smMet' = (smMet \/ SmStarting \/ \E d \in SmThreads \ {c} : SmStopping(d))
    /\ UNCHANGED <<smHost, smState, smHandle, smProcs, smVersions, smStarter, smJob, smGrip,
                   smOutside, smSignals, smAsked, smRevived, smCalls, smUpsets>>

\* The event ends every monitor; then the scheduler and the listener stop.
StopSignal(c) ==
    /\ smPc[c] = "signal" /\ SmGoto(c, "take") /\ smWatched' = FALSE
    /\ smSchedule' = [handle |-> 0, alive |-> smSchedule.alive \ {smSchedule.handle}]
    /\ smListen' = [handle |-> 0,
                    bound |-> IF smListen.handle = smListen.bound THEN 0 ELSE smListen.bound]
    /\ smMet' = (smMet \/ SmStarting \/ \E d \in SmThreads \ {c} : SmStopping(d))
    /\ UNCHANGED <<smHost, smState, smHandle, smProcs, smVersions, smStarter, smJob, smGrip,
                   smOutside, smSignals, smAsked, smRevived, smCalls, smUpsets>>

StopTake(c) ==
    /\ smPc[c] = "take" /\ SmGoto(c, "kill")
    /\ smGrip' = [smGrip EXCEPT ![c] = smHandle] /\ smHandle' = 0
    /\ UNCHANGED <<smHost, smState, smProcs, smVersions, smWatched, smSchedule, smListen,
                   smStarter, smJob, smOutside, smSignals, smHistory>>

StopKill(c) ==
    /\ smPc[c] = "kill" /\ SmGoto(c, "unwire")
    /\ IF smGrip[c] # 0 THEN Ends(smGrip[c]) ELSE UNCHANGED <<smProcs, smVersions>>
    /\ smGrip' = [smGrip EXCEPT ![c] = 0]
    /\ UNCHANGED <<smHost, smState, smHandle, smWatched, smSchedule, smListen,
                   smStarter, smJob, smOutside, smSignals, smHistory>>

StopUnwire(c) ==
    /\ smPc[c] = "unwire" /\ SmGoto(c, "settle") /\ WgDown
    /\ UNCHANGED <<smHost, smState, smOwned, smStarter, smJob, smGrip, smUnit, smUnitRuns,
                   smDisk, smMem, smSignals, smHistory>>

\* The end of stop(): then idle, the start() of a restart, or the end of the
\* process, where a container takes its child processes with it.
StopSettle(c) ==
    /\ smPc[c] = "settle" /\ smJob[c] # "exit" /\ SmSet("stopped")
    /\ SmGoto(c, IF smJob[c] = "stop" THEN "idle" ELSE "restart")
    /\ smJob' = [smJob EXCEPT ![c] = IF @ = "stop" THEN "none" ELSE @]
    /\ UNCHANGED <<smHost, smOwned, smStarter, smGrip, smOutside, smHup, smHistory>>

StopExit(c) ==
    /\ smPc[c] = "settle" /\ smJob[c] = "exit"
    /\ smState' = "stopped" /\ SmGoto(c, "gone")
    /\ smExit' = IF smExit = 9 THEN 0 ELSE smExit
    /\ smProcs' = IF smHost = "serve" THEN [i \in Spawns |-> "dead"] ELSE smProcs
    /\ UNCHANGED <<smHost, smHandle, smVersions, smWatched, smSchedule, smListen, smStarter,
                   smJob, smGrip, smOutside, smHup, smTerm, smHistory>>

\* start(), by itself or as the last line of restart(): refused while one is
\* under way, adopted if somebody else runs the transport, else on a thread.
Start(c) ==
    /\ smPc[c] \in {"start", "restart"}
    /\ SmGoto(c, IF smJob[c] = "update" THEN "rewire" ELSE "idle")
    /\ smJob' = [smJob EXCEPT ![c] = "none"]
    /\ \/ /\ smState \in {"starting", "running"}
          /\ UNCHANGED <<smState, smTerm, smExit, smStarter, smRevived>>
       \/ /\ smState \notin {"starting", "running"} /\ smHandle = 0 /\ EffectivelyRunning
          /\ SmSet("running") /\ UNCHANGED <<smStarter, smRevived>>
       \/ /\ smState \notin {"starting", "running"} /\ ~(smHandle = 0 /\ EffectivelyRunning)
          /\ SmSet("starting")
          /\ \E s \in Starters :
                /\ smStarter[s].at = "off" /\ \A r \in Starters : r < s => smStarter[r].at # "off"
                /\ smStarter' = [smStarter EXCEPT ![s].at = "wire"]
          /\ smRevived' = (smRevived \/ smState = "error")
    /\ smMet' = (smMet \/ SmStarting \/ \E d \in SmThreads \ {c} : SmStopping(d))
    /\ UNCHANGED <<smHost, smOwned, smGrip, smOutside, smHup, smAsked, smCalls, smUpsets>>

-----------------------------------------------------------------------------
(* _do_start, on its thread.  An exception anywhere is "error".            *)

StarterGoto(s, label) == smStarter' = [smStarter EXCEPT ![s].at = label]
StarterEnds(s) == smStarter' = [smStarter EXCEPT ![s] = [at |-> "off", made |-> 0]]
StarterFails(s) == StarterEnds(s) /\ SmSet("error")
StarterAt(s, label) == SmAlive /\ smStarter[s].at = label

\* prune_expired, whose failure is ignored, the prerequisites, reconcile, and
\* is_wg_active: an interface that did not come up is an error.
Wire(s) ==
    /\ StarterAt(s, "wire")
    /\ \/ StarterGoto(s, "spawn") /\ WgUp /\ UNCHANGED <<smState, smTerm, smExit>>
       \/ SmFaults /\ StarterFails(s) /\ UNCHANGED smWg
    /\ UNCHANGED <<smHost, smOwned, smPc, smJob, smGrip, smUnit, smUnitRuns, smDisk, smMem,
                   smHup, smHistory>>

\* A wstunnel on a port another one holds exits at once.
PortTaken(v) == (smUnit = "up" /\ smUnitRuns = v) \/
                \E i \in Spawns : smProcs[i] = "up" /\ smVersions[i] = v
Spawned == 1 + Cardinality({i \in Spawns : smProcs[i] # "none"})

Spawn(s) ==
    /\ StarterAt(s, "spawn")
    /\ \/ /\ SmFaults /\ StarterFails(s)
          /\ UNCHANGED <<smHandle, smProcs, smVersions>>
       \/ /\ Spawned \in Spawns
          /\ smProcs' = [smProcs EXCEPT ![Spawned] = IF PortTaken(smMem) THEN "dead" ELSE "up"]
          /\ smVersions' = [smVersions EXCEPT ![Spawned] = IF PortTaken(smMem) THEN 0 ELSE smMem]
          /\ smHandle' = Spawned
          /\ smStarter' = [smStarter EXCEPT ![s] = [at |-> "announce", made |-> Spawned]]
          /\ UNCHANGED <<smState, smTerm, smExit>>
    /\ UNCHANGED <<smHost, smWatched, smSchedule, smListen, smPc, smJob, smGrip, smOutside,
                   smHup, smHistory>>

Announce(s) ==
    /\ StarterAt(s, "announce") /\ SmSet("running") /\ StarterGoto(s, "watch")
    /\ UNCHANGED <<smHost, smOwned, smPc, smJob, smGrip, smOutside, smHup, smHistory>>

\* The log line reads the handle, which a stop may have taken; then the event
\* is cleared and the monitor started.
Watch(s) ==
    /\ StarterAt(s, "watch")
    /\ IF smHandle = 0 THEN StarterFails(s) /\ UNCHANGED smWatched
       ELSE StarterGoto(s, "attend") /\ smWatched' = TRUE /\ UNCHANGED <<smState, smTerm, smExit>>
    /\ UNCHANGED <<smHost, smHandle, smProcs, smVersions, smSchedule, smListen, smPc, smJob,
                   smGrip, smOutside, smHup, smHistory>>

\* The scheduler, then the listener: a port that cannot be bound is logged, and
\* forgets the listener that has it.
Attend(s) ==
    /\ StarterAt(s, "attend") /\ StarterEnds(s)
    /\ smSchedule' = [handle |-> smStarter[s].made,
                      alive |-> smSchedule.alive \cup {smStarter[s].made}]
    /\ smListen' = IF smListen.bound = 0 /\ smUnit # "up"
                   THEN [handle |-> smStarter[s].made, bound |-> smStarter[s].made]
                   ELSE [smListen EXCEPT !.handle = 0]
    /\ UNCHANGED <<smHost, smState, smHandle, smProcs, smVersions, smWatched, smPc, smJob,
                   smGrip, smOutside, smSignals, smHistory>>

\* Mutant of Monitor: it ends at its first look.
MonitorOnce ==
    /\ SmAlive /\ smWatched /\ smWatched' = FALSE
    /\ UNCHANGED <<smHost, smState, smHandle, smProcs, smVersions, smSchedule, smListen,
                   smThreadVars, smOutside, smSignals, smHistory>>

\* _monitor_loop: ends when the state has changed, or reports a dead wstunnel.
Monitor ==
    /\ SmAlive /\ smWatched
    /\ \/ smState # "running" /\ UNCHANGED <<smState, smTerm, smExit>>
       \/ /\ smState = "running" /\ smHandle # 0 /\ smProcs[smHandle] = "dead"
          /\ SmSet("error")
    /\ smWatched' = FALSE
    /\ UNCHANGED <<smHost, smHandle, smProcs, smVersions, smSchedule, smListen, smThreadVars,
                   smOutside, smHup, smHistory>>

-----------------------------------------------------------------------------
(* The panel's API; each call that takes long goes on on a thread.         *)

ApiCall(c) ==
    /\ SmAlive /\ smHost # "serve" /\ smPc[c] = "idle" /\ smPc[Main] # "setup"
    /\ smCalls < MaxApiCalls /\ smCalls' = smCalls + 1

\* start_service, stop_service and restart_service of a transport of its own.
ApiControl(c) ==
    /\ ApiCall(c) /\ Control = "full"
    /\ \E job \in {"start", "stop", "restart"} :
          /\ smJob' = [smJob EXCEPT ![c] = job]
          /\ SmGoto(c, IF job = "start" THEN "start" ELSE "signal")
    /\ UNCHANGED <<smHost, smState, smOwned, smStarter, smGrip, smOutside, smSignals,
                   smAsked, smMet, smRevived, smUpsets>>

\* restart_service beside systemd.
ApiBounceUnits(c) ==
    /\ ApiCall(c) /\ Control = "restart" /\ RestartUnits
    /\ UNCHANGED <<smHost, smState, smOwned, smThreadVars, smDisk, smMem, smSignals,
                   smAsked, smMet, smRevived, smUpsets>>

\* update_server_config and rotate_tls_cert: saved, then bounced on a thread.
ApiChange(c) ==
    /\ ApiCall(c) /\ smDisk < MaxEdits
    /\ \E job \in {"update", "rotate"} : smJob' = [smJob EXCEPT ![c] = job]
    /\ smDisk' = smDisk + 1 /\ smMem' = smDisk + 1 /\ SmGoto(c, "bounce")
    /\ UNCHANGED <<smHost, smState, smOwned, smStarter, smGrip, smUnit, smUnitRuns, smWg,
                   smSignals, smAsked, smMet, smRevived, smUpsets>>

\* _bounce_wstunnel: the unit if it runs, and the subprocess if there is one.
Bounce(c) ==
    /\ SmAlive /\ smPc[c] = "bounce"
    /\ smUnitRuns' = IF smUnit = "up" THEN smMem ELSE smUnitRuns
    /\ SmGoto(c, IF smHandle # 0 THEN "signal" ELSE IF smJob[c] = "update" THEN "rewire" ELSE "idle")
    /\ smJob' = [smJob EXCEPT ![c] = IF smHandle # 0 THEN @ ELSE "none"]
    /\ UNCHANGED <<smHost, smState, smOwned, smStarter, smGrip, smUnit, smWg, smDisk,
                   smMem, smSignals, smHistory>>

\* ... and reconcile at the end of update_server_config.
Rewire(c) ==
    /\ SmAlive /\ smPc[c] = "rewire" /\ SmGoto(c, "idle")
    /\ WgUp \/ (SmFaults /\ UNCHANGED smWg)
    /\ UNCHANGED <<smHost, smState, smOwned, smStarter, smJob, smGrip, smUnit, smUnitRuns,
                   smDisk, smMem, smSignals, smHistory>>

-----------------------------------------------------------------------------
(* What happens around the process.                                        *)

\* Another process saves the configuration; an enrolment makes the manager read
\* it before a SIGHUP does.  A panel's poll keeps its copy current.
OutsideEdit ==
    /\ SmAlive /\ smHost = "serve" /\ smDisk < MaxEdits /\ smDisk' = smDisk + 1
    /\ UNCHANGED <<smHost, smState, smOwned, smThreadVars, smUnit, smUnitRuns, smWg, smMem,
                   smSignals, smHistory>>

RefreshConfig ==
    /\ SmAlive /\ smMem # smDisk /\ smMem' = smDisk
    /\ UNCHANGED <<smHost, smState, smOwned, smThreadVars, smUnit, smUnitRuns, smWg, smDisk,
                   smSignals, smHistory>>

TransportDies ==
    /\ SmAlive /\ smUpsets < MaxUpsets /\ smUpsets' = smUpsets + 1
    /\ \E i \in Spawns : smProcs[i] = "up" /\ Ends(i)
    /\ UNCHANGED <<smHost, smState, smHandle, smWatched, smSchedule, smListen,
                   smThreadVars, smOutside, smSignals, smAsked, smMet, smRevived, smCalls>>

\* systemctl start or stop, by the administrator.
UnitChanges ==
    /\ SmAlive /\ smUpsets < MaxUpsets /\ smUpsets' = smUpsets + 1
    /\ \/ smUnit = "up" /\ smUnit' = "down" /\ UNCHANGED smWg
       \/ smUnit = "down" /\ smUnit' = "up" /\ smWg' = TRUE
    /\ UNCHANGED <<smHost, smState, smOwned, smThreadVars, smUnitRuns, smDisk, smMem,
                   smSignals, smAsked, smMet, smRevived, smCalls>>

-----------------------------------------------------------------------------

StopStep(c) ==
    \/ StopSignal(c) \/ StopTake(c) \/ StopKill(c) \/ StopUnwire(c)
    \/ StopSettle(c) \/ StopExit(c)

StarterStep(s) ==
    \/ Wire(s) \/ Spawn(s) \/ Announce(s) \/ Watch(s) \/ Attend(s)

ThreadStep(c) == SmAlive /\ (StopStep(c) \/ Start(c) \/ Bounce(c) \/ Rewire(c))

SmNext ==
    \/ LaunchServe \/ LaunchApp \/ LaunchWeb \/ SmSetup \/ SmQuit \/ Sighup \/ Sigterm \/ Reload \/ Monitor
    \/ \E c \in SmThreads : ThreadStep(c)
    \/ \E s \in Starters : StarterStep(s)
    \/ \E c \in Callers : ApiControl(c) \/ ApiBounceUnits(c) \/ ApiChange(c)
    \/ OutsideEdit \/ RefreshConfig \/ TransportDies \/ UnitChanges

\* Threads run and the watchdog's timer fires; administrators, signals and
\* crashes owe nothing.
SmServeLoop == smHost = "serve" /\ (SmQuit \/ Reload)
SmFairness ==
    /\ \A c \in SmThreads : WF_smVars(ThreadStep(c))
    /\ \A s \in Starters : WF_smVars(StarterStep(s))
    /\ WF_smVars(Monitor) /\ WF_smVars(SmServeLoop)

SmSpec == SmInit /\ [][SmNext]_smVars /\ SmFairness

-----------------------------------------------------------------------------
(* Properties.                                                             *)

SmRuns == smHandle # 0 /\ smProcs[smHandle] = "up"
SmIdle == ~SmStarting /\ \A c \in SmThreads : smPc[c] \in {"idle", "setup", "gone"}

\* A serve process never lingers with the tunnel down: its transport and its
\* interface are up, or it exits for the supervisor to restart it (unless a
\* reload falls into a start that is still under way).
SmServeWhole ==
    (smHost = "serve") ~> \/ smState = "running" /\ SmRuns /\ smWg
                          \/ smExit # 9 /\ ~SmAlive
                          \/ smMet

\* A wstunnel that dies under a manager that shows "running" is noticed, with
\* any number of overlapping stops, restarts and starts.
SmDeathNoticed ==
    LET Dead == smState = "running" /\ smHandle # 0 /\ smProcs[smHandle] = "dead"
    IN  Dead ~> (~Dead \/ ~SmAlive)

\* As long as calls have not met, no wstunnel runs that nobody refers to; and a
\* stop that has ended leaves no process, scheduler or listener of a server that
\* was not restarted over a dead one.
SmStoppedClean ==
    ~smMet =>
        /\ \A i \in Spawns : smProcs[i] = "up" => i = smHandle \/ \E c \in SmThreads : smGrip[c] = i
        /\ (SmIdle /\ smState = "stopped" /\ ~smRevived)
              => smHandle = 0 /\ smSchedule.alive = {} /\ smListen.bound = 0

\* A SIGHUP brings the configuration that was on disk when it was sent into the
\* running transport, or the process exits.
SmReloadApplied ==
    \A v \in 1 .. MaxEdits :
        (smAsked = v) ~> \/ SmRuns /\ smVersions[smHandle] >= v
                         \/ ~SmAlive \/ smMet
=============================================================================
