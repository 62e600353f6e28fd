---------------------------- MODULE ClientDaemon ----------------------------
(***************************************************************************)
(* The background service of the client: run_daemon (service.py) driving   *)
(* one TunnelManager, and the service manager that starts it, stops it and *)
(* restarts it on failure (the unit says Restart=on-failure, RestartSec=10 *)
(* and no restart for exit codes 2 and 4).  A process takes its memory     *)
(* with it; the interface and the firewall rules outlive it.               *)
(***************************************************************************)
EXTENDS TunnelManager

CONSTANTS
    Main,       \* the daemon's main thread, the only controller
    MaxKills    \* bound: processes killed

ASSUME DaemonAssumption == Controllers = {Main} /\ MaxKills \in Nat

VARIABLES
    unit,     \* the service: "inactive", "active" or "restarting"
    gaveUp,   \* run_daemon's gave_up event: did this process exit with code 3?
    asked,    \* has the user stopped the service?
    kills,    \* processes of the service killed so far
    orphans   \* history: what is in the system that no process answers for

service == <<unit, gaveUp, asked, kills, orphans>>
dvars == <<vars, service>>

DaemonInit ==
    /\ Init
    /\ unit = "inactive" /\ gaveUp = FALSE /\ asked = FALSE /\ kills = 0 /\ orphans = {}

\* The memory of a process that has not run yet, or is gone.  systemd kills the
\* wstunnel of a dead daemon with it.
FreshMemory ==
    /\ state' = "disconnected" /\ halted' = FALSE /\ cancel' = FALSE
    /\ proc' = "none" /\ strays' = 0 /\ wg' = FALSE
    /\ then' = [t \in Threads |-> "idle"]
    /\ target' = [t \in Threads |-> "disconnected"]
    /\ attempt' = 0 /\ rung' = 1 /\ session' = FALSE

\* Mutant of Startup: rules of the kill switch are taken for litter.
StartupReleasing ==
    /\ unit \in {"inactive", "restarting"}
    /\ unit' = "active" /\ asked' = FALSE /\ gaveUp' = FALSE
    /\ pc' = [t \in Threads |-> IF t = Main THEN "start" ELSE "dead"]
    /\ ks' = FALSE
    /\ UNCHANGED <<manager, tunnel, then, target, local, session, calls, kills, orphans>>

\* The unit starts run_daemon, which owns the tunnel, releases a stale kill
\* switch unless the switch is on, and starts the manager.
Startup ==
    /\ unit \in {"inactive", "restarting"}
    /\ unit' = "active" /\ asked' = FALSE /\ gaveUp' = FALSE
    /\ pc' = [t \in Threads |-> IF t = Main THEN "start" ELSE "dead"]
    /\ ks' = (KillSwitch /\ ks)
    /\ UNCHANGED <<manager, tunnel, then, target, local, session, calls, kills, orphans>>

\* Main leaves its loop for manager.stop().
LeaveLoop == Call(Main, "halt", "settle") /\ UNCHANGED target

Looping == unit = "active" /\ pc[Main] = "idle" /\ ~halted

\* The state listener saw FAILED.
GaveUp ==
    /\ Looping /\ state = "failed" /\ pc[Worker] = "dead"
    /\ gaveUp' = TRUE
    /\ LeaveLoop
    /\ UNCHANGED <<manager, tunnel, ks, local, session, calls, unit, asked, kills, orphans>>

\* `systemctl stop`: SIGTERM, or the end of the wait for a restart.
StopService ==
    /\ unit # "inactive" /\ ~asked
    /\ asked' = TRUE
    /\ unit' = IF unit = "active" THEN "active" ELSE "inactive"
    /\ UNCHANGED <<vars, gaveUp, kills, orphans>>

\* The main loop sees the signal.
Terminated ==
    /\ Looping /\ asked
    /\ LeaveLoop
    /\ UNCHANGED <<manager, tunnel, ks, local, session, calls, service>>

\* Mutant of Restarts: giving up is a success.
RestartsNever == FALSE

\* Exit code 3 after giving up, 0 otherwise; a unit being stopped stays stopped.
Restarts == gaveUp /\ ~asked

InPlace(x) == IF x = "interface" THEN iface # "down" ELSE ks
Returned == unit = "active" /\ pc[Main] = "idle" /\ halted

\* manager.stop() has returned: run_daemon returns.
Exit ==
    /\ Returned
    /\ unit' = IF Restarts THEN "restarting" ELSE "inactive"
    /\ FreshMemory
    /\ pc' = [t \in Threads |-> IF t = Worker THEN "dead" ELSE "idle"]
    /\ UNCHANGED <<iface, ks, calls, gaveUp, asked, kills, orphans>>

\* The process is killed in the middle of anything: what it has put into the
\* system stays there, and the next one knows nothing of it.
Killed ==
    /\ unit = "active" /\ kills < MaxKills
    /\ unit' = IF asked THEN "inactive" ELSE "restarting"
    /\ kills' = kills + 1 /\ gaveUp' = FALSE
    /\ orphans' = orphans \cup {x \in {"interface", "rules"} : InPlace(x)}
    /\ FreshMemory
    /\ pc' = [t \in Threads |-> IF t = Worker THEN "dead" ELSE "idle"]
    /\ UNCHANGED <<iface, ks, calls, asked>>

\* What no process answers for after a step of the manager.
Orphaned(x) ==
    IF x = "interface" THEN RemovalFails \/ (x \in orphans /\ ~Installs)
                       ELSE ReleaseFails \/ (x \in orphans /\ ~Reports)

Beside ==
    /\ orphans' = {x \in {"interface", "rules"} : Orphaned(x)}
    /\ UNCHANGED <<unit, gaveUp, asked, kills>>

ManagerStep == (WorkerStep \/ ControllerStep(Main)) /\ Beside

Surroundings ==
    /\ TransportDies \/ InterfaceVanishes
    /\ UNCHANGED service

MainStep == GaveUp \/ Terminated \/ Exit
Restart == unit = "restarting" /\ Startup

DaemonNext ==
    \/ Startup \/ MainStep \/ StopService \/ Killed \/ ManagerStep \/ Surroundings

DaemonSpec == DaemonInit /\ [][DaemonNext]_dvars

\* Threads that can run do, and systemd restarts what has failed.
FairDaemon ==
    /\ DaemonSpec
    /\ WF_dvars(WorkerStep /\ Beside)
    /\ WF_dvars(ControllerStep(Main) /\ Beside)
    /\ WF_dvars(MainStep)
    /\ WF_dvars(Restart)

-----------------------------------------------------------------------------
(* Properties.                                                             *)

\* A service that is stopped leaves nothing behind, whatever it gave up before,
\* wherever the signal meets it and whatever a killed process has left: stop()
\* returns with no wstunnel running, and the interface and the rules are gone.
\* The exceptions are those whose own removal was the last to fail, and those a
\* killed process has left where its successor is stopped before it has put an
\* interface of its own in the place, or before the first change of its state.
StopLeavesNothing ==
    /\ Returned => proc = "none" /\ strays = 0
    /\ unit = "inactive" =>
          /\ iface = "up" => "interface" \in orphans
          /\ ks => "rules" \in orphans

\* A killed service keeps the network closed until it is connected again: the
\* rules a session was behind are still there when its successor dials.
ClosedUntilConnected ==
    [][ks /\ ~ks' => state = "connected" \/ halted]_dvars

\* Giving up is handed back to the service manager: there is a fresh attempt,
\* unless the user stops the service (service.py: "a laptop that booted before
\* its Wi-Fi came up had no tunnel until someone restarted the unit by hand").
RetriesAgain == state = "failed" ~> state = "connecting" \/ asked

\* The user's stop ends the service, whatever the tunnel is doing.
StopHonoured == asked ~> unit # "active"

\* The service answers to what it is told, and to what the tunnel tells it.
ServiceAnswers == RetriesAgain /\ StopHonoured

\* With the switch on, "the service manager restarting us after a FAILED exit
\* must not open the network" (service.py).
ClosedAfterGivingUp ==
    unit = "restarting" /\ gaveUp /\ KillSwitch /\ "engage" \notin Faults => ks
=============================================================================
