---------------------------- MODULE TunnelOwners ----------------------------
(***************************************************************************)
(* Who runs the tunnel on a Linux machine (ownership.py): the window       *)
(* (app.py, api.py), the terminal interface (tui/app.py), `outwarp connect`*)
(* and the background service (service.py) each build a TunnelManager of   *)
(* their own; a lock on a file lets one of them bring the tunnel up, and   *)
(* the window and the terminal interface become viewers while the service  *)
(* runs it.  `outwarp profile use` takes the lock for a moment to learn    *)
(* whether anyone has it.  What one manager does is TunnelManager's; here  *)
(* it is up or not.                                                        *)
(***************************************************************************)
EXTENDS Naturals, FiniteSets

Surfaces == {"gui", "tui", "connect", "daemon", "probe"}

CONSTANT
    MaxUpheavals   \* bound: the service toggled, processes killed, give-ups

ASSUME TunnelOwnersAssumption == MaxUpheavals \in Nat

VARIABLES
    toRole,   \* each surface: "out", "asking", "owner", "handing", "viewer", "failed"
    toLock,   \* who holds the TunnelOwnerLock, or "nobody"
    toUp,     \* the surfaces whose manager runs a tunnel
    toUnit,   \* outwarp-client.service: "absent", "active", "waiting" for its
              \* restart, "refused" (exit code 4), "stopped"
    toIntruders, \* the window and the terminal interface, once they have started
              \* their manager without the lock
    toUpheavals

toVars == <<toRole, toLock, toUp, toUnit, toIntruders, toUpheavals>>

ToInit ==
    /\ toRole = [p \in Surfaces |-> "out"] /\ toLock = "nobody" /\ toUp = {}
    /\ toUnit = "absent" /\ toIntruders = {} /\ toUpheavals = 0

RoleTo(p, role) == toRole' = [toRole EXCEPT ![p] = role]
Upheaval == toUpheavals < MaxUpheavals /\ toUpheavals' = toUpheavals + 1
ServiceIsActive == toUnit = "active"

\* TunnelOwnerLock.acquire and release; a process that ends releases it.
Acquire(p) == toLock = "nobody" /\ toLock' = p
Release(p) == toLock' = IF toLock = p THEN "nobody" ELSE toLock
Leave(p) ==
    /\ RoleTo(p, "out") /\ Release(p)
    /\ toUp' = toUp \ {p} /\ toIntruders' = toIntruders \ {p}
\* A manager is started without a look at the lock.
Starts(p) ==
    /\ toUp' = toUp \cup {p}
    /\ toIntruders' = IF toLock = p THEN toIntruders ELSE toIntruders \cup {p}

-----------------------------------------------------------------------------
(* The window.                                                             *)

\* main: the service is looked at first.
GuiLaunch ==
    /\ toRole["gui"] = "out"
    /\ RoleTo("gui", IF ServiceIsActive THEN "viewer" ELSE "asking")
    /\ UNCHANGED <<toLock, toUp, toUnit, toIntruders, toUpheavals>>

\* main: the lock, or out; it connects if a profile and the settings say so.
GuiAcquire ==
    /\ toRole["gui"] = "asking"
    /\ IF toLock = "nobody"
       THEN /\ Acquire("gui") /\ RoleTo("gui", "owner")
            /\ toUp' \in {toUp, toUp \cup {"gui"}}
       ELSE RoleTo("gui", "out") /\ UNCHANGED <<toLock, toUp>>
    /\ UNCHANGED <<toUnit, toIntruders, toUpheavals>>

\* connect and disconnect are refused to a viewer.
GuiConnect ==
    /\ toRole["gui"] \in {"owner", "handing"}
    /\ toUp' \in {toUp \cup {"gui"}, toUp \ {"gui"}}
    /\ UNCHANGED <<toRole, toLock, toUnit, toIntruders, toUpheavals>>

\* import_profile and reconnect are not: they start the window's manager.
GuiStartsAnyway ==
    /\ toRole["gui"] \in {"owner", "handing", "viewer"} /\ Starts("gui")
    /\ UNCHANGED <<toRole, toLock, toUnit, toUpheavals>>

\* set_service_enabled(True): the manager is stopped; the lock is kept.
GuiEnable ==
    /\ Upheaval /\ toRole["gui"] = "owner"
    /\ RoleTo("gui", "handing") /\ toUp' = toUp \ {"gui"}
    /\ UNCHANGED <<toLock, toUnit, toIntruders>>

\* install_service: `systemctl enable --now` does not wait for the daemon.
GuiInstall ==
    /\ toRole["gui"] = "handing"
    /\ \/ toUnit' = "active" /\ RoleTo("gui", "viewer") /\ UNCHANGED toUp
       \/ RoleTo("gui", "owner") /\ toUp' = toUp \cup {"gui"} /\ UNCHANGED toUnit
    /\ UNCHANGED <<toLock, toIntruders, toUpheavals>>

\* uninstall_service: systemctl waits for the daemon to end.
Uninstall ==
    /\ toUnit' = "absent"
    /\ toRole["daemon"] = "out"

\* set_service_enabled(False): the window's manager is started at once.
GuiDisable ==
    /\ toRole["gui"] \in {"owner", "viewer"} /\ toUnit # "absent"
    /\ Uninstall /\ RoleTo("gui", "owner") /\ Starts("gui")
    /\ UNCHANGED <<toLock, toUpheavals>>

GuiQuit ==
    /\ toRole["gui"] \in {"owner", "viewer"} /\ Leave("gui")
    /\ UNCHANGED <<toUnit, toUpheavals>>

-----------------------------------------------------------------------------
(* The terminal interface.                                                 *)

\* The disjunct of reload_config that applies: a viewer of the service, the
\* failed screen, or the owner, whose manager is built afresh (start_manager)
\* and started if that is what the settings say.
ReloadConfig ==
    LET viewer == toRole["tui"] = "viewer" \/ ServiceIsActive
    IN  \/ /\ viewer
           /\ RoleTo("tui", "viewer") /\ toUp' = toUp \ {"tui"} /\ UNCHANGED toLock
        \/ /\ ~viewer /\ toLock \notin {"nobody", "tui"}
           /\ RoleTo("tui", "failed") /\ UNCHANGED <<toLock, toUp>>
        \/ /\ ~viewer /\ toLock \in {"nobody", "tui"}
           /\ toLock' = "tui" /\ RoleTo("tui", "owner")
           /\ toUp' \in {toUp \ {"tui"}, toUp \cup {"tui"}}

\* Mutant of TuiReload: the service is taken to be the only other owner.
TuiReloadUnlocked ==
    /\ toRole["tui"] \in {"out", "failed", "owner"}
    /\ RoleTo("tui", IF ServiceIsActive THEN "viewer" ELSE "owner")
    /\ toUp' \in {toUp \ {"tui"}, toUp \cup {"tui"}}
    /\ UNCHANGED <<toLock, toUnit, toIntruders, toUpheavals>>

\* Launch, an import, a profile removed.
TuiReload ==
    /\ toRole["tui"] \in {"out", "failed", "owner", "viewer"} /\ ReloadConfig
    /\ UNCHANGED <<toUnit, toIntruders, toUpheavals>>

\* start_manager by itself: a reconnect, a retry on the failed screen, also of one
\* that has lost the lock to another; an edit of the profile, also by a viewer.
TuiStartsAnyway ==
    /\ toRole["tui"] # "out" /\ Starts("tui")
    /\ UNCHANGED <<toRole, toLock, toUnit, toUpheavals>>

\* Refused to a viewer.
TuiDisconnect ==
    /\ toRole["tui"] \in {"owner", "failed", "handing"} /\ toUp' = toUp \ {"tui"}
    /\ UNCHANGED <<toRole, toLock, toUnit, toIntruders, toUpheavals>>

\* _toggle_service: the manager is stopped and the lock released first.
TuiEnable ==
    /\ Upheaval /\ toRole["tui"] \in {"owner", "failed", "viewer"}
    /\ RoleTo("tui", "handing") /\ toUp' = toUp \ {"tui"} /\ Release("tui")
    /\ UNCHANGED <<toUnit, toIntruders>>

\* enter_viewer_mode stops what was started meanwhile; leave_viewer_mode reloads.
TuiInstall ==
    /\ toRole["tui"] = "handing"
    /\ \/ /\ toUnit' = "active" /\ RoleTo("tui", "viewer") /\ toUp' = toUp \ {"tui"}
          /\ UNCHANGED toLock
       \/ ReloadConfig /\ UNCHANGED toUnit
    /\ UNCHANGED <<toIntruders, toUpheavals>>

\* leave_viewer_mode: the service is gone, the configuration is loaded again.
TuiDisable ==
    /\ toRole["tui"] \in {"owner", "failed", "viewer"} /\ toUnit # "absent" /\ Uninstall
    /\ IF toLock \in {"nobody", "tui"}
       THEN toLock' = "tui" /\ RoleTo("tui", "owner")
            /\ toUp' \in {toUp \ {"tui"}, toUp \cup {"tui"}}
       ELSE RoleTo("tui", "failed") /\ UNCHANGED <<toLock, toUp>>
    /\ UNCHANGED <<toIntruders, toUpheavals>>

TuiQuit ==
    /\ toRole["tui"] \in {"owner", "viewer", "failed"} /\ Leave("tui")
    /\ UNCHANGED <<toUnit, toUpheavals>>

-----------------------------------------------------------------------------
(* `outwarp connect`, `outwarp profile use`, the service.                  *)

ConnectRuns ==
    /\ toRole["connect"] = "out" /\ Acquire("connect")
    /\ RoleTo("connect", "owner") /\ toUp' = toUp \cup {"connect"}
    /\ UNCHANGED <<toUnit, toIntruders, toUpheavals>>

ConnectEnds ==
    /\ toRole["connect"] = "owner" /\ Leave("connect")
    /\ UNCHANGED <<toUnit, toUpheavals>>

\* _tunnel_in_use: nobody has it, so it is taken and given back.
ProbeTakes ==
    /\ toRole["probe"] = "out" /\ ~ServiceIsActive /\ Acquire("probe")
    /\ RoleTo("probe", "owner")
    /\ UNCHANGED <<toUp, toUnit, toIntruders, toUpheavals>>

ProbeGivesBack ==
    /\ toRole["probe"] = "owner" /\ Leave("probe")
    /\ UNCHANGED <<toUnit, toUpheavals>>

\* run_daemon: exit code 4 without the lock, and the unit is not restarted.
DaemonStart ==
    /\ toUnit = "active" /\ toRole["daemon"] = "out"
    /\ IF toLock = "nobody"
       THEN /\ Acquire("daemon") /\ RoleTo("daemon", "owner")
            /\ toUp' = toUp \cup {"daemon"} /\ UNCHANGED toUnit
       ELSE toUnit' = "refused" /\ UNCHANGED <<toRole, toLock, toUp>>
    /\ UNCHANGED <<toIntruders, toUpheavals>>

\* It gives up (exit code 3) or is killed, and is started again later; or it is
\* told to stop.
DaemonEnds ==
    /\ toRole["daemon"] = "owner" /\ Leave("daemon")
    /\ \/ Upheaval /\ toUnit' = "waiting"
       \/ toUnit' = "stopped" /\ UNCHANGED toUpheavals

UnitRestarts ==
    /\ toUnit = "waiting" /\ toUnit' = "active"
    /\ UNCHANGED <<toRole, toLock, toUp, toIntruders, toUpheavals>>

\* A process is killed: the system releases its lock.
SurfaceKilled ==
    /\ Upheaval
    /\ \E p \in {"gui", "tui", "connect"} : toRole[p] # "out" /\ Leave(p)
    /\ UNCHANGED toUnit

ToNext ==
    \/ GuiLaunch \/ GuiAcquire \/ GuiConnect \/ GuiStartsAnyway \/ GuiEnable
    \/ GuiInstall \/ GuiDisable \/ GuiQuit
    \/ TuiReload \/ TuiStartsAnyway \/ TuiDisconnect \/ TuiEnable \/ TuiInstall \/ TuiDisable \/ TuiQuit
    \/ ConnectRuns \/ ConnectEnds \/ ProbeTakes \/ ProbeGivesBack
    \/ DaemonStart \/ DaemonEnds \/ UnitRestarts \/ SurfaceKilled

ToSpec == ToInit /\ [][ToNext]_toVars

-----------------------------------------------------------------------------
(* Properties.                                                             *)

\* One process at a time runs the tunnel, over launches, hand-overs, restarts
\* and kills in any order; but for a window or a terminal interface that has
\* started its manager without the lock, and even then of all the others.
\* (ownership.py: "Who owns the tunnel: one process at a time".)
ToOneOwner == Cardinality(toUp \ toIntruders) <= 1
=============================================================================
