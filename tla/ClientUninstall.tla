---------------------------- MODULE ClientUninstall ----------------------------
(***************************************************************************)
(* What a client leaves on the machine, and `outwarp uninstall`, which has *)
(* to take it all away (uninstall.py, platforms/linux.py and windows.py).  *)
(* A client engages and releases the kill switch as the tunnel comes and   *)
(* goes; on Linux it needs the privileged helper for that and for the      *)
(* WireGuard link, and the helper is one of the files to remove.  Clients  *)
(* die anywhere; on Windows the firewall and the tunnel's service survive  *)
(* a reboot, and `recover-tunnel` and the next start tidy up.  Firewall    *)
(* commands are taken to succeed, except where a rule is added.            *)
(***************************************************************************)
EXTENDS Naturals, Sequences

CONSTANT MaxClients   \* bound: client processes

VARIABLES
    chKind,    \* "linux" or "windows"
    chKnown,   \* does the uninstalling user's own directory hold the profile?
    chGuard,   \* settings: the kill switch is on
    chWall,    \* the kill switch: "allow" and "tunnel" rules, "block" by default
    chLink,    \* WireGuard: is it up, can it be found, and history: has the last removal
               \* left it up?
    chFiles,   \* what is installed
    chClient,  \* the client process: what it is at
    chJob,     \* the uninstall command: steps done, and whether one failed
    chMet,     \* history: a client was alive when or after the switch was released
    chStarts   \* client processes so far

chVars ==
    <<chKind, chKnown, chGuard, chWall, chLink, chFiles, chClient, chJob, chMet, chStarts>>
chUser == <<chKind, chKnown, chGuard>>

Windows == chKind = "windows"
Rules == {"allow", "tunnel"}

\* The helper on Linux; on Windows the system's own tools.
CanAct == Windows \/ "helper" \in chFiles

ChInit ==
    /\ chKind \in {"linux", "windows"} /\ chKnown \in BOOLEAN /\ chGuard \in BOOLEAN
    /\ chWall = {} /\ chLink = [up |-> FALSE, marked |-> FALSE, hung |-> FALSE]
    /\ chFiles = {"config", "shortcuts", "prefix"} \union (IF Windows THEN {} ELSE {"helper"})
    /\ chClient = "none" /\ chJob = [done |-> 0, warned |-> FALSE] /\ chMet = FALSE
    /\ chStarts = 0

\* release_kill_switch: silently nothing without the helper.
Released == IF CanAct THEN {} ELSE chWall

\* uninstall_wg_tunnel.  The service may not stop in time on Windows, and nobody asks
\* the helper's `wg-quick down` how it went: the files go all the same.
Downs ==
    LET gone == [up |-> FALSE, marked |-> FALSE, hung |-> FALSE]
        hangs == [up |-> TRUE, marked |-> FALSE, hung |-> TRUE]
    IN  IF ~CanAct THEN {chLink}
        ELSE {gone} \union IF chLink.up THEN {hangs} ELSE {}

\* remove_stale_tunnels: those whose marker is there (or that have the default name).
Tidied == IF Windows /\ chLink.marked THEN Downs ELSE {chLink}

-----------------------------------------------------------------------------
(* The client.                                                             *)

\* A start clears the rules of a dead session unless the switch is on; the GUI removes
\* a tunnel nobody owns.
ClientStarts ==
    /\ chClient = "none" /\ "prefix" \in chFiles /\ chStarts < MaxClients
    /\ chStarts' = chStarts + 1 /\ chClient' = "dialling"
    /\ chWall' = IF chGuard THEN chWall ELSE Released
    /\ \E gui \in BOOLEAN : chLink' \in IF gui THEN Tidied ELSE {chLink}
    /\ chMet' = (chMet \/ chJob.done > 0)
    /\ UNCHANGED <<chUser, chFiles, chJob>>

\* install_wg_tunnel (which first removes a service of the name), wstunnel, connected:
\* reconcile releases the switch.
Connected ==
    /\ chClient = "dialling" /\ CanAct /\ "config" \in chFiles
    /\ chClient' = "connected" /\ chWall' = IF chGuard THEN Released ELSE chWall
    /\ chLink' = [up |-> TRUE, marked |-> TRUE, hung |-> FALSE]
    /\ UNCHANGED <<chUser, chFiles, chJob, chMet, chStarts>>

\* The poll finds the transport or the link dead; an attempt that fails is over, too.
LinkLost ==
    /\ chClient \in {"connected", "dialling"}
    /\ chClient' = IF chGuard THEN "engaging" ELSE "dialling"
    /\ chLink' \in Downs
    /\ UNCHANGED <<chUser, chWall, chFiles, chJob, chMet, chStarts>>

\* engage_kill_switch on Linux: one call of the helper (or a logged error).
EngageHelper ==
    /\ ~Windows /\ chClient = "engaging" /\ chClient' = "dialling"
    /\ chWall' = IF CanAct THEN Rules \union {"block"} ELSE chWall
    /\ UNCHANGED <<chUser, chLink, chFiles, chJob, chMet, chStarts>>

\* engage_kill_switch on Windows: the old rules go, the new ones come, and then the
\* default.  A rule that cannot be added takes the others with it.
EngageNetsh ==
    /\ Windows
    /\ \/ chClient = "engaging" /\ chWall' = chWall \ Rules /\ chClient' = "allowing"
       \/ chClient = "allowing" /\ chWall' = chWall \union {"allow"} /\ chClient' = "scoping"
       \/ chClient = "scoping" /\ chWall' = chWall \union {"tunnel"} /\ chClient' = "blocking"
       \/ chClient = "blocking" /\ chWall' = chWall \union {"block"} /\ chClient' = "dialling"
       \/ /\ chClient \in {"allowing", "scoping", "blocking"}
          /\ chWall' = chWall \ Rules /\ chClient' = "dialling"
    /\ UNCHANGED <<chUser, chLink, chFiles, chJob, chMet, chStarts>>

\* Quit, stop, SIGTERM where it is handled: stop() takes the link down, and the switch
\* is released.
ClientQuits ==
    /\ chClient \in {"connected", "dialling", "quitting"} /\ chClient' = "none"
    /\ chLink' \in Downs /\ chWall' = Released
    /\ UNCHANGED <<chUser, chFiles, chJob, chMet, chStarts>>

ClientDies ==
    /\ chClient # "none" /\ chClient' = "none"
    /\ UNCHANGED <<chUser, chWall, chLink, chFiles, chJob, chMet, chStarts>>

\* A reboot: Linux forgets rules and links; a Windows service may even come back.
Reboots ==
    /\ chClient' = "none"
    /\ chJob.done = 0   \* the command is not cut short
    /\ chWall' = IF Windows THEN chWall ELSE {}
    /\ chLink' = IF Windows THEN chLink ELSE [chLink EXCEPT !.up = FALSE]
    /\ UNCHANGED <<chUser, chFiles, chJob, chMet, chStarts>>

\* recover-tunnel, at boot and at every logon, where no owner runs.
RecoverTunnel ==
    /\ Windows /\ "prefix" \in chFiles /\ chClient = "none" /\ chLink' \in Tidied
    /\ UNCHANGED <<chUser, chWall, chFiles, chClient, chJob, chMet, chStarts>>

-----------------------------------------------------------------------------
(* The uninstaller.                                                        *)

\* Mutant of UnSteps: the files first.
UnStepsLate == <<"config", "shortcuts", "helper", "release", "link", "kill", "prefix">>

\* main: what is done, in order.
UnSteps == <<"release", "link", "kill", "config", "shortcuts", "helper", "prefix">>

AtStep(name) == chJob.done < Len(UnSteps) /\ UnSteps[chJob.done + 1] = name
Finished == chJob.done = Len(UnSteps)
Onwards == chJob' = [chJob EXCEPT !.done = @ + 1]

UnRelease ==
    /\ AtStep("release") /\ Onwards /\ chWall' = Released
    /\ chMet' = (chMet \/ chClient # "none")
    /\ UNCHANGED <<chUser, chLink, chFiles, chClient, chStarts>>

\* _tunnel_name_from_config: the tunnel of the profile it can read.
UnLink ==
    /\ AtStep("link") /\ Onwards
    /\ chLink' \in IF chKnown /\ "config" \in chFiles THEN Downs ELSE {chLink}
    /\ UNCHANGED <<chUser, chWall, chFiles, chClient, chMet, chStarts>>

\* _kill_running: pkill asks the commands it knows, taskkill ends the tray's process;
\* `outwarp launch` and, on Windows, the console commands are missed.
UnKill ==
    /\ AtStep("kill") /\ Onwards
    /\ chClient' \in {chClient, "none"} \union
          IF ~Windows /\ chClient \in {"connected", "dialling", "engaging"} THEN {"quitting"}
          ELSE {}
    /\ UNCHANGED <<chUser, chWall, chLink, chFiles, chMet, chStarts>>

\* The profile's directory (if it is the one found), the shortcuts, the helper and the
\* other files of the installer: one that cannot be removed is a warning.
UnRemove(what) ==
    /\ AtStep(what)
    /\ \/ Onwards /\ chFiles' = IF what = "config" /\ ~chKnown THEN chFiles
                                ELSE chFiles \ {what}
       \/ /\ what \in chFiles /\ UNCHANGED chFiles
          /\ chJob' = [done |-> chJob.done + 1, warned |-> TRUE]
    /\ UNCHANGED <<chUser, chWall, chLink, chClient, chMet, chStarts>>

\* The tree it runs from goes when it has ended: a script of its own sees to that.
UnSchedule ==
    /\ AtStep("prefix")
    /\ Onwards \/ chJob' = [done |-> chJob.done + 1, warned |-> TRUE]
    /\ UNCHANGED <<chUser, chWall, chLink, chFiles, chClient, chMet, chStarts>>

DeferredCleanup ==
    /\ Finished /\ chFiles' = chFiles \ {"prefix"}
    /\ UNCHANGED <<chUser, chWall, chLink, chClient, chJob, chMet, chStarts>>

ChNext ==
    \/ ClientStarts \/ Connected \/ LinkLost \/ EngageHelper \/ EngageNetsh
    \/ ClientQuits \/ ClientDies \/ Reboots \/ RecoverTunnel
    \/ UnRelease \/ UnLink \/ UnKill
    \/ \E what \in {"config", "shortcuts", "helper"} : UnRemove(what)
    \/ UnSchedule \/ DeferredCleanup

ChSpec == ChInit /\ [][ChNext]_chVars

\* "Uninstalling with the kill switch engaged used to leave the firewall rule live
\* after every trace of the tool that could disable it was gone": whatever sessions
\* died before it and wherever, a finished uninstall leaves no rule, no tunnel of the
\* profile it found (unless taking that down failed), and no file it did not warn about.
\* A client that outlived the first step is not covered: it may engage again.
UnLeavesOnline ==
    Finished /\ ~chMet =>
        /\ chWall = {}
        /\ chKnown /\ chLink.up => chLink.hung
        /\ ~chJob.warned => chFiles \subseteq {"prefix"} \union IF chKnown THEN {} ELSE {"config"}
=============================================================================
