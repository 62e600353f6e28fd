------------------------------ MODULE ServerHost ------------------------------
(***************************************************************************)
(* The machine the server runs on and the commands that shape it: the      *)
(* setup wizard (setup_wizard.py, k8s_init.py, service_install.py), the    *)
(* restart and uninstall commands (cli.py, operations.py), the panel's     *)
(* changes of settings and certificate beside systemd units (api.py) and   *)
(* the start of a process that owns the transport (server_manager.py),     *)
(* over the three platforms (platforms/linux.py, kubernetes.py,            *)
(* windows.py) and Caddy (caddy.py).  A command runs step by step; a step  *)
(* may fail, and the command may be killed, or the machine rebooted,       *)
(* between two of them.                                                    *)
(***************************************************************************)
EXTENDS Naturals, Sequences

CONSTANTS
    Subnets,        \* the subnets an administrator may choose
    Ports,          \* the public ports, Caddy's own among them
    InnerPorts,     \* the ports for wstunnel on the loopback interface, behind Caddy
    Setups,         \* what an administrator may answer to the wizard's questions
    MaxConfigs,     \* bound: configurations saved
    MaxHostJobs,    \* bound: commands run
    MaxHostFaults   \* bound: what the outside breaks, and failed steps

Https == "https"    \* 443: a site without a port, as setup writes it, is served there

ASSUME ServerHostAssumption ==
    /\ Subnets # {} /\ "none" \notin Subnets
    /\ Https \in Ports /\ Ports \cap InnerPorts = {} /\ "none" \notin Ports \cup InnerPorts
    /\ Setups \subseteq [domain : BOOLEAN, subnet : Subnets, port : Ports, inner : InnerPorts]
    /\ MaxConfigs \in Nat \ {0} /\ {MaxHostJobs, MaxHostFaults} \subseteq Nat

Kinds == {"systemd", "container", "windows"}
\* A configuration: which edit it is, behind Caddy or not, its subnet and its ports.
NoConfig == [gen |-> 0, domain |-> FALSE, subnet |-> "none", port |-> "none", inner |-> "none"]
Configured(c) == c.subnet # "none"

\* build_wstunnel_command: the port wstunnel is told to listen on.
WsPort(c) == IF c.domain THEN c.inner ELSE c.port

VARIABLES
    hoKind,      \* the platform
    hoBins,      \* is Caddy installed?
    hoConfig,    \* server_config.json
    hoWg,        \* WireGuard: its file, whether its unit is enabled and active, its
                 \* interface; history, until a reboot: whether an interface was deleted
                 \* behind the unit's back, whether one that is up, brought up by the doctor
                 \* or left by an uninstall, need not be enabled, the subnets whose rule no
                 \* PostDown will remove
    hoRules,     \* how many masquerading rules (NetNat entries) a subnet has
    hoForward,   \* IP forwarding: now, and kept over a reboot
    hoWall,      \* the firewall: "off", "shut" or "open" for our port
    hoProvider,  \* Windows: the NetNat provider, "missing", "pending", "present"
    hoTransport, \* wstunnel: the generation its unit was written for and the port it
                 \* names, the generation that runs and the port that one holds
    hoListener,  \* the enrolment listener: its unit, and whether it runs
    hoCaddy,     \* Caddy: does it run, the site written and the site loaded
    hoJob,       \* the command that runs, the steps it has left, is all well so far
    hoPromise,   \* history: what the last command that ended well has said
    hoMissed,    \* history: what the commands have failed at without knowing, since they
                 \* do not look how a program they ran has ended, and have not done since
    hoJobs, hoFaults  \* what the bounds count

hoWgVars == <<hoWg, hoRules, hoForward, hoWall>>
hoServices == <<hoTransport, hoListener, hoCaddy>>
hoMachine == <<hoKind, hoBins, hoProvider, hoConfig>>
hoVars == <<hoMachine, hoWgVars, hoServices, hoJob, hoPromise, hoMissed, hoJobs, hoFaults>>

NoJob == [op |-> "none", left |-> <<>>, well |-> TRUE, by |-> "none"]
Nothing == [says |-> "nothing", by |-> "none", subnet |-> "none", units |-> {}, port |-> "none"]

HoInit ==
    /\ hoKind \in Kinds
    /\ hoBins \in (IF hoKind = "systemd" THEN BOOLEAN ELSE {FALSE})
    /\ hoConfig = NoConfig
    /\ hoWg = [conf |-> NoConfig, enabled |-> FALSE, active |-> FALSE, link |-> 0,
               gone |-> FALSE, loose |-> FALSE, strays |-> {}]
    /\ hoRules = [s \in Subnets |-> 0]
    /\ hoForward = [now |-> hoKind = "container", kept |-> FALSE]
    /\ hoWall \in (IF hoKind = "container" THEN {"off"} ELSE {"off", "shut"})
    /\ hoProvider \in (IF hoKind = "windows" THEN {"missing", "present"} ELSE {"present"})
    /\ hoTransport = [unit |-> 0, names |-> "none", runs |-> 0, holds |-> "none"]
    /\ hoListener = [unit |-> FALSE, up |-> FALSE]
    /\ hoCaddy = [up |-> FALSE, site |-> 0, loaded |-> 0]
    /\ hoJob = NoJob /\ hoPromise = Nothing /\ hoMissed = {}
    /\ hoJobs = 0 /\ hoFaults = 0

-----------------------------------------------------------------------------
(* WireGuard.  An interface that is up has the generation whose file it    *)
(* came up from; 0 is no interface.                                        *)

WgActive == hoWg.link # 0
More(rules, s) == [rules EXCEPT ![s] = @ + 1]
Less(rules, s) == IF s \in Subnets /\ rules[s] > 0 THEN [rules EXCEPT ![s] = @ - 1] ELSE rules

\* A file written under an interface that came up from another subnet's: its PostDown
\* does not remove the rule that is there.
Filed(c) ==
    [hoWg EXCEPT !.conf = c,
                 !.strays = IF WgActive /\ hoWg.conf.subnet # c.subnet
                            THEN @ \cup {hoWg.conf.subnet} ELSE @]

\* wg-quick up: PostUp appends the rule and, outside a container, sets ip_forward.
QuickUp(wg, rules) ==
    /\ hoWg' = [wg EXCEPT !.active = hoKind = "systemd", !.link = wg.conf.gen]
    /\ hoRules' = More(rules, wg.conf.subnet)
    /\ hoForward' = IF hoKind = "systemd" THEN [hoForward EXCEPT !.now = TRUE] ELSE hoForward

\* install_wg_config: an interface that is up is only synchronised, its port and
\* PostUp stay as they were, and whether its unit could be enabled is not asked;
\* `enable --now`, which is, does nothing for a unit that is active.
Installed(c) == [Filed(c) EXCEPT !.enabled = hoKind = "systemd"]
InstallWg(c) ==
    \/ WgActive /\ hoWg' \in {Installed(c), Filed(c)} /\ UNCHANGED <<hoRules, hoForward>>
    \/ /\ ~WgActive /\ hoWg.active
       /\ hoWg' = Installed(c) /\ UNCHANGED <<hoRules, hoForward>>
    \/ ~WgActive /\ ~hoWg.active /\ QuickUp(Installed(c), hoRules)

\* restart_wg: down, with the PostDown of the file that is there now, then up.
RestartWg(c) == QuickUp(Filed(c), Less(hoRules, c.subnet))

\* Windows: prepare_system makes the NetNat unless one of its name is there,
\* whatever its subnet; restart_wg removes it and makes it again.
NatThere == \E s \in Subnets : hoRules[s] > 0
CreateNat(c, anew) ==
    hoRules' = IF anew \/ ~NatThere THEN [s \in Subnets |-> IF s = c.subnet THEN 1 ELSE 0]
               ELSE hoRules
NoRules == [s \in Subnets |-> 0]
Opened == IF hoWall = "off" THEN "off" ELSE "open"
OpenPort(missed) == hoWall' = IF "port" \in missed THEN hoWall ELSE Opened

\* What a reconciliation on Windows may miss: forwarding in the registry or on the
\* interfaces, NetNat's removal, the firewall's rule, a service that does not start.
WindowsMisses == {"forwarding", "nat", "port", "link"}
WindowsReconcile(c, force, missed) ==
    /\ hoWg' = [hoWg EXCEPT !.conf = c, !.link = IF "link" \in missed THEN 0 ELSE c.gen]
    /\ CreateNat(c, force /\ WgActive /\ "nat" \notin missed)
    /\ \/ "forwarding" \notin missed /\ hoForward' = [now |-> TRUE, kept |-> TRUE]
       \/ /\ "forwarding" \in missed
          /\ hoForward' \in {hoForward, [hoForward EXCEPT !.now = TRUE],
                               [hoForward EXCEPT !.kept = TRUE]}
    /\ OpenPort(missed)

\* Mutant of Reconcile: an interface that is up is never restarted.
ReconcileHot(c, force, missed) ==
    \/ hoKind = "windows" /\ WindowsReconcile(c, FALSE, missed)
    \/ hoKind # "windows" /\ missed = {} /\ InstallWg(c) /\ UNCHANGED hoWall

\* reconcile: with force_restart an interface that is up is restarted, from the
\* file written before.
Reconcile(c, force, missed) ==
    \/ hoKind = "windows" /\ WindowsReconcile(c, force, missed)
    \/ /\ hoKind # "windows" /\ missed = {} /\ UNCHANGED hoWall
       /\ IF force /\ WgActive THEN RestartWg(c) ELSE InstallWg(c)

\* It fails before the file is written, or after; when it restarts the interface, with
\* that one down.
ReconcileFails(c) ==
    \/ hoWg' \in {hoWg, Filed(c)} /\ UNCHANGED <<hoRules, hoForward, hoWall>>
    \/ /\ WgActive /\ hoWg' = [Filed(c) EXCEPT !.link = 0, !.active = FALSE]
       /\ IF hoKind = "windows"
              THEN hoRules' = NoRules /\ hoForward' = [now |-> TRUE, kept |-> TRUE] /\ OpenPort({})
              ELSE hoRules' = Less(hoRules, c.subnet) /\ UNCHANGED <<hoForward, hoWall>>

-----------------------------------------------------------------------------
(* Commands: how they begin, fail, go on and end.                          *)

HoIdle == hoJob.op = "none"
At(step) == hoJob.left # <<>> /\ hoJob.left[1] = step
Counted == hoFaults < MaxHostFaults /\ hoFaults' = hoFaults + 1
Fault == Counted /\ UNCHANGED hoMissed
NoFault == UNCHANGED <<hoFaults, hoMissed>>

\* owed: does the command promise anything if it ends well?
BeginJob(op, by, steps, owed) ==
    /\ HoIdle /\ hoJobs < MaxHostJobs /\ hoJobs' = hoJobs + 1
    /\ hoJob' = [op |-> op, by |-> by, left |-> steps, well |-> owed]
    /\ hoPromise' = Nothing
    /\ UNCHANGED <<hoMachine, hoWgVars, hoServices, hoMissed, hoFaults>>

EndJob(well) ==
    /\ hoJob' = NoJob
    /\ hoPromise' =
        IF ~well THEN Nothing
        ELSE [says |-> IF hoJob.op = "uninstall" THEN "bare" ELSE "serves",
              by |-> hoJob.by, subnet |-> hoConfig.subnet, units |-> {}, port |-> "none"]

\* A step is done, well or not, and the command goes on.
Advance(well) ==
    /\ IF Len(hoJob.left) = 1 THEN EndJob(hoJob.well /\ well)
       ELSE hoJob' = [hoJob EXCEPT !.left = Tail(@), !.well = @ /\ well] /\ UNCHANGED hoPromise
    /\ UNCHANGED hoJobs
Passed == Advance(TRUE) /\ NoFault
\* ... done, but for what the command does not look after.
PassedBut(about, missed) ==
    /\ Advance(TRUE) /\ hoMissed' = (hoMissed \ about) \cup missed
    /\ IF missed = {} THEN UNCHANGED hoFaults ELSE Counted
Warned == Advance(FALSE) /\ Fault

\* A step fails and the command gives up; uninstalling and the panel's threads go on.
GivesUp ==
    /\ Fault /\ UNCHANGED hoJobs
    /\ IF hoJob.op \in {"uninstall", "update"} THEN Advance(FALSE) ELSE EndJob(FALSE)

-----------------------------------------------------------------------------
(* Setup, restart, start and uninstall.                                    *)

SetupSteps ==
    IF hoKind = "systemd"
    THEN <<"save", "forwarding", "wireguard", "wall", "wstunnel", "enroll", "front">>
    ELSE <<"save", "wireguard">>

\* The wizard asks before it overwrites a configuration.
Setup ==
    /\ hoKind # "container" /\ hoConfig.gen < MaxConfigs /\ hoProvider = "present"
    /\ BeginJob("setup", "setup", SetupSteps, TRUE)

\* init leaves a configuration alone, and brings nothing up.
InitContainer ==
    /\ hoKind = "container" /\ ~Configured(hoConfig) /\ hoConfig.gen < MaxConfigs
    /\ BeginJob("setup", "setup", <<"save">>, FALSE)

\* check_prerequisites: the features that bring the provider may be enabled at
\* once, need a reboot or fail; in the last two cases nothing is set up or started.
Prerequisites ==
    /\ HoIdle /\ hoProvider = "missing" /\ hoProvider' \in {"present", "pending"}
    /\ UNCHANGED <<hoKind, hoBins, hoConfig, hoWgVars, hoServices, hoJob, hoPromise,
                   hoMissed, hoJobs, hoFaults>>

\* restart_services; what the transport's owner must do itself ends it early.
Restart ==
    /\ Configured(hoConfig)
    /\ BeginJob("restart", "restart",
             IF hoKind = "windows" THEN <<"wireguard">> ELSE <<"wireguard", "wstunnel", "enroll">>,
             TRUE)

\* serve in a container, the application on Windows.
StartServer ==
    /\ hoKind # "systemd" /\ Configured(hoConfig) /\ hoProvider = "present"
    /\ hoTransport.runs = 0
    /\ BeginJob("start", "start", <<"wireguard", "spawn">>, TRUE)

UninstallServer ==
    /\ Configured(hoConfig)
    /\ BeginJob("uninstall", "uninstall",
             <<"drop_wstunnel", "drop_enroll", "drop_wireguard", "drop_front", "drop_config">>,
             TRUE)

Edits == {"port", "wg_port", "endpoint", "certificate"}

\* The port Caddy holds: the one of its site, while it has loaded it.
Taken == hoCaddy.loaded # 0
\* Setup leaves the site of a branch given up where it is: Caddy keeps its port from a
\* wstunnel that is now to hold it.
PortLost == ~hoConfig.domain /\ hoConfig.port = Https /\ Taken

\* update_server_config and rotate_tls_cert of a panel beside the units: they
\* promise nothing new, but what was promised before, and was so, still holds.
Update ==
    /\ hoKind = "systemd" /\ Configured(hoConfig) /\ hoConfig.gen < MaxConfigs
    /\ \E e \in Edits :
          BeginJob("update", e,
                IF e = "certificate" THEN <<"save", "bounce">> ELSE <<"save", "bounce", "rewire">>,
                hoPromise.says = "serves" /\ ~PortLost)

-----------------------------------------------------------------------------
(* Their steps.                                                            *)

Next1 == hoConfig.gen + 1
Carried(g) == IF g = hoConfig.gen THEN Next1 ELSE g

\* config.save of the wizard: everything is generated anew.
SaveNew ==
    /\ At("save") /\ hoJob.op = "setup"
    /\ \E a \in Setups :
          /\ a.domain => hoKind = "systemd"
          /\ hoConfig' = [gen |-> Next1, domain |-> a.domain, subnet |-> a.subnet,
                          port |-> a.port, inner |-> a.inner]
    /\ IF Len(hoJob.left) = 1
           THEN hoJob' = NoJob /\ UNCHANGED <<hoPromise, hoMissed, hoJobs, hoFaults>> ELSE Passed
    /\ UNCHANGED <<hoKind, hoBins, hoProvider, hoWgVars, hoServices>>

\* _save_config_patch: what does not depend on the fields edited is as good as before.
SaveEdit ==
    /\ At("save") /\ hoJob.op = "update"
    /\ \E p \in Ports : /\ (p = hoConfig.port) = (hoJob.by # "port")
                        /\ hoConfig' = [hoConfig EXCEPT !.gen = Next1, !.port = p]
    /\ hoWg' = IF hoJob.by = "wg_port" THEN hoWg
               ELSE [hoWg EXCEPT !.link = IF @ = 0 THEN 0 ELSE Carried(@),
                                 !.conf.gen = Carried(@)]
    /\ hoTransport' =
          [hoTransport EXCEPT !.unit = IF hoJob.by \in {"certificate", "endpoint"}
                                           THEN Carried(@) ELSE @,
                              !.runs = IF hoJob.by = "endpoint" THEN Carried(@) ELSE @]
    /\ hoWall' = IF hoJob.by = "port" /\ hoWall = "open" THEN "shut" ELSE hoWall
    /\ hoCaddy' = IF hoJob.by \in {"port", "endpoint"} THEN hoCaddy
                  ELSE [hoCaddy EXCEPT !.site = Carried(@), !.loaded = Carried(@)]
    /\ Passed /\ UNCHANGED <<hoKind, hoBins, hoProvider, hoRules, hoForward, hoListener>>

\* enable_ip_forwarding: a drop-in that cannot be written is only logged, one that is
\* not applied not even that.
Forwarding ==
    /\ At("forwarding")
    /\ \/ hoForward' = [now |-> TRUE, kept |-> TRUE] /\ Passed
       \/ hoForward' \in {hoForward, [hoForward EXCEPT !.kept = TRUE]} /\ Fault /\ Advance(TRUE)
    /\ UNCHANGED <<hoMachine, hoWg, hoRules, hoWall, hoServices>>

\* Setup forces a restart of an interface that is up, restart always does.
Wireguard ==
    /\ At("wireguard")
    /\ \/ \E missed \in SUBSET WindowsMisses :
             /\ Reconcile(hoConfig, hoJob.op # "start", missed)
             /\ PassedBut(WindowsMisses, missed)
       \/ GivesUp /\ ReconcileFails(hoConfig)
    /\ UNCHANGED <<hoMachine, hoServices>>

\* configure_ufw_if_active: whether ufw has allowed the port is not asked.
Wall ==
    /\ At("wall") /\ \E missed \in SUBSET {"port"} : OpenPort(missed) /\ PassedBut({"port"}, missed)
    /\ UNCHANGED <<hoMachine, hoWg, hoRules, hoForward, hoServices>>

\* A unit that starts.  systemctl only waits until the process is there: one that finds
\* its port taken by Caddy ends, and is started again and again.
Started(t, taken) ==
    IF t.names = Https /\ taken THEN [t EXCEPT !.runs = 0]
    ELSE [t EXCEPT !.runs = t.unit, !.holds = t.names]
Written == [hoTransport EXCEPT !.unit = hoConfig.gen, !.names = WsPort(hoConfig)]

\* install_wstunnel_service: the unit is written; `enable --now` starts it, but
\* leaves one that runs alone.
InstallTransport ==
    hoTransport' = IF hoTransport.runs = 0 THEN Started(Written, Taken) ELSE Written

\* A process that owns the transport runs it on the configuration of now.
ByOwner == [hoTransport EXCEPT !.runs = hoConfig.gen, !.holds = WsPort(hoConfig)]

\* Of setup: install only; of restart: a unit written anew, then restarted.  In a
\* container the process that serves is signalled, if there is one.
Wstunnel ==
    /\ At("wstunnel")
    /\ \/ hoJob.op = "setup" /\ InstallTransport /\ Passed
       \/ /\ hoJob.op = "restart" /\ hoKind = "systemd" /\ Passed
          /\ hoTransport' = Started(Written, Taken)
       \/ /\ hoKind = "container" /\ hoTransport.runs # 0 /\ Passed
          /\ hoTransport' = ByOwner
       \/ /\ hoKind = "container" /\ hoTransport.runs = 0 /\ UNCHANGED hoTransport
          /\ EndJob(FALSE) /\ NoFault /\ UNCHANGED hoJobs
       \/ hoKind = "systemd" /\ GivesUp /\ hoTransport' \in {hoTransport, Written}
    /\ UNCHANGED <<hoMachine, hoWgVars, hoListener, hoCaddy>>

Enroll ==
    /\ At("enroll")
    /\ \/ hoKind = "systemd" /\ hoListener' = [unit |-> TRUE, up |-> TRUE] /\ Passed
       \/ hoKind = "container" /\ UNCHANGED hoListener /\ Passed
       \/ /\ hoKind = "systemd" /\ GivesUp
          /\ hoListener' \in {hoListener, [hoListener EXCEPT !.unit = TRUE]}
    /\ UNCHANGED <<hoMachine, hoWgVars, hoTransport, hoCaddy>>

\* reload_service: Caddy is started, or loads its files again.
LoadFront(site) == hoCaddy' = [up |-> TRUE, site |-> site, loaded |-> site]

\* caddy.apply: site and import are written, then validated and loaded; whatever
\* goes wrong is a warning of a setup that ends well, also that wstunnel still has
\* the port.
Kept443 == hoTransport.runs # 0 /\ hoTransport.holds = Https
InstallFront ==
    /\ At("front")
    /\ \/ ~hoConfig.domain /\ UNCHANGED hoCaddy /\ Passed
       \/ hoConfig.domain /\ hoBins /\ ~Kept443 /\ LoadFront(hoConfig.gen) /\ PassedBut({"front"}, {})
       \/ hoConfig.domain /\ (~hoBins \/ Kept443) /\ hoCaddy' = [hoCaddy EXCEPT !.site = hoConfig.gen]
          /\ Advance(FALSE) /\ NoFault
       \/ hoConfig.domain /\ Warned
          /\ hoCaddy' \in {hoCaddy, [hoCaddy EXCEPT !.site = hoConfig.gen]}
    /\ UNCHANGED <<hoMachine, hoWgVars, hoTransport, hoListener>>

\* _do_start: the process runs wstunnel and hosts the listener.
SpawnTransport ==
    /\ At("spawn") /\ hoTransport' = ByOwner
    /\ hoListener' = [hoListener EXCEPT !.up = TRUE]
    /\ Passed /\ UNCHANGED <<hoMachine, hoWgVars, hoCaddy>>

\* _bounce_wstunnel: a unit that runs is restarted, after a change of either port
\* rewritten before; one that does not run is left as it is.
BounceUnit ==
    /\ At("bounce")
    /\ \/ /\ hoTransport.runs # 0 /\ Passed
          /\ hoTransport' =
                Started(IF hoJob.by \in {"port", "wg_port"} THEN Written ELSE hoTransport, Taken)
       \/ hoTransport.runs = 0 /\ Passed /\ UNCHANGED hoTransport
       \/ GivesUp /\ UNCHANGED hoTransport
    /\ UNCHANGED <<hoMachine, hoWgVars, hoListener, hoCaddy>>

\* Only a new port of WireGuard forces a restart of the interface.
RewireUnit ==
    /\ At("rewire")
    /\ \/ Reconcile(hoConfig, hoJob.by = "wg_port", {}) /\ Passed
       \/ GivesUp /\ ReconcileFails(hoConfig)
    /\ UNCHANGED <<hoMachine, hoServices>>

\* The steps of an uninstall; one that fails leaves a warning.  How `disable --now` has
\* ended is not asked: the unit's file goes, what runs may stay, and does once that file
\* is gone.
DropTransport ==
    /\ At("drop_wstunnel")
    /\ \/ /\ hoKind = "systemd" /\ PassedBut({"wstunnel"}, {})
          /\ hoTransport' = [hoTransport EXCEPT !.unit = 0, !.runs = 0]
       \/ /\ hoKind = "systemd" /\ PassedBut({}, {"wstunnel"})
          /\ hoTransport' = [hoTransport EXCEPT !.unit = 0]
       \/ hoKind = "systemd" /\ hoTransport' = [hoTransport EXCEPT !.runs = 0] /\ GivesUp
       \/ (hoTransport.unit = 0 \/ hoKind # "systemd") /\ UNCHANGED hoTransport /\ Passed
    /\ UNCHANGED <<hoMachine, hoWgVars, hoListener, hoCaddy>>

DropListener ==
    /\ At("drop_enroll")
    /\ \/ /\ hoKind = "systemd" /\ PassedBut({"enroll"}, {})
          /\ hoListener' = [unit |-> FALSE, up |-> FALSE]
       \/ /\ hoKind = "systemd" /\ PassedBut({}, {"enroll"})
          /\ hoListener' = [hoListener EXCEPT !.unit = FALSE]
       \/ hoKind = "systemd" /\ hoListener' = [hoListener EXCEPT !.up = FALSE] /\ GivesUp
       \/ (~hoListener.unit \/ hoKind # "systemd") /\ UNCHANGED hoListener /\ Passed
    /\ UNCHANGED <<hoMachine, hoWgVars, hoTransport, hoCaddy>>

\* uninstall_wg_config.  wg-quick down runs PostDown, if the interface is there and so is
\* its file, ...
CanDrop == hoKind = "windows" \/ Configured(hoWg.conf) \/ ~WgActive
WgDropped(conf) ==
    /\ CanDrop
    /\ hoWg' = [hoWg EXCEPT !.conf = conf, !.enabled = FALSE, !.active = FALSE, !.link = 0,
                            !.loose = FALSE]
    /\ hoRules' = IF hoKind = "windows" THEN NoRules
                  ELSE IF WgActive THEN Less(hoRules, hoWg.conf.subnet) ELSE hoRules
\* ... unless it fails, or what disables the unit or removes the service or the NetNat
\* does: none is asked, and the file goes all the same.
WgLeft ==
    /\ \E enabled \in {FALSE, hoWg.enabled}, link \in {0, hoWg.link} :
          hoWg' = [hoWg EXCEPT !.conf = NoConfig, !.enabled = enabled, !.link = link,
                               !.active = @ /\ link # 0, !.loose = TRUE,
                               !.strays = @ \cup {hoWg.conf.subnet}]
    /\ hoRules' \in (IF hoKind = "windows" THEN {hoRules, NoRules} ELSE {hoRules})

\* The drop-in goes, and forwarding stays on until a reboot: no file turns it off.  The
\* file or the drop-in may be impossible to remove.
DropWireguard ==
    /\ At("drop_wireguard")
    /\ \/ /\ hoForward' = [hoForward EXCEPT !.kept = IF hoKind = "systemd" THEN FALSE ELSE @]
          /\ \/ WgDropped(NoConfig) /\ PassedBut({"wireguard"}, {})
             \/ WgLeft /\ PassedBut({}, {"wireguard"})
             \/ ~CanDrop /\ WgLeft /\ Passed
       \/ /\ \/ WgDropped(hoWg.conf)
             \/ hoForward.kept /\ WgDropped(NoConfig)
          /\ UNCHANGED hoForward /\ GivesUp
    /\ UNCHANGED <<hoMachine, hoWall, hoServices>>

\* caddy.remove: Caddy is reloaded, or started, without the site; whether it was is not
\* asked.
DropFront ==
    /\ At("drop_front")
    /\ \/ hoCaddy.site = 0 /\ UNCHANGED hoCaddy /\ Passed
       \/ hoCaddy.site # 0 /\ hoBins /\ LoadFront(0) /\ PassedBut({"front"}, {})
       \/ /\ hoCaddy.site # 0 /\ hoCaddy' = [hoCaddy EXCEPT !.site = 0]
          /\ IF hoBins THEN PassedBut({}, {"front"}) ELSE Passed
       \/ hoCaddy.site # 0 /\ UNCHANGED hoCaddy /\ GivesUp
    /\ UNCHANGED <<hoMachine, hoWgVars, hoTransport, hoListener>>

\* The configuration's directory; its generations are counted on.
DropConfig ==
    /\ At("drop_config")
    /\ \/ hoConfig' = [NoConfig EXCEPT !.gen = hoConfig.gen] /\ Passed
       \/ UNCHANGED hoConfig /\ GivesUp
    /\ UNCHANGED <<hoKind, hoBins, hoProvider, hoWgVars, hoServices>>

-----------------------------------------------------------------------------
(* The outside.                                                            *)

\* Somebody stops or breaks a part: no promise covers it any more.
Outside ==
    /\ HoIdle /\ Fault /\ hoPromise' = Nothing
    /\ UNCHANGED <<hoMachine, hoWall, hoJob, hoJobs>>

TransportStops ==
    /\ hoTransport.runs # 0 /\ Outside /\ hoTransport' = [hoTransport EXCEPT !.runs = 0]
    /\ hoListener' = IF hoKind = "systemd" THEN hoListener ELSE [hoListener EXCEPT !.up = FALSE]
    /\ UNCHANGED <<hoWg, hoRules, hoForward, hoCaddy>>

ListenerStops ==
    /\ hoListener.up /\ Outside /\ hoListener' = [hoListener EXCEPT !.up = FALSE]
    /\ UNCHANGED <<hoWg, hoRules, hoForward, hoTransport, hoCaddy>>

CaddyStops ==
    /\ hoCaddy.up /\ Outside /\ hoCaddy' = [hoCaddy EXCEPT !.up = FALSE, !.loaded = 0]
    /\ UNCHANGED <<hoWg, hoRules, hoForward, hoTransport, hoListener>>

\* The unit or the Windows service is stopped; in a container, `wg-quick down`.
WireguardStops ==
    /\ WgActive /\ Outside
    /\ hoWg' = [hoWg EXCEPT !.link = 0, !.active = FALSE]
    /\ hoRules' = IF hoKind = "windows" THEN hoRules ELSE Less(hoRules, hoWg.conf.subnet)
    /\ UNCHANGED <<hoForward, hoServices>>

\* `ip link del`: the unit stays active and the rules stay in place.
LinkDeleted ==
    /\ hoKind # "windows" /\ WgActive /\ Outside
    /\ hoWg' = [hoWg EXCEPT !.link = 0, !.gone = TRUE, !.strays = @ \cup {hoWg.conf.subnet}]
    /\ UNCHANGED <<hoRules, hoForward, hoServices>>

\* Another firewall is loaded, another NetNat tool runs, a sysctl file is applied.
RulesFlushed ==
    /\ NatThere /\ Outside /\ hoRules' = [s \in Subnets |-> 0]
    /\ UNCHANGED <<hoWg, hoForward, hoServices>>
ForwardingOff ==
    /\ hoForward.now /\ Outside /\ hoForward' = [hoForward EXCEPT !.now = FALSE]
    /\ UNCHANGED <<hoWg, hoRules, hoServices>>

Killed ==
    /\ ~HoIdle /\ Fault /\ hoJob' = NoJob /\ UNCHANGED hoPromise
    /\ UNCHANGED <<hoMachine, hoWgVars, hoServices, hoJobs>>

\* A reboot: systemd starts its units, wstunnel and Caddy in either order, and what was
\* promised still holds, unless it was about an interface that was up already and whose
\* unit is not enabled: whether it could be is not asked then.  Elsewhere the process that
\* owns the transport has to be started again.
Rebooted == [hoWg EXCEPT !.gone = FALSE, !.loose = FALSE, !.strays = {}]
RebootSystemd ==
    /\ hoKind = "systemd" /\ Fault /\ hoJob' = NoJob
    /\ IF Configured(hoWg.conf) /\ hoWg.enabled
           THEN /\ hoWg' = [Rebooted EXCEPT !.link = hoWg.conf.gen, !.active = TRUE]
                /\ hoRules' = [s \in Subnets |-> IF s = hoWg.conf.subnet THEN 1 ELSE 0]
                /\ hoForward' = [hoForward EXCEPT !.now = TRUE]
           ELSE /\ hoWg' = [Rebooted EXCEPT !.link = 0, !.active = FALSE]
                /\ hoRules' = [s \in Subnets |-> 0]
                /\ hoForward' = [hoForward EXCEPT !.now = hoForward.kept]
    /\ hoListener' = [hoListener EXCEPT !.up = hoListener.unit]
    /\ \/ /\ hoCaddy' = [hoCaddy EXCEPT !.loaded = IF hoCaddy.up THEN hoCaddy.site ELSE 0]
          /\ hoTransport' = Started(hoTransport, hoCaddy'.loaded # 0)
       \/ /\ hoTransport.unit # 0 /\ hoTransport.names = Https
          /\ hoCaddy.up /\ hoCaddy.site # 0
          /\ hoTransport' = Started(hoTransport, FALSE)
          /\ hoCaddy' = [hoCaddy EXCEPT !.up = FALSE, !.loaded = 0]
    /\ hoPromise' = IF hoPromise.says = "healed" \/ (hoWg.loose /\ ~hoWg.enabled)
                        THEN Nothing ELSE hoPromise
    /\ UNCHANGED <<hoMachine, hoWall, hoJobs>>

RebootOther ==
    /\ hoKind # "systemd" /\ HoIdle /\ Fault /\ hoPromise' = Nothing
    /\ hoTransport' = [hoTransport EXCEPT !.runs = 0]
    /\ hoListener' = [hoListener EXCEPT !.up = FALSE]
    /\ \/ /\ hoKind = "container" /\ UNCHANGED hoProvider
          /\ hoWg' = [Rebooted EXCEPT !.conf = NoConfig, !.link = 0]
          /\ hoRules' = [s \in Subnets |-> 0]
       \/ /\ hoKind = "windows" /\ UNCHANGED <<hoWg, hoRules>>
          /\ hoProvider' = IF hoProvider = "pending" THEN "present" ELSE hoProvider
    /\ UNCHANGED <<hoKind, hoBins, hoConfig, hoForward, hoWall, hoCaddy, hoJob, hoJobs>>

-----------------------------------------------------------------------------
HoCommand ==
    \/ Setup \/ InitContainer \/ Restart \/ StartServer \/ UninstallServer \/ Update
    \/ Prerequisites
HoSetupStep == SaveNew \/ Forwarding \/ Wireguard \/ Wall \/ Wstunnel \/ Enroll \/ InstallFront
HoOtherStep == SaveEdit \/ BounceUnit \/ RewireUnit \/ SpawnTransport
HoDropStep == DropTransport \/ DropListener \/ DropWireguard \/ DropFront \/ DropConfig
HoOutside ==
    \/ TransportStops \/ ListenerStops \/ CaddyStops \/ WireguardStops \/ LinkDeleted
    \/ RulesFlushed \/ ForwardingOff \/ Killed \/ RebootSystemd \/ RebootOther

HoNext == HoCommand \/ HoSetupStep \/ HoOtherStep \/ HoDropStep \/ HoOutside
HoSpec == HoInit /\ [][HoNext]_hoVars

-----------------------------------------------------------------------------
(* What the commands promise.                                              *)

\* An interface deleted behind its unit's back is not noticed by any command, and a
\* start in a container only synchronises an interface that is up already.
WgServes ==
    \/ hoWg.gone /\ ~WgActive
    \/ hoKind = "container" /\ hoPromise.by = "start" /\ WgActive
    \/ /\ hoWg.link = hoConfig.gen \/ "link" \in hoMissed
       /\ hoForward.now \/ hoKind = "container" \/ "forwarding" \in hoMissed
       /\ hoRules[hoConfig.subnet] > 0 \/ (hoKind = "windows" /\ NatThere)

\* A setup run again leaves the wstunnel of before running, on the old arguments.
TransportServes ==
    /\ hoListener.up
    /\ PortLost \/ /\ hoTransport.runs # 0
                   /\ \/ hoTransport.runs = hoConfig.gen /\ hoTransport.holds = WsPort(hoConfig)
                      \/ hoPromise.by = "setup" /\ hoTransport.unit = hoConfig.gen

HoServes ==
    /\ WgServes
    /\ hoKind = "systemd" \/ hoPromise.by = "start" => TransportServes
    /\ hoPromise.by = "setup" => /\ hoWall # "shut" \/ "port" \in hoMissed
                                 /\ hoConfig.domain => hoCaddy.loaded = hoConfig.gen

\* Which ports are listened on.
Held ==
    (IF hoTransport.runs # 0 THEN {hoTransport.holds} ELSE {})
        \cup (IF Taken THEN {Https} ELSE {})

\* The goals of the doctor's fixes (ServerDoctor).
HoHealed ==
    CASE hoPromise.by = "forwarding" -> hoForward.now /\ hoForward.kept
      [] hoPromise.by = "nat" -> hoRules[hoPromise.subnet] > 0
      [] hoPromise.by \in {"listen", "loopback"} -> hoPromise.port \in Held
      [] OTHER -> \A u \in hoPromise.units :
                     CASE u = "wstunnel" -> hoTransport.runs # 0
                       [] u = "wg" -> hoWg.active /\ WgActive
                       [] u = "enroll" -> hoListener.up

\* What was not taken down although its step has reported no error is named.
HoBare ==
    /\ ~Configured(hoConfig) /\ ~Configured(hoWg.conf) /\ ~hoListener.unit
    /\ hoTransport.unit = 0 /\ hoCaddy.site = 0 /\ (hoKind = "systemd" => ~hoForward.kept)
    /\ \/ "wireguard" \in hoMissed
       \/ ~WgActive /\ ~hoWg.enabled /\ \A s \in Subnets \ hoWg.strays : hoRules[s] = 0
    /\ hoKind = "systemd" => /\ "wstunnel" \in hoMissed \/ hoTransport.runs = 0
                             /\ "enroll" \in hoMissed \/ ~hoListener.up
                             /\ "front" \in hoMissed \/ hoCaddy.loaded = 0

\* What a command has reported is so, and after a reboot it still is, whatever failed, was
\* killed or half done before: a setup, a restart or a start that ended well leaves a
\* server that carries its clients' traffic on the ports it is configured for, also after
\* a change of settings, and an uninstall without warnings leaves neither units nor
\* interface nor rule (but for the strays), nor anything that runs; an automatic fix of
\* the doctor's has reached what its check asks for, however old its report.  Excused is
\* what a command reports as done because it does not look how a program it ran has ended
\* (hoMissed), each failure for the part it is about and for no other.
HoKeepsWord ==
    HoIdle => CASE hoPromise.says = "serves" -> HoServes
                [] hoPromise.says = "bare" -> HoBare
                [] hoPromise.says = "healed" -> HoHealed
                [] OTHER -> TRUE
=============================================================================
