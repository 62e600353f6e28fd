----------------------------- MODULE ServerDoctor -----------------------------
(***************************************************************************)
(* The server's doctor (diagnostics.py) over the machine of ServerHost:    *)
(* what its checks look at, what they report and which fix they offer, the *)
(* panel's and the text interface's report (api.py, tui/screens/doctor.py, *)
(* cli.py) and the fixes that are applied automatically.  The panel checks *)
(* again before it applies a fix; the text interface applies the one of    *)
(* the report on the screen, however old it is.                            *)
(***************************************************************************)
EXTENDS ServerHost

VARIABLE drOffers   \* the automatic fixes of the report on the screen

drVars == <<hoVars, drOffers>>

Report(status, fix) == [status |-> status, fix |-> fix, units |-> {}]
Good == Report("pass", "none")
Bad == Report("fail", "none")
Skipped == Report("skip", "none")
Check(good) == IF good THEN Good ELSE Bad
\* A fix of the doctor's own, with the units it was made for.
Fixable(units) == [status |-> "fail", fix |-> "auto", units |-> units]
FixableIf(bad, units) == IF bad THEN Fixable(units) ELSE Good

-----------------------------------------------------------------------------
(* The checks.                                                             *)

\* caddy installed, site written, configuration valid.
CheckCaddyFront ==
    IF ~hoConfig.domain THEN Skipped ELSE Check(hoBins /\ hoCaddy.site # 0)

\* The certificate of the endpoint: out of reach is a warning.
CheckPublicCertificate ==
    IF ~hoConfig.domain THEN Skipped
    ELSE IF hoCaddy.loaded # 0 THEN Good ELSE Report("warn", "none")

\* Without modinfo, as in the container's image, the interface is the evidence.
CheckKmod == Check(hoKind = "systemd" \/ WgActive)

\* The units that are not active are those its fix restarts, unless the listener's is
\* not there at all.
Inactive ==
    {u \in {"wstunnel", "wg", "enroll"} :
        CASE u = "wstunnel" -> hoTransport.runs = 0
          [] u = "wg" -> ~hoWg.active
          [] u = "enroll" -> ~hoListener.up}
CheckSystemd ==
    IF hoKind = "container" THEN Skipped
    ELSE IF "enroll" \in Inactive /\ ~hoListener.unit THEN Bad
    ELSE FixableIf(Inactive # {}, Inactive)

\* On systemd a port nobody holds is fixed by starting the unit that should hold it, be
\* that one down or running on another port; who holds a port is not asked.
CheckPort(held, unit) ==
    IF hoKind = "systemd" THEN FixableIf(~held, {unit}) ELSE Check(held)
Holder == IF hoConfig.domain THEN "caddy" ELSE "wstunnel"
CheckListen443 == CheckPort(hoConfig.port \in Held, Holder)
CheckListenInternalWs ==
    IF hoConfig.domain THEN CheckPort(hoConfig.inner \in Held, "wstunnel") ELSE Skipped
CheckEnrollListener == CheckPort(hoListener.up, "enroll")

\* Nobody on WireGuard's port is a warning.  The kernel binds every address: in a
\* container that is a warning too, beside systemd a failure.
CheckListenWg ==
    IF WgActive /\ hoKind = "systemd" THEN Bad ELSE Report("warn", "none")

CheckIpForward ==
    CASE hoForward.now /\ hoForward.kept -> Good
      [] hoForward.now /\ ~hoForward.kept -> Report("warn", "auto")
      [] OTHER -> Fixable({})

\* Mutant of CheckNatMasquerade: a rule for any subnet will do.
CheckNatAny == FixableIf(~NatThere, {})
\* A rule for the configured subnet.
CheckNatMasquerade == FixableIf(hoRules[hoConfig.subnet] = 0, {})

\* Windows: the registry, the interface's own switch, the NetNat provider, the
\* NetNat of the subnet, the service, the process and the two listeners; nothing is automatic.
CheckWinForwarding == Check(hoForward.now)
CheckWinIface == Check(WgActive)
CheckWinProvider == Check(hoProvider = "present")
CheckWinNat == Check(hoRules[hoConfig.subnet] > 0)
CheckWinService == Check(WgActive)
CheckWinWstunnel == Check(hoTransport.runs # 0)
CheckWinListen == Check(hoConfig.port \in Held)
CheckWinEnroll == Check(hoListener.up)
CheckWinFirewall == IF hoWall = "shut" THEN Report("warn", "none") ELSE Good

GatherChecks ==
    IF hoKind = "windows"
    THEN [caddy |-> CheckCaddyFront, certificate |-> CheckPublicCertificate,
          forwarding |-> CheckWinForwarding, iface |-> CheckWinIface,
          provider |-> CheckWinProvider, nat |-> CheckWinNat, service |-> CheckWinService,
          wstunnel |-> CheckWinWstunnel, listen |-> CheckWinListen,
          enroll |-> CheckWinEnroll, firewall |-> CheckWinFirewall]
    ELSE [caddy |-> CheckCaddyFront, certificate |-> CheckPublicCertificate,
          kmod |-> CheckKmod, systemd |-> CheckSystemd, listen |-> CheckListen443,
          loopback |-> CheckListenInternalWs, wg |-> CheckListenWg,
          enroll |-> CheckEnrollListener, forwarding |-> CheckIpForward,
          nat |-> CheckNatMasquerade]

\* The fixes the interfaces apply: those the doctor vouches for, never a command of the
\* report's text.
Offers == {[check |-> c, units |-> GatherChecks[c].units] :
              c \in {c \in DOMAIN GatherChecks : GatherChecks[c].fix = "auto"}}

-----------------------------------------------------------------------------
(* Reports and fixes.                                                      *)

DrInit == HoInit /\ drOffers = {}

\* A report, made from a configuration that could be loaded; it changes nothing else.
\* It stays on the screen until one of its fixes is used.
DoctorRun ==
    /\ HoIdle /\ Configured(hoConfig) /\ drOffers = {} /\ Offers # {}
    /\ drOffers' = Offers /\ UNCHANGED hoVars

\* Caddy, which systemd waits for, does not start while wstunnel has its port.
UnitThere(u) ==
    CASE u = "wstunnel" -> hoTransport.unit # 0
      [] u = "wg" -> Configured(hoWg.conf)
      [] u = "enroll" -> hoListener.unit
      [] u = "caddy" -> hoBins /\ (hoCaddy.up \/ hoCaddy.site = 0 \/ ~Kept443)
UnitOrder == <<"wstunnel", "wg", "enroll", "caddy">>

\* systemctl fails at the first unit that is not there.
Reached(units) ==
    {UnitOrder[i] : i \in {i \in 1..4 :
        /\ UnitOrder[i] \in units
        /\ \A j \in 1..i : UnitOrder[j] \in units => UnitThere(UnitOrder[j])}}

\* _fix_restart restarts its units one by one, the others start theirs.
FixUnits(units, restart) ==
    /\ hoTransport' = IF "wstunnel" \in units /\ (restart \/ hoTransport.runs = 0)
                          THEN Started(hoTransport, Taken) ELSE hoTransport
    /\ hoListener' = IF "enroll" \in units THEN [hoListener EXCEPT !.up = TRUE] ELSE hoListener
    /\ hoCaddy' = IF "caddy" \in units /\ ~hoCaddy.up
                      THEN [hoCaddy EXCEPT !.up = TRUE, !.loaded = hoCaddy.site] ELSE hoCaddy
    /\ \/ "wg" \in units
          /\ QuickUp([hoWg EXCEPT !.loose = ~hoWg.enabled],
                     IF WgActive THEN Less(hoRules, hoWg.conf.subnet) ELSE hoRules)
       \/ "wg" \notin units /\ UNCHANGED <<hoWg, hoRules, hoForward>>

IpForwardFix ==
    hoForward' = [now |-> TRUE, kept |-> TRUE] /\ UNCHANGED <<hoWg, hoRules, hoServices>>

\* install_wg_config: on an interface that is up a reload, which runs no PostUp.
MasqueradeFix == InstallWg(hoConfig) /\ UNCHANGED hoServices

\* The port a fix of the listeners has to bring back, if starting a unit can do that: its
\* unit is down, and names that port; of Caddy, whose site has none, it is its own.
Asked(o) == IF o.check = "loopback" THEN hoConfig.inner ELSE hoConfig.port
Mends(o) ==
    CASE o.check = "systemd" -> "wstunnel" \in o.units => hoTransport.names # Https \/ ~Taken
      [] o.check = "enroll" -> TRUE
      [] OTHER -> IF "caddy" \in o.units
                  THEN ~hoCaddy.up /\ hoCaddy.site # 0 /\ Asked(o) = Https
                  ELSE hoTransport.runs = 0 /\ hoTransport.names = Asked(o)

Heals(o) == hoPromise' = [says |-> "healed", by |-> o.check, subnet |-> hoConfig.subnet,
                          units |-> o.units, port |-> Asked(o)]
ApplyFix(o) ==
    /\ HoIdle /\ Configured(hoConfig) /\ UNCHANGED hoJobs
    /\ \/ /\ o.check \in {"systemd", "listen", "loopback", "enroll"}
          /\ FixUnits(Reached(o.units), o.check = "systemd") /\ NoFault
          /\ IF Reached(o.units) = o.units /\ Mends(o) THEN Heals(o) ELSE hoPromise' = Nothing
       \/ o.check = "forwarding" /\ IpForwardFix /\ Heals(o) /\ NoFault
       \/ /\ o.check = "nat" /\ MasqueradeFix /\ NoFault
          /\ IF WgActive \/ hoWg.active THEN hoPromise' = Nothing ELSE Heals(o)
       \/ hoPromise' = Nothing /\ UNCHANGED <<hoWg, hoRules, hoForward, hoServices>> /\ Fault
    /\ UNCHANGED <<hoMachine, hoWall, hoJob>>

TuiFix == \E o \in drOffers : ApplyFix(o) /\ drOffers' = {}
PanelFix == Configured(hoConfig) /\ \E o \in Offers : ApplyFix(o) /\ UNCHANGED drOffers

DrNext == (HoNext /\ UNCHANGED drOffers) \/ DoctorRun \/ TuiFix \/ PanelFix
DrSpec == DrInit /\ [][DrNext]_drVars

-----------------------------------------------------------------------------
Failures == {c \in DOMAIN GatherChecks : GatherChecks[c].status = "fail"}

\* What a client's traffic needs; wstunnel is to listen where the configuration says.
HoCarries ==
    /\ hoTransport.runs # 0 /\ hoTransport.holds = WsPort(hoConfig)
    /\ hoListener.up /\ hoRules[hoConfig.subnet] > 0
    /\ WgActive \/ hoWg.gone
    /\ hoForward.now
    /\ hoConfig.domain => hoCaddy.loaded # 0

\* The checks that may fail although a setup, a restart or a change of settings has just
\* said that all is well: WireGuard's port, which the doctor finds on every address
\* wherever systemd runs; the port of a wstunnel that setup has left running on the one
\* of before; Caddy's, which only setup looks after, and which is not the configured one
\* unless that is 443.
Overlooked ==
    {"wg"}
    \cup (IF hoPromise.by = "setup" /\ hoTransport.holds # WsPort(hoConfig)
          THEN {IF hoConfig.domain THEN "loopback" ELSE "listen"} ELSE {})
    \cup (IF hoConfig.domain /\ hoPromise.by # "setup" THEN {"caddy", "listen"} ELSE {})
    \cup (IF hoConfig.domain /\ hoConfig.port # Https THEN {"listen"} ELSE {})

\* The doctor and the commands agree: after a command that has reported a server that
\* serves, its report has no failure but those (an interface deleted behind its unit's
\* back neither of them notices, nor that Caddy has kept wstunnel's port); and a report
\* without any other failure than the first is of a machine that carries traffic.
DrAgrees ==
    HoIdle /\ Configured(hoConfig) /\ ~PortLost =>
        /\ hoPromise.says = "serves" /\ hoKind = "systemd" /\ (hoWg.gone => WgActive) =>
              Failures \subseteq Overlooked
        /\ Failures \subseteq {"wg"} => HoCarries
=============================================================================
