--------------------------- MODULE ServerHostSafety ---------------------------
(***************************************************************************)
(* Theorems about the machine the server runs on (ServerHost) and about    *)
(* its doctor (ServerDoctor), for any subnets, ports and answers to the    *)
(* wizard and any number of commands, configurations and faults: what a    *)
(* command, an automatic fix or a report has said is so.                   *)
(*                                                                         *)
(* HoKeepsWord speaks of a command that has ended well.  The invariant     *)
(* HoIInv says the rest: Machine, what holds of the interface, its rules   *)
(* and its units whatever has been done to them; JobShape, where a command *)
(* can be; Planned and Progress, what one that has gone well so far has    *)
(* already reached at the step ahead; Said, what was promised, in a form   *)
(* that a reboot cannot take back (the file and the units as well as what  *)
(* runs).  Each step of a command ends in one of two ways: it was the last *)
(* one, and what the command says must be so (Finished), or the command    *)
(* goes on, and Progress must hold at the next step (WentOn); a step that  *)
(* has failed leaves nothing to show (Unwell).                             *)
(*                                                                         *)
(* Two more parts tie the ports and what is missed to the machine:         *)
(* Listening, that a unit written for the configuration of now names its   *)
(* port and a wstunnel started on it holds that one; Leftovers, that       *)
(* whatever is left although its file is gone is in hoMissed, what a       *)
(* command has failed at without knowing.  The doctor needs them as well:  *)
(* a check asks who listens where, not which unit was started.             *)
(***************************************************************************)
EXTENDS ServerDoctor, TLAPS

\* Which values the variables take.
Names == Subnets \cup {"none"}
PortNames == Ports \cup InnerPorts \cup {"none"}
Configs == [gen : Nat, domain : BOOLEAN, subnet : Names, port : PortNames, inner : PortNames]
Interfaces == [conf : Configs, enabled : BOOLEAN, active : BOOLEAN, link : Nat,
               gone : BOOLEAN, loose : BOOLEAN, strays : SUBSET Names]
Transports == [unit : Nat, names : PortNames, runs : Nat, holds : PortNames]
Units == {"wstunnel", "wg", "enroll", "caddy"}
HoTypeOK ==
    /\ hoKind \in Kinds /\ hoBins \in BOOLEAN /\ hoConfig \in Configs /\ hoWg \in Interfaces
    /\ hoRules \in [Subnets -> Nat] /\ hoForward \in [now : BOOLEAN, kept : BOOLEAN]
    /\ hoWall \in {"off", "shut", "open"}
    /\ hoTransport \in Transports
    /\ hoListener \in [unit : BOOLEAN, up : BOOLEAN]
    /\ hoCaddy \in [up : BOOLEAN, site : Nat, loaded : Nat]

\* A configuration that is there has a generation of its own.
Numbered(c) == Configured(c) => c.gen # 0

\* A subnet has one masquerading rule while its interface is up and none
\* otherwise, but for the strays.
RulesCounted ==
    hoKind # "windows" =>
        \A s \in Subnets \ hoWg.strays :
            hoRules[s] <= IF WgActive /\ s = hoWg.conf.subnet THEN 1 ELSE 0

\* What holds of the interface, its unit and its rules whatever has been
\* done to them.
WgSound ==
    /\ Numbered(hoWg.conf)
    /\ hoKind = "systemd" /\ WgActive => hoWg.active /\ (hoWg.enabled \/ hoWg.loose)
    /\ hoWg.active => WgActive \/ hoWg.gone
    /\ hoKind # "systemd" => hoWg.active = FALSE
    /\ RulesCounted

\* There are no units and no Caddy but beside systemd.
Elsewhere ==
    hoKind # "systemd" =>
        /\ hoConfig.domain = FALSE /\ hoListener.unit = FALSE
        /\ hoTransport.unit = 0 /\ hoCaddy.site = 0

\* What holds of the machine at every step.
Machine == Numbered(hoConfig) /\ WgSound /\ Elsewhere

WgTypes ==
    /\ hoWg \in Interfaces /\ hoRules \in [Subnets -> Nat]
    /\ hoForward \in [now : BOOLEAN, kept : BOOLEAN]

(* PostUp appends a rule, ...                                            *)
LEMMA MoreCount ==
    ASSUME NEW rules \in [Subnets -> Nat], NEW s \in Subnets
    PROVE  /\ More(rules, s) \in [Subnets -> Nat]
           /\ \A t \in Subnets : More(rules, s)[t] = IF t = s THEN rules[t] + 1 ELSE rules[t]
BY DEF More

(* ... and PostDown removes one if there is one.                         *)
LEMMA LessCount ==
    ASSUME NEW rules \in [Subnets -> Nat], NEW s
    PROVE  /\ Less(rules, s) \in [Subnets -> Nat]
           /\ \A t \in Subnets :
                 /\ Less(rules, s)[t] <= rules[t]
                 /\ t # s => Less(rules, s)[t] = rules[t]
                 /\ t = s /\ rules[t] <= 1 => Less(rules, s)[t] = 0
<1>1. CASE s \in Subnets /\ rules[s] > 0
  <2>1. Less(rules, s) = [rules EXCEPT ![s] = @ - 1]
    BY <1>1 DEF Less
  <2>2. rules[s] - 1 \in Nat /\ rules[s] - 1 <= rules[s]
    BY <1>1
  <2> QED BY <2>1, <2>2, <1>1
<1>2. CASE ~(s \in Subnets /\ rules[s] > 0)
  <2>1. Less(rules, s) = rules
    BY <1>2 DEF Less
  <2> QED BY <2>1, <1>2
<1> QED BY <1>1, <1>2

(* What the interface has after its file was written.                    *)
LEMMA FiledIs ==
    ASSUME HoTypeOK, WgSound, NEW c \in Configs
    PROVE  /\ Filed(c) \in Interfaces
           /\ Filed(c).conf = c /\ Filed(c).enabled = hoWg.enabled
           /\ Filed(c).active = hoWg.active /\ Filed(c).link = hoWg.link
           /\ Filed(c).gone = hoWg.gone /\ Filed(c).loose = hoWg.loose
           /\ hoWg.strays \subseteq Filed(c).strays
           /\ WgActive /\ hoWg.conf.subnet # c.subnet => hoWg.conf.subnet \in Filed(c).strays
<1> DEFINE strays == IF WgActive /\ hoWg.conf.subnet # c.subnet
                     THEN hoWg.strays \cup {hoWg.conf.subnet} ELSE hoWg.strays
<1>1. hoWg \in Interfaces
  BY DEF HoTypeOK
<1>2. strays \in SUBSET Names
  BY <1>1 DEF Interfaces, Configs
<1>3. Filed(c) = [hoWg EXCEPT !.conf = c, !.strays = strays]
  BY DEF Filed
<1>4. hoWg.strays \subseteq strays
  OBVIOUS
<1>5. WgActive /\ hoWg.conf.subnet # c.subnet => hoWg.conf.subnet \in strays
  OBVIOUS
<1> HIDE DEF strays
<1> QED BY <1>1, <1>2, <1>3, <1>4, <1>5 DEF Interfaces

(* Under a file of any subnet, only the strays and the subnet of the     *)
(* file have a rule.                                                     *)
LEMMA RulesUnder ==
    ASSUME HoTypeOK, WgSound, hoKind # "windows", NEW c \in Configs,
           NEW s \in Subnets \ Filed(c).strays
    PROVE  hoRules[s] <= IF WgActive /\ s = c.subnet THEN 1 ELSE 0
<1>1. s \notin hoWg.strays /\ (WgActive /\ hoWg.conf.subnet # c.subnet => s # hoWg.conf.subnet)
  BY FiledIs
<1>2. hoRules[s] <= IF WgActive /\ s = hoWg.conf.subnet THEN 1 ELSE 0
  BY <1>1 DEF WgSound, RulesCounted
<1>3. hoRules[s] \in Nat
  BY DEF HoTypeOK
<1> QED BY <1>1, <1>2, <1>3

(* wg-quick up of an interface that is down and whose rules were         *)
(* removed.                                                              *)
LEMMA QuickUpEffect ==
    ASSUME HoTypeOK, hoKind' = hoKind, NEW wg \in Interfaces, NEW rules \in [Subnets -> Nat],
           Configured(wg.conf), Numbered(wg.conf),
           hoKind = "systemd" => wg.enabled \/ wg.loose,
           hoKind # "windows" => \A s \in Subnets \ wg.strays : rules[s] = 0,
           QuickUp(wg, rules)
    PROVE  WgTypes' /\ WgSound'
<1> DEFINE up == [wg EXCEPT !.active = hoKind = "systemd", !.link = wg.conf.gen]
<1>1. hoWg' = up /\ hoRules' = More(rules, wg.conf.subnet)
  BY DEF QuickUp
<1>2. wg.conf \in Configs /\ wg.conf.gen \in Nat /\ wg.conf.gen # 0 /\ wg.conf.subnet \in Subnets
  BY DEF Interfaces, Configs, Configured, Numbered, Names
<1>3. /\ up \in Interfaces /\ up.conf = wg.conf /\ up.link = wg.conf.gen
      /\ up.active = (hoKind = "systemd") /\ up.enabled = wg.enabled /\ up.loose = wg.loose
      /\ up.gone = wg.gone /\ up.strays = wg.strays
  BY <1>2 DEF Interfaces
<1> HIDE DEF up
<1>4. hoForward' \in [now : BOOLEAN, kept : BOOLEAN]
  BY DEF QuickUp, HoTypeOK
<1>5. hoRules' \in [Subnets -> Nat]
  BY <1>1, <1>2, MoreCount
<1>6. RulesCounted'
  <2> SUFFICES ASSUME hoKind # "windows", NEW s \in Subnets, s \notin wg.strays
               PROVE  hoRules'[s] <= IF s = wg.conf.subnet THEN 1 ELSE 0
    BY <1>1, <1>2, <1>3 DEF RulesCounted, WgActive
  <2>1. rules[s] = 0
    OBVIOUS
  <2>2. hoRules'[s] = IF s = wg.conf.subnet THEN rules[s] + 1 ELSE rules[s]
    BY <1>1, <1>2, MoreCount
  <2> QED BY <2>1, <2>2
<1>7. WgTypes'
  BY <1>1, <1>3, <1>4, <1>5 DEF WgTypes
<1>8. WgSound'
  <2>1. (WgActive /\ Numbered(hoWg.conf))'
    BY <1>1, <1>2, <1>3 DEF WgActive, Configured, Numbered
  <2>2. (hoKind = "systemd" => hoWg.active /\ (hoWg.enabled \/ hoWg.loose))'
    BY <1>1, <1>3
  <2>3. (hoKind # "systemd" => hoWg.active = FALSE)'
    BY <1>1, <1>3
  <2> QED BY <2>1, <2>2, <2>3, <1>6 DEF WgSound
<1> QED BY <1>7, <1>8

(* install_wg_config leaves an interface that is up as it is, and brings *)
(* up one that is not.                                                   *)
LEMMA InstallEffect ==
    ASSUME HoTypeOK, WgSound, hoKind' = hoKind, hoKind # "windows",
           NEW c \in Configs, Configured(c), c.gen # 0, InstallWg(c)
    PROVE  /\ WgTypes' /\ WgSound'
           /\ hoWg'.conf = c /\ (hoKind = "systemd" => hoWg'.enabled \/ hoWg'.loose)
           /\ \/ /\ WgActive \/ hoWg.active
                 /\ UNCHANGED <<hoRules, hoForward>> /\ hoWg'.link = hoWg.link
                 /\ hoWg'.gone = hoWg.gone
              \/ /\ hoWg'.link = c.gen /\ hoRules'[c.subnet] > 0
                 /\ hoKind = "systemd" => hoForward'.now
<1>1. /\ Installed(c) \in Interfaces /\ Installed(c).conf = c
      /\ Installed(c).enabled = (hoKind = "systemd")
      /\ Installed(c).active = hoWg.active /\ Installed(c).link = hoWg.link
      /\ Installed(c).gone = hoWg.gone /\ Installed(c).loose = hoWg.loose
      /\ Installed(c).strays = Filed(c).strays
  BY FiledIs DEF Installed, Interfaces
<1>2. \A s \in Subnets \ Installed(c).strays :
         hoRules[s] <= IF WgActive /\ s = c.subnet THEN 1 ELSE 0
  BY <1>1, RulesUnder
<1>3. hoRules \in [Subnets -> Nat] /\ hoForward \in [now : BOOLEAN, kept : BOOLEAN]
  BY DEF HoTypeOK
<1>4. CASE /\ \/ hoWg' = Installed(c) /\ (WgActive \/ hoWg.active)
              \/ hoWg' = Filed(c) /\ WgActive
           /\ UNCHANGED <<hoRules, hoForward>>
  <2>0. /\ hoWg' \in Interfaces /\ hoWg'.conf = c /\ hoWg'.strays = Filed(c).strays
        /\ hoWg'.active = hoWg.active /\ hoWg'.link = hoWg.link
        /\ hoWg'.gone = hoWg.gone /\ hoWg'.loose = hoWg.loose
        /\ hoKind = "systemd" => hoWg'.enabled \/ hoWg'.loose
    <3>1. CASE hoWg' = Installed(c)
      BY <1>1, <3>1
    <3>2. CASE hoWg' = Filed(c) /\ WgActive
      BY <3>2, FiledIs DEF WgSound
    <3> QED BY <1>4, <3>1, <3>2
  <2>1. WgTypes'
    BY <1>3, <1>4, <2>0 DEF WgTypes
  <2>2. WgActive' <=> WgActive
    BY <2>0 DEF WgActive
  <2>3. RulesCounted'
    BY <1>1, <1>2, <1>4, <2>0, <2>2 DEF RulesCounted
  <2>4. (hoKind = "systemd" /\ WgActive => hoWg.active /\ (hoWg.enabled \/ hoWg.loose))'
    BY <2>0, <2>2 DEF WgSound
  <2>5. Numbered(hoWg.conf)'
    BY <2>0 DEF Numbered, Configured
  <2>6. (hoWg.active => WgActive \/ hoWg.gone)'
    BY <2>0, <2>2 DEF WgSound
  <2>7. (hoKind # "systemd" => hoWg.active = FALSE)'
    BY <2>0 DEF WgSound
  <2>8. WgSound'
    BY <2>3, <2>4, <2>5, <2>6, <2>7 DEF WgSound
  <2> QED BY <1>4, <2>0, <2>1, <2>8
<1>5. CASE ~WgActive /\ ~hoWg.active /\ QuickUp(Installed(c), hoRules)
  <2>1. \A s \in Subnets \ Installed(c).strays : hoRules[s] = 0
    BY <1>2, <1>3, <1>5
  <2>2. WgTypes' /\ WgSound'
    <3>1. hoKind = "systemd" => Installed(c).enabled \/ Installed(c).loose
      BY <1>1
    <3>2. Configured(Installed(c).conf) /\ Numbered(Installed(c).conf)
      BY <1>1 DEF Numbered
    <3> QED BY <1>1, <1>3, <1>5, <2>1, <3>1, <3>2, QuickUpEffect
  <2>3. hoWg' = [Installed(c) EXCEPT !.active = hoKind = "systemd", !.link = c.gen]
    BY <1>1, <1>5 DEF QuickUp
  <2>4. hoWg'.conf = c /\ hoWg'.link = c.gen /\ (hoKind = "systemd" => hoWg'.enabled)
    BY <1>1, <2>3 DEF Interfaces
  <2>5. hoRules'[c.subnet] > 0 /\ (hoKind = "systemd" => hoForward'.now)
    <3>1. hoRules' = More(hoRules, c.subnet)
      BY <1>1, <1>5 DEF QuickUp
    <3>2. c.subnet \in Subnets
      BY DEF Configured, Configs, Names
    <3>3. hoRules'[c.subnet] > 0
      BY <1>3, <3>1, <3>2, MoreCount
    <3>4. hoKind = "systemd" => hoForward'.now
      BY <1>3, <1>5 DEF QuickUp
    <3> QED BY <3>3, <3>4
  <2> QED BY <2>2, <2>4, <2>5
<1> QED BY <1>4, <1>5 DEF InstallWg

(* restart_wg brings the interface up from the file of now.              *)
LEMMA RestartEffect ==
    ASSUME HoTypeOK, WgSound, hoKind' = hoKind, hoKind # "windows", WgActive,
           NEW c \in Configs, Configured(c), c.gen # 0, RestartWg(c)
    PROVE  /\ WgTypes' /\ WgSound'
           /\ hoWg'.conf = c /\ (hoKind = "systemd" => hoWg'.enabled \/ hoWg'.loose)
           /\ hoWg'.link = c.gen /\ hoRules'[c.subnet] > 0
           /\ hoKind = "systemd" => hoForward'.now
<1> DEFINE rules == Less(hoRules, c.subnet)
<1>1. hoRules \in [Subnets -> Nat] /\ hoForward \in [now : BOOLEAN, kept : BOOLEAN]
  BY DEF HoTypeOK
<1>2. rules \in [Subnets -> Nat]
  BY <1>1, LessCount
<1>3. \A s \in Subnets \ Filed(c).strays : rules[s] = 0
  <2> SUFFICES ASSUME NEW s \in Subnets \ Filed(c).strays
               PROVE  rules[s] = 0
    OBVIOUS
  <2>1. hoRules[s] <= IF s = c.subnet THEN 1 ELSE 0
    BY RulesUnder
  <2>2. hoRules[s] \in Nat
    BY <1>1
  <2>3. CASE s = c.subnet
    BY <1>1, <2>1, <2>3, LessCount
  <2>4. CASE s # c.subnet
    BY <1>1, <2>1, <2>2, <2>4, LessCount
  <2> QED BY <2>3, <2>4
<1>4. QuickUp(Filed(c), rules)
  BY DEF RestartWg
<1> HIDE DEF rules
<1>5. hoKind = "systemd" => Filed(c).enabled \/ Filed(c).loose
  BY FiledIs DEF WgSound
<1>6. Filed(c) \in Interfaces /\ Filed(c).conf = c
  BY FiledIs
<1>7. WgTypes' /\ WgSound'
  BY <1>2, <1>3, <1>4, <1>5, <1>6, QuickUpEffect DEF Numbered
<1>8. hoWg' = [Filed(c) EXCEPT !.active = hoKind = "systemd", !.link = c.gen]
  BY <1>4, <1>6 DEF QuickUp
<1>9. /\ hoWg'.conf = c /\ hoWg'.link = c.gen /\ hoWg'.enabled = Filed(c).enabled
      /\ hoWg'.loose = Filed(c).loose
  BY <1>6, <1>8 DEF Interfaces
<1>10. hoRules'[c.subnet] > 0
  <2>1. hoRules' = More(rules, c.subnet)
    BY <1>4, <1>6 DEF QuickUp
  <2>2. c.subnet \in Subnets
    BY DEF Configured, Configs, Names
  <2> QED BY <1>2, <2>1, <2>2, MoreCount
<1>11. hoKind = "systemd" => hoForward'.now
  BY <1>1, <1>4 DEF QuickUp
<1> QED BY <1>5, <1>7, <1>9, <1>10, <1>11

\* The interface serves what the configuration says, once a command of
\* this name has said so; also after a reboot.  What a reconciliation on
\* Windows has missed is excused.
WgReady(by) ==
    CASE hoKind = "systemd" ->
           /\ hoWg.conf.gen = hoConfig.gen /\ hoWg.conf.subnet = hoConfig.subnet
           /\ hoWg.enabled \/ hoWg.loose
           /\ \/ hoWg.gone /\ ~WgActive
              \/ hoWg.link = hoConfig.gen /\ hoForward.now /\ hoRules[hoConfig.subnet] > 0
      [] hoKind = "container" ->
           IF by = "start" THEN WgActive
           ELSE hoWg.link = hoConfig.gen /\ hoRules[hoConfig.subnet] > 0
      [] OTHER -> /\ hoWg.link = hoConfig.gen \/ "link" \in hoMissed
                  /\ hoForward.now \/ "forwarding" \in hoMissed
                  /\ NatThere

(* A reconciliation on Windows leaves an interface, a NetNat and         *)
(* forwarding, but for what it has missed.                               *)
LEMMA WindowsEffect ==
    ASSUME HoTypeOK, WgSound, hoKind' = hoKind, hoKind = "windows", NEW force,
           NEW c \in Configs, Configured(c), c.gen # 0, NEW missed,
           WindowsReconcile(c, force, missed)
    PROVE  /\ WgTypes' /\ WgSound'
           /\ hoWg'.link = c.gen \/ "link" \in missed
           /\ hoForward'.now \/ "forwarding" \in missed
           /\ NatThere'
           /\ hoWall' \in {"off", "shut", "open"} /\ (hoWall' # "shut" \/ "port" \in missed)
<1>1. PICK link \in {0, c.gen} : /\ hoWg' = [hoWg EXCEPT !.conf = c, !.link = link]
                                 /\ link = c.gen \/ "link" \in missed
  BY DEF WindowsReconcile
<1>2. hoWg \in Interfaces /\ link \in Nat
  BY DEF HoTypeOK, Configs
<1>3. /\ hoWg' \in Interfaces /\ hoWg'.conf = c /\ hoWg'.link = link
      /\ hoWg'.active = hoWg.active
  BY <1>1, <1>2 DEF Interfaces
<1>4. /\ hoForward' \in [now : BOOLEAN, kept : BOOLEAN]
      /\ hoForward'.now \/ "forwarding" \in missed
  <2>1. hoForward \in [now : BOOLEAN, kept : BOOLEAN]
    BY DEF HoTypeOK
  <2>2. \/ "forwarding" \notin missed /\ hoForward' = [now |-> TRUE, kept |-> TRUE]
        \/ /\ "forwarding" \in missed
           /\ hoForward' \in {hoForward, [hoForward EXCEPT !.now = TRUE],
                                [hoForward EXCEPT !.kept = TRUE]}
    BY DEF WindowsReconcile
  <2>3. CASE hoForward' = [now |-> TRUE, kept |-> TRUE]
    BY <2>3
  <2>4. CASE "forwarding" \in missed /\ hoForward' = hoForward
    BY <2>1, <2>4
  <2>5. CASE "forwarding" \in missed /\ hoForward' = [hoForward EXCEPT !.now = TRUE]
    BY <2>1, <2>5
  <2>6. CASE "forwarding" \in missed /\ hoForward' = [hoForward EXCEPT !.kept = TRUE]
    BY <2>1, <2>6
  <2> QED BY <2>2, <2>3, <2>4, <2>5, <2>6
<1>5. hoWall' \in {"off", "shut", "open"} /\ (hoWall' # "shut" \/ "port" \in missed)
  BY DEF WindowsReconcile, OpenPort, Opened, HoTypeOK
<1>6. hoRules' \in [Subnets -> Nat] /\ NatThere'
  <2>1. c.subnet \in Subnets
    BY DEF Configured, Configs, Names
  <2>2. CASE hoRules' = [s \in Subnets |-> IF s = c.subnet THEN 1 ELSE 0]
    <3>1. hoRules' \in [Subnets -> Nat]
      BY <2>2
    <3>2. hoRules'[c.subnet] > 0
      BY <2>1, <2>2
    <3> QED BY <2>1, <3>1, <3>2 DEF NatThere
  <2>3. CASE NatThere /\ hoRules' = hoRules
    <3>1. hoRules \in [Subnets -> Nat]
      BY DEF HoTypeOK
    <3> QED BY <2>3, <3>1 DEF NatThere
  <2> QED BY <2>2, <2>3 DEF WindowsReconcile, CreateNat
<1>7. WgTypes'
  BY <1>3, <1>4, <1>6 DEF WgTypes
<1>8. WgSound'
  <2>1. hoWg.active = FALSE
    BY DEF WgSound
  <2> QED BY <1>3, <2>1 DEF WgSound, Numbered, WgActive, Configured, RulesCounted
<1> QED BY <1>1, <1>3, <1>4, <1>5, <1>6, <1>7, <1>8

(* A reconciliation makes the interface serve: by force, or because no   *)
(* start asks for more, or because it did already.                       *)
LEMMA ReconcileEffect ==
    ASSUME HoTypeOK, WgSound, UNCHANGED <<hoKind, hoConfig>>, Configured(hoConfig),
           hoConfig.gen # 0, NEW force \in BOOLEAN, NEW by, NEW missed, missed \subseteq hoMissed',
           Reconcile(hoConfig, force, missed)
    PROVE  /\ WgTypes' /\ WgSound'
           /\ hoWall' \in {"off", "shut", "open"}
           /\ hoKind = "windows" => hoWall' # "shut" \/ "port" \in hoMissed'
           /\ \/ force /\ by # "start"
              \/ by = "start" /\ hoKind # "systemd"
              \/ hoKind = "systemd" /\ WgReady(by)
              => WgReady(by)'
<1>1. hoConfig \in Configs /\ hoKind \in Kinds /\ hoWall \in {"off", "shut", "open"}
  BY DEF HoTypeOK
<1>2. CASE hoKind = "windows"
  <2>1. WindowsReconcile(hoConfig, force, missed)
    BY <1>2 DEF Reconcile
  <2>2. /\ WgTypes' /\ WgSound'
        /\ hoWg'.link = hoConfig.gen \/ "link" \in missed
        /\ hoForward'.now \/ "forwarding" \in missed
        /\ NatThere'
        /\ hoWall' \in {"off", "shut", "open"} /\ (hoWall' # "shut" \/ "port" \in missed)
    BY <1>1, <1>2, <2>1, WindowsEffect
  <2>3. WgReady(by)'
    BY <1>2, <2>2 DEF WgReady
  <2> QED BY <2>2, <2>3
<1>3. CASE hoKind # "windows" /\ force /\ WgActive
  <2>1. RestartWg(hoConfig) /\ UNCHANGED hoWall
    BY <1>3 DEF Reconcile
  <2>2. /\ WgTypes' /\ WgSound'
        /\ hoWg'.conf = hoConfig /\ (hoKind = "systemd" => hoWg'.enabled \/ hoWg'.loose)
        /\ hoWg'.link = hoConfig.gen /\ hoRules'[hoConfig.subnet] > 0
        /\ hoKind = "systemd" => hoForward'.now
    BY <1>1, <1>3, <2>1, RestartEffect
  <2>3. WgActive'
    BY <2>2 DEF WgActive
  <2>4. WgReady(by)'
    BY <1>1, <1>3, <2>2, <2>3 DEF WgReady, Kinds
  <2> QED BY <1>1, <1>3, <2>1, <2>2, <2>4
<1>4. CASE hoKind # "windows" /\ ~(force /\ WgActive)
  <2>1. InstallWg(hoConfig) /\ UNCHANGED hoWall
    BY <1>4 DEF Reconcile
  <2>2. /\ WgTypes' /\ WgSound'
        /\ hoWg'.conf = hoConfig /\ (hoKind = "systemd" => hoWg'.enabled \/ hoWg'.loose)
        /\ \/ /\ WgActive \/ hoWg.active
              /\ UNCHANGED <<hoRules, hoForward>> /\ hoWg'.link = hoWg.link
              /\ hoWg'.gone = hoWg.gone
           \/ /\ hoWg'.link = hoConfig.gen /\ hoRules'[hoConfig.subnet] > 0
              /\ hoKind = "systemd" => hoForward'.now
    BY <1>1, <1>4, <2>1, InstallEffect
  <2>3. ASSUME \/ force /\ by # "start"
               \/ by = "start" /\ hoKind # "systemd"
               \/ hoKind = "systemd" /\ WgReady(by)
        PROVE  WgReady(by)'
    <3>1. CASE hoWg'.link = hoConfig.gen /\ hoRules'[hoConfig.subnet] > 0
               /\ (hoKind = "systemd" => hoForward'.now)
      <4>1. WgActive'
        BY <3>1 DEF WgActive
      <4> QED BY <1>1, <1>4, <2>2, <3>1, <4>1 DEF WgReady, Kinds
    <3>2. CASE /\ WgActive \/ hoWg.active
               /\ UNCHANGED <<hoRules, hoForward>> /\ hoWg'.link = hoWg.link
               /\ hoWg'.gone = hoWg.gone
      <4>1. hoWg.active => WgActive \/ hoWg.gone
        BY DEF WgSound
      <4>2. WgActive' <=> WgActive
        BY <3>2 DEF WgActive
      <4>3. CASE hoKind = "systemd" /\ WgReady(by)
        <5>1. \/ hoWg.gone /\ ~WgActive
              \/ hoWg.link = hoConfig.gen /\ hoForward.now /\ hoRules[hoConfig.subnet] > 0
          BY <4>3 DEF WgReady
        <5>2. \/ hoWg'.gone /\ ~WgActive'
              \/ hoWg'.link = hoConfig.gen /\ hoForward'.now /\ hoRules'[hoConfig.subnet] > 0
          BY <3>2, <4>2, <5>1
        <5> QED BY <2>2, <4>3, <5>2 DEF WgReady
      <4>4. CASE hoKind = "systemd" /\ force /\ by # "start"
        <5>1. ~WgActive
          BY <1>4, <4>4
        <5>2. hoWg'.gone /\ ~WgActive'
          BY <3>2, <4>1, <4>2, <5>1
        <5> QED BY <2>2, <4>4, <5>2 DEF WgReady
      <4>5. CASE hoKind = "container"
        <5>1. hoWg.active = FALSE
          BY <4>5 DEF WgSound
        <5>2. WgActive
          BY <3>2, <5>1
        <5>3. by = "start"
          BY <1>4, <2>3, <4>5, <5>2
        <5> QED BY <4>2, <4>5, <5>2, <5>3 DEF WgReady
      <4> QED BY <1>1, <1>4, <2>3, <4>3, <4>4, <4>5 DEF Kinds
    <3> QED BY <2>2, <3>1, <3>2
  <2> QED BY <1>1, <1>4, <2>1, <2>2, <2>3
<1> QED BY <1>2, <1>3, <1>4

-----------------------------------------------------------------------------
(* A command under way: the steps it has left, and how it moves along    *)
(* them.                                                                 *)

\* The record of the command under way.
JobRecord ==
    /\ hoJob = [op |-> hoJob.op, left |-> hoJob.left, well |-> hoJob.well, by |-> hoJob.by]
    /\ hoJob.well \in BOOLEAN
Ahead == hoJob.left[1]

\* The command goes on from a step to another.
Goes(from, to) == Ahead = from /\ Ahead' = to

\* Where each of the five commands can be.
SetupUnderWay ==
    /\ hoJob.op = "setup" /\ hoJob.by = "setup"
    /\ \/ /\ hoKind = "systemd"
          /\ \/ hoJob.left =
                   <<"save", "forwarding", "wireguard", "wall", "wstunnel", "enroll", "front">>
             \/ hoJob.left = <<"forwarding", "wireguard", "wall", "wstunnel", "enroll", "front">>
             \/ hoJob.left = <<"wireguard", "wall", "wstunnel", "enroll", "front">>
             \/ hoJob.left = <<"wall", "wstunnel", "enroll", "front">>
             \/ hoJob.left = <<"wstunnel", "enroll", "front">>
             \/ hoJob.left = <<"enroll", "front">>
             \/ hoJob.left = <<"front">>
       \/ hoKind = "windows" /\ (hoJob.left = <<"save", "wireguard">> \/ hoJob.left = <<"wireguard">>)
       \/ hoKind = "container" /\ hoJob.left = <<"save">> /\ hoJob.well = FALSE
RestartUnderWay ==
    /\ hoJob.op = "restart" /\ hoJob.by = "restart"
    /\ \/ hoKind = "windows" /\ hoJob.left = <<"wireguard">>
       \/ /\ hoKind # "windows"
          /\ \/ hoJob.left = <<"wireguard", "wstunnel", "enroll">>
             \/ hoJob.left = <<"wstunnel", "enroll">>
             \/ hoJob.left = <<"enroll">>
StartUnderWay ==
    /\ hoJob.op = "start" /\ hoJob.by = "start" /\ hoKind # "systemd"
    /\ hoJob.left = <<"wireguard", "spawn">> \/ hoJob.left = <<"spawn">>
UninstallUnderWay ==
    /\ hoJob.op = "uninstall" /\ hoJob.by = "uninstall"
    /\ \/ hoJob.left = <<"drop_wstunnel", "drop_enroll", "drop_wireguard", "drop_front", "drop_config">>
       \/ hoJob.left = <<"drop_enroll", "drop_wireguard", "drop_front", "drop_config">>
       \/ hoJob.left = <<"drop_wireguard", "drop_front", "drop_config">>
       \/ hoJob.left = <<"drop_front", "drop_config">>
       \/ hoJob.left = <<"drop_config">>
UpdateUnderWay ==
    /\ hoJob.op = "update" /\ hoJob.by \in Edits /\ hoKind = "systemd"
    /\ \/ /\ hoJob.by = "certificate"
          /\ hoJob.left = <<"save", "bounce">> \/ hoJob.left = <<"bounce">>
       \/ /\ hoJob.by # "certificate"
          /\ \/ hoJob.left = <<"save", "bounce", "rewire">>
             \/ hoJob.left = <<"bounce", "rewire">>
             \/ hoJob.left = <<"rewire">>
UnderWay ==
    SetupUnderWay \/ RestartUnderWay \/ StartUnderWay \/ UninstallUnderWay \/ UpdateUnderWay

\* While a command is under way nothing is promised.
JobShape ==
    /\ JobRecord
    /\ IF HoIdle THEN hoJob = NoJob ELSE UnderWay /\ hoPromise.says = "nothing"

\* The command goes on, no better than before.
Moved(well) ==
    /\ hoJob'.op = hoJob.op /\ hoJob'.by = hoJob.by /\ (hoJob'.well => hoJob.well /\ well)
    /\ hoPromise' = hoPromise

(* After its last step a command ends, ...                               *)
LEMMA LastStep ==
    ASSUME NEW step, hoJob.left = <<step>>, NEW well \in BOOLEAN, Advance(well)
    PROVE  EndJob(hoJob.well /\ well)
<1>1. Len(hoJob.left) = 1
  OBVIOUS
<1> QED BY <1>1 DEF Advance

(* ... after any other it goes on with the rest.                         *)
LEMMA OneStep ==
    ASSUME JobRecord, Len(hoJob.left) # 1, NEW well \in BOOLEAN, Advance(well)
    PROVE  Moved(well) /\ hoJob'.left = Tail(hoJob.left) /\ JobRecord'
<1>1. hoJob' = [hoJob EXCEPT !.left = Tail(@), !.well = @ /\ well] /\ hoPromise' = hoPromise
  BY DEF Advance
<1> DEFINE t == Tail(hoJob.left)
<1>2. hoJob' = [hoJob EXCEPT !.left = t, !.well = @ /\ well]
  BY <1>1
<1> HIDE DEF t
<1>3. hoJob' = [op |-> hoJob.op, left |-> t, well |-> hoJob.well /\ well, by |-> hoJob.by]
  BY <1>2 DEF JobRecord
<1>4. hoJob'.left = t /\ hoJob'.op = hoJob.op /\ hoJob'.by = hoJob.by
  BY <1>3
<1>5. hoJob'.well => hoJob.well /\ well
  BY <1>3
<1>6. JobRecord'
  BY <1>3 DEF JobRecord
<1> QED BY <1>1, <1>4, <1>5, <1>6 DEF Moved, t

(* Where a restart goes on, and where it ends; the same of a start, ...  *)
LEMMA RestartOnward ==
    ASSUME JobRecord, RestartUnderWay, hoKind' = hoKind, NEW well \in BOOLEAN, Advance(well)
    PROVE  \/ /\ EndJob(hoJob.well /\ well)
              /\ \/ Ahead = "wireguard" /\ hoKind = "windows"
                 \/ Ahead = "enroll" /\ hoKind # "windows"
           \/ /\ Moved(well) /\ JobRecord' /\ RestartUnderWay'
              /\ \/ Goes("wireguard", "wstunnel") /\ hoKind # "windows"
                 \/ Goes("wstunnel", "enroll") /\ hoKind # "windows"
<1>1. CASE hoKind = "windows" /\ hoJob.left = <<"wireguard">>
  <2>1. Ahead = "wireguard"
    BY <1>1 DEF Ahead
  <2> QED BY <1>1, <2>1, LastStep
<1>2. CASE hoKind # "windows" /\ hoJob.left = <<"wireguard", "wstunnel", "enroll">>
  <2>1. Len(hoJob.left) # 1 /\ Ahead = "wireguard" /\ Tail(hoJob.left) = <<"wstunnel", "enroll">>
    BY <1>2 DEF Ahead
  <2>2. Moved(well) /\ JobRecord' /\ hoJob'.left = <<"wstunnel", "enroll">>
    BY <2>1, OneStep
  <2>3. Ahead' = "wstunnel"
    BY <2>2 DEF Ahead
  <2>4. hoJob'.op = hoJob.op /\ hoJob'.by = hoJob.by
    BY <2>2 DEF Moved
  <2> QED BY <1>2, <2>1, <2>2, <2>3, <2>4 DEF RestartUnderWay, Goes
<1>3. CASE hoKind # "windows" /\ hoJob.left = <<"wstunnel", "enroll">>
  <2>1. Len(hoJob.left) # 1 /\ Ahead = "wstunnel" /\ Tail(hoJob.left) = <<"enroll">>
    BY <1>3 DEF Ahead
  <2>2. Moved(well) /\ JobRecord' /\ hoJob'.left = <<"enroll">>
    BY <2>1, OneStep
  <2>3. Ahead' = "enroll"
    BY <2>2 DEF Ahead
  <2>4. hoJob'.op = hoJob.op /\ hoJob'.by = hoJob.by
    BY <2>2 DEF Moved
  <2> QED BY <1>3, <2>1, <2>2, <2>3, <2>4 DEF RestartUnderWay, Goes
<1>4. CASE hoKind # "windows" /\ hoJob.left = <<"enroll">>
  <2>1. Ahead = "enroll"
    BY <1>4 DEF Ahead
  <2> QED BY <1>4, <2>1, LastStep
<1> QED BY <1>1, <1>2, <1>3, <1>4 DEF RestartUnderWay

(* ... the transport of a process of its own, ...                        *)
LEMMA StartOnward ==
    ASSUME JobRecord, StartUnderWay, hoKind' = hoKind, NEW well \in BOOLEAN, Advance(well)
    PROVE  \/ /\ EndJob(hoJob.well /\ well)
              /\ Ahead = "spawn"
           \/ /\ Moved(well) /\ JobRecord' /\ StartUnderWay'
              /\ Goes("wireguard", "spawn")
<1>1. CASE hoJob.left = <<"wireguard", "spawn">>
  <2>1. Len(hoJob.left) # 1 /\ Ahead = "wireguard" /\ Tail(hoJob.left) = <<"spawn">>
    BY <1>1 DEF Ahead
  <2>2. Moved(well) /\ JobRecord' /\ hoJob'.left = <<"spawn">>
    BY <2>1, OneStep
  <2>3. Ahead' = "spawn"
    BY <2>2 DEF Ahead
  <2>4. hoJob'.op = hoJob.op /\ hoJob'.by = hoJob.by
    BY <2>2 DEF Moved
  <2> QED BY <1>1, <2>1, <2>2, <2>3, <2>4 DEF StartUnderWay, Goes
<1>2. CASE hoJob.left = <<"spawn">>
  <2>1. Ahead = "spawn"
    BY <1>2 DEF Ahead
  <2> QED BY <1>2, <2>1, LastStep
<1> QED BY <1>1, <1>2 DEF StartUnderWay

(* ... an uninstall, ...                                                 *)
LEMMA UninstallOnward ==
    ASSUME JobRecord, UninstallUnderWay, hoKind' = hoKind, NEW well \in BOOLEAN, Advance(well)
    PROVE  \/ /\ EndJob(hoJob.well /\ well)
              /\ Ahead = "drop_config"
           \/ /\ Moved(well) /\ JobRecord' /\ UninstallUnderWay'
              /\ \/ Goes("drop_wstunnel", "drop_enroll")
                 \/ Goes("drop_enroll", "drop_wireguard")
                 \/ Goes("drop_wireguard", "drop_front")
                 \/ Goes("drop_front", "drop_config")
<1>1. CASE hoJob.left = <<"drop_wstunnel", "drop_enroll", "drop_wireguard", "drop_front",
   "drop_config">>
  <2>1. Len(hoJob.left) # 1 /\ Ahead = "drop_wstunnel" /\ Tail(hoJob.left) = <<"drop_enroll",
     "drop_wireguard", "drop_front", "drop_config">>
    BY <1>1 DEF Ahead
  <2>2. Moved(well) /\ JobRecord' /\ hoJob'.left = <<"drop_enroll", "drop_wireguard",
     "drop_front", "drop_config">>
    BY <2>1, OneStep
  <2>3. Ahead' = "drop_enroll"
    BY <2>2 DEF Ahead
  <2>4. hoJob'.op = hoJob.op /\ hoJob'.by = hoJob.by
    BY <2>2 DEF Moved
  <2> QED BY <1>1, <2>1, <2>2, <2>3, <2>4 DEF UninstallUnderWay, Goes
<1>2. CASE hoJob.left = <<"drop_enroll", "drop_wireguard", "drop_front", "drop_config">>
  <2>1. Len(hoJob.left) # 1 /\ Ahead = "drop_enroll" /\ Tail(hoJob.left) = <<"drop_wireguard",
     "drop_front", "drop_config">>
    BY <1>2 DEF Ahead
  <2>2. Moved(well) /\ JobRecord' /\ hoJob'.left = <<"drop_wireguard", "drop_front", "drop_config">>
    BY <2>1, OneStep
  <2>3. Ahead' = "drop_wireguard"
    BY <2>2 DEF Ahead
  <2>4. hoJob'.op = hoJob.op /\ hoJob'.by = hoJob.by
    BY <2>2 DEF Moved
  <2> QED BY <1>2, <2>1, <2>2, <2>3, <2>4 DEF UninstallUnderWay, Goes
<1>3. CASE hoJob.left = <<"drop_wireguard", "drop_front", "drop_config">>
  <2>1. Len(hoJob.left) # 1 /\ Ahead = "drop_wireguard" /\ Tail(hoJob.left) = <<"drop_front",
     "drop_config">>
    BY <1>3 DEF Ahead
  <2>2. Moved(well) /\ JobRecord' /\ hoJob'.left = <<"drop_front", "drop_config">>
    BY <2>1, OneStep
  <2>3. Ahead' = "drop_front"
    BY <2>2 DEF Ahead
  <2>4. hoJob'.op = hoJob.op /\ hoJob'.by = hoJob.by
    BY <2>2 DEF Moved
  <2> QED BY <1>3, <2>1, <2>2, <2>3, <2>4 DEF UninstallUnderWay, Goes
<1>4. CASE hoJob.left = <<"drop_front", "drop_config">>
  <2>1. Len(hoJob.left) # 1 /\ Ahead = "drop_front" /\ Tail(hoJob.left) = <<"drop_config">>
    BY <1>4 DEF Ahead
  <2>2. Moved(well) /\ JobRecord' /\ hoJob'.left = <<"drop_config">>
    BY <2>1, OneStep
  <2>3. Ahead' = "drop_config"
    BY <2>2 DEF Ahead
  <2>4. hoJob'.op = hoJob.op /\ hoJob'.by = hoJob.by
    BY <2>2 DEF Moved
  <2> QED BY <1>4, <2>1, <2>2, <2>3, <2>4 DEF UninstallUnderWay, Goes
<1>5. CASE hoJob.left = <<"drop_config">>
  <2>1. Ahead = "drop_config"
    BY <1>5 DEF Ahead
  <2> QED BY <1>5, <2>1, LastStep
<1> QED BY <1>1, <1>2, <1>3, <1>4, <1>5 DEF UninstallUnderWay

(* ... a change of settings ...                                          *)
LEMMA UpdateOnward ==
    ASSUME JobRecord, UpdateUnderWay, hoKind' = hoKind, NEW well \in BOOLEAN, Advance(well)
    PROVE  \/ /\ EndJob(hoJob.well /\ well)
              /\ \/ Ahead = "bounce" /\ hoJob.by = "certificate"
                 \/ Ahead = "rewire" /\ hoJob.by # "certificate"
           \/ /\ Moved(well) /\ JobRecord' /\ UpdateUnderWay'
              /\ \/ Goes("save", "bounce") /\ hoJob.by = "certificate"
                 \/ Goes("save", "bounce") /\ hoJob.by # "certificate"
                 \/ Goes("bounce", "rewire") /\ hoJob.by # "certificate"
<1>1. CASE hoJob.by = "certificate" /\ hoJob.left = <<"save", "bounce">>
  <2>1. Len(hoJob.left) # 1 /\ Ahead = "save" /\ Tail(hoJob.left) = <<"bounce">>
    BY <1>1 DEF Ahead
  <2>2. Moved(well) /\ JobRecord' /\ hoJob'.left = <<"bounce">>
    BY <2>1, OneStep
  <2>3. Ahead' = "bounce"
    BY <2>2 DEF Ahead
  <2>4. hoJob'.op = hoJob.op /\ hoJob'.by = hoJob.by
    BY <2>2 DEF Moved
  <2> QED BY <1>1, <2>1, <2>2, <2>3, <2>4 DEF UpdateUnderWay, Goes
<1>2. CASE hoJob.by = "certificate" /\ hoJob.left = <<"bounce">>
  <2>1. Ahead = "bounce"
    BY <1>2 DEF Ahead
  <2> QED BY <1>2, <2>1, LastStep
<1>3. CASE hoJob.by # "certificate" /\ hoJob.left = <<"save", "bounce", "rewire">>
  <2>1. Len(hoJob.left) # 1 /\ Ahead = "save" /\ Tail(hoJob.left) = <<"bounce", "rewire">>
    BY <1>3 DEF Ahead
  <2>2. Moved(well) /\ JobRecord' /\ hoJob'.left = <<"bounce", "rewire">>
    BY <2>1, OneStep
  <2>3. Ahead' = "bounce"
    BY <2>2 DEF Ahead
  <2>4. hoJob'.op = hoJob.op /\ hoJob'.by = hoJob.by
    BY <2>2 DEF Moved
  <2> QED BY <1>3, <2>1, <2>2, <2>3, <2>4 DEF UpdateUnderWay, Goes
<1>4. CASE hoJob.by # "certificate" /\ hoJob.left = <<"bounce", "rewire">>
  <2>1. Len(hoJob.left) # 1 /\ Ahead = "bounce" /\ Tail(hoJob.left) = <<"rewire">>
    BY <1>4 DEF Ahead
  <2>2. Moved(well) /\ JobRecord' /\ hoJob'.left = <<"rewire">>
    BY <2>1, OneStep
  <2>3. Ahead' = "rewire"
    BY <2>2 DEF Ahead
  <2>4. hoJob'.op = hoJob.op /\ hoJob'.by = hoJob.by
    BY <2>2 DEF Moved
  <2> QED BY <1>4, <2>1, <2>2, <2>3, <2>4 DEF UpdateUnderWay, Goes
<1>5. CASE hoJob.by # "certificate" /\ hoJob.left = <<"rewire">>
  <2>1. Ahead = "rewire"
    BY <1>5 DEF Ahead
  <2> QED BY <1>5, <2>1, LastStep
<1> QED BY <1>1, <1>2, <1>3, <1>4, <1>5 DEF UpdateUnderWay

(* ... and a setup, on each platform.                                    *)
LEMMA SetupOnward ==
    ASSUME JobRecord, SetupUnderWay, hoKind' = hoKind, NEW well \in BOOLEAN, Advance(well)
    PROVE  \/ /\ EndJob(hoJob.well /\ well)
              /\ \/ Ahead = "front" /\ hoKind = "systemd"
                 \/ Ahead = "wireguard" /\ hoKind = "windows"
                 \/ Ahead = "save" /\ hoKind = "container"
           \/ /\ Moved(well) /\ JobRecord' /\ SetupUnderWay'
              /\ \/ Goes("save", "forwarding") /\ hoKind = "systemd"
                 \/ Goes("forwarding", "wireguard") /\ hoKind = "systemd"
                 \/ Goes("wireguard", "wall") /\ hoKind = "systemd"
                 \/ Goes("wall", "wstunnel") /\ hoKind = "systemd"
                 \/ Goes("wstunnel", "enroll") /\ hoKind = "systemd"
                 \/ Goes("enroll", "front") /\ hoKind = "systemd"
                 \/ Goes("save", "wireguard") /\ hoKind = "windows"
<1>1. CASE hoKind = "systemd" /\ hoJob.left = <<"save", "forwarding", "wireguard", "wall",
   "wstunnel", "enroll", "front">>
  <2>1. Len(hoJob.left) # 1 /\ Ahead = "save" /\ Tail(hoJob.left) = <<"forwarding", "wireguard",
     "wall", "wstunnel", "enroll", "front">>
    BY <1>1 DEF Ahead
  <2>2. Moved(well) /\ JobRecord' /\ hoJob'.left = <<"forwarding", "wireguard", "wall",
     "wstunnel", "enroll", "front">>
    BY <2>1, OneStep
  <2>3. Ahead' = "forwarding"
    BY <2>2 DEF Ahead
  <2>4. hoJob'.op = hoJob.op /\ hoJob'.by = hoJob.by
    BY <2>2 DEF Moved
  <2> QED BY <1>1, <2>1, <2>2, <2>3, <2>4 DEF SetupUnderWay, Goes
<1>2. CASE hoKind = "systemd" /\ hoJob.left = <<"forwarding", "wireguard", "wall", "wstunnel",
   "enroll", "front">>
  <2>1. Len(hoJob.left) # 1 /\ Ahead = "forwarding" /\ Tail(hoJob.left) = <<"wireguard", "wall",
     "wstunnel", "enroll", "front">>
    BY <1>2 DEF Ahead
  <2>2. Moved(well) /\ JobRecord' /\ hoJob'.left = <<"wireguard", "wall", "wstunnel", "enroll",
     "front">>
    BY <2>1, OneStep
  <2>3. Ahead' = "wireguard"
    BY <2>2 DEF Ahead
  <2>4. hoJob'.op = hoJob.op /\ hoJob'.by = hoJob.by
    BY <2>2 DEF Moved
  <2> QED BY <1>2, <2>1, <2>2, <2>3, <2>4 DEF SetupUnderWay, Goes
<1>3. CASE hoKind = "systemd" /\ hoJob.left = <<"wireguard", "wall", "wstunnel", "enroll", "front">>
  <2>1. Len(hoJob.left) # 1 /\ Ahead = "wireguard" /\ Tail(hoJob.left) = <<"wall", "wstunnel",
     "enroll", "front">>
    BY <1>3 DEF Ahead
  <2>2. Moved(well) /\ JobRecord' /\ hoJob'.left = <<"wall", "wstunnel", "enroll", "front">>
    BY <2>1, OneStep
  <2>3. Ahead' = "wall"
    BY <2>2 DEF Ahead
  <2>4. hoJob'.op = hoJob.op /\ hoJob'.by = hoJob.by
    BY <2>2 DEF Moved
  <2> QED BY <1>3, <2>1, <2>2, <2>3, <2>4 DEF SetupUnderWay, Goes
<1>4. CASE hoKind = "systemd" /\ hoJob.left = <<"wall", "wstunnel", "enroll", "front">>
  <2>1. Len(hoJob.left) # 1 /\ Ahead = "wall" /\ Tail(hoJob.left) = <<"wstunnel", "enroll", "front">>
    BY <1>4 DEF Ahead
  <2>2. Moved(well) /\ JobRecord' /\ hoJob'.left = <<"wstunnel", "enroll", "front">>
    BY <2>1, OneStep
  <2>3. Ahead' = "wstunnel"
    BY <2>2 DEF Ahead
  <2>4. hoJob'.op = hoJob.op /\ hoJob'.by = hoJob.by
    BY <2>2 DEF Moved
  <2> QED BY <1>4, <2>1, <2>2, <2>3, <2>4 DEF SetupUnderWay, Goes
<1>5. CASE hoKind = "systemd" /\ hoJob.left = <<"wstunnel", "enroll", "front">>
  <2>1. Len(hoJob.left) # 1 /\ Ahead = "wstunnel" /\ Tail(hoJob.left) = <<"enroll", "front">>
    BY <1>5 DEF Ahead
  <2>2. Moved(well) /\ JobRecord' /\ hoJob'.left = <<"enroll", "front">>
    BY <2>1, OneStep
  <2>3. Ahead' = "enroll"
    BY <2>2 DEF Ahead
  <2>4. hoJob'.op = hoJob.op /\ hoJob'.by = hoJob.by
    BY <2>2 DEF Moved
  <2> QED BY <1>5, <2>1, <2>2, <2>3, <2>4 DEF SetupUnderWay, Goes
<1>6. CASE hoKind = "systemd" /\ hoJob.left = <<"enroll", "front">>
  <2>1. Len(hoJob.left) # 1 /\ Ahead = "enroll" /\ Tail(hoJob.left) = <<"front">>
    BY <1>6 DEF Ahead
  <2>2. Moved(well) /\ JobRecord' /\ hoJob'.left = <<"front">>
    BY <2>1, OneStep
  <2>3. Ahead' = "front"
    BY <2>2 DEF Ahead
  <2>4. hoJob'.op = hoJob.op /\ hoJob'.by = hoJob.by
    BY <2>2 DEF Moved
  <2> QED BY <1>6, <2>1, <2>2, <2>3, <2>4 DEF SetupUnderWay, Goes
<1>7. CASE hoKind = "systemd" /\ hoJob.left = <<"front">>
  <2>1. Ahead = "front"
    BY <1>7 DEF Ahead
  <2> QED BY <1>7, <2>1, LastStep
<1>8. CASE hoKind = "windows" /\ hoJob.left = <<"save", "wireguard">>
  <2>1. Len(hoJob.left) # 1 /\ Ahead = "save" /\ Tail(hoJob.left) = <<"wireguard">>
    BY <1>8 DEF Ahead
  <2>2. Moved(well) /\ JobRecord' /\ hoJob'.left = <<"wireguard">>
    BY <2>1, OneStep
  <2>3. Ahead' = "wireguard"
    BY <2>2 DEF Ahead
  <2>4. hoJob'.op = hoJob.op /\ hoJob'.by = hoJob.by
    BY <2>2 DEF Moved
  <2> QED BY <1>8, <2>1, <2>2, <2>3, <2>4 DEF SetupUnderWay, Goes
<1>9. CASE hoKind = "windows" /\ hoJob.left = <<"wireguard">>
  <2>1. Ahead = "wireguard"
    BY <1>9 DEF Ahead
  <2> QED BY <1>9, <2>1, LastStep
<1>10. CASE hoKind = "container" /\ hoJob.left = <<"save">>
  <2>1. Ahead = "save"
    BY <1>10 DEF Ahead
  <2> QED BY <1>10, <2>1, LastStep
<1> QED BY <1>1, <1>2, <1>3, <1>4, <1>5, <1>6, <1>7, <1>8, <1>9, <1>10 DEF SetupUnderWay

-----------------------------------------------------------------------------
(* What a command has said, and what one under way has done so far.      *)

\* The transport serves, and so does what its unit starts after a reboot,
\* unless Caddy has its port.
WstunnelReady(by) ==
    hoKind = "systemd" =>
        /\ hoTransport.unit = hoConfig.gen
        /\ \/ PortLost
           \/ hoTransport.runs # 0 /\ (hoTransport.runs = hoConfig.gen \/ by = "setup")
ListenerReady == hoKind = "systemd" => hoListener.unit /\ hoListener.up
FrontReady ==
    hoConfig.domain => /\ hoBins /\ hoCaddy.up
                       /\ hoCaddy.site = hoConfig.gen /\ hoCaddy.loaded = hoConfig.gen

\* What a command that has ended well says, in a form a reboot keeps.
Serves(by) ==
    /\ Configured(hoConfig)
    /\ WgReady(by) /\ WstunnelReady(by) /\ ListenerReady
    /\ by = "start" => hoKind # "systemd" /\ hoTransport.runs = hoConfig.gen /\ hoListener.up
    /\ by = "setup" => (hoWall # "shut" \/ "port" \in hoMissed) /\ FrontReady

\* What an uninstall leaves of the interface's files, and of everything's.
WgBare == ~Configured(hoWg.conf) /\ (hoKind = "systemd" => hoForward.kept = FALSE)
Bare ==
    /\ ~Configured(hoConfig) /\ WgBare
    /\ hoTransport.unit = 0 /\ hoListener.unit = FALSE /\ hoCaddy.site = 0
Speakers == {"setup", "restart", "start"} \cup Edits

\* What was promised is so.
Said ==
    /\ hoPromise.says = "serves" => hoPromise.by \in Speakers /\ Serves(hoPromise.by)
    /\ hoPromise.says = "bare" => Bare
    /\ hoPromise.says = "healed" => HoHealed

\* A command but for setup and uninstall only begins with a
\* configuration.
Planned ==
    /\ hoJob.op = "setup" => Ahead = "save" \/ Configured(hoConfig)
    /\ hoJob.op \in {"restart", "start", "update"} => Configured(hoConfig)

\* What a command that has gone well so far has reached before the step
\* ahead.
SetupDone ==
    /\ Ahead \in {"wall", "wstunnel", "enroll", "front"} => WgReady("setup")
    /\ Ahead \in {"wstunnel", "enroll", "front"} => hoWall # "shut" \/ "port" \in hoMissed
    /\ Ahead \in {"enroll", "front"} => WstunnelReady("setup")
    /\ Ahead = "front" => ListenerReady
RestartDone ==
    /\ Ahead \in {"wstunnel", "enroll"} => WgReady("restart")
    /\ Ahead = "enroll" => WstunnelReady("restart")
StartDone == Ahead = "spawn" => WgReady("start")
UninstallDone ==
    /\ Ahead # "drop_wstunnel" => hoTransport.unit = 0
    /\ Ahead \in {"drop_wireguard", "drop_front", "drop_config"} => hoListener.unit = FALSE
    /\ Ahead \in {"drop_front", "drop_config"} => WgBare
    /\ Ahead = "drop_config" => hoCaddy.site = 0
UpdateDone ==
    /\ ListenerReady
    /\ Ahead # "rewire" => hoTransport.runs # 0
    /\ Ahead = "save" \/ hoJob.by # "wg_port" => WgReady(hoJob.by)
    /\ Ahead = "save" \/ (Ahead = "bounce" /\ hoJob.by \in {"certificate", "endpoint"}) =>
          hoTransport.unit = hoConfig.gen
    /\ Ahead = "rewire" => WstunnelReady(hoJob.by)
Done ==
    /\ hoJob.op = "setup" => SetupDone
    /\ hoJob.op = "restart" => RestartDone
    /\ hoJob.op = "start" => StartDone
    /\ hoJob.op = "uninstall" => UninstallDone
    /\ hoJob.op = "update" => UpdateDone

\* All that is needed of a command that has gone well.
Progress == hoJob.well => Done

\* The invariant: the machine, and what the command under way and the
\* one that has ended have done.
HoIInv == HoTypeOK /\ Machine /\ JobShape /\ Said /\ Planned /\ Progress
OnCourse == JobShape /\ Said /\ Planned /\ Progress

\* The ports of a configuration are the wizard's; the unit written for it and the
\* wstunnel that runs on it have its port.
Listening ==
    /\ Configured(hoConfig) => hoConfig.port \in Ports /\ hoConfig.inner \in InnerPorts
    /\ hoTransport.unit <= hoConfig.gen /\ hoTransport.runs <= hoConfig.gen
    /\ Configured(hoConfig) /\ hoTransport.unit = hoConfig.gen =>
          hoTransport.names = WsPort(hoConfig)
    /\ Configured(hoConfig) /\ hoTransport.runs = hoConfig.gen =>
          hoTransport.holds = WsPort(hoConfig)

\* What is left although its file is gone is what a command has missed: of the
\* interface, of the units, of Caddy, which is there only if it is installed.
WgLeftover ==
    /\ hoKind # "systemd" => hoWg.enabled = FALSE
    /\ ~Configured(hoWg.conf) =>
          \/ "wireguard" \in hoMissed
          \/ /\ hoWg.link = 0 /\ hoWg.enabled = FALSE
             /\ hoKind = "windows" => \A s \in Subnets : hoRules[s] = 0
UnitLeftover ==
    hoKind = "systemd" =>
        /\ hoTransport.unit = 0 /\ hoTransport.runs # 0 => "wstunnel" \in hoMissed
        /\ hoListener.unit = FALSE /\ hoListener.up => "enroll" \in hoMissed
CaddyLeftover ==
    /\ hoKind # "systemd" => hoBins = FALSE
    /\ hoBins = FALSE => hoCaddy.up = FALSE /\ hoCaddy.loaded = 0
    /\ hoKind = "systemd" /\ hoCaddy.site = 0 /\ hoCaddy.loaded # 0 => "front" \in hoMissed
Leftovers == WgLeftover /\ UnitLeftover /\ CaddyLeftover

\* The order of an uninstall.
NextDrop(step, next) ==
    \/ step = "drop_wstunnel" /\ next = "drop_enroll"
    \/ step = "drop_enroll" /\ next = "drop_wireguard"
    \/ step = "drop_wireguard" /\ next = "drop_front"
    \/ step = "drop_front" /\ next = "drop_config"

-----------------------------------------------------------------------------
(* Whose step it is, and the two ways a step ends.                       *)

(* The step ahead tells which command is under way.                      *)
LEMMA Whose ==
    ASSUME JobShape, NEW step, At(step)
    PROVE  /\ ~HoIdle /\ Ahead = step /\ JobRecord /\ UnderWay /\ hoPromise.says = "nothing"
           /\ step = "save" => SetupUnderWay \/ UpdateUnderWay
           /\ step \in {"forwarding", "wall", "front"} => SetupUnderWay /\ hoKind = "systemd"
           /\ step = "wireguard" => SetupUnderWay \/ RestartUnderWay \/ StartUnderWay
           /\ step \in {"wstunnel", "enroll"} =>
                 \/ SetupUnderWay /\ hoKind = "systemd"
                 \/ RestartUnderWay /\ hoKind # "windows"
           /\ step = "spawn" => StartUnderWay
           /\ step \in {"bounce", "rewire"} => UpdateUnderWay
           /\ step \in {"drop_wstunnel", "drop_enroll", "drop_wireguard", "drop_front",
                        "drop_config"} => UninstallUnderWay
<1>1. ~HoIdle
  BY DEF HoIdle, JobShape, NoJob, At
<1>2. JobRecord /\ UnderWay /\ hoPromise.says = "nothing"
  BY <1>1 DEF JobShape
<1>3. hoJob.left[1] = step
  BY DEF At
<1>4. SetupUnderWay =>
        \/ step = "save"
        \/ step = "wireguard"
        \/ hoKind = "systemd" /\ step \in {"forwarding", "wall", "wstunnel", "enroll", "front"}
  BY <1>3 DEF SetupUnderWay
<1>5. RestartUnderWay =>
         \/ step = "wireguard"
         \/ hoKind # "windows" /\ step \in {"wstunnel", "enroll"}
  BY <1>3 DEF RestartUnderWay
<1>6. StartUnderWay => step \in {"wireguard", "spawn"}
  BY <1>3 DEF StartUnderWay
<1>7. UninstallUnderWay =>
         step \in {"drop_wstunnel", "drop_enroll", "drop_wireguard", "drop_front", "drop_config"}
  BY <1>3 DEF UninstallUnderWay
<1>8. UpdateUnderWay => step \in {"save", "bounce", "rewire"}
  BY <1>3 DEF UpdateUnderWay
<1> QED BY <1>1, <1>2, <1>3, <1>4, <1>5, <1>6, <1>7, <1>8 DEF UnderWay, Ahead

(* A command that ends well must have reached what it says.              *)
LEMMA Finished ==
    ASSUME NEW well \in BOOLEAN, EndJob(well), NEW by, hoJob.by = by,
           well /\ hoJob.op = "uninstall" => Bare',
           well /\ hoJob.op # "uninstall" => by \in Speakers /\ Serves(by)'
    PROVE  OnCourse'
<1>1. hoJob' = NoJob
  BY DEF EndJob
<1>2. hoJob'.op = "none"
  BY <1>1 DEF NoJob
<1>3. JobShape'
  BY <1>1 DEF JobShape, JobRecord, NoJob, HoIdle
<1>4. Planned' /\ Progress'
  BY <1>2 DEF Planned, Progress, Done
<1>5. CASE ~well
  <2>1. hoPromise'.says = "nothing"
    BY <1>5 DEF EndJob, Nothing
  <2> QED BY <1>3, <1>4, <2>1 DEF OnCourse, Said
<1>6. CASE well /\ hoJob.op = "uninstall"
  <2>1. hoPromise'.says = "bare"
    BY <1>6 DEF EndJob
  <2> QED BY <1>3, <1>4, <1>6, <2>1 DEF OnCourse, Said
<1>7. CASE well /\ hoJob.op # "uninstall"
  <2>1. hoPromise'.says = "serves" /\ hoPromise'.by = by
    BY <1>7 DEF EndJob
  <2>2. Serves(hoPromise.by)'
    BY <1>7, <2>1 DEF Serves, WgReady, WstunnelReady
  <2> QED BY <1>3, <1>4, <1>7, <2>1, <2>2 DEF OnCourse, Said
<1> QED BY <1>5, <1>6, <1>7

(* One that goes on must have reached what is asked before its next      *)
(* step.                                                                 *)
LEMMA WentOn ==
    ASSUME hoPromise.says = "nothing", ~HoIdle, NEW well \in BOOLEAN, Moved(well), JobRecord',
           UnderWay', Planned', hoJob.well /\ well => Done'
    PROVE  OnCourse'
<1>1. hoJob'.op = hoJob.op /\ (hoJob'.well => hoJob.well /\ well)
  BY DEF Moved
<1>2. ~HoIdle' /\ hoPromise'.says = "nothing"
  BY <1>1 DEF Moved, HoIdle
<1> QED BY <1>1, <1>2 DEF OnCourse, JobShape, Said, Progress

(* With no command and no promise there is nothing to show.              *)
LEMMA Quiet ==
    ASSUME hoJob' = NoJob, hoPromise'.says = "nothing"
    PROVE  OnCourse'
<1>1. hoJob'.op = "none"
  BY DEF NoJob
<1>2. JobShape'
  BY DEF JobShape, JobRecord, NoJob, HoIdle
<1> QED BY <1>1, <1>2 DEF OnCourse, Planned, Progress, Done, Said

(* A step that fails ends the promise, whether or not the command goes   *)
(* on.                                                                   *)
LEMMA Unwell ==
    ASSUME JobShape, Planned, UNCHANGED <<hoKind, hoConfig>>, NEW step, At(step), step # "save",
           GivesUp \/ Advance(FALSE)
    PROVE  OnCourse'
<1>1. /\ ~HoIdle /\ Ahead = step /\ JobRecord /\ UnderWay /\ hoPromise.says = "nothing"
  BY Whose
<1>2. ASSUME NEW well \in BOOLEAN, EndJob(hoJob.well /\ FALSE) PROVE OnCourse'
  <2>1. (hoJob.well /\ FALSE) \in BOOLEAN
    OBVIOUS
  <2> QED BY <1>2, <2>1, Finished
<1>3. EndJob(FALSE) => OnCourse'
  BY Finished
<1>4. ASSUME Moved(FALSE), JobRecord', UnderWay' PROVE OnCourse'
  <2>1. hoJob.op \in {"setup", "restart", "start", "update"} => Configured(hoConfig)
    BY <1>1 DEF Planned
  <2>2. hoJob'.op = hoJob.op
    BY <1>4 DEF Moved
  <2>3. Planned'
    BY <2>1, <2>2 DEF Planned, Configured
  <2> QED BY <1>1, <1>4, <2>3, WentOn
<1>5. Advance(FALSE) => OnCourse'
  <2> SUFFICES ASSUME Advance(FALSE) PROVE OnCourse'
    OBVIOUS
  <2>1. CASE SetupUnderWay
    BY <1>1, <1>2, <1>4, <2>1, SetupOnward DEF UnderWay
  <2>2. CASE RestartUnderWay
    BY <1>1, <1>2, <1>4, <2>2, RestartOnward DEF UnderWay
  <2>3. CASE StartUnderWay
    BY <1>1, <1>2, <1>4, <2>3, StartOnward DEF UnderWay
  <2>4. CASE UninstallUnderWay
    BY <1>1, <1>2, <1>4, <2>4, UninstallOnward DEF UnderWay
  <2>5. CASE UpdateUnderWay
    BY <1>1, <1>2, <1>4, <2>5, UpdateOnward DEF UnderWay
  <2> QED BY <1>1, <2>1, <2>2, <2>3, <2>4, <2>5 DEF UnderWay
<1> QED BY <1>3, <1>5 DEF GivesUp

(* A step that leaves the interface alone.                               *)
LEMMA WgUntouched ==
    ASSUME HoTypeOK, Machine, UNCHANGED <<hoKind, hoWg, hoRules, hoForward>>
    PROVE  WgTypes' /\ WgSound'
<1>1. WgTypes'
  BY DEF HoTypeOK, WgTypes
<1>2. WgSound'
  BY DEF Machine, WgSound, Numbered, Configured, WgActive, RulesCounted
<1> QED BY <1>1, <1>2

(* A step that leaves the configuration alone.                           *)
LEMMA MachineKept ==
    ASSUME HoTypeOK, Machine, UNCHANGED <<hoKind, hoBins, hoConfig>>, WgTypes', WgSound',
           hoWall' \in {"off", "shut", "open"}, hoTransport' \in Transports,
           hoListener' \in [unit : BOOLEAN, up : BOOLEAN],
           hoCaddy' \in [up : BOOLEAN, site : Nat, loaded : Nat],
           hoKind # "systemd" =>
              hoTransport'.unit = 0 /\ hoListener'.unit = FALSE /\ hoCaddy'.site = 0
    PROVE  HoTypeOK' /\ Machine'
<1>1. HoTypeOK'
  BY DEF HoTypeOK, WgTypes
<1>2. Elsewhere' /\ Numbered(hoConfig)'
  BY DEF Machine, Elsewhere, Numbered, Configured
<1> QED BY <1>1, <1>2 DEF Machine

(* What serves goes on serving while nothing of it changes, and nothing   *)
(* missed is done.                                                        *)
LEMMA ReadyKept ==
    ASSUME UNCHANGED <<hoKind, hoConfig, hoWg, hoRules, hoForward>>,
           hoKind = "systemd" \/ hoMissed \subseteq hoMissed', NEW by, WgReady(by)
    PROVE  WgReady(by)'
<1>1. /\ WgActive' <=> WgActive
      /\ hoRules' = hoRules /\ (NatThere' <=> NatThere)
  BY DEF WgActive, NatThere
<1>2. CASE hoKind = "systemd"
  BY <1>1, <1>2 DEF WgReady
<1>3. CASE hoKind = "container"
  BY <1>1, <1>3 DEF WgReady
<1>4. CASE hoKind \notin {"systemd", "container"}
  BY <1>1, <1>4 DEF WgReady
<1> QED BY <1>2, <1>3, <1>4

(* ... and so does a transport.                                          *)
LEMMA TransportKept ==
    ASSUME UNCHANGED <<hoKind, hoConfig, hoTransport, hoCaddy>>, NEW by, WstunnelReady(by)
    PROVE  WstunnelReady(by)'
BY DEF WstunnelReady, PortLost, Taken

(* configure_ufw_if_active.                                              *)
LEMMA WallKeeps ==
    ASSUME HoIInv, Wall PROVE HoIInv'
<1>1. /\ At("wall") /\ Advance(TRUE)
      /\ UNCHANGED <<hoKind, hoBins, hoConfig, hoWg, hoRules, hoForward, hoTransport,
                     hoListener, hoCaddy>>
  BY DEF Wall, PassedBut, hoMachine, hoServices
<1>2. /\ ~HoIdle /\ Ahead = "wall" /\ JobRecord /\ hoPromise.says = "nothing"
      /\ SetupUnderWay /\ hoKind = "systemd"
  BY <1>1, Whose DEF HoIInv
<1>3. hoWall' \in {"off", "shut", "open"} /\ (hoWall' # "shut" \/ "port" \in hoMissed')
  <2>1. PICK missed \in SUBSET {"port"} :
           OpenPort(missed) /\ hoMissed' = (hoMissed \ {"port"}) \cup missed
    BY DEF Wall, PassedBut
  <2>2. hoWall \in {"off", "shut", "open"}
    BY DEF HoIInv, HoTypeOK
  <2> QED BY <2>1, <2>2 DEF OpenPort, Opened
<1>4. HoTypeOK' /\ Machine'
  <2>1. WgTypes' /\ WgSound'
    BY <1>1, WgUntouched DEF HoIInv
  <2> QED BY <1>1, <1>2, <1>3, <2>1, MachineKept DEF HoIInv, HoTypeOK, Machine, Elsewhere
<1>5. Moved(TRUE) /\ JobRecord' /\ SetupUnderWay' /\ Ahead' = "wstunnel"
  BY <1>1, <1>2, SetupOnward DEF Goes
<1>6. Planned'
  <2>1. hoJob'.op = "setup"
    BY <1>5 DEF SetupUnderWay
  <2>2. Configured(hoConfig)
    BY <1>2 DEF HoIInv, Planned, SetupUnderWay
  <2> QED BY <1>1, <2>1, <2>2 DEF Planned, Configured
<1>7. ASSUME hoJob.well PROVE Done'
  <2>1. hoJob'.op = "setup"
    BY <1>5 DEF SetupUnderWay
  <2>2. WgReady("setup")
    BY <1>2, <1>7 DEF HoIInv, Progress, Done, SetupDone, SetupUnderWay
  <2>3. WgReady("setup")'
    BY <1>1, <1>2, <2>2, ReadyKept
  <2> QED BY <1>3, <1>5, <2>1, <2>3 DEF Done, SetupDone
<1>8. OnCourse'
  BY <1>2, <1>5, <1>6, <1>7, WentOn DEF UnderWay
<1> QED BY <1>4, <1>8 DEF HoIInv, OnCourse

-----------------------------------------------------------------------------
(* The steps of setup, restart and start.                                *)

(* The new configuration of a setup.                                     *)
LEMMA SaveNewKeeps ==
    ASSUME HoIInv, SaveNew PROVE HoIInv'
<1>1. /\ At("save") /\ hoJob.op = "setup"
      /\ UNCHANGED <<hoKind, hoBins, hoWg, hoRules, hoForward, hoWall, hoTransport, hoListener,
                     hoCaddy>>
  BY DEF SaveNew, hoWgVars, hoServices
<1>2. /\ ~HoIdle /\ Ahead = "save" /\ JobRecord /\ hoPromise.says = "nothing"
      /\ SetupUnderWay
  BY <1>1, Whose DEF HoIInv, UpdateUnderWay
<1>3. PICK a \in Setups :
         /\ a.domain => hoKind = "systemd"
         /\ hoConfig' = [gen |-> Next1, domain |-> a.domain, subnet |-> a.subnet,
                         port |-> a.port, inner |-> a.inner]
  BY DEF SaveNew
<1>4. /\ hoConfig' \in Configs /\ Configured(hoConfig)' /\ Numbered(hoConfig)'
      /\ hoKind # "systemd" => hoConfig'.domain = FALSE
  <2>1. Next1 \in Nat /\ Next1 # 0
    BY DEF HoIInv, HoTypeOK, Configs, Next1
  <2>2. /\ a.domain \in BOOLEAN /\ a.subnet \in Subnets /\ a.subnet # "none"
        /\ a.port \in PortNames /\ a.inner \in PortNames
    BY ServerHostAssumption DEF PortNames
  <2> QED BY <1>3, <2>1, <2>2 DEF Configs, Names, Configured, Numbered
<1>5. HoTypeOK'
  BY <1>1, <1>4 DEF HoIInv, HoTypeOK
<1>6. WgSound'
  BY <1>1, WgUntouched DEF HoIInv
<1>7. Machine'
  <2>1. Elsewhere'
    BY <1>1, <1>4 DEF HoIInv, Machine, Elsewhere
  <2> QED BY <1>4, <1>6, <2>1 DEF Machine
<1>8. CASE hoJob' = NoJob /\ UNCHANGED hoPromise
  BY <1>2, <1>5, <1>7, <1>8, Quiet DEF HoIInv, OnCourse
<1>9. CASE Len(hoJob.left) # 1 /\ Advance(TRUE)
  <2>1. CASE EndJob(hoJob.well /\ TRUE) /\ hoKind = "container"
    <3>1. hoJob.well = FALSE /\ EndJob(FALSE)
      BY <1>2, <2>1 DEF SetupUnderWay
    <3> QED BY <1>5, <1>7, <3>1, Finished DEF HoIInv, OnCourse
  <2>2. CASE /\ Moved(TRUE) /\ JobRecord' /\ SetupUnderWay'
             /\ Ahead' \in {"forwarding", "wireguard"}
    <3>1. hoJob'.op = "setup"
      BY <2>2 DEF SetupUnderWay
    <3>2. Planned' /\ Done'
      BY <1>4, <2>2, <3>1 DEF Planned, Done, SetupDone
    <3> QED BY <1>2, <1>5, <1>7, <2>2, <3>2, WentOn DEF HoIInv, OnCourse, UnderWay
  <2> QED BY <1>1, <1>2, <1>9, <2>1, <2>2, SetupOnward DEF Goes
<1> QED BY <1>8, <1>9 DEF SaveNew, Passed

(* The drop-in of forwarding.                                            *)
LEMMA ForwardingKeeps ==
    ASSUME HoIInv, Forwarding PROVE HoIInv'
<1>1. At("forwarding") /\ Advance(TRUE)
      /\ UNCHANGED <<hoKind, hoBins, hoConfig, hoWg, hoRules, hoWall, hoTransport, hoListener, hoCaddy>>
  BY DEF Forwarding, Passed, hoMachine, hoServices
<1>2. /\ ~HoIdle /\ Ahead = "forwarding" /\ JobRecord /\ hoPromise.says = "nothing"
      /\ SetupUnderWay /\ hoKind = "systemd"
  BY <1>1, Whose DEF HoIInv
<1>3. hoForward' \in [now : BOOLEAN, kept : BOOLEAN]
  <2>1. \/ hoForward' = [now |-> TRUE, kept |-> TRUE] \/ hoForward' = hoForward
        \/ hoForward' = [hoForward EXCEPT !.kept = TRUE]
    BY DEF Forwarding
  <2>2. hoForward \in [now : BOOLEAN, kept : BOOLEAN]
    BY DEF HoIInv, HoTypeOK
  <2>3. [now |-> TRUE, kept |-> TRUE] \in [now : BOOLEAN, kept : BOOLEAN]
    OBVIOUS
  <2>4. CASE hoForward' = hoForward
    BY <2>2, <2>4
  <2>5. CASE hoForward' = [now |-> TRUE, kept |-> TRUE]
    BY <2>3, <2>5
  <2>6. CASE hoForward' = [hoForward EXCEPT !.kept = TRUE]
    BY <2>2, <2>6
  <2> QED BY <2>1, <2>4, <2>5, <2>6
<1>4. HoTypeOK' /\ Machine'
  <2>1. WgTypes'
    BY <1>1, <1>3 DEF WgTypes, HoIInv, HoTypeOK
  <2>2. WgSound'
    BY <1>1 DEF HoIInv, Machine, WgSound, Numbered, Configured, WgActive, RulesCounted
  <2> QED BY <1>1, <1>2, <2>1, <2>2, MachineKept DEF HoIInv, HoTypeOK
<1>5. Moved(TRUE) /\ JobRecord' /\ SetupUnderWay' /\ Ahead' = "wireguard"
  BY <1>1, <1>2, SetupOnward DEF Goes
<1>6. Planned' /\ Done'
  <2>1. hoJob'.op = "setup"
    BY <1>5 DEF SetupUnderWay
  <2>2. Configured(hoConfig)
    BY <1>2 DEF HoIInv, Planned, SetupUnderWay
  <2> QED BY <1>1, <1>5, <2>1, <2>2 DEF Planned, Configured, Done, SetupDone
<1>7. OnCourse'
  BY <1>2, <1>5, <1>6, WentOn DEF UnderWay
<1> QED BY <1>4, <1>7 DEF HoIInv, OnCourse

(* A file that was written although the interface did not come up.       *)
LEMMA FiledEffect ==
    ASSUME HoTypeOK, Machine, hoKind' = hoKind, Configured(hoConfig), hoWg' = Filed(hoConfig),
           UNCHANGED <<hoRules, hoForward>>
    PROVE  WgTypes' /\ WgSound'
<1>1. hoConfig \in Configs /\ WgSound /\ hoConfig.gen # 0
  BY DEF HoTypeOK, Machine, Numbered
<1>2. /\ Filed(hoConfig) \in Interfaces
      /\ Filed(hoConfig).conf = hoConfig /\ Filed(hoConfig).enabled = hoWg.enabled
      /\ Filed(hoConfig).active = hoWg.active /\ Filed(hoConfig).link = hoWg.link
      /\ Filed(hoConfig).gone = hoWg.gone /\ Filed(hoConfig).loose = hoWg.loose
  BY <1>1, FiledIs
<1>3. WgActive' <=> WgActive
  BY <1>2 DEF WgActive
<1>4. RulesCounted'
  <2> SUFFICES ASSUME hoKind # "windows", NEW s \in Subnets \ Filed(hoConfig).strays
               PROVE  hoRules[s] <= IF WgActive /\ s = hoConfig.subnet THEN 1 ELSE 0
    BY <1>2, <1>3 DEF RulesCounted
  <2> QED BY <1>1, RulesUnder
<1>5. (hoKind = "systemd" /\ WgActive => hoWg.active /\ (hoWg.enabled \/ hoWg.loose))'
  BY <1>1, <1>2, <1>3 DEF WgSound
<1>6. Numbered(hoWg.conf)'
  BY <1>1, <1>2 DEF Numbered, Configured
<1>7. (hoWg.active => WgActive \/ hoWg.gone)'
  BY <1>1, <1>2, <1>3 DEF WgSound
<1>8. (hoKind # "systemd" => hoWg.active = FALSE)'
  BY <1>1, <1>2 DEF WgSound
<1>9. WgSound'
  BY <1>4, <1>5, <1>6, <1>7, <1>8 DEF WgSound
<1>10. WgTypes'
  BY <1>2 DEF WgTypes, HoTypeOK
<1> QED BY <1>9, <1>10

(* What a reconciliation that fails leaves.                              *)
LEMMA FailsEffect ==
    ASSUME HoTypeOK, Machine, hoKind' = hoKind, Configured(hoConfig), ReconcileFails(hoConfig)
    PROVE  WgTypes' /\ WgSound' /\ hoWall' \in {"off", "shut", "open"}
<1>1. hoWall \in {"off", "shut", "open"} /\ hoConfig \in Configs /\ WgSound /\ hoConfig.gen # 0
  BY DEF HoTypeOK, Machine, Numbered
<1>2. CASE hoWg' \in {hoWg, Filed(hoConfig)} /\ UNCHANGED <<hoRules, hoForward, hoWall>>
  BY <1>1, <1>2, WgUntouched, FiledEffect
<1>3. CASE /\ WgActive /\ hoWg' = [Filed(hoConfig) EXCEPT !.link = 0, !.active = FALSE]
           /\ IF hoKind = "windows"
                 THEN /\ hoRules' = NoRules /\ hoForward' = [now |-> TRUE, kept |-> TRUE]
                      /\ OpenPort({})
                 ELSE hoRules' = Less(hoRules, hoConfig.subnet) /\ UNCHANGED <<hoForward, hoWall>>
  <2>1. Filed(hoConfig) \in Interfaces /\ Filed(hoConfig).conf = hoConfig
    BY <1>1, FiledIs
  <2>2. /\ hoWg' \in Interfaces /\ hoWg'.conf = hoConfig /\ hoWg'.link = 0
        /\ hoWg'.active = FALSE /\ hoWg'.strays = Filed(hoConfig).strays
    BY <1>3, <2>1 DEF Interfaces
  <2>3. /\ hoForward' \in [now : BOOLEAN, kept : BOOLEAN]
        /\ hoWall' \in {"off", "shut", "open"}
    <3>1. hoForward \in [now : BOOLEAN, kept : BOOLEAN]
      BY DEF HoTypeOK
    <3>2. CASE hoKind = "windows"
      <4>1. hoForward' = [now |-> TRUE, kept |-> TRUE] /\ OpenPort({})
        BY <1>3, <3>2
      <4>2. hoForward' \in [now : BOOLEAN, kept : BOOLEAN]
        BY <4>1
      <4>3. hoWall' \in {"off", "shut", "open"}
        BY <1>1, <4>1 DEF OpenPort, Opened
      <4> QED BY <4>2, <4>3
    <3>3. CASE hoKind # "windows"
      BY <1>1, <1>3, <3>1, <3>3
    <3> QED BY <3>2, <3>3
  <2>4. hoRules' \in [Subnets -> Nat]
    <3>1. hoRules \in [Subnets -> Nat]
      BY DEF HoTypeOK
    <3>2. NoRules \in [Subnets -> Nat]
      BY DEF NoRules
    <3> QED BY <1>3, <3>1, <3>2, LessCount
  <2>5. RulesCounted'
    <3> SUFFICES ASSUME hoKind # "windows", NEW s \in Subnets \ Filed(hoConfig).strays
                 PROVE  hoRules'[s] <= 0
      BY <2>2 DEF RulesCounted, WgActive
    <3>1. hoRules[s] <= IF s = hoConfig.subnet THEN 1 ELSE 0
      BY <1>1, <1>3, RulesUnder
    <3>2. hoRules \in [Subnets -> Nat] /\ hoRules[s] \in Nat
      BY DEF HoTypeOK
    <3>3. Less(hoRules, hoConfig.subnet)[s] <= 0
      <4>1. CASE s = hoConfig.subnet
        BY <3>1, <3>2, <4>1, LessCount
      <4>2. CASE s # hoConfig.subnet
        BY <3>1, <3>2, <4>2, LessCount
      <4> QED BY <4>1, <4>2
    <3> QED BY <1>3, <3>3
  <2>6. Numbered(hoWg.conf)' /\ ~WgActive'
    BY <1>1, <2>2 DEF Numbered, Configured, WgActive
  <2> QED BY <2>2, <2>3, <2>4, <2>5, <2>6 DEF WgTypes, WgSound
<1> QED BY <1>2, <1>3 DEF ReconcileFails

(* The interface of setup, restart and start.                            *)
LEMMA WireguardKeeps ==
    ASSUME HoIInv, Wireguard PROVE HoIInv'
<1>1. /\ At("wireguard")
      /\ UNCHANGED <<hoKind, hoBins, hoConfig, hoTransport, hoListener, hoCaddy>>
  BY DEF Wireguard, hoMachine, hoServices
<1>2. /\ ~HoIdle /\ Ahead = "wireguard" /\ JobRecord /\ hoPromise.says = "nothing"
      /\ SetupUnderWay \/ RestartUnderWay \/ StartUnderWay
  BY <1>1, Whose DEF HoIInv
<1>3. Configured(hoConfig) /\ hoConfig.gen # 0
  BY <1>2 DEF HoIInv, Planned, SetupUnderWay, RestartUnderWay, StartUnderWay, Machine, Numbered
<1>4. HoTypeOK /\ Machine /\ WgSound /\ Elsewhere
  BY DEF HoIInv, Machine
<1>5. ASSUME WgTypes', WgSound', hoWall' \in {"off", "shut", "open"}
      PROVE  HoTypeOK' /\ Machine'
  BY <1>1, <1>4, <1>5, MachineKept DEF HoTypeOK, Elsewhere
<1>6. CASE GivesUp /\ ReconcileFails(hoConfig)
  <2>1. WgTypes' /\ WgSound' /\ hoWall' \in {"off", "shut", "open"}
    BY <1>1, <1>3, <1>4, <1>6, FailsEffect
  <2>2. OnCourse'
    BY <1>1, <1>6, Unwell DEF HoIInv
  <2> QED BY <1>5, <2>1, <2>2 DEF HoIInv, OnCourse
<1>7. ASSUME NEW missed, Reconcile(hoConfig, hoJob.op # "start", missed), Advance(TRUE),
             missed \subseteq hoMissed'
      PROVE  HoIInv'
  <2> DEFINE force == hoJob.op # "start"
  <2>1. Reconcile(hoConfig, force, missed) /\ force \in BOOLEAN
    BY <1>7
  <2>2. force <=> hoJob.op # "start"
    OBVIOUS
  <2> HIDE DEF force
  <2>3. /\ WgTypes' /\ WgSound'
        /\ hoWall' \in {"off", "shut", "open"}
        /\ hoKind = "windows" => hoWall' # "shut" \/ "port" \in hoMissed'
    BY <1>1, <1>3, <1>4, <1>7, <2>1, ReconcileEffect
  <2>4. HoTypeOK' /\ Machine'
    BY <1>5, <2>3
  <2>5. ASSUME NEW by, by # "start", hoJob.op # "start" PROVE WgReady(by)'
    BY <1>1, <1>3, <1>4, <1>7, <2>1, <2>2, <2>5, ReconcileEffect
  <2>6. hoKind # "systemd" => WgReady("start")'
    BY <1>1, <1>3, <1>4, <1>7, <2>1, ReconcileEffect
  <2>7. Configured(hoConfig)'
    BY <1>1, <1>3 DEF Configured
  <2>8. CASE SetupUnderWay
    <3>1. hoJob.op = "setup" /\ hoJob.by = "setup"
      BY <2>8 DEF SetupUnderWay
    <3>2. WgReady("setup")'
      BY <2>5, <3>1
    <3>3. CASE EndJob(hoJob.well /\ TRUE) /\ hoKind = "windows"
      <4>1. Serves("setup")'
        BY <1>1, <1>4, <2>3, <2>7, <3>2, <3>3
           DEF Serves, WstunnelReady, ListenerReady, FrontReady, Elsewhere
      <4>2. EndJob(hoJob.well)
        BY <1>2, <3>3 DEF JobRecord
      <4> QED BY <1>2, <2>4, <3>1, <4>1, <4>2, Finished DEF HoIInv, OnCourse, JobRecord, Speakers
    <3>4. CASE Moved(TRUE) /\ JobRecord' /\ SetupUnderWay' /\ Ahead' = "wall"
      <4>1. hoJob'.op = "setup"
        BY <3>4 DEF SetupUnderWay
      <4>2. Planned' /\ Done'
        BY <2>7, <3>2, <3>4, <4>1 DEF Planned, Done, SetupDone
      <4> QED BY <1>2, <2>4, <3>4, <4>2, WentOn DEF HoIInv, OnCourse, UnderWay
    <3> QED BY <1>1, <1>2, <1>7, <2>8, <3>3, <3>4, SetupOnward DEF Goes
  <2>9. CASE RestartUnderWay
    <3>1. hoJob.op = "restart" /\ hoJob.by = "restart"
      BY <2>9 DEF RestartUnderWay
    <3>2. WgReady("restart")'
      BY <2>5, <3>1
    <3>3. CASE EndJob(hoJob.well /\ TRUE) /\ hoKind = "windows"
      <4>1. Serves("restart")'
        BY <1>1, <1>4, <2>3, <2>7, <3>2, <3>3
           DEF Serves, WstunnelReady, ListenerReady, FrontReady, Elsewhere
      <4>2. EndJob(hoJob.well)
        BY <1>2, <3>3 DEF JobRecord
      <4> QED BY <1>2, <2>4, <3>1, <4>1, <4>2, Finished DEF HoIInv, OnCourse, JobRecord, Speakers
    <3>4. CASE Moved(TRUE) /\ JobRecord' /\ RestartUnderWay' /\ Ahead' = "wstunnel"
      <4>1. hoJob'.op = "restart"
        BY <3>4 DEF RestartUnderWay
      <4>2. Planned' /\ Done'
        BY <2>7, <3>2, <3>4, <4>1 DEF Planned, Done, RestartDone
      <4> QED BY <1>2, <2>4, <3>4, <4>2, WentOn DEF HoIInv, OnCourse, UnderWay
    <3> QED BY <1>1, <1>2, <1>7, <2>9, <3>3, <3>4, RestartOnward DEF Goes
  <2>10. CASE StartUnderWay
    <3>1. Moved(TRUE) /\ JobRecord' /\ StartUnderWay' /\ Ahead' = "spawn"
      BY <1>1, <1>2, <1>7, <2>10, StartOnward DEF Goes
    <3>2. hoJob'.op = "start"
      BY <3>1 DEF StartUnderWay
    <3>3. Planned' /\ Done'
      BY <2>6, <2>7, <2>10, <3>1, <3>2 DEF Planned, Done, StartDone, StartUnderWay
    <3> QED BY <1>2, <2>4, <3>1, <3>3, WentOn DEF HoIInv, OnCourse, UnderWay
  <2> QED BY <1>2, <2>8, <2>9, <2>10
<1>8. \/ GivesUp /\ ReconcileFails(hoConfig)
      \/ \E missed \in SUBSET WindowsMisses :
            /\ Reconcile(hoConfig, hoJob.op # "start", missed)
            /\ Advance(TRUE) /\ hoMissed' = (hoMissed \ WindowsMisses) \cup missed
  BY DEF Wireguard, PassedBut
<1> QED BY <1>6, <1>7, <1>8

(* A unit that starts, one that is written, what an owner runs.          *)
LEMMA StartedIs ==
    ASSUME NEW t \in Transports, NEW taken
    PROVE  /\ Started(t, taken) \in Transports
           /\ Started(t, taken).unit = t.unit /\ Started(t, taken).names = t.names
           /\ IF t.names = Https /\ taken
                 THEN Started(t, taken).runs = 0 /\ Started(t, taken).holds = t.holds
                 ELSE Started(t, taken).runs = t.unit /\ Started(t, taken).holds = t.names
<1>1. CASE t.names = Https /\ taken
  BY <1>1 DEF Started, Transports
<1>2. CASE ~(t.names = Https /\ taken)
  BY <1>2 DEF Started, Transports
<1> QED BY <1>1, <1>2
LEMMA WrittenIs ==
    ASSUME HoTypeOK
    PROVE  /\ Written \in Transports /\ WsPort(hoConfig) \in PortNames
           /\ Written.unit = hoConfig.gen /\ Written.names = WsPort(hoConfig)
           /\ Written.runs = hoTransport.runs /\ Written.holds = hoTransport.holds
<1>1. hoConfig \in Configs /\ hoTransport \in Transports
  BY DEF HoTypeOK
<1>2. WsPort(hoConfig) \in PortNames /\ hoConfig.gen \in Nat
  BY <1>1 DEF WsPort, Configs
<1> QED BY <1>1, <1>2 DEF Written, Transports
LEMMA ByOwnerIs ==
    ASSUME HoTypeOK
    PROVE  /\ ByOwner \in Transports
           /\ ByOwner.unit = hoTransport.unit /\ ByOwner.names = hoTransport.names
           /\ ByOwner.runs = hoConfig.gen /\ ByOwner.holds = WsPort(hoConfig)
<1>1. hoConfig \in Configs /\ hoTransport \in Transports
  BY DEF HoTypeOK
<1>2. WsPort(hoConfig) \in PortNames /\ hoConfig.gen \in Nat
  BY <1>1 DEF WsPort, Configs
<1> QED BY <1>1, <1>2 DEF ByOwner, Transports

(* wstunnel is told to listen on Caddy's port in no branch but the       *)
(* direct one.                                                           *)
LEMMA OwnPort ==
    ASSUME Listening, Configured(hoConfig), WsPort(hoConfig) = Https
    PROVE  ~hoConfig.domain /\ hoConfig.port = Https
BY ServerHostAssumption DEF Listening, WsPort

\* A unit written for the configuration of now, when it starts, serves or has lost its
\* port.
LEMMA StartServes ==
    ASSUME HoTypeOK, Listening, Configured(hoConfig), hoConfig.gen # 0,
           UNCHANGED <<hoConfig, hoCaddy>>,
           NEW t \in Transports, t.unit = hoConfig.gen, t.names = WsPort(hoConfig),
           hoTransport' = Started(t, Taken), NEW by
    PROVE  WstunnelReady(by)'
<1>1. CASE t.names = Https /\ Taken
  BY <1>1, OwnPort, StartedIs DEF WstunnelReady, PortLost, Taken
<1>2. CASE ~(t.names = Https /\ Taken)
  BY <1>2, StartedIs DEF WstunnelReady
<1> QED BY <1>1, <1>2

(* The unit of wstunnel.                                                 *)
LEMMA WstunnelKeeps ==
    ASSUME HoIInv, Listening, Wstunnel PROVE HoIInv'
<1>1. /\ At("wstunnel")
      /\ UNCHANGED <<hoKind, hoBins, hoConfig, hoWg, hoRules, hoForward, hoWall, hoListener, hoCaddy>>
  BY DEF Wstunnel, hoMachine, hoWgVars
<1>2. /\ ~HoIdle /\ Ahead = "wstunnel" /\ JobRecord /\ hoPromise.says = "nothing"
      /\ \/ SetupUnderWay /\ hoKind = "systemd"
         \/ RestartUnderWay /\ hoKind # "windows"
  BY <1>1, Whose DEF HoIInv
<1>3. Configured(hoConfig) /\ Configured(hoConfig)' /\ hoConfig.gen # 0 /\ hoConfig.gen \in Nat
  BY <1>1, <1>2 DEF HoIInv, Planned, SetupUnderWay, RestartUnderWay, Machine, Numbered, Configured,
                    HoTypeOK, Configs
<1>4. hoTransport \in Transports
  BY DEF HoIInv, HoTypeOK
<1>5. ASSUME hoTransport' \in Transports,
             hoKind # "systemd" => hoTransport'.unit = hoTransport.unit
      PROVE  HoTypeOK' /\ Machine'
  <2>1. WgTypes' /\ WgSound'
    BY <1>1, WgUntouched DEF HoIInv
  <2> QED BY <1>1, <1>5, <2>1, MachineKept DEF HoIInv, HoTypeOK, Machine, Elsewhere
<1>6. CASE hoJob.op = "setup" /\ InstallTransport /\ Advance(TRUE) /\ UNCHANGED hoMissed
  <2>1. hoKind = "systemd" /\ SetupUnderWay
    BY <1>2, <1>6 DEF RestartUnderWay
  <2>2. hoTransport' \in Transports /\ WstunnelReady("setup")'
    <3>1. CASE hoTransport.runs = 0
      <4>1. hoTransport' = Started(Written, Taken)
        BY <1>6, <3>1 DEF InstallTransport
      <4>2. WstunnelReady("setup")'
        BY <1>1, <1>3, <4>1, WrittenIs, StartServes DEF HoIInv
      <4> QED BY <4>1, <4>2, WrittenIs, StartedIs DEF HoIInv
    <3>2. CASE hoTransport.runs # 0
      <4>1. hoTransport' = Written
        BY <1>6, <3>2 DEF InstallTransport
      <4> QED BY <1>1, <3>2, <4>1, WrittenIs DEF HoIInv, WstunnelReady
    <3> QED BY <3>1, <3>2
  <2>3. Moved(TRUE) /\ JobRecord' /\ SetupUnderWay' /\ Ahead' = "enroll"
    BY <1>1, <1>2, <1>6, <2>1, SetupOnward DEF Goes
  <2>4. hoJob'.op = "setup"
    BY <2>3 DEF SetupUnderWay
  <2>5. ASSUME hoJob.well PROVE Done'
    <3>1. WgReady("setup") /\ (hoWall # "shut" \/ "port" \in hoMissed)
      BY <1>2, <1>6, <2>5 DEF HoIInv, Progress, Done, SetupDone
    <3>2. WgReady("setup")'
      BY <1>1, <2>1, <3>1, ReadyKept
    <3> QED BY <1>1, <1>6, <2>2, <2>3, <2>4, <3>1, <3>2 DEF Done, SetupDone
  <2>6. Planned'
    BY <1>3, <2>4 DEF Planned
  <2>7. OnCourse'
    BY <1>2, <2>3, <2>5, <2>6, WentOn DEF UnderWay
  <2> QED BY <1>5, <2>1, <2>2, <2>7 DEF HoIInv, OnCourse
<1>7. CASE hoJob.op = "restart" /\ Advance(TRUE) /\ UNCHANGED hoMissed
           /\ \/ hoKind = "systemd" /\ hoTransport' = Started(Written, Taken)
              \/ hoKind = "container" /\ hoTransport' = ByOwner
  <2>1. RestartUnderWay
    BY <1>2, <1>7 DEF SetupUnderWay
  <2>2. /\ hoTransport' \in Transports /\ WstunnelReady("restart")'
        /\ hoKind # "systemd" => hoTransport'.unit = hoTransport.unit
    <3>1. CASE hoKind = "systemd"
      <4>1. hoTransport' = Started(Written, Taken)
        BY <1>7, <3>1
      <4>2. WstunnelReady("restart")'
        BY <1>1, <1>3, <4>1, WrittenIs, StartServes DEF HoIInv
      <4> QED BY <3>1, <4>1, <4>2, WrittenIs, StartedIs DEF HoIInv
    <3>2. CASE hoKind # "systemd"
      BY <1>1, <1>7, <3>2, ByOwnerIs DEF HoIInv, WstunnelReady
    <3> QED BY <3>1, <3>2
  <2>3. Moved(TRUE) /\ JobRecord' /\ RestartUnderWay' /\ Ahead' = "enroll"
    BY <1>1, <1>2, <1>7, <2>1, RestartOnward DEF Goes
  <2>4. hoJob'.op = "restart"
    BY <2>3 DEF RestartUnderWay
  <2>5. ASSUME hoJob.well PROVE Done'
    <3>1. WgReady("restart")
      BY <1>2, <1>7, <2>5 DEF HoIInv, Progress, Done, RestartDone
    <3>2. WgReady("restart")'
      BY <1>1, <1>7, <3>1, ReadyKept
    <3> QED BY <2>2, <2>3, <2>4, <3>2 DEF Done, RestartDone
  <2>6. Planned'
    BY <1>3, <2>4 DEF Planned
  <2>7. OnCourse'
    BY <1>2, <2>3, <2>5, <2>6, WentOn DEF UnderWay
  <2> QED BY <1>5, <2>2, <2>7 DEF HoIInv, OnCourse
<1>8. CASE EndJob(FALSE) /\ UNCHANGED hoTransport
  <2>1. OnCourse'
    BY <1>8, Finished
  <2> QED BY <1>4, <1>5, <1>8, <2>1 DEF HoIInv, OnCourse
<1>9. CASE /\ hoKind = "systemd" /\ GivesUp
           /\ hoTransport' \in {hoTransport, Written}
  <2>1. hoTransport' \in Transports
    BY <1>4, <1>9, WrittenIs DEF HoIInv
  <2>2. OnCourse'
    BY <1>1, <1>9, Unwell DEF HoIInv
  <2> QED BY <1>5, <1>9, <2>1, <2>2 DEF HoIInv, OnCourse
<1>10. hoKind = "container" => hoJob.op = "restart"
  BY <1>2 DEF RestartUnderWay
<1> QED BY <1>6, <1>7, <1>8, <1>9, <1>10 DEF Wstunnel, Passed, NoFault

(* The unit of the enrolment listener.                                   *)
LEMMA EnrollKeeps ==
    ASSUME HoIInv, Enroll PROVE HoIInv'
<1>1. /\ At("enroll")
      /\ UNCHANGED <<hoKind, hoBins, hoConfig, hoWg, hoRules, hoForward, hoWall, hoTransport, hoCaddy>>
  BY DEF Enroll, hoMachine, hoWgVars
<1>2. /\ ~HoIdle /\ Ahead = "enroll" /\ JobRecord /\ hoPromise.says = "nothing"
      /\ \/ SetupUnderWay /\ hoKind = "systemd"
         \/ RestartUnderWay /\ hoKind # "windows"
  BY <1>1, Whose DEF HoIInv
<1>3. Configured(hoConfig) /\ Configured(hoConfig)'
  BY <1>1, <1>2 DEF HoIInv, Planned, SetupUnderWay, RestartUnderWay, Configured
<1>4. hoListener \in [unit : BOOLEAN, up : BOOLEAN]
  BY DEF HoIInv, HoTypeOK
<1>5. ASSUME hoListener' \in [unit : BOOLEAN, up : BOOLEAN],
             hoKind # "systemd" => hoListener' = hoListener
      PROVE  HoTypeOK' /\ Machine'
  <2>1. WgTypes' /\ WgSound'
    BY <1>1, WgUntouched DEF HoIInv
  <2> QED BY <1>1, <1>5, <2>1, MachineKept DEF HoIInv, HoTypeOK, Machine, Elsewhere
<1>6. CASE /\ Advance(TRUE) /\ UNCHANGED hoMissed
           /\ \/ hoKind = "systemd" /\ hoListener' = [unit |-> TRUE, up |-> TRUE]
              \/ hoKind = "container" /\ UNCHANGED hoListener
  <2>1. /\ hoListener' \in [unit : BOOLEAN, up : BOOLEAN]
        /\ hoKind # "systemd" => hoListener' = hoListener
    <3>1. CASE hoKind = "systemd"
      <4>1. hoListener' = [unit |-> TRUE, up |-> TRUE]
        BY <1>6, <3>1
      <4> QED BY <3>1, <4>1
    <3>2. CASE hoKind # "systemd"
      BY <1>4, <1>6, <3>2
    <3> QED BY <3>1, <3>2
  <2>2. ListenerReady'
    BY <1>1, <1>6 DEF ListenerReady
  <2>3. CASE SetupUnderWay
    <3>1. Moved(TRUE) /\ JobRecord' /\ SetupUnderWay' /\ Ahead' = "front"
      BY <1>1, <1>2, <1>6, <2>3, SetupOnward DEF Goes
    <3>2. hoJob'.op = "setup" /\ hoJob.op = "setup"
      BY <2>3, <3>1 DEF SetupUnderWay
    <3>3. ASSUME hoJob.well PROVE Done'
      <4>1. /\ WgReady("setup") /\ (hoWall # "shut" \/ "port" \in hoMissed)
            /\ WstunnelReady("setup")
        BY <1>2, <3>2, <3>3 DEF HoIInv, Progress, Done, SetupDone
      <4>2. WgReady("setup")' /\ WstunnelReady("setup")'
        BY <1>1, <1>6, <4>1, ReadyKept, TransportKept
      <4> QED BY <1>1, <1>6, <2>2, <3>1, <3>2, <4>1, <4>2 DEF Done, SetupDone
    <3>4. Planned'
      BY <1>3, <3>2 DEF Planned
    <3>5. OnCourse'
      BY <1>2, <3>1, <3>3, <3>4, WentOn DEF UnderWay
    <3> QED BY <1>5, <2>1, <3>5 DEF HoIInv, OnCourse
  <2>4. CASE RestartUnderWay
    <3>1. EndJob(hoJob.well /\ TRUE)
      BY <1>1, <1>2, <1>6, <2>4, RestartOnward DEF Goes
    <3>2. EndJob(hoJob.well) /\ hoJob.well \in BOOLEAN
      BY <1>2, <3>1 DEF JobRecord
    <3>3. hoJob.op = "restart" /\ hoJob.by = "restart"
      BY <2>4 DEF RestartUnderWay
    <3>4. ASSUME hoJob.well PROVE Serves("restart")'
      <4>1. WgReady("restart") /\ WstunnelReady("restart")
        BY <1>2, <3>3, <3>4 DEF HoIInv, Progress, Done, RestartDone
      <4>2. WgReady("restart")' /\ WstunnelReady("restart")'
        BY <1>1, <1>6, <4>1, ReadyKept, TransportKept
      <4> QED BY <1>1, <1>3, <2>2, <4>1, <4>2 DEF Serves
    <3>5. OnCourse'
      BY <3>2, <3>3, <3>4, Finished DEF Speakers
    <3> QED BY <1>5, <2>1, <3>5 DEF HoIInv, OnCourse
  <2> QED BY <1>2, <2>3, <2>4
<1>7. CASE /\ hoKind = "systemd" /\ GivesUp
           /\ hoListener' \in {hoListener, [hoListener EXCEPT !.unit = TRUE]}
  <2>1. hoListener' \in [unit : BOOLEAN, up : BOOLEAN]
    BY <1>4, <1>7
  <2>2. OnCourse'
    BY <1>1, <1>7, Unwell DEF HoIInv
  <2> QED BY <1>5, <1>7, <2>1, <2>2 DEF HoIInv, OnCourse
<1> QED BY <1>6, <1>7 DEF Enroll, Passed, NoFault

(* The site of Caddy.                                                    *)
LEMMA InstallFrontKeeps ==
    ASSUME HoIInv, InstallFront PROVE HoIInv'
<1>1. /\ At("front")
      /\ UNCHANGED <<hoKind, hoBins, hoConfig, hoWg, hoRules, hoForward, hoWall, hoTransport,
                     hoListener>>
  BY DEF InstallFront, hoMachine, hoWgVars
<1>2. /\ ~HoIdle /\ Ahead = "front" /\ JobRecord /\ hoPromise.says = "nothing"
      /\ SetupUnderWay /\ hoKind = "systemd"
  BY <1>1, Whose DEF HoIInv
<1>3. /\ Configured(hoConfig) /\ Configured(hoConfig)' /\ hoConfig.gen \in Nat
      /\ hoCaddy \in [up : BOOLEAN, site : Nat, loaded : Nat]
  BY <1>1, <1>2 DEF HoIInv, Planned, SetupUnderWay, Configured, HoTypeOK, Configs
<1>4. ASSUME hoCaddy' \in [up : BOOLEAN, site : Nat, loaded : Nat]
      PROVE  HoTypeOK' /\ Machine'
  <2>1. WgTypes' /\ WgSound'
    BY <1>1, WgUntouched DEF HoIInv
  <2> QED BY <1>1, <1>2, <1>4, <2>1, MachineKept DEF HoIInv, HoTypeOK
<1>5. hoJob.op = "setup" /\ hoJob.by = "setup"
  BY <1>2 DEF SetupUnderWay
<1>6. ASSUME NEW well \in BOOLEAN, Advance(well) PROVE EndJob(hoJob.well /\ well)
  BY <1>1, <1>2, <1>6, SetupOnward DEF Goes
<1>7. ASSUME hoJob.well, FrontReady', "port" \in hoMissed => "port" \in hoMissed',
             PortLost => PortLost'
      PROVE  Serves("setup")'
  <2>1. /\ WgReady("setup") /\ (hoWall # "shut" \/ "port" \in hoMissed) /\ ListenerReady
        /\ WstunnelReady("setup")
    BY <1>2, <1>5, <1>7 DEF HoIInv, Progress, Done, SetupDone
  <2>2. WgReady("setup")'
    BY <1>1, <1>2, <2>1, ReadyKept
  <2>3. WstunnelReady("setup")'
    BY <1>1, <1>7, <2>1 DEF WstunnelReady
  <2> QED BY <1>1, <1>2, <1>3, <1>7, <2>1, <2>2, <2>3 DEF Serves, ListenerReady
<1>8. ASSUME Advance(TRUE), FrontReady', "port" \in hoMissed => "port" \in hoMissed',
             PortLost => PortLost'
      PROVE  OnCourse'
  <2>1. EndJob(hoJob.well) /\ hoJob.well \in BOOLEAN
    BY <1>2, <1>6, <1>8 DEF JobRecord
  <2> QED BY <1>5, <1>7, <1>8, <2>1, Finished DEF Speakers
<1>9. Advance(FALSE) => OnCourse'
  BY <1>1, Unwell DEF HoIInv
<1>10. CASE ~hoConfig.domain /\ UNCHANGED hoCaddy /\ Advance(TRUE) /\ UNCHANGED hoMissed
  <2>1. FrontReady' /\ (PortLost => PortLost')
    BY <1>1, <1>10 DEF FrontReady, PortLost, Taken
  <2> QED BY <1>3, <1>4, <1>8, <1>10, <2>1 DEF HoIInv, OnCourse
<1>11. CASE /\ hoConfig.domain /\ hoBins /\ Advance(TRUE) /\ LoadFront(hoConfig.gen)
            /\ hoMissed' = hoMissed \ {"front"}
  <2>1. hoCaddy' = [up |-> TRUE, site |-> hoConfig.gen, loaded |-> hoConfig.gen]
    BY <1>11 DEF LoadFront
  <2>2. hoCaddy' \in [up : BOOLEAN, site : Nat, loaded : Nat]
    BY <1>3, <2>1
  <2>3. FrontReady' /\ ~PortLost
    BY <1>1, <1>11, <2>1 DEF FrontReady, PortLost
  <2> QED BY <1>4, <1>8, <1>11, <2>2, <2>3 DEF HoIInv, OnCourse
<1>12. CASE Advance(FALSE) /\ hoCaddy' \in {hoCaddy, [hoCaddy EXCEPT !.site = hoConfig.gen]}
  <2>1. hoCaddy' \in [up : BOOLEAN, site : Nat, loaded : Nat]
    BY <1>3, <1>12
  <2> QED BY <1>4, <1>9, <1>12, <2>1 DEF HoIInv, OnCourse
<1>13. PassedBut({"front"}, {}) => Advance(TRUE) /\ hoMissed' = hoMissed \ {"front"}
  BY DEF PassedBut
<1> QED BY <1>10, <1>11, <1>12, <1>13 DEF InstallFront, Passed, NoFault, Warned

(* The process that runs wstunnel and the listener itself.               *)
LEMMA SpawnTransportKeeps ==
    ASSUME HoIInv, SpawnTransport PROVE HoIInv'
<1>1. /\ At("spawn") /\ Advance(TRUE)
      /\ hoTransport' = ByOwner
      /\ hoListener' = [hoListener EXCEPT !.up = TRUE]
      /\ UNCHANGED <<hoKind, hoBins, hoConfig, hoWg, hoRules, hoForward, hoWall, hoCaddy, hoMissed>>
  BY DEF SpawnTransport, hoMachine, hoWgVars, Passed, NoFault
<1>2. /\ ~HoIdle /\ Ahead = "spawn" /\ JobRecord /\ hoPromise.says = "nothing" /\ StartUnderWay
  BY <1>1, Whose DEF HoIInv
<1>3. hoKind # "systemd" /\ hoJob.op = "start" /\ hoJob.by = "start"
  BY <1>2 DEF StartUnderWay
<1>4. Configured(hoConfig) /\ Configured(hoConfig)' /\ hoConfig.gen \in Nat
  BY <1>1, <1>3 DEF HoIInv, Planned, Configured, HoTypeOK, Configs
<1>5. /\ hoTransport' \in Transports /\ hoTransport'.runs = hoConfig.gen
      /\ hoTransport'.unit = hoTransport.unit
      /\ hoListener' \in [unit : BOOLEAN, up : BOOLEAN] /\ hoListener'.up
      /\ hoListener'.unit = hoListener.unit
  BY <1>1, <1>4, ByOwnerIs DEF HoIInv, HoTypeOK
<1>6. HoTypeOK' /\ Machine'
  <2>1. WgTypes' /\ WgSound'
    BY <1>1, WgUntouched DEF HoIInv
  <2> QED BY <1>1, <1>3, <1>5, <2>1, MachineKept DEF HoIInv, HoTypeOK, Machine, Elsewhere
<1>7. EndJob(hoJob.well) /\ hoJob.well \in BOOLEAN
  <2>1. EndJob(hoJob.well /\ TRUE)
    BY <1>1, <1>2, StartOnward DEF Goes
  <2> QED BY <1>2, <2>1 DEF JobRecord
<1>8. ASSUME hoJob.well PROVE Serves("start")'
  <2>1. WgReady("start")
    BY <1>2, <1>3, <1>8 DEF HoIInv, Progress, Done, StartDone
  <2>2. WgReady("start")'
    BY <1>1, <2>1, ReadyKept
  <2> QED BY <1>1, <1>3, <1>4, <1>5, <2>2 DEF Serves, WstunnelReady, ListenerReady
<1>9. OnCourse'
  BY <1>3, <1>7, <1>8, Finished DEF Speakers
<1> QED BY <1>6, <1>9 DEF HoIInv, OnCourse

-----------------------------------------------------------------------------
(* The steps of a change of settings.                                    *)

(* A generation that is carried over an edit.                            *)
LEMMA CarriedIs ==
    ASSUME HoTypeOK, Numbered(hoConfig), Configured(hoConfig), NEW g \in Nat
    PROVE  /\ Next1 \in Nat /\ Next1 # 0 /\ Carried(g) \in Nat
           /\ (g # 0 => Carried(g) # 0) /\ (g = hoConfig.gen => Carried(g) = Next1)
BY DEF HoTypeOK, Configs, Next1, Carried, Numbered

(* An edit that does not touch the file of the interface leaves it as    *)
(* good as before.                                                       *)
LEMMA EditEffect ==
    ASSUME HoTypeOK, Machine, UNCHANGED <<hoKind, hoRules, hoForward>>, Configured(hoConfig),
           hoConfig'.gen = Next1, hoConfig'.subnet = hoConfig.subnet,
           hoWg' = [hoWg EXCEPT !.link = IF @ = 0 THEN 0 ELSE Carried(@), !.conf.gen = Carried(@)]
    PROVE  /\ WgTypes' /\ WgSound'
           /\ \A by : hoKind = "systemd" /\ WgReady(by) => WgReady(by)'
<1> DEFINE link == IF hoWg.link = 0 THEN 0 ELSE Carried(hoWg.link)
           conf == [hoWg.conf EXCEPT !.gen = Carried(hoWg.conf.gen)]
<1>1. hoWg \in Interfaces /\ hoWg.conf \in Configs /\ hoConfig \in Configs
  BY DEF HoTypeOK, Interfaces
<1>2. hoWg.link \in Nat /\ hoWg.conf.gen \in Nat /\ Numbered(hoConfig)
  BY <1>1 DEF Interfaces, Configs, Machine
<1>3. link \in Nat /\ (link = 0 <=> hoWg.link = 0) /\ (hoWg.link = hoConfig.gen => link = Next1)
  BY <1>2, CarriedIs DEF Numbered
<1>4. /\ conf \in Configs /\ conf.subnet = hoWg.conf.subnet
      /\ hoWg.conf.gen # 0 => conf.gen # 0
      /\ hoWg.conf.gen = hoConfig.gen => conf.gen = Next1
  <2>1. /\ Carried(hoWg.conf.gen) \in Nat /\ (hoWg.conf.gen # 0 => Carried(hoWg.conf.gen) # 0)
        /\ hoWg.conf.gen = hoConfig.gen => Carried(hoWg.conf.gen) = Next1
    BY <1>2, CarriedIs
  <2> QED BY <1>1, <2>1 DEF Configs
<1>5. hoWg' = [hoWg EXCEPT !.link = link, !.conf = conf]
  BY <1>1 DEF Interfaces
<1> HIDE DEF link, conf
<1>6. /\ hoWg' \in Interfaces /\ hoWg'.link = link /\ hoWg'.conf = conf
      /\ hoWg'.enabled = hoWg.enabled /\ hoWg'.loose = hoWg.loose /\ hoWg'.gone = hoWg.gone
      /\ hoWg'.active = hoWg.active /\ hoWg'.strays = hoWg.strays
  BY <1>1, <1>3, <1>4, <1>5 DEF Interfaces
<1>7. WgActive' <=> WgActive
  BY <1>3, <1>6 DEF WgActive
<1>8. WgTypes'
  BY <1>6 DEF WgTypes, HoTypeOK
<1>9. WgSound'
  <2>1. RulesCounted'
    BY <1>4, <1>6, <1>7 DEF Machine, WgSound, RulesCounted
  <2>2. Numbered(hoWg.conf)'
    BY <1>4, <1>6, <1>7 DEF Machine, WgSound, Numbered, Configured
  <2>3. (hoKind = "systemd" /\ WgActive => hoWg.active /\ (hoWg.enabled \/ hoWg.loose))'
    BY <1>6, <1>7 DEF Machine, WgSound
  <2>4. (hoWg.active => WgActive \/ hoWg.gone)'
    BY <1>6, <1>7 DEF Machine, WgSound
  <2>5. (hoKind # "systemd" => hoWg.active = FALSE)'
    BY <1>6 DEF Machine, WgSound
  <2> QED BY <2>1, <2>2, <2>3, <2>4, <2>5 DEF WgSound
<1>10. ASSUME NEW by, hoKind = "systemd", WgReady(by) PROVE WgReady(by)'
  <2>1. hoConfig'.gen = Next1 /\ hoConfig'.subnet = hoConfig.subnet
    OBVIOUS
  <2>2. hoWg'.conf.gen = hoConfig'.gen /\ hoWg'.conf.subnet = hoConfig'.subnet
    BY <1>4, <1>6, <1>10, <2>1 DEF WgReady
  <2>3. hoWg'.enabled \/ hoWg'.loose
    BY <1>6, <1>10 DEF WgReady
  <2>4. CASE hoWg.gone /\ ~WgActive
    BY <1>6, <1>7, <1>10, <2>2, <2>3, <2>4 DEF WgReady
  <2>5. CASE hoWg.link = hoConfig.gen /\ hoForward.now /\ hoRules[hoConfig.subnet] > 0
    BY <1>3, <1>6, <1>10, <2>1, <2>2, <2>3, <2>5 DEF WgReady
  <2> QED BY <1>10, <2>4, <2>5 DEF WgReady
<1> QED BY <1>8, <1>9, <1>10

(* The edited configuration.                                             *)
LEMMA SaveEditKeeps ==
    ASSUME HoIInv, SaveEdit PROVE HoIInv'
<1>1. /\ At("save") /\ hoJob.op = "update" /\ Advance(TRUE)
      /\ \E p \in Ports : hoConfig' = [hoConfig EXCEPT !.gen = Next1, !.port = p]
      /\ UNCHANGED <<hoKind, hoBins, hoRules, hoForward, hoListener>>
  BY DEF SaveEdit, Passed
<1>2. /\ ~HoIdle /\ Ahead = "save" /\ JobRecord /\ hoPromise.says = "nothing" /\ UpdateUnderWay
  BY <1>1, Whose DEF HoIInv, SetupUnderWay
<1>3. hoKind = "systemd" /\ hoJob.by \in Edits
  BY <1>2 DEF UpdateUnderWay
<1>4. /\ Configured(hoConfig) /\ hoConfig \in Configs /\ HoTypeOK /\ Machine
      /\ Numbered(hoConfig)
  BY <1>1 DEF HoIInv, Planned, HoTypeOK, Machine
<1>5. Next1 \in Nat /\ Next1 # 0 /\ hoConfig.gen \in Nat
  BY <1>4, CarriedIs DEF Configs
<1>6. /\ hoConfig' \in Configs /\ hoConfig'.gen = Next1 /\ hoConfig'.subnet = hoConfig.subnet
      /\ Configured(hoConfig)' /\ Numbered(hoConfig)'
  BY <1>1, <1>4, <1>5 DEF Configs, PortNames, Configured, Numbered
<1>7. /\ WgTypes' /\ WgSound'
      /\ hoJob.by # "wg_port" => \A by : WgReady(by) => WgReady(by)'
  <2>1. CASE hoJob.by = "wg_port"
    <3>1. hoWg' = hoWg
      BY <2>1 DEF SaveEdit
    <3> QED BY <1>1, <1>4, <2>1, <3>1, WgUntouched
  <2>2. CASE hoJob.by # "wg_port"
    <3>1. hoWg' = [hoWg EXCEPT !.link = IF @ = 0 THEN 0 ELSE Carried(@), !.conf.gen = Carried(@)]
      BY <2>2 DEF SaveEdit
    <3> QED BY <1>1, <1>3, <1>4, <1>6, <3>1, EditEffect
  <2> QED BY <2>1, <2>2
<1>8. /\ hoTransport' \in Transports
      /\ hoTransport.runs # 0 => hoTransport'.runs # 0
      /\ hoJob.by \in {"certificate", "endpoint"} /\ hoTransport.unit = hoConfig.gen =>
            hoTransport'.unit = hoConfig'.gen
  <2> DEFINE unit == IF hoJob.by \in {"certificate", "endpoint"}
                     THEN Carried(hoTransport.unit) ELSE hoTransport.unit
             runs == IF hoJob.by = "endpoint" THEN Carried(hoTransport.runs) ELSE hoTransport.runs
  <2>1. hoTransport.unit \in Nat /\ hoTransport.runs \in Nat
    BY <1>4 DEF HoTypeOK, Transports
  <2>2. unit \in Nat /\ (hoJob.by \in {"certificate", "endpoint"}
                         /\ hoTransport.unit = hoConfig.gen => unit = Next1)
    BY <1>4, <2>1, CarriedIs
  <2>3. runs \in Nat /\ (hoTransport.runs # 0 => runs # 0)
    BY <1>4, <2>1, CarriedIs
  <2>4. hoTransport' = [hoTransport EXCEPT !.unit = unit, !.runs = runs]
    BY DEF SaveEdit
  <2> HIDE DEF unit, runs
  <2> QED BY <1>4, <1>6, <2>2, <2>3, <2>4 DEF HoTypeOK, Transports
<1>9. /\ hoWall' \in {"off", "shut", "open"}
      /\ hoCaddy' \in [up : BOOLEAN, site : Nat, loaded : Nat]
  <2>1. hoCaddy \in [up : BOOLEAN, site : Nat, loaded : Nat] /\ hoWall \in {"off", "shut", "open"}
    BY <1>4 DEF HoTypeOK
  <2>2. Carried(hoCaddy.site) \in Nat /\ Carried(hoCaddy.loaded) \in Nat
    BY <1>4, <2>1, CarriedIs
  <2>3. hoWall' \in {"off", "shut", "open"}
    BY <2>1 DEF SaveEdit
  <2>4. CASE hoCaddy' = hoCaddy
    BY <2>1, <2>3, <2>4
  <2>5. CASE hoCaddy' = [hoCaddy EXCEPT !.site = Carried(@), !.loaded = Carried(@)]
    BY <2>1, <2>2, <2>3, <2>5
  <2> QED BY <2>4, <2>5 DEF SaveEdit
<1>10. HoTypeOK'
  BY <1>1, <1>4, <1>6, <1>7, <1>8, <1>9 DEF HoTypeOK, WgTypes
<1>11. Machine'
  BY <1>1, <1>3, <1>6, <1>7 DEF Machine, Elsewhere
<1>12. Moved(TRUE) /\ JobRecord' /\ UpdateUnderWay' /\ Ahead' = "bounce"
  BY <1>1, <1>2, UpdateOnward DEF Goes
<1>13. hoJob'.op = "update" /\ hoJob'.by = hoJob.by
  BY <1>1, <1>12 DEF Moved
<1>14. ASSUME hoJob.well PROVE Done'
  <2>1. /\ hoTransport.runs # 0 /\ ListenerReady /\ WgReady(hoJob.by)
        /\ hoTransport.unit = hoConfig.gen
    BY <1>1, <1>2, <1>14 DEF HoIInv, Progress, Done, UpdateDone
  <2>2. ASSUME hoJob.by # "wg_port" PROVE WgReady(hoJob.by)'
    <3>1. \A by : WgReady(by) => WgReady(by)'
      BY <1>7, <2>2
    <3>2. PICK by : by = hoJob.by
      OBVIOUS
    <3>3. WgReady(by)'
      BY <2>1, <3>1, <3>2
    <3> QED BY <1>13, <3>2, <3>3 DEF WgReady
  <2>3. ListenerReady'
    BY <1>1, <2>1 DEF ListenerReady
  <2>4. UpdateDone'
    BY <1>8, <1>12, <1>13, <2>1, <2>2, <2>3 DEF UpdateDone
  <2> QED BY <1>13, <2>4 DEF Done
<1>15. Planned'
  BY <1>6, <1>13 DEF Planned
<1>16. OnCourse'
  BY <1>2, <1>12, <1>14, <1>15, WentOn DEF UnderWay
<1> QED BY <1>10, <1>11, <1>16 DEF HoIInv, OnCourse

(* The restart of wstunnel after an edit.                                *)
LEMMA BounceUnitKeeps ==
    ASSUME HoIInv, Listening, BounceUnit PROVE HoIInv'
<1>1. /\ At("bounce")
      /\ UNCHANGED <<hoKind, hoBins, hoConfig, hoWg, hoRules, hoForward, hoWall, hoListener, hoCaddy>>
  BY DEF BounceUnit, hoMachine, hoWgVars
<1>2. /\ ~HoIdle /\ Ahead = "bounce" /\ JobRecord /\ hoPromise.says = "nothing" /\ UpdateUnderWay
  BY <1>1, Whose DEF HoIInv
<1>3. hoKind = "systemd" /\ hoJob.by \in Edits /\ hoJob.op = "update"
  BY <1>2 DEF UpdateUnderWay
<1>4. /\ Configured(hoConfig) /\ Configured(hoConfig)' /\ hoConfig.gen \in Nat /\ hoConfig.gen # 0
      /\ hoTransport \in Transports
  BY <1>1, <1>3 DEF HoIInv, Planned, Configured, HoTypeOK, Configs, Machine, Numbered
<1>5. ASSUME hoTransport' \in Transports PROVE HoTypeOK' /\ Machine'
  <2>1. WgTypes' /\ WgSound'
    BY <1>1, WgUntouched DEF HoIInv
  <2> QED BY <1>1, <1>3, <1>5, <2>1, MachineKept DEF HoIInv, HoTypeOK
<1>6. CASE GivesUp /\ UNCHANGED hoTransport
  <2>1. OnCourse'
    BY <1>1, <1>6, Unwell DEF HoIInv
  <2> QED BY <1>4, <1>5, <1>6, <2>1 DEF HoIInv, OnCourse
<1>7. CASE /\ Advance(TRUE) /\ UNCHANGED hoMissed
           /\ \/ /\ hoTransport.runs # 0
                 /\ hoTransport' = Started(IF hoJob.by \in {"port", "wg_port"} THEN Written
                                           ELSE hoTransport, Taken)
              \/ hoTransport.runs = 0 /\ UNCHANGED hoTransport
  <2> DEFINE t == IF hoJob.by \in {"port", "wg_port"} THEN Written ELSE hoTransport
  <2>1. \/ hoTransport.runs # 0 /\ hoTransport' = Started(t, Taken)
        \/ hoTransport.runs = 0 /\ hoTransport' = hoTransport
    BY <1>7
  <2>2. t \in Transports
    BY <1>4, WrittenIs DEF HoIInv
  <2>3. hoTransport.unit = hoConfig.gen \/ hoJob.by \in {"port", "wg_port"} =>
           t.unit = hoConfig.gen /\ t.names = WsPort(hoConfig)
    BY <1>4, WrittenIs DEF HoIInv, Listening
  <2> HIDE DEF t
  <2>4. hoTransport' \in Transports
    BY <1>4, <2>1, <2>2, StartedIs
  <2>5. ASSUME hoJob.well
        PROVE  /\ \A by : WstunnelReady(by)'
               /\ ListenerReady' /\ \A by : hoJob.by # "wg_port" => WgReady(by)'
    <3>1. /\ hoTransport.runs # 0 /\ ListenerReady
          /\ hoJob.by # "wg_port" => WgReady(hoJob.by)
          /\ hoJob.by \in {"certificate", "endpoint"} => hoTransport.unit = hoConfig.gen
      BY <1>2, <1>3, <2>5 DEF HoIInv, Progress, Done, UpdateDone
    <3>2. t.unit = hoConfig.gen /\ t.names = WsPort(hoConfig)
      BY <1>3, <2>3, <3>1 DEF Edits
    <3>3. hoTransport' = Started(t, Taken)
      BY <2>1, <3>1
    <3>4. ASSUME NEW by PROVE WstunnelReady(by)'
      BY <1>1, <1>4, <2>2, <3>2, <3>3, StartServes DEF HoIInv
    <3>5. ASSUME NEW by, hoJob.by # "wg_port" PROVE WgReady(by)'
      <4>1. WgReady(by)
        BY <1>3, <3>1, <3>5 DEF WgReady
      <4> QED BY <1>1, <1>3, <4>1, ReadyKept
    <3> QED BY <1>1, <3>1, <3>4, <3>5 DEF ListenerReady
  <2>6. CASE EndJob(hoJob.well /\ TRUE) /\ hoJob.by = "certificate"
    <3>1. EndJob(hoJob.well) /\ hoJob.well \in BOOLEAN
      BY <1>2, <2>6 DEF JobRecord
    <3>2. ASSUME hoJob.well PROVE Serves("certificate")'
      <4>1. WgReady("certificate")' /\ WstunnelReady("certificate")'
        BY <2>5, <2>6, <3>2
      <4> QED BY <1>4, <2>5, <3>2, <4>1 DEF Serves
    <3>3. OnCourse'
      BY <1>3, <2>6, <3>1, <3>2, Finished DEF Speakers, Edits
    <3> QED BY <1>5, <2>4, <3>3 DEF HoIInv, OnCourse
  <2>7. CASE Moved(TRUE) /\ JobRecord' /\ UpdateUnderWay' /\ Ahead' = "rewire"
    <3>1. hoJob'.op = "update" /\ hoJob'.by = hoJob.by
      BY <1>3, <2>7 DEF Moved
    <3>2. ASSUME hoJob.well PROVE Done'
      <4>1. ASSUME hoJob.by # "wg_port" PROVE WgReady(hoJob.by)'
        <5>1. PICK by : by = hoJob.by
          OBVIOUS
        <5>2. WgReady(by)'
          BY <2>5, <3>2, <4>1
        <5> QED BY <3>1, <5>1, <5>2 DEF WgReady
      <4>2. WstunnelReady(hoJob.by)'
        <5>1. PICK by : by = hoJob'.by
          OBVIOUS
        <5>2. WstunnelReady(by)'
          BY <2>5, <3>2
        <5> QED BY <5>1, <5>2 DEF WstunnelReady
      <4>3. UpdateDone'
        BY <1>4, <2>5, <2>7, <3>1, <3>2, <4>1, <4>2 DEF UpdateDone
      <4> QED BY <3>1, <4>3 DEF Done
    <3>3. Planned'
      BY <1>4, <3>1 DEF Planned
    <3>4. OnCourse'
      BY <1>2, <2>7, <3>2, <3>3, WentOn DEF UnderWay
    <3> QED BY <1>5, <2>4, <3>4 DEF HoIInv, OnCourse
  <2> QED BY <1>1, <1>2, <1>7, <2>6, <2>7, UpdateOnward DEF Goes
<1> QED BY <1>6, <1>7 DEF BounceUnit, Passed, NoFault

(* The reconciliation of WireGuard after an edit: only by force where    *)
(* its port has changed, and else what served serves on.                 *)
LEMMA RewireUnitKeeps ==
    ASSUME HoIInv, RewireUnit PROVE HoIInv'
<1>1. /\ At("rewire")
      /\ UNCHANGED <<hoKind, hoBins, hoConfig, hoTransport, hoListener, hoCaddy>>
  BY DEF RewireUnit, hoMachine, hoServices
<1>2. /\ ~HoIdle /\ Ahead = "rewire" /\ JobRecord /\ hoPromise.says = "nothing" /\ UpdateUnderWay
  BY <1>1, Whose DEF HoIInv
<1>3. hoKind = "systemd" /\ hoJob.by \in Edits /\ hoJob.op = "update"
  BY <1>2 DEF UpdateUnderWay
<1>4. Configured(hoConfig) /\ Configured(hoConfig)' /\ hoConfig.gen # 0
  BY <1>1, <1>3 DEF HoIInv, Planned, Configured, Machine, Numbered
<1>5. HoTypeOK /\ Machine /\ WgSound
  BY DEF HoIInv, Machine
<1>6. ASSUME WgTypes', WgSound', hoWall' \in {"off", "shut", "open"}
      PROVE  HoTypeOK' /\ Machine'
  BY <1>1, <1>3, <1>5, <1>6, MachineKept DEF HoTypeOK
<1>7. CASE GivesUp /\ ReconcileFails(hoConfig)
  <2>1. WgTypes' /\ WgSound' /\ hoWall' \in {"off", "shut", "open"}
    BY <1>1, <1>4, <1>5, <1>7, FailsEffect
  <2>2. OnCourse'
    BY <1>1, <1>7, Unwell DEF HoIInv
  <2> QED BY <1>6, <2>1, <2>2 DEF HoIInv, OnCourse
<1>8. CASE Reconcile(hoConfig, hoJob.by = "wg_port", {}) /\ Advance(TRUE)
  <2> DEFINE force == hoJob.by = "wg_port"
  <2>0. PICK missed : missed = {}
    OBVIOUS
  <2>1. Reconcile(hoConfig, force, missed) /\ force \in BOOLEAN /\ missed \subseteq hoMissed'
    BY <1>8, <2>0
  <2>2. force <=> hoJob.by = "wg_port"
    OBVIOUS
  <2> HIDE DEF force
  <2>3. WgTypes' /\ WgSound' /\ hoWall' \in {"off", "shut", "open"}
    BY <1>1, <1>4, <1>5, <2>1, ReconcileEffect
  <2>4. EndJob(hoJob.well) /\ hoJob.well \in BOOLEAN
    <3>1. EndJob(hoJob.well /\ TRUE)
      BY <1>1, <1>2, <1>8, UpdateOnward DEF Goes
    <3> QED BY <1>2, <3>1 DEF JobRecord
  <2>5. ASSUME NEW by, by = hoJob.by, hoJob.well PROVE Serves(by)'
    <3>1. /\ WstunnelReady(hoJob.by) /\ ListenerReady
          /\ hoJob.by # "wg_port" => WgReady(hoJob.by)
      BY <1>2, <1>3, <2>5 DEF HoIInv, Progress, Done, UpdateDone
    <3>2. by \notin {"start", "setup"}
      BY <1>3, <2>5 DEF Edits
    <3>3. CASE hoJob.by = "wg_port"
      <4>0. force /\ by # "start"
        BY <2>2, <3>2, <3>3
      <4>1. WgReady(by)'
        BY <1>1, <1>4, <1>5, <2>1, <4>0, ReconcileEffect
      <4> QED BY <1>1, <1>4, <2>5, <3>1, <3>2, <4>1, TransportKept DEF Serves, ListenerReady
    <3>4. CASE hoJob.by # "wg_port"
      <4>1. WgReady(by)
        BY <2>5, <3>1, <3>4
      <4>2. WgReady(by)'
        BY <1>1, <1>3, <1>4, <1>5, <2>1, <4>1, ReconcileEffect
      <4> QED BY <1>1, <1>4, <2>5, <3>1, <3>2, <4>2, TransportKept DEF Serves, ListenerReady
    <3> QED BY <3>3, <3>4
  <2>6. OnCourse'
    <3>1. PICK by : by = hoJob.by
      OBVIOUS
    <3>2. by \in Speakers /\ hoJob.op # "uninstall"
      BY <1>3, <3>1 DEF Speakers
    <3>3. hoJob.well => Serves(by)'
      BY <2>5, <3>1
    <3> QED BY <2>4, <3>1, <3>2, <3>3, Finished
  <2> QED BY <1>6, <2>3, <2>6 DEF HoIInv, OnCourse
<1> QED BY <1>7, <1>8 DEF RewireUnit, Passed

-----------------------------------------------------------------------------
(* The steps of an uninstall.                                            *)

(* A step of an uninstall, but for the last one.                         *)
LEMMA DropMoves ==
    ASSUME JobShape, hoKind' = hoKind, NEW step, NEW next, At(step), NextDrop(step, next),
           Advance(TRUE)
    PROVE  /\ Ahead' = next
           /\ (hoJob.well => UninstallDone') => OnCourse'
<1>1. /\ ~HoIdle /\ Ahead = step /\ JobRecord /\ hoPromise.says = "nothing" /\ UninstallUnderWay
  BY Whose DEF NextDrop
<1>2. Moved(TRUE) /\ JobRecord' /\ UninstallUnderWay' /\ Ahead' = next
  BY <1>1, UninstallOnward DEF Goes, NextDrop
<1>3. hoJob'.op = "uninstall"
  BY <1>2 DEF UninstallUnderWay
<1>4. Planned'
  BY <1>3 DEF Planned
<1>5. ASSUME hoJob.well => UninstallDone' PROVE OnCourse'
  <2>1. hoJob.well => Done'
    BY <1>3, <1>5 DEF Done
  <2> QED BY <1>1, <1>2, <1>4, <2>1, WentOn DEF UnderWay
<1> QED BY <1>2, <1>5

(* The unit of wstunnel goes, ...                                        *)
LEMMA DropTransportKeeps ==
    ASSUME HoIInv, DropTransport PROVE HoIInv'
<1>1. /\ At("drop_wstunnel")
      /\ UNCHANGED <<hoKind, hoBins, hoConfig, hoWg, hoRules, hoForward, hoWall, hoListener, hoCaddy>>
  BY DEF DropTransport, hoMachine, hoWgVars
<1>2. hoTransport \in Transports /\ (hoKind # "systemd" => hoTransport.unit = 0)
  BY DEF HoIInv, HoTypeOK, Machine, Elsewhere
<1>3. ASSUME hoTransport' \in Transports,
             hoKind # "systemd" => hoTransport'.unit = 0
      PROVE  HoTypeOK' /\ Machine'
  <2>1. WgTypes' /\ WgSound'
    BY <1>1, WgUntouched DEF HoIInv
  <2> QED BY <1>1, <1>3, <2>1, MachineKept DEF HoIInv, HoTypeOK, Machine, Elsewhere
<1>4. ASSUME hoTransport' \in Transports, hoTransport'.unit = 0, Advance(TRUE)
      PROVE  HoIInv'
  <2>1. Ahead' = "drop_enroll"
    BY <1>1, <1>4, DropMoves DEF HoIInv, NextDrop
  <2>2. UninstallDone'
    BY <1>4, <2>1 DEF UninstallDone
  <2>3. OnCourse'
    BY <1>1, <1>4, <2>2, DropMoves DEF HoIInv, NextDrop
  <2> QED BY <1>3, <1>4, <2>3 DEF HoIInv, OnCourse
<1>5. CASE /\ Advance(TRUE)
           /\ hoTransport' \in {[hoTransport EXCEPT !.unit = 0, !.runs = 0],
                                [hoTransport EXCEPT !.unit = 0]}
  <2>1. CASE hoTransport' = [hoTransport EXCEPT !.unit = 0, !.runs = 0]
    <3>1. hoTransport' \in Transports /\ hoTransport'.unit = 0
      BY <1>2, <2>1 DEF Transports
    <3> QED BY <1>4, <1>5, <3>1
  <2>2. CASE hoTransport' = [hoTransport EXCEPT !.unit = 0]
    <3>1. hoTransport' \in Transports /\ hoTransport'.unit = 0
      BY <1>2, <2>2 DEF Transports
    <3> QED BY <1>4, <1>5, <3>1
  <2> QED BY <1>5, <2>1, <2>2
<1>6. CASE /\ hoTransport.unit = 0 \/ hoKind # "systemd"
           /\ hoTransport' = hoTransport /\ Advance(TRUE)
  BY <1>2, <1>4, <1>6
<1>7. CASE hoKind = "systemd" /\ hoTransport' = [hoTransport EXCEPT !.runs = 0] /\ GivesUp
  <2>1. hoTransport' \in Transports
    BY <1>2, <1>7 DEF Transports
  <2>2. OnCourse'
    BY <1>1, <1>7, Unwell DEF HoIInv
  <2> QED BY <1>3, <1>7, <2>1, <2>2 DEF HoIInv, OnCourse
<1> QED BY <1>5, <1>6, <1>7 DEF DropTransport, Passed, PassedBut

(* ... then that of the listener, ...                                    *)
LEMMA DropListenerKeeps ==
    ASSUME HoIInv, DropListener PROVE HoIInv'
<1>1. /\ At("drop_enroll")
      /\ UNCHANGED <<hoKind, hoBins, hoConfig, hoWg, hoRules, hoForward, hoWall, hoTransport, hoCaddy>>
  BY DEF DropListener, hoMachine, hoWgVars
<1>2. /\ hoListener \in [unit : BOOLEAN, up : BOOLEAN]
      /\ hoKind # "systemd" => hoListener.unit = FALSE
  BY DEF HoIInv, HoTypeOK, Machine, Elsewhere
<1>3. ASSUME hoListener' \in [unit : BOOLEAN, up : BOOLEAN],
             hoKind # "systemd" => hoListener'.unit = FALSE
      PROVE  HoTypeOK' /\ Machine'
  <2>1. WgTypes' /\ WgSound'
    BY <1>1, WgUntouched DEF HoIInv
  <2> QED BY <1>1, <1>3, <2>1, MachineKept DEF HoIInv, HoTypeOK, Machine, Elsewhere
<1>4. ASSUME hoListener' \in [unit : BOOLEAN, up : BOOLEAN], hoListener'.unit = FALSE, Advance(TRUE)
      PROVE  HoIInv'
  <2>1. Ahead = "drop_enroll" /\ UninstallUnderWay
    BY <1>1, Whose DEF HoIInv
  <2>2. Ahead' = "drop_wireguard"
    BY <1>1, <1>4, DropMoves DEF HoIInv, NextDrop
  <2>3. ASSUME hoJob.well PROVE UninstallDone'
    <3>1. hoTransport.unit = 0
      BY <2>1, <2>3 DEF HoIInv, Progress, Done, UninstallDone, UninstallUnderWay
    <3> QED BY <1>1, <1>4, <2>2, <3>1 DEF UninstallDone
  <2>4. OnCourse'
    BY <1>1, <1>4, <2>3, DropMoves DEF HoIInv, NextDrop
  <2> QED BY <1>3, <1>4, <2>4 DEF HoIInv, OnCourse
<1>5. CASE /\ Advance(TRUE)
           /\ hoListener' \in {[unit |-> FALSE, up |-> FALSE], [hoListener EXCEPT !.unit = FALSE]}
  <2>1. CASE hoListener' = [unit |-> FALSE, up |-> FALSE]
    BY <1>4, <1>5, <2>1
  <2>2. CASE hoListener' = [hoListener EXCEPT !.unit = FALSE]
    <3>1. hoListener' \in [unit : BOOLEAN, up : BOOLEAN] /\ hoListener'.unit = FALSE
      BY <1>2, <2>2
    <3> QED BY <1>4, <1>5, <3>1
  <2> QED BY <1>5, <2>1, <2>2
<1>6. CASE /\ ~hoListener.unit \/ hoKind # "systemd"
           /\ hoListener' = hoListener /\ Advance(TRUE)
  BY <1>2, <1>4, <1>6
<1>7. CASE hoKind = "systemd" /\ hoListener' = [hoListener EXCEPT !.up = FALSE] /\ GivesUp
  <2>1. hoListener' \in [unit : BOOLEAN, up : BOOLEAN]
    BY <1>2, <1>7
  <2>2. OnCourse'
    BY <1>1, <1>7, Unwell DEF HoIInv
  <2> QED BY <1>3, <1>7, <2>1, <2>2 DEF HoIInv, OnCourse
<1> QED BY <1>5, <1>6, <1>7 DEF DropListener, Passed, PassedBut

(* ... the interface, which takes its rule with it, ...                  *)
LEMMA RulesWithout ==
    ASSUME HoTypeOK, WgSound, hoKind # "windows", NEW rules,
           rules = IF WgActive THEN Less(hoRules, hoWg.conf.subnet) ELSE hoRules
    PROVE  rules \in [Subnets -> Nat] /\ \A s \in Subnets \ hoWg.strays : rules[s] = 0
<1>1. hoRules \in [Subnets -> Nat]
  BY DEF HoTypeOK
<1>2. CASE WgActive
  <2>1. rules = Less(hoRules, hoWg.conf.subnet) /\ rules \in [Subnets -> Nat]
    BY <1>1, <1>2, LessCount
  <2>2. ASSUME NEW s \in Subnets \ hoWg.strays PROVE rules[s] = 0
    <3>1. hoRules[s] <= IF s = hoWg.conf.subnet THEN 1 ELSE 0
      BY <1>2 DEF WgSound, RulesCounted
    <3>2. hoRules[s] \in Nat
      BY <1>1
    <3>3. CASE s = hoWg.conf.subnet
      BY <1>1, <2>1, <3>1, <3>3, LessCount
    <3>4. CASE s # hoWg.conf.subnet
      BY <1>1, <2>1, <3>1, <3>2, <3>4, LessCount
    <3> QED BY <3>3, <3>4
  <2> QED BY <2>1, <2>2
<1>3. CASE ~WgActive
  BY <1>1, <1>3 DEF WgSound, RulesCounted
<1> QED BY <1>2, <1>3

(* ... if it was up, ...                                                 *)
LEMMA WgDroppedEffect ==
    ASSUME HoTypeOK, WgSound, hoKind' = hoKind, hoForward' \in [now : BOOLEAN, kept : BOOLEAN],
           NEW conf \in Configs, Numbered(conf), WgDropped(conf)
    PROVE  WgTypes' /\ WgSound' /\ hoWg'.conf = conf
<1>1. hoWg \in Interfaces
  BY DEF HoTypeOK
<1>2. /\ hoWg' \in Interfaces /\ hoWg'.conf = conf /\ hoWg'.link = 0
      /\ hoWg'.active = FALSE /\ hoWg'.strays = hoWg.strays
  BY <1>1 DEF WgDropped, Interfaces
<1>3. /\ hoRules' \in [Subnets -> Nat]
      /\ hoKind # "windows" => \A s \in Subnets \ hoWg.strays : hoRules'[s] = 0
  <2>1. CASE hoKind = "windows"
    <3>1. hoRules' = [s \in Subnets |-> 0]
      BY <2>1 DEF WgDropped, NoRules
    <3> QED BY <2>1, <3>1
  <2>2. CASE hoKind # "windows"
    <3>1. hoRules' = IF WgActive THEN Less(hoRules, hoWg.conf.subnet) ELSE hoRules
      BY <2>2 DEF WgDropped
    <3> QED BY <2>2, <3>1, RulesWithout
  <2> QED BY <2>1, <2>2
<1>4. WgTypes'
  BY <1>2, <1>3 DEF WgTypes
<1>5. ~WgActive'
  BY <1>2 DEF WgActive
<1>6. RulesCounted'
  BY <1>2, <1>3, <1>5 DEF RulesCounted
<1>7. Numbered(hoWg.conf)'
  BY <1>2 DEF Numbered, Configured
<1> QED BY <1>2, <1>4, <1>5, <1>6, <1>7 DEF WgSound

(* ... or stays without its file, ...                                    *)
LEMMA WgLeftEffect ==
    ASSUME HoTypeOK, WgSound, hoKind' = hoKind, hoForward' \in [now : BOOLEAN, kept : BOOLEAN],
           WgLeft
    PROVE  WgTypes' /\ WgSound' /\ hoWg'.conf = NoConfig
<1>1. hoWg \in Interfaces /\ NoConfig \in Configs /\ ~Configured(NoConfig)
  BY DEF HoTypeOK, NoConfig, Configs, Names, PortNames, Configured
<1>2. PICK enabled \in {FALSE, hoWg.enabled}, link \in {0, hoWg.link} :
         hoWg' = [hoWg EXCEPT !.conf = NoConfig, !.enabled = enabled, !.link = link,
                              !.active = @ /\ link # 0, !.loose = TRUE,
                              !.strays = @ \cup {hoWg.conf.subnet}]
  BY DEF WgLeft
<1> DEFINE active == hoWg.active /\ link # 0
           strays == hoWg.strays \cup {hoWg.conf.subnet}
<1>3. strays \in SUBSET Names
  BY <1>1 DEF Interfaces, Configs
<1>4. hoWg.enabled \in BOOLEAN /\ hoWg.link \in Nat
  BY <1>1 DEF Interfaces
<1>5. enabled \in BOOLEAN
  BY <1>2, <1>4, Zenon
<1>6. link \in Nat /\ (link # 0 => WgActive /\ link = hoWg.link)
  BY <1>4 DEF WgActive
<1>7. active \in BOOLEAN
  OBVIOUS
<1>8. (active => hoWg.active /\ link # 0) /\ (link # 0 /\ ~active => ~hoWg.active)
  OBVIOUS
<1>9. hoWg' = [hoWg EXCEPT !.conf = NoConfig, !.enabled = enabled, !.link = link,
                           !.active = active, !.loose = TRUE, !.strays = strays]
  BY <1>2
<1>10. hoWg.strays \subseteq strays /\ hoWg.conf.subnet \in strays
  OBVIOUS
<1> HIDE DEF active, strays
<1>11. /\ hoWg' \in Interfaces /\ hoWg'.conf = NoConfig /\ hoWg'.link = link
      /\ hoWg'.active = active /\ hoWg'.loose = TRUE /\ hoWg'.strays = strays
  BY <1>1, <1>6, <1>9, <1>7, <1>3, <1>5 DEF Interfaces
<1>12. hoRules' \in [Subnets -> Nat] /\ (hoKind # "windows" => hoRules' = hoRules)
  <2>1. hoRules \in [Subnets -> Nat] /\ NoRules \in [Subnets -> Nat]
    BY DEF HoTypeOK, NoRules
  <2>2. hoRules' = hoRules \/ (hoKind = "windows" /\ hoRules' = NoRules)
    BY DEF WgLeft
  <2>3. CASE hoRules' = hoRules
    BY <2>1, <2>3
  <2>4. CASE hoKind = "windows" /\ hoRules' = NoRules
    BY <2>1, <2>4
  <2> QED BY <2>2, <2>3, <2>4
<1>13. WgTypes'
  BY <1>11, <1>12 DEF WgTypes
<1>14. RulesCounted'
  <2> SUFFICES ASSUME hoKind # "windows", NEW s \in Subnets \ strays PROVE hoRules[s] <= 0
    BY <1>1, <1>11, <1>12 DEF RulesCounted, Configured
  <2>1. s \notin hoWg.strays /\ s # hoWg.conf.subnet
    BY <1>10
  <2> QED BY <2>1 DEF WgSound, RulesCounted
<1>15. (hoKind = "systemd" /\ WgActive => hoWg.active /\ (hoWg.enabled \/ hoWg.loose))'
  BY <1>6, <1>11, <1>8 DEF WgSound, WgActive
<1>16. (hoWg.active => WgActive \/ hoWg.gone)' /\ (hoKind # "systemd" => hoWg.active = FALSE)'
  BY <1>6, <1>11, <1>8 DEF WgSound, WgActive
<1>17. Numbered(hoWg.conf)'
  BY <1>1, <1>11 DEF Numbered, Configured
<1> QED BY <1>11, <1>13, <1>14, <1>15, <1>16, <1>17 DEF WgSound

(* ... and the drop-in, ...                                              *)
LEMMA DropWireguardKeeps ==
    ASSUME HoIInv, DropWireguard PROVE HoIInv'
<1>1. /\ At("drop_wireguard")
      /\ UNCHANGED <<hoKind, hoBins, hoConfig, hoWall, hoTransport, hoListener, hoCaddy>>
  BY DEF DropWireguard, hoMachine, hoServices
<1>2. HoTypeOK /\ Machine /\ WgSound
  BY DEF HoIInv, Machine
<1>3. /\ hoWg \in Interfaces /\ NoConfig \in Configs /\ ~Configured(NoConfig)
      /\ hoWg.conf \in Configs /\ Numbered(hoWg.conf) /\ Numbered(NoConfig)
  BY <1>2 DEF HoTypeOK, NoConfig, Configs, Names, PortNames, Configured, Interfaces, WgSound, Numbered
<1>4. hoForward \in [now : BOOLEAN, kept : BOOLEAN]
  BY <1>2 DEF HoTypeOK
<1>5. ASSUME WgTypes', WgSound' PROVE HoTypeOK' /\ Machine'
  BY <1>1, <1>2, <1>5, MachineKept DEF HoTypeOK, Machine, Elsewhere
<1>6. CASE /\ hoForward' = [hoForward EXCEPT !.kept = IF hoKind = "systemd" THEN FALSE ELSE @]
           /\ WgDropped(NoConfig) \/ WgLeft
           /\ Advance(TRUE)
  <2>1. hoForward' \in [now : BOOLEAN, kept : BOOLEAN] /\ (hoKind = "systemd" => ~hoForward'.kept)
    BY <1>4, <1>6
  <2>2. WgTypes' /\ WgSound' /\ hoWg'.conf = NoConfig
    BY <1>1, <1>2, <1>3, <1>6, <2>1, WgDroppedEffect, WgLeftEffect
  <2>3. Ahead = "drop_wireguard" /\ UninstallUnderWay
    BY <1>1, Whose DEF HoIInv
  <2>4. Ahead' = "drop_front"
    BY <1>1, <1>6, DropMoves DEF HoIInv, NextDrop
  <2>5. WgBare'
    BY <1>1, <1>3, <1>4, <2>1, <2>2 DEF WgBare, Configured
  <2>6. ASSUME hoJob.well PROVE UninstallDone'
    <3>1. hoTransport.unit = 0 /\ hoListener.unit = FALSE
      BY <2>3, <2>6 DEF HoIInv, Progress, Done, UninstallDone, UninstallUnderWay
    <3> QED BY <1>1, <2>4, <2>5, <3>1 DEF UninstallDone
  <2>7. OnCourse'
    BY <1>1, <1>6, <2>6, DropMoves DEF HoIInv, NextDrop
  <2> QED BY <1>5, <2>2, <2>7 DEF HoIInv, OnCourse
<1>7. CASE /\ WgDropped(hoWg.conf) \/ WgDropped(NoConfig)
           /\ UNCHANGED hoForward /\ GivesUp
  <2>1. WgTypes' /\ WgSound'
    BY <1>1, <1>2, <1>3, <1>4, <1>7, WgDroppedEffect
  <2>2. OnCourse'
    BY <1>1, <1>7, Unwell DEF HoIInv
  <2> QED BY <1>5, <2>1, <2>2 DEF HoIInv, OnCourse
<1> QED BY <1>6, <1>7 DEF DropWireguard, Passed, PassedBut

(* ... the site of Caddy, ...                                            *)
LEMMA DropFrontKeeps ==
    ASSUME HoIInv, DropFront PROVE HoIInv'
<1>1. /\ At("drop_front")
      /\ UNCHANGED <<hoKind, hoBins, hoConfig, hoWg, hoRules, hoForward, hoWall, hoTransport,
                     hoListener>>
  BY DEF DropFront, hoMachine, hoWgVars
<1>2. /\ hoCaddy \in [up : BOOLEAN, site : Nat, loaded : Nat]
      /\ hoKind # "systemd" => hoCaddy.site = 0
  BY DEF HoIInv, HoTypeOK, Machine, Elsewhere
<1>3. ASSUME hoCaddy' \in [up : BOOLEAN, site : Nat, loaded : Nat],
             hoKind # "systemd" => hoCaddy'.site = 0
      PROVE  HoTypeOK' /\ Machine'
  <2>1. WgTypes' /\ WgSound'
    BY <1>1, WgUntouched DEF HoIInv
  <2> QED BY <1>1, <1>3, <2>1, MachineKept DEF HoIInv, HoTypeOK, Machine, Elsewhere
<1>4. ASSUME hoCaddy' \in [up : BOOLEAN, site : Nat, loaded : Nat], hoCaddy'.site = 0, Advance(TRUE)
      PROVE  HoIInv'
  <2>1. Ahead = "drop_front" /\ UninstallUnderWay
    BY <1>1, Whose DEF HoIInv
  <2>2. Ahead' = "drop_config"
    BY <1>1, <1>4, DropMoves DEF HoIInv, NextDrop
  <2>3. ASSUME hoJob.well PROVE UninstallDone'
    <3>1. hoTransport.unit = 0 /\ hoListener.unit = FALSE /\ WgBare
      BY <2>1, <2>3 DEF HoIInv, Progress, Done, UninstallDone, UninstallUnderWay
    <3>2. WgBare'
      BY <1>1, <3>1 DEF WgBare, Configured
    <3> QED BY <1>1, <1>4, <2>2, <3>1, <3>2 DEF UninstallDone
  <2>4. OnCourse'
    BY <1>1, <1>4, <2>3, DropMoves DEF HoIInv, NextDrop
  <2> QED BY <1>3, <1>4, <2>4 DEF HoIInv, OnCourse
<1>5. CASE hoCaddy.site = 0 /\ hoCaddy' = hoCaddy /\ Advance(TRUE)
  BY <1>2, <1>4, <1>5
<1>6. CASE LoadFront(0) /\ Advance(TRUE)
  <2>1. hoCaddy' = [up |-> TRUE, site |-> 0, loaded |-> 0]
    BY <1>6 DEF LoadFront
  <2> QED BY <1>4, <1>6, <2>1
<1>7. CASE hoCaddy' = [hoCaddy EXCEPT !.site = 0] /\ Advance(TRUE)
  BY <1>2, <1>4, <1>7
<1>8. CASE hoCaddy' = hoCaddy /\ GivesUp
  <2>1. OnCourse'
    BY <1>1, <1>8, Unwell DEF HoIInv
  <2> QED BY <1>2, <1>3, <1>8, <2>1 DEF HoIInv, OnCourse
<1> QED BY <1>5, <1>6, <1>7, <1>8 DEF DropFront, Passed, PassedBut

(* ... and the configuration.                                            *)
LEMMA DropConfigKeeps ==
    ASSUME HoIInv, DropConfig PROVE HoIInv'
<1>1. /\ At("drop_config")
      /\ UNCHANGED <<hoKind, hoBins, hoWg, hoRules, hoForward, hoWall, hoTransport, hoListener,
                     hoCaddy>>
  BY DEF DropConfig, hoWgVars, hoServices
<1>2. /\ ~HoIdle /\ Ahead = "drop_config" /\ JobRecord /\ hoPromise.says = "nothing"
      /\ UninstallUnderWay
  BY <1>1, Whose DEF HoIInv
<1>3. hoJob.op = "uninstall" /\ hoJob.by = "uninstall"
  BY <1>2 DEF UninstallUnderWay
<1>4. HoTypeOK /\ Machine
  BY DEF HoIInv
<1>5. WgTypes' /\ WgSound'
  BY <1>1, <1>4, WgUntouched
<1>6. CASE hoConfig' = [NoConfig EXCEPT !.gen = hoConfig.gen] /\ Advance(TRUE)
  <2>1. hoConfig.gen \in Nat
    BY <1>4 DEF HoTypeOK, Configs
  <2>2. hoConfig' \in Configs /\ ~Configured(hoConfig)' /\ hoConfig'.domain = FALSE
    BY <1>6, <2>1 DEF NoConfig, Configs, Names, PortNames, Configured
  <2>3. HoTypeOK'
    BY <1>1, <1>4, <2>2 DEF HoTypeOK
  <2>4. Machine'
    BY <1>1, <1>4, <1>5, <2>2 DEF Machine, Elsewhere, Numbered
  <2>5. EndJob(hoJob.well) /\ hoJob.well \in BOOLEAN
    <3>1. EndJob(hoJob.well /\ TRUE)
      BY <1>1, <1>2, <1>6, UninstallOnward DEF Goes
    <3> QED BY <1>2, <3>1 DEF JobRecord
  <2>6. ASSUME hoJob.well PROVE Bare'
    <3>1. hoTransport.unit = 0 /\ hoListener.unit = FALSE /\ WgBare /\ hoCaddy.site = 0
      BY <1>2, <1>3, <2>6 DEF HoIInv, Progress, Done, UninstallDone
    <3>2. WgBare'
      BY <1>1, <3>1 DEF WgBare, Configured
    <3> QED BY <1>1, <2>2, <3>1, <3>2 DEF Bare
  <2>7. OnCourse'
    BY <1>3, <2>5, <2>6, Finished
  <2> QED BY <2>3, <2>4, <2>7 DEF HoIInv, OnCourse
<1>7. CASE hoConfig' = hoConfig /\ GivesUp
  <2>1. OnCourse'
    BY <1>1, <1>7, Unwell DEF HoIInv
  <2>2. HoTypeOK' /\ Machine'
    BY <1>1, <1>4, <1>5, <1>7, MachineKept DEF HoTypeOK, Machine, Elsewhere
  <2> QED BY <2>1, <2>2 DEF HoIInv, OnCourse
<1> QED BY <1>6, <1>7 DEF DropConfig, Passed

-----------------------------------------------------------------------------
(* How the commands begin, ...                                           *)

(* Nothing of the machine changes, ...                                   *)
LEMMA MachineStays ==
    ASSUME HoTypeOK, Machine,
           UNCHANGED <<hoKind, hoBins, hoConfig, hoWg, hoRules, hoForward, hoWall, hoTransport,
                       hoListener, hoCaddy>>
    PROVE  HoTypeOK' /\ Machine'
<1>1. WgTypes' /\ WgSound'
  BY WgUntouched
<1> QED BY <1>1, MachineKept DEF HoTypeOK, Machine, Elsewhere

(* ... nor of what was said, ...                                         *)
LEMMA SaidStays ==
    ASSUME Said, UNCHANGED <<hoKind, hoBins, hoConfig, hoWg, hoRules, hoForward, hoWall, hoTransport,
                             hoListener, hoCaddy, hoPromise, hoMissed>>
    PROVE  Said'
<1>1. ASSUME hoPromise.says = "serves" PROVE Serves(hoPromise.by)'
  <2>1. Serves(hoPromise.by)
    BY <1>1 DEF Said
  <2> QED BY <2>1 DEF Serves, WgReady, WgActive, NatThere, WstunnelReady, PortLost, Taken, ListenerReady,
                      FrontReady, Configured
<1>2. hoPromise.says = "bare" => Bare'
  BY DEF Said, Bare, WgBare, Configured
<1>3. hoPromise.says = "healed" => HoHealed'
  BY DEF Said, HoHealed, Held, Taken, WgActive
<1> QED BY <1>1, <1>2, <1>3 DEF Said

(* ... nor of the command.                                               *)
LEMMA CourseStays ==
    ASSUME OnCourse, UNCHANGED <<hoKind, hoBins, hoConfig, hoWg, hoRules, hoForward, hoWall,
                                hoTransport, hoListener, hoCaddy, hoJob, hoPromise, hoMissed>>
    PROVE  OnCourse'
<1>1. Said'
  BY SaidStays DEF OnCourse
<1>2. JobShape'
  BY DEF OnCourse, JobShape, JobRecord, HoIdle, NoJob, UnderWay, SetupUnderWay, RestartUnderWay,
         StartUnderWay, UninstallUnderWay, UpdateUnderWay
<1>3. Ahead' = Ahead
  BY DEF Ahead
<1>4. Planned'
  BY <1>3 DEF OnCourse, Planned, Configured
<1>5. (\A by : WgReady(by) => WgReady(by)') /\ (\A by : WstunnelReady(by) => WstunnelReady(by)')
  BY ReadyKept, TransportKept
<1>6. Progress'
  <2>1. ASSUME hoJob.well, hoJob.op = "setup" PROVE SetupDone'
    BY <1>3, <1>5, <2>1 DEF OnCourse, Progress, Done, SetupDone, ListenerReady
  <2>2. ASSUME hoJob.well, hoJob.op = "restart" PROVE RestartDone'
    BY <1>3, <1>5, <2>2 DEF OnCourse, Progress, Done, RestartDone
  <2>3. ASSUME hoJob.well, hoJob.op = "start" PROVE StartDone'
    BY <1>3, <1>5, <2>3 DEF OnCourse, Progress, Done, StartDone
  <2>4. ASSUME hoJob.well, hoJob.op = "uninstall" PROVE UninstallDone'
    BY <1>3, <2>4 DEF OnCourse, Progress, Done, UninstallDone, WgBare, Configured
  <2>5. ASSUME hoJob.well, hoJob.op = "update" PROVE UpdateDone'
    <3>1. UpdateDone
      BY <2>5 DEF OnCourse, Progress, Done
    <3>2. WgReady(hoJob.by) => WgReady(hoJob.by)'
      BY DEF WgReady, WgActive, NatThere
    <3>3. WstunnelReady(hoJob.by) => WstunnelReady(hoJob.by)'
      BY DEF WstunnelReady, PortLost, Taken
    <3> QED BY <1>3, <3>1, <3>2, <3>3 DEF UpdateDone, ListenerReady
  <2> QED BY <2>1, <2>2, <2>3, <2>4, <2>5 DEF Progress, Done
<1> QED BY <1>1, <1>2, <1>4, <1>6 DEF OnCourse

(* A command that begins promises nothing yet.                           *)
LEMMA Begins ==
    ASSUME HoIInv, NEW op, NEW by, NEW steps, NEW owed \in BOOLEAN, BeginJob(op, by, steps, owed),
           UnderWay', Planned', owed => Done'
    PROVE  HoIInv'
<1>1. /\ hoJob' = [op |-> op, by |-> by, left |-> steps, well |-> owed]
      /\ hoPromise' = Nothing
      /\ UNCHANGED <<hoKind, hoBins, hoConfig, hoWg, hoRules, hoForward, hoWall, hoTransport,
                     hoListener, hoCaddy>>
  BY DEF BeginJob, hoMachine, hoWgVars, hoServices
<1>2. HoTypeOK' /\ Machine'
  BY <1>1, MachineStays DEF HoIInv
<1>3. JobRecord' /\ hoJob'.well = owed
  BY <1>1 DEF JobRecord
<1>4. hoPromise'.says = "nothing"
  BY <1>1 DEF Nothing
<1>5. ~HoIdle'
  BY DEF UnderWay, SetupUnderWay, RestartUnderWay, StartUnderWay, UninstallUnderWay, UpdateUnderWay,
         HoIdle
<1>6. OnCourse'
  BY <1>3, <1>4, <1>5 DEF OnCourse, JobShape, Said, Progress
<1> QED BY <1>2, <1>6 DEF HoIInv, OnCourse

(* The seven commands.                                                   *)
LEMMA CommandKeeps ==
    ASSUME HoIInv, HoCommand PROVE HoIInv'
<1>1. hoKind \in Kinds
  BY DEF HoIInv, HoTypeOK
<1>2. ASSUME NEW op, NEW by, NEW steps, NEW owed, BeginJob(op, by, steps, owed)
      PROVE  /\ hoJob'.op = op /\ hoJob'.by = by /\ hoJob'.left = steps /\ hoJob'.well = owed
             /\ UNCHANGED <<hoKind, hoConfig, hoWg, hoRules, hoForward, hoTransport, hoListener,
                            hoCaddy>>
  BY <1>2 DEF BeginJob, hoMachine, hoWgVars, hoServices
<1>3. CASE Setup
  <2>1. BeginJob("setup", "setup", SetupSteps, TRUE) /\ hoKind # "container"
    BY <1>3 DEF Setup
  <2>2. hoJob'.op = "setup" /\ hoJob'.by = "setup" /\ hoJob'.left = SetupSteps /\ hoKind' = hoKind
    BY <1>2, <2>1
  <2>3. SetupUnderWay'
    <3>1. CASE hoKind = "systemd"
      BY <2>2, <3>1 DEF SetupUnderWay, SetupSteps
    <3>2. CASE hoKind = "windows"
      BY <2>2, <3>2 DEF SetupUnderWay, SetupSteps
    <3> QED BY <1>1, <2>1, <3>1, <3>2 DEF Kinds
  <2>4. Ahead' = "save"
    <3>1. CASE hoKind = "systemd"
      BY <2>2, <3>1 DEF Ahead, SetupSteps
    <3>2. CASE hoKind # "systemd"
      BY <2>2, <3>2 DEF Ahead, SetupSteps
    <3> QED BY <3>1, <3>2
  <2>5. Planned' /\ Done'
    BY <2>2, <2>4 DEF Planned, Done, SetupDone
  <2> QED BY <2>1, <2>3, <2>5, Begins DEF UnderWay
<1>4. CASE InitContainer
  <2>1. BeginJob("setup", "setup", <<"save">>, FALSE) /\ hoKind = "container"
    BY <1>4 DEF InitContainer
  <2>2. /\ hoJob'.op = "setup" /\ hoJob'.by = "setup" /\ hoJob'.left = <<"save">>
        /\ hoJob'.well = FALSE /\ hoKind' = hoKind
    BY <1>2, <2>1
  <2>3. SetupUnderWay'
    BY <2>1, <2>2 DEF SetupUnderWay
  <2>4. Ahead' = "save"
    BY <2>2 DEF Ahead
  <2>5. Planned'
    BY <2>2, <2>4 DEF Planned
  <2> QED BY <2>1, <2>3, <2>5, Begins DEF UnderWay
<1>5. CASE Restart
  <2> DEFINE steps == IF hoKind = "windows" THEN <<"wireguard">>
                      ELSE <<"wireguard", "wstunnel", "enroll">>
  <2>1. BeginJob("restart", "restart", steps, TRUE) /\ Configured(hoConfig)
    BY <1>5 DEF Restart
  <2>2. steps[1] = "wireguard"
    OBVIOUS
  <2>3. /\ hoJob'.op = "restart" /\ hoJob'.by = "restart" /\ hoJob'.left = steps
        /\ hoKind' = hoKind /\ hoConfig' = hoConfig
    BY <1>2, <2>1
  <2>4. RestartUnderWay'
    BY <2>3 DEF RestartUnderWay
  <2> HIDE DEF steps
  <2>5. Ahead' = "wireguard"
    BY <2>2, <2>3 DEF Ahead
  <2>6. Planned' /\ Done'
    BY <2>1, <2>3, <2>5 DEF Planned, Done, RestartDone, Configured
  <2> QED BY <2>1, <2>4, <2>6, Begins DEF UnderWay
<1>6. CASE StartServer
  <2> DEFINE steps == <<"wireguard", "spawn">>
  <2>1. BeginJob("start", "start", steps, TRUE) /\ Configured(hoConfig) /\ hoKind # "systemd"
    BY <1>6 DEF StartServer
  <2>2. steps[1] = "wireguard"
    OBVIOUS
  <2>3. (hoJob'.left = steps) => (hoJob'.left = <<"wireguard", "spawn">>)
    OBVIOUS
  <2> HIDE DEF steps
  <2>4. /\ hoJob'.op = "start" /\ hoJob'.by = "start" /\ hoJob'.left = steps
        /\ hoKind' = hoKind /\ hoConfig' = hoConfig
    BY <1>2, <2>1
  <2>5. StartUnderWay' /\ Ahead' = "wireguard"
    BY <2>1, <2>2, <2>3, <2>4 DEF StartUnderWay, Ahead
  <2>6. Planned' /\ Done'
    BY <2>1, <2>4, <2>5 DEF Planned, Done, StartDone, Configured
  <2> QED BY <2>1, <2>5, <2>6, Begins DEF UnderWay
<1>7. CASE UninstallServer
  <2> DEFINE steps == <<"drop_wstunnel", "drop_enroll", "drop_wireguard", "drop_front", "drop_config">>
  <2>1. BeginJob("uninstall", "uninstall", steps, TRUE)
    BY <1>7 DEF UninstallServer
  <2>2. steps[1] = "drop_wstunnel"
    OBVIOUS
  <2>3. (hoJob'.left = steps) =>
        (hoJob'.left = <<"drop_wstunnel", "drop_enroll", "drop_wireguard", "drop_front",
           "drop_config">>)
    OBVIOUS
  <2> HIDE DEF steps
  <2>4. hoJob'.op = "uninstall" /\ hoJob'.by = "uninstall" /\ hoJob'.left = steps
    BY <1>2, <2>1
  <2>5. UninstallUnderWay' /\ Ahead' = "drop_wstunnel"
    BY <2>2, <2>3, <2>4 DEF UninstallUnderWay, Ahead
  <2>6. Planned' /\ Done'
    BY <2>4, <2>5 DEF Planned, Done, UninstallDone
  <2> QED BY <2>1, <2>5, <2>6, Begins DEF UnderWay
<1>8. CASE Update
  <2>1. PICK e \in Edits :
           BeginJob("update", e,
                    IF e = "certificate" THEN <<"save", "bounce">> ELSE <<"save", "bounce", "rewire">>,
                    hoPromise.says = "serves" /\ ~PortLost)
    BY <1>8 DEF Update
  <2> DEFINE steps == IF e = "certificate" THEN <<"save", "bounce">>
                      ELSE <<"save", "bounce", "rewire">>
             owed == hoPromise.says = "serves" /\ ~PortLost
  <2>2. BeginJob("update", e, steps, owed) /\ owed \in BOOLEAN
    BY <2>1
  <2>3. hoKind = "systemd" /\ Configured(hoConfig)
    BY <1>8 DEF Update
  <2>4. /\ hoJob'.op = "update" /\ hoJob'.by = e /\ hoJob'.left = steps
        /\ UNCHANGED <<hoKind, hoConfig, hoWg, hoRules, hoForward, hoTransport, hoListener, hoCaddy>>
    BY <1>2, <2>2
  <2>5. UpdateUnderWay'
    BY <2>3, <2>4 DEF UpdateUnderWay
  <2>6. steps[1] = "save"
    OBVIOUS
  <2>7. owed => hoPromise.says = "serves" /\ ~PortLost
    OBVIOUS
  <2> HIDE DEF steps, owed
  <2>8. Ahead' = "save"
    BY <2>4, <2>6 DEF Ahead
  <2>9. ASSUME owed PROVE Done'
    <3>1. Serves(hoPromise.by)
      BY <2>7, <2>9 DEF HoIInv, Said
    <3>2. /\ hoTransport.runs # 0 /\ ListenerReady /\ hoTransport.unit = hoConfig.gen
      BY <2>3, <2>7, <2>9, <3>1 DEF Serves, WstunnelReady
    <3>3. WgReady(e)
      BY <2>3, <3>1 DEF Serves, WgReady
    <3>4. WgReady(e)'
      BY <2>3, <2>4, <3>3, ReadyKept
    <3>5. WgReady(hoJob.by)'
      BY <2>4, <3>4 DEF WgReady
    <3>6. UpdateDone'
      BY <2>4, <2>8, <3>2, <3>5 DEF UpdateDone, ListenerReady
    <3> QED BY <2>4, <3>6 DEF Done
  <2>10. Planned'
    BY <2>3, <2>4 DEF Planned, Configured
  <2> QED BY <2>2, <2>5, <2>9, <2>10, Begins DEF UnderWay
<1>9. CASE Prerequisites
  <2>1. UNCHANGED <<hoKind, hoBins, hoConfig, hoWg, hoRules, hoForward, hoWall, hoTransport,
                    hoListener, hoCaddy, hoJob, hoPromise, hoMissed>>
    BY <1>9 DEF Prerequisites, hoWgVars, hoServices
  <2> QED BY <2>1, MachineStays, CourseStays DEF HoIInv, OnCourse
<1> QED BY <1>3, <1>4, <1>5, <1>6, <1>7, <1>8, <1>9 DEF HoCommand

-----------------------------------------------------------------------------
(* ... and what may happen beside them.                                  *)

(* Whatever breaks, no promise covers it any more.                       *)
LEMMA OutsideKeeps ==
    ASSUME HoIInv, Outside, WgTypes', WgSound', hoTransport' \in Transports,
           hoListener' \in [unit : BOOLEAN, up : BOOLEAN],
           hoCaddy' \in [up : BOOLEAN, site : Nat, loaded : Nat],
           hoTransport'.unit = hoTransport.unit, hoListener'.unit = hoListener.unit,
           hoCaddy'.site = hoCaddy.site
    PROVE  HoIInv'
<1>1. HoIdle /\ UNCHANGED <<hoKind, hoBins, hoConfig, hoWall, hoJob>> /\ hoPromise' = Nothing
  BY DEF Outside, hoMachine
<1>2. hoJob' = NoJob /\ hoPromise'.says = "nothing"
  BY <1>1 DEF HoIInv, JobShape, Nothing
<1>3. OnCourse'
  BY <1>2, Quiet
<1>4. HoTypeOK' /\ Machine'
  BY <1>1, MachineKept DEF HoIInv, HoTypeOK, Machine, Elsewhere
<1> QED BY <1>3, <1>4 DEF HoIInv, OnCourse

(* The transport, the listener or Caddy stops.                           *)
LEMMA PartStops ==
    ASSUME HoIInv, TransportStops \/ ListenerStops \/ CaddyStops
    PROVE  HoIInv'
<1>1. Outside /\ UNCHANGED <<hoKind, hoWg, hoRules, hoForward>>
  BY DEF TransportStops, ListenerStops, CaddyStops, Outside, hoMachine
<1>2. WgTypes' /\ WgSound'
  BY <1>1, WgUntouched DEF HoIInv
<1>3. /\ hoTransport \in Transports /\ hoListener \in [unit : BOOLEAN, up : BOOLEAN]
      /\ hoCaddy \in [up : BOOLEAN, site : Nat, loaded : Nat]
  BY DEF HoIInv, HoTypeOK
<1>4. CASE TransportStops
  <2>1. hoTransport' = [hoTransport EXCEPT !.runs = 0] /\ hoCaddy' = hoCaddy
        /\ (hoListener' = hoListener \/ hoListener' = [hoListener EXCEPT !.up = FALSE])
    BY <1>4 DEF TransportStops
  <2>2. hoTransport' \in Transports /\ hoTransport'.unit = hoTransport.unit
    BY <1>3, <2>1 DEF Transports
  <2>3. hoListener' \in [unit : BOOLEAN, up : BOOLEAN] /\ hoListener'.unit = hoListener.unit
    BY <1>3, <2>1
  <2> QED BY <1>1, <1>2, <1>3, <2>1, <2>2, <2>3, OutsideKeeps
<1>5. CASE ListenerStops
  <2>1. UNCHANGED <<hoTransport, hoCaddy>> /\ hoListener' = [hoListener EXCEPT !.up = FALSE]
    BY <1>5 DEF ListenerStops
  <2>2. hoListener' \in [unit : BOOLEAN, up : BOOLEAN] /\ hoListener'.unit = hoListener.unit
    BY <1>3, <2>1
  <2> QED BY <1>1, <1>2, <1>3, <2>1, <2>2, OutsideKeeps
<1>6. CASE CaddyStops
  <2>1. /\ UNCHANGED <<hoTransport, hoListener>>
        /\ hoCaddy' = [hoCaddy EXCEPT !.up = FALSE, !.loaded = 0]
    BY <1>6 DEF CaddyStops
  <2>2. hoCaddy' \in [up : BOOLEAN, site : Nat, loaded : Nat] /\ hoCaddy'.site = hoCaddy.site
    BY <1>3, <2>1
  <2> QED BY <1>1, <1>2, <1>3, <2>1, <2>2, OutsideKeeps
<1> QED BY <1>4, <1>5, <1>6

(* The interface, its rules or forwarding go.                            *)
LEMMA WgBreaks ==
    ASSUME HoIInv, WireguardStops \/ LinkDeleted \/ RulesFlushed \/ ForwardingOff
    PROVE  HoIInv'
<1>1. Outside /\ UNCHANGED <<hoKind, hoTransport, hoListener, hoCaddy>>
  BY DEF WireguardStops, LinkDeleted, RulesFlushed, ForwardingOff, Outside, hoMachine, hoServices
<1>2. HoTypeOK /\ WgSound
  BY DEF HoIInv, Machine
<1>3. /\ hoWg \in Interfaces /\ hoRules \in [Subnets -> Nat]
      /\ hoForward \in [now : BOOLEAN, kept : BOOLEAN]
  BY <1>2 DEF HoTypeOK
<1>4. CASE WireguardStops
  <2>1. /\ WgActive /\ hoWg' = [hoWg EXCEPT !.link = 0, !.active = FALSE] /\ hoForward' = hoForward
        /\ hoRules' = IF hoKind = "windows" THEN hoRules ELSE Less(hoRules, hoWg.conf.subnet)
    BY <1>4 DEF WireguardStops
  <2>2. /\ hoWg' \in Interfaces /\ hoWg'.conf = hoWg.conf /\ hoWg'.link = 0
        /\ hoWg'.active = FALSE /\ hoWg'.strays = hoWg.strays
    BY <1>3, <2>1 DEF Interfaces
  <2>3. /\ hoRules' \in [Subnets -> Nat]
        /\ hoKind # "windows" => \A s \in Subnets \ hoWg.strays : hoRules'[s] = 0
    <3>1. CASE hoKind = "windows"
      BY <1>3, <2>1, <3>1
    <3>2. CASE hoKind # "windows"
      BY <1>2, <2>1, <3>2, RulesWithout
    <3> QED BY <3>1, <3>2
  <2>4. ~WgActive'
    BY <2>2 DEF WgActive
  <2>5. WgTypes'
    BY <1>3, <2>1, <2>2, <2>3 DEF WgTypes
  <2>6. RulesCounted'
    BY <1>1, <2>2, <2>3, <2>4 DEF RulesCounted
  <2>7. WgSound'
    BY <1>1, <1>2, <2>2, <2>4, <2>6 DEF WgSound, Numbered, Configured
  <2> QED BY <1>1, <1>2, <2>5, <2>7, OutsideKeeps DEF HoTypeOK
<1>5. CASE LinkDeleted
  <2>1. /\ hoKind # "windows" /\ WgActive /\ UNCHANGED <<hoRules, hoForward>>
        /\ hoWg' = [hoWg EXCEPT !.link = 0, !.gone = TRUE, !.strays = @ \cup {hoWg.conf.subnet}]
    BY <1>5 DEF LinkDeleted
  <2> DEFINE strays == hoWg.strays \cup {hoWg.conf.subnet}
  <2>2. strays \in SUBSET Names /\ hoWg' = [hoWg EXCEPT !.link = 0, !.gone = TRUE, !.strays = strays]
    BY <1>3, <2>1 DEF Interfaces, Configs
  <2>3. \A s \in Subnets \ strays : hoRules[s] <= 0
    BY <1>2, <2>1 DEF WgSound, RulesCounted
  <2> HIDE DEF strays
  <2>4. /\ hoWg' \in Interfaces /\ hoWg'.conf = hoWg.conf /\ hoWg'.link = 0 /\ hoWg'.gone = TRUE
        /\ hoWg'.active = hoWg.active /\ hoWg'.strays = strays
    BY <1>3, <2>2 DEF Interfaces
  <2>5. ~WgActive'
    BY <2>4 DEF WgActive
  <2>6. WgTypes'
    BY <1>3, <2>1, <2>4 DEF WgTypes
  <2>7. RulesCounted'
    BY <2>1, <2>3, <2>4, <2>5 DEF RulesCounted
  <2>8. WgSound'
    BY <1>1, <1>2, <2>4, <2>5, <2>7 DEF WgSound, Numbered, Configured
  <2> QED BY <1>1, <1>2, <2>6, <2>8, OutsideKeeps DEF HoTypeOK
<1>6. CASE RulesFlushed
  <2>1. UNCHANGED <<hoWg, hoForward>> /\ hoRules' = [s \in Subnets |-> 0]
    BY <1>6 DEF RulesFlushed
  <2>2. hoRules' \in [Subnets -> Nat] /\ \A s \in Subnets : hoRules'[s] = 0
    BY <2>1
  <2>3. WgTypes'
    BY <1>3, <2>1, <2>2 DEF WgTypes
  <2>4. RulesCounted'
    BY <2>2 DEF RulesCounted
  <2>5. WgSound'
    BY <1>1, <1>2, <2>1, <2>4 DEF WgSound, Numbered, Configured, WgActive
  <2> QED BY <1>1, <1>2, <2>3, <2>5, OutsideKeeps DEF HoTypeOK
<1>7. CASE ForwardingOff
  <2>1. UNCHANGED <<hoWg, hoRules>> /\ hoForward' = [hoForward EXCEPT !.now = FALSE]
    BY <1>7 DEF ForwardingOff
  <2>2. WgTypes'
    BY <1>3, <2>1 DEF WgTypes
  <2>3. WgSound'
    BY <1>1, <1>2, <2>1 DEF WgSound, Numbered, Configured, WgActive, RulesCounted
  <2> QED BY <1>1, <1>2, <2>2, <2>3, OutsideKeeps DEF HoTypeOK
<1> QED BY <1>4, <1>5, <1>6, <1>7

(* A command that is killed leaves what it has done.                     *)
LEMMA KilledKeeps ==
    ASSUME HoIInv, Killed PROVE HoIInv'
<1>1. /\ ~HoIdle /\ hoJob' = NoJob
      /\ UNCHANGED <<hoKind, hoBins, hoConfig, hoWg, hoRules, hoForward, hoWall, hoTransport,
                     hoListener, hoCaddy, hoPromise>>
  BY DEF Killed, hoMachine, hoWgVars, hoServices
<1>2. hoPromise'.says = "nothing"
  BY <1>1 DEF HoIInv, JobShape
<1>3. OnCourse'
  BY <1>1, <1>2, Quiet
<1>4. HoTypeOK' /\ Machine'
  BY <1>1, MachineStays DEF HoIInv
<1> QED BY <1>3, <1>4 DEF HoIInv, OnCourse

(* A reboot without systemd, ...                                         *)
LEMMA RebootOtherKeeps ==
    ASSUME HoIInv, RebootOther PROVE HoIInv'
<1>1. /\ hoKind # "systemd" /\ HoIdle /\ hoPromise' = Nothing
      /\ UNCHANGED <<hoKind, hoBins, hoConfig, hoForward, hoWall, hoCaddy, hoJob>>
      /\ hoTransport' = [hoTransport EXCEPT !.runs = 0]
      /\ hoListener' = [hoListener EXCEPT !.up = FALSE]
  BY DEF RebootOther
<1>2. HoTypeOK /\ Machine /\ WgSound
  BY DEF HoIInv, Machine
<1>3. hoTransport' \in Transports /\ hoTransport'.unit = hoTransport.unit
  BY <1>1, <1>2 DEF HoTypeOK, Transports
<1>4. hoListener' \in [unit : BOOLEAN, up : BOOLEAN] /\ hoListener'.unit = hoListener.unit
  BY <1>1, <1>2 DEF HoTypeOK
<1>5. WgTypes' /\ WgSound'
  <2>1. CASE UNCHANGED <<hoWg, hoRules>>
    BY <1>1, <1>2, <2>1, WgUntouched
  <2>2. CASE /\ hoKind = "container" /\ hoRules' = [s \in Subnets |-> 0]
             /\ hoWg' = [Rebooted EXCEPT !.conf = NoConfig, !.link = 0]
    <3>1. hoWg \in Interfaces /\ NoConfig \in Configs /\ ~Configured(NoConfig)
      BY <1>2 DEF HoTypeOK, NoConfig, Configs, Names, PortNames, Configured
    <3>2. /\ hoWg' \in Interfaces /\ hoWg'.conf = NoConfig /\ hoWg'.link = 0
          /\ hoWg'.active = hoWg.active
      BY <2>2, <3>1 DEF Rebooted, Interfaces
    <3>3. hoRules' \in [Subnets -> Nat] /\ \A s \in Subnets : hoRules'[s] = 0
      BY <2>2
    <3>4. WgTypes'
      BY <1>1, <1>2, <3>2, <3>3 DEF WgTypes, HoTypeOK
    <3>5. RulesCounted' /\ ~WgActive'
      BY <3>2, <3>3 DEF RulesCounted, WgActive
    <3>6. hoWg.active = FALSE
      BY <1>1, <1>2 DEF WgSound
    <3>7. WgSound'
      BY <1>1, <3>1, <3>2, <3>5, <3>6 DEF WgSound, Numbered
    <3> QED BY <3>4, <3>7
  <2> QED BY <2>1, <2>2 DEF RebootOther
<1>6. HoTypeOK' /\ Machine'
  BY <1>1, <1>2, <1>3, <1>4, <1>5, MachineKept DEF HoTypeOK, Machine, Elsewhere
<1>7. hoJob' = NoJob /\ hoPromise'.says = "nothing"
  BY <1>1 DEF HoIInv, JobShape, Nothing
<1>8. OnCourse'
  BY <1>7, Quiet
<1> QED BY <1>6, <1>8 DEF HoIInv, OnCourse

(* ... and with it: the interface comes up if its unit is enabled, with  *)
(* its rule and no other.                                                *)
LEMMA RebootedIs ==
    ASSUME HoTypeOK, Machine, RebootSystemd
    PROVE  /\ WgTypes' /\ WgSound'
           /\ hoWg'.conf = hoWg.conf /\ hoWg'.enabled = hoWg.enabled
           /\ hoForward'.kept = hoForward.kept
           /\ Configured(hoWg.conf) /\ hoWg.enabled =>
                 hoWg'.link = hoWg.conf.gen /\ hoRules'[hoWg.conf.subnet] = 1 /\ hoForward'.now
           /\ ~(Configured(hoWg.conf) /\ hoWg.enabled) =>
                 hoWg'.link = 0 /\ \A s \in Subnets : hoRules'[s] = 0
<1>1. hoKind = "systemd" /\ hoKind' = hoKind
  BY DEF RebootSystemd, hoMachine
<1>2. hoWg \in Interfaces /\ hoForward \in [now : BOOLEAN, kept : BOOLEAN]
  BY DEF HoTypeOK
<1>3. /\ Rebooted \in Interfaces /\ Rebooted.conf = hoWg.conf
      /\ Rebooted.enabled = hoWg.enabled /\ Rebooted.strays = {}
  BY <1>2 DEF Rebooted, Interfaces
<1>4. CASE Configured(hoWg.conf) /\ hoWg.enabled
  <2>1. /\ hoWg' = [Rebooted EXCEPT !.link = hoWg.conf.gen, !.active = TRUE]
        /\ hoRules' = [s \in Subnets |-> IF s = hoWg.conf.subnet THEN 1 ELSE 0]
        /\ hoForward' = [hoForward EXCEPT !.now = TRUE]
    BY <1>4 DEF RebootSystemd
  <2>2. hoWg.conf.gen \in Nat /\ hoWg.conf.gen # 0 /\ hoWg.conf.subnet \in Subnets
    BY <1>2, <1>4 DEF Machine, WgSound, Numbered, Interfaces, Configs, Configured, Names
  <2>3. /\ hoWg' \in Interfaces /\ hoWg'.conf = hoWg.conf /\ hoWg'.link = hoWg.conf.gen
        /\ hoWg'.active = TRUE /\ hoWg'.enabled = hoWg.enabled /\ hoWg'.strays = {}
    BY <1>3, <2>1, <2>2 DEF Interfaces
  <2>4. /\ hoRules' \in [Subnets -> Nat]
        /\ \A s \in Subnets : hoRules'[s] = IF s = hoWg.conf.subnet THEN 1 ELSE 0
    BY <2>1
  <2>5. /\ hoForward' \in [now : BOOLEAN, kept : BOOLEAN] /\ hoForward'.now
        /\ hoForward'.kept = hoForward.kept
    BY <1>2, <2>1
  <2>6. WgTypes'
    BY <2>3, <2>4, <2>5 DEF WgTypes
  <2>7. WgActive'
    BY <2>2, <2>3 DEF WgActive
  <2>8. RulesCounted'
    BY <2>3, <2>4, <2>7 DEF RulesCounted
  <2>9. WgSound'
    BY <1>1, <1>4, <2>2, <2>3, <2>7, <2>8 DEF WgSound, Numbered, Configured
  <2> QED BY <1>4, <2>2, <2>3, <2>4, <2>5, <2>6, <2>9
<1>5. CASE ~(Configured(hoWg.conf) /\ hoWg.enabled)
  <2>1. /\ hoWg' = [Rebooted EXCEPT !.link = 0, !.active = FALSE]
        /\ hoRules' = [s \in Subnets |-> 0]
        /\ hoForward' = [hoForward EXCEPT !.now = hoForward.kept]
    BY <1>5 DEF RebootSystemd
  <2>2. /\ hoWg' \in Interfaces /\ hoWg'.conf = hoWg.conf /\ hoWg'.link = 0
        /\ hoWg'.active = FALSE /\ hoWg'.enabled = hoWg.enabled
    BY <1>3, <2>1 DEF Interfaces
  <2>3. hoRules' \in [Subnets -> Nat] /\ \A s \in Subnets : hoRules'[s] = 0
    BY <2>1
  <2>4. hoForward' \in [now : BOOLEAN, kept : BOOLEAN] /\ hoForward'.kept = hoForward.kept
    BY <1>2, <2>1
  <2>5. WgTypes'
    BY <2>2, <2>3, <2>4 DEF WgTypes
  <2>6. RulesCounted' /\ ~WgActive'
    BY <2>2, <2>3 DEF RulesCounted, WgActive
  <2>7. WgSound'
    BY <1>1, <2>2, <2>6 DEF Machine, WgSound, Numbered, Configured
  <2> QED BY <1>5, <2>2, <2>3, <2>4, <2>5, <2>7
<1> QED BY <1>4, <1>5

(* Of wstunnel and Caddy whoever starts first has the port, if both are    *)
(* told to listen on it.                                                 *)
LEMMA RebootStarts ==
    ASSUME HoTypeOK, RebootSystemd
    PROVE  /\ hoTransport' \in Transports /\ hoTransport'.unit = hoTransport.unit
           /\ hoTransport'.names = hoTransport.names
           /\ \/ hoTransport'.runs = hoTransport.unit /\ hoTransport'.holds = hoTransport.names
              \/ hoTransport'.runs = 0 /\ hoTransport.names = Https /\ Taken'
           /\ hoCaddy' \in [up : BOOLEAN, site : Nat, loaded : Nat] /\ hoCaddy'.site = hoCaddy.site
           /\ hoCaddy'.up => hoCaddy.up
           /\ hoCaddy'.loaded \in {0, hoCaddy.site} /\ (hoCaddy'.loaded # 0 => hoCaddy.up)
           /\ hoTransport.names # Https =>
                 hoCaddy'.up = hoCaddy.up /\ (hoCaddy.up => hoCaddy'.loaded = hoCaddy.site)
<1>1. hoTransport \in Transports /\ hoCaddy \in [up : BOOLEAN, site : Nat, loaded : Nat]
  BY DEF HoTypeOK
<1>2. CASE /\ hoCaddy' = [hoCaddy EXCEPT !.loaded = IF hoCaddy.up THEN hoCaddy.site ELSE 0]
           /\ hoTransport' = Started(hoTransport, hoCaddy'.loaded # 0)
  <2>1. /\ hoCaddy' \in [up : BOOLEAN, site : Nat, loaded : Nat] /\ hoCaddy'.site = hoCaddy.site
        /\ hoCaddy'.up = hoCaddy.up /\ hoCaddy'.loaded = IF hoCaddy.up THEN hoCaddy.site ELSE 0
    BY <1>1, <1>2
  <2>2. PICK taken \in BOOLEAN : taken = (hoCaddy'.loaded # 0)
    OBVIOUS
  <2>3. hoTransport' = Started(hoTransport, taken) /\ (taken <=> Taken')
    BY <1>2, <2>2 DEF Taken
  <2> QED BY <1>1, <2>1, <2>3, StartedIs
<1>3. CASE /\ hoTransport.names = Https
           /\ hoTransport' = Started(hoTransport, FALSE)
           /\ hoCaddy' = [hoCaddy EXCEPT !.up = FALSE, !.loaded = 0]
  <2>1. /\ hoCaddy' \in [up : BOOLEAN, site : Nat, loaded : Nat] /\ hoCaddy'.site = hoCaddy.site
        /\ hoCaddy'.up = FALSE /\ hoCaddy'.loaded = 0
    BY <1>1, <1>3
  <2> QED BY <1>1, <1>3, <2>1, StartedIs
<1> QED BY <1>2, <1>3 DEF RebootSystemd

(* What was promised is so after the reboot as well.                     *)
LEMMA RebootSystemdKeeps ==
    ASSUME HoIInv, Listening, RebootSystemd PROVE HoIInv'
<1>1. /\ hoKind = "systemd" /\ hoJob' = NoJob
      /\ UNCHANGED <<hoKind, hoBins, hoConfig, hoWall, hoMissed>>
      /\ hoListener' = [hoListener EXCEPT !.up = hoListener.unit]
      /\ hoPromise' = IF hoPromise.says = "healed" \/ (hoWg.loose /\ ~hoWg.enabled)
                          THEN Nothing ELSE hoPromise
  BY DEF RebootSystemd, hoMachine, Fault
<1>2. HoTypeOK /\ Machine
  BY DEF HoIInv
<1>3. /\ WgTypes' /\ WgSound'
      /\ hoWg'.conf = hoWg.conf /\ hoWg'.enabled = hoWg.enabled
      /\ hoForward'.kept = hoForward.kept
      /\ Configured(hoWg.conf) /\ hoWg.enabled =>
            hoWg'.link = hoWg.conf.gen /\ hoRules'[hoWg.conf.subnet] = 1 /\ hoForward'.now
      /\ ~(Configured(hoWg.conf) /\ hoWg.enabled) =>
            hoWg'.link = 0 /\ \A s \in Subnets : hoRules'[s] = 0
  BY <1>2, RebootedIs
<1>4. /\ hoTransport' \in Transports /\ hoTransport'.unit = hoTransport.unit
      /\ hoTransport'.runs = hoTransport.unit \/ (hoTransport.names = Https /\ Taken')
  BY <1>2, RebootStarts
<1>5. /\ hoListener' \in [unit : BOOLEAN, up : BOOLEAN] /\ hoListener'.unit = hoListener.unit
      /\ hoListener'.up = hoListener.unit
  BY <1>1, <1>2 DEF HoTypeOK
<1>6. /\ hoCaddy' \in [up : BOOLEAN, site : Nat, loaded : Nat] /\ hoCaddy'.site = hoCaddy.site
      /\ hoTransport.names # Https =>
            hoCaddy'.up = hoCaddy.up /\ (hoCaddy.up => hoCaddy'.loaded = hoCaddy.site)
  BY <1>2, RebootStarts
<1>7. HoTypeOK' /\ Machine'
  BY <1>1, <1>2, <1>3, <1>4, <1>5, <1>6, MachineKept DEF HoTypeOK
<1>8. CASE hoPromise'.says = "nothing"
  <2>1. OnCourse'
    BY <1>1, <1>8, Quiet
  <2> QED BY <1>7, <2>1 DEF HoIInv, OnCourse
<1>9. CASE hoPromise'.says # "nothing"
  <2>1. hoPromise' = hoPromise /\ hoPromise.says # "healed" /\ (hoWg.loose => hoWg.enabled)
    BY <1>1, <1>9 DEF Nothing
  <2>2. ASSUME hoPromise.says = "serves" PROVE Serves(hoPromise.by)'
    <3>1. PICK by : by = hoPromise.by
      OBVIOUS
    <3>2. Serves(by)
      BY <2>2, <3>1 DEF HoIInv, Said
    <3>3. /\ hoWg.conf.gen = hoConfig.gen /\ hoWg.conf.subnet = hoConfig.subnet
          /\ hoWg.enabled /\ Configured(hoConfig) /\ Configured(hoWg.conf)
      BY <1>1, <2>1, <3>2 DEF Serves, WgReady, Configured
    <3>4. hoConfig.subnet \in Subnets
      BY <1>2, <3>3 DEF HoTypeOK, Configs, Configured, Names
    <3>5. hoTransport.unit = hoConfig.gen /\ hoTransport.names = WsPort(hoConfig)
      BY <1>1, <3>2, <3>3 DEF Serves, WstunnelReady, Listening
    <3>6. hoRules'[hoConfig.subnet] > 0
      BY <1>3, <3>3
    <3>7. WgReady(by)'
      BY <1>1, <1>3, <3>3, <3>6 DEF WgReady
    <3>8. WstunnelReady(by)' /\ ListenerReady'
      <4>1. hoConfig.gen # 0
        BY <1>2, <3>3 DEF Machine, Numbered
      <4>2. hoListener.unit
        BY <1>1, <3>2 DEF Serves, ListenerReady
      <4>3. CASE hoTransport'.runs = hoTransport.unit
        BY <1>1, <1>4, <1>5, <3>5, <4>1, <4>2, <4>3 DEF WstunnelReady, ListenerReady
      <4>4. CASE hoTransport.names = Https /\ Taken'
        <5>1. PortLost'
          BY <1>1, <3>3, <3>5, <4>4, OwnPort DEF PortLost
        <5> QED BY <1>1, <1>4, <1>5, <3>5, <4>2, <5>1 DEF WstunnelReady, ListenerReady
      <4> QED BY <1>4, <4>3, <4>4
    <3>9. /\ by # "start"
          /\ by = "setup" => (hoWall' # "shut" \/ "port" \in hoMissed') /\ FrontReady'
      <4>1. hoConfig.domain => hoTransport.names # Https
        BY <3>3, <3>5, OwnPort
      <4>2. FrontReady => FrontReady'
        BY <1>1, <1>6, <4>1 DEF FrontReady
      <4> QED BY <1>1, <3>2, <4>2 DEF Serves
    <3>10. Serves(by)'
      BY <1>1, <3>3, <3>7, <3>8, <3>9 DEF Serves, Configured
    <3> QED BY <2>1, <3>1, <3>10 DEF Serves, WgReady, WstunnelReady
  <2>3. ASSUME hoPromise.says = "bare" PROVE Bare'
    <3>1. Bare
      BY <2>3 DEF HoIInv, Said
    <3>2. ~Configured(hoWg.conf)
      BY <3>1 DEF Bare, WgBare
    <3>3. WgBare'
      BY <1>1, <1>3, <3>1, <3>2 DEF Bare, WgBare, WgActive, Configured
    <3> QED BY <1>1, <1>4, <1>5, <1>6, <3>1, <3>3 DEF Bare, Configured
  <2>4. Said'
    <3>1. hoPromise.says = "serves" => hoPromise.by \in Speakers
      BY DEF HoIInv, Said
    <3> QED BY <2>1, <2>2, <2>3, <3>1 DEF Said
  <2>5. hoJob'.op = "none"
    BY <1>1 DEF NoJob
  <2>6. JobShape' /\ Planned' /\ Progress'
    BY <1>1, <2>5 DEF JobShape, JobRecord, NoJob, HoIdle, Planned, Progress, Done
  <2> QED BY <1>7, <2>4, <2>6 DEF HoIInv
<1> QED BY <1>8, <1>9

(* Every step of the machine keeps the invariant.                        *)
LEMMA HostKeeps ==
    ASSUME HoIInv, Listening, HoNext PROVE HoIInv'
<1>1. CASE HoCommand
  BY <1>1, CommandKeeps
<1>2. CASE HoSetupStep
  BY <1>2, SaveNewKeeps, ForwardingKeeps, WireguardKeeps, WallKeeps, WstunnelKeeps, EnrollKeeps,
     InstallFrontKeeps DEF HoSetupStep
<1>3. CASE HoOtherStep
  BY <1>3, SaveEditKeeps, BounceUnitKeeps, RewireUnitKeeps, SpawnTransportKeeps DEF HoOtherStep
<1>4. CASE HoDropStep
  BY <1>4, DropTransportKeeps, DropListenerKeeps, DropWireguardKeeps, DropFrontKeeps,
     DropConfigKeeps DEF HoDropStep
<1>5. CASE HoOutside
  BY <1>5, PartStops, WgBreaks, KilledKeeps, RebootSystemdKeeps, RebootOtherKeeps DEF HoOutside
<1> QED BY <1>1, <1>2, <1>3, <1>4, <1>5 DEF HoNext

-----------------------------------------------------------------------------
(* Where wstunnel listens.                                               *)

(* The unit, and what runs, are gone, as before, or of the configuration *)
(* of now.                                                               *)
LEMMA ListenKept ==
    ASSUME HoTypeOK, Machine, Listening, hoConfig' = hoConfig,
           \/ hoTransport'.unit = 0
           \/ hoTransport'.unit = hoTransport.unit /\ hoTransport'.names = hoTransport.names
           \/ hoTransport'.unit = hoConfig.gen /\ hoTransport'.names = WsPort(hoConfig),
           \/ hoTransport'.runs = 0
           \/ hoTransport'.runs = hoTransport.runs /\ hoTransport'.holds = hoTransport.holds
           \/ hoTransport'.runs = hoConfig.gen /\ hoTransport'.holds = WsPort(hoConfig)
           \/ hoTransport'.runs = hoTransport'.unit /\ hoTransport'.holds = hoTransport'.names
    PROVE  Listening'
<1>1. hoConfig.gen \in Nat /\ (Configured(hoConfig) => hoConfig.gen # 0)
  BY DEF HoTypeOK, Configs, Machine, Numbered
<1>2. WsPort(hoConfig)' = WsPort(hoConfig) /\ (Configured(hoConfig)' <=> Configured(hoConfig))
  BY DEF WsPort, Configured
<1>3. /\ hoTransport'.unit <= hoConfig.gen
      /\ Configured(hoConfig) /\ hoTransport'.unit = hoConfig.gen =>
            hoTransport'.names = WsPort(hoConfig)
  BY <1>1 DEF Listening
<1>4. /\ hoTransport'.runs <= hoConfig.gen
      /\ Configured(hoConfig) /\ hoTransport'.runs = hoConfig.gen =>
            hoTransport'.holds = WsPort(hoConfig)
  BY <1>1, <1>3 DEF Listening
<1> QED BY <1>2, <1>3, <1>4 DEF Listening

(* A configuration of the wizard has ports of its own, an edited one the *)
(* port that the unit names unless it is the port that was edited.       *)
LEMMA ListenAnew ==
    ASSUME HoIInv, Listening, SaveNew \/ SaveEdit PROVE Listening'
<1>1. /\ hoConfig.gen \in Nat /\ hoConfig \in Configs /\ hoTransport \in Transports
      /\ Next1 \in Nat /\ hoConfig.gen < Next1
  BY DEF HoIInv, HoTypeOK, Configs, Next1
<1>2. /\ hoTransport.unit \in Nat /\ hoTransport.runs \in Nat
      /\ hoTransport.unit <= hoConfig.gen /\ hoTransport.runs <= hoConfig.gen
  BY <1>1 DEF Listening, Transports
<1>3. CASE SaveNew
  <2>1. PICK a \in Setups :
           hoConfig' = [gen |-> Next1, domain |-> a.domain, subnet |-> a.subnet,
                        port |-> a.port, inner |-> a.inner]
    BY <1>3 DEF SaveNew
  <2>2. a.port \in Ports /\ a.inner \in InnerPorts
    BY ServerHostAssumption
  <2>3. hoTransport' = hoTransport
    BY <1>3 DEF SaveNew, hoServices
  <2>4. /\ hoConfig'.gen = Next1 /\ hoConfig'.port \in Ports /\ hoConfig'.inner \in InnerPorts
    BY <2>1, <2>2
  <2> QED BY <1>1, <1>2, <2>3, <2>4 DEF Listening
<1>4. CASE SaveEdit
  <2>1. PICK p \in Ports : /\ (p = hoConfig.port) = (hoJob.by # "port")
                           /\ hoConfig' = [hoConfig EXCEPT !.gen = Next1, !.port = p]
    BY <1>4 DEF SaveEdit
  <2>2. At("save") /\ hoJob.op = "update"
    BY <1>4 DEF SaveEdit
  <2>3. Configured(hoConfig)
    BY <2>2 DEF HoIInv, Planned
  <2>4. /\ hoConfig'.gen = Next1 /\ hoConfig'.port = p /\ hoConfig'.inner = hoConfig.inner
        /\ hoConfig'.domain = hoConfig.domain
    BY <1>1, <2>1 DEF Configs
  <2>5. hoJob.by # "port" => WsPort(hoConfig)' = WsPort(hoConfig)
    BY <2>1, <2>4 DEF WsPort
  <2> DEFINE unit == IF hoJob.by \in {"certificate", "endpoint"}
                         THEN Carried(hoTransport.unit) ELSE hoTransport.unit
             runs == IF hoJob.by = "endpoint" THEN Carried(hoTransport.runs) ELSE hoTransport.runs
  <2>6. hoTransport' = [hoTransport EXCEPT !.unit = unit, !.runs = runs]
    BY <1>4 DEF SaveEdit
  <2>7. /\ unit \in Nat /\ unit <= Next1
        /\ unit = Next1 => hoTransport.unit = hoConfig.gen /\ hoJob.by # "port"
    BY <1>1, <1>2 DEF Carried
  <2>8. /\ runs \in Nat /\ runs <= Next1
        /\ runs = Next1 => hoTransport.runs = hoConfig.gen /\ hoJob.by # "port"
    BY <1>1, <1>2 DEF Carried
  <2> HIDE DEF unit, runs
  <2>9. /\ hoTransport'.unit = unit /\ hoTransport'.names = hoTransport.names
        /\ hoTransport'.runs = runs /\ hoTransport'.holds = hoTransport.holds
    BY <1>1, <2>6 DEF Transports
  <2> QED BY <2>1, <2>3, <2>4, <2>5, <2>7, <2>8, <2>9 DEF Listening
<1> QED BY <1>3, <1>4

(* Whatever writes, starts, stops or drops wstunnel keeps to that.       *)
LEMMA ListeningKeeps ==
    ASSUME HoIInv, Listening, HoNext PROVE Listening'
<1>1. HoTypeOK /\ Machine /\ JobShape /\ hoTransport \in Transports
  BY DEF HoIInv, HoTypeOK
<1>2. /\ Written \in Transports
      /\ Written.unit = hoConfig.gen /\ Written.names = WsPort(hoConfig)
      /\ Written.runs = hoTransport.runs /\ Written.holds = hoTransport.holds
  BY <1>1, WrittenIs
<1>3. ASSUME UNCHANGED <<hoConfig, hoTransport>> PROVE Listening'
  BY <1>1, <1>3, ListenKept
<1>4. ASSUME hoConfig' = hoConfig, NEW t \in {hoTransport, Written}, NEW taken,
             hoTransport' = Started(t, taken)
      PROVE  Listening'
  <2>1. t \in Transports
    BY <1>1, <1>2
  <2>2. /\ hoTransport'.unit = t.unit /\ hoTransport'.names = t.names
        /\ \/ hoTransport'.runs = 0
           \/ hoTransport'.runs = t.unit /\ hoTransport'.holds = t.names
    BY <1>4, <2>1, StartedIs
  <2> QED BY <1>1, <1>2, <1>4, <2>2, ListenKept
<1>5. ASSUME hoConfig' = hoConfig, hoTransport' = ByOwner PROVE Listening'
  BY <1>1, <1>5, ByOwnerIs, ListenKept
<1>6. ASSUME hoConfig' = hoConfig, hoTransport' = Written PROVE Listening'
  BY <1>1, <1>2, <1>6, ListenKept
<1>7. ASSUME hoConfig' = hoConfig, hoTransport' = [hoTransport EXCEPT !.runs = 0]
      PROVE  Listening'
  <2>1. /\ hoTransport'.unit = hoTransport.unit /\ hoTransport'.names = hoTransport.names
        /\ hoTransport'.runs = 0
    BY <1>1, <1>7 DEF Transports
  <2> QED BY <1>1, <1>7, <2>1, ListenKept
<1>8. CASE HoCommand
  <2>1. UNCHANGED <<hoConfig, hoTransport>>
    BY <1>8 DEF HoCommand, Setup, InitContainer, Restart, StartServer, UninstallServer, Update,
                Prerequisites, BeginJob, hoMachine, hoServices
  <2> QED BY <1>3, <2>1
<1>9. CASE HoSetupStep
  <2>1. CASE Forwarding \/ Wireguard \/ Wall \/ Enroll \/ InstallFront
    <3>1. UNCHANGED <<hoConfig, hoTransport>>
      BY <2>1 DEF Forwarding, Wireguard, Wall, Enroll, InstallFront, hoMachine, hoServices
    <3> QED BY <1>3, <3>1
  <2>2. CASE Wstunnel
    <3>1. hoConfig' = hoConfig
      BY <2>2 DEF Wstunnel, hoMachine
    <3>2. \/ hoTransport' = Started(Written, Taken)
          \/ hoTransport' \in {hoTransport, Written, ByOwner}
      BY <2>2 DEF Wstunnel, InstallTransport
    <3> QED BY <1>3, <1>4, <1>5, <1>6, <3>1, <3>2
  <2> QED BY <1>9, <2>1, <2>2, ListenAnew DEF HoSetupStep
<1>10. CASE HoOtherStep
  <2>1. CASE BounceUnit
    <3>1. hoConfig' = hoConfig
      BY <2>1 DEF BounceUnit, hoMachine
    <3>2. \/ hoTransport' = Started(Written, Taken)
          \/ hoTransport' = Started(hoTransport, Taken)
          \/ hoTransport' = hoTransport
      BY <2>1 DEF BounceUnit
    <3> QED BY <1>3, <1>4, <3>1, <3>2
  <2>2. CASE RewireUnit
    <3>1. UNCHANGED <<hoConfig, hoTransport>>
      BY <2>2 DEF RewireUnit, hoMachine, hoServices
    <3> QED BY <1>3, <3>1
  <2>3. CASE SpawnTransport
    BY <1>5, <2>3 DEF SpawnTransport, hoMachine
  <2> QED BY <1>10, <2>1, <2>2, <2>3, ListenAnew DEF HoOtherStep
<1>11. CASE HoDropStep
  <2>1. CASE DropTransport
    <3>1. hoConfig' = hoConfig
      BY <2>1 DEF DropTransport, hoMachine
    <3>2. CASE hoTransport' = [hoTransport EXCEPT !.unit = 0, !.runs = 0]
      <4>1. hoTransport'.unit = 0 /\ hoTransport'.runs = 0
        BY <1>1, <3>2 DEF Transports
      <4> QED BY <1>1, <3>1, <4>1, ListenKept
    <3>3. CASE hoTransport' = [hoTransport EXCEPT !.unit = 0]
      <4>1. /\ hoTransport'.unit = 0 /\ hoTransport'.runs = hoTransport.runs
            /\ hoTransport'.holds = hoTransport.holds
        BY <1>1, <3>3 DEF Transports
      <4> QED BY <1>1, <3>1, <4>1, ListenKept
    <3> QED BY <1>3, <1>7, <2>1, <3>1, <3>2, <3>3 DEF DropTransport
  <2>2. CASE DropListener \/ DropWireguard \/ DropFront
    <3>1. UNCHANGED <<hoConfig, hoTransport>>
      BY <2>2 DEF DropListener, DropWireguard, DropFront, hoMachine, hoServices
    <3> QED BY <1>3, <3>1
  <2>3. CASE DropConfig
    <3>1. /\ hoTransport' = hoTransport
          /\ hoConfig' = hoConfig \/ hoConfig' = [NoConfig EXCEPT !.gen = hoConfig.gen]
      BY <2>3 DEF DropConfig, hoServices
    <3>2. CASE hoConfig' = [NoConfig EXCEPT !.gen = hoConfig.gen]
      <4>1. hoConfig'.gen = hoConfig.gen /\ ~Configured(hoConfig)'
        BY <3>2 DEF NoConfig, Configured
      <4> QED BY <3>1, <4>1 DEF Listening
    <3> QED BY <1>3, <3>1, <3>2
  <2> QED BY <1>11, <2>1, <2>2, <2>3 DEF HoDropStep
<1>12. CASE HoOutside
  <2>1. CASE TransportStops \/ RebootOther
    BY <1>7, <2>1 DEF TransportStops, RebootOther, Outside, hoMachine
  <2>2. CASE \/ ListenerStops \/ CaddyStops \/ WireguardStops \/ LinkDeleted
             \/ RulesFlushed \/ ForwardingOff \/ Killed
    <3>1. UNCHANGED <<hoConfig, hoTransport>>
      BY <2>2 DEF ListenerStops, CaddyStops, WireguardStops, LinkDeleted, RulesFlushed,
                  ForwardingOff, Killed, Outside, hoMachine, hoServices
    <3> QED BY <1>3, <3>1
  <2>3. CASE RebootSystemd
    <3>1. hoConfig' = hoConfig
      BY <2>3 DEF RebootSystemd, hoMachine
    <3>2. PICK taken : hoTransport' = Started(hoTransport, taken)
      BY <2>3 DEF RebootSystemd
    <3> QED BY <1>4, <3>1, <3>2
  <2> QED BY <1>12, <2>1, <2>2, <2>3 DEF HoOutside
<1> QED BY <1>8, <1>9, <1>10, <1>11, <1>12 DEF HoNext

-----------------------------------------------------------------------------
(* What is left of what was taken down.                                  *)

(* The platform stays what it is.                                        *)
LEMMA KindKept ==
    ASSUME HoNext PROVE hoKind' = hoKind
<1> USE DEF hoMachine
<1>1. CASE HoCommand
  BY <1>1 DEF HoCommand, Setup, InitContainer, Restart, StartServer, UninstallServer, Update,
              Prerequisites, BeginJob
<1>2. CASE HoSetupStep
  BY <1>2 DEF HoSetupStep, SaveNew, Forwarding, Wireguard, Wall, Wstunnel, Enroll, InstallFront
<1>3. CASE HoOtherStep
  BY <1>3 DEF HoOtherStep, SaveEdit, BounceUnit, RewireUnit, SpawnTransport
<1>4. CASE HoDropStep
  BY <1>4 DEF HoDropStep, DropTransport, DropListener, DropWireguard, DropFront, DropConfig
<1>5. CASE HoOutside
  BY <1>5 DEF HoOutside, TransportStops, ListenerStops, CaddyStops, WireguardStops, LinkDeleted,
              RulesFlushed, ForwardingOff, Killed, RebootSystemd, RebootOther, Outside
<1> QED BY <1>1, <1>2, <1>3, <1>4, <1>5 DEF HoNext

(* A step that leaves the interface alone, ...                           *)
LEMMA WgLeftoverKept ==
    ASSUME WgLeftover, UNCHANGED <<hoKind, hoWg, hoRules>>,
           "wireguard" \in hoMissed => "wireguard" \in hoMissed'
    PROVE  WgLeftover'
BY DEF WgLeftover, Configured

(* ... the units, ...                                                    *)
LEMMA UnitLeftoverKept ==
    ASSUME UnitLeftover, UNCHANGED <<hoKind, hoTransport, hoListener>>,
           "wstunnel" \in hoMissed => "wstunnel" \in hoMissed',
           "enroll" \in hoMissed => "enroll" \in hoMissed'
    PROVE  UnitLeftover'
BY DEF UnitLeftover

(* ... Caddy.                                                            *)
LEMMA CaddyLeftoverKept ==
    ASSUME CaddyLeftover, UNCHANGED <<hoKind, hoBins, hoCaddy>>,
           "front" \in hoMissed => "front" \in hoMissed'
    PROVE  CaddyLeftover'
BY DEF CaddyLeftover

(* Installing WireGuard writes its file, ...                             *)
LEMMA InstallLeft ==
    ASSUME HoTypeOK, WgSound, hoKind' = hoKind, WgLeftover, NEW c \in Configs, Configured(c),
           InstallWg(c)
    PROVE  WgLeftover'
<1>1. /\ Filed(c) \in Interfaces /\ Filed(c).conf = c /\ Filed(c).enabled = hoWg.enabled
  BY FiledIs
<1>2. /\ Installed(c) \in Interfaces /\ Installed(c).conf = c
      /\ Installed(c).enabled = (hoKind = "systemd")
  BY <1>1 DEF Installed, Interfaces
<1>3. /\ hoWg'.conf = c
      /\ hoWg'.enabled = hoWg.enabled \/ hoWg'.enabled = (hoKind = "systemd")
  <2>1. CASE hoWg' = Installed(c)
    BY <1>2, <2>1
  <2>2. CASE hoWg' = Filed(c)
    BY <1>1, <2>2
  <2>3. CASE QuickUp(Installed(c), hoRules)
    <3>1. hoWg' = [Installed(c) EXCEPT !.active = hoKind = "systemd", !.link = Installed(c).conf.gen]
      BY <2>3 DEF QuickUp
    <3> QED BY <1>2, <3>1 DEF Interfaces
  <2> QED BY <2>1, <2>2, <2>3 DEF InstallWg
<1> QED BY <1>3 DEF WgLeftover

(* ... and so does a reconciliation, also one that fails, unless it does *)
(* nothing.                                                              *)
LEMMA ReconcileLeft ==
    ASSUME HoTypeOK, Machine, hoKind' = hoKind, WgLeftover, Configured(hoConfig),
           "wireguard" \in hoMissed => "wireguard" \in hoMissed',
           NEW force, NEW missed,
           Reconcile(hoConfig, force, missed) \/ ReconcileFails(hoConfig)
    PROVE  WgLeftover'
<1>1. hoConfig \in Configs /\ WgSound /\ hoWg \in Interfaces
  BY DEF HoTypeOK, Machine
<1>2. /\ Filed(hoConfig) \in Interfaces /\ Filed(hoConfig).conf = hoConfig
      /\ Filed(hoConfig).enabled = hoWg.enabled
  BY <1>1, FiledIs
<1>3. ASSUME hoWg'.conf = hoConfig, hoWg'.enabled = hoWg.enabled PROVE WgLeftover'
  BY <1>3 DEF WgLeftover
<1>4. CASE WindowsReconcile(hoConfig, force, missed)
  <2>1. PICK link : hoWg' = [hoWg EXCEPT !.conf = hoConfig, !.link = link]
    BY <1>4 DEF WindowsReconcile
  <2> QED BY <1>1, <1>3, <2>1 DEF Interfaces
<1>5. CASE RestartWg(hoConfig)
  <2>1. hoWg' = [Filed(hoConfig) EXCEPT !.active = hoKind = "systemd",
                                        !.link = Filed(hoConfig).conf.gen]
    BY <1>5 DEF RestartWg, QuickUp
  <2> QED BY <1>2, <1>3, <2>1 DEF Interfaces
<1>6. CASE InstallWg(hoConfig)
  BY <1>1, <1>6, InstallLeft
<1>7. CASE ReconcileFails(hoConfig)
  <2>1. CASE UNCHANGED <<hoWg, hoRules>>
    BY <2>1, WgLeftoverKept
  <2>2. CASE hoWg' = Filed(hoConfig)
    BY <1>2, <1>3, <2>2
  <2>3. CASE hoWg' = [Filed(hoConfig) EXCEPT !.link = 0, !.active = FALSE]
    BY <1>2, <1>3, <2>3 DEF Interfaces
  <2> QED BY <1>7, <2>1, <2>2, <2>3 DEF ReconcileFails
<1> QED BY <1>4, <1>5, <1>6, <1>7 DEF Reconcile

(* The interface that an uninstall takes down, or leaves.                *)
LEMMA DropLeft ==
    ASSUME HoIInv, WgLeftover, DropWireguard PROVE WgLeftover'
<1>1. hoWg \in Interfaces /\ hoKind' = hoKind /\ hoWg.enabled \in BOOLEAN
  BY DEF HoIInv, HoTypeOK, DropWireguard, hoMachine, Interfaces
<1>2. ASSUME NEW conf, WgDropped(conf) PROVE WgLeftover'
  <2>1. hoWg'.link = 0 /\ hoWg'.enabled = FALSE
    BY <1>1, <1>2 DEF WgDropped, Interfaces
  <2>2. hoKind = "windows" => \A s \in Subnets : hoRules'[s] = 0
    BY <1>2 DEF WgDropped, NoRules
  <2> QED BY <1>1, <2>1, <2>2 DEF WgLeftover
<1>3. ASSUME WgLeft, "wireguard" \in hoMissed' PROVE WgLeftover'
  <2>1. PICK enabled \in {FALSE, hoWg.enabled}, link \in {0, hoWg.link} :
           hoWg' = [hoWg EXCEPT !.conf = NoConfig, !.enabled = enabled, !.link = link,
                                !.active = @ /\ link # 0, !.loose = TRUE,
                                !.strays = @ \cup {hoWg.conf.subnet}]
    BY <1>3 DEF WgLeft
  <2>2. hoWg'.enabled = enabled
    BY <1>1, <2>1 DEF Interfaces
  <2>3. hoKind # "systemd" => hoWg'.enabled = FALSE
    BY <2>1, <2>2 DEF WgLeftover
  <2> QED BY <1>1, <1>3, <2>3 DEF WgLeftover
<1>4. ASSUME ~CanDrop PROVE "wireguard" \in hoMissed
  BY <1>4 DEF CanDrop, WgLeftover, WgActive
<1>5. CASE WgLeft /\ PassedBut({}, {"wireguard"})
  <2>1. "wireguard" \in hoMissed'
    BY <1>5 DEF PassedBut
  <2> QED BY <1>3, <1>5, <2>1
<1>6. CASE ~CanDrop /\ WgLeft /\ Passed
  <2>1. hoMissed' = hoMissed
    BY <1>6 DEF Passed, NoFault
  <2> QED BY <1>3, <1>4, <1>6, <2>1
<1> QED BY <1>2, <1>5, <1>6 DEF DropWireguard

(* What was missed stays missed until it is done.                        *)
LEMMA MissedKept ==
    ASSUME HoNext, NEW m \in {"wireguard", "wstunnel", "enroll", "front"}, m \in hoMissed
    PROVE  \/ m \in hoMissed'
           \/ m = "wireguard" /\ DropWireguard
           \/ m = "wstunnel" /\ DropTransport
           \/ m = "enroll" /\ DropListener
           \/ m = "front" /\ (InstallFront \/ DropFront)
<1> USE DEF Passed, PassedBut, NoFault, Fault, GivesUp, Warned
<1>1. CASE HoCommand
  BY <1>1 DEF HoCommand, Setup, InitContainer, Restart, StartServer, UninstallServer, Update,
              Prerequisites, BeginJob
<1>2. CASE HoSetupStep
  <2>1. CASE SaveNew \/ Forwarding
    BY <2>1 DEF SaveNew, Forwarding
  <2>2. CASE Wireguard
    BY <2>2 DEF Wireguard, WindowsMisses
  <2>3. CASE Wall
    BY <2>3 DEF Wall
  <2>4. CASE Wstunnel
    BY <2>4 DEF Wstunnel
  <2>5. CASE Enroll
    BY <2>5 DEF Enroll
  <2>6. CASE InstallFront
    BY <2>6 DEF InstallFront
  <2> QED BY <1>2, <2>1, <2>2, <2>3, <2>4, <2>5, <2>6 DEF HoSetupStep
<1>3. CASE HoOtherStep
  BY <1>3 DEF HoOtherStep, SaveEdit, BounceUnit, RewireUnit, SpawnTransport
<1>4. CASE HoDropStep
  <2>1. CASE DropTransport
    BY <2>1 DEF DropTransport
  <2>2. CASE DropListener
    BY <2>2 DEF DropListener
  <2>3. CASE DropWireguard
    BY <2>3 DEF DropWireguard
  <2>4. CASE DropFront
    BY <2>4 DEF DropFront
  <2>5. CASE DropConfig
    BY <2>5 DEF DropConfig
  <2> QED BY <1>4, <2>1, <2>2, <2>3, <2>4, <2>5 DEF HoDropStep
<1>5. CASE HoOutside
  BY <1>5 DEF HoOutside, TransportStops, ListenerStops, CaddyStops, WireguardStops, LinkDeleted,
              RulesFlushed, ForwardingOff, Killed, RebootSystemd, RebootOther, Outside
<1> QED BY <1>1, <1>2, <1>3, <1>4, <1>5 DEF HoNext

(* A step of a command that is no uninstall has a configuration.         *)
LEMMA ConfiguredAt ==
    ASSUME HoIInv, NEW step, At(step),
           step \in {"wireguard", "wstunnel", "enroll", "front", "bounce", "rewire", "spawn"}
    PROVE  Configured(hoConfig) /\ hoConfig.gen # 0 /\ hoConfig.gen \in Nat
<1>1. Ahead = step /\ (SetupUnderWay \/ RestartUnderWay \/ StartUnderWay \/ UpdateUnderWay)
  BY Whose DEF HoIInv
<1>2. hoJob.op \in {"setup", "restart", "start", "update"}
  BY <1>1 DEF SetupUnderWay, RestartUnderWay, StartUnderWay, UpdateUnderWay
<1>3. Configured(hoConfig)
  BY <1>1, <1>2 DEF HoIInv, Planned
<1> QED BY <1>3 DEF HoIInv, Machine, Numbered, HoTypeOK, Configs

(* Nothing of an interface is left without its file but what was missed, *)
(* ...                                                                   *)
LEMMA WgLeftoverKeeps ==
    ASSUME HoIInv, WgLeftover, HoNext PROVE WgLeftover'
<1>1. HoTypeOK /\ Machine /\ hoWg \in Interfaces /\ hoKind' = hoKind
  BY KindKept DEF HoIInv, HoTypeOK
<1>2. DropWireguard \/ ("wireguard" \in hoMissed => "wireguard" \in hoMissed')
  BY MissedKept
<1>3. ASSUME ~DropWireguard, UNCHANGED <<hoWg, hoRules>> PROVE WgLeftover'
  BY <1>1, <1>2, <1>3, WgLeftoverKept
<1>4. CASE HoCommand
  <2>1. UNCHANGED <<hoWg, hoRules>>
    BY <1>4 DEF HoCommand, Setup, InitContainer, Restart, StartServer, UninstallServer, Update,
                Prerequisites, BeginJob, hoWgVars
  <2> QED BY <1>3, <2>1, DropLeft
<1>5. CASE HoSetupStep
  <2>1. CASE Wireguard
    <3>1. Configured(hoConfig)
      BY <2>1, ConfiguredAt DEF Wireguard
    <3>2. \/ \E missed \in SUBSET WindowsMisses : Reconcile(hoConfig, hoJob.op # "start", missed)
          \/ ReconcileFails(hoConfig)
      BY <2>1 DEF Wireguard
    <3> QED BY <1>1, <1>2, <3>1, <3>2, ReconcileLeft, DropLeft
  <2>2. CASE SaveNew \/ Forwarding \/ Wall \/ Wstunnel \/ Enroll \/ InstallFront
    <3>1. UNCHANGED <<hoWg, hoRules>>
      BY <2>2 DEF SaveNew, Forwarding, Wall, Wstunnel, Enroll, InstallFront, hoWgVars
    <3> QED BY <1>3, <3>1, DropLeft
  <2> QED BY <1>5, <2>1, <2>2 DEF HoSetupStep
<1>6. CASE HoOtherStep
  <2>1. CASE RewireUnit
    <3>1. Configured(hoConfig)
      BY <2>1, ConfiguredAt DEF RewireUnit
    <3>2. PICK force, missed : Reconcile(hoConfig, force, missed) \/ ReconcileFails(hoConfig)
      BY <2>1 DEF RewireUnit
    <3> QED BY <1>1, <1>2, <3>1, <3>2, ReconcileLeft, DropLeft
  <2>2. CASE SaveEdit
    <3>1. CASE hoWg' = hoWg
      BY <1>3, <2>2, <3>1, DropLeft DEF SaveEdit
    <3>2. CASE hoWg' = [hoWg EXCEPT !.link = IF @ = 0 THEN 0 ELSE Carried(@),
                                    !.conf.gen = Carried(@)]
      <4>1. /\ hoWg'.enabled = hoWg.enabled /\ hoWg'.conf.subnet = hoWg.conf.subnet
            /\ hoWg.link = 0 => hoWg'.link = 0
        BY <1>1, <3>2 DEF Interfaces, Configs
      <4>2. hoRules' = hoRules
        BY <2>2 DEF SaveEdit
      <4> QED BY <1>1, <1>2, <4>1, <4>2, DropLeft DEF WgLeftover, Configured
    <3> QED BY <2>2, <3>1, <3>2 DEF SaveEdit
  <2>3. CASE BounceUnit \/ SpawnTransport
    <3>1. UNCHANGED <<hoWg, hoRules>>
      BY <2>3 DEF BounceUnit, SpawnTransport, hoWgVars
    <3> QED BY <1>3, <3>1, DropLeft
  <2> QED BY <1>6, <2>1, <2>2, <2>3 DEF HoOtherStep
<1>7. CASE HoDropStep
  <2>1. CASE DropTransport \/ DropListener \/ DropFront \/ DropConfig
    <3>1. UNCHANGED <<hoWg, hoRules>>
      BY <2>1 DEF DropTransport, DropListener, DropFront, DropConfig, hoWgVars
    <3> QED BY <1>3, <3>1, DropLeft
  <2> QED BY <1>7, <2>1, DropLeft DEF HoDropStep
<1>8. CASE HoOutside
  <2>1. CASE TransportStops \/ ListenerStops \/ CaddyStops \/ ForwardingOff \/ Killed
    <3>1. UNCHANGED <<hoWg, hoRules>>
      BY <2>1 DEF TransportStops, ListenerStops, CaddyStops, ForwardingOff, Killed, hoWgVars
    <3> QED BY <1>3, <3>1, DropLeft
  <2>2. CASE WireguardStops \/ LinkDeleted \/ RulesFlushed
    <3>1. /\ hoWg'.enabled = hoWg.enabled /\ hoWg'.conf = hoWg.conf
          /\ hoWg.link = 0 => hoWg'.link = 0
      BY <1>1, <2>2 DEF WireguardStops, LinkDeleted, RulesFlushed, Interfaces
    <3>2. hoKind = "windows" /\ (\A s \in Subnets : hoRules[s] = 0) =>
             \A s \in Subnets : hoRules'[s] = 0
      BY <2>2 DEF WireguardStops, LinkDeleted, RulesFlushed
    <3> QED BY <1>1, <1>2, <3>1, <3>2, DropLeft DEF WgLeftover, Configured
  <2>3. CASE RebootSystemd
    <3>1. /\ hoWg'.conf = hoWg.conf /\ hoWg'.enabled = hoWg.enabled /\ hoKind = "systemd"
          /\ ~Configured(hoWg.conf) => hoWg'.link = 0
      BY <1>1, <2>3, RebootedIs DEF RebootSystemd
    <3> QED BY <1>1, <1>2, <3>1, DropLeft DEF WgLeftover, Configured
  <2>4. CASE RebootOther
    <3>1. CASE UNCHANGED <<hoWg, hoRules>>
      BY <1>3, <3>1, DropLeft
    <3>2. CASE hoKind = "container" /\ hoWg' = [Rebooted EXCEPT !.conf = NoConfig, !.link = 0]
      <4>1. hoWg'.enabled = hoWg.enabled /\ hoWg'.link = 0
        BY <1>1, <3>2 DEF Rebooted, Interfaces
      <4> QED BY <1>1, <3>2, <4>1 DEF WgLeftover
    <3> QED BY <2>4, <3>1, <3>2 DEF RebootOther
  <2> QED BY <1>8, <2>1, <2>2, <2>3, <2>4 DEF HoOutside
<1> QED BY <1>4, <1>5, <1>6, <1>7, <1>8 DEF HoNext

(* ... nor of the units, ...                                             *)
LEMMA UnitLeftoverKeeps ==
    ASSUME HoIInv, UnitLeftover, HoNext PROVE UnitLeftover'
<1>1. /\ HoTypeOK /\ hoKind' = hoKind /\ hoTransport \in Transports
      /\ hoListener \in [unit : BOOLEAN, up : BOOLEAN]
  BY KindKept DEF HoIInv, HoTypeOK
<1>2. /\ DropTransport \/ ("wstunnel" \in hoMissed => "wstunnel" \in hoMissed')
      /\ DropListener \/ ("enroll" \in hoMissed => "enroll" \in hoMissed')
  BY MissedKept
<1>3. /\ Written \in Transports /\ Written.unit = hoConfig.gen
      /\ Written.runs = hoTransport.runs
  BY <1>1, WrittenIs
<1> DEFINE Kept == /\ hoTransport'.unit = 0 => hoTransport.unit = 0
                   /\ hoTransport.runs = 0 => hoTransport'.runs = 0
                   /\ "wstunnel" \in hoMissed => "wstunnel" \in hoMissed'
           Fits == hoTransport'.unit # 0 \/ hoTransport'.runs = 0
           Heard == hoListener' = hoListener /\ ("enroll" \in hoMissed => "enroll" \in hoMissed')
           Silent == hoListener'.unit \/ ~hoListener'.up
<1>4. ASSUME hoKind = "systemd" => Kept \/ Fits \/ "wstunnel" \in hoMissed',
             hoKind = "systemd" => Heard \/ Silent \/ "enroll" \in hoMissed'
      PROVE  UnitLeftover'
  BY <1>1, <1>4 DEF UnitLeftover
<1>5. ASSUME NEW t \in Transports, NEW taken, hoTransport' = Started(t, taken) PROVE Fits
  BY <1>5, StartedIs
<1>6. ASSUME hoTransport' = hoTransport, ~DropTransport PROVE Kept
  BY <1>2, <1>6
<1>7. ASSUME hoListener' = hoListener, ~DropListener PROVE Heard
  BY <1>2, <1>7
<1>8. hoKind = "systemd" => Kept \/ Fits \/ "wstunnel" \in hoMissed'
  <2> SUFFICES ASSUME hoKind = "systemd" PROVE Kept \/ Fits \/ "wstunnel" \in hoMissed'
    OBVIOUS
  <2>1. CASE DropTransport
    <3>1. CASE hoTransport' = hoTransport /\ Passed
      BY <3>1 DEF Passed, NoFault
    <3>2. CASE PassedBut({}, {"wstunnel"})
      BY <3>2 DEF PassedBut
    <3>3. CASE \/ hoTransport' = [hoTransport EXCEPT !.unit = 0, !.runs = 0]
               \/ hoTransport' = [hoTransport EXCEPT !.runs = 0]
      BY <1>1, <3>3 DEF Transports
    <3> QED BY <2>1, <3>1, <3>2, <3>3 DEF DropTransport
  <2>2. CASE SaveEdit /\ ~DropTransport
    <3>1. Configured(hoConfig) /\ Numbered(hoConfig)
      BY <2>2 DEF SaveEdit, HoIInv, Planned, Machine
    <3>2. Carried(0) = 0 /\ \A g \in Nat : g # 0 => Carried(g) # 0
      BY <1>1, <3>1, CarriedIs DEF Carried, Numbered
    <3>3. /\ hoTransport'.unit \in {hoTransport.unit, Carried(hoTransport.unit)}
          /\ hoTransport'.runs \in {hoTransport.runs, Carried(hoTransport.runs)}
      BY <1>1, <2>2 DEF SaveEdit, Transports
    <3>4. hoTransport.unit \in Nat /\ hoTransport.runs \in Nat
      BY <1>1 DEF Transports
    <3> QED BY <1>2, <2>2, <3>2, <3>3, <3>4
  <2>3. CASE Wstunnel
    <3>1. hoConfig.gen # 0 /\ (RestartUnderWay \/ SetupUnderWay)
      BY <2>3, ConfiguredAt, Whose DEF Wstunnel, HoIInv
    <3>2. CASE hoTransport' = Written
      BY <1>3, <3>1, <3>2
    <3>3. \/ hoTransport' = Started(Written, Taken) \/ hoTransport' = Written
          \/ hoTransport' = hoTransport
      BY <2>3 DEF Wstunnel, InstallTransport
    <3> QED BY <1>3, <1>5, <1>6, <2>1, <3>2, <3>3
  <2>4. CASE BounceUnit
    <3>1. \/ hoTransport' = Started(Written, Taken) \/ hoTransport' = Started(hoTransport, Taken)
          \/ hoTransport' = hoTransport
      BY <2>4 DEF BounceUnit
    <3> QED BY <1>1, <1>3, <1>5, <1>6, <2>1, <3>1
  <2>5. CASE SpawnTransport
    BY <2>5, Whose DEF SpawnTransport, HoIInv, StartUnderWay
  <2>6. CASE TransportStops
    BY <1>1, <2>6 DEF TransportStops, Transports
  <2>7. CASE RebootSystemd
    BY <1>1, <2>7, RebootStarts
  <2>8. CASE RebootOther
    BY <2>8 DEF RebootOther
  <2>9. ASSUME ~SaveEdit, ~Wstunnel, ~BounceUnit, ~SpawnTransport, ~DropTransport, ~TransportStops,
               ~RebootSystemd, ~RebootOther
        PROVE  hoTransport' = hoTransport
    <3>1. CASE HoCommand
      BY <3>1 DEF HoCommand, Setup, InitContainer, Restart, StartServer, UninstallServer, Update,
                  Prerequisites, BeginJob, hoServices
    <3>2. CASE HoSetupStep
      BY <2>9, <3>2 DEF HoSetupStep, SaveNew, Forwarding, Wireguard, Wall, Enroll, InstallFront,
                        hoServices
    <3>3. CASE HoOtherStep \/ HoDropStep
      BY <2>9, <3>3 DEF HoOtherStep, RewireUnit, HoDropStep, DropListener, DropWireguard, DropFront,
                        DropConfig, hoServices
    <3>4. CASE HoOutside
      BY <2>9, <3>4 DEF HoOutside, ListenerStops, CaddyStops, WireguardStops, LinkDeleted,
                        RulesFlushed, ForwardingOff, Killed, hoServices
    <3> QED BY <3>1, <3>2, <3>3, <3>4 DEF HoNext
  <2> QED BY <1>6, <2>1, <2>2, <2>3, <2>4, <2>5, <2>6, <2>7, <2>8, <2>9
<1>9. hoKind = "systemd" => Heard \/ Silent \/ "enroll" \in hoMissed'
  <2> SUFFICES ASSUME hoKind = "systemd" PROVE Heard \/ Silent \/ "enroll" \in hoMissed'
    OBVIOUS
  <2>1. CASE DropListener
    <3>1. CASE hoListener' = hoListener /\ Passed
      BY <3>1 DEF Passed, NoFault
    <3>2. CASE PassedBut({}, {"enroll"})
      BY <3>2 DEF PassedBut
    <3>3. CASE \/ hoListener' = [unit |-> FALSE, up |-> FALSE]
               \/ hoListener' = [hoListener EXCEPT !.up = FALSE]
      BY <1>1, <3>3
    <3> QED BY <2>1, <3>1, <3>2, <3>3 DEF DropListener
  <2>2. CASE Enroll
    <3>1. CASE hoListener' = [unit |-> TRUE, up |-> TRUE]
      BY <3>1
    <3>2. CASE hoListener' = [hoListener EXCEPT !.unit = TRUE]
      BY <1>1, <3>2
    <3> QED BY <1>7, <2>1, <2>2, <3>1, <3>2 DEF Enroll
  <2>3. CASE SpawnTransport
    BY <2>3, Whose DEF SpawnTransport, HoIInv, StartUnderWay
  <2>4. CASE TransportStops
    BY <1>7, <2>1, <2>4 DEF TransportStops
  <2>5. CASE ListenerStops
    BY <1>1, <2>5 DEF ListenerStops
  <2>6. CASE RebootSystemd
    BY <1>1, <2>6 DEF RebootSystemd
  <2>7. CASE RebootOther
    BY <2>7 DEF RebootOther
  <2>8. ASSUME ~Enroll, ~SpawnTransport, ~DropListener, ~TransportStops, ~ListenerStops,
               ~RebootSystemd, ~RebootOther
        PROVE  hoListener' = hoListener
    <3>1. CASE HoCommand
      BY <3>1 DEF HoCommand, Setup, InitContainer, Restart, StartServer, UninstallServer, Update,
                  Prerequisites, BeginJob, hoServices
    <3>2. CASE HoSetupStep
      BY <2>8, <3>2 DEF HoSetupStep, SaveNew, Forwarding, Wireguard, Wall, Wstunnel, InstallFront,
                        hoServices
    <3>3. CASE HoOtherStep \/ HoDropStep
      BY <2>8, <3>3 DEF HoOtherStep, SaveEdit, BounceUnit, RewireUnit, HoDropStep, DropTransport,
                        DropWireguard, DropFront, DropConfig, hoServices
    <3>4. CASE HoOutside
      BY <2>8, <3>4 DEF HoOutside, CaddyStops, WireguardStops, LinkDeleted,
                        RulesFlushed, ForwardingOff, Killed, hoServices
    <3> QED BY <3>1, <3>2, <3>3, <3>4 DEF HoNext
  <2> QED BY <1>7, <2>1, <2>2, <2>3, <2>4, <2>5, <2>6, <2>7, <2>8
<1> HIDE DEF Kept, Fits, Heard, Silent
<1> QED BY <1>4, <1>8, <1>9

(* ... nor of Caddy.                                                     *)
LEMMA CaddyLeftoverKeeps ==
    ASSUME HoIInv, CaddyLeftover, HoNext PROVE CaddyLeftover'
<1>1. /\ HoTypeOK /\ hoKind' = hoKind /\ hoBins \in BOOLEAN
      /\ hoCaddy \in [up : BOOLEAN, site : Nat, loaded : Nat]
  BY KindKept DEF HoIInv, HoTypeOK
<1>2. hoBins' = hoBins
  <2> USE DEF hoMachine
  <2>1. CASE HoCommand
    BY <2>1 DEF HoCommand, Setup, InitContainer, Restart, StartServer, UninstallServer, Update,
                Prerequisites, BeginJob
  <2>2. CASE HoSetupStep
    BY <2>2 DEF HoSetupStep, SaveNew, Forwarding, Wireguard, Wall, Wstunnel, Enroll, InstallFront
  <2>3. CASE HoOtherStep
    BY <2>3 DEF HoOtherStep, SaveEdit, BounceUnit, RewireUnit, SpawnTransport
  <2>4. CASE HoDropStep
    BY <2>4 DEF HoDropStep, DropTransport, DropListener, DropWireguard, DropFront, DropConfig
  <2>5. CASE HoOutside
    BY <2>5 DEF HoOutside, TransportStops, ListenerStops, CaddyStops, WireguardStops, LinkDeleted,
                RulesFlushed, ForwardingOff, Killed, RebootSystemd, RebootOther, Outside
  <2> QED BY <2>1, <2>2, <2>3, <2>4, <2>5 DEF HoNext
<1>3. ASSUME UNCHANGED hoCaddy, "front" \in hoMissed => "front" \in hoMissed'
      PROVE  CaddyLeftover'
  BY <1>1, <1>2, <1>3, CaddyLeftoverKept
<1>4. ASSUME hoCaddy'.up => hoBins, hoCaddy'.loaded # 0 => hoBins,
             hoCaddy'.site # 0 \/ hoCaddy'.loaded = 0 \/ "front" \in hoMissed',
             hoCaddy'.up \in BOOLEAN
      PROVE  CaddyLeftover'
  BY <1>1, <1>2, <1>4 DEF CaddyLeftover
<1>5. InstallFront \/ DropFront \/ ("front" \in hoMissed => "front" \in hoMissed')
  BY MissedKept
<1>6. CASE InstallFront
  <2>1. hoConfig.gen # 0 /\ hoConfig.gen \in Nat
    BY <1>6, ConfiguredAt DEF InstallFront
  <2>2. CASE LoadFront(hoConfig.gen) /\ hoBins
    <3>1. hoCaddy' = [up |-> TRUE, site |-> hoConfig.gen, loaded |-> hoConfig.gen]
      BY <2>2 DEF LoadFront
    <3> QED BY <1>4, <2>1, <2>2, <3>1
  <2>3. CASE hoCaddy' = [hoCaddy EXCEPT !.site = hoConfig.gen]
    <3>1. /\ hoCaddy'.up = hoCaddy.up /\ hoCaddy'.loaded = hoCaddy.loaded
          /\ hoCaddy'.site = hoConfig.gen
      BY <1>1, <2>3
    <3> QED BY <1>1, <1>4, <2>1, <3>1 DEF CaddyLeftover
  <2>4. CASE hoCaddy' = hoCaddy /\ hoMissed' = hoMissed
    BY <1>3, <2>4
  <2> QED BY <1>6, <2>2, <2>3, <2>4 DEF InstallFront, Passed, NoFault, Warned, Fault
<1>7. CASE DropFront
  <2>1. CASE hoCaddy' = hoCaddy /\ hoMissed' = hoMissed
    BY <1>3, <2>1
  <2>2. CASE LoadFront(0) /\ hoBins
    <3>1. hoCaddy' = [up |-> TRUE, site |-> 0, loaded |-> 0]
      BY <2>2 DEF LoadFront
    <3> QED BY <1>4, <2>2, <3>1
  <2>3. CASE /\ hoCaddy' = [hoCaddy EXCEPT !.site = 0]
             /\ IF hoBins THEN PassedBut({}, {"front"}) ELSE Passed
    <3>1. hoCaddy'.up = hoCaddy.up /\ hoCaddy'.loaded = hoCaddy.loaded
      BY <1>1, <2>3
    <3>2. hoBins => "front" \in hoMissed'
      BY <2>3 DEF PassedBut
    <3> QED BY <1>1, <1>4, <3>1, <3>2 DEF CaddyLeftover
  <2> QED BY <1>7, <2>1, <2>2, <2>3 DEF DropFront, Passed, NoFault, GivesUp, Fault
<1>8. CASE SaveEdit
  <2>1. Configured(hoConfig) /\ Numbered(hoConfig)
    BY <1>8 DEF SaveEdit, HoIInv, Planned, Machine
  <2>2. CASE hoCaddy' = hoCaddy
    BY <1>3, <1>5, <1>6, <1>7, <2>2
  <2>3. CASE hoCaddy' = [hoCaddy EXCEPT !.site = Carried(@), !.loaded = Carried(@)]
    <3>1. /\ hoCaddy'.up = hoCaddy.up /\ hoCaddy'.site = Carried(hoCaddy.site)
          /\ hoCaddy'.loaded = Carried(hoCaddy.loaded)
      BY <1>1, <2>3
    <3>2. hoConfig.gen # 0
      BY <2>1 DEF Numbered
    <3>3. (hoCaddy.site # 0 => hoCaddy'.site # 0) /\ (hoCaddy.loaded = 0 => hoCaddy'.loaded = 0)
      BY <1>1, <2>1, <3>1, <3>2, CarriedIs DEF Carried
    <3>4. "front" \in hoMissed => "front" \in hoMissed'
      BY <1>8 DEF SaveEdit, Passed, NoFault
    <3> QED BY <1>1, <1>4, <3>1, <3>3, <3>4 DEF CaddyLeftover
  <2> QED BY <1>8, <2>2, <2>3 DEF SaveEdit
<1>9. CASE CaddyStops
  <2>1. hoCaddy'.up = FALSE /\ hoCaddy'.loaded = 0
    BY <1>1, <1>9 DEF CaddyStops
  <2> QED BY <1>4, <2>1
<1>10. CASE RebootSystemd
  <2>1. /\ hoCaddy'.up => hoCaddy.up
        /\ hoCaddy'.loaded \in {0, hoCaddy.site} /\ (hoCaddy'.loaded # 0 => hoCaddy.up)
        /\ hoCaddy'.site = hoCaddy.site /\ hoCaddy'.up \in BOOLEAN
    BY <1>1, <1>10, RebootStarts
  <2> QED BY <1>1, <1>4, <2>1 DEF CaddyLeftover
<1>11. CASE \/ HoCommand \/ RebootOther
            \/ HoSetupStep /\ ~InstallFront
            \/ HoOtherStep /\ ~SaveEdit
            \/ HoDropStep /\ ~DropFront
            \/ HoOutside /\ ~CaddyStops /\ ~RebootSystemd
  <2>1. CASE HoCommand
    <3>1. UNCHANGED <<hoCaddy, hoMissed>>
      BY <2>1 DEF HoCommand, Setup, InitContainer, Restart, StartServer, UninstallServer, Update,
                  Prerequisites, BeginJob, hoServices
    <3> QED BY <1>3, <3>1
  <2>2. CASE HoSetupStep /\ ~InstallFront
    <3>1. UNCHANGED hoCaddy
      BY <2>2 DEF HoSetupStep, SaveNew, Forwarding, Wireguard, Wall, Wstunnel, Enroll, hoServices
    <3> QED BY <1>3, <1>5, <1>7, <2>2, <3>1
  <2>3. CASE HoOtherStep /\ ~SaveEdit
    <3>1. UNCHANGED hoCaddy
      BY <2>3 DEF HoOtherStep, BounceUnit, RewireUnit, SpawnTransport, hoServices
    <3> QED BY <1>3, <1>5, <1>6, <1>7, <3>1
  <2>4. CASE HoDropStep /\ ~DropFront
    <3>1. UNCHANGED hoCaddy
      BY <2>4 DEF HoDropStep, DropTransport, DropListener, DropWireguard, DropConfig, hoServices
    <3> QED BY <1>3, <1>5, <1>6, <2>4, <3>1
  <2>5. CASE HoOutside /\ ~CaddyStops /\ ~RebootSystemd
    <3>1. UNCHANGED hoCaddy
      BY <2>5 DEF HoOutside, TransportStops, ListenerStops, WireguardStops, LinkDeleted,
                  RulesFlushed, ForwardingOff, Killed, RebootOther, hoServices
    <3> QED BY <1>3, <1>5, <1>6, <1>7, <3>1
  <2>6. CASE RebootOther
    <3>1. UNCHANGED hoCaddy
      BY <2>6 DEF RebootOther
    <3> QED BY <1>3, <1>5, <1>6, <1>7, <3>1
  <2> QED BY <1>11, <2>1, <2>2, <2>3, <2>4, <2>5, <2>6
<1> QED BY <1>6, <1>7, <1>8, <1>9, <1>10, <1>11 DEF HoNext

(* All of it together.                                                   *)
LEMMA LeftoversKeep ==
    ASSUME HoIInv, Leftovers, HoNext PROVE Leftovers'
BY WgLeftoverKeeps, UnitLeftoverKeeps, CaddyLeftoverKeeps DEF Leftovers

-----------------------------------------------------------------------------
(* The doctor.                                                           *)

\* A fix on the screen is one of the six the doctor vouches for, and
\* asks for units only where there are any.
OfferKnown(o) ==
    /\ o.check \in {"systemd", "listen", "loopback", "enroll", "forwarding", "nat"}
    /\ o.units \subseteq Units /\ hoKind # "windows"
    /\ o.units # {} => hoKind = "systemd"
    /\ o.check = "systemd" => "caddy" \notin o.units
    /\ o.check = "enroll" => o.units = {"enroll"}
    /\ o.check \in {"listen", "loopback"} => "caddy" \in o.units \/ "wstunnel" \in o.units
OffersKnown == \A o \in drOffers : OfferKnown(o)

(* The checks offer no other.                                            *)
LEMMA OffersAre ==
    ASSUME HoTypeOK PROVE \A o \in Offers : OfferKnown(o)
<1> SUFFICES ASSUME NEW c \in DOMAIN GatherChecks, GatherChecks[c].fix = "auto",
                    NEW o, o = [check |-> c, units |-> GatherChecks[c].units]
             PROVE  OfferKnown(o)
  BY DEF Offers
<1> USE DEF Report, Good, Bad, Skipped, Check, Fixable, FixableIf
<1>1. CheckCaddyFront.fix = "none" /\ CheckPublicCertificate.fix = "none"
  BY DEF CheckCaddyFront, CheckPublicCertificate
<1>2. CheckKmod.fix = "none" /\ CheckListenWg.fix = "none"
  BY DEF CheckKmod, CheckListenWg
<1>3. CASE hoKind = "windows"
  <2>1. /\ CheckWinForwarding.fix = "none" /\ CheckWinIface.fix = "none"
        /\ CheckWinProvider.fix = "none" /\ CheckWinNat.fix = "none"
        /\ CheckWinService.fix = "none" /\ CheckWinWstunnel.fix = "none"
        /\ CheckWinListen.fix = "none" /\ CheckWinEnroll.fix = "none"
        /\ CheckWinFirewall.fix = "none"
    BY DEF CheckWinForwarding, CheckWinIface, CheckWinProvider, CheckWinNat, CheckWinService,
           CheckWinWstunnel, CheckWinListen, CheckWinEnroll, CheckWinFirewall
  <2> QED BY <1>1, <1>3, <2>1 DEF GatherChecks
<1>4. CASE hoKind # "windows"
  <2>1. \A held, unit : CheckPort(held, unit).fix = "auto" =>
           CheckPort(held, unit).units = {unit} /\ hoKind = "systemd"
    BY DEF CheckPort
  <2>2. CheckSystemd.fix = "auto" => CheckSystemd.units = Inactive /\ hoKind = "systemd"
    BY <1>4 DEF CheckSystemd, HoTypeOK, Kinds
  <2>3. Inactive \subseteq Units
    BY DEF Inactive, Units
  <2>4. CheckIpForward.fix = "auto" => CheckIpForward.units = {}
    BY DEF CheckIpForward
  <2>5. CheckNatMasquerade.fix = "auto" => CheckNatMasquerade.units = {}
    BY DEF CheckNatMasquerade
  <2>6. CheckListen443.fix = "auto" => CheckListen443.units = {Holder} /\ hoKind = "systemd"
    BY <2>1 DEF CheckListen443
  <2>7. CheckListenInternalWs.fix = "auto" =>
           CheckListenInternalWs.units = {"wstunnel"} /\ hoKind = "systemd"
    BY <2>1 DEF CheckListenInternalWs
  <2>8. CheckEnrollListener.fix = "auto" =>
           CheckEnrollListener.units = {"enroll"} /\ hoKind = "systemd"
    BY <2>1 DEF CheckEnrollListener
  <2>9. /\ Holder \in {"caddy", "wstunnel"} /\ "caddy" \notin Inactive
        /\ {"caddy", "wstunnel", "enroll"} \subseteq Units
    BY DEF Holder, Units, Inactive
  <2>10. GatherChecks =
           [caddy |-> CheckCaddyFront, certificate |-> CheckPublicCertificate,
            kmod |-> CheckKmod, systemd |-> CheckSystemd, listen |-> CheckListen443,
            loopback |-> CheckListenInternalWs, wg |-> CheckListenWg,
            enroll |-> CheckEnrollListener, forwarding |-> CheckIpForward,
            nat |-> CheckNatMasquerade]
    BY <1>4 DEF GatherChecks
  <2>11. c \in {"caddy", "certificate", "kmod", "systemd", "listen", "loopback", "wg", "enroll",
                "forwarding", "nat"}
    BY <2>10
  <2>12. c \notin {"caddy", "certificate", "kmod", "wg"}
    BY <1>1, <1>2, <2>10
  <2>13. o.check = c /\ o.units = GatherChecks[c].units
    OBVIOUS
  <2>14. CASE c = "systemd"
    BY <1>4, <2>2, <2>3, <2>9, <2>10, <2>13, <2>14 DEF OfferKnown
  <2>15. CASE c = "listen"
    BY <1>4, <2>6, <2>9, <2>10, <2>13, <2>15 DEF OfferKnown
  <2>16. CASE c = "loopback"
    BY <1>4, <2>7, <2>9, <2>10, <2>13, <2>16 DEF OfferKnown
  <2>17. CASE c = "enroll"
    BY <1>4, <2>8, <2>9, <2>10, <2>13, <2>17 DEF OfferKnown
  <2>18. CASE c = "forwarding"
    BY <1>4, <2>4, <2>10, <2>13, <2>18 DEF OfferKnown
  <2>19. CASE c = "nat"
    BY <1>4, <2>5, <2>10, <2>13, <2>19 DEF OfferKnown
  <2> QED BY <2>11, <2>12, <2>14, <2>15, <2>16, <2>17, <2>18, <2>19
<1> QED BY <1>3, <1>4

(* A unit that systemctl has reached is there.                           *)
LEMMA ReachedThere ==
    ASSUME NEW units, NEW u \in Reached(units)
    PROVE  u \in units /\ UnitThere(u)
<1>1. PICK i \in 1..4 : /\ u = UnitOrder[i] /\ UnitOrder[i] \in units
                        /\ \A j \in 1..i : UnitOrder[j] \in units => UnitThere(UnitOrder[j])
  BY DEF Reached
<1>2. i \in 1..i
  OBVIOUS
<1> QED BY <1>1, <1>2

(* What a fix says must be so.                                           *)
LEMMA FixedSays ==
    ASSUME HoIInv, HoIdle, hoJob' = hoJob, HoTypeOK', Machine',
           \/ hoPromise'.says = "nothing"
           \/ hoPromise'.says = "healed" /\ HoHealed'
    PROVE  HoIInv'
<1>1. hoJob' = NoJob
  BY DEF HoIInv, JobShape
<1>2. hoJob'.op = "none"
  BY <1>1 DEF NoJob
<1>3. JobShape' /\ Planned' /\ Progress'
  BY <1>1, <1>2 DEF JobShape, JobRecord, NoJob, HoIdle, Planned, Progress, Done
<1>4. Said'
  BY DEF Said
<1> QED BY <1>3, <1>4 DEF HoIInv

(* The units that a fix has reached run.                                 *)
LEMMA FixUnitsEffect ==
    ASSUME HoTypeOK, Machine, UNCHANGED <<hoKind, hoBins, hoConfig, hoWall>>,
           NEW units \in SUBSET Units, units # {} => hoKind = "systemd",
           \A u \in units : UnitThere(u), NEW restart \in BOOLEAN, FixUnits(units, restart)
    PROVE  /\ HoTypeOK' /\ Machine'
           /\ "wg" \in units => hoWg'.active /\ WgActive'
           /\ "enroll" \in units => hoListener'.up
           /\ "wstunnel" \in units /\ (restart \/ hoTransport.runs = 0) =>
                 /\ hoTransport.unit # 0
                 /\ \/ hoTransport'.runs = hoTransport.unit /\ hoTransport'.holds = hoTransport.names
                    \/ hoTransport'.runs = 0 /\ hoTransport.names = Https /\ Taken
           /\ IF "caddy" \in units /\ ~hoCaddy.up THEN hoCaddy'.loaded = hoCaddy.site
                                                 ELSE hoCaddy' = hoCaddy
<1>1. /\ hoTransport \in Transports /\ hoListener \in [unit : BOOLEAN, up : BOOLEAN]
      /\ hoCaddy \in [up : BOOLEAN, site : Nat, loaded : Nat] /\ hoWg \in Interfaces
  BY DEF HoTypeOK
<1>2. /\ hoTransport' \in Transports /\ hoTransport'.unit = hoTransport.unit
      /\ "wstunnel" \in units /\ (restart \/ hoTransport.runs = 0) =>
            /\ hoTransport.unit # 0
            /\ \/ hoTransport'.runs = hoTransport.unit /\ hoTransport'.holds = hoTransport.names
               \/ hoTransport'.runs = 0 /\ hoTransport.names = Https /\ Taken
  <2>1. "wstunnel" \in units => hoTransport.unit # 0
    BY DEF UnitThere
  <2>2. CASE "wstunnel" \in units /\ (restart \/ hoTransport.runs = 0)
    <3>1. hoTransport' = Started(hoTransport, Taken)
      BY <2>2 DEF FixUnits
    <3> QED BY <1>1, <2>1, <3>1, StartedIs
  <2>3. CASE ~("wstunnel" \in units /\ (restart \/ hoTransport.runs = 0))
    <3>1. hoTransport' = hoTransport
      BY <2>3 DEF FixUnits
    <3> QED BY <1>1, <2>3, <3>1
  <2> QED BY <2>2, <2>3
<1>3. /\ hoListener' \in [unit : BOOLEAN, up : BOOLEAN] /\ hoListener'.unit = hoListener.unit
      /\ "enroll" \in units => hoListener'.up
  BY <1>1 DEF FixUnits
<1>4. /\ hoCaddy' \in [up : BOOLEAN, site : Nat, loaded : Nat] /\ hoCaddy'.site = hoCaddy.site
      /\ IF "caddy" \in units /\ ~hoCaddy.up THEN hoCaddy'.loaded = hoCaddy.site
                                            ELSE hoCaddy' = hoCaddy
  <2>1. CASE "caddy" \in units /\ ~hoCaddy.up
    <3>1. hoCaddy' = [hoCaddy EXCEPT !.up = TRUE, !.loaded = hoCaddy.site]
      BY <2>1 DEF FixUnits
    <3> QED BY <1>1, <2>1, <3>1
  <2>2. CASE ~("caddy" \in units /\ ~hoCaddy.up)
    <3>1. hoCaddy' = hoCaddy
      BY <2>2 DEF FixUnits
    <3> QED BY <1>1, <2>2, <3>1
  <2> QED BY <2>1, <2>2
<1>5. WgTypes' /\ WgSound' /\ ("wg" \in units => hoWg'.active /\ WgActive')
  <2>1. CASE "wg" \notin units
    <3>1. UNCHANGED <<hoWg, hoRules, hoForward>>
      BY <2>1 DEF FixUnits
    <3> QED BY <2>1, <3>1, WgUntouched
  <2>2. CASE "wg" \in units
    <3> DEFINE wg == [hoWg EXCEPT !.loose = ~hoWg.enabled]
               rules == IF WgActive THEN Less(hoRules, hoWg.conf.subnet) ELSE hoRules
    <3>1. QuickUp(wg, rules)
      BY <2>2 DEF FixUnits
    <3>2. hoKind = "systemd" /\ Configured(hoWg.conf)
      BY <2>2 DEF UnitThere
    <3>3. rules \in [Subnets -> Nat] /\ \A s \in Subnets \ hoWg.strays : rules[s] = 0
      BY <3>2, RulesWithout DEF Machine
    <3>4. /\ wg \in Interfaces /\ wg.conf = hoWg.conf /\ wg.strays = hoWg.strays
          /\ wg.enabled \/ wg.loose
      BY <1>1 DEF Interfaces
    <3> HIDE DEF wg, rules
    <3>5. Numbered(hoWg.conf) /\ hoWg.conf \in Configs /\ hoWg.conf.gen # 0
      BY <1>1, <3>2 DEF Machine, WgSound, Interfaces, Numbered
    <3>6. WgTypes' /\ WgSound'
      <4>1. Configured(wg.conf) /\ Numbered(wg.conf)
        BY <3>2, <3>4, <3>5
      <4>2. \A s \in Subnets \ wg.strays : rules[s] = 0
        BY <3>3, <3>4
      <4> QED BY <3>1, <3>3, <3>4, <4>1, <4>2, QuickUpEffect
    <3>7. hoWg' = [wg EXCEPT !.active = hoKind = "systemd", !.link = wg.conf.gen]
      BY <3>1 DEF QuickUp
    <3>8. hoWg'.link = hoWg.conf.gen
      BY <3>4, <3>7 DEF Interfaces
    <3>9. WgActive'
      BY <3>5, <3>8 DEF WgActive
    <3>10. hoWg'.active
      BY <3>2, <3>6, <3>9 DEF WgSound
    <3> QED BY <3>6, <3>9, <3>10
  <2> QED BY <2>1, <2>2
<1>6. HoTypeOK' /\ Machine'
  BY <1>2, <1>3, <1>4, <1>5, MachineKept DEF HoTypeOK, Machine, Elsewhere
<1> QED BY <1>2, <1>3, <1>4, <1>5, <1>6

(* A fix moves wstunnel only to what its unit names, ...                 *)
LEMMA FixListens ==
    ASSUME HoIInv, Listening, NEW o, ApplyFix(o) PROVE Listening'
<1>1. HoTypeOK /\ Machine /\ hoTransport \in Transports /\ hoConfig' = hoConfig
  BY DEF HoIInv, HoTypeOK, ApplyFix, hoMachine
<1>2. \/ hoTransport' = hoTransport
      \/ hoTransport' = Started(hoTransport, Taken)
  BY DEF ApplyFix, FixUnits, IpForwardFix, MasqueradeFix, hoServices
<1>3. CASE hoTransport' = Started(hoTransport, Taken)
  <2>1. /\ hoTransport'.unit = hoTransport.unit /\ hoTransport'.names = hoTransport.names
        /\ \/ hoTransport'.runs = 0
           \/ hoTransport'.runs = hoTransport.unit /\ hoTransport'.holds = hoTransport.names
    BY <1>1, <1>3, StartedIs
  <2> QED BY <1>1, <2>1, ListenKept
<1> QED BY <1>1, <1>2, <1>3, ListenKept

(* ... and starts nothing whose file is gone.                            *)
LEMMA FixLeft ==
    ASSUME HoIInv, Leftovers, NEW o, OfferKnown(o), ApplyFix(o) PROVE Leftovers'
<1>1. /\ HoTypeOK /\ Machine /\ WgSound /\ Configured(hoConfig)
      /\ UNCHANGED <<hoKind, hoBins, hoConfig, hoMissed>> /\ hoKind # "windows"
  BY DEF HoIInv, Machine, ApplyFix, OfferKnown, hoMachine, NoFault, Fault
<1>2. /\ hoTransport \in Transports /\ hoListener \in [unit : BOOLEAN, up : BOOLEAN]
      /\ hoCaddy \in [up : BOOLEAN, site : Nat, loaded : Nat] /\ hoWg \in Interfaces
      /\ hoConfig \in Configs
  BY <1>1 DEF HoTypeOK
<1>3. CASE FixUnits(Reached(o.units), o.check = "systemd")
  <2> DEFINE units == Reached(o.units)
             restart == o.check = "systemd"
  <2>1. FixUnits(units, restart)
    BY <1>3
  <2>2. \A u \in units : UnitThere(u)
    BY ReachedThere
  <2> HIDE DEF units, restart
  <2>3. WgLeftover'
    <3>1. CASE "wg" \notin units
      <4>1. UNCHANGED <<hoWg, hoRules>>
        BY <2>1, <3>1 DEF FixUnits
      <4> QED BY <1>1, <4>1, WgLeftoverKept DEF Leftovers
    <3>2. CASE "wg" \in units
      <4>1. Configured(hoWg.conf)
        BY <2>2, <3>2 DEF UnitThere
      <4> DEFINE wg == [hoWg EXCEPT !.loose = ~hoWg.enabled]
      <4>2. hoWg' = [wg EXCEPT !.active = hoKind = "systemd", !.link = wg.conf.gen]
        BY <2>1, <3>2 DEF FixUnits, QuickUp
      <4>3. hoWg'.conf = hoWg.conf /\ hoWg'.enabled = hoWg.enabled
        BY <1>2, <4>2 DEF Interfaces
      <4> QED BY <1>1, <4>1, <4>3 DEF Leftovers, WgLeftover
    <3> QED BY <3>1, <3>2
  <2>4. UnitLeftover'
    <3>1. \/ hoTransport' = hoTransport
          \/ hoTransport' = Started(hoTransport, Taken)
      BY <2>1 DEF FixUnits
    <3>2. /\ hoTransport'.unit = hoTransport.unit
          /\ \/ hoTransport'.runs = hoTransport.runs
             \/ hoTransport'.runs = hoTransport.unit
             \/ hoTransport'.runs = 0
      <4>1. CASE hoTransport' = hoTransport
        BY <4>1
      <4>2. CASE hoTransport' = Started(hoTransport, Taken)
        BY <1>2, <4>2, StartedIs
      <4> QED BY <3>1, <4>1, <4>2
    <3>3. /\ hoListener'.unit = hoListener.unit
          /\ hoListener'.up => hoListener.up \/ hoListener.unit
      BY <1>2, <2>1, <2>2 DEF FixUnits, UnitThere
    <3> QED BY <1>1, <3>2, <3>3 DEF Leftovers, UnitLeftover
  <2>5. CaddyLeftover'
    <3>1. CASE "caddy" \in units /\ ~hoCaddy.up
      <4>1. hoBins /\ hoCaddy' = [hoCaddy EXCEPT !.up = TRUE, !.loaded = hoCaddy.site]
        BY <2>1, <2>2, <3>1 DEF FixUnits, UnitThere
      <4>2. hoCaddy'.site = hoCaddy.site /\ hoCaddy'.loaded = hoCaddy.site
        BY <1>2, <4>1
      <4> QED BY <1>1, <4>1, <4>2 DEF Leftovers, CaddyLeftover
    <3>2. CASE ~("caddy" \in units /\ ~hoCaddy.up)
      <4>1. hoCaddy' = hoCaddy
        BY <2>1, <3>2 DEF FixUnits
      <4> QED BY <1>1, <4>1, CaddyLeftoverKept DEF Leftovers
    <3> QED BY <3>1, <3>2
  <2> QED BY <2>3, <2>4, <2>5 DEF Leftovers
<1>4. ASSUME UNCHANGED hoServices PROVE UnitLeftover' /\ CaddyLeftover'
  BY <1>1, <1>4, UnitLeftoverKept, CaddyLeftoverKept DEF hoServices, Leftovers
<1>5. CASE IpForwardFix
  BY <1>1, <1>4, <1>5, WgLeftoverKept DEF IpForwardFix, Leftovers
<1>6. CASE MasqueradeFix
  BY <1>1, <1>2, <1>4, <1>6, InstallLeft DEF MasqueradeFix, Leftovers
<1>7. CASE UNCHANGED <<hoWg, hoRules, hoForward, hoServices>>
  BY <1>1, <1>4, <1>7, WgLeftoverKept DEF Leftovers
<1> QED BY <1>3, <1>5, <1>6, <1>7 DEF ApplyFix

(* An automatic fix, of a report of any age, keeps the invariant.        *)
LEMMA FixKeeps ==
    ASSUME HoIInv, NEW o, OfferKnown(o), ApplyFix(o)
    PROVE  HoIInv'
<1>1. /\ HoIdle /\ Configured(hoConfig)
      /\ UNCHANGED <<hoKind, hoBins, hoConfig, hoWall, hoJob>>
  BY DEF ApplyFix, hoMachine
<1>2. HoTypeOK /\ Machine /\ WgSound
  BY DEF HoIInv, Machine
<1>3. o.units \in SUBSET Units /\ hoKind # "windows" /\ (o.units # {} => hoKind = "systemd")
  BY DEF OfferKnown
<1>4. CASE /\ o.check \in {"systemd", "listen", "loopback", "enroll"}
           /\ FixUnits(Reached(o.units), o.check = "systemd")
           /\ IF Reached(o.units) = o.units /\ Mends(o) THEN Heals(o) ELSE hoPromise' = Nothing
  <2> DEFINE units == Reached(o.units)
             restart == o.check = "systemd"
  <2>1. FixUnits(units, restart) /\ restart \in BOOLEAN
    BY <1>4
  <2>2. (\A u \in units : UnitThere(u)) /\ units \subseteq o.units
    BY ReachedThere
  <2>3. hoPromise' = Nothing \/ (units = o.units /\ Mends(o) /\ Heals(o))
    BY <1>4
  <2>4. restart <=> o.check = "systemd"
    OBVIOUS
  <2> HIDE DEF units, restart
  <2>5. units \in SUBSET Units /\ (units # {} => hoKind = "systemd")
    BY <1>3, <2>2
  <2>6. /\ HoTypeOK' /\ Machine'
        /\ "wg" \in units => hoWg'.active /\ WgActive'
        /\ "enroll" \in units => hoListener'.up
        /\ "wstunnel" \in units /\ (restart \/ hoTransport.runs = 0) =>
              /\ hoTransport.unit # 0
              /\ \/ hoTransport'.runs = hoTransport.unit /\ hoTransport'.holds = hoTransport.names
                 \/ hoTransport'.runs = 0 /\ hoTransport.names = Https /\ Taken
        /\ IF "caddy" \in units /\ ~hoCaddy.up THEN hoCaddy'.loaded = hoCaddy.site
                                              ELSE hoCaddy' = hoCaddy
    BY <1>1, <1>2, <2>1, <2>2, <2>5, FixUnitsEffect
  <2>7. CASE hoPromise' = Nothing
    <3>1. hoPromise'.says = "nothing"
      BY <2>7 DEF Nothing
    <3> QED BY <1>1, <2>6, <3>1, FixedSays
  <2>8. CASE units = o.units /\ Mends(o) /\ Heals(o)
    <3>1. /\ hoPromise'.says = "healed" /\ hoPromise'.by = o.check
          /\ hoPromise'.units = units /\ hoPromise'.port = Asked(o)
      BY <2>8 DEF Heals
    <3>2. ASSUME o.check \in {"listen", "loopback"} PROVE HoHealed'
      <4>1. CASE "caddy" \in units
        <5>1. ~hoCaddy.up /\ hoCaddy.site # 0 /\ Asked(o) = Https
          BY <2>8, <3>2, <4>1 DEF Mends
        <5>2. Taken'
          BY <2>6, <4>1, <5>1 DEF Taken
        <5> QED BY <3>1, <3>2, <5>1, <5>2 DEF HoHealed, Held
      <4>2. CASE "caddy" \notin units
        <5>1. "wstunnel" \in units /\ hoTransport.runs = 0 /\ hoTransport.names = Asked(o)
          BY <2>8, <3>2, <4>2 DEF Mends, OfferKnown
        <5>2. Taken => Taken'
          BY <2>6, <4>2 DEF Taken
        <5>3. \/ hoTransport'.runs # 0 /\ hoTransport'.holds = Asked(o)
              \/ Asked(o) = Https /\ Taken'
          BY <2>6, <5>1, <5>2
        <5>4. Asked(o) \in Held'
          BY <5>3 DEF Held
        <5> QED BY <3>1, <3>2, <5>4 DEF HoHealed
      <4> QED BY <4>1, <4>2
    <3>3. ASSUME o.check = "systemd" PROVE HoHealed'
      <4>1. "wstunnel" \in units => hoTransport'.runs # 0
        BY <2>4, <2>6, <2>8, <3>3 DEF Mends
      <4>2. \A u \in units : CASE u = "wstunnel" -> hoTransport'.runs # 0
                               [] u = "wg" -> hoWg'.active /\ WgActive'
                               [] u = "enroll" -> hoListener'.up
        BY <2>5, <2>6, <2>8, <3>3, <4>1 DEF Units, OfferKnown
      <4> QED BY <3>1, <3>3, <4>2 DEF HoHealed
    <3>4. ASSUME o.check = "enroll" PROVE HoHealed'
      <4>1. units = {"enroll"} /\ hoListener'.up
        BY <2>6, <2>8, <3>4 DEF OfferKnown
      <4>2. \A u \in units : CASE u = "wstunnel" -> hoTransport'.runs # 0
                               [] u = "wg" -> hoWg'.active /\ WgActive'
                               [] u = "enroll" -> hoListener'.up
        BY <4>1
      <4> QED BY <3>1, <3>4, <4>2 DEF HoHealed
    <3>5. HoHealed'
      BY <1>4, <3>2, <3>3, <3>4
    <3> QED BY <1>1, <2>6, <3>1, <3>5, FixedSays
  <2> QED BY <2>3, <2>7, <2>8
<1>5. CASE o.check = "forwarding" /\ IpForwardFix /\ Heals(o)
  <2>1. /\ hoForward' = [now |-> TRUE, kept |-> TRUE]
        /\ UNCHANGED <<hoWg, hoRules, hoTransport, hoListener, hoCaddy>>
    BY <1>5 DEF IpForwardFix, hoServices
  <2>2. WgTypes' /\ WgSound'
    <3>1. WgTypes'
      BY <1>2, <2>1 DEF WgTypes, HoTypeOK
    <3>2. WgSound'
      BY <1>1, <1>2, <2>1 DEF WgSound, Numbered, Configured, WgActive, RulesCounted
    <3> QED BY <3>1, <3>2
  <2>3. HoTypeOK' /\ Machine'
    BY <1>1, <1>2, <2>1, <2>2, MachineKept DEF HoTypeOK, Machine, Elsewhere
  <2>4. hoPromise'.says = "healed" /\ hoPromise'.by = "forwarding"
    BY <1>5 DEF Heals
  <2>5. HoHealed'
    BY <2>1, <2>4 DEF HoHealed
  <2> QED BY <1>1, <2>3, <2>4, <2>5, FixedSays
<1>6. CASE /\ o.check = "nat" /\ MasqueradeFix
           /\ IF WgActive \/ hoWg.active THEN hoPromise' = Nothing ELSE Heals(o)
  <2>1. InstallWg(hoConfig) /\ UNCHANGED <<hoTransport, hoListener, hoCaddy>>
    BY <1>6 DEF MasqueradeFix, hoServices
  <2>2. hoConfig \in Configs /\ hoConfig.gen # 0
    BY <1>1, <1>2 DEF HoTypeOK, Machine, Numbered
  <2>3. WgTypes' /\ WgSound'
    BY <1>1, <1>2, <1>3, <2>1, <2>2, InstallEffect
  <2>4. HoTypeOK' /\ Machine'
    BY <1>1, <1>2, <2>1, <2>3, MachineKept DEF HoTypeOK, Machine, Elsewhere
  <2>5. CASE WgActive \/ hoWg.active
    <3>1. hoPromise'.says = "nothing"
      BY <1>6, <2>5 DEF Nothing
    <3> QED BY <1>1, <2>4, <3>1, FixedSays
  <2>6. CASE ~(WgActive \/ hoWg.active)
    <3>1. /\ hoPromise'.says = "healed" /\ hoPromise'.by = "nat"
          /\ hoPromise'.subnet = hoConfig.subnet
      BY <1>6, <2>6 DEF Heals
    <3>2. QuickUp(Installed(hoConfig), hoRules)
      BY <2>1, <2>6 DEF InstallWg
    <3>3. Installed(hoConfig).conf = hoConfig
      <4>1. Filed(hoConfig) \in Interfaces /\ Filed(hoConfig).conf = hoConfig
        BY <1>2, <2>2, FiledIs
      <4> QED BY <4>1 DEF Installed, Interfaces
    <3>4. hoRules' = More(hoRules, hoConfig.subnet)
      BY <3>2, <3>3 DEF QuickUp
    <3>5. hoConfig.subnet \in Subnets /\ hoRules \in [Subnets -> Nat]
      BY <1>1, <1>2, <2>2 DEF Configured, Configs, Names, HoTypeOK
    <3>6. hoRules'[hoConfig.subnet] > 0
      BY <3>4, <3>5, MoreCount
    <3>7. HoHealed'
      BY <3>1, <3>6 DEF HoHealed
    <3> QED BY <1>1, <2>4, <3>1, <3>7, FixedSays
  <2> QED BY <2>5, <2>6
<1>7. CASE hoPromise' = Nothing /\ UNCHANGED <<hoWg, hoRules, hoForward, hoServices>>
  <2>1. UNCHANGED <<hoWg, hoRules, hoForward, hoTransport, hoListener, hoCaddy>>
    BY <1>7 DEF hoServices
  <2>2. HoTypeOK' /\ Machine'
    BY <1>1, <1>2, <2>1, MachineStays
  <2>3. hoPromise'.says = "nothing"
    BY <1>7 DEF Nothing
  <2> QED BY <1>1, <2>2, <2>3, FixedSays
<1> QED BY <1>4, <1>5, <1>6, <1>7 DEF ApplyFix

-----------------------------------------------------------------------------
(* The theorems.                                                         *)

(* What is promised in a form a reboot keeps is what HoKeepsWord asks    *)
(* for.                                                                  *)
LEMMA WordKept ==
    ASSUME HoIInv, Listening, Leftovers PROVE HoKeepsWord
<1> SUFFICES ASSUME HoIdle
             PROVE  /\ hoPromise.says = "serves" => HoServes
                    /\ hoPromise.says = "bare" => HoBare
                    /\ hoPromise.says = "healed" => HoHealed
  BY DEF HoKeepsWord
<1>1. HoTypeOK /\ Machine /\ Said
  BY DEF HoIInv
<1>2. ASSUME hoPromise.says = "serves" PROVE HoServes
  <2>1. PICK by : by = hoPromise.by
    OBVIOUS
  <2>2. Serves(by)
    BY <1>1, <1>2, <2>1 DEF Said
  <2>3. Configured(hoConfig) /\ hoConfig.gen # 0 /\ hoKind \in Kinds
    BY <1>1, <2>2 DEF Serves, Machine, Numbered, HoTypeOK
  <2>4. WgServes
    <3>1. WgReady(by)
      BY <2>2 DEF Serves
    <3>2. hoConfig.subnet \in Subnets
      BY <1>1, <2>3 DEF HoTypeOK, Configs, Configured, Names
    <3>3. CASE hoKind = "systemd"
      BY <3>1, <3>3 DEF WgReady, WgServes
    <3>4. CASE hoKind = "container"
      BY <2>1, <3>1, <3>4 DEF WgReady, WgServes
    <3>5. CASE hoKind = "windows"
      BY <3>1, <3>5 DEF WgReady, WgServes
    <3> QED BY <2>3, <3>3, <3>4, <3>5 DEF Kinds
  <2>5. hoTransport.runs = hoConfig.gen => hoTransport.holds = WsPort(hoConfig)
    BY <2>3 DEF Listening
  <2>6. hoKind = "systemd" \/ by = "start" => TransportServes
    <3>1. CASE hoKind = "systemd"
      BY <2>1, <2>2, <2>5, <3>1 DEF Serves, WstunnelReady, ListenerReady, TransportServes
    <3>2. CASE by = "start"
      BY <2>2, <2>3, <2>5, <3>2 DEF Serves, TransportServes
    <3> QED BY <3>1, <3>2
  <2>7. by = "setup" => /\ hoWall # "shut" \/ "port" \in hoMissed
                        /\ hoConfig.domain => hoCaddy.loaded = hoConfig.gen
    BY <2>2 DEF Serves, FrontReady
  <2> QED BY <2>1, <2>4, <2>6, <2>7 DEF HoServes
<1>3. ASSUME hoPromise.says = "bare" PROVE HoBare
  <2>1. Bare
    BY <1>1, <1>3 DEF Said
  <2>2. \/ "wireguard" \in hoMissed
        \/ ~WgActive /\ ~hoWg.enabled /\ \A s \in Subnets \ hoWg.strays : hoRules[s] = 0
    <3>1. SUFFICES ASSUME "wireguard" \notin hoMissed
                   PROVE  /\ ~WgActive /\ ~hoWg.enabled
                          /\ \A s \in Subnets \ hoWg.strays : hoRules[s] = 0
      OBVIOUS
    <3>2. /\ ~WgActive /\ ~hoWg.enabled
          /\ hoKind = "windows" => \A s \in Subnets : hoRules[s] = 0
      BY <2>1, <3>1 DEF Leftovers, WgLeftover, Bare, WgBare, WgActive
    <3>3. ASSUME hoKind # "windows", NEW s \in Subnets \ hoWg.strays PROVE hoRules[s] = 0
      <4>1. hoRules[s] \in Nat /\ hoRules[s] <= 0
        BY <1>1, <3>2, <3>3 DEF HoTypeOK, Machine, WgSound, RulesCounted
      <4> QED BY <4>1
    <3> QED BY <3>2, <3>3
  <2>3. hoKind = "systemd" => /\ "wstunnel" \in hoMissed \/ hoTransport.runs = 0
                              /\ "enroll" \in hoMissed \/ ~hoListener.up
                              /\ "front" \in hoMissed \/ hoCaddy.loaded = 0
    BY <2>1 DEF Leftovers, UnitLeftover, CaddyLeftover, Bare
  <2> QED BY <2>1, <2>2, <2>3 DEF Bare, WgBare, HoBare
<1>4. hoPromise.says = "healed" => HoHealed
  BY <1>1 DEF Said
<1> QED BY <1>2, <1>3, <1>4

(* The checks where there is no Windows.                                 *)
LEMMA UnixChecks ==
    ASSUME hoKind # "windows"
    PROVE  /\ DOMAIN GatherChecks = {"caddy", "certificate", "kmod", "systemd", "listen",
                                     "loopback", "wg", "enroll", "forwarding", "nat"}
           /\ GatherChecks["caddy"] = CheckCaddyFront
           /\ GatherChecks["certificate"] = CheckPublicCertificate
           /\ GatherChecks["kmod"] = CheckKmod
           /\ GatherChecks["systemd"] = CheckSystemd
           /\ GatherChecks["listen"] = CheckListen443
           /\ GatherChecks["loopback"] = CheckListenInternalWs
           /\ GatherChecks["wg"] = CheckListenWg
           /\ GatherChecks["enroll"] = CheckEnrollListener
           /\ GatherChecks["forwarding"] = CheckIpForward
           /\ GatherChecks["nat"] = CheckNatMasquerade
BY DEF GatherChecks

(* A server that was reported to serve passes the checks, ...            *)
LEMMA ServedPasses ==
    ASSUME HoIInv, Listening, hoPromise.says = "serves", hoKind = "systemd", ~PortLost,
           hoWg.gone => WgActive
    PROVE  Failures \subseteq Overlooked
<1> USE DEF Report, Good, Bad, Skipped, Check, Fixable, FixableIf
<1>1. PICK by : by = hoPromise.by
  OBVIOUS
<1>2. Serves(by) /\ HoTypeOK /\ Machine
  BY <1>1 DEF HoIInv, Said
<1>3. hoConfig.gen # 0
  BY <1>2 DEF Serves, Machine, Numbered
<1>4. /\ hoTransport.runs # 0 /\ hoListener.up
      /\ by # "setup" => hoTransport.holds = WsPort(hoConfig)
  BY <1>2 DEF Serves, WstunnelReady, ListenerReady, Listening
<1>5. hoForward.now /\ hoRules[hoConfig.subnet] > 0 /\ WgActive
  BY <1>2, <1>3 DEF Serves, WgReady, WgActive
<1>6. hoWg.active
  BY <1>2, <1>5 DEF Machine, WgSound
<1>7. hoConfig.domain /\ by = "setup" => hoBins /\ hoCaddy.site # 0 /\ hoCaddy.loaded # 0
  BY <1>2, <1>3 DEF Serves, FrontReady
<1>8. CheckPublicCertificate.status # "fail"
  BY DEF CheckPublicCertificate
<1>9. CheckKmod.status # "fail"
  BY DEF CheckKmod
<1>10. CheckSystemd.status # "fail"
  <2>1. Inactive = {}
    BY <1>4, <1>6 DEF Inactive
  <2> QED BY <2>1 DEF CheckSystemd
<1>11. CheckEnrollListener.status # "fail"
  BY <1>4 DEF CheckEnrollListener, CheckPort
<1>12. CheckIpForward.status # "fail"
  BY <1>5 DEF CheckIpForward
<1>13. CheckNatMasquerade.status # "fail"
  BY <1>5 DEF CheckNatMasquerade
<1>14. hoTransport.holds \in Held /\ (Taken => Https \in Held)
  BY <1>4 DEF Held
<1>15. CheckListenInternalWs.status = "fail" => "loopback" \in Overlooked
  <2>1. SUFFICES ASSUME CheckListenInternalWs.status = "fail" PROVE "loopback" \in Overlooked
    OBVIOUS
  <2>2. hoConfig.domain /\ hoConfig.inner \notin Held
    BY <2>1 DEF CheckListenInternalWs, CheckPort
  <2>3. hoTransport.holds # WsPort(hoConfig)
    BY <1>14, <2>2 DEF WsPort
  <2> QED BY <1>1, <1>4, <2>2, <2>3 DEF Overlooked
<1>16. CheckListen443.status = "fail" => "listen" \in Overlooked
  <2>1. SUFFICES ASSUME CheckListen443.status = "fail" PROVE "listen" \in Overlooked
    OBVIOUS
  <2>2. hoConfig.port \notin Held
    BY <2>1 DEF CheckListen443, CheckPort
  <2>3. CASE ~hoConfig.domain
    <3>1. hoTransport.holds # WsPort(hoConfig)
      BY <1>14, <2>2, <2>3 DEF WsPort
    <3> QED BY <1>1, <1>4, <2>3, <3>1 DEF Overlooked
  <2>4. CASE hoConfig.domain /\ by = "setup"
    <3>1. hoConfig.port # Https
      BY <1>7, <1>14, <2>2, <2>4 DEF Taken
    <3> QED BY <2>4, <3>1 DEF Overlooked
  <2>5. CASE hoConfig.domain /\ by # "setup"
    BY <1>1, <2>5 DEF Overlooked
  <2> QED BY <2>3, <2>4, <2>5
<1>17. CheckCaddyFront.status = "fail" => "caddy" \in Overlooked
  <2>1. CheckCaddyFront.status = "fail" => hoConfig.domain /\ by # "setup"
    BY <1>7 DEF CheckCaddyFront
  <2> QED BY <1>1, <2>1 DEF Overlooked
<1>18. "wg" \in Overlooked
  BY DEF Overlooked
<1> SUFFICES ASSUME NEW c \in DOMAIN GatherChecks, GatherChecks[c].status = "fail"
             PROVE  c \in Overlooked
  BY DEF Failures
<1>19. c \in {"caddy", "listen", "loopback", "wg"}
  BY <1>8, <1>9, <1>10, <1>11, <1>12, <1>13, UnixChecks
<1> QED BY <1>15, <1>16, <1>17, <1>18, <1>19, UnixChecks

(* ... and one that passes them carries traffic.                         *)
LEMMA PassedCarries ==
    ASSUME HoIInv, Listening, Leftovers, Configured(hoConfig), ~PortLost,
           Failures \subseteq {"wg"}
    PROVE  HoCarries
<1> USE DEF Report, Good, Bad, Skipped, Check, Fixable, FixableIf
<1>1. HoTypeOK /\ Machine
  BY DEF HoIInv
<1>2. hoConfig.subnet \in Subnets /\ hoRules[hoConfig.subnet] \in Nat /\ hoKind \in Kinds
  BY <1>1 DEF HoTypeOK, Configs, Configured, Names
<1>3. hoConfig.port \in Ports /\ hoConfig.inner \in InnerPorts
  BY DEF Listening
<1>4. ASSUME ~hoConfig.domain, hoConfig.port \in Held
      PROVE  hoTransport.runs # 0 /\ hoTransport.holds = WsPort(hoConfig)
  BY <1>4 DEF Held, PortLost, WsPort
<1>5. ASSUME hoConfig.domain, hoConfig.inner \in Held, hoConfig.port \in Held
      PROVE  hoTransport.runs # 0 /\ hoTransport.holds = WsPort(hoConfig) /\ hoCaddy.loaded # 0
  <2>1. hoConfig.inner # Https /\ hoConfig.inner # hoConfig.port
    BY <1>3, ServerHostAssumption
  <2>2. hoTransport.runs # 0 /\ hoTransport.holds = hoConfig.inner
    BY <1>5, <2>1 DEF Held
  <2>3. Taken
    BY <1>5, <2>1, <2>2 DEF Held
  <2> QED BY <1>5, <2>2, <2>3 DEF WsPort, Taken
<1>6. CASE hoKind = "windows"
  <2>1. GatherChecks =
          [caddy |-> CheckCaddyFront, certificate |-> CheckPublicCertificate,
           forwarding |-> CheckWinForwarding, iface |-> CheckWinIface,
           provider |-> CheckWinProvider, nat |-> CheckWinNat, service |-> CheckWinService,
           wstunnel |-> CheckWinWstunnel, listen |-> CheckWinListen,
           enroll |-> CheckWinEnroll, firewall |-> CheckWinFirewall]
    BY <1>6 DEF GatherChecks
  <2>2. \A c \in {"forwarding", "iface", "nat", "listen", "enroll"} :
           c \in DOMAIN GatherChecks /\ c \notin Failures
    BY <2>1
  <2>3. \A c \in {"forwarding", "iface", "nat", "listen", "enroll"} :
           GatherChecks[c].status # "fail"
    BY <2>2 DEF Failures
  <2>4. /\ CheckWinForwarding.status # "fail" /\ CheckWinIface.status # "fail"
        /\ CheckWinNat.status # "fail" /\ CheckWinListen.status # "fail"
        /\ CheckWinEnroll.status # "fail"
    BY <2>1, <2>3
  <2>5. hoForward.now /\ WgActive
    BY <2>4 DEF CheckWinForwarding, CheckWinIface
  <2>6. hoRules[hoConfig.subnet] > 0 /\ hoConfig.port \in Held /\ hoListener.up
    BY <2>4 DEF CheckWinNat, CheckWinListen, CheckWinEnroll
  <2>7. hoConfig.domain = FALSE
    BY <1>1, <1>6 DEF Machine, Elsewhere
  <2> QED BY <1>4, <2>5, <2>6, <2>7 DEF HoCarries
<1>7. CASE hoKind # "windows"
  <2>1. \A c \in {"kmod", "systemd", "listen", "loopback", "enroll", "forwarding", "nat"} :
           c \in DOMAIN GatherChecks /\ c \notin Failures
    BY <1>7, UnixChecks
  <2>2. \A c \in {"kmod", "systemd", "listen", "loopback", "enroll", "forwarding", "nat"} :
           GatherChecks[c].status # "fail"
    BY <2>1 DEF Failures
  <2>3. /\ CheckKmod.status # "fail" /\ CheckSystemd.status # "fail"
        /\ CheckListen443.status # "fail" /\ CheckListenInternalWs.status # "fail"
        /\ CheckEnrollListener.status # "fail"
        /\ CheckIpForward.status # "fail" /\ CheckNatMasquerade.status # "fail"
    BY <1>7, <2>2, UnixChecks
  <2>4. hoListener.up
    BY <2>3 DEF CheckEnrollListener, CheckPort
  <2>5. hoForward.now
    BY <2>3 DEF CheckIpForward
  <2>6. hoRules[hoConfig.subnet] > 0
    BY <1>2, <2>3 DEF CheckNatMasquerade
  <2>7. hoConfig.port \in Held /\ (hoConfig.domain => hoConfig.inner \in Held)
    BY <2>3 DEF CheckListen443, CheckListenInternalWs, CheckPort
  <2>8. WgActive \/ hoWg.gone
    <3>1. CASE hoKind = "container"
      BY <2>3, <3>1 DEF CheckKmod
    <3>2. CASE hoKind = "systemd"
      <4>1. Inactive = {}
        BY <2>3, <3>2 DEF CheckSystemd
      <4>2. hoWg.active
        BY <4>1 DEF Inactive
      <4> QED BY <1>1, <4>2 DEF Machine, WgSound
    <3> QED BY <1>2, <1>7, <3>1, <3>2 DEF Kinds
  <2> QED BY <1>4, <1>5, <2>4, <2>5, <2>6, <2>7, <2>8 DEF HoCarries
<1> QED BY <1>6, <1>7

(* Both directions together.                                             *)
LEMMA DoctorRight ==
    ASSUME HoIInv, Listening, Leftovers PROVE DrAgrees
BY ServedPasses, PassedCarries DEF DrAgrees

\* The invariant of the machine and of the report on the screen.
DrIInv == HoIInv /\ Listening /\ Leftovers /\ OffersKnown

(* What changes none of the machine's variables keeps it.                *)
LEMMA HostStays ==
    ASSUME HoIInv, Listening, Leftovers, UNCHANGED hoVars PROVE HoIInv' /\ Listening' /\ Leftovers'
<1>1. UNCHANGED <<hoKind, hoBins, hoConfig, hoWg, hoRules, hoForward, hoWall, hoTransport,
                  hoListener, hoCaddy, hoJob, hoPromise, hoMissed>>
  BY DEF hoVars, hoMachine, hoWgVars, hoServices
<1>2. HoIInv'
  BY <1>1, MachineStays, CourseStays DEF HoIInv, OnCourse
<1>3. Listening'
  BY <1>1, ListenKept DEF HoIInv
<1>4. Leftovers'
  BY <1>1, WgLeftoverKept, UnitLeftoverKept, CaddyLeftoverKept DEF Leftovers
<1> QED BY <1>2, <1>3, <1>4

(* Every step of the doctor, of the interfaces and of the machine keeps  *)
(* the invariant.                                                        *)
LEMMA DoctorStep ==
    ASSUME DrIInv, [DrNext]_drVars PROVE DrIInv'
<1>1. HoIInv /\ Listening /\ Leftovers /\ OffersKnown /\ HoTypeOK
  BY DEF DrIInv, HoIInv
<1>2. CASE HoNext /\ UNCHANGED drOffers
  <2>1. OffersKnown'
    BY <1>1, <1>2, KindKept DEF OffersKnown, OfferKnown
  <2> QED BY <1>1, <1>2, <2>1, HostKeeps, ListeningKeeps, LeftoversKeep DEF DrIInv
<1>3. CASE DoctorRun
  <2>1. UNCHANGED hoVars /\ drOffers' = Offers
    BY <1>3 DEF DoctorRun
  <2>2. hoKind' = hoKind
    BY <2>1 DEF hoVars, hoMachine
  <2>3. OffersKnown'
    BY <1>1, <2>1, <2>2, OffersAre DEF OffersKnown, OfferKnown
  <2> QED BY <1>1, <2>1, <2>3, HostStays DEF DrIInv
<1>4. ASSUME NEW o, OfferKnown(o), ApplyFix(o), drOffers' \in {drOffers, {}} PROVE DrIInv'
  <2>1. hoKind' = hoKind
    BY <1>4 DEF ApplyFix, hoMachine
  <2>2. OffersKnown'
    BY <1>1, <1>4, <2>1 DEF OffersKnown, OfferKnown
  <2> QED BY <1>1, <1>4, <2>2, FixKeeps, FixListens, FixLeft DEF DrIInv
<1>5. CASE TuiFix
  <2>1. PICK o \in drOffers : ApplyFix(o) /\ drOffers' = {}
    BY <1>5 DEF TuiFix
  <2>2. OfferKnown(o)
    BY <1>1 DEF OffersKnown
  <2> QED BY <1>4, <2>1, <2>2
<1>6. CASE PanelFix
  <2>1. PICK o \in Offers : ApplyFix(o) /\ drOffers' = drOffers
    BY <1>6 DEF PanelFix
  <2>2. OfferKnown(o)
    BY <1>1, OffersAre
  <2> QED BY <1>4, <2>1, <2>2
<1>7. CASE UNCHANGED drVars
  <2>1. UNCHANGED hoVars /\ UNCHANGED drOffers
    BY <1>7 DEF drVars
  <2>2. hoKind' = hoKind
    BY <2>1 DEF hoVars, hoMachine
  <2>3. OffersKnown'
    BY <1>1, <2>1, <2>2 DEF OffersKnown, OfferKnown
  <2> QED BY <1>1, <2>1, <2>3, HostStays DEF DrIInv
<1> QED BY <1>2, <1>3, <1>5, <1>6, <1>7 DEF DrNext

(* At the start nothing is there.                                        *)
LEMMA HostStart ==
    ASSUME DrInit PROVE DrIInv
<1>1. HoInit /\ drOffers = {}
  BY DEF DrInit
<1>2. ~Configured(NoConfig) /\ NoConfig \in Configs
  BY DEF NoConfig, Configured, Configs, Names, PortNames
<1>3. /\ hoWg = [conf |-> NoConfig, enabled |-> FALSE, active |-> FALSE, link |-> 0,
                 gone |-> FALSE, loose |-> FALSE, strays |-> {}]
      /\ hoConfig = NoConfig /\ hoRules = [s \in Subnets |-> 0]
      /\ hoKind # "systemd" => hoBins = FALSE
      /\ hoForward = [now |-> hoKind = "container", kept |-> FALSE]
  BY <1>1 DEF HoInit
<1>4. /\ hoWg \in Interfaces /\ hoWg.conf = NoConfig /\ hoWg.link = 0
      /\ hoWg.active = FALSE /\ hoWg.enabled = FALSE
  BY <1>2, <1>3 DEF Interfaces
<1>5. hoRules \in [Subnets -> Nat] /\ \A s \in Subnets : hoRules[s] = 0
  BY <1>3
<1>6. hoForward \in [now : BOOLEAN, kept : BOOLEAN]
  BY <1>3
<1>7. /\ hoTransport = [unit |-> 0, names |-> "none", runs |-> 0, holds |-> "none"]
      /\ hoListener = [unit |-> FALSE, up |-> FALSE]
      /\ hoCaddy = [up |-> FALSE, site |-> 0, loaded |-> 0]
  BY <1>1 DEF HoInit
<1>8. hoKind \in Kinds /\ hoBins \in BOOLEAN /\ hoWall \in {"off", "shut", "open"}
  BY <1>1 DEF HoInit
<1>9. HoTypeOK
  <2>1. hoTransport \in Transports
    BY <1>7 DEF Transports, PortNames
  <2> QED BY <1>2, <1>3, <1>4, <1>5, <1>6, <1>7, <1>8, <2>1 DEF HoTypeOK
<1>10. Machine
  <2>1. WgSound
    BY <1>2, <1>4, <1>5 DEF WgSound, Numbered, WgActive, RulesCounted
  <2>2. Elsewhere
    BY <1>3, <1>7 DEF Elsewhere, NoConfig
  <2> QED BY <1>2, <1>3, <2>1, <2>2 DEF Machine, Numbered
<1>11. hoJob = NoJob /\ hoPromise.says = "nothing" /\ hoJob.op = "none"
  BY <1>1 DEF HoInit, Nothing, NoJob
<1>12. JobShape /\ Said /\ Planned /\ Progress
  BY <1>11 DEF JobShape, JobRecord, NoJob, HoIdle, Said, Planned, Progress, Done
<1>13. Listening
  BY <1>2, <1>3, <1>7 DEF Listening, NoConfig
<1>14. Leftovers
  BY <1>3, <1>4, <1>5, <1>7 DEF Leftovers, WgLeftover, UnitLeftover, CaddyLeftover
<1> QED BY <1>1, <1>9, <1>10, <1>12, <1>13, <1>14 DEF DrIInv, HoIInv, OffersKnown

(* The invariant of the machine, for any subnets, ports and answers to   *)
(* the wizard and any number of commands, configurations and faults      *)
(* (platforms/linux.py, windows.py, kubernetes.py; setup_wizard.py,      *)
(* operations.py, cli.py, api.py).                                       *)
THEOREM HostInvariant == DrSpec => []DrIInv
<1>1. DrInit => DrIInv
  BY HostStart
<1>2. DrIInv /\ [DrNext]_drVars => DrIInv'
  BY DoctorStep
<1> QED BY <1>1, <1>2, PTL DEF DrSpec

(* What a setup, a restart, a start or a change of settings that ended   *)
(* well has said is so, and is so again after a reboot; an uninstall     *)
(* without warnings leaves nothing but strays; an automatic fix has      *)
(* reached what its check asks for: whatever failed, was killed or half  *)
(* done before, and each part alone excused that a program run without a *)
(* look at how it ended was about (cli.py, operations.py,                *)
(* diagnostics.py).                                                      *)
THEOREM PromisesKept == DrSpec => []HoKeepsWord
<1>1. DrIInv => HoKeepsWord
  BY WordKept DEF DrIInv
<1> QED BY <1>1, HostInvariant, PTL

(* A server that was reported to serve passes the checks of the doctor,  *)
(* the port it is configured for among them, and one that passes them    *)
(* carries traffic on that port (diagnostics.py: gather_checks).         *)
THEOREM DoctorAgrees == DrSpec => []DrAgrees
<1>1. DrIInv => DrAgrees
  BY DoctorRight DEF DrIInv
<1> QED BY <1>1, HostInvariant, PTL
==============================================================================
