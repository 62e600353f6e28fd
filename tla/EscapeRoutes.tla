---------------------------- MODULE EscapeRoutes ----------------------------
(***************************************************************************)
(* Which addresses the client dials and which ones it keeps outside the    *)
(* tunnel (fallback.py, routing.py, dnscache.py, wireguard.py,             *)
(* killswitch.py and the resolution in tunnel.py).  A name is looked up    *)
(* three times: for the rungs of the ladder, by the resolver each of them  *)
(* trusts; for the AllowedIPs of the WireGuard configuration; and for the  *)
(* allowlist of the kill switch, when the tunnel is lost.  A lookup that   *)
(* fails takes the last answer any of them remembered.  The network may    *)
(* lie about the server's name, and the server may move.                   *)
(***************************************************************************)
EXTENDS Naturals

CONSTANTS
    MaxLosses,      \* bound: tunnels lost, and attempts after the first
    MaxWeather      \* bound: changes of the network

ASSUME EscapeRoutesAssumption == MaxLosses \in Nat /\ MaxWeather \in Nat

Names == {"server", "front"}    \* the profile's endpoint, a provisioned front's
Unresolved == "none"

\* build_ladder: the direct rung, the same by the public resolver, and a front
\* the server's admin has provisioned.
LadderRungs ==
    {[id |-> "direct", order |-> 1, name |-> "server", hostile |-> FALSE],
     [id |-> "direct-hostile", order |-> 2, name |-> "server", hostile |-> TRUE],
     [id |-> "front", order |-> 3, name |-> "front", hostile |-> FALSE]}

\* A rung as it is dialled: with the address its name has been resolved to.
Dialable(r, address) ==
    [id |-> r.id, order |-> r.order, name |-> r.name, address |-> address]

VARIABLES
    esMode,     \* [hostile, fallback]: network.hostile_mode is "on", fallback.enabled
    esHome,     \* the address of each name
    esLies,     \* the system resolver is intercepted
    esCache,    \* dnscache: the last address remembered for each name
    esSticky,   \* the rung that last worked on this network, "" for none
    esAt,       \* "down", "probed", "resolved", "trying", "up", "lost"
    esLadder,   \* the rungs left to try, Dialable
    esOutside,  \* addresses excluded from the AllowedIPs of the tunnel of this attempt
    esDialled,  \* the address wstunnel is started with, Unresolved for none
    esSwitch,   \* the kill switch: [on, allow]
    esUnsteady, \* history: the network changed, "ever" and "since" the last attempt began
    esLosses, esWeather

esWorld == <<esHome, esLies, esUnsteady, esWeather>>
esVars == <<esMode, esWorld, esCache, esSticky, esAt, esLadder, esOutside, esDialled, esSwitch,
            esLosses>>

EsInit ==
    /\ esMode \in [hostile : BOOLEAN, fallback : BOOLEAN]
    /\ esHome = [n \in Names |-> IF n = "server" THEN "a" ELSE "c"]
    /\ esLies = FALSE /\ esUnsteady = {} /\ esWeather = 0
    /\ esCache = [n \in Names |-> Unresolved] /\ esSticky = ""
    /\ esAt = "down" /\ esLadder = {} /\ esOutside = {} /\ esDialled = Unresolved
    /\ esSwitch = [on |-> FALSE, allow |-> {}]
    /\ esLosses = 0

-----------------------------------------------------------------------------
(* Helpers: the ladder and the lookups.                                    *)

Ladder ==
    LET usable == {r \in LadderRungs : ~(esMode.hostile /\ r.id = "direct")}
    IN  IF esMode.fallback THEN usable
        ELSE {r \in usable : \A q \in usable : r.order <= q.order}

\* reorder_for_sticky: the rung to dial before all others.
Place(r) == IF r.id = esSticky THEN 0 ELSE r.order
Foremost(rungs) == CHOOSE r \in rungs : \A q \in rungs : Place(r) <= Place(q)

\* A resolver can be reached unless the kill switch is engaged.
Answers(n) ==
    IF esSwitch.on THEN {Unresolved}
    ELSE {Unresolved, IF esLies /\ n = "server" THEN "lie" ELSE esHome[n]}
PublicAnswers(n) == IF esSwitch.on THEN {Unresolved} ELSE {Unresolved, esHome[n]}

Or(answer, fallback) == IF answer = Unresolved THEN fallback ELSE answer
Remember(cache, answers) == [n \in Names |-> Or(answers[n], cache[n])]

\* escape_set: the endpoint and that of every rung, and the addresses they dial.
EscapeNames(rungs) == {"server"} \cup {r.name : r \in rungs}
\* Mutant of EscapeAddresses: the rungs' addresses are left out.
EscapeNoAddresses(rungs) == {r \in rungs : FALSE}
EscapeAddresses(rungs) == {r.address : r \in rungs} \ {Unresolved}

\* _resolve_bypass_networks: the system's answers, or the last known ones.
BypassNetworks(answers, names) ==
    {Or(answers[n], esCache[n]) : n \in names} \ {Unresolved}

\* Only the names that are looked up can be answered.
SystemAnswers(names) ==
    {a \in [Names -> {Unresolved, "lie"} \cup {esHome[n] : n \in Names}] :
        \A n \in Names : a[n] \in IF n \in names THEN Answers(n) ELSE {Unresolved}}

-----------------------------------------------------------------------------
(* Tunnel.connect.                                                         *)

\* The port of a direct rung is probed; nothing to dial fails the attempt before
\* WireGuard is touched: RECONNECTING or FAILED is next, as for a tunnel that is lost.
Preflight ==
    /\ esAt = "down" /\ esLosses < MaxLosses
    /\ \/ esAt' = "probed" /\ UNCHANGED esLosses
       \/ esAt' = "lost" /\ esLosses' = esLosses + 1
    /\ esUnsteady' = esUnsteady \ {"since"} /\ esOutside' = {}
    /\ UNCHANGED <<esMode, esHome, esLies, esWeather, esCache, esSticky, esLadder, esDialled,
                   esSwitch>>

\* _with_addresses: every rung gets the address it will dial, by the system's
\* resolver or the public one, which is asked second and leaves the question to the
\* system's when it gets no answer.
ResolveRungs ==
    /\ esAt = "probed" /\ esAt' = "resolved"
    /\ \E answers \in SystemAnswers({r.name : r \in {q \in Ladder : ~q.hostile}}),
          second \in IF \E r \in Ladder : r.hostile
                     THEN PublicAnswers("server") \cup Answers("server") ELSE {Unresolved} :
          LET afterSystem == Remember(esCache, answers)
              address(r) == IF r.hostile THEN Or(second, afterSystem["server"])
                            ELSE afterSystem[r.name]
          IN  /\ esLadder' = {Dialable(r, address(r)) : r \in Ladder}
              /\ esCache' = [afterSystem EXCEPT !["server"] = Or(second, @)]
    /\ UNCHANGED <<esMode, esWorld, esSticky, esOutside, esDialled, esSwitch, esLosses>>

\* build_wg_conf: the names are looked up again, and everything a rung may dial is
\* kept out of AllowedIPs; then the tunnel is installed.
InstallTunnel ==
    /\ esAt = "resolved" /\ esAt' = "trying"
    /\ \E answers \in SystemAnswers(EscapeNames(esLadder)) :
          /\ esOutside' = BypassNetworks(answers, EscapeNames(esLadder))
                            \cup EscapeAddresses(esLadder)
          /\ esCache' = Remember(esCache, answers)
    /\ UNCHANGED <<esMode, esWorld, esSticky, esLadder, esDialled, esSwitch, esLosses>>

\* _try_strategy: wstunnel is started towards the next rung.
DialRung ==
    /\ esAt = "trying" /\ esDialled = Unresolved /\ esLadder # {}
    /\ esDialled' = Foremost(esLadder).address
    /\ IF esDialled' = Unresolved              \* its own lookup is captured
       THEN esLadder' = esLadder \ {Foremost(esLadder)} ELSE UNCHANGED esLadder
    /\ UNCHANGED <<esMode, esWorld, esCache, esSticky, esAt, esOutside, esSwitch, esLosses>>

\* A rung carries traffic when its address is the name's own and no rule of the
\* switch drops it: the manager reports CONNECTED, the switch is released, and
\* the rung is remembered for this network.
RungCarries ==
    /\ esAt = "trying" /\ esDialled \in {esHome[n] : n \in Names}
    /\ esSwitch.on => esDialled \in esSwitch.allow
    /\ esAt' = "up" /\ esSticky' = Foremost(esLadder).id
    /\ esSwitch' = [on |-> FALSE, allow |-> {}]
    /\ UNCHANGED <<esMode, esWorld, esCache, esLadder, esOutside, esDialled, esLosses>>

\* It does not: the pin is wrong, no handshake, no traffic.  The next one.
DialledRungFails ==
    /\ esAt = "trying" /\ esDialled # Unresolved
    /\ esDialled' = Unresolved /\ esLadder' = esLadder \ {Foremost(esLadder)}
    /\ UNCHANGED <<esMode, esWorld, esCache, esSticky, esAt, esOutside, esSwitch, esLosses>>

\* Every rung has failed, or a tunnel that was up is lost.
LoseTunnel ==
    /\ \/ esAt = "trying" /\ esLadder = {} /\ esDialled = Unresolved
       \/ esAt = "up"
    /\ esAt' = "lost" /\ esDialled' = Unresolved /\ esLadder' = {}
    /\ esLosses' = esLosses + 1
    /\ UNCHANGED <<esMode, esWorld, esCache, esSticky, esOutside, esSwitch>>

\* killswitch.reconcile for RECONNECTING or FAILED: the allowlist is resolved from
\* the ladder as built, without the addresses of this connection.  An empty one
\* engages nothing.  The tunnel itself is taken down after it.
EngageSwitch ==
    /\ esAt = "lost" /\ esAt' = "down"
    /\ \E answers \in SystemAnswers(EscapeNames(LadderRungs)) :
          LET allow == BypassNetworks(answers, EscapeNames(LadderRungs)) IN
          /\ esCache' = Remember(esCache, answers)
          /\ esSwitch' = IF allow = {} THEN esSwitch ELSE [on |-> TRUE, allow |-> allow]
    /\ UNCHANGED <<esMode, esWorld, esSticky, esLadder, esOutside, esDialled, esLosses>>

\* The user disconnects: DISCONNECTED releases the switch.
ReleaseSwitch ==
    /\ esAt \in {"up", "down"}
    /\ esAt' = "down" /\ esDialled' = Unresolved /\ esLadder' = {}
    /\ esSwitch' = [on |-> FALSE, allow |-> {}] /\ esOutside' = {}
    /\ UNCHANGED <<esMode, esWorld, esCache, esSticky, esLosses>>

-----------------------------------------------------------------------------
(* The network.                                                            *)

WeatherChanges ==
    /\ esWeather < MaxWeather /\ esWeather' = esWeather + 1 /\ esUnsteady' = {"ever", "since"}
    /\ \/ esLies' = ~esLies /\ UNCHANGED esHome
       \/ esHome' = [esHome EXCEPT !["server"] = "b"] /\ esHome # esHome' /\ UNCHANGED esLies
    /\ UNCHANGED <<esMode, esCache, esSticky, esAt, esLadder, esOutside, esDialled, esSwitch,
                   esLosses>>

EsNext ==
    \/ Preflight \/ ResolveRungs \/ InstallTunnel
    \/ DialRung \/ RungCarries \/ DialledRungFails
    \/ LoseTunnel \/ EngageSwitch \/ ReleaseSwitch \/ WeatherChanges

EsSpec == EsInit /\ [][EsNext]_esVars

-----------------------------------------------------------------------------
(* Properties.                                                             *)

\* wstunnel is never started towards an address that the tunnel would capture,
\* however the answers of the resolvers differ between one lookup and the next:
\* it would loop.  (tunnel.py: _with_addresses; wireguard.py: build_wg_conf.)
EsDialsOutside == esDialled # Unresolved => esDialled \in esOutside

\* On a network that tells the truth, a switch that is engaged after a tunnel
\* came up lets the server be dialled, even if the lookup for its allowlist fails.
\* (dnscache.py: "the kill switch allowlist is built from the same answers".)
EsSwitchLetsBack ==
    esSwitch.on /\ esUnsteady = {} /\ esCache["server"] # Unresolved =>
        esHome["server"] \in esSwitch.allow

\* The server can be reached: past the tunnel, and through the switch.
EsReachable == EsDialsOutside /\ EsSwitchLetsBack

\* The allowlist holds everything the tunnel that was lost had kept outside, while
\* the network is as it was when that tunnel began to be connected.
\* (routing.py: "the two must always agree: engaging the kill switch with anything
\* less than what the tunnel itself excludes traps the client".)
EsAgree == esSwitch.on /\ esAt = "down" /\ "since" \notin esUnsteady =>
                esOutside \subseteq esSwitch.allow
=============================================================================
