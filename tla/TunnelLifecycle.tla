--------------------------- MODULE TunnelLifecycle ---------------------------
(***************************************************************************)
(* What the tunnel manager promises to whoever watches it: the order of    *)
(* its states, when the WireGuard interface may come and go, and when the  *)
(* kill switch may change.  No threads, no wstunnel, no ladder; but which  *)
(* commands the machine may refuse is told, since the promises depend on   *)
(* it.  TunnelManager implements it.                                       *)
(***************************************************************************)
CONSTANTS
    Enabled,   \* is the kill switch enabled in the settings?
    Refused    \* what may fail: "engage" the switch, "teardown" the interface

VARIABLES
    state,    \* TunnelManager.state
    iface,    \* the WireGuard interface: "gone" if it vanished by itself
    ks,       \* are the firewall rules of the kill switch in place?
    session   \* has a connection been up that nobody has asked to stop?

vars == <<state, iface, ks, session>>

\* A session is protected by a switch that is enabled and can be engaged.
Protected == Enabled /\ "engage" \notin Refused /\ session

Trying == state \in {"connecting", "reconnecting"}

Init == state = "disconnected" /\ iface = "down" /\ ~ks /\ ~session

\* A fresh attempt; after a failure to go on from, a further one.
Attempt ==
    \/ /\ state \in {"disconnected", "failed"} /\ state' = "connecting"
    \/ /\ state \in {"connecting", "connected"} /\ state' = "reconnecting"

\* Connected means that the interface is there; it begins a session to protect
\* unless a stop has already been asked for.
Established == Trying /\ iface = "up" /\ state' = "connected" /\ session' \in BOOLEAN

GiveUp == state # "connected" /\ state' = "failed"

\* Disconnected is only shown once a stop has been asked for, and the interface
\* is no longer up, if it could be removed.
Stopped ==
    /\ ~session /\ ("teardown" \notin Refused => iface # "up")
    /\ state' = "disconnected"

StateChange ==
    \/ Attempt /\ UNCHANGED <<iface, ks, session>>
    \/ Established /\ UNCHANGED <<iface, ks>>
    \/ GiveUp /\ UNCHANGED <<iface, ks, session>>
    \/ Stopped /\ UNCHANGED <<iface, ks, session>>

StopAsked == ~session' /\ UNCHANGED <<state, iface, ks>>

\* Traffic is never let out by the program itself: the interface of a protected
\* session is replaced and removed only behind the rules.
Install ==
    /\ Trying /\ (Protected => ks)
    /\ iface' \in {"up", "down"} /\ UNCHANGED <<state, ks, session>>

Uninstall == (Protected => ks) /\ iface' = "down" /\ UNCHANGED <<state, ks, session>>

Vanish == state = "connected" /\ iface' = "gone" /\ UNCHANGED <<state, ks, session>>

Engage ==
    /\ Enabled /\ state \in {"reconnecting", "failed"}
    /\ ks' /\ UNCHANGED <<state, iface, session>>

\* The rules of a protected session go when its interface is there again.
Release ==
    /\ state \in {"connected", "disconnected"} /\ (Protected => iface = "up")
    /\ ~ks' /\ UNCHANGED <<state, iface, session>>

Next ==
    \/ StateChange \/ StopAsked \/ Install \/ Uninstall \/ Vanish \/ Engage \/ Release

Spec == Init /\ [][Next]_vars

\* What a user relies on: a protected session never has its interface down without
\* the rules, a switch that is not enabled has none.
Shut == (Protected /\ iface = "down" => ks) /\ (ks => Enabled)
=============================================================================
