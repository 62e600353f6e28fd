---------------------------- MODULE MCServerParts ----------------------------
(***************************************************************************)
(* The components of the server that do not share state with one another   *)
(* or with the client registry, side by side in one instance: which one    *)
(* runs is chosen at the start, and the others stay as they begin.  See    *)
(* server_parts.cfg for the bounds.                                        *)
(***************************************************************************)
EXTENDS ServerManager, PanelSessions, PanelEvents, LogWatch, ServerDoctor, TrafficHistory

\* A wizard's answers: either branch with one subnet and the port of Caddy, and with others;
\* and once another port behind Caddy.
Answer(d, s, p, i) == [domain |-> d, subnet |-> s, port |-> p, inner |-> i]
WizardAnswers ==
    {Answer(d, "n1", "https", "i1") : d \in BOOLEAN}
        \cup {Answer(d, "n2", "p2", "i1") : d \in BOOLEAN}
        \cup {Answer(TRUE, "n1", "https", "i2")}

VARIABLE part   \* the component that runs

partsVars == <<smVars, psVars, peVars, lwVars, drVars, trVars, part>>

PartNames == {"manager", "sessions", "events", "logs", "host", "traffic"}

\* The components with several initial states have one of them where they do not run.
PartsInit ==
    /\ part \in PartNames
    /\ SmInit /\ PsInit /\ PeInit /\ LwInit
    /\ DrInit /\ (part # "host" => hoKind = "systemd" /\ ~hoBins /\ hoWall = "off")
    /\ TrInit /\ (part # "traffic" => trRows = {})

PartsNext ==
    \/ part = "manager" /\ SmNext /\ UNCHANGED <<psVars, peVars, lwVars, drVars, trVars, part>>
    \/ part = "sessions" /\ PsNext /\ UNCHANGED <<smVars, peVars, lwVars, drVars, trVars, part>>
    \/ part = "events" /\ PeNext /\ UNCHANGED <<smVars, psVars, lwVars, drVars, trVars, part>>
    \/ part = "logs" /\ LwNext /\ UNCHANGED <<smVars, psVars, peVars, drVars, trVars, part>>
    \/ part = "host" /\ DrNext /\ UNCHANGED <<smVars, psVars, peVars, lwVars, trVars, part>>
    \/ part = "traffic" /\ TrNext /\ UNCHANGED <<smVars, psVars, peVars, lwVars, drVars, part>>

\* SmFairness and PeFairness where the manager and the events run (elsewhere none of
\* their fair steps is enabled).
PartsFairness ==
    /\ \A c \in SmThreads : WF_smVars(part = "manager" /\ ThreadStep(c))
    /\ \A s \in Starters : WF_smVars(part = "manager" /\ StarterStep(s))
    /\ WF_smVars(part = "manager" /\ Monitor) /\ WF_smVars(part = "manager" /\ SmServeLoop)
    /\ WF_peVars(part = "events" /\ LivePoll)
    /\ \A t \in Tabs : /\ WF_peVars(part = "events" /\ StreamStep(t))
                       /\ WF_peVars(part = "events" /\ NotifyReady(t))
PartsSpec == PartsInit /\ [][PartsNext]_partsVars /\ PartsFairness
=============================================================================
