---------------------------- MODULE MCClientParts ----------------------------
(***************************************************************************)
(* The background service of the client, and the components of the client  *)
(* that share no state with it or with one another, side by side in one    *)
(* instance: which one runs is chosen at the start, and the others stay as *)
(* they begin.  See client_parts.cfg for the bounds.                       *)
(***************************************************************************)
EXTENDS ClientDaemon, EnrolExchange, TunnelOwners, ManagerSwitch, ProfileStore, SelfUpdate,
        EscapeRoutes, ClientUninstall

VARIABLE part   \* the component that runs

partsVars == <<dvars, exVars, toVars, gmVars, pfVars, upVars, esVars, chVars, part>>

PartNames == {"daemon", "enrolment", "owners", "switch", "profiles", "update", "routes",
              "uninstall"}

\* The components with several initial states have one of them where they do not run.
PartsInit ==
    /\ part \in PartNames
    /\ DaemonInit /\ ToInit /\ PfInit
    /\ UpInit /\ (part # "update" => upFrozen)
    /\ ExInit /\ (part # "enrolment" => exSlot.state = "active")
    /\ GmInit /\ (part # "switch" => gmActive = "none")
    /\ ChInit /\ (part # "uninstall" => chKind = "linux" /\ chKnown /\ chGuard)
    /\ EsInit /\ (part # "routes" => esMode = [hostile |-> FALSE, fallback |-> TRUE])

PartsNext ==
    \/ part = "daemon" /\ DaemonNext
       /\ UNCHANGED <<exVars, toVars, gmVars, pfVars, upVars, esVars, chVars, part>>
    \/ part = "enrolment" /\ ExNext
       /\ UNCHANGED <<dvars, toVars, gmVars, pfVars, upVars, esVars, chVars, part>>
    \/ part = "owners" /\ ToNext
       /\ UNCHANGED <<dvars, exVars, gmVars, pfVars, upVars, esVars, chVars, part>>
    \/ part = "switch" /\ GmNext
       /\ UNCHANGED <<dvars, exVars, toVars, pfVars, upVars, esVars, chVars, part>>
    \/ part = "profiles" /\ PfNext
       /\ UNCHANGED <<dvars, exVars, toVars, gmVars, upVars, esVars, chVars, part>>
    \/ part = "update" /\ UpNext
       /\ UNCHANGED <<dvars, exVars, toVars, gmVars, pfVars, esVars, chVars, part>>
    \/ part = "routes" /\ EsNext
       /\ UNCHANGED <<dvars, exVars, toVars, gmVars, pfVars, upVars, chVars, part>>
    \/ part = "uninstall" /\ ChNext
       /\ UNCHANGED <<dvars, exVars, toVars, gmVars, pfVars, upVars, esVars, part>>

\* FairDaemon where the service runs.
PartsSpec ==
    /\ PartsInit /\ [][PartsNext]_partsVars
    /\ WF_dvars(part = "daemon" /\ WorkerStep /\ Beside)
    /\ WF_dvars(part = "daemon" /\ ControllerStep(Main) /\ Beside)
    /\ WF_dvars(part = "daemon" /\ MainStep)
    /\ WF_dvars(part = "daemon" /\ Restart)
=============================================================================
