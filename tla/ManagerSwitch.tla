---------------------------- MODULE ManagerSwitch ----------------------------
(***************************************************************************)
(* The client's window over several profiles (api.py, profiles.py): which  *)
(* TunnelManager is the current one, and which profile is the active one on*)
(* disk.  Every call of the bridge runs on a thread of its own; a profile  *)
(* edit swaps managers in yet another thread; `outwarp import` may change  *)
(* the active profile from another process.  No call takes a lock.  A      *)
(* manager is up or not here: TunnelManager says how it comes up and down. *)
(***************************************************************************)
EXTENDS Naturals, FiniteSets

CONSTANTS
    Profiles,       \* profile ids
    GmThreads,      \* threads of calls and swaps, by number
    MaxGmCalls      \* bound: calls

ASSUME ManagerSwitchAssumption ==
    /\ MaxGmCalls \in Nat /\ GmThreads \subseteq Nat
    /\ Profiles # {} /\ Profiles \cap {"none", "import"} = {}

Managers == 1 .. MaxGmCalls + 1
Issued(p, n) == [of |-> p, edit |-> n]
NoContent == Issued("none", 0)

VARIABLES
    gmConfig,   \* the configuration of each manager built so far
    gmUp,       \* the managers that run a tunnel
    gmCurrent,  \* Api._manager, 0 for None
    gmDisk,     \* profiles/<id>/config.json of each profile, NoContent for none
    gmActive,   \* active_id(): a profile, or "none"
    gmTask,     \* each thread: [at, old, new, profile, config]: its step, the manager
                \* it has captured and the one it is to start, the profile it is about
                \* and the configuration it has read
    gmTrouble,  \* history: "overlap", "failure", "outside"
    gmCalls

gmFiles == <<gmDisk, gmActive>>
gmManagers == <<gmConfig, gmUp, gmCurrent>>
gmVars == <<gmManagers, gmFiles, gmTask, gmTrouble, gmCalls>>

NoTask == [at |-> "idle", old |-> 0, new |-> 0, profile |-> "none", config |-> NoContent]

GmInit ==
    /\ \E stored \in SUBSET Profiles :
          /\ gmDisk = [p \in Profiles |-> IF p \in stored THEN Issued(p, 0) ELSE NoContent]
          /\ IF stored = {} THEN gmActive = "none" ELSE gmActive \in stored
    /\ gmConfig = [m \in Managers |-> IF m = 1 /\ gmActive # "none" THEN Issued(gmActive, 0)
                                      ELSE NoContent]
    /\ gmCurrent = IF gmActive # "none" THEN 1 ELSE 0
    /\ gmUp = {}
    /\ gmTask = [t \in GmThreads |-> NoTask]
    /\ gmTrouble = {} /\ gmCalls = 0

-----------------------------------------------------------------------------
(* Helpers.                                                                *)

Stored == {p \in Profiles : gmDisk[p] # NoContent}
FreshManager == CHOOSE m \in Managers : gmConfig[m] = NoContent
                                        /\ \A k \in 1 .. m - 1 : gmConfig[k] # NoContent
TaskTo(t, label) == gmTask' = [gmTask EXCEPT ![t].at = label]
EndTask(t) == gmTask' = [gmTask EXCEPT ![t] = NoTask]

\* Steps of calls that switch managers; a swap is the background half of one.
Switching == {"detach", "halt", "files", "swap"}
GmBusy(labels) == \E t \in GmThreads : gmTask[t].at \in labels

\* A call begins on the first idle thread.  The overlaps that the code does not survive
\* are remembered: a switch of managers beside another one, a connect or a reconnect.
Begin(t, task, isSwitch, isStart) ==
    /\ gmTask[t] = NoTask /\ \A u \in GmThreads : u < t => gmTask[u] # NoTask
    /\ gmCalls < MaxGmCalls /\ gmCalls' = gmCalls + 1
    /\ gmTask' = [gmTask EXCEPT ![t] = task]
    /\ gmTrouble' = IF \/ isSwitch /\ GmBusy(Switching \cup {"bounce", "start"})
                       \/ isStart /\ GmBusy(Switching)
                    THEN gmTrouble \cup {"overlap"} ELSE gmTrouble

Failing(t) == EndTask(t) /\ gmTrouble' = gmTrouble \cup {"failure"}

\* _install_manager: a manager for the configuration becomes the current one.
InstallManager(config) ==
    /\ gmConfig' = [gmConfig EXCEPT ![FreshManager] = config]
    /\ gmCurrent' = FreshManager

-----------------------------------------------------------------------------
(* connect, disconnect, reconnect.                                         *)

\* The manager is read, then started: by then it may have been replaced.
Connect(t) ==
    /\ gmCurrent # 0
    /\ Begin(t, [NoTask EXCEPT !.at = "start", !.new = gmCurrent], FALSE, TRUE)
    /\ UNCHANGED <<gmManagers, gmFiles>>

\* The manager is captured now, and stopped on the thread.
Disconnect(t) ==
    /\ gmCurrent # 0
    /\ Begin(t, [NoTask EXCEPT !.at = "stop", !.old = gmCurrent], FALSE, FALSE)
    /\ UNCHANGED <<gmManagers, gmFiles>>

Reconnect(t) ==
    /\ gmCurrent # 0
    /\ Begin(t, [NoTask EXCEPT !.at = "bounce", !.old = gmCurrent, !.new = gmCurrent],
             FALSE, TRUE)
    /\ UNCHANGED <<gmManagers, gmFiles>>

\* manager.stop(), in any of the operations.
StopCaptured(t) ==
    /\ gmTask[t].at \in {"stop", "bounce", "halt", "swap"}
    /\ gmUp' = gmUp \ {gmTask[t].old}
    /\ \/ gmTask[t].at = "halt" /\ TaskTo(t, "files")
       \/ gmTask[t].at # "halt" /\ gmTask[t].new # 0 /\ TaskTo(t, "start")
       \/ gmTask[t].at # "halt" /\ gmTask[t].new = 0 /\ EndTask(t)
    /\ UNCHANGED <<gmConfig, gmCurrent, gmFiles, gmTrouble, gmCalls>>

\* manager.start(), at the end of a connect, of a reconnect or of a swap.
StartCaptured(t) ==
    /\ gmTask[t].at = "start" /\ EndTask(t)
    /\ gmUp' = gmUp \cup {gmTask[t].new}
    /\ UNCHANGED <<gmConfig, gmCurrent, gmFiles, gmTrouble, gmCalls>>

-----------------------------------------------------------------------------
(* import_profile, set_active_profile, remove_profile.                     *)

\* Mutant of StopManager: the manager is taken out and left running.
StopManagerNot(t) ==
    /\ gmTask[t].at = "detach" /\ TaskTo(t, "files")
    /\ gmCurrent' = 0
    /\ UNCHANGED <<gmConfig, gmUp, gmFiles, gmTrouble, gmCalls>>

\* _stop_manager: the manager is taken out, then stopped.
StopManager(t) ==
    /\ gmTask[t].at = "detach" /\ gmCurrent' = 0
    /\ gmTask' = [gmTask EXCEPT ![t].at = IF gmCurrent = 0 THEN "files" ELSE "halt",
                                ![t].old = gmCurrent]
    /\ UNCHANGED <<gmConfig, gmUp, gmFiles, gmTrouble, gmCalls>>

\* The file is parsed, enrolled and stored as the active profile: a new one, or
\* the same one issued again.  Then the managers are switched.
ImportProfileFile(t) ==
    /\ \E p \in Profiles :
          /\ gmDisk' = [gmDisk EXCEPT ![p] = Issued(p, gmCalls + 1)] /\ gmActive' = p
          /\ Begin(t, [NoTask EXCEPT !.at = "detach", !.profile = "import",
                                     !.config = gmDisk'[p]], TRUE, FALSE)
    /\ UNCHANGED gmManagers

\* set_active_profile: nothing to do, or the profile is read first.
SetActiveProfile(t) ==
    /\ \E p \in Stored :
          /\ p # gmActive \/ gmCurrent = 0
          /\ Begin(t, [NoTask EXCEPT !.at = "detach", !.profile = p, !.config = gmDisk[p]],
                   TRUE, FALSE)
    /\ UNCHANGED <<gmManagers, gmFiles>>

\* After the stop: the pointer is moved and the new manager installed, started
\* only after an import; or the pointer cannot be written, and there is no
\* manager any more.
SwitchManager(t) ==
    /\ gmTask[t].at = "files" /\ gmTask[t].config # NoContent
    /\ \/ /\ gmTask[t].profile = "import" /\ EndTask(t)
          /\ InstallManager(gmTask[t].config) /\ gmUp' = gmUp \cup {gmCurrent'}
          /\ UNCHANGED <<gmActive, gmTrouble>>
       \/ /\ gmTask[t].profile \in Stored /\ EndTask(t)
          /\ InstallManager(gmTask[t].config) /\ gmActive' = gmTask[t].profile
          /\ UNCHANGED <<gmUp, gmTrouble>>
       \/ /\ gmTask[t].profile # "import" /\ Failing(t)
          /\ UNCHANGED <<gmActive, gmManagers>>
    /\ UNCHANGED <<gmDisk, gmCalls>>

\* remove_profile: only the active one takes its manager down.
RemoveProfile(t) ==
    /\ \E p \in Stored :
          LET task == [NoTask EXCEPT !.profile = p]
          IN  Begin(t, IF p = gmActive THEN [task EXCEPT !.at = "detach", !.new = 1]
                       ELSE [task EXCEPT !.at = "files"], TRUE, FALSE)
    /\ UNCHANGED <<gmManagers, gmFiles>>

\* profiles.remove, then one of the profiles that remain is loaded.
DeleteProfile(t) ==
    /\ gmTask[t].at = "files" /\ gmTask[t].config = NoContent
    /\ \/ /\ EndTask(t) /\ gmDisk' = [gmDisk EXCEPT ![gmTask[t].profile] = NoContent]
          /\ LET left == Stored \ {gmTask[t].profile}
                 now == IF gmActive # gmTask[t].profile THEN gmActive
                        ELSE IF left = {} THEN "none" ELSE CHOOSE p \in left : TRUE
             IN  /\ gmActive' = now
                 /\ IF gmTask[t].new = 1 /\ now # "none" THEN InstallManager(gmDisk[now])
                    ELSE UNCHANGED <<gmConfig, gmCurrent>>
          /\ UNCHANGED gmTrouble
       \/ Failing(t) /\ UNCHANGED <<gmFiles, gmConfig, gmCurrent>>
    /\ UNCHANGED <<gmUp, gmCalls>>

-----------------------------------------------------------------------------
(* update_profile, reset_profile.                                          *)

\* The edited configuration of the current manager is written over the active
\* profile, and its new manager installed (_replace_manager); the old one is
\* stopped, and the new one started if that one was up, on another thread.
EditProfile(t) ==
    /\ gmCurrent # 0 /\ gmActive # "none" /\ gmCalls < MaxGmCalls
    /\ LET edited == [gmConfig[gmCurrent] EXCEPT !.edit = gmCalls + 1]
       IN  gmDisk' = [gmDisk EXCEPT ![gmActive] = edited] /\ InstallManager(edited)
    /\ Begin(t, [NoTask EXCEPT !.at = "swap", !.old = gmCurrent,
                               !.new = IF gmCurrent \in gmUp THEN gmCurrent' ELSE 0],
             TRUE, FALSE)
    /\ UNCHANGED <<gmUp, gmActive>>

\* `outwarp import` in a terminal.
OutsideImport ==
    /\ gmCalls < MaxGmCalls /\ gmCalls' = gmCalls + 1
    /\ \E p \in Profiles :
          gmDisk' = [gmDisk EXCEPT ![p] = Issued(p, gmCalls + 1)] /\ gmActive' = p
    /\ gmTrouble' = gmTrouble \cup {"outside"}
    /\ UNCHANGED <<gmManagers, gmTask>>

GmNext ==
    \/ OutsideImport
    \/ \E t \in GmThreads :
          \/ Connect(t) \/ Disconnect(t) \/ Reconnect(t)
          \/ StopCaptured(t) \/ StartCaptured(t)
          \/ ImportProfileFile(t) \/ SetActiveProfile(t) \/ StopManager(t)
          \/ SwitchManager(t) \/ RemoveProfile(t) \/ DeleteProfile(t) \/ EditProfile(t)

GmSpec == GmInit /\ [][GmNext]_gmVars

-----------------------------------------------------------------------------
(* Properties.                                                             *)

\* Between calls only the current manager may be up, unless a switch of managers
\* met another one, a connect or a reconnect; and it carries the active profile as it is on
\* disk, unless a file could not be written or another process has imported a
\* profile.  (api.py: "Only one tunnel at a time".)
GmSettled ==
    (\A t \in GmThreads : gmTask[t] = NoTask) /\ "overlap" \notin gmTrouble =>
        /\ gmUp \subseteq {gmCurrent}
        /\ gmTrouble = {} =>
              /\ gmCurrent = 0 <=> gmActive = "none"
              /\ gmCurrent # 0 => gmConfig[gmCurrent] = gmDisk[gmActive]
=============================================================================
