------------------------- MODULE ClientPartsSafety -------------------------
(***************************************************************************)
(* Theorems about parts of the client: who runs the tunnel (TunnelOwners), *)
(* the switch of managers (ManagerSwitch), the exchange of a token for a   *)
(* registered key (EnrolExchange), the stored profiles and their pins      *)
(* (ProfileStore), the addresses that are dialled (EscapeRoutes), an       *)
(* update of the program itself (SelfUpdate) and its removal               *)
(* (ClientUninstall).                                                      *)
(*                                                                         *)
(* None of their properties is inductive.  Each section states what its    *)
(* component keeps at every step and shows that each step does.  A history *)
(* variable says where the code gives a promise up (two updates that meet, *)
(* a switch that meets a connect or a reconnect, an answer that is lost,   *)
(* imports that meet at the pins or at the files): the parts of an         *)
(* invariant that depend on it are guarded by it.                          *)
(***************************************************************************)
EXTENDS TunnelOwners, ManagerSwitch, EnrolExchange, ProfileStore, EscapeRoutes,
        SelfUpdate, ClientUninstall, FiniteSetTheorems, WellFoundedInduction, TLAPS

-----------------------------------------------------------------------------
(* Who runs the tunnel: one process at a time, whatever is launched,     *)
(* toggled, restarted or killed. That nobody else is up does not stop a  *)
(* surface whose role says it may start its manager, so the roles are    *)
(* part of the invariant.                                                *)

\* What a surface may be.
Roles == {"out", "asking", "owner", "handing", "viewer", "failed"}

\* Which values the variables take.
ToTypeOK ==
    /\ toRole \in [Surfaces -> Roles]
    /\ toLock \in Surfaces \cup {"nobody"}
    /\ toUp \subseteq Surfaces
    /\ toIntruders \subseteq {"gui", "tui"}

\* Who runs the tunnel has the lock; and so has who owns it, but for the window.
HoldersOnly ==
    \A p \in Surfaces :
        (p \in toUp \ toIntruders \/ (p # "gui" /\ toRole[p] = "owner")) => toLock = p

\* The window that owns the tunnel, or hands it over, has it too until it intrudes.
Held ==
    toRole["gui"] \in {"owner", "handing"} => toLock = "gui" \/ "gui" \in toIntruders

\* The invariant of the ownership lock.
ToIInv == ToTypeOK /\ HoldersOnly /\ Held

-----------------------------------------------------------------------------
(* The window and the terminal interface are surfaces, "nobody" is not.    *)
LEMMA SurfacesApart ==
    /\ {"gui", "tui", "connect", "daemon", "probe"} \subseteq Surfaces
    /\ "nobody" \notin Surfaces
  BY DEF Surfaces

(* Whoever runs a tunnel and has not intruded holds the lock, so that there *)
(* is one such surface at most.                                             *)
LEMMA HoldersAreOne == ToIInv => ToOneOwner
<1> DEFINE lawful == toUp \ toIntruders
<1> SUFFICES ASSUME ToIInv PROVE Cardinality(lawful) <= 1
    BY DEF ToOneOwner
<1>1. lawful \subseteq {toLock} BY DEF ToIInv, ToTypeOK, HoldersOnly
<1> HIDE DEF lawful
<1>2. IsFiniteSet({toLock}) /\ Cardinality({toLock}) = 1 BY FS_Singleton
<1> QED BY <1>1, <1>2, FS_Subset

(* At the start nobody owns anything.                                    *)
LEMMA HoldersAtStart == ToInit => ToIInv
  BY SurfacesApart DEF ToInit, ToIInv, ToTypeOK, HoldersOnly, Held, Roles

(* No step lets a surface own or run the tunnel without the lock, nor takes *)
(* the lock from one that does.                                             *)
LEMMA HoldersKept == ToIInv /\ [ToNext]_toVars => ToIInv'
<1> SUFFICES ASSUME ToIInv, [ToNext]_toVars PROVE ToIInv'
    OBVIOUS
<1> USE SurfacesApart DEF ToIInv, ToTypeOK, HoldersOnly, Held, Roles
<1>1. CASE GuiLaunch BY <1>1 DEF GuiLaunch, RoleTo
<1>2. CASE GuiAcquire BY <1>2 DEF GuiAcquire, RoleTo, Acquire
<1>3. CASE GuiConnect BY <1>3 DEF GuiConnect
<1>4. CASE GuiStartsAnyway BY <1>4 DEF GuiStartsAnyway, Starts
<1>5. CASE GuiEnable BY <1>5 DEF GuiEnable, RoleTo
<1>6. CASE GuiInstall BY <1>6 DEF GuiInstall, RoleTo
<1>7. CASE GuiDisable BY <1>7 DEF GuiDisable, RoleTo, Uninstall, Starts
<1>8. CASE GuiQuit BY <1>8 DEF GuiQuit, RoleTo, Leave, Release
<1>9. CASE TuiReload BY <1>9 DEF TuiReload, RoleTo, ReloadConfig
<1>10. CASE TuiDisconnect BY <1>10 DEF TuiDisconnect
<1>11. CASE TuiEnable BY <1>11 DEF TuiEnable, RoleTo, Release
<1>12. CASE TuiInstall BY <1>12 DEF TuiInstall, RoleTo, ReloadConfig
<1>13. CASE TuiDisable BY <1>13 DEF TuiDisable, RoleTo, Uninstall
<1>14. CASE TuiQuit BY <1>14 DEF TuiQuit, RoleTo, Leave, Release
<1>15. CASE ConnectRuns BY <1>15 DEF ConnectRuns, RoleTo, Acquire
<1>16. CASE ConnectEnds BY <1>16 DEF ConnectEnds, RoleTo, Leave, Release
<1>17. CASE ProbeTakes BY <1>17 DEF ProbeTakes, RoleTo, Acquire
<1>18. CASE ProbeGivesBack BY <1>18 DEF ProbeGivesBack, RoleTo, Leave, Release
<1>19. CASE DaemonStart BY <1>19 DEF DaemonStart, RoleTo, Acquire
<1>20. CASE DaemonEnds BY <1>20 DEF DaemonEnds, RoleTo, Leave, Release
<1>21. CASE UnitRestarts BY <1>21 DEF UnitRestarts
<1>22. CASE SurfaceKilled BY <1>22 DEF SurfaceKilled, RoleTo, Leave, Release
<1>23. CASE TuiStartsAnyway BY <1>23 DEF TuiStartsAnyway, Starts
<1>24. CASE UNCHANGED toVars BY <1>24 DEF toVars
<1> QED
    BY <1>1, <1>2, <1>3, <1>4, <1>5, <1>6, <1>7, <1>8, <1>9, <1>10, <1>11, <1>12,
       <1>13, <1>14, <1>15, <1>16, <1>17, <1>18, <1>19, <1>20, <1>21, <1>22, <1>23,
       <1>24 DEF ToNext

(* One process at a time runs the tunnel, over launches, hand-overs, restarts *)
(* and kills in any number and order (ownership.py), but for those that have   *)
(* started their manager without the lock (api.py's import_profile and         *)
(* reconnect; the terminal interface's start_manager).                         *)
THEOREM OneOwnerAtATime == ToSpec => []ToOneOwner
<1>1. ToSpec => []ToIInv BY HoldersAtStart, HoldersKept, PTL DEF ToSpec
<1> QED BY <1>1, HoldersAreOne, PTL

-----------------------------------------------------------------------------
(* The switch of managers.                                               *)

\* The steps of a call, and what a call, a manager and a file may hold.
GmSteps == {"idle", "stop", "bounce", "start", "detach", "halt", "files", "swap"}
Contents == [of : Profiles \cup {"none"}, edit : Nat]
Tasks == [at : GmSteps, old : Nat, new : Nat, profile : Profiles \cup {"none", "import"},
          config : Contents]

\* Which values the variables take.
GmTypeOK ==
    /\ gmConfig \in [Managers -> Contents] /\ gmUp \subseteq Managers
    /\ gmCurrent \in Managers \cup {0}
    /\ gmDisk \in [Profiles -> Contents] /\ gmActive \in Profiles \cup {"none"}
    /\ gmTask \in [GmThreads -> Tasks]
    /\ gmTrouble \subseteq {"overlap", "failure", "outside"}
    /\ gmCalls \in 0 .. MaxGmCalls

\* The active profile is one that is stored.
ActiveStored == gmActive # "none" => gmDisk[gmActive] # NoContent

\* A call that takes the current manager out, until it has installed another one.
Detaching(t) == /\ gmTask[t].at \in {"detach", "halt", "files"}
                /\ gmTask[t].config # NoContent \/ gmTask[t].new = 1

\* The managers are numbered in the order they are built, one for a call at most.
Counted ==
    \E k \in 0 .. gmCalls + 1 :
        /\ \A m \in Managers : gmConfig[m] # NoContent <=> m <= k
        /\ (\E t \in GmThreads : Detaching(t)) => k <= gmCalls

\* One call switches managers at a time, and none starts one beside it.
OneSwitch ==
    \A t, u \in GmThreads :
        gmTask[t].at \in Switching /\ gmTask[u].at \in Switching \cup {"bounce", "start"} => t = u

\* What a call has captured is still what it was.
Captured ==
    \A t \in GmThreads :
        /\ gmTask[t].at = "stop" => gmTask[t].new = 0
        /\ gmTask[t].at = "bounce" => gmTask[t].new = gmCurrent
        /\ gmTask[t].at = "start" => gmTask[t].new = gmCurrent /\ gmCurrent # 0
        /\ gmTask[t].at = "swap" => gmTask[t].new \in {0, gmCurrent}
        /\ gmTask[t].at \in {"detach", "halt"} => Detaching(t)
        /\ gmTask[t].at \in {"halt", "files"} /\ Detaching(t) => gmCurrent = 0

\* What is up is the current manager, or one that a switch is about to stop.
UpOnly ==
    \A m \in gmUp : \/ m = gmCurrent
                    \/ \E t \in GmThreads : gmTask[t].at \in {"halt", "swap"} /\ gmTask[t].old = m

\* The current manager carries the active profile, unless it is being replaced.
Carries ==
    /\ gmCurrent = 0 <=> gmActive = "none"
    /\ gmCurrent # 0 => gmConfig[gmCurrent] = gmDisk[gmActive]

\* What a call is about to install is what it has stored, and carries
\* the active profile.
Replacing ==
    /\ (\A t \in GmThreads : ~Detaching(t)) => Carries
    /\ \A t \in GmThreads :
          /\ Detaching(t) /\ gmTask[t].profile = "import" =>
                gmActive # "none" /\ gmDisk[gmActive] = gmTask[t].config
          /\ Detaching(t) /\ gmTask[t].profile # "import" =>
                /\ gmTask[t].profile \in Profiles
                /\ IF gmTask[t].config = NoContent THEN gmTask[t].profile = gmActive
                   ELSE gmDisk[gmTask[t].profile] = gmTask[t].config
          /\ gmTask[t].at = "files" /\ ~Detaching(t) => gmTask[t].profile # gmActive

\* The invariant of the switch, as long as no switch has met another one,
\* a connect or a reconnect.
GmSafe ==
    /\ GmTypeOK /\ ActiveStored /\ Counted /\ OneSwitch /\ Captured /\ UpOnly
    /\ gmTrouble = {} => Replacing
GmIInv == "overlap" \notin gmTrouble => GmSafe
-----------------------------------------------------------------------------
(* What the steps of a call do to the tasks.                               *)
LEMMA TaskMoves ==
    ASSUME GmTypeOK, NEW t \in GmThreads, NEW label \in GmSteps, TaskTo(t, label)
    PROVE  /\ gmTask' \in [GmThreads -> Tasks]
           /\ gmTask'[t].at = label /\ gmTask'[t].old = gmTask[t].old
           /\ gmTask'[t].new = gmTask[t].new /\ gmTask'[t].profile = gmTask[t].profile
           /\ gmTask'[t].config = gmTask[t].config
           /\ \A u \in GmThreads : u # t => gmTask'[u] = gmTask[u]
  BY DEF GmTypeOK, TaskTo, Tasks

(* The call is over.                                                     *)
LEMMA TaskEnds ==
    ASSUME GmTypeOK, NEW t \in GmThreads, EndTask(t)
    PROVE  /\ gmTask' \in [GmThreads -> Tasks]
           /\ gmTask'[t].at = "idle"
           /\ \A u \in GmThreads : u # t => gmTask'[u] = gmTask[u]
<1>1. NoTask \in Tasks BY DEF NoTask, Tasks, GmSteps, NoContent, Issued, Contents
<1> QED BY <1>1 DEF GmTypeOK, EndTask, NoTask

(* A call that begins meets no other one where the history says so.      *)
LEMMA TaskBegins ==
    ASSUME GmTypeOK, NEW t \in GmThreads, NEW task \in Tasks, NEW isSwitch \in BOOLEAN,
           NEW isStart \in BOOLEAN, Begin(t, task, isSwitch, isStart),
           "overlap" \notin gmTrouble'
    PROVE  /\ gmTask' \in [GmThreads -> Tasks] /\ gmTask'[t] = task
           /\ gmTask[t].at = "idle"
           /\ \A u \in GmThreads : u # t => gmTask'[u] = gmTask[u]
           /\ gmCalls' = gmCalls + 1 /\ gmCalls' \in 0 .. MaxGmCalls
           /\ gmTrouble' = gmTrouble
           /\ isSwitch => \A u \in GmThreads : gmTask[u].at \notin Switching \cup {"bounce", "start"}
           /\ isStart => \A u \in GmThreads : gmTask[u].at \notin Switching
<1>1. gmTask' = [gmTask EXCEPT ![t] = task] /\ gmTask[t] = NoTask BY DEF Begin
<1>2. gmCalls \in 0 .. MaxGmCalls /\ MaxGmCalls \in Nat /\ gmCalls < MaxGmCalls /\ gmCalls' = gmCalls + 1
  BY ManagerSwitchAssumption DEF GmTypeOK, Begin
<1>3. gmTask[t].at = "idle" BY <1>1 DEF NoTask
<1>4. ~(isSwitch /\ GmBusy(Switching \cup {"bounce", "start"})) /\ ~(isStart /\ GmBusy(Switching))
      /\ gmTrouble' = gmTrouble
  BY DEF Begin
<1> QED BY <1>1, <1>2, <1>3, <1>4 DEF GmTypeOK, GmBusy

(* The next manager is the one after those that were built.                *)
LEMMA NextBuilt ==
    ASSUME NEW k \in Nat, k + 1 \in Managers,
           \A m \in Managers : gmConfig[m] # NoContent <=> m <= k
    PROVE  FreshManager = k + 1
<1>1. MaxGmCalls \in Nat BY ManagerSwitchAssumption
<1>2. \A m \in Managers : m \in Nat BY <1>1 DEF Managers
<1>3. gmConfig[k + 1] = NoContent /\ \A j \in 1 .. (k + 1) - 1 : gmConfig[j] # NoContent
  BY <1>1 DEF Managers
<1>4. ASSUME NEW m \in Managers, gmConfig[m] = NoContent,
             \A j \in 1 .. m - 1 : gmConfig[j] # NoContent
      PROVE  m = k + 1
  BY <1>1, <1>2, <1>3, <1>4 DEF Managers
<1> QED BY <1>3, <1>4 DEF FreshManager

(* Installing a manager.                                                   *)
LEMMA Installs ==
    ASSUME GmTypeOK, NEW config \in Contents, config # NoContent, InstallManager(config),
           NEW k \in 0 .. gmCalls + 1, k <= MaxGmCalls,
           \A m \in Managers : gmConfig[m] # NoContent <=> m <= k
    PROVE  /\ gmConfig' \in [Managers -> Contents] /\ gmCurrent' \in Managers /\ gmCurrent' # 0
           /\ gmConfig'[gmCurrent'] = config
           /\ \A m \in Managers : gmConfig'[m] # NoContent <=> m <= k + 1
<1>1. k \in Nat /\ MaxGmCalls \in Nat /\ k + 1 \in Managers
  BY ManagerSwitchAssumption DEF GmTypeOK, Managers
<1>2. FreshManager = k + 1 BY <1>1, NextBuilt
<1>3. gmConfig' = [gmConfig EXCEPT ![k + 1] = config] /\ gmCurrent' = k + 1
  BY <1>2 DEF InstallManager
<1>4. \A m \in Managers : m \in Nat /\ m # 0 BY <1>1 DEF Managers
<1> QED BY <1>1, <1>3, <1>4 DEF GmTypeOK

(* What has gone wrong is never forgotten.                                  *)
LEMMA TroubleStays == [GmNext]_gmVars => gmTrouble \subseteq gmTrouble'
<1> SUFFICES ASSUME [GmNext]_gmVars PROVE gmTrouble \subseteq gmTrouble' OBVIOUS
<1>1. CASE UNCHANGED gmVars BY <1>1 DEF gmVars
<1>2. CASE OutsideImport BY <1>2 DEF OutsideImport
<1>3. ASSUME NEW t \in GmThreads,
             StopCaptured(t) \/ StartCaptured(t) \/ StopManager(t) \/ SwitchManager(t) \/ DeleteProfile(t)
      PROVE  gmTrouble \subseteq gmTrouble'
  BY <1>3 DEF StopCaptured, StartCaptured, StopManager, SwitchManager, DeleteProfile, Failing
<1>4. ASSUME NEW t \in GmThreads,
             \/ Connect(t) \/ Disconnect(t) \/ Reconnect(t) \/ ImportProfileFile(t) \/ SetActiveProfile(t)
             \/ RemoveProfile(t) \/ EditProfile(t)
      PROVE  gmTrouble \subseteq gmTrouble'
  BY <1>4 DEF Connect, Disconnect, Reconnect, ImportProfileFile, SetActiveProfile, RemoveProfile,
     EditProfile, Begin
<1> QED BY <1>1, <1>2, <1>3, <1>4 DEF GmNext

(* At the start the active profile has a manager.                        *)
LEMMA GmAtStart == GmInit => GmIInv
<1> SUFFICES ASSUME GmInit PROVE GmSafe BY DEF GmIInv
<1>1. PICK stored \in SUBSET Profiles :
          /\ gmDisk = [p \in Profiles |-> IF p \in stored THEN Issued(p, 0) ELSE NoContent]
          /\ IF stored = {} THEN gmActive = "none" ELSE gmActive \in stored
  BY DEF GmInit
<1>2. /\ gmConfig = [m \in Managers |-> IF m = 1 /\ gmActive # "none" THEN Issued(gmActive, 0)
                                        ELSE NoContent]
      /\ gmCurrent = IF gmActive # "none" THEN 1 ELSE 0
      /\ gmUp = {} /\ gmTask = [t \in GmThreads |-> NoTask] /\ gmTrouble = {} /\ gmCalls = 0
  BY DEF GmInit
<1>3. MaxGmCalls \in Nat /\ "none" \notin Profiles BY ManagerSwitchAssumption
<1>4. NoTask \in Tasks /\ NoTask.at = "idle" /\ NoContent \in Contents
  BY DEF NoTask, Tasks, GmSteps, NoContent, Issued, Contents
<1>5. \A p \in Profiles : Issued(p, 0) \in Contents /\ Issued(p, 0) # NoContent
  BY <1>3 DEF Contents, NoContent, Issued
<1>6. 1 \in Managers BY <1>3 DEF Managers
<1>7. GmTypeOK BY <1>1, <1>2, <1>3, <1>4, <1>5, <1>6 DEF GmTypeOK
<1>8. ActiveStored BY <1>1, <1>5 DEF ActiveStored
<1>9. \A t \in GmThreads : gmTask[t].at = "idle" BY <1>2, <1>4
<1>10. Counted
  <2> DEFINE k == IF gmActive = "none" THEN 0 ELSE 1
  <2>1. k \in 0 .. gmCalls + 1 BY <1>2
  <2>2. \A m \in Managers : gmConfig[m] # NoContent <=> m <= k
    BY <1>1, <1>2, <1>3, <1>5 DEF Managers
  <2>3. ~\E t \in GmThreads : Detaching(t) BY <1>9 DEF Detaching
  <2> HIDE DEF k
  <2> QED BY <2>1, <2>2, <2>3 DEF Counted
<1>11. OneSwitch /\ Captured /\ UpOnly
  BY <1>2, <1>9 DEF OneSwitch, Captured, UpOnly, Switching
<1>12. Replacing BY <1>1, <1>2, <1>5, <1>6, <1>9 DEF Replacing, Carries, Detaching
<1> QED BY <1>7, <1>8, <1>10, <1>11, <1>12 DEF GmSafe

(* Every step keeps the invariant.                                       *)
LEMMA GmIInvKept == GmIInv /\ [GmNext]_gmVars => GmIInv'
<1> SUFFICES ASSUME GmIInv, [GmNext]_gmVars, "overlap" \notin gmTrouble' PROVE GmSafe'
  BY DEF GmIInv
<1>1. GmSafe BY TroubleStays DEF GmIInv
<1>2. GmTypeOK BY <1>1 DEF GmSafe
<1>3. PICK k \in 0 .. gmCalls + 1 :
        /\ \A m \in Managers : gmConfig[m] # NoContent <=> m <= k
        /\ (\E t \in GmThreads : Detaching(t)) => k <= gmCalls
  BY <1>1 DEF GmSafe, Counted
<1>4. gmCalls \in Nat /\ gmCalls <= MaxGmCalls /\ MaxGmCalls \in Nat /\ k \in Nat
  BY <1>2, ManagerSwitchAssumption DEF GmTypeOK
<1>5. NoContent \in Contents BY DEF Contents, NoContent, Issued
<1>6. NoTask \in Tasks /\ NoTask.at = "idle" BY <1>5 DEF NoTask, Tasks, GmSteps
<1>7. "none" \notin Profiles /\ "import" \notin Profiles BY ManagerSwitchAssumption
<1>a. CASE UNCHANGED gmVars
  <2>1. GmTypeOK' /\ ActiveStored' /\ OneSwitch' /\ Captured' /\ UpOnly'
    BY <1>1, <1>a DEF GmSafe, gmVars, gmManagers, gmFiles, GmTypeOK, ActiveStored, OneSwitch,
       Captured, UpOnly, Detaching
  <2>2. Counted' BY <1>1, <1>a DEF GmSafe, gmVars, gmManagers, gmFiles, Counted, Detaching
  <2>3. Replacing' = Replacing /\ gmTrouble' = gmTrouble
    BY <1>a DEF gmVars, gmManagers, gmFiles, Replacing, Carries, Detaching
  <2> QED BY <1>1, <2>1, <2>2, <2>3 DEF GmSafe
<1>b. ASSUME NEW t \in GmThreads, Connect(t) PROVE GmSafe'
  <2> DEFINE task == [NoTask EXCEPT !.at = "start", !.new = gmCurrent]
  <2>1. gmCurrent \in Nat BY <1>2, <1>4 DEF GmTypeOK, Managers
  <2>2. task \in Tasks /\ task.at = "start" /\ task.new = gmCurrent
    BY <1>5, <2>1 DEF NoTask, Tasks, GmSteps
  <2> HIDE DEF task
  <2>3. /\ Begin(t, task, FALSE, TRUE) /\ gmCurrent # 0
        /\ UNCHANGED <<gmConfig, gmUp, gmCurrent, gmDisk, gmActive>>
    BY <1>b DEF Connect, gmManagers, gmFiles, task
  <2>4. /\ gmTask' \in [GmThreads -> Tasks] /\ gmTask'[t].at = "start" /\ gmTask[t].at = "idle"
        /\ gmTask'[t].new = gmCurrent
        /\ \A u \in GmThreads : u # t => gmTask'[u] = gmTask[u]
        /\ gmCalls' = gmCalls + 1 /\ gmCalls' \in 0 .. MaxGmCalls /\ gmTrouble' = gmTrouble
        /\ \A u \in GmThreads : gmTask[u].at \notin Switching
    BY <1>2, <2>2, <2>3, TaskBegins
  <2>5. GmTypeOK' BY <1>2, <2>3, <2>4 DEF GmTypeOK
  <2>6. \A u \in GmThreads : Detaching(u)' = Detaching(u) BY <2>4 DEF Detaching
  <2>7. Counted' BY <1>3, <1>4, <2>3, <2>4, <2>6 DEF Counted
  <2>8. ActiveStored' BY <1>1, <2>3 DEF GmSafe, ActiveStored
  <2>9. OneSwitch' BY <1>1, <2>4 DEF GmSafe, OneSwitch, Switching
  <2>10. Captured' BY <1>1, <2>3, <2>4, <2>6 DEF GmSafe, Captured
  <2>11. UpOnly' BY <1>1, <2>3, <2>4 DEF GmSafe, UpOnly
  <2>12. gmTrouble' = {} => Replacing'
    BY <1>1, <2>3, <2>4, <2>6 DEF GmSafe, Replacing, Carries, Detaching
  <2> QED BY <2>5, <2>7, <2>8, <2>9, <2>10, <2>11, <2>12 DEF GmSafe
<1>c. CASE OutsideImport
  <2>1. PICK p \in Profiles :
          gmDisk' = [gmDisk EXCEPT ![p] = Issued(p, gmCalls + 1)] /\ gmActive' = p
    BY <1>c DEF OutsideImport
  <2>2. UNCHANGED <<gmConfig, gmCurrent, gmUp, gmTask>> /\ gmTrouble' # {}
        /\ gmTrouble' = gmTrouble \cup {"outside"}
        /\ gmCalls' = gmCalls + 1 /\ gmCalls < MaxGmCalls
    BY <1>c DEF OutsideImport, gmManagers
  <2>3. Issued(p, gmCalls + 1) \in Contents /\ Issued(p, gmCalls + 1) # NoContent
    BY <1>4, <1>7 DEF Contents, Issued, NoContent
  <2>4. GmTypeOK' BY <1>2, <1>4, <2>1, <2>2, <2>3 DEF GmTypeOK
  <2>5. Counted' BY <1>3, <1>4, <2>2 DEF Counted, Detaching
  <2>6. ActiveStored' BY <1>2, <2>1, <2>3 DEF GmTypeOK, ActiveStored
  <2>7. OneSwitch' /\ Captured' /\ UpOnly'
    BY <1>1, <2>2 DEF GmSafe, OneSwitch, Captured, Detaching, UpOnly
  <2> QED BY <2>2, <2>4, <2>5, <2>6, <2>7 DEF GmSafe
<1>d. ASSUME NEW t \in GmThreads, Disconnect(t) PROVE GmSafe'
  <2> DEFINE task == [NoTask EXCEPT !.at = "stop", !.old = gmCurrent]
  <2>1. gmCurrent \in Nat BY <1>2, <1>4 DEF GmTypeOK, Managers
  <2>2. task \in Tasks /\ task.at = "stop" /\ task.new = 0
    BY <1>5, <2>1 DEF NoTask, Tasks, GmSteps
  <2> HIDE DEF task
  <2>3. Begin(t, task, FALSE, FALSE) /\ UNCHANGED <<gmConfig, gmUp, gmCurrent, gmDisk, gmActive>>
    BY <1>d DEF Disconnect, gmManagers, gmFiles, task
  <2>4. /\ gmTask' \in [GmThreads -> Tasks] /\ gmTask'[t].at = "stop" /\ gmTask[t].at = "idle"
        /\ gmTask'[t].new = 0
        /\ \A u \in GmThreads : u # t => gmTask'[u] = gmTask[u]
        /\ gmCalls' = gmCalls + 1 /\ gmCalls' \in 0 .. MaxGmCalls /\ gmTrouble' = gmTrouble
    BY <1>2, <2>2, <2>3, TaskBegins
  <2>5. GmTypeOK' BY <1>2, <2>3, <2>4 DEF GmTypeOK
  <2>6. \A u \in GmThreads : Detaching(u)' = Detaching(u) BY <2>4 DEF Detaching
  <2>7. Counted' BY <1>3, <1>4, <2>3, <2>4, <2>6 DEF Counted
  <2>8. ActiveStored' BY <1>1, <2>3 DEF GmSafe, ActiveStored
  <2>9. OneSwitch' BY <1>1, <2>4 DEF GmSafe, OneSwitch, Switching
  <2>10. Captured' BY <1>1, <2>3, <2>4, <2>6 DEF GmSafe, Captured
  <2>11. UpOnly' BY <1>1, <2>3, <2>4 DEF GmSafe, UpOnly
  <2>12. gmTrouble' = {} => Replacing'
    BY <1>1, <2>3, <2>4, <2>6 DEF GmSafe, Replacing, Carries, Detaching
  <2> QED BY <2>5, <2>7, <2>8, <2>9, <2>10, <2>11, <2>12 DEF GmSafe
<1>e. ASSUME NEW t \in GmThreads, Reconnect(t) PROVE GmSafe'
  <2> DEFINE task == [NoTask EXCEPT !.at = "bounce", !.old = gmCurrent, !.new = gmCurrent]
  <2>1. gmCurrent \in Nat BY <1>2, <1>4 DEF GmTypeOK, Managers
  <2>2. task \in Tasks /\ task.at = "bounce" /\ task.new = gmCurrent
    BY <1>5, <2>1 DEF NoTask, Tasks, GmSteps
  <2> HIDE DEF task
  <2>3. Begin(t, task, FALSE, TRUE) /\ UNCHANGED <<gmConfig, gmUp, gmCurrent, gmDisk, gmActive>>
    BY <1>e DEF Reconnect, gmManagers, gmFiles, task
  <2>4. /\ gmTask' \in [GmThreads -> Tasks] /\ gmTask'[t].at = "bounce" /\ gmTask[t].at = "idle"
        /\ gmTask'[t].new = gmCurrent
        /\ \A u \in GmThreads : u # t => gmTask'[u] = gmTask[u]
        /\ gmCalls' = gmCalls + 1 /\ gmCalls' \in 0 .. MaxGmCalls /\ gmTrouble' = gmTrouble
        /\ \A u \in GmThreads : gmTask[u].at \notin Switching
    BY <1>2, <2>2, <2>3, TaskBegins
  <2>5. GmTypeOK' BY <1>2, <2>3, <2>4 DEF GmTypeOK
  <2>6. \A u \in GmThreads : Detaching(u)' = Detaching(u) BY <2>4 DEF Detaching
  <2>7. Counted' BY <1>3, <1>4, <2>3, <2>4, <2>6 DEF Counted
  <2>8. ActiveStored' BY <1>1, <2>3 DEF GmSafe, ActiveStored
  <2>9. OneSwitch' BY <1>1, <2>4 DEF GmSafe, OneSwitch, Switching
  <2>10. Captured' BY <1>1, <2>3, <2>4, <2>6 DEF GmSafe, Captured
  <2>11. UpOnly' BY <1>1, <2>3, <2>4 DEF GmSafe, UpOnly
  <2>12. gmTrouble' = {} => Replacing'
    BY <1>1, <2>3, <2>4, <2>6 DEF GmSafe, Replacing, Carries, Detaching
  <2> QED BY <2>5, <2>7, <2>8, <2>9, <2>10, <2>11, <2>12 DEF GmSafe
<1>f. ASSUME NEW t \in GmThreads, StopCaptured(t) PROVE GmSafe'
  <2>1. UNCHANGED <<gmConfig, gmCurrent, gmDisk, gmActive, gmTrouble, gmCalls>>
        /\ gmUp' = gmUp \ {gmTask[t].old} /\ gmTask[t].at \in {"stop", "bounce", "halt", "swap"}
    BY <1>f DEF StopCaptured, gmFiles
  <2>2. /\ gmTask' \in [GmThreads -> Tasks]
        /\ \A u \in GmThreads : u # t => gmTask'[u] = gmTask[u]
        /\ \/ /\ gmTask[t].at = "halt" /\ gmTask'[t].at = "files"
              /\ gmTask'[t].new = gmTask[t].new /\ gmTask'[t].profile = gmTask[t].profile
              /\ gmTask'[t].config = gmTask[t].config
           \/ /\ gmTask[t].at # "halt" /\ gmTask[t].new # 0 /\ gmTask'[t].at = "start"
              /\ gmTask'[t].new = gmTask[t].new
           \/ gmTask[t].at # "halt" /\ gmTask'[t].at = "idle"
    <3>1. CASE gmTask[t].at = "halt" /\ TaskTo(t, "files")
      BY <1>2, <3>1, TaskMoves DEF GmSteps
    <3>2. CASE gmTask[t].at # "halt" /\ gmTask[t].new # 0 /\ TaskTo(t, "start")
      BY <1>2, <3>2, TaskMoves DEF GmSteps
    <3>3. CASE gmTask[t].at # "halt" /\ EndTask(t)
      BY <1>2, <3>3, TaskEnds
    <3> QED BY <1>f, <3>1, <3>2, <3>3 DEF StopCaptured
  <2>3. \A u \in GmThreads : Detaching(u)' = Detaching(u) BY <2>1, <2>2 DEF Detaching
  <2>4. GmTypeOK' BY <1>2, <2>1, <2>2 DEF GmTypeOK
  <2>5. ActiveStored' BY <1>1, <2>1 DEF GmSafe, ActiveStored
  <2>6. Counted' BY <1>3, <2>1, <2>3 DEF Counted
  <2>7. OneSwitch'
    <3>1. gmTask'[t].at = "start" => gmTask[t].at \in {"bounce", "swap"}
      BY <1>1, <2>1, <2>2 DEF GmSafe, Captured
    <3> QED BY <1>1, <2>2, <3>1 DEF GmSafe, OneSwitch, Switching
  <2>8. Captured' BY <1>1, <2>1, <2>2, <2>3 DEF GmSafe, Captured
  <2>9. UpOnly' BY <1>1, <2>1, <2>2 DEF GmSafe, UpOnly
  <2>10. gmTrouble' = {} => Replacing'
    <3>1. ASSUME gmTrouble' = {} PROVE Replacing'
      <4>1. Replacing BY <1>1, <2>1, <3>1 DEF GmSafe
      <4>2. gmTask'[t].at = "files" => Detaching(t)'
        BY <1>1, <2>2, <2>3 DEF GmSafe, Captured
      <4> QED BY <2>1, <2>2, <2>3, <4>1, <4>2 DEF Replacing, Carries, Detaching
    <3> QED BY <3>1
  <2> QED BY <2>4, <2>5, <2>6, <2>7, <2>8, <2>9, <2>10 DEF GmSafe
<1>g. ASSUME NEW t \in GmThreads, StartCaptured(t) PROVE GmSafe'
  <2>1. UNCHANGED <<gmConfig, gmCurrent, gmDisk, gmActive, gmTrouble, gmCalls>>
        /\ gmUp' = gmUp \cup {gmTask[t].new} /\ gmTask[t].at = "start"
    BY <1>g DEF StartCaptured, gmFiles
  <2>2. /\ gmTask' \in [GmThreads -> Tasks] /\ gmTask'[t].at = "idle"
        /\ \A u \in GmThreads : u # t => gmTask'[u] = gmTask[u]
    BY <1>2, <1>g, TaskEnds DEF StartCaptured
  <2>3. \A u \in GmThreads : Detaching(u)' = Detaching(u) BY <2>1, <2>2 DEF Detaching
  <2>4. gmTask[t].new = gmCurrent /\ gmCurrent \in Managers
    BY <1>1, <1>2, <2>1 DEF GmSafe, Captured, GmTypeOK
  <2>5. GmTypeOK' BY <1>2, <2>1, <2>2, <2>4 DEF GmTypeOK
  <2>6. ActiveStored' BY <1>1, <2>1 DEF GmSafe, ActiveStored
  <2>7. Counted' BY <1>3, <2>1, <2>3 DEF Counted
  <2>8. OneSwitch' BY <1>1, <2>1, <2>2 DEF GmSafe, OneSwitch, Switching
  <2>9. Captured' BY <1>1, <2>1, <2>2, <2>3 DEF GmSafe, Captured
  <2>10. UpOnly' BY <1>1, <2>1, <2>2, <2>4 DEF GmSafe, UpOnly
  <2>11. gmTrouble' = {} => Replacing'
    <3>1. ASSUME gmTrouble' = {} PROVE Replacing'
      <4>1. Replacing BY <1>1, <2>1, <3>1 DEF GmSafe
      <4> QED BY <2>1, <2>2, <2>3, <4>1 DEF Replacing, Carries, Detaching
    <3> QED BY <3>1
  <2> QED BY <2>5, <2>6, <2>7, <2>8, <2>9, <2>10, <2>11 DEF GmSafe
<1>h. ASSUME NEW t \in GmThreads, ImportProfileFile(t) PROVE GmSafe'
  <2>1. PICK p \in Profiles :
          /\ gmDisk' = [gmDisk EXCEPT ![p] = Issued(p, gmCalls + 1)] /\ gmActive' = p
          /\ Begin(t, [NoTask EXCEPT !.at = "detach", !.profile = "import", !.config = gmDisk'[p]],
                   TRUE, FALSE)
    BY <1>h DEF ImportProfileFile
  <2> DEFINE config == gmDisk'[p]
             task == [NoTask EXCEPT !.at = "detach", !.profile = "import", !.config = config]
  <2>2. Issued(p, gmCalls + 1) \in Contents /\ Issued(p, gmCalls + 1) # NoContent
    BY <1>4, <1>7 DEF Contents, Issued, NoContent
  <2>3. gmDisk' \in [Profiles -> Contents] /\ config \in Contents /\ config # NoContent
    BY <1>2, <2>1, <2>2 DEF GmTypeOK
  <2> HIDE DEF config
  <2>4. /\ task \in Tasks /\ task.at = "detach" /\ task.profile = "import" /\ task.config = config
    BY <1>5, <2>3 DEF NoTask, Tasks, GmSteps
  <2>5. Begin(t, task, TRUE, FALSE) BY <2>1 DEF config
  <2> HIDE DEF task
  <2>6. /\ gmTask' \in [GmThreads -> Tasks] /\ gmTask'[t] = task
        /\ \A u \in GmThreads : u # t => gmTask'[u] = gmTask[u]
        /\ gmCalls' = gmCalls + 1 /\ gmCalls' \in 0 .. MaxGmCalls /\ gmTrouble' = gmTrouble
        /\ \A u \in GmThreads : gmTask[u].at \notin Switching \cup {"bounce", "start"}
    BY <1>2, <2>4, <2>5, TaskBegins
  <2>7. UNCHANGED <<gmConfig, gmUp, gmCurrent>> BY <1>h DEF ImportProfileFile, gmManagers
  <2>8. /\ Detaching(t)'
        /\ \A u \in GmThreads : ~Detaching(u) /\ (u # t => ~Detaching(u)')
    BY <2>3, <2>4, <2>6 DEF Detaching, Switching
  <2>9. GmTypeOK' BY <1>2, <2>1, <2>3, <2>6, <2>7 DEF GmTypeOK
  <2>10. ActiveStored' BY <2>1, <2>3 DEF ActiveStored, config
  <2>11. Counted' BY <1>3, <1>4, <2>6, <2>7 DEF Counted
  <2>12. OneSwitch' BY <1>1, <2>4, <2>6 DEF GmSafe, OneSwitch, Switching
  <2>13. Captured' BY <1>1, <2>4, <2>6, <2>7, <2>8 DEF GmSafe, Captured, Switching
  <2>14. UpOnly' BY <1>1, <2>4, <2>6, <2>7 DEF GmSafe, UpOnly, Switching
  <2>15. Replacing'
    <3>1. gmActive' # "none" /\ gmDisk'[gmActive'] = config BY <1>7, <2>1 DEF config
    <3>2. \A u \in GmThreads : u # t => gmTask'[u].at # "files" BY <2>6 DEF Switching
    <3> QED BY <2>4, <2>6, <2>8, <3>1, <3>2 DEF Replacing
  <2> QED BY <2>9, <2>10, <2>11, <2>12, <2>13, <2>14, <2>15 DEF GmSafe
<1>i. ASSUME NEW t \in GmThreads, SetActiveProfile(t) PROVE GmSafe'
  <2>1. PICK p \in Stored :
          Begin(t, [NoTask EXCEPT !.at = "detach", !.profile = p, !.config = gmDisk[p]], TRUE, FALSE)
    BY <1>i DEF SetActiveProfile
  <2> DEFINE config == gmDisk[p]
             task == [NoTask EXCEPT !.at = "detach", !.profile = p, !.config = config]
  <2>2. p \in Profiles /\ config \in Contents /\ config # NoContent
    BY <1>2, <2>1 DEF GmTypeOK, Stored
  <2> HIDE DEF config
  <2>4. /\ task \in Tasks /\ task.at = "detach" /\ task.profile = p /\ task.config = config
    BY <1>5, <2>2 DEF NoTask, Tasks, GmSteps
  <2>5. Begin(t, task, TRUE, FALSE) BY <2>1 DEF config
  <2> HIDE DEF task
  <2>6. /\ gmTask' \in [GmThreads -> Tasks] /\ gmTask'[t] = task
        /\ \A u \in GmThreads : u # t => gmTask'[u] = gmTask[u]
        /\ gmCalls' = gmCalls + 1 /\ gmCalls' \in 0 .. MaxGmCalls /\ gmTrouble' = gmTrouble
        /\ \A u \in GmThreads : gmTask[u].at \notin Switching \cup {"bounce", "start"}
    BY <1>2, <2>4, <2>5, TaskBegins
  <2>7. UNCHANGED <<gmConfig, gmUp, gmCurrent, gmDisk, gmActive>>
    BY <1>i DEF SetActiveProfile, gmManagers, gmFiles
  <2>8. /\ Detaching(t)'
        /\ \A u \in GmThreads : ~Detaching(u) /\ (u # t => ~Detaching(u)')
    BY <2>2, <2>4, <2>6 DEF Detaching, Switching
  <2>9. GmTypeOK' BY <1>2, <2>6, <2>7 DEF GmTypeOK
  <2>10. ActiveStored' BY <1>1, <2>7 DEF GmSafe, ActiveStored
  <2>11. Counted' BY <1>3, <1>4, <2>6, <2>7 DEF Counted
  <2>12. OneSwitch' BY <1>1, <2>4, <2>6 DEF GmSafe, OneSwitch, Switching
  <2>13. Captured' BY <1>1, <2>4, <2>6, <2>7, <2>8 DEF GmSafe, Captured, Switching
  <2>14. UpOnly' BY <1>1, <2>4, <2>6, <2>7 DEF GmSafe, UpOnly, Switching
  <2>15. Replacing'
    <3>1. gmDisk'[p] = config /\ p # "import" BY <1>7, <2>2, <2>7 DEF config
    <3>2. \A u \in GmThreads : u # t => gmTask'[u].at # "files" BY <2>6 DEF Switching
    <3> QED BY <2>2, <2>4, <2>6, <2>8, <3>1, <3>2 DEF Replacing
  <2> QED BY <2>9, <2>10, <2>11, <2>12, <2>13, <2>14, <2>15 DEF GmSafe
<1>j. ASSUME NEW t \in GmThreads, StopManager(t) PROVE GmSafe'
  <2>1. /\ UNCHANGED <<gmConfig, gmUp, gmDisk, gmActive, gmTrouble, gmCalls>>
        /\ gmTask[t].at = "detach" /\ gmCurrent' = 0
        /\ gmTask' = [gmTask EXCEPT ![t].at = IF gmCurrent = 0 THEN "files" ELSE "halt",
                                    ![t].old = gmCurrent]
    BY <1>j DEF StopManager, gmFiles
  <2>2. gmCurrent \in Nat BY <1>2, <1>4 DEF GmTypeOK, Managers
  <2>3. /\ gmTask' \in [GmThreads -> Tasks]
        /\ \A u \in GmThreads : u # t => gmTask'[u] = gmTask[u]
        /\ gmTask'[t].at = (IF gmCurrent = 0 THEN "files" ELSE "halt")
        /\ gmTask'[t].old = gmCurrent
        /\ gmTask'[t].new = gmTask[t].new /\ gmTask'[t].profile = gmTask[t].profile
        /\ gmTask'[t].config = gmTask[t].config
    BY <1>2, <2>1, <2>2 DEF GmTypeOK, Tasks, GmSteps
  <2>4. /\ Detaching(t) /\ Detaching(t)'
        /\ \A u \in GmThreads : Detaching(u)' = Detaching(u)
    BY <1>1, <2>1, <2>3 DEF GmSafe, Captured, Detaching
  <2>5. \A u \in GmThreads : u # t => gmTask[u].at \notin Switching \cup {"bounce", "start"}
    BY <1>1, <2>1 DEF GmSafe, OneSwitch, Switching
  <2>6. GmTypeOK' BY <1>2, <2>1, <2>3 DEF GmTypeOK
  <2>7. ActiveStored' BY <1>1, <2>1 DEF GmSafe, ActiveStored
  <2>8. Counted' BY <1>3, <2>1, <2>4 DEF Counted
  <2>9. OneSwitch' BY <1>1, <2>3, <2>5 DEF GmSafe, OneSwitch, Switching
  <2>10. Captured' BY <1>1, <2>1, <2>3, <2>4, <2>5 DEF GmSafe, Captured, Switching
  <2>11. UpOnly'
    <3>1. \A m \in gmUp : m # 0 BY <1>2, <1>4 DEF GmTypeOK, Managers
    <3>2. \A m \in gmUp : m = gmCurrent
      BY <1>1, <2>1, <2>5 DEF GmSafe, UpOnly, Switching
    <3> QED BY <2>1, <2>3, <3>1, <3>2 DEF UpOnly
  <2>12. gmTrouble' = {} => Replacing'
    BY <1>1, <2>1, <2>3, <2>4, <2>5 DEF GmSafe, Replacing, Switching
  <2> QED BY <2>6, <2>7, <2>8, <2>9, <2>10, <2>11, <2>12 DEF GmSafe
<1>k. ASSUME NEW t \in GmThreads, SwitchManager(t) PROVE GmSafe'
  <2>1. gmTask[t].at = "files" /\ gmTask[t].config # NoContent /\ Detaching(t)
        /\ gmDisk' = gmDisk /\ gmCalls' = gmCalls
    BY <1>k DEF SwitchManager, Detaching
  <2>2. \A u \in GmThreads : u # t => gmTask[u].at \notin Switching \cup {"bounce", "start"}
    BY <1>1, <2>1 DEF GmSafe, OneSwitch, Switching
  <2>3. gmCurrent = 0 /\ gmUp = {}
    <3>1. gmCurrent = 0 BY <1>1, <2>1 DEF GmSafe, Captured
    <3>2. \A m \in gmUp : m # 0 BY <1>2, <1>4 DEF GmTypeOK, Managers
    <3>3. \A u \in GmThreads : gmTask[u].at \notin {"halt", "swap"} BY <2>1, <2>2 DEF Switching
    <3> QED BY <1>1, <3>1, <3>2, <3>3 DEF GmSafe, UpOnly
  <2>4. /\ gmTask' \in [GmThreads -> Tasks] /\ gmTask'[t].at = "idle"
        /\ \A u \in GmThreads : u # t => gmTask'[u] = gmTask[u]
    BY <1>2, <1>k, TaskEnds DEF SwitchManager, Failing
  <2>5. \A u \in GmThreads : ~Detaching(u)' /\ gmTask'[u].at \notin Switching \cup {"bounce", "start"}
    BY <2>2, <2>4 DEF Detaching, Switching
  <2>6. OneSwitch' BY <2>5 DEF OneSwitch
  <2>7. Captured'
    BY <1>1, <2>4, <2>5 DEF GmSafe, Captured, Switching
  <2>8. k <= gmCalls /\ gmTask[t].config \in Contents
    BY <1>2, <1>3, <2>1 DEF GmTypeOK, Tasks
  <2>9. ASSUME InstallManager(gmTask[t].config),
               \/ gmTask[t].profile = "import" /\ gmActive' = gmActive
               \/ gmTask[t].profile \in Stored /\ gmActive' = gmTask[t].profile,
               gmUp' = gmUp \/ gmUp' = gmUp \cup {gmCurrent'}, gmTrouble' = gmTrouble
        PROVE  GmSafe'
    <3>1. /\ gmConfig' \in [Managers -> Contents] /\ gmCurrent' \in Managers /\ gmCurrent' # 0
          /\ gmConfig'[gmCurrent'] = gmTask[t].config
          /\ \A m \in Managers : gmConfig'[m] # NoContent <=> m <= k + 1
      BY <1>2, <1>3, <1>4, <2>1, <2>8, <2>9, Installs
    <3>2. gmActive' = gmActive \/ (gmActive' \in Profiles /\ gmDisk[gmActive'] # NoContent)
      BY <2>9 DEF Stored
    <3>3. GmTypeOK' BY <1>2, <2>1, <2>3, <2>4, <2>9, <3>1, <3>2 DEF GmTypeOK
    <3>4. ActiveStored' BY <1>1, <2>1, <3>2 DEF GmSafe, ActiveStored
    <3>5. Counted' BY <1>4, <2>1, <2>5, <2>8, <3>1 DEF Counted
    <3>6. UpOnly' BY <2>3, <2>9 DEF UpOnly
    <3>7. gmTrouble' = {} => Replacing'
      <4>1. ASSUME gmTrouble = {} PROVE gmActive' # "none" /\ gmDisk[gmActive'] = gmTask[t].config
        BY <1>1, <1>7, <2>1, <2>9, <4>1 DEF GmSafe, Replacing, Stored
      <4> QED BY <2>1, <2>5, <2>9, <3>1, <4>1 DEF Replacing, Carries, Switching
    <3> QED BY <2>6, <2>7, <3>3, <3>4, <3>5, <3>6, <3>7 DEF GmSafe
  <2>10. ASSUME Failing(t), UNCHANGED <<gmActive, gmConfig, gmUp, gmCurrent>> PROVE GmSafe'
    <3>1. gmTrouble' = gmTrouble \cup {"failure"} BY <2>10 DEF Failing
    <3>2. GmTypeOK' BY <1>2, <2>1, <2>4, <2>10, <3>1 DEF GmTypeOK
    <3>3. Counted' BY <1>3, <2>1, <2>5, <2>10 DEF Counted
    <3>4. ActiveStored' /\ UpOnly' BY <1>1, <2>1, <2>3, <2>10 DEF GmSafe, ActiveStored, UpOnly
    <3> QED BY <2>6, <2>7, <3>1, <3>2, <3>3, <3>4 DEF GmSafe
  <2> QED BY <1>k, <2>9, <2>10 DEF SwitchManager, gmManagers
<1>l. ASSUME NEW t \in GmThreads, RemoveProfile(t) PROVE GmSafe'
  <2>1. PICK p \in Stored :
          Begin(t, IF p = gmActive THEN [[NoTask EXCEPT !.profile = p] EXCEPT !.at = "detach",
             !.new = 1]
                   ELSE [[NoTask EXCEPT !.profile = p] EXCEPT !.at = "files"], TRUE, FALSE)
    BY <1>l DEF RemoveProfile
  <2> DEFINE task == IF p = gmActive
                     THEN [[NoTask EXCEPT !.profile = p] EXCEPT !.at = "detach", !.new = 1]
                     ELSE [[NoTask EXCEPT !.profile = p] EXCEPT !.at = "files"]
  <2>2. p \in Profiles BY <2>1 DEF Stored
  <2>3. /\ task \in Tasks /\ task.profile = p /\ task.config = NoContent
        /\ \/ p = gmActive /\ task.at = "detach" /\ task.new = 1
           \/ p # gmActive /\ task.at = "files" /\ task.new = 0
    BY <1>5, <2>2 DEF NoTask, Tasks, GmSteps
  <2>4. Begin(t, task, TRUE, FALSE) BY <2>1
  <2> HIDE DEF task
  <2>5. /\ gmTask' \in [GmThreads -> Tasks] /\ gmTask'[t] = task
        /\ \A u \in GmThreads : u # t => gmTask'[u] = gmTask[u]
        /\ gmCalls' = gmCalls + 1 /\ gmCalls' \in 0 .. MaxGmCalls /\ gmTrouble' = gmTrouble
        /\ \A u \in GmThreads : gmTask[u].at \notin Switching \cup {"bounce", "start"}
    BY <1>2, <2>3, <2>4, TaskBegins
  <2>6. UNCHANGED <<gmConfig, gmUp, gmCurrent, gmDisk, gmActive>>
    BY <1>l DEF RemoveProfile, gmManagers, gmFiles
  <2>7. /\ Detaching(t)' <=> p = gmActive
        /\ \A u \in GmThreads : ~Detaching(u) /\ (u # t => ~Detaching(u)')
    BY <2>3, <2>5 DEF Detaching, Switching
  <2>8. GmTypeOK' BY <1>2, <2>5, <2>6 DEF GmTypeOK
  <2>9. ActiveStored' BY <1>1, <2>6 DEF GmSafe, ActiveStored
  <2>10. Counted' BY <1>3, <1>4, <2>5, <2>6 DEF Counted
  <2>11. OneSwitch' BY <2>5 DEF OneSwitch, Switching
  <2>12. Captured' BY <1>1, <2>3, <2>5, <2>6, <2>7 DEF GmSafe, Captured, Switching
  <2>13. UpOnly' BY <1>1, <2>5, <2>6 DEF GmSafe, UpOnly, Switching
  <2>14. ASSUME gmTrouble' = {} PROVE Replacing'
    <3>1. Carries BY <1>1, <2>5, <2>7, <2>14 DEF GmSafe, Replacing
    <3>2. Carries' BY <2>6, <3>1 DEF Carries
    <3>3. \A u \in GmThreads : u # t => gmTask'[u].at # "files" BY <2>5 DEF Switching
    <3>4. p # "import" BY <1>7, <2>2
    <3> QED BY <2>2, <2>3, <2>5, <2>6, <2>7, <3>2, <3>3, <3>4 DEF Replacing
  <2> QED BY <2>8, <2>9, <2>10, <2>11, <2>12, <2>13, <2>14 DEF GmSafe
<1>m. ASSUME NEW t \in GmThreads, DeleteProfile(t) PROVE GmSafe'
  <2> DEFINE profile == gmTask[t].profile
             left == Stored \ {profile}
             now == IF gmActive # profile THEN gmActive
                    ELSE IF left = {} THEN "none" ELSE CHOOSE p \in left : TRUE
  <2>1. gmTask[t].at = "files" /\ gmTask[t].config = NoContent /\ gmUp' = gmUp /\ gmCalls' = gmCalls
        /\ (Detaching(t) <=> gmTask[t].new = 1)
    BY <1>m DEF DeleteProfile, Detaching
  <2>2. \A u \in GmThreads : u # t => gmTask[u].at \notin Switching \cup {"bounce", "start"}
    BY <1>1, <2>1 DEF GmSafe, OneSwitch, Switching
  <2>3. /\ gmTask' \in [GmThreads -> Tasks] /\ gmTask'[t].at = "idle"
        /\ \A u \in GmThreads : u # t => gmTask'[u] = gmTask[u]
    BY <1>2, <1>m, TaskEnds DEF DeleteProfile, Failing
  <2>4. \A u \in GmThreads : ~Detaching(u)' /\ gmTask'[u].at \notin Switching \cup {"bounce", "start"}
    BY <2>2, <2>3 DEF Detaching, Switching
  <2>5. OneSwitch' BY <2>4 DEF OneSwitch
  <2>6. Captured' BY <1>1, <2>3, <2>4 DEF GmSafe, Captured, Switching
  <2>7. \A m \in gmUp : m = gmCurrent /\ m # 0
    <3>1. \A m \in gmUp : m # 0 BY <1>2, <1>4 DEF GmTypeOK, Managers
    <3>2. \A u \in GmThreads : gmTask[u].at \notin {"halt", "swap"} BY <2>1, <2>2 DEF Switching
    <3> QED BY <1>1, <3>1, <3>2 DEF GmSafe, UpOnly
  <2>8. gmTask[t].new = 1 => gmCurrent = 0 /\ k <= gmCalls
    BY <1>1, <1>3, <2>1 DEF GmSafe, Captured
  <2>9. CASE Failing(t) /\ UNCHANGED <<gmDisk, gmActive, gmConfig, gmCurrent>>
    <3>1. gmTrouble' = gmTrouble \cup {"failure"} BY <2>9 DEF Failing
    <3>2. GmTypeOK' BY <1>2, <2>1, <2>3, <2>9, <3>1 DEF GmTypeOK
    <3>3. Counted' BY <1>3, <2>1, <2>4, <2>9 DEF Counted
    <3>4. ActiveStored' /\ UpOnly' BY <1>1, <2>1, <2>7, <2>9 DEF GmSafe, ActiveStored, UpOnly
    <3> QED BY <2>5, <2>6, <3>1, <3>2, <3>3, <3>4 DEF GmSafe
  <2>10. ASSUME gmDisk' = [gmDisk EXCEPT ![profile] = NoContent], gmActive' = now,
                IF gmTask[t].new = 1 /\ now # "none" THEN InstallManager(gmDisk[now])
                ELSE UNCHANGED <<gmConfig, gmCurrent>>,
                gmTrouble' = gmTrouble
         PROVE  GmSafe'
    <3>1. now \in Profiles \cup {"none"}
          /\ (now # "none" => now # profile /\ gmDisk[now] # NoContent)
      <4>1. CASE gmActive # profile BY <1>1, <1>2, <4>1 DEF GmTypeOK, GmSafe, ActiveStored
      <4>2. CASE gmActive = profile /\ left # {} BY <4>2 DEF Stored
      <4>3. CASE gmActive = profile /\ left = {} BY <4>3
      <4> QED BY <4>1, <4>2, <4>3
    <3>2. (gmActive # profile => now = gmActive) /\ (gmActive # profile \/ now # profile \/ profile = "none")
      BY <3>1
    <3> HIDE DEF now, left
    <3>3. gmDisk' \in [Profiles -> Contents] /\ (now # "none" => gmDisk'[now] = gmDisk[now])
      BY <1>2, <1>5, <2>10, <3>1 DEF GmTypeOK
    <3>4. ActiveStored' BY <2>10, <3>1, <3>3 DEF ActiveStored
    <3>5. ASSUME gmTask[t].new = 1, now # "none"
          PROVE  /\ gmConfig' \in [Managers -> Contents] /\ gmCurrent' \in Managers /\ gmCurrent' # 0
                 /\ gmConfig'[gmCurrent'] = gmDisk[now]
                 /\ \A m \in Managers : gmConfig'[m] # NoContent <=> m <= k + 1
      <4>1. gmDisk[now] \in Contents BY <1>2, <3>1, <3>5 DEF GmTypeOK
      <4> QED BY <1>2, <1>3, <1>4, <2>8, <2>10, <3>1, <3>5, <4>1, Installs
    <3>6. GmTypeOK'
      <4>1. gmConfig' \in [Managers -> Contents] /\ gmCurrent' \in Managers \cup {0}
        BY <1>2, <2>10, <3>5 DEF GmTypeOK
      <4> QED BY <1>2, <2>1, <2>3, <2>10, <3>1, <3>3, <4>1 DEF GmTypeOK
    <3>7. Counted'
      <4>1. CASE gmTask[t].new = 1 /\ now # "none"
        <5>1. k + 1 \in 0 .. gmCalls' + 1 BY <1>4, <2>1, <2>8, <4>1
        <5> QED BY <2>4, <3>5, <4>1, <5>1 DEF Counted
      <4>2. CASE ~(gmTask[t].new = 1 /\ now # "none")
        BY <1>3, <2>1, <2>4, <2>10, <4>2 DEF Counted
      <4> QED BY <4>1, <4>2
    <3>8. UpOnly' BY <2>1, <2>7, <2>8, <2>10 DEF UpOnly
    <3>9. ASSUME gmTrouble' = {} PROVE Carries'
      <4>1. Replacing BY <1>1, <2>10, <3>9 DEF GmSafe
      <4>2. CASE gmTask[t].new = 1 /\ now # "none"
        BY <2>10, <3>3, <3>5, <4>2 DEF Carries
      <4>3. CASE gmTask[t].new = 1 /\ now = "none"
        BY <2>8, <2>10, <4>3 DEF Carries
      <4>4. CASE gmTask[t].new # 1
        <5>1. Carries
          BY <2>1, <2>2, <4>1, <4>4 DEF Replacing, Detaching, Switching
        <5>2. now = gmActive BY <2>1, <3>2, <4>1, <4>4 DEF Replacing
        <5> QED BY <2>10, <3>3, <4>4, <5>1, <5>2 DEF Carries
      <4> QED BY <4>2, <4>3, <4>4
    <3>10. gmTrouble' = {} => Replacing' BY <2>4, <3>9 DEF Replacing, Switching
    <3> QED BY <2>5, <2>6, <3>4, <3>6, <3>7, <3>8, <3>10 DEF GmSafe
  <2> QED BY <1>m, <2>9, <2>10 DEF DeleteProfile, gmFiles
<1>n. ASSUME NEW t \in GmThreads, EditProfile(t) PROVE GmSafe'
  <2> DEFINE edited == [gmConfig[gmCurrent] EXCEPT !.edit = gmCalls + 1]
             new == IF gmCurrent \in gmUp THEN gmCurrent' ELSE 0
             task == [NoTask EXCEPT !.at = "swap", !.old = gmCurrent, !.new = new]
  <2>1. /\ gmCurrent # 0 /\ gmActive # "none" /\ gmCalls < MaxGmCalls
        /\ gmDisk' = [gmDisk EXCEPT ![gmActive] = edited] /\ InstallManager(edited)
        /\ Begin(t, task, TRUE, FALSE)
        /\ UNCHANGED <<gmUp, gmActive>>
    BY <1>n DEF EditProfile
  <2>2. gmCurrent \in Managers /\ gmActive \in Profiles BY <1>2, <2>1 DEF GmTypeOK
  <2>3. edited \in Contents /\ edited # NoContent
    <3>1. gmConfig[gmCurrent] \in Contents BY <1>2, <2>2 DEF GmTypeOK
    <3>2. edited \in Contents /\ edited.edit = gmCalls + 1 BY <1>4, <3>1 DEF Contents
    <3>3. NoContent.edit = 0 BY DEF NoContent, Issued
    <3>4. gmCalls + 1 # 0 BY <1>4
    <3> HIDE DEF edited
    <3> QED BY <3>2, <3>3, <3>4
  <2> HIDE DEF edited
  <2>4. /\ gmConfig' \in [Managers -> Contents] /\ gmCurrent' \in Managers /\ gmCurrent' # 0
        /\ gmConfig'[gmCurrent'] = edited
        /\ \A m \in Managers : gmConfig'[m] # NoContent <=> m <= k + 1
    <3>1. k <= MaxGmCalls BY <1>4, <2>1
    <3> QED BY <1>2, <1>3, <2>1, <2>3, <3>1, Installs
  <2>5. task \in Tasks /\ task.at = "swap" /\ task.old = gmCurrent /\ task.new \in {0, gmCurrent'}
    <3>1. gmCurrent \in Nat /\ new \in Nat /\ new \in {0, gmCurrent'}
      BY <1>4, <2>2, <2>4 DEF Managers
    <3> HIDE DEF new
    <3> QED BY <1>5, <3>1 DEF NoTask, Tasks, GmSteps
  <2> HIDE DEF task
  <2>6. /\ gmTask' \in [GmThreads -> Tasks] /\ gmTask'[t] = task
        /\ \A u \in GmThreads : u # t => gmTask'[u] = gmTask[u]
        /\ gmCalls' = gmCalls + 1 /\ gmCalls' \in 0 .. MaxGmCalls /\ gmTrouble' = gmTrouble
        /\ \A u \in GmThreads : gmTask[u].at \notin Switching \cup {"bounce", "start"}
    BY <1>2, <2>1, <2>5, TaskBegins
  <2>7. \A u \in GmThreads : ~Detaching(u)'
    BY <2>5, <2>6 DEF Detaching, Switching
  <2>8. gmDisk' \in [Profiles -> Contents] /\ gmDisk'[gmActive] = edited
    BY <1>2, <2>1, <2>2, <2>3 DEF GmTypeOK
  <2>9. GmTypeOK' BY <1>2, <2>1, <2>4, <2>6, <2>8 DEF GmTypeOK
  <2>10. ActiveStored' BY <2>1, <2>3, <2>8 DEF ActiveStored
  <2>11. Counted'
    <3>1. k + 1 \in 0 .. gmCalls' + 1 BY <1>4, <2>6
    <3> QED BY <2>4, <2>7, <3>1 DEF Counted
  <2>12. OneSwitch' BY <2>5, <2>6 DEF OneSwitch, Switching
  <2>13. Captured' BY <1>1, <2>5, <2>6, <2>7 DEF GmSafe, Captured, Switching
  <2>14. UpOnly' BY <1>1, <2>1, <2>5, <2>6 DEF GmSafe, UpOnly, Switching
  <2>15. Replacing'
    <3>1. Carries' BY <2>1, <2>4, <2>8 DEF Carries
    <3>2. \A u \in GmThreads : gmTask'[u].at # "files" BY <2>5, <2>6 DEF Switching
    <3> QED BY <2>7, <3>1, <3>2 DEF Replacing
  <2> QED BY <2>9, <2>10, <2>11, <2>12, <2>13, <2>14, <2>15 DEF GmSafe
<1> QED
  BY <1>a, <1>b, <1>c, <1>d, <1>e, <1>f, <1>g, <1>h, <1>i, <1>j, <1>k, <1>l, <1>m, <1>n DEF GmNext

(* The invariant of the manager switch (api.py: import_profile,          *)
(* set_active_profile, remove_profile, update_profile, connect,          *)
(* disconnect and reconnect, each on a thread of its own).               *)
THEOREM SwitchInv == GmSpec => []GmIInv
<1> QED BY GmAtStart, GmIInvKept, PTL DEF GmSpec

(* Between calls only the current manager may be up; and it carries the  *)
(* active profile as it is on disk, unless a file could not be written   *)
(* or another process has imported a profile. Both unless a switch of    *)
(* managers has met another one, a connect or a reconnect (api.py).      *)
THEOREM Settled == GmSpec => []GmSettled
<1>1. GmIInv => GmSettled
  <2> SUFFICES ASSUME GmSafe, \A t \in GmThreads : gmTask[t] = NoTask PROVE
          /\ gmUp \subseteq {gmCurrent}
          /\ gmTrouble = {} => /\ gmCurrent = 0 <=> gmActive = "none"
                               /\ gmCurrent # 0 => gmConfig[gmCurrent] = gmDisk[gmActive]
    BY DEF GmIInv, GmSettled
  <2>1. \A t \in GmThreads : gmTask[t].at = "idle" BY DEF NoTask
  <2>2. gmUp \subseteq {gmCurrent} BY <2>1 DEF GmSafe, UpOnly
  <2>3. \A t \in GmThreads : ~Detaching(t) BY <2>1 DEF Detaching
  <2> QED BY <2>2, <2>3 DEF GmSafe, Replacing, Carries
<1> QED BY SwitchInv, <1>1, PTL

-----------------------------------------------------------------------------
(* The exchange of a token for a registered key.                         *)

\* What a device and a request may be at.
DeviceSteps == {"idle", "dial", "await", "save", "enrolled", "failed"}
PostSteps == {"sent", "queued", "spent", "ok", "refused"}
Requests == [dev : Devices, rung : Nat, key : Nat \ {0}, at : PostSteps]

\* Which values the variables take.
ExTypeOK ==
    /\ exDevice \in [Devices -> [at : DeviceSteps, rung : Nat, key : Nat]]
    /\ exPost \subseteq Requests
    /\ exToken \in {"fresh", "used", "gone"}
    /\ exSlot \in [state : {"active", "disabled", "revoked"}, key : Nat]
    /\ exBusy \in BOOLEAN /\ exStrikes \in Nat /\ exBarred \in BOOLEAN
    /\ exMishap \in BOOLEAN /\ exImports \in Nat /\ exKills \in Nat

\* Nobody is told more than the row says: a device has a key once it dials, and
\* one that was told that its key is registered, or has heard it, holds that key.
Honest ==
    /\ \A d \in Devices : exDevice[d].at # "idle" => exDevice[d].key # 0
    /\ \A d \in Devices : exDevice[d].at \in {"save", "enrolled"} =>
                              exDevice[d].key = exSlot.key
    /\ \A r \in exPost : r.at = "ok" => r.key = exSlot.key

\* The row has a key only after the token was spent, and never while a request
\* that spent it is still under way.
SpentOnce ==
    /\ exSlot.key # 0 => exToken # "fresh"
    /\ \A r \in exPost : r.at = "spent" =>
          /\ exToken = "used" /\ exSlot.key = 0
          /\ \A q \in exPost : q.at = "spent" => q = r

\* As long as nothing was lost, a device that is waiting has one request under way.
InTouch ==
    ~exMishap => \A r \in exPost : /\ Awaits(r.dev, r)
                                   /\ \A q \in exPost : q.dev = r.dev => q = r

\* d has the registered key, or the answer that says so is on its way.
Told(d) ==
    /\ exDevice[d].key = exSlot.key /\ exSlot.key # 0
    /\ \/ exDevice[d].at \in {"save", "enrolled"}
       \/ \E r \in exPost : r.at = "ok" /\ Awaits(d, r)

\* A token that is spent has told somebody, or is about to.
SomebodyTold ==
    exToken = "used" => \/ \E r \in exPost : r.at = "spent"
                        \/ \E d \in Devices : Told(d)
                        \/ exMishap \/ exSlot.state = "revoked"

\* The invariant of the exchange.
ExIInv == ExTypeOK /\ Honest /\ SpentOnce /\ InTouch /\ SomebodyTold

\* What answering r comes to.
Answered(r, label) ==
    /\ exPost' \subseteq Requests
    /\ \A p \in exPost' : \/ p \in exPost \ {r}
                          \/ /\ p.dev = r.dev /\ p.rung = r.rung /\ p.key = r.key
                             /\ p.at = label /\ Awaits(r.dev, r)
    /\ Awaits(r.dev, r) => \E p \in exPost' : /\ p.dev = r.dev /\ p.rung = r.rung
                                             /\ p.key = r.key /\ p.at = label

(* An answer takes the place of its request if the device still waits for it, *)
(* and is lost otherwise.                                                     *)
LEMMA AnswersReplace ==
    ASSUME ExTypeOK, NEW r \in exPost, NEW label \in PostSteps, AnswerTo(r, label)
    PROVE  Answered(r, label)
<1> DEFINE answer == [r EXCEPT !.at = label]
<1>1. r \in Requests /\ exPost \subseteq Requests BY DEF ExTypeOK
<1>2. /\ answer \in Requests /\ answer.dev = r.dev /\ answer.rung = r.rung
      /\ answer.key = r.key /\ answer.at = label
    BY <1>1 DEF Requests
<1>3. CASE Awaits(r.dev, r)
  <2>1. exPost' = (exPost \ {r}) \cup {answer} BY <1>3 DEF AnswerTo
  <2> QED BY <1>1, <1>2, <1>3, <2>1 DEF Answered
<1>4. CASE ~Awaits(r.dev, r)
  <2>1. exPost' = exPost \ {r} BY <1>4 DEF AnswerTo
  <2> QED BY <1>1, <1>4, <2>1 DEF Answered
<1> QED BY <1>3, <1>4 DEF Answered

(* Every step keeps the invariant.                                       *)
LEMMA ExIInvKept == ExIInv /\ [ExNext]_exVars => ExIInv'
<1> SUFFICES ASSUME ExIInv, [ExNext]_exVars PROVE ExIInv'
    OBVIOUS
<1> USE DEF ExIInv, ExTypeOK, Requests, DeviceSteps, PostSteps, exServer, Awaits, Told
<1>1. ASSUME NEW d \in Devices, ImportProfile(d) PROVE ExIInv'
  <2>1. ExTypeOK' BY <1>1 DEF ImportProfile
  <2>2. Honest' BY <1>1 DEF Honest, ImportProfile
  <2>3. SpentOnce' BY <1>1 DEF SpentOnce, ImportProfile
  <2>4. InTouch' BY <1>1 DEF InTouch, ImportProfile
  <2>5. SomebodyTold' BY <1>1 DEF SomebodyTold, ImportProfile
  <2> QED BY <2>1, <2>2, <2>3, <2>4, <2>5
<1>2. ASSUME NEW d \in Devices, DialFails(d) PROVE ExIInv'
  <2>1. ExTypeOK' BY <1>2 DEF DialFails, ExNextRung, DeviceTo
  <2>2. Honest' BY <1>2 DEF Honest, DialFails, ExNextRung, DeviceTo
  <2>3. SpentOnce' BY <1>2 DEF SpentOnce, DialFails, ExNextRung, DeviceTo
  <2>4. InTouch' BY <1>2 DEF InTouch, DialFails, ExNextRung, DeviceTo
  <2>5. SomebodyTold' BY <1>2 DEF SomebodyTold, DialFails, ExNextRung, DeviceTo
  <2> QED BY <2>1, <2>2, <2>3, <2>4, <2>5
<1>3. ASSUME NEW d \in Devices, PostToken(d) PROVE ExIInv'
  <2>1. ExTypeOK' BY <1>3 DEF Honest, PostToken, DeviceTo
  <2>2. Honest' BY <1>3 DEF Honest, PostToken, DeviceTo
  <2>3. SpentOnce' BY <1>3 DEF SpentOnce, PostToken, DeviceTo
  <2>4. InTouch' BY <1>3 DEF InTouch, PostToken, DeviceTo
  <2>5. SomebodyTold' BY <1>3 DEF SomebodyTold, PostToken, DeviceTo
  <2> QED BY <2>1, <2>2, <2>3, <2>4, <2>5
<1>4. ASSUME NEW d \in Devices, HearAnswer(d) PROVE ExIInv'
  <2>1. ExTypeOK' BY <1>4 DEF HearAnswer, DeviceTo
  <2>2. Honest' BY <1>4 DEF Honest, HearAnswer, DeviceTo
  <2>3. SpentOnce' BY <1>4 DEF SpentOnce, HearAnswer, DeviceTo
  <2>4. InTouch' BY <1>4 DEF InTouch, HearAnswer, DeviceTo
  <2>5. SomebodyTold' BY <1>4 DEF SomebodyTold, Honest, InTouch, HearAnswer, DeviceTo
  <2> QED BY <2>1, <2>2, <2>3, <2>4, <2>5
<1>5. ASSUME NEW d \in Devices, GiveUpWaiting(d) PROVE ExIInv'
  <2>1. ExTypeOK' BY <1>5 DEF GiveUpWaiting, ExNextRung
  <2>2. Honest' BY <1>5 DEF Honest, GiveUpWaiting, ExNextRung
  <2>3. SpentOnce' BY <1>5 DEF SpentOnce, GiveUpWaiting, ExNextRung
  <2>4. InTouch' BY <1>5 DEF InTouch, GiveUpWaiting, ExNextRung
  <2>5. SomebodyTold' BY <1>5 DEF SomebodyTold, GiveUpWaiting, ExNextRung
  <2> QED BY <2>1, <2>2, <2>3, <2>4, <2>5
<1>6. ASSUME NEW d \in Devices, SaveProfile(d) PROVE ExIInv'
  <2>1. ExTypeOK'
    <3>2. exMishap' \in BOOLEAN BY <1>6 DEF SaveProfile, ExTypeOK
    <3>3. exDevice' \in [Devices -> [at : DeviceSteps, rung : Nat, key : Nat]]
      BY <1>6 DEF SaveProfile, ExTypeOK, DeviceTo, DeviceSteps
    <3> QED BY <1>6, <3>2, <3>3 DEF SaveProfile, DeviceTo
  <2>2. Honest' BY <1>6 DEF Honest, SaveProfile, DeviceTo
  <2>3. SpentOnce' BY <1>6 DEF SpentOnce, SaveProfile, DeviceTo
  <2>4. InTouch' BY <1>6 DEF InTouch, SaveProfile, DeviceTo
  <2>5. SomebodyTold' BY <1>6 DEF SomebodyTold, SaveProfile, DeviceTo
  <2> QED BY <2>1, <2>2, <2>3, <2>4, <2>5
<1>7. ASSUME NEW r \in exPost, ReceivePost(r) PROVE ExIInv'
  <2>1. ExTypeOK' BY <1>7 DEF ReceivePost, AnswerTo, PostTo
  <2>2. Honest' BY <1>7 DEF Honest, ReceivePost, AnswerTo, PostTo
  <2>3. SpentOnce' BY <1>7 DEF SpentOnce, ReceivePost, AnswerTo, PostTo
  <2>4. InTouch' BY <1>7 DEF InTouch, ReceivePost, AnswerTo, PostTo
  <2>5. SomebodyTold' BY <1>7 DEF SomebodyTold, ReceivePost, AnswerTo, PostTo
  <2> QED BY <2>1, <2>2, <2>3, <2>4, <2>5
<1>8. ASSUME NEW r \in exPost, SpendToken(r) PROVE ExIInv'
  <2>1. ExTypeOK' BY <1>8 DEF SpendToken, PostTo
  <2>2. Honest' BY <1>8 DEF Honest, SpendToken, PostTo
  <2>3. SpentOnce' BY <1>8 DEF SpentOnce, SpendToken, PostTo
  <2>4. InTouch' BY <1>8 DEF InTouch, SpendToken, PostTo
  <2>5. SomebodyTold'
    <3>1. [r EXCEPT !.at = "spent"] \in exPost' /\ [r EXCEPT !.at = "spent"].at = "spent"
      BY <1>8 DEF SpendToken, PostTo, ExTypeOK
    <3> QED BY <3>1 DEF SomebodyTold, SpendToken, PostTo
  <2> QED BY <2>1, <2>2, <2>3, <2>4, <2>5
<1>9. ASSUME NEW r \in exPost, RefuseToken(r) PROVE ExIInv'
  <2>1. ExTypeOK' BY <1>9 DEF RefuseToken, AnswerTo
  <2>2. Honest' BY <1>9 DEF Honest, RefuseToken, AnswerTo
  <2>3. SpentOnce' BY <1>9 DEF SpentOnce, RefuseToken, AnswerTo
  <2>4. InTouch' BY <1>9 DEF InTouch, RefuseToken, AnswerTo
  <2>5. SomebodyTold' BY <1>9 DEF SomebodyTold, RefuseToken, AnswerTo
  <2> QED BY <2>1, <2>2, <2>3, <2>4, <2>5
<1>10. ASSUME NEW r \in exPost, CompleteEnrolment(r) PROVE ExIInv'
  <2>1. CASE ~MayEnrol
    <3>1. AnswerTo(r, "refused") /\ r.at = "spent" /\ UNCHANGED <<exDevice, exToken, exSlot, exMishap>>
        BY <1>10, <2>1 DEF CompleteEnrolment
    <3>2. Answered(r, "refused") BY <3>1, AnswersReplace DEF PostSteps
    <3>3. ExTypeOK' BY <1>10, <2>1, <3>2 DEF Answered, CompleteEnrolment
    <3>4. Honest' /\ SpentOnce' /\ InTouch' BY <3>1, <3>2 DEF Answered, Honest, SpentOnce, InTouch
    <3>5. exSlot.state = "revoked" BY <2>1, <3>1 DEF SpentOnce, MayEnrol
    <3> QED BY <3>1, <3>3, <3>4, <3>5 DEF SomebodyTold
  <2>2. CASE MayEnrol
    <3>1. /\ AnswerTo(r, "ok") /\ exSlot' = [exSlot EXCEPT !.key = r.key]
          /\ r.at = "spent" /\ UNCHANGED <<exDevice, exToken, exMishap>>
        BY <1>10, <2>2 DEF CompleteEnrolment
    <3>2. Answered(r, "ok") BY <3>1, AnswersReplace DEF PostSteps
    <3>3. exSlot'.key = r.key /\ r.key # 0 /\ exSlot.key = 0 /\ exSlot'.state = exSlot.state
      BY <2>2, <3>1 DEF MayEnrol
    <3>a. exSlot' \in [state : {"active", "disabled", "revoked"}, key : Nat] BY <3>1
    <3>b. exBusy' = FALSE /\ exStrikes' = 0 /\ exBarred' = FALSE /\ UNCHANGED <<exImports, exKills>>
        BY <1>10, <2>2 DEF CompleteEnrolment
    <3>4. ExTypeOK' BY <3>1, <3>2, <3>a, <3>b DEF Answered
    <3>5. Honest' BY <3>1, <3>2, <3>3 DEF Answered, Honest
    <3>6. SpentOnce' BY <3>1, <3>2, <3>3 DEF Answered, SpentOnce
    <3>7. InTouch' BY <3>1, <3>2 DEF Answered, InTouch
    <3>8. ~exMishap => Told(r.dev)' BY <3>1, <3>2, <3>3 DEF Answered, InTouch
    <3> QED BY <3>1, <3>4, <3>5, <3>6, <3>7, <3>8 DEF SomebodyTold
  <2> QED BY <2>1, <2>2
<1>11. ASSUME NEW r \in exPost, BreakEnrolment(r) PROVE ExIInv'
  <2>1. AnswerTo(r, "refused") /\ exMishap' /\ r.at = "spent" /\ UNCHANGED <<exDevice, exToken>>
      BY <1>11 DEF BreakEnrolment
  <2>2. Answered(r, "refused") BY <2>1, AnswersReplace DEF PostSteps
  <2>3. exSlot' = exSlot \/ (exSlot' = [exSlot EXCEPT !.key = r.key] /\ exSlot.key = 0)
      BY <1>11 DEF BreakEnrolment, MayEnrol
  <2>4. ExTypeOK' BY <1>11, <2>2, <2>3 DEF Answered, BreakEnrolment
  <2>5. Honest' BY <2>1, <2>2, <2>3 DEF Answered, Honest
  <2>6. SpentOnce' BY <2>1, <2>2, <2>3 DEF Answered, SpentOnce
  <2> QED BY <2>1, <2>4, <2>5, <2>6 DEF InTouch, SomebodyTold
<1>12. CASE KillListener
  <2>1. ExTypeOK'
    <3>1. exPost' \subseteq Requests /\ UNCHANGED <<exDevice, exToken, exSlot, exImports>>
        BY <1>12 DEF KillListener
    <3>2. exMishap' \in BOOLEAN /\ exBusy' = FALSE /\ exBarred' = FALSE BY <1>12 DEF KillListener
    <3>3. exStrikes' = 0 /\ exKills' \in Nat BY <1>12 DEF KillListener
    <3> QED BY <3>1, <3>2, <3>3
  <2>2. Honest' BY <1>12 DEF Honest, KillListener
  <2>3. SpentOnce' BY <1>12 DEF SpentOnce, KillListener
  <2>4. InTouch' BY <1>12 DEF InTouch, KillListener
  <2>5. SomebodyTold' BY <1>12 DEF SomebodyTold, KillListener
  <2> QED BY <2>1, <2>2, <2>3, <2>4, <2>5
<1>13. CASE BarLifts
  <2>1. ExTypeOK' BY <1>13 DEF BarLifts
  <2>2. Honest' BY <1>13 DEF Honest, BarLifts
  <2>3. SpentOnce' BY <1>13 DEF SpentOnce, BarLifts
  <2>4. InTouch' BY <1>13 DEF InTouch, BarLifts
  <2>5. SomebodyTold' BY <1>13 DEF SomebodyTold, BarLifts
  <2> QED BY <2>1, <2>2, <2>3, <2>4, <2>5
<1>14. CASE TokenExpires
  <2>1. ExTypeOK' BY <1>14 DEF TokenExpires
  <2>2. Honest' BY <1>14 DEF Honest, TokenExpires
  <2>3. SpentOnce' BY <1>14 DEF SpentOnce, TokenExpires
  <2>4. InTouch' BY <1>14 DEF InTouch, TokenExpires
  <2>5. SomebodyTold' BY <1>14 DEF SomebodyTold, TokenExpires
  <2> QED BY <2>1, <2>2, <2>3, <2>4, <2>5
<1>15. CASE AdminRevokes
  <2>1. ExTypeOK' BY <1>15 DEF AdminRevokes
  <2>2. Honest' BY <1>15 DEF Honest, AdminRevokes
  <2>3. SpentOnce' BY <1>15 DEF SpentOnce, AdminRevokes
  <2>4. InTouch' BY <1>15 DEF InTouch, AdminRevokes
  <2>5. SomebodyTold' BY <1>15 DEF SomebodyTold, AdminRevokes
  <2> QED BY <2>1, <2>2, <2>3, <2>4, <2>5
<1>16. CASE UNCHANGED exVars
  BY <1>16 DEF exVars, exServer, Awaits, Told, ExTypeOK, Honest, SpentOnce, InTouch, SomebodyTold
<1> QED
    BY <1>1, <1>2, <1>3, <1>4, <1>5, <1>6, <1>7, <1>8, <1>9, <1>10, <1>11, <1>12, <1>13, <1>14,
       <1>15, <1>16 DEF ExNext

(* At the start the token is fresh and nobody has asked.                 *)
LEMMA ExAtStart == ExInit => ExIInv
<1> SUFFICES ASSUME ExInit PROVE ExIInv
    OBVIOUS
<1>1. exSlot \in [state : {"active", "disabled", "revoked"}, key : Nat] /\ exSlot.key = 0
    BY DEF ExInit
<1>2. ExTypeOK BY <1>1 DEF ExInit, ExTypeOK, DeviceSteps
<1> QED BY <1>1, <1>2 DEF ExInit, ExIInv, Honest, SpentOnce, InTouch, SomebodyTold

(* The invariant of the exchange (enroll.py on the device;               *)
(* enroll_server.py and enrollment.py behind the listener).              *)
THEOREM EnrolInv == ExSpec => []ExIInv
  BY ExAtStart, ExIInvKept, PTL DEF ExSpec

(* A device that has saved its profile holds the key that the server     *)
(* registered, whatever was retried on other rungs, imported twice,      *)
(* answered late or redeemed by another copy of the profile (enroll.py). *)
THEOREM HeldKeysAdmitted == ExSpec => []ExHeldKeyAdmitted
<1>1. ExIInv => ExHeldKeyAdmitted BY DEF ExIInv, Honest, ExHeldKeyAdmitted
<1> QED BY <1>1, EnrolInv, PTL

(* Once the token is spent, some device holds the registered key or is   *)
(* about to be told so, unless an answer was lost or late, a file could  *)
(* not be written, the server was killed, or the client was revoked      *)
(* meanwhile.                                                            *)
THEOREM NobodyStranded == ExSpec => []ExNobodyStranded
<1>1. ExIInv => ExNobodyStranded
    BY DEF ExIInv, SomebodyTold, Told, Awaits, ExNobodyStranded
<1> QED BY <1>1, EnrolInv, PTL

-----------------------------------------------------------------------------
(* The profiles and the pinned keys.                                     *)

\* What a pin, a stored profile and a task may be.
Pins == Signers \ {"invalid"}
Profile == [server : Servers \cup {"none"}, address : Addresses, key : PfKeys]
ImportSteps == {"pin", "pinWrite", "parse", "target"}
Importing == {"save", "snapshot", "point"}
Moving == {"moveOriginal", "moveConfig"}
PfTask == [at : {"idle"} \cup ImportSteps \cup FileSteps, server : Servers \cup {"none"},
           signer : Pins, known : [Servers -> Pins], key : PfKeys, id : Ids \cup {0},
           again : BOOLEAN]

\* Which values the variables take.
PfTypeOK ==
    /\ pfConfig \in [Ids -> Profile] /\ pfOriginal \in [Ids -> Profile]
    /\ pfLegacy \in Profile /\ pfLegacy.key = 0
    /\ pfLegacyOriginal \in Profile /\ pfLegacyOriginal.key = 0
    /\ pfKnown \in [Servers -> Pins] /\ pfPinned \in [Servers -> Pins]
    /\ pfTask \in [Processes -> PfTask]
    /\ pfOps \in 0 .. MaxPfOps /\ pfTrouble \subseteq {"pins", "files"}

\* An import is of a server's profile, and knows where it goes.
OwnImport ==
    \A p \in Processes :
        /\ pfTask[p].at \in ImportSteps \cup Importing => pfTask[p].server \in Servers
        /\ pfTask[p].at \in Importing => pfTask[p].id \in Ids

\* The pins: one import at a time is at them, and it has read what is there.
OnePinner ==
    \A p, q \in Processes : pfTask[p].at \in PinSteps /\ pfTask[q].at \in PinSteps => p = q
Pinner ==
    \A p \in Processes : pfTask[p].at \in PinSteps =>
        /\ pfTask[p].signer # "none" /\ pfKnown[pfTask[p].server] = "none"
        /\ pfTask[p].at = "pinWrite" => pfTask[p].known = pfKnown
PinsSafe == "pins" \notin pfTrouble => PfPinHolds /\ OnePinner /\ Pinner

\* The pristine copy is moved before the configuration.
OriginalFirst ==
    /\ \A p \in Processes : pfTask[p].at = "moveConfig" => pfLegacyOriginal = Absent
    /\ pfLegacy = Absent => pfLegacyOriginal = Absent

\* The files: an import that writes them is alone there, a migration ends where
\* there was no profile, ...
AloneAtFiles ==
    \A p \in Processes : pfTask[p].at \in Importing =>
        /\ \A q \in Processes \ {p} : pfTask[q].at \notin FileSteps
        /\ ~MigrationDue
MovesToNothing == \A p \in Processes : pfTask[p].at \in Moving /\ pfLegacy # Absent => Listed = {}
\* ... an import overwrites the profile it replaces or none, ...
OwnTarget ==
    \A p \in Processes :
        /\ pfTask[p].at = "save" /\ ~pfTask[p].again => pfTask[p].id \notin Listed
        /\ pfTask[p].at = "snapshot" =>
              pfTask[p].id \in Listed /\ pfConfig[pfTask[p].id].key = pfTask[p].key
\* ... the copies lag behind by one import at most, ...
CopiesFollow ==
    /\ \A i \in Listed :
          \/ pfOriginal[i].key = pfConfig[i].key
          \/ \E p \in Processes : pfTask[p].at = "snapshot" /\ pfTask[p].id = i
    /\ \A i \in Ids \ Listed : pfOriginal[i].key = 0
\* ... and what has to be kept is.
KeysThere ==
    \A k \in pfKept : (\E i \in Listed : pfConfig[i].key = k) \/ (pfLegacy # Absent /\ k = 0)
FilesSafe ==
    "files" \notin pfTrouble =>
        AloneAtFiles /\ MovesToNothing /\ OwnTarget /\ CopiesFollow /\ KeysThere

\* The invariant of the store: the pins hold and the files are safe
\* until imports meet there.
PfIInv == PfTypeOK /\ OwnImport /\ OriginalFirst /\ PinsSafe /\ FilesSafe

(* The first of some identifiers is one of them.                         *)
LEMMA LeastIsThere ==
    ASSUME NEW S, S \subseteq Nat, S # {}
    PROVE  PfLeast(S) \in S
<1>1. PICK i \in S : \A k \in S : ~(<<k, i>> \in OpToRel(<, Nat))
  BY NatLessThanWellFounded, WFMin
<1>2. \A k \in S : i <= k
  <2> TAKE k \in S
  <2>1. ~(k < i) BY <1>1 DEF OpToRel
  <2> QED BY <2>1
<1> QED BY <1>2 DEF PfLeast

(* The identifiers, the keys and what is stored of nothing.              *)
LEMMA PfConstants ==
    /\ Ids \subseteq Nat /\ 1 \in Ids /\ 0 \in PfKeys /\ 0 \notin Ids
    /\ Absent \in Profile /\ Absent.key = 0 /\ AtRest.at = "idle" /\ AtRest \in PfTask
  BY ProfileStoreAssumption DEF Ids, PfKeys, Absent, Profile, Addresses, AtRest, PfTask, Pins, Signers

(* The active profile is a stored one, where there is one.               *)
LEMMA ActiveListed ==
    ASSUME PfTypeOK, ActiveId # 0
    PROVE  ActiveId \in Listed /\ ActiveId \in Ids
<1>1. Listed \subseteq Nat /\ Listed \subseteq Ids BY PfConstants DEF Listed
<1> QED BY <1>1, LeastIsThere DEF ActiveId

(* At the start there is what an earlier version left, or nothing.       *)
LEMMA PfAtStart == PfInit => PfIInv
<1> SUFFICES ASSUME PfInit PROVE PfIInv OBVIOUS
<1> USE PfConstants DEF PfInit
<1>1. /\ pfLegacy \in Profile /\ pfLegacy.key = 0 /\ pfLegacy # Absent /\ Listed = {}
  BY ProfileStoreAssumption DEF Absent, Profile, Addresses, PfKeys, Listed
<1>2. \A p \in Processes : pfTask[p] = AtRest /\ pfTask[p].at = "idle" OBVIOUS
<1>3. PfTypeOK
  <2>1. pfKnown \in [Servers -> Pins] BY DEF Pins, Signers
  <2>2. pfOps \in 0 .. MaxPfOps BY ProfileStoreAssumption
  <2> QED BY <1>1, <2>1, <2>2 DEF PfTypeOK
<1>4. OwnImport BY <1>2 DEF OwnImport, ImportSteps, Importing
<1>5. OriginalFirst BY <1>1, <1>2 DEF OriginalFirst
<1>6. PinsSafe BY <1>2 DEF PinsSafe, PfPinHolds, OnePinner, Pinner, PinSteps
<1>7. FilesSafe
  BY <1>1, <1>2 DEF FilesSafe, AloneAtFiles, MovesToNothing, OwnTarget, CopiesFollow, KeysThere,
     Importing, Moving
<1> QED BY <1>3, <1>4, <1>5, <1>6, <1>7 DEF PfIInv

\* Task p has become x.
Becomes(p, x) == pfTask' = [pfTask EXCEPT ![p] = x]

\* A step of an import that leaves the pins alone ...
LEMMA PinsAside ==
    ASSUME PfTypeOK, PinsSafe, NEW p \in Processes, NEW x, Becomes(p, x), x.at \notin PinSteps,
           UNCHANGED <<pfKnown, pfPinned>>, pfTrouble \subseteq pfTrouble'
    PROVE  PinsSafe'
<1>1. /\ pfTask'[p].at \notin PinSteps
      /\ \A q \in Processes : q # p => pfTask'[q] = pfTask[q]
  BY DEF Becomes, PfTypeOK
<1> QED BY <1>1 DEF PinsSafe, PfPinHolds, OnePinner, Pinner, PinSteps

\* ... or the files.
LEMMA FilesAside ==
    ASSUME PfTypeOK, FilesSafe, NEW p \in Processes, NEW x, Becomes(p, x), x.at \notin FileSteps,
           UNCHANGED <<pfConfig, pfOriginal, pfLegacy, pfKept>>, pfTrouble \subseteq pfTrouble',
           pfTask[p].at # "snapshot" \/ "files" \in pfTrouble'
    PROVE  FilesSafe'
<1>1. /\ pfTask'[p].at \notin FileSteps
      /\ \A q \in Processes : q # p => pfTask'[q] = pfTask[q]
  BY DEF Becomes, PfTypeOK
<1>2. Listed' = Listed /\ MigrationDue' = MigrationDue BY DEF Listed, MigrationDue
<1>3. SUFFICES ASSUME "files" \notin pfTrouble' PROVE FilesSafe' BY DEF FilesSafe
<1>4. /\ AloneAtFiles /\ MovesToNothing /\ OwnTarget /\ CopiesFollow /\ KeysThere
      /\ pfTask[p].at # "snapshot"
  BY <1>3 DEF FilesSafe
<1>5. AloneAtFiles' BY <1>1, <1>2, <1>4 DEF AloneAtFiles, Importing, FileSteps
<1>6. MovesToNothing' BY <1>1, <1>2, <1>4 DEF MovesToNothing, Moving, FileSteps
<1>7. OwnTarget' BY <1>1, <1>2, <1>4 DEF OwnTarget, FileSteps
<1>8. CopiesFollow' BY <1>1, <1>2, <1>4 DEF CopiesFollow
<1>9. KeysThere' BY <1>2, <1>4 DEF KeysThere
<1> QED BY <1>5, <1>6, <1>7, <1>8, <1>9 DEF FilesSafe

\* What a step that turns task p into x has to show of x.
LEMMA TaskMove ==
    ASSUME PfTypeOK, OwnImport, OriginalFirst, NEW p \in Processes, NEW x \in PfTask, Becomes(p, x),
           x.at \in ImportSteps \cup Importing => x.server \in Servers,
           x.at \in Importing => x.id \in Ids,
           x.at = "moveConfig" => pfLegacyOriginal' = Absent,
           pfLegacyOriginal' \in {pfLegacyOriginal, Absent},
           pfLegacy' = pfLegacy \/ pfLegacyOriginal' = Absent
    PROVE  /\ OwnImport' /\ OriginalFirst'
           /\ pfTask' \in [Processes -> PfTask]
<1>1. /\ pfTask' \in [Processes -> PfTask] /\ pfTask'[p] = x
      /\ \A q \in Processes : q # p => pfTask'[q] = pfTask[q]
  BY DEF Becomes, PfTypeOK
<1>2. OwnImport' BY <1>1 DEF OwnImport
<1>3. OriginalFirst' BY <1>1 DEF OriginalFirst
<1> QED BY <1>1, <1>2, <1>3

-----------------------------------------------------------------------------
(* The signature.                                                          *)

(* An import verifies the profile: its key is a new one, ...             *)
LEMMA VerifyKeeps ==
    ASSUME PfIInv, NEW p \in Processes, VerifyProfile(p)
    PROVE  PfIInv'
<1>1. PfTypeOK /\ OwnImport /\ OriginalFirst /\ PinsSafe /\ FilesSafe BY DEF PfIInv
<1>2. pfTask[p] = AtRest BY DEF VerifyProfile, FirstIdle
<1>3. PICK s \in Servers, g \in Signers :
         LET x == [AtRest EXCEPT !.at = IF g # "none" /\ pfKnown[s] = "none" THEN "pin" ELSE "parse",
                                 !.server = s, !.signer = g, !.key = pfOps']
         IN  /\ g # "invalid" /\ Becomes(p, x)
             /\ IF g # "none" /\ pfKnown[s] = "none" THEN Overlap(p, PinSteps, "pins")
                ELSE UNCHANGED pfTrouble
  BY DEF VerifyProfile, Becomes
<1> DEFINE x == [AtRest EXCEPT !.at = IF g # "none" /\ pfKnown[s] = "none" THEN "pin" ELSE "parse",
                               !.server = s, !.signer = g, !.key = pfOps']
<1>4. /\ x.at \in {"pin", "parse"} /\ x.server = s /\ x.signer = g /\ x.id = 0
      /\ (x.at = "pin" => g # "none" /\ pfKnown[s] = "none")
      /\ (x.at = "pin" => Overlap(p, PinSteps, "pins")) /\ (x.at = "parse" => UNCHANGED pfTrouble)
  BY <1>3 DEF AtRest
<1>5. pfOps' \in 0 .. MaxPfOps /\ pfOps' \in PfKeys
  BY <1>1, ProfileStoreAssumption DEF PfTypeOK, VerifyProfile, PfBegins, PfKeys
<1>6. x \in PfTask
  BY <1>3, <1>5, PfConstants DEF AtRest, PfTask, ImportSteps, Pins
<1>7. Becomes(p, x) BY <1>3
<1> HIDE DEF x
<1>8. UNCHANGED <<pfConfig, pfOriginal, pfLegacy, pfLegacyOriginal, pfKnown, pfPinned, pfKept>>
  BY DEF VerifyProfile, pfFiles
<1>9. pfTrouble \subseteq pfTrouble' /\ pfTrouble' \subseteq {"pins", "files"}
  BY <1>1, <1>4 DEF Overlap, PfTypeOK
<1>10. OwnImport' /\ OriginalFirst' /\ pfTask' \in [Processes -> PfTask]
  BY <1>1, <1>4, <1>6, <1>7, <1>8, TaskMove DEF Importing
<1>11. FilesSafe'
  BY <1>1, <1>2, <1>4, <1>7, <1>8, <1>9, FilesAside, PfConstants DEF FileSteps
<1>12. PinsSafe'
  <2>1. CASE x.at = "parse" BY <1>1, <1>7, <1>8, <1>9, <2>1, PinsAside DEF PinSteps
  <2>2. CASE x.at = "pin"
    <3>1. SUFFICES ASSUME "pins" \notin pfTrouble' PROVE PfPinHolds' /\ OnePinner' /\ Pinner'
      BY DEF PinsSafe
    <3>2. PfPinHolds /\ OnePinner /\ Pinner /\ \A q \in Processes \ {p} : pfTask[q].at \notin PinSteps
      BY <1>1, <1>4, <2>2, <3>1 DEF PinsSafe, Overlap
    <3>3. pfTask'[p] = x /\ \A q \in Processes : q # p => pfTask'[q] = pfTask[q]
      BY <1>1, <1>7 DEF Becomes, PfTypeOK
    <3>4. PfPinHolds' BY <1>8, <1>9, <3>1, <3>2 DEF PfPinHolds
    <3>5. OnePinner' BY <3>2, <3>3 DEF OnePinner
    <3>6. Pinner' BY <1>4, <1>8, <2>2, <3>2, <3>3 DEF Pinner
    <3> QED BY <3>4, <3>5, <3>6
  <2> QED BY <1>4, <2>1, <2>2
<1> QED BY <1>1, <1>5, <1>8, <1>9, <1>10, <1>11, <1>12 DEF PfIInv, PfTypeOK

(* ... reads the pins, ...                                               *)
LEMMA LoadKeeps ==
    ASSUME PfIInv, NEW p \in Processes, LoadPins(p)
    PROVE  PfIInv'
<1>1. PfTypeOK /\ OwnImport /\ OriginalFirst /\ PinsSafe /\ FilesSafe BY DEF PfIInv
<1> DEFINE x == [pfTask[p] EXCEPT !.at = "pinWrite", !.known = pfKnown]
<1>2. Becomes(p, x) BY DEF LoadPins, Becomes
<1>3. /\ x \in PfTask /\ x.at = "pinWrite" /\ x.server = pfTask[p].server
      /\ x.signer = pfTask[p].signer /\ x.known = pfKnown
  BY <1>1 DEF PfTypeOK, PfTask, FileSteps, ImportSteps
<1> HIDE DEF x
<1>4. /\ pfTask[p].at = "pin"
      /\ UNCHANGED <<pfConfig, pfOriginal, pfLegacy, pfLegacyOriginal, pfKnown, pfPinned, pfKept,
                     pfTrouble, pfOps>>
  BY DEF LoadPins, pfFiles
<1>5. OwnImport' /\ OriginalFirst' /\ pfTask' \in [Processes -> PfTask]
  BY <1>1, <1>2, <1>3, <1>4, TaskMove DEF Importing, ImportSteps, OwnImport
<1>6. FilesSafe' BY <1>1, <1>2, <1>3, <1>4, FilesAside DEF FileSteps
<1>7. PinsSafe'
  <2>1. pfTask'[p] = x /\ \A q \in Processes : q # p => pfTask'[q] = pfTask[q]
    BY <1>1, <1>2 DEF Becomes, PfTypeOK
  <2> QED BY <1>1, <1>3, <1>4, <2>1 DEF PinsSafe, PfPinHolds, OnePinner, Pinner, PinSteps
<1> QED BY <1>1, <1>4, <1>5, <1>6, <1>7 DEF PfIInv, PfTypeOK

(* ... stores them with its own, ...                                     *)
LEMMA StoreKeeps ==
    ASSUME PfIInv, NEW p \in Processes, StorePins(p)
    PROVE  PfIInv'
<1>1. PfTypeOK /\ OwnImport /\ OriginalFirst /\ PinsSafe /\ FilesSafe BY DEF PfIInv
<1> DEFINE x == [pfTask[p] EXCEPT !.at = "parse", !.known = AtRest.known]
<1> DEFINE s == pfTask[p].server
<1>2. Becomes(p, x) BY DEF StorePins, Becomes
<1>3. x \in PfTask /\ x.at = "parse" /\ x.server = s
  <2>1. AtRest.known \in [Servers -> Pins] BY DEF AtRest, Pins, Signers
  <2> QED BY <1>1, <2>1 DEF PfTypeOK, PfTask, FileSteps, ImportSteps
<1>4. /\ pfTask[p].at = "pinWrite" /\ pfTask[p].known \in [Servers -> Pins]
      /\ pfTask[p].signer \in Pins /\ s \in Servers
      /\ UNCHANGED <<pfConfig, pfOriginal, pfLegacy, pfLegacyOriginal, pfKept, pfTrouble, pfOps>>
  BY <1>1 DEF StorePins, pfFiles, PfTypeOK, PfTask, OwnImport, ImportSteps
<1>5. \/ /\ pfKnown' = [pfTask[p].known EXCEPT ![s] = pfTask[p].signer]
         /\ pfPinned' = IF pfPinned[s] = "none"
                        THEN [pfPinned EXCEPT ![s] = pfTask[p].signer] ELSE pfPinned
      \/ UNCHANGED <<pfKnown, pfPinned>>
  BY DEF StorePins
<1> HIDE DEF x, s
<1>6. pfKnown' \in [Servers -> Pins] /\ pfPinned' \in [Servers -> Pins]
  BY <1>1, <1>4, <1>5 DEF PfTypeOK
<1>7. OwnImport' /\ OriginalFirst' /\ pfTask' \in [Processes -> PfTask]
  BY <1>1, <1>2, <1>3, <1>4, TaskMove DEF Importing, ImportSteps
<1>8. FilesSafe' BY <1>1, <1>2, <1>3, <1>4, FilesAside DEF FileSteps
<1>9. PinsSafe'
  <2>1. CASE UNCHANGED <<pfKnown, pfPinned>>
    BY <1>1, <1>2, <1>3, <1>4, <2>1, PinsAside DEF PinSteps
  <2>2. CASE /\ pfKnown' = [pfTask[p].known EXCEPT ![s] = pfTask[p].signer]
             /\ pfPinned' = IF pfPinned[s] = "none"
                            THEN [pfPinned EXCEPT ![s] = pfTask[p].signer] ELSE pfPinned
    <3>1. SUFFICES ASSUME "pins" \notin pfTrouble PROVE PfPinHolds' /\ OnePinner' /\ Pinner'
      BY <1>4 DEF PinsSafe
    <3>2. /\ PfPinHolds /\ OnePinner /\ Pinner /\ pfTask[p].known = pfKnown /\ pfKnown[s] = "none"
          /\ \A q \in Processes : q # p => pfTask[q].at \notin PinSteps
      BY <1>1, <1>4, <3>1 DEF PinsSafe, OnePinner, Pinner, PinSteps, s
    <3>3. /\ pfTask'[p].at = "parse" /\ \A q \in Processes : q # p => pfTask'[q] = pfTask[q]
      BY <1>1, <1>2, <1>3 DEF Becomes, PfTypeOK
    <3>4. pfPinned[s] = "none" BY <1>4, <3>1, <3>2 DEF PfPinHolds
    <3>5. PfPinHolds' BY <1>1, <1>4, <2>2, <3>1, <3>2, <3>4 DEF PfPinHolds, PfTypeOK
    <3> QED BY <3>2, <3>3, <3>5 DEF OnePinner, Pinner, PinSteps
  <2> QED BY <1>5, <2>1, <2>2
<1> QED BY <1>1, <1>4, <1>6, <1>7, <1>8, <1>9 DEF PfIInv, PfTypeOK

-----------------------------------------------------------------------------
(* The import.                                                             *)

\* Steps that touch nothing but the task, which is not at the files then.
LEMMA TaskAside ==
    ASSUME PfIInv, NEW p \in Processes, NEW x \in PfTask, Becomes(p, x),
           x.at \notin PinSteps \cup FileSteps,
           x.at \in ImportSteps => x.server \in Servers,
           pfTask[p].at # "snapshot" \/ "files" \in pfTrouble',
           UNCHANGED <<pfConfig, pfOriginal, pfLegacy, pfLegacyOriginal, pfKnown, pfPinned, pfKept,
                       pfOps>>,
           pfTrouble \subseteq pfTrouble', pfTrouble' \subseteq {"pins", "files"}
    PROVE  PfIInv'
<1>1. PfTypeOK /\ OwnImport /\ OriginalFirst /\ PinsSafe /\ FilesSafe BY DEF PfIInv
<1>2. x.at \notin Importing /\ x.at # "moveConfig" BY DEF Importing, FileSteps
<1>3. OwnImport' /\ OriginalFirst' /\ pfTask' \in [Processes -> PfTask]
  BY <1>1, <1>2, TaskMove
<1>4. FilesSafe' BY <1>1, FilesAside
<1>5. PinsSafe' BY <1>1, PinsAside
<1> QED BY <1>1, <1>3, <1>4, <1>5 DEF PfIInv, PfTypeOK

(* ... redeems the token, ...                                            *)
LEMMA ParseKeeps ==
    ASSUME PfIInv, NEW p \in Processes, ParseAndRedeem(p)
    PROVE  PfIInv'
<1>1. PfTypeOK /\ OwnImport BY DEF PfIInv
<1>2. /\ pfTask[p].at = "parse" /\ pfTask[p] \in PfTask /\ pfTask[p].server \in Servers
      /\ UNCHANGED <<pfConfig, pfOriginal, pfLegacy, pfLegacyOriginal, pfKnown, pfPinned, pfKept,
                     pfTrouble, pfOps>>
      /\ pfTrouble' \subseteq {"pins", "files"}
  BY <1>1 DEF ParseAndRedeem, pfFiles, PfTypeOK, OwnImport, ImportSteps
<1>3. CASE pfTask' = [pfTask EXCEPT ![p].at = "target", ![p].signer = "none"]
  <2> DEFINE x == [pfTask[p] EXCEPT !.at = "target", !.signer = "none"]
  <2>1. Becomes(p, x) BY <1>3 DEF Becomes
  <2>2. x \in PfTask /\ x.at = "target" /\ x.server \in Servers
    BY <1>2 DEF PfTask, FileSteps, ImportSteps, Pins, Signers
  <2> HIDE DEF x
  <2> QED BY <1>2, <2>1, <2>2, TaskAside DEF PinSteps, FileSteps
<1>4. CASE PfEnd(p)
  <2>1. Becomes(p, AtRest) BY <1>4 DEF PfEnd, Becomes
  <2> QED BY <1>2, <2>1, TaskAside, PfConstants DEF PinSteps, FileSteps, ImportSteps
<1> QED BY <1>3, <1>4 DEF ParseAndRedeem

(* ... and at last points at what it has written; or its process is      *)
(* killed.                                                               *)
LEMMA PointKeeps ==
    ASSUME PfIInv, NEW p \in Processes, PointAtImport(p)
    PROVE  PfIInv'
<1>1. PfTypeOK BY DEF PfIInv
<1>2. /\ pfTask[p].at = "point" /\ Becomes(p, AtRest)
      /\ UNCHANGED <<pfConfig, pfOriginal, pfLegacy, pfLegacyOriginal, pfKnown, pfPinned, pfKept,
                     pfTrouble, pfOps>>
      /\ pfTrouble' \subseteq {"pins", "files"}
  BY <1>1 DEF PointAtImport, PfEnd, Becomes, PfTypeOK
<1> QED BY <1>2, TaskAside, PfConstants DEF PinSteps, FileSteps, ImportSteps

(* A process that is killed leaves what it has written.                  *)
LEMMA KillKeeps ==
    ASSUME PfIInv, NEW p \in Processes, KillImport(p)
    PROVE  PfIInv'
<1>1. PfTypeOK /\ OwnImport /\ OriginalFirst /\ PinsSafe /\ FilesSafe BY DEF PfIInv
<1>2. Becomes(p, AtRest) BY DEF KillImport, PfEnd, Becomes
<1>3. UNCHANGED <<pfConfig, pfOriginal, pfLegacy, pfLegacyOriginal, pfPinned, pfKept, pfOps>>
  BY DEF KillImport, pfFiles
<1>4. /\ pfTrouble \subseteq pfTrouble' /\ pfTrouble' \subseteq {"pins", "files"}
      /\ (pfTask[p].at = "snapshot" => "files" \in pfTrouble')
      /\ (pfTask[p].at = "pinWrite" => "pins" \in pfTrouble')
  <2>1. pfTrouble' = pfTrouble \cup (IF pfTask[p].at = "pinWrite" THEN {"pins"} ELSE {})
                              \cup (IF pfTask[p].at = "snapshot" THEN {"files"} ELSE {})
    BY DEF KillImport
  <2> QED BY <1>1, <2>1 DEF PfTypeOK
<1>5. CASE pfKnown' = pfKnown
  BY <1>2, <1>3, <1>4, <1>5, TaskAside, PfConstants DEF PinSteps, FileSteps, ImportSteps
<1>6. CASE pfTask[p].at = "pinWrite" /\ pfKnown' = [s \in Servers |-> "none"]
  <2>1. AtRest.at \notin FileSteps /\ AtRest.at \notin ImportSteps \cup Importing
    BY PfConstants DEF FileSteps, ImportSteps, Importing
  <2>2. OwnImport' /\ OriginalFirst' /\ pfTask' \in [Processes -> PfTask]
    BY <1>1, <1>2, <1>3, <2>1, TaskMove, PfConstants
  <2>3. FilesSafe' BY <1>1, <1>2, <1>3, <1>4, <2>1, FilesAside
  <2>4. pfKnown' \in [Servers -> Pins] BY <1>6 DEF Pins, Signers
  <2>5. PinsSafe' BY <1>4, <1>6 DEF PinsSafe
  <2> QED BY <1>1, <1>3, <1>4, <2>2, <2>3, <2>4, <2>5 DEF PfIInv, PfTypeOK
<1> QED BY <1>5, <1>6 DEF KillImport

\* The files: what an import does there.
LEMMA ChooseKeeps ==
    ASSUME PfIInv, NEW p \in Processes, ChooseTarget(p)
    PROVE  PfIInv'
<1>1. PfTypeOK /\ OwnImport /\ OriginalFirst /\ PinsSafe /\ FilesSafe BY DEF PfIInv
<1> DEFINE same == {i \in Listed : /\ pfConfig[i].server = pfTask[p].server
                                   /\ pfConfig[i].address = "issued"}
           candidates == IF same # {} THEN same ELSE Ids \ Listed
           x == [pfTask[p] EXCEPT !.at = "save", !.again = same # {}, !.id = PfLeast(candidates)]
<1>2. /\ pfTask[p].at = "target" /\ ~MigrationDue /\ candidates # {} /\ Becomes(p, x)
      /\ Overlap(p, FileSteps, "files")
      /\ UNCHANGED <<pfConfig, pfOriginal, pfLegacy, pfLegacyOriginal, pfKnown, pfPinned, pfKept,
                     pfOps>>
  BY DEF ChooseTarget, Becomes, pfFiles
<1>3. PfLeast(candidates) \in candidates
  <2>1. candidates \subseteq Nat BY PfConstants DEF Listed
  <2> QED BY <1>2, <2>1, LeastIsThere
<1>4. candidates \subseteq Ids /\ (same = {} => candidates \cap Listed = {}) BY DEF Listed
<1>5. /\ x.at = "save" /\ x.server = pfTask[p].server /\ x.id \in Ids
      /\ (~x.again => x.id \notin Listed) /\ x \in PfTask
  <2>1. pfTask[p] \in PfTask BY <1>1 DEF PfTypeOK
  <2>2. (same # {}) \in BOOLEAN OBVIOUS
  <2> HIDE DEF same, candidates
  <2>3. x \in PfTask BY <1>3, <1>4, <2>1, <2>2 DEF PfTask, FileSteps, ImportSteps
  <2>4. x.at = "save" /\ x.server = pfTask[p].server /\ x.id = PfLeast(candidates)
    BY <2>1 DEF PfTask
  <2>5. x.again => same # {} BY <2>1 DEF PfTask
  <2>6. ~x.again => same = {} BY <2>1 DEF PfTask
  <2> QED BY <1>3, <1>4, <2>3, <2>4, <2>6
<1> HIDE DEF x, same, candidates
<1>6. pfTrouble \subseteq pfTrouble' /\ pfTrouble' \subseteq {"pins", "files"}
  BY <1>1, <1>2 DEF Overlap, PfTypeOK
<1>7. OwnImport' /\ OriginalFirst' /\ pfTask' \in [Processes -> PfTask]
  BY <1>1, <1>2, <1>5, TaskMove DEF Importing, ImportSteps, OwnImport
<1>8. PinsSafe' BY <1>1, <1>2, <1>5, <1>6, PinsAside DEF PinSteps
<1>9. FilesSafe'
  <2>1. SUFFICES ASSUME "files" \notin pfTrouble'
                 PROVE  (AloneAtFiles /\ MovesToNothing /\ OwnTarget /\ CopiesFollow /\ KeysThere)'
    BY DEF FilesSafe
  <2>2. /\ AloneAtFiles /\ MovesToNothing /\ OwnTarget /\ CopiesFollow /\ KeysThere
        /\ \A q \in Processes \ {p} : pfTask[q].at \notin FileSteps
    BY <1>1, <1>2, <1>6, <2>1 DEF FilesSafe, Overlap
  <2>3. Listed' = Listed /\ MigrationDue' = MigrationDue BY <1>2 DEF Listed, MigrationDue
  <2>4. pfTask'[p] = x /\ \A q \in Processes : q # p => pfTask'[q] = pfTask[q]
    BY <1>1, <1>2 DEF Becomes, PfTypeOK
  <2>5. AloneAtFiles' BY <1>2, <2>2, <2>3, <2>4 DEF AloneAtFiles, Importing, FileSteps
  <2>6. MovesToNothing' BY <1>5, <2>2, <2>4 DEF MovesToNothing, Moving, FileSteps
  <2>7. OwnTarget' BY <1>2, <1>5, <2>2, <2>3, <2>4 DEF OwnTarget, FileSteps
  <2>8. CopiesFollow' BY <1>2, <2>2, <2>3, <2>4 DEF CopiesFollow
  <2>9. KeysThere' BY <1>2, <2>2, <2>3 DEF KeysThere
  <2> QED BY <2>5, <2>6, <2>7, <2>8, <2>9
<1> QED BY <1>1, <1>2, <1>6, <1>7, <1>8, <1>9 DEF PfIInv, PfTypeOK

(* The configuration is written: the key it replaces may go, its own is  *)
(* kept from now on.                                                     *)
LEMMA SaveKeeps ==
    ASSUME PfIInv, NEW p \in Processes, SaveConfig(p)
    PROVE  PfIInv'
<1>1. PfTypeOK /\ OwnImport /\ OriginalFirst /\ PinsSafe /\ FilesSafe BY DEF PfIInv
<1>2. /\ pfTask[p].at = "save" /\ pfTask[p] \in PfTask
      /\ pfTask[p].server \in Servers /\ pfTask[p].id \in Ids
      /\ UNCHANGED <<pfOriginal, pfLegacy, pfLegacyOriginal, pfKnown, pfPinned, pfOps>>
  BY <1>1 DEF SaveConfig, PfTypeOK, OwnImport, Importing
<1>3. CASE PfEnd(p) /\ pfTrouble' = pfTrouble \cup {"files"} /\ UNCHANGED <<pfConfig, pfKept>>
  <2>1. Becomes(p, AtRest) /\ pfTrouble' \subseteq {"pins", "files"}
    BY <1>1, <1>3 DEF PfEnd, Becomes, PfTypeOK
  <2> QED BY <1>2, <1>3, <2>1, TaskAside, PfConstants DEF PinSteps, FileSteps, ImportSteps
<1>4. CASE /\ PfTo(p, "snapshot") /\ pfTrouble' = pfTrouble
           /\ pfConfig' = [pfConfig EXCEPT ![pfTask[p].id] = Imported(p)]
           /\ pfKept' = (IF pfTask[p].again THEN pfKept \ {pfConfig[pfTask[p].id].key} ELSE pfKept)
                        \cup {pfTask[p].key}
  <2> DEFINE x == [pfTask[p] EXCEPT !.at = "snapshot"]
             n == pfTask[p].id
  <2>1. Becomes(p, x) BY <1>4 DEF PfTo, Becomes
  <2>2. /\ x \in PfTask /\ x.at = "snapshot" /\ x.server = pfTask[p].server /\ x.id = n
        /\ x.key = pfTask[p].key
    BY <1>2 DEF PfTask, FileSteps, ImportSteps
  <2>3. /\ Imported(p) \in Profile /\ Imported(p).key = pfTask[p].key /\ Imported(p) # Absent
    BY <1>2, ProfileStoreAssumption DEF Imported, Profile, Addresses, PfTask, Absent
  <2> HIDE DEF x, n
  <2>4. pfConfig' = [pfConfig EXCEPT ![n] = Imported(p)] BY <1>4 DEF n
  <2>5. n \in Ids /\ pfConfig' \in [Ids -> Profile] BY <1>1, <1>2, <2>3, <2>4 DEF PfTypeOK, n
  <2>6. OwnImport' /\ OriginalFirst' /\ pfTask' \in [Processes -> PfTask]
    BY <1>1, <1>2, <2>1, <2>2, TaskMove DEF Importing, ImportSteps, n
  <2>7. PinsSafe' BY <1>1, <1>2, <1>4, <2>1, <2>2, PinsAside DEF PinSteps
  <2>8. FilesSafe'
    <3>1. SUFFICES ASSUME "files" \notin pfTrouble
                   PROVE  (AloneAtFiles /\ MovesToNothing /\ OwnTarget /\ CopiesFollow /\ KeysThere)'
      BY <1>4 DEF FilesSafe
    <3>2. /\ AloneAtFiles /\ MovesToNothing /\ OwnTarget /\ CopiesFollow /\ KeysThere
          /\ \A q \in Processes : q # p => pfTask[q].at \notin FileSteps
      BY <1>1, <1>2, <3>1 DEF FilesSafe, AloneAtFiles, Importing
    <3>3. pfTask'[p] = x /\ \A q \in Processes : q # p => pfTask'[q] = pfTask[q]
      BY <1>1, <2>1 DEF Becomes, PfTypeOK
    <3>4. /\ Listed' = Listed \cup {n} /\ pfConfig'[n] = Imported(p)
          /\ \A i \in Ids : i # n => pfConfig'[i] = pfConfig[i]
      BY <1>1, <2>3, <2>4, <2>5 DEF PfTypeOK, Listed
    <3>5. ~MigrationDue' BY <3>4 DEF MigrationDue
    <3>6. AloneAtFiles' BY <2>2, <3>2, <3>3, <3>5 DEF AloneAtFiles, Importing, FileSteps
    <3>7. MovesToNothing' BY <2>2, <3>2, <3>3 DEF MovesToNothing, Moving, FileSteps
    <3>8. OwnTarget' BY <2>2, <2>3, <3>2, <3>3, <3>4 DEF OwnTarget, FileSteps
    <3>9. CopiesFollow'
      <4>1. ASSUME NEW i \in Listed'
            PROVE  \/ pfOriginal'[i].key = pfConfig'[i].key
                   \/ \E q \in Processes : pfTask'[q].at = "snapshot" /\ pfTask'[q].id = i
        <5>1. CASE i = n BY <2>2, <3>3, <5>1
        <5>2. CASE i # n
          BY <1>2, <3>2, <3>3, <3>4, <4>1, <5>2 DEF CopiesFollow, FileSteps, Listed
        <5> QED BY <5>1, <5>2
      <4>2. \A i \in Ids \ Listed' : pfOriginal'[i].key = 0 BY <1>2, <3>2, <3>4 DEF CopiesFollow
      <4> QED BY <4>1, <4>2 DEF CopiesFollow
    <3>10. KeysThere'
      <4>1. ASSUME NEW k \in pfKept'
            PROVE  (\E i \in Listed' : pfConfig'[i].key = k) \/ (pfLegacy' # Absent /\ k = 0)
        <5>1. CASE k = pfTask[p].key BY <2>3, <3>4, <5>1
        <5>2. CASE k # pfTask[p].key
          <6>1. k \in pfKept /\ (pfTask[p].again => k # pfConfig[n].key)
            BY <1>4, <4>1, <5>2 DEF n
          <6>2. n \in Listed => pfTask[p].again BY <1>2, <3>2 DEF OwnTarget, n
          <6>3. (\E i \in Listed : pfConfig[i].key = k) \/ (pfLegacy # Absent /\ k = 0)
            BY <3>2, <6>1 DEF KeysThere
          <6>4. \A i \in Listed : i \in Ids BY DEF Listed
          <6> QED BY <1>2, <3>4, <6>1, <6>2, <6>3, <6>4
        <5> QED BY <5>1, <5>2
      <4> QED BY <4>1 DEF KeysThere
    <3> QED BY <3>6, <3>7, <3>8, <3>9, <3>10
  <2> QED BY <1>1, <1>2, <1>4, <2>5, <2>6, <2>7, <2>8 DEF PfIInv, PfTypeOK
<1> QED BY <1>3, <1>4 DEF SaveConfig

(* The pristine copy is written.                                         *)
LEMMA SnapshotKeeps ==
    ASSUME PfIInv, NEW p \in Processes, SaveOriginal(p)
    PROVE  PfIInv'
<1>1. PfTypeOK /\ OwnImport /\ OriginalFirst /\ PinsSafe /\ FilesSafe BY DEF PfIInv
<1> DEFINE x == [pfTask[p] EXCEPT !.at = "point"]
           n == pfTask[p].id
<1>2. /\ pfTask[p].at = "snapshot" /\ pfTask[p] \in PfTask /\ pfTask[p].server \in Servers
      /\ n \in Ids /\ pfOriginal' = [pfOriginal EXCEPT ![n] = Imported(p)] /\ Becomes(p, x)
      /\ UNCHANGED <<pfConfig, pfLegacy, pfLegacyOriginal, pfKnown, pfPinned, pfKept, pfTrouble,
                     pfOps>>
  BY <1>1 DEF SaveOriginal, PfTo, Becomes, PfTypeOK, OwnImport, Importing
<1>3. x \in PfTask /\ x.at = "point" /\ x.server = pfTask[p].server /\ x.id = n
  BY <1>2 DEF PfTask, FileSteps, ImportSteps
<1>4. Imported(p) \in Profile /\ Imported(p).key = pfTask[p].key
  BY <1>2 DEF Imported, Profile, Addresses, PfTask
<1> HIDE DEF x
<1>5. pfOriginal' \in [Ids -> Profile] BY <1>1, <1>2, <1>4 DEF PfTypeOK
<1>6. OwnImport' /\ OriginalFirst' /\ pfTask' \in [Processes -> PfTask]
  BY <1>1, <1>2, <1>3, TaskMove DEF Importing, ImportSteps
<1>7. PinsSafe' BY <1>1, <1>2, <1>3, PinsAside DEF PinSteps
<1>8. FilesSafe'
  <2>1. SUFFICES ASSUME "files" \notin pfTrouble
                 PROVE  (AloneAtFiles /\ MovesToNothing /\ OwnTarget /\ CopiesFollow /\ KeysThere)'
    BY <1>2 DEF FilesSafe
  <2>2. /\ AloneAtFiles /\ MovesToNothing /\ OwnTarget /\ CopiesFollow /\ KeysThere
        /\ ~MigrationDue /\ \A q \in Processes : q # p => pfTask[q].at \notin FileSteps
    BY <1>1, <1>2, <2>1 DEF FilesSafe, AloneAtFiles, Importing
  <2>3. Listed' = Listed /\ ~MigrationDue' BY <1>2, <2>2 DEF Listed, MigrationDue
  <2>4. pfTask'[p] = x /\ \A q \in Processes : q # p => pfTask'[q] = pfTask[q]
    BY <1>1, <1>2 DEF Becomes, PfTypeOK
  <2>5. AloneAtFiles' BY <1>3, <2>2, <2>3, <2>4 DEF AloneAtFiles, Importing, FileSteps
  <2>6. MovesToNothing' BY <1>3, <2>2, <2>4 DEF MovesToNothing, Moving, FileSteps
  <2>7. OwnTarget' BY <1>3, <2>2, <2>4 DEF OwnTarget, FileSteps
  <2>8. /\ pfOriginal'[n] = Imported(p) /\ n \in Listed /\ pfConfig[n].key = pfTask[p].key
        /\ \A i \in Ids : i # n => pfOriginal'[i] = pfOriginal[i]
    BY <1>1, <1>2, <2>2 DEF PfTypeOK, OwnTarget
  <2>9. CopiesFollow'
    <3>1. ASSUME NEW i \in Listed, i # n PROVE pfOriginal'[i].key = pfConfig[i].key
      BY <2>2, <2>8, <3>1 DEF CopiesFollow, Listed, FileSteps
    <3> QED BY <1>2, <1>4, <2>2, <2>3, <2>8, <3>1 DEF CopiesFollow
  <2>10. KeysThere' BY <1>2, <2>2, <2>3 DEF KeysThere
  <2> QED BY <2>5, <2>6, <2>7, <2>9, <2>10
<1> QED BY <1>1, <1>2, <1>5, <1>6, <1>7, <1>8 DEF PfIInv, PfTypeOK

-----------------------------------------------------------------------------
(* The migration.                                                          *)

(* A migration begins where no profile is stored.                        *)
LEMMA BeginKeeps ==
    ASSUME PfIInv, NEW p \in Processes, BeginMigration(p)
    PROVE  PfIInv'
<1>1. PfTypeOK /\ OwnImport /\ OriginalFirst /\ PinsSafe /\ FilesSafe BY DEF PfIInv
<1> DEFINE x == [pfTask[p] EXCEPT !.at = "moveOriginal"]
<1>2. /\ MigrationDue /\ pfTask[p].at \in {"idle", "target"} /\ Becomes(p, x)
      /\ UNCHANGED <<pfConfig, pfOriginal, pfLegacy, pfLegacyOriginal, pfKnown, pfPinned, pfKept,
                     pfTrouble, pfOps>>
  BY PfConstants DEF BeginMigration, FirstIdle, PfTo, Becomes, pfFiles
<1>3. x \in PfTask /\ x.at = "moveOriginal" BY <1>1 DEF PfTypeOK, PfTask, FileSteps, ImportSteps
<1> HIDE DEF x
<1>4. OwnImport' /\ OriginalFirst' /\ pfTask' \in [Processes -> PfTask]
  BY <1>1, <1>2, <1>3, TaskMove DEF Importing, ImportSteps
<1>5. PinsSafe' BY <1>1, <1>2, <1>3, PinsAside DEF PinSteps
<1>6. FilesSafe'
  <2>1. SUFFICES ASSUME "files" \notin pfTrouble
                 PROVE  (AloneAtFiles /\ MovesToNothing /\ OwnTarget /\ CopiesFollow /\ KeysThere)'
    BY <1>2 DEF FilesSafe
  <2>2. /\ AloneAtFiles /\ MovesToNothing /\ OwnTarget /\ CopiesFollow /\ KeysThere
        /\ \A q \in Processes : pfTask[q].at \notin Importing
    BY <1>1, <1>2, <2>1 DEF FilesSafe, AloneAtFiles
  <2>3. Listed' = Listed /\ Listed = {} BY <1>2 DEF Listed, MigrationDue
  <2>4. pfTask'[p] = x /\ \A q \in Processes : q # p => pfTask'[q] = pfTask[q]
    BY <1>1, <1>2 DEF Becomes, PfTypeOK
  <2>5. AloneAtFiles' BY <1>3, <2>2, <2>4 DEF AloneAtFiles, Importing
  <2>6. MovesToNothing' BY <2>3 DEF MovesToNothing
  <2>7. OwnTarget' BY <1>3, <2>2, <2>4 DEF OwnTarget, Importing
  <2>8. CopiesFollow' BY <1>2, <2>2, <2>3 DEF CopiesFollow
  <2>9. KeysThere' BY <1>2, <2>2, <2>3 DEF KeysThere
  <2> QED BY <2>5, <2>6, <2>7, <2>8, <2>9
<1> QED BY <1>1, <1>2, <1>4, <1>5, <1>6 DEF PfIInv, PfTypeOK

(* It moves the pristine copy, if there is one, ...                      *)
LEMMA MoveOriginalKeeps ==
    ASSUME PfIInv, NEW p \in Processes, MoveOriginal(p)
    PROVE  PfIInv'
<1>1. PfTypeOK /\ OwnImport /\ OriginalFirst /\ PinsSafe /\ FilesSafe BY DEF PfIInv
<1> DEFINE x == [pfTask[p] EXCEPT !.at = "moveConfig"]
<1>2. /\ pfTask[p].at = "moveOriginal" /\ Becomes(p, x)
      /\ UNCHANGED <<pfConfig, pfLegacy, pfKnown, pfPinned, pfKept, pfTrouble, pfOps>>
  BY DEF MoveOriginal, PfTo, Becomes
<1>3. x \in PfTask /\ x.at = "moveConfig" BY <1>1 DEF PfTypeOK, PfTask, FileSteps, ImportSteps
<1> HIDE DEF x
<1>4. /\ pfLegacyOriginal' = Absent
      /\ \/ pfLegacyOriginal = Absent /\ pfOriginal' = pfOriginal
         \/ /\ pfLegacyOriginal # Absent
            /\ pfOriginal' = [pfOriginal EXCEPT ![1] = pfLegacyOriginal]
  BY DEF MoveOriginal
<1>5. /\ pfOriginal' \in [Ids -> Profile] /\ pfLegacyOriginal' \in Profile
      /\ pfLegacyOriginal'.key = 0
  BY <1>1, <1>4, PfConstants DEF PfTypeOK
<1>6. OwnImport' /\ OriginalFirst' /\ pfTask' \in [Processes -> PfTask]
  BY <1>1, <1>2, <1>3, <1>4, TaskMove DEF Importing, ImportSteps
<1>7. PinsSafe' BY <1>1, <1>2, <1>3, PinsAside DEF PinSteps
<1>8. FilesSafe'
  <2>1. SUFFICES ASSUME "files" \notin pfTrouble
                 PROVE  (AloneAtFiles /\ MovesToNothing /\ OwnTarget /\ CopiesFollow /\ KeysThere)'
    BY <1>2 DEF FilesSafe
  <2>2. /\ AloneAtFiles /\ MovesToNothing /\ OwnTarget /\ CopiesFollow /\ KeysThere
        /\ \A q \in Processes : pfTask[q].at \notin Importing
    BY <1>1, <1>2, <2>1 DEF FilesSafe, AloneAtFiles, Importing, FileSteps
  <2>3. Listed' = Listed BY <1>2 DEF Listed
  <2>4. pfTask'[p] = x /\ \A q \in Processes : q # p => pfTask'[q] = pfTask[q]
    BY <1>1, <1>2 DEF Becomes, PfTypeOK
  <2>5. AloneAtFiles' BY <1>3, <2>2, <2>4 DEF AloneAtFiles, Importing
  <2>6. MovesToNothing' BY <1>2, <1>3, <2>2, <2>3, <2>4 DEF MovesToNothing, Moving
  <2>7. OwnTarget' BY <1>3, <2>2, <2>4 DEF OwnTarget, Importing
  <2>8. CopiesFollow'
    <3>1. CASE pfOriginal' = pfOriginal
      <4>1. \A i \in Listed : pfOriginal[i].key = pfConfig[i].key
        BY <2>2 DEF CopiesFollow, Importing
      <4> QED BY <1>2, <2>2, <2>3, <3>1, <4>1 DEF CopiesFollow
    <3>2. CASE pfLegacyOriginal # Absent /\ pfOriginal' = [pfOriginal EXCEPT ![1] = pfLegacyOriginal]
      <4>1. Listed = {} BY <1>1, <1>2, <2>2, <3>2 DEF OriginalFirst, MovesToNothing, Moving
      <4>2. \A i \in Ids : pfOriginal'[i].key = 0
        BY <1>1, <2>2, <3>2, <4>1 DEF CopiesFollow, PfTypeOK
      <4> QED BY <2>3, <4>1, <4>2 DEF CopiesFollow
    <3> QED BY <1>4, <3>1, <3>2
  <2>9. KeysThere' BY <1>2, <2>2, <2>3 DEF KeysThere
  <2> QED BY <2>5, <2>6, <2>7, <2>8, <2>9
<1> QED BY <1>1, <1>2, <1>5, <1>6, <1>7, <1>8 DEF PfIInv, PfTypeOK

\* What a migration goes on to: to the import it was for, or nowhere.
LEMMA GoesOn ==
    ASSUME PfIInv, NEW p \in Processes, pfTask[p].at \in {"moveConfig", "pointMigrated"},
           IF pfTask[p].server = "none" THEN PfEnd(p) ELSE PfTo(p, "target"),
           UNCHANGED <<pfConfig, pfOriginal, pfLegacy, pfLegacyOriginal, pfKnown, pfPinned, pfKept,
                       pfTrouble, pfOps>>
    PROVE  PfIInv'
<1>1. pfTask[p] \in PfTask /\ pfTrouble' \subseteq {"pins", "files"} BY DEF PfIInv, PfTypeOK
<1>2. CASE PfEnd(p)
  <2>1. Becomes(p, AtRest) BY <1>2 DEF PfEnd, Becomes
  <2> QED BY <1>1, <2>1, TaskAside, PfConstants DEF PinSteps, FileSteps, ImportSteps
<1>3. CASE pfTask[p].server # "none" /\ PfTo(p, "target")
  <2> DEFINE x == [pfTask[p] EXCEPT !.at = "target"]
  <2>1. Becomes(p, x) BY <1>3 DEF PfTo, Becomes
  <2>2. x \in PfTask /\ x.at = "target" /\ x.server \in Servers
    BY <1>1, <1>3 DEF PfTask, FileSteps, ImportSteps
  <2> HIDE DEF x
  <2> QED BY <1>1, <2>1, <2>2, TaskAside DEF PinSteps, FileSteps
<1> QED BY <1>2, <1>3

(* ... then the configuration, ...                                       *)
LEMMA MoveConfigKeeps ==
    ASSUME PfIInv, NEW p \in Processes, MoveConfig(p)
    PROVE  PfIInv'
<1>1. PfTypeOK /\ OwnImport /\ OriginalFirst /\ PinsSafe /\ FilesSafe BY DEF PfIInv
<1>2. /\ pfTask[p].at = "moveConfig"
      /\ UNCHANGED <<pfOriginal, pfLegacyOriginal, pfKnown, pfPinned, pfKept, pfTrouble, pfOps>>
  BY DEF MoveConfig
<1>3. CASE pfLegacy = Absent
  BY <1>2, <1>3, GoesOn DEF MoveConfig
<1>4. CASE pfLegacy # Absent
  <2> DEFINE x == [pfTask[p] EXCEPT !.at = "pointMigrated"]
  <2>1. /\ Becomes(p, x) /\ pfConfig' = [pfConfig EXCEPT ![1] = pfLegacy] /\ pfLegacy' = Absent
    BY <1>4 DEF MoveConfig, PfTo, Becomes
  <2>2. x \in PfTask /\ x.at = "pointMigrated" BY <1>1 DEF PfTypeOK, PfTask, FileSteps, ImportSteps
  <2> HIDE DEF x
  <2>3. pfConfig' \in [Ids -> Profile] /\ pfLegacy' \in Profile /\ pfLegacy'.key = 0
    BY <1>1, <2>1, PfConstants DEF PfTypeOK
  <2>4. OwnImport' /\ OriginalFirst' /\ pfTask' \in [Processes -> PfTask]
    <3>1. pfLegacyOriginal' = Absent BY <1>1, <1>2 DEF OriginalFirst
    <3> QED BY <1>1, <1>2, <2>1, <2>2, <3>1, TaskMove DEF Importing, ImportSteps
  <2>5. PinsSafe' BY <1>1, <1>2, <2>1, <2>2, PinsAside DEF PinSteps
  <2>6. FilesSafe'
    <3>1. SUFFICES ASSUME "files" \notin pfTrouble
                   PROVE  (AloneAtFiles /\ MovesToNothing /\ OwnTarget /\ CopiesFollow /\ KeysThere)'
      BY <1>2 DEF FilesSafe
    <3>2. /\ AloneAtFiles /\ MovesToNothing /\ OwnTarget /\ CopiesFollow /\ KeysThere /\ Listed = {}
          /\ \A q \in Processes : pfTask[q].at \notin Importing
      BY <1>1, <1>2, <1>4, <3>1
         DEF FilesSafe, AloneAtFiles, Importing, FileSteps, MovesToNothing, Moving
    <3>3. /\ Listed' = {1} /\ pfConfig'[1].key = 0
      BY <1>1, <1>4, <2>1, <3>2, PfConstants DEF PfTypeOK, Listed
    <3>4. pfTask'[p] = x /\ \A q \in Processes : q # p => pfTask'[q] = pfTask[q]
      BY <1>1, <2>1 DEF Becomes, PfTypeOK
    <3>5. AloneAtFiles' BY <2>2, <3>2, <3>4 DEF AloneAtFiles, Importing
    <3>6. MovesToNothing' BY <2>1 DEF MovesToNothing
    <3>7. OwnTarget' BY <2>2, <3>2, <3>4 DEF OwnTarget, Importing
    <3>8. CopiesFollow'
      <4>1. \A i \in Ids : pfOriginal'[i].key = 0 BY <1>2, <3>2 DEF CopiesFollow
      <4> QED BY <3>3, <4>1, PfConstants DEF CopiesFollow
    <3>9. KeysThere'
      <4>1. \A k \in pfKept' : k = 0 BY <1>2, <3>2 DEF KeysThere
      <4> QED BY <3>3, <4>1 DEF KeysThere
    <3> QED BY <3>5, <3>6, <3>7, <3>8, <3>9
  <2> QED BY <1>1, <1>2, <2>3, <2>4, <2>5, <2>6 DEF PfIInv, PfTypeOK
<1> QED BY <1>3, <1>4

(* ... and points at it.                                                 *)
LEMMA PointMigratedKeeps ==
    ASSUME PfIInv, NEW p \in Processes, PointAtMigrated(p)
    PROVE  PfIInv'
BY GoesOn DEF PointAtMigrated

-----------------------------------------------------------------------------
(* What the user does to a stored profile.                                 *)

\* No import writes: then nothing is said of tasks.
LEMMA StoredOnly ==
    ASSUME PfIInv, UNCHANGED <<pfLegacy, pfLegacyOriginal, pfKnown, pfTask, pfPinned>>,
           pfTrouble \subseteq pfTrouble', pfTrouble' \subseteq {"pins", "files"},
           pfOps' \in 0 .. MaxPfOps,
           pfConfig' \in [Ids -> Profile], pfOriginal' \in [Ids -> Profile], FilesSafe'
    PROVE  PfIInv'
<1>1. PfTypeOK /\ OwnImport /\ OriginalFirst /\ PinsSafe BY DEF PfIInv
<1>2. OwnImport' /\ OriginalFirst' BY <1>1 DEF OwnImport, OriginalFirst
<1>3. PinsSafe' BY <1>1 DEF PinsSafe, PfPinHolds, OnePinner, Pinner
<1> QED BY <1>1, <1>2, <1>3 DEF PfIInv, PfTypeOK

(* An operation that begins counts.                                      *)
LEMMA OpsBounded == PfTypeOK /\ PfBegins => pfOps' \in 0 .. MaxPfOps
BY ProfileStoreAssumption DEF PfTypeOK, PfBegins

(* The three operations on stored profiles: an edit, ...                 *)
LEMMA EditKeeps ==
    ASSUME PfIInv, EditActive
    PROVE  PfIInv'
<1>1. PfTypeOK /\ FilesSafe /\ pfOps' \in 0 .. MaxPfOps BY OpsBounded DEF PfIInv, EditActive
<1> DEFINE n == ActiveId
<1>2. n \in Listed /\ n \in Ids BY <1>1, ActiveListed DEF EditActive
<1>3. /\ pfConfig' = [pfConfig EXCEPT ![n].address = "edited"]
      /\ UNCHANGED <<pfOriginal, pfLegacy, pfLegacyOriginal, pfKnown, pfTask, pfPinned, pfKept,
                     pfTrouble>>
  BY DEF EditActive
<1> HIDE DEF n
<1>4. /\ pfConfig' \in [Ids -> Profile] /\ pfConfig'[n].key = pfConfig[n].key
      /\ pfConfig'[n] # Absent /\ \A i \in Ids : i # n => pfConfig'[i] = pfConfig[i]
  BY <1>1, <1>2, <1>3 DEF PfTypeOK, Profile, Addresses, Absent
<1>5. Listed' = Listed /\ \A i \in Ids : pfConfig'[i].key = pfConfig[i].key
  BY <1>2, <1>4 DEF Listed
<1>6. MigrationDue' = MigrationDue BY <1>3, <1>5 DEF MigrationDue
<1>7. FilesSafe'
  <2>1. SUFFICES ASSUME "files" \notin pfTrouble
                 PROVE  (AloneAtFiles /\ MovesToNothing /\ OwnTarget /\ CopiesFollow /\ KeysThere)'
    BY <1>3 DEF FilesSafe
  <2>2. AloneAtFiles /\ MovesToNothing /\ OwnTarget /\ CopiesFollow /\ KeysThere
    BY <1>1, <2>1 DEF FilesSafe
  <2>3. AloneAtFiles' BY <1>3, <1>6, <2>2 DEF AloneAtFiles
  <2>4. MovesToNothing' BY <1>3, <1>5, <2>2 DEF MovesToNothing
  <2>5. OwnTarget' BY <1>3, <1>5, <2>2 DEF OwnTarget, Listed
  <2>6. CopiesFollow' BY <1>3, <1>5, <2>2 DEF CopiesFollow, Listed
  <2>7. KeysThere' BY <1>3, <1>5, <2>2 DEF KeysThere, Listed
  <2> QED BY <2>3, <2>4, <2>5, <2>6, <2>7
<1> QED BY <1>1, <1>3, <1>4, <1>7, StoredOnly DEF PfTypeOK

(* ... a reset to the pristine copy, ...                                 *)
LEMMA ResetKeeps ==
    ASSUME PfIInv, ResetActive
    PROVE  PfIInv'
<1>1. PfTypeOK /\ FilesSafe /\ pfOps' \in 0 .. MaxPfOps BY OpsBounded DEF PfIInv, ResetActive
<1> DEFINE n == ActiveId
<1>2. n \in Listed /\ n \in Ids BY <1>1, ActiveListed DEF ResetActive
<1>3. /\ pfConfig' = [pfConfig EXCEPT ![n] = pfOriginal[n]] /\ pfOriginal[n] # Absent
      /\ pfTrouble' = IF PfBusy({"snapshot"}) THEN pfTrouble \cup {"files"} ELSE pfTrouble
      /\ UNCHANGED <<pfOriginal, pfLegacy, pfLegacyOriginal, pfKnown, pfTask, pfPinned, pfKept>>
  BY DEF ResetActive
<1> HIDE DEF n
<1>4. /\ pfConfig' \in [Ids -> Profile] /\ pfConfig'[n] = pfOriginal[n]
      /\ \A i \in Ids : i # n => pfConfig'[i] = pfConfig[i]
  BY <1>1, <1>2, <1>3 DEF PfTypeOK
<1>5. Listed' = Listed BY <1>2, <1>3, <1>4 DEF Listed
<1>6. MigrationDue' = MigrationDue BY <1>3, <1>5 DEF MigrationDue
<1>7. pfTrouble \subseteq pfTrouble' /\ pfTrouble' \subseteq {"pins", "files"}
  BY <1>1, <1>3 DEF PfTypeOK
<1>8. FilesSafe'
  <2>1. SUFFICES ASSUME "files" \notin pfTrouble'
                 PROVE  (AloneAtFiles /\ MovesToNothing /\ OwnTarget /\ CopiesFollow /\ KeysThere)'
    BY DEF FilesSafe
  <2>2. /\ AloneAtFiles /\ MovesToNothing /\ OwnTarget /\ CopiesFollow /\ KeysThere
        /\ \A p \in Processes : pfTask[p].at # "snapshot"
    BY <1>1, <1>3, <1>7, <2>1 DEF FilesSafe, PfBusy
  <2>3. \A i \in Ids : i \in Listed => pfConfig'[i].key = pfConfig[i].key
    BY <1>4, <2>2 DEF CopiesFollow
  <2>4. AloneAtFiles' BY <1>3, <1>6, <2>2 DEF AloneAtFiles
  <2>5. MovesToNothing' BY <1>3, <1>5, <2>2 DEF MovesToNothing
  <2>6. OwnTarget' BY <1>3, <1>5, <2>2 DEF OwnTarget
  <2>7. CopiesFollow'
    <3>1. \A i \in Listed : pfOriginal[i].key = pfConfig[i].key BY <2>2 DEF CopiesFollow
    <3> QED BY <1>3, <1>5, <2>2, <2>3, <3>1 DEF CopiesFollow, Listed
  <2>8. KeysThere' BY <1>3, <1>5, <2>2, <2>3 DEF KeysThere, Listed
  <2> QED BY <2>4, <2>5, <2>6, <2>7, <2>8
<1> QED BY <1>1, <1>3, <1>4, <1>7, <1>8, StoredOnly DEF PfTypeOK

(* ... and a removal, which gives the key up.                            *)
LEMMA RemoveKeeps ==
    ASSUME PfIInv, RemoveStored
    PROVE  PfIInv'
<1>1. PfTypeOK /\ FilesSafe /\ pfOps' \in 0 .. MaxPfOps BY OpsBounded DEF PfIInv, RemoveStored
<1>2. PICK n \in Listed : /\ pfConfig' = [pfConfig EXCEPT ![n] = Absent]
                          /\ pfOriginal' = [pfOriginal EXCEPT ![n] = Absent]
                          /\ pfKept' = pfKept \ {pfConfig[n].key}
  BY DEF RemoveStored
<1>3. /\ pfTrouble' = IF PfBusy(FileSteps) THEN pfTrouble \cup {"files"} ELSE pfTrouble
      /\ UNCHANGED <<pfLegacy, pfLegacyOriginal, pfKnown, pfTask, pfPinned>>
  BY DEF RemoveStored
<1>4. /\ n \in Ids /\ pfConfig' \in [Ids -> Profile] /\ pfOriginal' \in [Ids -> Profile]
      /\ pfConfig'[n] = Absent /\ pfOriginal'[n].key = 0
      /\ \A i \in Ids : i # n => pfConfig'[i] = pfConfig[i] /\ pfOriginal'[i] = pfOriginal[i]
  BY <1>1, <1>2, PfConstants DEF PfTypeOK, Listed
<1>5. Listed' = Listed \ {n} BY <1>4 DEF Listed
<1>6. pfTrouble \subseteq pfTrouble' /\ pfTrouble' \subseteq {"pins", "files"}
  BY <1>1, <1>3 DEF PfTypeOK
<1>7. FilesSafe'
  <2>1. SUFFICES ASSUME "files" \notin pfTrouble'
                 PROVE  (AloneAtFiles /\ MovesToNothing /\ OwnTarget /\ CopiesFollow /\ KeysThere)'
    BY DEF FilesSafe
  <2>2. /\ CopiesFollow /\ KeysThere
        /\ \A p \in Processes : pfTask[p].at \notin FileSteps
    BY <1>1, <1>3, <1>6, <2>1 DEF FilesSafe, PfBusy
  <2>3. \A p \in Processes : pfTask'[p].at \notin FileSteps BY <1>3, <2>2
  <2>4. AloneAtFiles' /\ MovesToNothing' /\ OwnTarget'
    BY <2>3 DEF AloneAtFiles, MovesToNothing, OwnTarget, FileSteps, Importing, Moving
  <2>5. CopiesFollow'
    <3>1. \A i \in Listed : pfOriginal[i].key = pfConfig[i].key
      BY <2>2 DEF CopiesFollow, FileSteps
    <3> QED BY <1>4, <1>5, <2>2, <3>1 DEF CopiesFollow, Listed
  <2>6. KeysThere' BY <1>2, <1>3, <1>4, <1>5, <2>2 DEF KeysThere, Listed
  <2> QED BY <2>4, <2>5, <2>6
<1> QED BY <1>1, <1>3, <1>4, <1>6, <1>7, StoredOnly

-----------------------------------------------------------------------------

(* Every step keeps the invariant.                                       *)
LEMMA PfIInvKept == PfIInv /\ [PfNext]_pfVars => PfIInv'
<1> SUFFICES ASSUME PfIInv, [PfNext]_pfVars PROVE PfIInv' OBVIOUS
<1>1. CASE EditActive \/ ResetActive \/ RemoveStored
  BY <1>1, EditKeeps, ResetKeeps, RemoveKeeps
<1>2. ASSUME NEW p \in Processes,
             VerifyProfile(p) \/ LoadPins(p) \/ StorePins(p) \/ ParseAndRedeem(p) \/ KillImport(p)
      PROVE  PfIInv'
  BY <1>2, VerifyKeeps, LoadKeeps, StoreKeeps, ParseKeeps, KillKeeps
<1>3. ASSUME NEW p \in Processes,
             ChooseTarget(p) \/ SaveConfig(p) \/ SaveOriginal(p) \/ PointAtImport(p)
      PROVE  PfIInv'
  BY <1>3, ChooseKeeps, SaveKeeps, SnapshotKeeps, PointKeeps
<1>4. ASSUME NEW p \in Processes,
             BeginMigration(p) \/ MoveOriginal(p) \/ MoveConfig(p) \/ PointAtMigrated(p)
      PROVE  PfIInv'
  BY <1>4, BeginKeeps, MoveOriginalKeeps, MoveConfigKeeps, PointMigratedKeeps
<1>5. CASE UNCHANGED pfVars
  <2>1. FilesSafe'
    <3>1. FilesSafe BY DEF PfIInv
    <3>2. Listed' = Listed /\ MigrationDue' = MigrationDue
      BY <1>5 DEF Listed, MigrationDue, pfVars, pfFiles
    <3> QED BY <1>5, <3>1, <3>2 DEF pfVars, pfFiles, FilesSafe, AloneAtFiles, MovesToNothing, OwnTarget,
            CopiesFollow, KeysThere
  <2> QED BY <1>5, <2>1, StoredOnly DEF PfIInv, PfTypeOK, pfVars, pfFiles
<1> QED BY <1>1, <1>2, <1>3, <1>4, <1>5 DEF PfNext

(* The key first pinned for a server stays the pinned one, whatever is   *)
(* imported for it or for another server later, by any number of         *)
(* processes, unless two imports were writing the pins at once or one    *)
(* was killed while it wrote (profile_trust.py).                         *)
THEOREM PinsHold == PfSpec => []PfPinHolds
<1>1. PfIInv => PfPinHolds BY DEF PfIInv, PinsSafe, PfPinHolds
<1> QED BY <1>1, PfAtStart, PfIInvKept, PTL DEF PfSpec

(* Every private key that was imported is on disk, in its profile or in  *)
(* the file about to be migrated, until that profile is issued again or  *)
(* removed, and a reset brings back no other one; through edits,         *)
(* migrations and processes killed at any of their steps, unless an      *)
(* import was cut short after its first file or met another one at the   *)
(* files (api.py: import_profile, profiles.py, config.py).               *)
THEOREM KeysStay == PfSpec => []PfKeysKept
<1>1. PfIInv => PfKeysKept
  <2> SUFFICES ASSUME PfIInv, "files" \notin pfTrouble PROVE PfKeysKept BY DEF PfKeysKept
  <2>1. CopiesFollow /\ KeysThere /\ pfLegacy.key = 0 BY DEF PfIInv, FilesSafe, PfTypeOK
  <2>2. pfKept \subseteq {c.key : c \in {pfConfig[i] : i \in Listed} \cup ({pfLegacy} \ {Absent})}
    BY <2>1 DEF KeysThere
  <2>3. ~PfBusy(FileSteps) => \A i \in Listed : pfOriginal[i].key = pfConfig[i].key
    BY <2>1 DEF CopiesFollow, PfBusy, FileSteps
  <2> QED BY <2>2, <2>3 DEF PfKeysKept
<1> QED BY <1>1, PfAtStart, PfIInvKept, PTL DEF PfSpec

-----------------------------------------------------------------------------
(* The addresses that are dialled.                                       *)

\* What a name may be resolved to, and a rung that is dialled.
Resolved == {"a", "b", "c", "lie"}
Rung == [id : {"direct", "direct-hostile", "front"}, order : 1..3, name : Names,
         address : Resolved \cup {Unresolved}]

\* Which values the variables take.
EsTypeOK ==
    /\ esMode \in [hostile : BOOLEAN, fallback : BOOLEAN]
    /\ esHome \in [Names -> {"a", "b", "c"}]
    /\ esLies \in BOOLEAN
    /\ esCache \in [Names -> Resolved \cup {Unresolved}]
    /\ esAt \in {"down", "probed", "resolved", "trying", "up", "lost"}
    /\ esLadder \in SUBSET Rung
    /\ esSwitch \in [on : BOOLEAN, allow : SUBSET Resolved]
    /\ esUnsteady \in SUBSET {"ever", "since"}

\* Nothing is dialled between attempts.
Idle == esAt \in {"down", "probed", "resolved", "lost"} => esDialled = Unresolved

\* While rungs are tried, the addresses of those left are outside the
\* tunnel.
KeptOutside ==
    esAt = "trying" => \A r \in esLadder : r.address # Unresolved => r.address \in esOutside

\* On a network that has not changed, what is remembered is true.
TruthKept ==
    esUnsteady = {} =>
        /\ esLies = FALSE
        /\ \A n \in Names : esCache[n] \in {Unresolved, esHome[n]}

\* A change since the attempt began is a change.
Marked == "since" \in esUnsteady => "ever" \in esUnsteady

\* The invariant of the connection.
EsIInv == EsTypeOK /\ Idle /\ KeptOutside /\ TruthKept /\ Marked /\ EsDialsOutside /\ EsSwitchLetsBack

(* The rung to dial is one of the ladder.                                *)
LEMMA ForemostIsThere ==
    ASSUME NEW S, S \subseteq Rung, S # {}
    PROVE  Foremost(S) \in S
<1> DEFINE Places == {Place(r) : r \in S}
<1>1. Places \subseteq Nat /\ Places # {}
  BY DEF Place, Rung
<1>2. PICK i \in Places : \A k \in Places : ~(<<k, i>> \in OpToRel(<, Nat))
  BY <1>1, NatLessThanWellFounded, WFMin
<1>3. PICK r \in S : i = Place(r)
  OBVIOUS
<1>4. \A q \in S : Place(r) <= Place(q)
  <2> TAKE q \in S
  <2>1. Place(q) \in Places /\ Place(q) \in Nat /\ Place(r) \in Nat
    BY <1>1
  <2>2. ~(Place(q) < Place(r))
    BY <1>2, <1>3, <2>1 DEF OpToRel
  <2> QED BY <2>1, <2>2
<1> QED BY <1>4 DEF Foremost

(* An answer of the system resolver is the truth or nothing unless it is *)
(* intercepted, and nothing behind the switch.                           *)
LEMMA WhatIsAnswered ==
    ASSUME EsTypeOK, NEW names, NEW a \in SystemAnswers(names)
    PROVE  /\ a \in [Names -> Resolved \cup {Unresolved}]
           /\ \A n \in Names : esLies = FALSE => a[n] \in {Unresolved, esHome[n]}
           /\ \A n \in Names : esSwitch.on => a[n] = Unresolved
<1>1. a \in [Names -> {Unresolved, "lie"} \cup {esHome[n] : n \in Names}]
  BY DEF SystemAnswers
<1>2. \A n \in Names : a[n] \in Answers(n) \cup {Unresolved}
  BY DEF SystemAnswers
<1>3. \A n \in Names : esHome[n] \in Resolved
  BY DEF EsTypeOK, Resolved
<1>4. {Unresolved, "lie"} \cup {esHome[n] : n \in Names} \subseteq Resolved \cup {Unresolved}
  BY <1>3 DEF Resolved
<1>5. a \in [Names -> Resolved \cup {Unresolved}]
  BY <1>1, <1>4
<1>6. \A n \in Names : esLies = FALSE => a[n] \in {Unresolved, esHome[n]}
  BY <1>2 DEF Answers
<1>7. \A n \in Names : esSwitch.on => a[n] = Unresolved
  BY <1>2 DEF Answers
<1> QED BY <1>5, <1>6, <1>7

(* What is remembered is the last answer.                                *)
LEMMA WhatIsRemembered ==
    ASSUME EsTypeOK, NEW a \in [Names -> Resolved \cup {Unresolved}]
    PROVE  /\ Remember(esCache, a) \in [Names -> Resolved \cup {Unresolved}]
           /\ \A n \in Names : Remember(esCache, a)[n] = Or(a[n], esCache[n])
<1>1. \A n \in Names : Or(a[n], esCache[n]) \in Resolved \cup {Unresolved}
  BY DEF Or, EsTypeOK
<1> QED BY <1>1 DEF Remember

(* It is true where the answers are.                                     *)
LEMMA HonestyKept ==
    ASSUME EsTypeOK, TruthKept, NEW names, NEW a \in SystemAnswers(names), esUnsteady = {}
    PROVE  \A n \in Names : Or(a[n], esCache[n]) \in {Unresolved, esHome[n]}
  BY WhatIsAnswered DEF TruthKept, Or

(* At the start nothing is dialled or remembered.                        *)
LEMMA EsAtStart == EsInit => EsIInv
<1> SUFFICES ASSUME EsInit PROVE EsIInv
  OBVIOUS
<1>1. EsTypeOK
  BY DEF EsInit, EsTypeOK, Names, Resolved
<1>2. TruthKept
  BY DEF EsInit, TruthKept
<1> QED BY <1>1, <1>2 DEF EsInit, EsIInv, Idle, KeptOutside, Marked, EsDialsOutside,
                           EsSwitchLetsBack

(* The steps of an attempt: the probe, ...                               *)
LEMMA PreflightKeeps == EsIInv /\ Preflight => EsIInv'
<1> SUFFICES ASSUME EsIInv, Preflight PROVE EsIInv'
  OBVIOUS
<1> USE DEF EsIInv, Preflight
<1>1. EsTypeOK'
  BY DEF EsTypeOK
<1>2. esUnsteady' = {} => esUnsteady = {}
  BY DEF Marked, EsTypeOK
<1>3. TruthKept'
  BY <1>2 DEF TruthKept
<1>4. EsSwitchLetsBack'
  BY <1>2 DEF EsSwitchLetsBack
<1>5. Marked'
  BY DEF Marked
<1>6. Idle' /\ EsDialsOutside'
  BY DEF Idle, EsDialsOutside
<1>7. KeptOutside'
  BY DEF KeptOutside, EsTypeOK
<1> QED BY <1>1, <1>3, <1>4, <1>5, <1>6, <1>7

(* ... the addresses of the rungs, ...                                   *)
LEMMA ResolveRungsKeeps == EsIInv /\ ResolveRungs => EsIInv'
<1> SUFFICES ASSUME EsIInv, ResolveRungs PROVE EsIInv'
  OBVIOUS
<1> USE DEF EsIInv
<1>0. /\ esAt' = "resolved" /\ esAt = "probed"
      /\ UNCHANGED <<esMode, esHome, esLies, esUnsteady, esSticky, esOutside, esDialled, esSwitch>>
  BY DEF ResolveRungs, esWorld
<1>1. PICK answers \in SystemAnswers({r.name : r \in {q \in Ladder : ~q.hostile}}),
           second \in IF \E r \in Ladder : r.hostile
                      THEN PublicAnswers("server") \cup Answers("server") ELSE {Unresolved} :
        /\ esLadder' = {Dialable(r, IF r.hostile
                                    THEN Or(second, Remember(esCache, answers)["server"])
                                    ELSE Remember(esCache, answers)[r.name]) : r \in Ladder}
        /\ esCache' = [Remember(esCache, answers) EXCEPT !["server"] = Or(second, @)]
  BY DEF ResolveRungs
<1> DEFINE after == Remember(esCache, answers)
           address(r) == IF r.hostile THEN Or(second, after["server"]) ELSE after[r.name]
<1>2. /\ second \in {Unresolved, "lie", esHome["server"]}
      /\ esLies = FALSE => second \in {Unresolved, esHome["server"]}
      /\ esSwitch.on => second = Unresolved
  BY DEF PublicAnswers, Answers
<1>3. second \in Resolved \cup {Unresolved}
  BY <1>2 DEF EsTypeOK, Resolved, Names
<1>4. /\ answers \in [Names -> Resolved \cup {Unresolved}]
      /\ \A n \in Names : esSwitch.on => answers[n] = Unresolved
  BY WhatIsAnswered
<1>5. /\ after \in [Names -> Resolved \cup {Unresolved}]
      /\ \A n \in Names : after[n] = Or(answers[n], esCache[n])
  BY <1>4, WhatIsRemembered
<1> HIDE DEF after
<1>6. esCache' \in [Names -> Resolved \cup {Unresolved}]
  BY <1>1, <1>3, <1>5 DEF Or, after
<1>7. \A r \in Ladder : Dialable(r, address(r)) \in Rung
  <2> TAKE r \in Ladder
  <2>1. r \in LadderRungs
    BY DEF Ladder
  <2>2. r.id \in {"direct", "direct-hostile", "front"} /\ r.order \in 1..3 /\ r.name \in Names
    BY <2>1 DEF LadderRungs, Names
  <2>3. address(r) \in Resolved \cup {Unresolved}
    BY <1>3, <1>5, <2>2 DEF Or, Names
  <2> HIDE DEF address
  <2> QED BY <2>2, <2>3 DEF Dialable, Rung
<1>8. esLadder' \in SUBSET Rung
  BY <1>1, <1>7 DEF after
<1>9. EsTypeOK'
  BY <1>0, <1>6, <1>8 DEF EsTypeOK
<1>10. ASSUME esUnsteady = {}
       PROVE  \A n \in Names : esCache'[n] \in {Unresolved, esHome[n]}
  <2>1. \A n \in Names : after[n] \in {Unresolved, esHome[n]}
    BY <1>5, <1>10, HonestyKept
  <2>2. \A n \in Names : esCache'[n] = IF n = "server" THEN Or(second, after[n]) ELSE after[n]
    BY <1>1, <1>5 DEF Names, after
  <2>3. second \in {Unresolved, esHome["server"]}
    BY <1>2, <1>10 DEF TruthKept
  <2> QED BY <2>1, <2>2, <2>3 DEF Or
<1>11. TruthKept'
  BY <1>0, <1>10 DEF TruthKept
<1>12. esSwitch.on => esCache'["server"] = esCache["server"]
  BY <1>1, <1>2, <1>4, <1>5 DEF Or, Names, after
<1>13. EsSwitchLetsBack'
  BY <1>0, <1>12 DEF EsSwitchLetsBack
<1>14. Marked' /\ Idle' /\ KeptOutside' /\ EsDialsOutside'
  BY <1>0 DEF Marked, Idle, KeptOutside, EsDialsOutside
<1> QED BY <1>9, <1>11, <1>13, <1>14

(* ... the lookups of the configuration, which keeps those addresses     *)
(* outside, ...                                                          *)
LEMMA InstallTunnelKeeps == EsIInv /\ InstallTunnel => EsIInv'
<1> SUFFICES ASSUME EsIInv, InstallTunnel PROVE EsIInv'
  OBVIOUS
<1> USE DEF EsIInv
<1>0. /\ esAt' = "trying" /\ esAt = "resolved"
      /\ UNCHANGED <<esMode, esHome, esLies, esUnsteady, esSticky, esLadder, esDialled, esSwitch>>
  BY DEF InstallTunnel, esWorld
<1>1. PICK answers \in SystemAnswers(EscapeNames(esLadder)) :
        /\ EscapeAddresses(esLadder) \subseteq esOutside'
        /\ esCache' = Remember(esCache, answers)
  BY DEF InstallTunnel
<1>2. /\ answers \in [Names -> Resolved \cup {Unresolved}]
      /\ \A n \in Names : esSwitch.on => answers[n] = Unresolved
  BY WhatIsAnswered
<1>3. /\ esCache' \in [Names -> Resolved \cup {Unresolved}]
      /\ \A n \in Names : esCache'[n] = Or(answers[n], esCache[n])
  BY <1>1, <1>2, WhatIsRemembered
<1>4. EsTypeOK'
  BY <1>0, <1>3 DEF EsTypeOK
<1>5. TruthKept'
  BY <1>0, <1>3, HonestyKept DEF TruthKept
<1>6. esSwitch.on => esCache'["server"] = esCache["server"]
  BY <1>2, <1>3 DEF Or, Names
<1>7. EsSwitchLetsBack'
  BY <1>0, <1>6 DEF EsSwitchLetsBack
<1>8. \A r \in esLadder : r.address # Unresolved => r.address \in EscapeAddresses(esLadder)
  BY DEF EscapeAddresses
<1>9. KeptOutside'
  BY <1>0, <1>1, <1>8 DEF KeptOutside
<1>10. Marked' /\ Idle' /\ EsDialsOutside'
  BY <1>0 DEF Marked, Idle, EsDialsOutside
<1> QED BY <1>4, <1>5, <1>7, <1>9, <1>10

(* ... and the rungs, which are dialled one by one.                      *)
LEMMA DialRungKeeps == EsIInv /\ DialRung => EsIInv'
<1> SUFFICES ASSUME EsIInv, DialRung PROVE EsIInv'
  OBVIOUS
<1> USE DEF EsIInv
<1>0. /\ esAt = "trying" /\ esAt' = "trying" /\ esLadder # {}
      /\ esDialled' = Foremost(esLadder).address
      /\ esLadder' \subseteq esLadder
      /\ UNCHANGED <<esMode, esHome, esLies, esUnsteady, esCache, esOutside, esSwitch>>
  BY DEF DialRung, esWorld
<1>1. EsTypeOK'
  BY <1>0 DEF EsTypeOK
<1>2. Foremost(esLadder) \in esLadder
  BY <1>0, ForemostIsThere DEF EsTypeOK
<1>3. EsDialsOutside'
  BY <1>0, <1>2 DEF KeptOutside, EsDialsOutside
<1>4. KeptOutside'
  BY <1>0 DEF KeptOutside
<1> QED BY <1>0, <1>1, <1>3, <1>4 DEF Idle, TruthKept, Marked, EsSwitchLetsBack

LEMMA RungCarriesKeeps == EsIInv /\ RungCarries => EsIInv'
<1> SUFFICES ASSUME EsIInv, RungCarries PROVE EsIInv'
  OBVIOUS
<1> USE DEF EsIInv, RungCarries, esWorld
<1>1. EsTypeOK'
  BY DEF EsTypeOK
<1> QED BY <1>1 DEF Idle, KeptOutside, TruthKept, Marked, EsDialsOutside, EsSwitchLetsBack

LEMMA RungFailsKeeps == EsIInv /\ DialledRungFails => EsIInv'
<1> SUFFICES ASSUME EsIInv, DialledRungFails PROVE EsIInv'
  OBVIOUS
<1> USE DEF EsIInv, DialledRungFails, esWorld
<1>1. EsTypeOK'
  BY DEF EsTypeOK
<1>2. KeptOutside'
  BY DEF KeptOutside
<1> QED BY <1>1, <1>2 DEF Idle, TruthKept, Marked, EsDialsOutside, EsSwitchLetsBack

LEMMA LoseTunnelKeeps == EsIInv /\ LoseTunnel => EsIInv'
<1> SUFFICES ASSUME EsIInv, LoseTunnel PROVE EsIInv'
  OBVIOUS
<1> USE DEF EsIInv, LoseTunnel, esWorld
<1>1. EsTypeOK'
  BY DEF EsTypeOK
<1> QED BY <1>1 DEF Idle, KeptOutside, TruthKept, Marked, EsDialsOutside, EsSwitchLetsBack

(* The switch is engaged with the last lookups, or with those before     *)
(* them.                                                                 *)
LEMMA EngageSwitchKeeps == EsIInv /\ EngageSwitch => EsIInv'
<1> SUFFICES ASSUME EsIInv, EngageSwitch PROVE EsIInv'
  OBVIOUS
<1> USE DEF EsIInv
<1>0. /\ esAt' = "down" /\ esAt = "lost"
      /\ UNCHANGED <<esMode, esHome, esLies, esUnsteady, esLadder, esOutside, esDialled>>
  BY DEF EngageSwitch, esWorld
<1>1. PICK answers \in SystemAnswers(EscapeNames(LadderRungs)) :
        /\ esCache' = Remember(esCache, answers)
        /\ esSwitch' = IF BypassNetworks(answers, EscapeNames(LadderRungs)) = {} THEN esSwitch
                       ELSE [on |-> TRUE, allow |-> BypassNetworks(answers, EscapeNames(LadderRungs))]
  BY DEF EngageSwitch
<1> DEFINE allow == BypassNetworks(answers, EscapeNames(LadderRungs))
<1>2. answers \in [Names -> Resolved \cup {Unresolved}]
  BY WhatIsAnswered
<1>3. /\ esCache' \in [Names -> Resolved \cup {Unresolved}]
      /\ \A n \in Names : esCache'[n] = Or(answers[n], esCache[n])
  BY <1>1, <1>2, WhatIsRemembered
<1>4. "server" \in EscapeNames(LadderRungs) /\ EscapeNames(LadderRungs) \subseteq Names
  BY DEF EscapeNames, LadderRungs, Names
<1>5. allow \subseteq Resolved
  BY <1>3, <1>4 DEF BypassNetworks
<1>6. esCache'["server"] # Unresolved => esCache'["server"] \in allow
  BY <1>3, <1>4 DEF BypassNetworks
<1> HIDE DEF allow
<1>7. esSwitch' \in [on : BOOLEAN, allow : SUBSET Resolved]
  BY <1>1, <1>5 DEF EsTypeOK, allow
<1>8. EsTypeOK'
  BY <1>0, <1>3, <1>7 DEF EsTypeOK
<1>9. esUnsteady = {} => \A n \in Names : esCache'[n] \in {Unresolved, esHome[n]}
  BY <1>3, HonestyKept
<1>10. TruthKept'
  BY <1>0, <1>9 DEF TruthKept
<1>11. esCache'["server"] # Unresolved => esSwitch'.allow = allow
  BY <1>1, <1>6 DEF allow
<1>12. EsSwitchLetsBack'
  BY <1>0, <1>4, <1>6, <1>9, <1>11 DEF EsSwitchLetsBack
<1> QED BY <1>0, <1>8, <1>10, <1>12 DEF Idle, KeptOutside, Marked, EsDialsOutside

LEMMA ReleaseSwitchKeeps == EsIInv /\ ReleaseSwitch => EsIInv'
<1> SUFFICES ASSUME EsIInv, ReleaseSwitch PROVE EsIInv'
  OBVIOUS
<1> USE DEF EsIInv, ReleaseSwitch, esWorld
<1>1. EsTypeOK'
  BY DEF EsTypeOK
<1> QED BY <1>1 DEF Idle, KeptOutside, TruthKept, Marked, EsDialsOutside, EsSwitchLetsBack

LEMMA WeatherChangesKeeps == EsIInv /\ WeatherChanges => EsIInv'
<1> SUFFICES ASSUME EsIInv, WeatherChanges PROVE EsIInv'
  OBVIOUS
<1> USE DEF EsIInv, WeatherChanges
<1>1. esLies' \in BOOLEAN /\ esHome' \in [Names -> {"a", "b", "c"}]
  BY DEF EsTypeOK
<1>2. EsTypeOK'
  BY <1>1 DEF EsTypeOK
<1> QED BY <1>2 DEF Idle, KeptOutside, TruthKept, Marked, EsDialsOutside, EsSwitchLetsBack

(* Every step keeps the invariant.                                       *)
LEMMA EsIInvKept == EsIInv /\ [EsNext]_esVars => EsIInv'
<1>1. EsIInv /\ UNCHANGED esVars => EsIInv'
  BY DEF EsIInv, EsTypeOK, Idle, KeptOutside, TruthKept, Marked, EsDialsOutside, EsSwitchLetsBack,
         esVars, esWorld
<1> QED BY <1>1, PreflightKeeps, ResolveRungsKeeps, InstallTunnelKeeps, DialRungKeeps,
           RungCarriesKeeps, RungFailsKeeps, LoseTunnelKeeps, EngageSwitchKeeps,
           ReleaseSwitchKeeps, WeatherChangesKeeps DEF EsNext

(* No address is dialled that the tunnel captures, however lookups       *)
(* differ; and a switch that is engaged lets the server be dialled, even *)
(* if the lookup for it fails, on a network that has told the truth      *)
(* (tunnel.py: _with_addresses, wireguard.py: build_wg_conf,             *)
(* killswitch.py, dnscache.py).                                          *)
THEOREM Reachable == EsSpec => []EsReachable
<1>1. EsIInv => EsReachable
  BY DEF EsIInv, EsReachable
<1> QED BY <1>1, EsAtStart, EsIInvKept, PTL DEF EsSpec

-----------------------------------------------------------------------------
(* An update of the program itself.                                      *)

\* A run whose helper has said that it runs still has it, unless it has come to grief.
Confirmed(u) == \/ upHelper[u].at = "waiting"
                \/ upHelper[u].at = "none" /\ upForsaken

\* What a run and its helper may be at.
RunSteps == {"idle", "download", "body", "verify", "pip", "halt", "spawn", "await", "quit"}
HelperSteps == {"none", "born", "waiting", "installing"}
RunsOf == [at : RunSteps, product : Products, release : Nat, helper : Helpers]
HelpersOf == [at : HelperSteps, release : Nat, left : BOOLEAN]

\* The releases there are.
Releases == 1 .. Latest

\* Which values the variables take.
UpTypeOK ==
    /\ upQuality \in Seq(Qualities) /\ Latest <= MaxReleases
    /\ upVersion \in [Products -> Nat]
    /\ upRun \in [UpRuns -> RunsOf]
    /\ upFile \in [Files -> {"none", "part", "whole"}]
    /\ upReady \in BOOLEAN
    /\ upHelper \in [UpRuns -> HelpersOf]
    /\ upApp \in {"up", "gone"} /\ upTunnel \in BOOLEAN
    /\ upFrozen \in BOOLEAN /\ upForsaken \in BOOLEAN
    /\ upRan \subseteq [release : Releases, whole : BOOLEAN]
    /\ upOverlap \in BOOLEAN

\* A run that updates the window, and one with a helper at work.
Updating(u) == upRun[u].at # "idle" /\ upRun[u].product = "window"
Helped(u) == upHelper[u].at # "none"

\* A run is about a release that was published; so is a helper.
Published ==
    \A u \in UpRuns : /\ upRun[u].at = "idle" => upRun[u] = NoRun
                      /\ upRun[u].at # "idle" => upRun[u].release \in Releases
                      /\ upHelper[u].at = "none" => upHelper[u] = NoHelper
                      /\ upHelper[u].at # "none" => upHelper[u].release \in Releases

\* What has passed the check is signed and whole, and stays so until it is installed.
Checked ==
    \A u \in UpRuns :
        /\ upRun[u].at \in {"pip", "halt", "spawn", "await", "quit"} => Verified(u)
        /\ upHelper[u].at \in {"born", "waiting"} =>
              upQuality[upHelper[u].release] = "signed" /\ IsWhole(<<0, upHelper[u].release>>)

\* One update of the window at a time, ...
OneUpdate ==
    \A u, v \in UpRuns : (Updating(u) \/ Helped(u)) /\ (Updating(v) \/ Helped(v)) => v = u

\* ... and a helper belongs to it: to the run until the window quits, and to itself after that.
InStep ==
    \A u \in UpRuns :
        /\ Helped(u) =>
              \/ /\ Updating(u) /\ upRun[u].at \in {"await", "quit"} /\ ~upHelper[u].left
                 /\ upHelper[u].at \in {"born", "waiting"}
                 /\ upHelper[u].release = upRun[u].release
              \/ upRun[u].at = "idle" /\ upHelper[u].left /\ upHelper[u].at # "born"
        /\ upRun[u].at \in {"halt", "spawn", "await", "quit"} => upRun[u].product = "window"
        /\ upRun[u].at = "pip" => upRun[u].product # "window"
        /\ upRun[u].at = "quit" \/ (upRun[u].at = "await" /\ upReady) => Confirmed(u)

\* The window is gone only while a helper is at work or has come to grief, and no run
\* of it is.
BroughtBack ==
    upApp = "gone" =>
        /\ \A u \in UpRuns : ~Updating(u)
        /\ upForsaken \/ \E u \in UpRuns : upHelper[u].at \in {"waiting", "installing"}

\* What was installed was checked.
InstalledVerified == \A f \in upRan : f.whole /\ upQuality[f.release] = "signed"

\* The invariant of the updater, as long as no update of the window has
\* met another one.
UpSafe == Checked /\ OneUpdate /\ InStep /\ BroughtBack /\ InstalledVerified
UpIInv == UpTypeOK /\ Published /\ (~upOverlap => UpSafe)

-----------------------------------------------------------------------------
(* The downloads of the window are named by their release, the others by their *)
(* run, and no run has number 0.                                               *)
LEMMA FilesApart ==
    ASSUME UpTypeOK, Published, NEW u \in UpRuns, upRun[u].at # "idle"
    PROVE  /\ FileOf(u) \in Files
           /\ \A v \in UpRuns : v # u /\ ~(Updating(u) /\ Updating(v)) => FileOf(v) # FileOf(u)
           /\ ~Updating(u) => \A r \in Nat : <<0, r>> # FileOf(u)
<1>1. u # 0 /\ \A v \in UpRuns : v # 0 BY SelfUpdateAssumption
<1>2. upRun[u].release \in 1 .. MaxReleases
    <2>1. Latest \in Nat /\ MaxReleases \in Nat BY SelfUpdateAssumption DEF UpTypeOK, Latest
    <2> QED BY <2>1 DEF UpTypeOK, Published, Releases
<1>3. CASE Updating(u)
  <2>1. FileOf(u) = <<0, upRun[u].release>> BY <1>3 DEF FileOf, OfWindow, Updating
  <2>2. ASSUME NEW v \in UpRuns, ~Updating(v)
        PROVE  FileOf(v) = <<v, 0>> \/ FileOf(v) = <<0, 0>>
    <3>1. CASE upRun[v].at = "idle"
      <4>1. upRun[v] = NoRun BY <3>1 DEF Published
      <4> QED BY <4>1 DEF FileOf, OfWindow, NoRun
    <3>2. CASE upRun[v].at # "idle"
      BY <2>2, <3>2 DEF FileOf, OfWindow, Updating
    <3> QED BY <3>1, <3>2
  <2>3. \A v \in UpRuns : ~Updating(v) => FileOf(v) # FileOf(u)
      BY <1>1, <1>2, <2>1, <2>2
  <2> QED BY <1>2, <1>3, <2>1, <2>3 DEF Files
<1>4. CASE ~Updating(u)
  <2>1. FileOf(u) = <<u, 0>> BY <1>4 DEF FileOf, OfWindow, Updating
  <2>2. \A v \in UpRuns : FileOf(v) = <<v, 0>> \/ FileOf(v) = <<0, upRun[v].release>>
      BY DEF FileOf
  <2>3. \A v \in UpRuns : v # u => FileOf(v) # FileOf(u)
      BY <1>1, <2>1, <2>2
  <2> QED BY <1>1, <1>4, <2>1, <2>3 DEF Files
<1> QED BY <1>3, <1>4

(* What the steps of a run and of a helper do to the records.               *)
LEMMA RunMoves ==
    ASSUME UpTypeOK, NEW u \in UpRuns, NEW label \in RunSteps, RunTo(u, label)
    PROVE  /\ upRun' \in [UpRuns -> RunsOf]
           /\ upRun'[u].at = label /\ upRun'[u].product = upRun[u].product
           /\ upRun'[u].release = upRun[u].release
           /\ \A v \in UpRuns : v # u => upRun'[v] = upRun[v]
  BY DEF UpTypeOK, RunTo, RunsOf

(* A run that is over.                                                   *)
LEMMA RunGone ==
    ASSUME UpTypeOK, NEW u \in UpRuns, RunEnds(u)
    PROVE  /\ upRun' \in [UpRuns -> RunsOf]
           /\ upRun'[u] = NoRun /\ upRun'[u].at = "idle"
           /\ \A v \in UpRuns : v # u => upRun'[v] = upRun[v]
  BY DEF UpTypeOK, RunEnds, RunsOf, NoRun, RunSteps, Products, Helpers

(* The same of its helper, ...                                           *)
LEMMA HelperMoves ==
    ASSUME UpTypeOK, NEW u \in UpRuns, NEW label \in HelperSteps, HelperTo(u, label)
    PROVE  /\ upHelper' \in [UpRuns -> HelpersOf]
           /\ upHelper'[u].at = label /\ upHelper'[u].release = upHelper[u].release
           /\ upHelper'[u].left = upHelper[u].left
           /\ \A v \in UpRuns : v # u => upHelper'[v] = upHelper[v]
  BY DEF UpTypeOK, HelperTo, HelpersOf

(* ... which is done.                                                    *)
LEMMA HelperGone ==
    ASSUME UpTypeOK, NEW u \in UpRuns, HelperEnds(u)
    PROVE  /\ upHelper' \in [UpRuns -> HelpersOf]
           /\ upHelper'[u] = NoHelper /\ upHelper'[u].at = "none"
           /\ \A v \in UpRuns : v # u => upHelper'[v] = upHelper[v]
  BY DEF UpTypeOK, HelperEnds, HelpersOf, NoHelper, HelperSteps

(* A run or a helper that is not at work is at its first label.             *)
LEMMA RunsAtRest ==
    ASSUME UpTypeOK, Published, NEW u \in UpRuns
    PROVE  /\ upRun[u] = NoRun <=> upRun[u].at = "idle"
           /\ upHelper[u] = NoHelper <=> upHelper[u].at = "none"
           /\ u \in InWindow <=> Updating(u)
           /\ UpdatesWindow(u) <=> Updating(u) \/ Helped(u)
<1>1. upRun[u] = NoRun <=> upRun[u].at = "idle"
    BY DEF Published, NoRun
<1>2. upHelper[u] = NoHelper <=> upHelper[u].at = "none"
    BY DEF Published, NoHelper
<1> QED BY <1>1, <1>2 DEF InWindow, UpdatesWindow, Updating, Helped, OfWindow

(* The invariant holds at the start, ...                                    *)
LEMMA UpAtStart == UpInit => UpIInv
<1> SUFFICES ASSUME UpInit PROVE UpIInv OBVIOUS
<1>1. Latest = 0 BY DEF UpInit, Latest
<1>2. UpTypeOK
  <2>1. upQuality \in Seq(Qualities) /\ Latest <= MaxReleases
    BY <1>1, SelfUpdateAssumption DEF UpInit
  <2>2. NoRun \in RunsOf /\ NoHelper \in HelpersOf
    BY DEF RunsOf, HelpersOf, NoRun, NoHelper, RunSteps, HelperSteps, Products, Helpers
  <2> QED BY <2>1, <2>2 DEF UpInit, UpTypeOK
<1>3. \A u \in UpRuns : /\ upRun[u] = NoRun /\ upRun[u].at = "idle"
                        /\ upHelper[u] = NoHelper /\ upHelper[u].at = "none"
    BY DEF UpInit, NoRun, NoHelper
<1>4. Published BY <1>3 DEF Published
<1>5. UpSafe
    BY <1>3 DEF UpSafe, Checked, OneUpdate, InStep, BroughtBack, InstalledVerified, Updating, Helped,
       UpInit
<1> QED BY <1>2, <1>4, <1>5 DEF UpIInv

(* ... a step that touches a run and its download keeps it, ...             *)
LEMMA WorkKept ==
    ASSUME UpIInv, NEW u \in UpRuns, upRun[u].at \notin {"idle", "await", "quit"},
           NEW label \in {"idle", "body", "verify", "pip", "halt"},
           IF label = "idle" THEN RunEnds(u) ELSE RunTo(u, label),
           label \in {"pip", "halt"} =>
               Verified(u) /\ upFile' = upFile /\ (label = "halt" <=> OfWindow(u)),
           NEW body \in {"none", "part", "whole"},
           upFile' = upFile \/ upFile' = [upFile EXCEPT ![FileOf(u)] = body],
           UNCHANGED <<upQuality, upReady, upHelper, upApp, upTunnel, upFrozen, upForsaken,
                       upOverlap>>,
           upVersion' \in [Products -> Nat],
           upRan' \subseteq [release : Releases, whole : BOOLEAN],
           ~upOverlap /\ UpSafe => InstalledVerified'
    PROVE  UpIInv'
<1>1. UpTypeOK /\ Published BY DEF UpIInv
<1>2. /\ upRun' \in [UpRuns -> RunsOf] /\ upRun'[u].at = label
      /\ \A v \in UpRuns : v # u => upRun'[v] = upRun[v]
      /\ label = "idle" => upRun'[u] = NoRun
      /\ label # "idle" => upRun'[u].product = upRun[u].product /\ upRun'[u].release = upRun[u].release
  <2>1. CASE label = "idle" BY <1>1, <2>1, RunGone
  <2>2. CASE label # "idle" BY <1>1, <2>2, RunMoves DEF RunSteps
  <2> QED BY <2>1, <2>2
<1>3. /\ FileOf(u) \in Files
      /\ \A v \in UpRuns : v # u /\ ~(Updating(u) /\ Updating(v)) => FileOf(v) # FileOf(u)
      /\ ~Updating(u) => \A r \in Nat : <<0, r>> # FileOf(u)
    BY <1>1, FilesApart
<1>4. upFile' \in [Files -> {"none", "part", "whole"}] BY <1>1 DEF UpTypeOK
<1>5. UpTypeOK' BY <1>1, <1>2, <1>4 DEF UpTypeOK, Latest, Releases
<1>6. Published' BY <1>1, <1>2 DEF Published, Releases, Latest
<1>7. ASSUME ~upOverlap' PROVE UpSafe'
  <2>1. UpSafe /\ ~upOverlap BY <1>7 DEF UpIInv
  <2>2. \A v \in UpRuns : (Updating(v)' => Updating(v)) /\ Helped(v)' = Helped(v)
    BY <1>2 DEF Updating, Helped
  <2>3. OneUpdate' BY <2>1, <2>2 DEF UpSafe, OneUpdate
  <2>4. upHelper[u].at = "none"
    BY <2>1, <1>1 DEF UpSafe, InStep, Helped
  <2>5. InStep'
    BY <1>2, <2>1, <2>4 DEF UpSafe, InStep, Helped, Updating, OfWindow, Confirmed
  <2>6. BroughtBack' BY <2>1, <2>2 DEF UpSafe, BroughtBack
  <2>7. ASSUME NEW v \in UpRuns, upRun'[v].at \in {"pip", "halt", "spawn", "await", "quit"}
        PROVE  Verified(v)'
    <3>1. CASE v = u
      <4>1. upFile' = upFile /\ FileOf(u)' = FileOf(u) /\ Verified(u)
        BY <1>2, <2>7, <3>1 DEF FileOf, OfWindow
      <4> QED BY <1>2, <2>7, <3>1, <4>1 DEF Verified, IsWhole
    <3>2. CASE v # u
      <4>1. upRun'[v] = upRun[v] BY <1>2, <3>2
      <4>2. FileOf(v)' = FileOf(v) /\ Verified(v)
        BY <2>1, <2>7, <4>1 DEF FileOf, OfWindow, UpSafe, Checked
      <4>3. FileOf(v) # FileOf(u)
        BY <1>3, <2>1, <3>2 DEF UpSafe, OneUpdate
      <4>4. upFile'[FileOf(v)] = upFile[FileOf(v)]
        <5>1. FileOf(v) \in Files BY <1>1, <2>7, <4>1, FilesApart
        <5> QED BY <1>1, <4>3, <5>1 DEF UpTypeOK
      <4> QED BY <4>1, <4>2, <4>4 DEF Verified, IsWhole
    <3> QED BY <3>1, <3>2
  <2>8. ASSUME NEW v \in UpRuns, upHelper[v].at \in {"born", "waiting"}
        PROVE  upQuality[upHelper[v].release] = "signed" /\ upFile'[<<0,
           upHelper[v].release>>] = "whole"
    <3>1. upQuality[upHelper[v].release] = "signed" /\ upFile[<<0, upHelper[v].release>>] = "whole"
      BY <2>1, <2>8 DEF UpSafe, Checked, IsWhole
    <3>2. v # u BY <2>4, <2>8
    <3>3. ~Updating(u)
      BY <2>1, <2>8, <3>2 DEF UpSafe, OneUpdate, Helped
    <3>4. upHelper[v].release \in Releases BY <1>1, <2>8 DEF Published
    <3>5. upHelper[v].release \in 1 .. MaxReleases
      BY <1>1, <3>4, SelfUpdateAssumption DEF UpTypeOK, Releases, Latest
    <3>6. <<0, upHelper[v].release>> # FileOf(u) /\ <<0, upHelper[v].release>> \in Files
      BY <1>3, <3>3, <3>5 DEF Files
    <3> QED BY <1>1, <3>1, <3>6 DEF UpTypeOK
  <2>9. Checked' BY <2>7, <2>8 DEF Checked, IsWhole
  <2> QED BY <2>1, <2>3, <2>5, <2>6, <2>9 DEF UpSafe
<1> QED BY <1>5, <1>6, <1>7 DEF UpIInv

(* ... a step of a run that launches the installer keeps it, ...            *)
LEMMA LaunchKept ==
    ASSUME UpIInv, NEW u \in UpRuns, upRun[u].at \in {"halt", "spawn", "await"},
           upRun' \in [UpRuns -> RunsOf], upHelper' \in [UpRuns -> HelpersOf],
           \A v \in UpRuns : v # u => upRun'[v] = upRun[v] /\ upHelper'[v] = upHelper[v],
           \/ upRun'[u] = NoRun /\ upRun'[u].at = "idle"
           \/ /\ upRun'[u].at \in {"spawn", "await", "quit"}
              /\ upRun'[u].product = upRun[u].product /\ upRun'[u].release = upRun[u].release,
           \/ upHelper'[u] = upHelper[u]
           \/ upHelper'[u] = NoHelper /\ upHelper'[u].at = "none"
           \/ upHelper'[u].at = "born" /\ upHelper'[u].release = upRun[u].release,
           UpSafe => \/ /\ upRun'[u].at \in {"idle", "spawn"}
                        /\ upHelper'[u].at = "none"
                     \/ /\ upRun'[u].at = "await" /\ ~upReady'
                        /\ upHelper'[u].at = "born" /\ ~upHelper'[u].left
                     \/ /\ upRun'[u].at = "quit" /\ upHelper' = upHelper
                        /\ Confirmed(u) /\ upForsaken' = upForsaken,
           upReady' \in BOOLEAN, upReady' => upReady, upTunnel' \in BOOLEAN,
           upForsaken' \in BOOLEAN,
           UNCHANGED <<upQuality, upVersion, upFile, upApp, upFrozen, upRan, upOverlap>>
    PROVE  UpIInv'
<1>1. UpTypeOK /\ Published BY DEF UpIInv
<1>2. UpTypeOK' BY <1>1 DEF UpTypeOK, Latest, Releases
<1>3. Published' BY <1>1 DEF Published, Releases, Latest
<1>4. ASSUME ~upOverlap' PROVE UpSafe'
  <2>1. UpSafe /\ ~upOverlap BY <1>4 DEF UpIInv
  <2>2. Updating(u) BY <2>1 DEF UpSafe, InStep, Updating
  <2>3. \A v \in UpRuns : v # u => ~Updating(v) /\ ~Helped(v)
    BY <2>1, <2>2 DEF UpSafe, OneUpdate
  <2>4. \A v \in UpRuns : v # u => ~Updating(v)' /\ ~Helped(v)'
    BY <2>3 DEF Updating, Helped
  <2>5. OneUpdate' BY <2>4 DEF OneUpdate
  <2>6. upApp' # "gone" /\ BroughtBack'
    BY <2>1, <2>2 DEF UpSafe, BroughtBack
  <2>7. \A v \in UpRuns : v # u => FileOf(v)' = FileOf(v)
    BY DEF FileOf, OfWindow
  <2>8. upRun'[u].at # "idle" => Verified(u)' /\ FileOf(u)' = <<0, upRun[u].release>>
    BY <2>1, <2>2 DEF UpSafe, Checked, Verified, IsWhole, FileOf, OfWindow, Updating
  <2>9. Checked'
    <3>1. ASSUME NEW v \in UpRuns, upRun'[v].at \in {"pip", "halt", "spawn", "await", "quit"}
          PROVE  Verified(v)'
      BY <2>1, <2>7, <2>8, <3>1 DEF UpSafe, Checked, Verified, IsWhole
    <3>2. ASSUME NEW v \in UpRuns, upHelper'[v].at \in {"born", "waiting"}
          PROVE  upQuality[upHelper'[v].release] = "signed" /\ upFile[<<0,
             upHelper'[v].release>>] = "whole"
      <4>1. v = u BY <2>4, <3>2 DEF Helped
      <4>2. CASE upHelper'[u] = upHelper[u]
        BY <2>1, <3>2, <4>1, <4>2 DEF UpSafe, Checked, IsWhole
      <4>3. CASE upHelper'[u].release = upRun[u].release
        BY <2>1, <2>2, <4>1, <4>3
           DEF UpSafe, Checked, Verified, IsWhole, FileOf, OfWindow, Updating
      <4> QED BY <3>2, <4>1, <4>2, <4>3
    <3> QED BY <3>1, <3>2 DEF Checked, IsWhole
  <2>10. InStep'
    <3>1. upRun[u].product = "window" BY <2>2 DEF Updating
    <3>2. \A v \in UpRuns : v # u => (Updating(v)' = Updating(v) /\ Helped(v)' = Helped(v))
      BY DEF Updating, Helped
    <3>3. upHelper'[u].at # "none" => upHelper'[u].release = upRun[u].release
      BY <2>1, <2>2 DEF UpSafe, InStep, Updating, Helped
    <3>4. upRun'[u].at = "quit" /\ upHelper[u].at # "none" => ~upHelper[u].left
      BY <2>1, <2>2 DEF UpSafe, InStep, Updating, Helped
    <3> QED BY <2>1, <2>4, <3>1, <3>2, <3>3, <3>4 DEF UpSafe, InStep, Updating, Helped, Confirmed
  <2>11. InstalledVerified' BY <2>1 DEF UpSafe, InstalledVerified
  <2> QED BY <2>5, <2>6, <2>9, <2>10, <2>11 DEF UpSafe
<1> QED BY <1>2, <1>3, <1>4 DEF UpIInv

(* ... and so does every step.                                              *)
LEMMA UpIInvKept == UpIInv /\ [UpNext]_upVars => UpIInv'
<1> SUFFICES ASSUME UpIInv, [UpNext]_upVars PROVE UpIInv' OBVIOUS
<1>1. UpTypeOK /\ Published BY DEF UpIInv
<1>2. ASSUME NEW u \in UpRuns
      PROVE  /\ upRun[u] = NoRun <=> upRun[u].at = "idle"
             /\ upHelper[u] = NoHelper <=> upHelper[u].at = "none"
             /\ u \in InWindow <=> Updating(u)
             /\ UpdatesWindow(u) <=> Updating(u) \/ Helped(u)
  BY <1>1, <1>2, RunsAtRest
<1>3. Latest \in Nat /\ MaxReleases \in Nat
  BY <1>1, SelfUpdateAssumption DEF UpTypeOK, Latest
<1>4. ASSUME NEW u \in UpRuns
      PROVE  /\ upRun[u] \in RunsOf /\ upHelper[u] \in HelpersOf
             /\ upRun[u].at # "idle" => FileOf(u) \in Files
  BY <1>1, <1>4, FilesApart DEF UpTypeOK
<1>a. CASE UNCHANGED upVars
  BY <1>a DEF upVars, UpIInv, UpTypeOK, Published, UpSafe, Checked, OneUpdate, InStep, BroughtBack,
     InstalledVerified, Updating, Helped, Releases, Latest, Verified, IsWhole, FileOf, OfWindow,
     Confirmed
<1>b. CASE PublishRelease
  <2>1. PICK q \in Qualities : upQuality' = Append(upQuality, q)
    BY <1>b DEF PublishRelease
  <2>2. /\ upQuality' \in Seq(Qualities) /\ Len(upQuality') = Latest + 1
        /\ \A r \in Releases : upQuality'[r] = upQuality[r]
        /\ Releases \subseteq Releases'
    BY <2>1, <1>1, <1>3 DEF UpTypeOK, Releases, Latest
  <2>3. UNCHANGED <<upVersion, upRun, upFile, upReady, upHelper, upApp, upTunnel, upFrozen, upForsaken,
                    upRan, upOverlap, upAsked>>
    BY <1>b DEF PublishRelease, SameFate
  <2>4. UpTypeOK'
    <3>1. Latest' <= MaxReleases BY <1>3, <2>2, <1>b DEF PublishRelease, Latest
    <3>2. upRan' \subseteq [release : Releases', whole : BOOLEAN]
      BY <2>2, <2>3, <1>1 DEF UpTypeOK
    <3> QED BY <1>1, <2>2, <2>3, <3>1, <3>2 DEF UpTypeOK
  <2>5. Published' BY <1>1, <2>2, <2>3 DEF Published
  <2>6. ASSUME ~upOverlap' PROVE UpSafe'
    <3>1. UpSafe BY <2>3, <2>6 DEF UpIInv
    <3>2. \A u \in UpRuns : FileOf(u)' = FileOf(u)
      BY <2>3 DEF FileOf, OfWindow
    <3>3. Checked'
      BY <1>1, <2>2, <2>3, <3>1, <3>2 DEF UpSafe, Checked, Published, Verified, IsWhole
    <3>4. OneUpdate' /\ InStep' /\ BroughtBack'
      BY <2>3, <3>1 DEF UpSafe, OneUpdate, InStep, BroughtBack, Updating, Helped, OfWindow, Confirmed
    <3>5. \A f \in upRan : f.release \in Releases BY <1>1 DEF UpTypeOK
    <3>6. InstalledVerified' BY <2>2, <2>3, <3>1, <3>5 DEF UpSafe, InstalledVerified
    <3> QED BY <3>3, <3>4, <3>6 DEF UpSafe
  <2> QED BY <2>4, <2>5, <2>6 DEF UpIInv
<1>c. CASE ConnectMeanwhile
  BY <1>c DEF ConnectMeanwhile, SameFate, Confirmed, UpIInv, UpTypeOK, Published, UpSafe, Checked, OneUpdate, InStep,
     BroughtBack, InstalledVerified, Updating, Helped, Releases, Latest, Verified, IsWhole, FileOf,
     OfWindow
<1>d. ASSUME NEW u \in UpRuns, CheckForUpdate(u) PROVE UpIInv'
  <2>1. PICK p \in Products :
          /\ p = "window" => upApp = "up"
          /\ Latest > upVersion[p]
          /\ upRun' = [upRun EXCEPT ![u] = [NoRun EXCEPT !.at = "download", !.product = p,
                                                         !.release = Latest]]
          /\ upOverlap' = (upOverlap \/ (p = "window" /\ \E v \in UpRuns : UpdatesWindow(v)))
    BY <1>d DEF CheckForUpdate
  <2>2. UNCHANGED <<upQuality, upVersion, upFile, upReady, upHelper, upApp, upTunnel, upFrozen,
                    upForsaken, upRan>>
        /\ upRun[u].at = "idle" /\ upHelper[u].at = "none"
    BY <1>2, <1>d DEF CheckForUpdate, UpFree, SameFate
  <2>3. /\ upRun' \in [UpRuns -> RunsOf]
        /\ upRun'[u].at = "download" /\ upRun'[u].product = p /\ upRun'[u].release = Latest
        /\ \A v \in UpRuns : v # u => upRun'[v] = upRun[v]
    BY <1>1, <1>3, <2>1 DEF UpTypeOK, RunsOf, NoRun, RunSteps, Products, Helpers
  <2>4. Latest \in Releases
    BY <1>1, <1>3, <2>1 DEF UpTypeOK, Releases
  <2>5. UpTypeOK'
    <3>1. upOverlap' \in BOOLEAN BY <1>1, <2>1 DEF UpTypeOK
    <3> QED BY <1>1, <2>2, <2>3, <3>1 DEF UpTypeOK, Releases, Latest
  <2>6. Published' BY <1>1, <2>2, <2>3, <2>4 DEF Published, Releases, Latest
  <2>7. ASSUME ~upOverlap' PROVE UpSafe'
    <3>1. UpSafe BY <2>1, <2>7 DEF UpIInv
    <3>2. \A v \in UpRuns : p = "window" => ~Updating(v) /\ ~Helped(v)
      BY <1>2, <2>1, <2>7
    <3>3. \A v \in UpRuns : /\ Helped(v)' = Helped(v)
                            /\ v # u => Updating(v)' = Updating(v)
      BY <2>2, <2>3 DEF Updating, Helped
    <3>4. Updating(u)' <=> p = "window" BY <2>3 DEF Updating
    <3>5. OneUpdate'
      BY <2>2, <3>1, <3>2, <3>3, <3>4 DEF UpSafe, OneUpdate, Helped
    <3>6. InStep'
      BY <2>2, <2>3, <3>1, <3>2, <3>3 DEF UpSafe, InStep, Helped, Updating, Confirmed
    <3>7. BroughtBack'
      BY <2>1, <2>2, <3>1, <3>3, <3>4 DEF UpSafe, BroughtBack
    <3>8. \A v \in UpRuns : v # u => FileOf(v)' = FileOf(v)
      BY <2>3 DEF FileOf, OfWindow
    <3>9. Checked'
      BY <2>2, <2>3, <3>1, <3>8 DEF UpSafe, Checked, Verified, IsWhole
    <3>10. InstalledVerified' BY <2>2, <3>1 DEF UpSafe, InstalledVerified
    <3> QED BY <3>5, <3>6, <3>7, <3>9, <3>10 DEF UpSafe
  <2> QED BY <2>5, <2>6, <2>7 DEF UpIInv
<1>e. ASSUME NEW u \in UpRuns, BeginDownload(u) PROVE UpIInv'
  <2>1. upRan' \subseteq [release : Releases, whole : BOOLEAN] /\ upVersion' \in [Products -> Nat]
        /\ (UpSafe => InstalledVerified')
    BY <1>1, <1>e DEF UpTypeOK, BeginDownload, SameWorld, UpSafe, InstalledVerified
  <2>2. RunTo(u, "body") BY <1>e DEF BeginDownload
  <2> QED BY <1>e, <2>1, <2>2, WorkKept DEF BeginDownload, SameWorld
<1>f. ASSUME NEW u \in UpRuns, EndDownload(u) PROVE UpIInv'
  <2>1. upRan' \subseteq [release : Releases, whole : BOOLEAN] /\ upVersion' \in [Products -> Nat]
        /\ (UpSafe => InstalledVerified')
    BY <1>1, <1>f DEF UpTypeOK, EndDownload, SameWorld, UpSafe, InstalledVerified
  <2>2. CASE RunEnds(u) /\ upFile' = upFile
    BY <1>f, <2>1, <2>2, WorkKept DEF EndDownload, SameWorld
  <2>3. ASSUME RunTo(u, "verify"), NEW body \in {"part", "whole"},
               upFile' = [upFile EXCEPT ![FileOf(u)] = body]
        PROVE  UpIInv'
    BY <1>f, <2>1, <2>3, WorkKept DEF EndDownload, SameWorld
  <2> QED BY <1>f, <2>2, <2>3 DEF EndDownload
<1>g. ASSUME NEW u \in UpRuns, VerifyDownload(u) PROVE UpIInv'
  <2>1. upRan' \subseteq [release : Releases, whole : BOOLEAN] /\ upVersion' \in [Products -> Nat]
        /\ (UpSafe => InstalledVerified')
    BY <1>1, <1>g DEF UpTypeOK, VerifyDownload, SameWorld, UpSafe, InstalledVerified
  <2>2. CASE RunEnds(u)
    BY <1>g, <2>1, <2>2, WorkKept DEF VerifyDownload, SameWorld
  <2>3. CASE Verified(u) /\ OfWindow(u) /\ RunTo(u, "halt")
    BY <1>g, <2>1, <2>3, WorkKept DEF VerifyDownload, SameWorld
  <2>4. CASE Verified(u) /\ ~OfWindow(u) /\ RunTo(u, "pip")
    BY <1>g, <2>1, <2>4, WorkKept DEF VerifyDownload, SameWorld
  <2> QED BY <1>g, <2>2, <2>3, <2>4 DEF VerifyDownload
<1>h. ASSUME NEW u \in UpRuns, PipInstall(u) PROVE UpIInv'
  <2>1. upRun[u].at = "pip" /\ upRun[u] \in RunsOf /\ upRun[u].release \in Releases
    BY <1>1, <1>4, <1>h DEF PipInstall, Published
  <2>2. upVersion' \in [Products -> Nat]
    BY <1>1, <1>h, <2>1 DEF UpTypeOK, PipInstall, RunsOf
  <2>3. upRan' = upRan
          \/ upRan' = upRan \cup {[release |-> upRun[u].release, whole |-> IsWhole(FileOf(u))]}
    BY <1>h DEF PipInstall
  <2>4. upRan' \subseteq [release : Releases, whole : BOOLEAN]
    <3>1. IsWhole(FileOf(u)) \in BOOLEAN BY DEF IsWhole
    <3> QED BY <1>1, <2>1, <2>3, <3>1 DEF UpTypeOK
  <2>5. ASSUME UpSafe PROVE InstalledVerified'
    <3>1. Verified(u) BY <2>1, <2>5 DEF UpSafe, Checked
    <3>2. \A f \in upRan' : f.whole /\ upQuality[f.release] = "signed"
      BY <2>3, <2>5, <3>1 DEF UpSafe, InstalledVerified, Verified
    <3> QED BY <1>h, <3>2 DEF InstalledVerified, PipInstall
  <2> QED BY <1>h, <2>1, <2>2, <2>4, <2>5, WorkKept DEF PipInstall, SameFate
<1>i. ASSUME NEW u \in UpRuns, HaltTunnel(u) PROVE UpIInv'
  <2>1. PICK h \in Helpers : upRun' = [upRun EXCEPT ![u].at = "spawn", ![u].helper = h]
    BY <1>i DEF HaltTunnel
  <2>2. /\ upRun' \in [UpRuns -> RunsOf] /\ upRun'[u].at = "spawn"
        /\ upRun'[u].product = upRun[u].product /\ upRun'[u].release = upRun[u].release
        /\ \A v \in UpRuns : v # u => upRun'[v] = upRun[v]
    BY <1>1, <2>1 DEF UpTypeOK, RunsOf, RunSteps
  <2>3. UpSafe => upHelper[u].at = "none"
    BY <1>i DEF HaltTunnel, UpSafe, InStep, Helped
  <2> QED BY <1>1, <1>i, <2>2, <2>3, LaunchKept DEF HaltTunnel, SameWorld, UpTypeOK
<1>j. ASSUME NEW u \in UpRuns, NextHelper(u)
      PROVE  /\ upRun' \in [UpRuns -> RunsOf]
             /\ \A v \in UpRuns : v # u => upRun'[v] = upRun[v]
             /\ \/ upRun'[u] = NoRun /\ upRun'[u].at = "idle"
                \/ /\ upRun'[u].at = "spawn"
                   /\ upRun'[u].product = upRun[u].product /\ upRun'[u].release = upRun[u].release
  <2>1. CASE upRun[u].helper = "cmd"
    <3>1. upRun' = [upRun EXCEPT ![u] = [upRun[u] EXCEPT !.at = "spawn", !.helper = "powershell"]]
      BY <1>j, <2>1 DEF NextHelper
    <3> QED BY <1>1, <3>1 DEF UpTypeOK, RunsOf, RunSteps, Helpers
  <2>2. CASE upRun[u].helper # "cmd"
    <3>1. RunEnds(u) BY <1>j, <2>2 DEF NextHelper, RunEnds
    <3> QED BY <1>1, <3>1, RunGone
  <2> QED BY <2>1, <2>2
<1>k. ASSUME NEW u \in UpRuns, SpawnHelper(u) PROVE UpIInv'
  <2>1. UpSafe => upHelper[u].at = "none"
    BY <1>k DEF SpawnHelper, UpSafe, InStep, Helped
  <2>2. CASE RunTo(u, "await") /\ upHelper' = [upHelper EXCEPT ![u] =
                                     [at |-> "born", release |-> upRun[u].release, left |-> FALSE]]
    <3>1. /\ upRun' \in [UpRuns -> RunsOf] /\ upRun'[u].at = "await"
          /\ upRun'[u].product = upRun[u].product /\ upRun'[u].release = upRun[u].release
          /\ \A v \in UpRuns : v # u => upRun'[v] = upRun[v]
      BY <1>1, <2>2, RunMoves DEF RunSteps
    <3>2. upRun[u].release \in Nat BY <1>4 DEF RunsOf
    <3>3. /\ upHelper' \in [UpRuns -> HelpersOf] /\ upHelper'[u].at = "born"
          /\ upHelper'[u].release = upRun[u].release /\ ~upHelper'[u].left
          /\ \A v \in UpRuns : v # u => upHelper'[v] = upHelper[v]
      BY <1>1, <2>2, <3>2 DEF UpTypeOK, HelpersOf, HelperSteps
    <3> QED BY <1>1, <1>k, <3>1, <3>3, LaunchKept DEF SpawnHelper, SameWorld, UpTypeOK
  <2>3. CASE NextHelper(u) /\ upHelper' = upHelper
    BY <1>1, <1>j, <1>k, <2>1, <2>3, LaunchKept DEF SpawnHelper, SameWorld, UpTypeOK
  <2> QED BY <1>k, <2>2, <2>3 DEF SpawnHelper
<1>l. ASSUME NEW u \in UpRuns, AwaitHelper(u) PROVE UpIInv'
  <2>1. CASE upReady /\ RunTo(u, "quit") /\ upHelper' = upHelper
    <3>1. /\ upRun' \in [UpRuns -> RunsOf] /\ upRun'[u].at = "quit"
          /\ upRun'[u].product = upRun[u].product /\ upRun'[u].release = upRun[u].release
          /\ \A v \in UpRuns : v # u => upRun'[v] = upRun[v]
      BY <1>1, <2>1, RunMoves DEF RunSteps
    <3>2. UpSafe => Confirmed(u)
      BY <1>l, <2>1 DEF AwaitHelper, UpSafe, InStep
    <3> QED BY <1>1, <1>l, <2>1, <3>1, <3>2, LaunchKept DEF AwaitHelper, SameWorld, UpTypeOK
  <2>2. CASE NextHelper(u) /\ HelperEnds(u)
    <3>1. /\ upHelper' \in [UpRuns -> HelpersOf]
          /\ upHelper'[u] = NoHelper /\ upHelper'[u].at = "none"
          /\ \A v \in UpRuns : v # u => upHelper'[v] = upHelper[v]
      BY <1>1, <2>2, HelperGone
    <3> QED BY <1>1, <1>j, <1>l, <2>2, <3>1, LaunchKept DEF AwaitHelper, SameWorld, UpTypeOK
  <2> QED BY <1>l, <2>1, <2>2 DEF AwaitHelper
<1>m. ASSUME NEW u \in UpRuns, QuitForUpdate(u) PROVE UpIInv'
  <2>1. /\ upRun' = [v \in UpRuns |-> IF v \in InWindow THEN NoRun ELSE upRun[v]]
        /\ upHelper' = [v \in UpRuns |-> IF upHelper[v] = NoHelper THEN NoHelper
                                         ELSE [upHelper[v] EXCEPT !.left = TRUE]]
        /\ upApp' = "gone" /\ upRun[u].at = "quit"
        /\ UNCHANGED <<upQuality, upVersion, upFile, upReady, upTunnel, upFrozen, upForsaken, upRan,
                        upOverlap>>
    BY <1>m DEF QuitForUpdate, SameFate
  <2>2. NoRun \in RunsOf /\ NoRun.at = "idle" /\ NoHelper \in HelpersOf /\ NoHelper.at = "none"
    BY DEF RunsOf, HelpersOf, NoRun, NoHelper, RunSteps, HelperSteps, Products, Helpers
  <2>3. \A v \in UpRuns : IF Updating(v) THEN upRun'[v] = NoRun /\ upRun'[v].at = "idle"
                                         ELSE upRun'[v] = upRun[v]
    BY <1>2, <2>1, <2>2
  <2>4. ASSUME NEW v \in UpRuns
        PROVE  /\ upHelper'[v].at = upHelper[v].at /\ upHelper'[v].release = upHelper[v].release
               /\ upHelper[v].at # "none" => upHelper'[v].left
               /\ upHelper[v].at = "none" => upHelper'[v] = NoHelper
               /\ upHelper'[v] \in HelpersOf
    BY <1>2, <1>4, <2>1, <2>2 DEF HelpersOf
  <2>5. UpTypeOK'
    <3>1. upHelper' \in [UpRuns -> HelpersOf] BY <2>1, <2>4
    <3>2. upRun' \in [UpRuns -> RunsOf] BY <1>1, <2>1, <2>2 DEF UpTypeOK
    <3> QED BY <1>1, <2>1, <3>1, <3>2 DEF UpTypeOK, Releases, Latest
  <2>6. Published' BY <1>1, <2>1, <2>3, <2>4 DEF Published, Releases, Latest
  <2>7. ASSUME ~upOverlap' PROVE UpSafe'
    <3>1. UpSafe BY <2>1, <2>7 DEF UpIInv
    <3>2. Updating(u) /\ Confirmed(u)
      BY <2>1, <3>1 DEF UpSafe, InStep, Updating
    <3>3. \A v \in UpRuns : v # u => ~Updating(v) /\ ~Helped(v)
      BY <3>1, <3>2 DEF UpSafe, OneUpdate
    <3>4. \A v \in UpRuns : ~Updating(v)' /\ (Helped(v)' => v = u)
      BY <2>3, <2>4, <3>3 DEF Updating, Helped
    <3>5. OneUpdate' BY <3>4 DEF OneUpdate
    <3>6. upHelper'[u].at = "waiting" \/ (upHelper'[u].at = "none" /\ upForsaken')
      BY <2>1, <2>4, <3>2 DEF Confirmed
    <3>7. BroughtBack' BY <3>4, <3>6 DEF BroughtBack
    <3>8. InStep'
      <4>1. \A v \in UpRuns : v # u => upRun'[v] = upRun[v] /\ upHelper'[v].at = "none"
        BY <2>3, <2>4, <3>3 DEF Helped
      <4>2. upRun'[u].at = "idle" /\ (upHelper'[u].at # "none" => upHelper'[u].left)
        BY <2>3, <2>4, <3>2
      <4> QED BY <2>1, <3>1, <3>2, <3>4, <3>6, <4>1, <4>2 DEF UpSafe, InStep, Helped, Confirmed
    <3>9. Checked'
      <4>1. ASSUME NEW v \in UpRuns, upRun'[v].at \in {"pip", "halt", "spawn", "await", "quit"}
            PROVE  Verified(v)'
        <5>1. upRun'[v] = upRun[v] BY <2>3, <4>1
        <5>2. FileOf(v)' = FileOf(v) BY <5>1 DEF FileOf, OfWindow
        <5> QED BY <2>1, <3>1, <4>1, <5>1, <5>2 DEF UpSafe, Checked, Verified, IsWhole
      <4>2. ASSUME NEW v \in UpRuns, upHelper'[v].at \in {"born", "waiting"}
            PROVE  upQuality'[upHelper'[v].release] = "signed" /\ IsWhole(<<0, upHelper[v].release>>)'
        <5>1. upHelper[v].at \in {"born", "waiting"} /\ upHelper'[v].release = upHelper[v].release
          BY <2>4, <4>2
        <5> QED BY <2>1, <3>1, <5>1 DEF UpSafe, Checked, IsWhole
      <4> QED BY <4>1, <4>2 DEF Checked
    <3>10. InstalledVerified' BY <2>1, <3>1 DEF UpSafe, InstalledVerified
    <3> QED BY <3>5, <3>7, <3>8, <3>9, <3>10 DEF UpSafe
  <2> QED BY <2>5, <2>6, <2>7 DEF UpIInv
<1>n. ASSUME NEW u \in UpRuns, HelperReports(u) PROVE UpIInv'
  <2>1. /\ UNCHANGED <<upQuality, upVersion, upRun, upFile, upApp, upTunnel, upFrozen, upForsaken,
                        upRan, upOverlap>>
        /\ upHelper[u].at = "born"
    BY <1>n DEF HelperReports, SameWorld
  <2>2. /\ upHelper' \in [UpRuns -> HelpersOf]
        /\ \A v \in UpRuns : v # u => upHelper'[v] = upHelper[v]
        /\ \/ /\ upHelper'[u].at = "waiting" /\ upHelper'[u].release = upHelper[u].release
              /\ upHelper'[u].left = upHelper[u].left
           \/ upHelper'[u] = NoHelper /\ upHelper'[u].at = "none" /\ upReady' = upReady
        /\ upReady' \in BOOLEAN
    <3>1. CASE HelperTo(u, "waiting") /\ upReady' = TRUE
      BY <1>1, <3>1, HelperMoves DEF HelperSteps
    <3>2. CASE HelperEnds(u) /\ upReady' = upReady
      BY <1>1, <3>2, HelperGone DEF UpTypeOK
    <3> QED BY <1>n, <3>1, <3>2 DEF HelperReports
  <2>3. UpTypeOK' BY <1>1, <2>1, <2>2 DEF UpTypeOK, Latest, Releases
  <2>4. Published' BY <1>1, <2>1, <2>2 DEF Published, Latest, Releases
  <2>5. ASSUME ~upOverlap' PROVE UpSafe'
    <3>1. UpSafe BY <2>1, <2>5 DEF UpIInv
    <3>2. /\ Updating(u) /\ upRun[u].at \in {"await", "quit"} /\ ~upHelper[u].left
          /\ upHelper[u].release = upRun[u].release
          /\ upRun[u].at = "await" /\ ~upReady
      BY <2>1, <3>1 DEF UpSafe, InStep, Helped, Confirmed
    <3>3. \A v \in UpRuns : v # u => ~Updating(v) /\ ~Helped(v)
      BY <3>1, <3>2 DEF UpSafe, OneUpdate
    <3>4. \A v \in UpRuns : v # u => ~Updating(v)' /\ ~Helped(v)'
      BY <2>1, <2>2, <3>3 DEF Updating, Helped
    <3>5. OneUpdate' BY <3>4 DEF OneUpdate
    <3>6. BroughtBack' BY <2>1, <3>1, <3>2 DEF UpSafe, BroughtBack
    <3>7. Updating(u)' BY <2>1, <3>2 DEF Updating
    <3>8. InStep'
      BY <2>1, <2>2, <3>1, <3>2, <3>4, <3>7 DEF UpSafe, InStep, Helped, Updating, Confirmed
    <3>9. Checked'
      <4>1. \A v \in UpRuns : Verified(v)' = Verified(v)
        BY <2>1 DEF Verified, IsWhole, FileOf, OfWindow
      <4>2. \A v \in UpRuns : upHelper'[v].at \in {"born", "waiting"} =>
                /\ upHelper[v].at \in {"born", "waiting"}
                /\ upHelper'[v].release = upHelper[v].release
        BY <2>1, <2>2
      <4> QED BY <2>1, <3>1, <4>1, <4>2 DEF UpSafe, Checked, IsWhole
    <3>10. InstalledVerified' BY <2>1, <3>1 DEF UpSafe, InstalledVerified
    <3> QED BY <3>5, <3>6, <3>8, <3>9, <3>10 DEF UpSafe
  <2> QED BY <2>3, <2>4, <2>5 DEF UpIInv
<1>o. ASSUME NEW u \in UpRuns, HelperInstalls(u) PROVE UpIInv'
  <2>1. /\ UNCHANGED <<upQuality, upRun, upFile, upReady, upTunnel, upForsaken, upOverlap>>
        /\ upHelper[u].at = "waiting" /\ upHelper[u].left
    BY <1>o DEF HelperInstalls
  <2>2. /\ upHelper' \in [UpRuns -> HelpersOf]
        /\ \A v \in UpRuns : v # u => upHelper'[v] = upHelper[v]
        /\ upHelper'[u].at = "installing" /\ upHelper'[u].release = upHelper[u].release
        /\ upHelper'[u].left
    BY <1>1, <1>o, <2>1, HelperMoves DEF HelperInstalls, HelperSteps
  <2> DEFINE release == upHelper[u].release
             whole == IsWhole(<<0, release>>)
  <2>3. release \in Releases /\ release \in Nat /\ whole \in BOOLEAN
    BY <1>1, <1>4, <2>1 DEF Published, HelpersOf, IsWhole
  <2>4. \/ UNCHANGED <<upVersion, upApp, upFrozen, upRan>>
        \/ /\ upRan' = upRan \cup {[release |-> release, whole |-> whole]}
           /\ upVersion' = IF whole THEN [upVersion EXCEPT !["window"] = release] ELSE upVersion
           /\ upApp' \in IF whole THEN {"up", "gone"} ELSE {upApp}
           /\ upFrozen' = (upFrozen \/ (whole /\ upApp' = "up"))
    BY <1>o DEF HelperInstalls
  <2> HIDE DEF release, whole
  <2>5. /\ upVersion' \in [Products -> Nat] /\ upApp' \in {"up", "gone"} /\ upFrozen' \in BOOLEAN
        /\ upRan' \subseteq [release : Releases, whole : BOOLEAN]
    BY <1>1, <2>3, <2>4 DEF UpTypeOK
  <2>6. UpTypeOK' BY <1>1, <2>1, <2>2, <2>5 DEF UpTypeOK, Latest, Releases
  <2>7. Published' BY <1>1, <2>1, <2>2, <2>3 DEF Published, Latest, Releases, release
  <2>8. ASSUME ~upOverlap' PROVE UpSafe'
    <3>1. UpSafe BY <2>1, <2>8 DEF UpIInv
    <3>2. upRun[u].at = "idle"
      BY <2>1, <3>1 DEF UpSafe, InStep, Helped
    <3>3. \A v \in UpRuns : ~Updating(v) /\ (v # u => ~Helped(v))
      BY <2>1, <3>1, <3>2 DEF UpSafe, OneUpdate, Helped, Updating
    <3>4. \A v \in UpRuns : ~Updating(v)' /\ (v # u => ~Helped(v)')
      BY <2>1, <2>2, <3>3 DEF Updating, Helped
    <3>5. OneUpdate' BY <3>4 DEF OneUpdate
    <3>6. BroughtBack' BY <2>2, <3>4 DEF BroughtBack
    <3>7. InStep'
      BY <2>1, <2>2, <3>1, <3>2, <3>4 DEF UpSafe, InStep, Helped, Confirmed
    <3>8. Checked'
      BY <2>1, <2>2, <3>1 DEF UpSafe, Checked, Verified, IsWhole, FileOf, OfWindow
    <3>9. whole /\ upQuality[release] = "signed"
      BY <2>1, <3>1 DEF UpSafe, Checked, whole, release
    <3>10. InstalledVerified' BY <2>1, <2>4, <3>1, <3>9 DEF UpSafe, InstalledVerified
    <3> QED BY <3>5, <3>6, <3>7, <3>8, <3>10 DEF UpSafe
  <2> QED BY <2>6, <2>7, <2>8 DEF UpIInv
<1>p. ASSUME NEW u \in UpRuns, HelperRestarts(u) \/ HelperKilled(u) PROVE UpIInv'
  <2>1. /\ UNCHANGED <<upQuality, upVersion, upRun, upFile, upReady, upTunnel, upFrozen, upRan,
                        upOverlap>>
        /\ upHelper[u].at \in {"waiting", "installing"} /\ upApp' \in {"up", "gone"}
        /\ upApp' = "gone" => upApp = "gone" /\ upForsaken'
        /\ upForsaken' \in BOOLEAN /\ (upForsaken => upForsaken')
        /\ upHelper[u].at = "waiting" => upForsaken'
    BY <1>1, <1>p DEF HelperRestarts, HelperKilled, SameWorld, UpTypeOK
  <2>2. /\ upHelper' \in [UpRuns -> HelpersOf]
        /\ upHelper'[u] = NoHelper /\ upHelper'[u].at = "none"
        /\ \A v \in UpRuns : v # u => upHelper'[v] = upHelper[v]
    BY <1>1, <1>p, HelperGone DEF HelperRestarts, HelperKilled
  <2>3. UpTypeOK' BY <1>1, <2>1, <2>2 DEF UpTypeOK, Latest, Releases
  <2>4. Published' BY <1>1, <2>1, <2>2 DEF Published, Latest, Releases
  <2>5. ASSUME ~upOverlap' PROVE UpSafe'
    <3>1. UpSafe BY <2>1, <2>5 DEF UpIInv
    <3>2. OneUpdate' BY <2>1, <2>2, <3>1 DEF UpSafe, OneUpdate, Updating, Helped
    <3>3. upRun[u].at \in {"await", "quit"} => upHelper[u].at = "waiting"
      BY <2>1, <3>1 DEF UpSafe, InStep, Helped
    <3>4. InStep'
      BY <2>1, <2>2, <3>1, <3>3 DEF UpSafe, InStep, Helped, Updating, Confirmed
    <3>5. Checked'
      BY <2>1, <2>2, <3>1 DEF UpSafe, Checked, Verified, IsWhole, FileOf, OfWindow
    <3>6. BroughtBack' BY <2>1, <3>1 DEF UpSafe, BroughtBack, Updating
    <3> QED BY <2>1, <3>1, <3>2, <3>4, <3>5, <3>6 DEF UpSafe, InstalledVerified
  <2> QED BY <2>3, <2>4, <2>5 DEF UpIInv
<1> QED
  BY <1>a, <1>b, <1>c, <1>d, <1>e, <1>f, <1>g, <1>h, <1>i, <1>k, <1>l, <1>m, <1>n, <1>o, <1>p
     DEF UpNext

(* The invariant of the updater (api.py: the download, the check and the *)
(* launch of the installer; updater.py: the helper that outlives the     *)
(* window).                                                              *)
THEOREM UpdateInv == UpSpec => []UpIInv
<1> QED BY UpAtStart, UpIInvKept, PTL DEF UpSpec

(* Nothing is installed but whole assets of releases whose manifest is   *)
(* signed and names them, whatever is published and however downloads    *)
(* break; unless an update of the window has met another one.            *)
THEOREM InstallsVerified == UpSpec => []UpInstallsVerified
<1>1. UpIInv => UpInstallsVerified
  BY DEF UpIInv, UpSafe, InstalledVerified, UpInstallsVerified
<1> QED BY UpdateInv, <1>1, PTL

(* A client that has quit for an update has a helper at work that has    *)
(* said that it runs, or that one has come to grief after it had (it was *)
(* killed, the client did not start, or it did not know what to start),  *)
(* unless two updates have met.                                          *)
THEOREM ComesBack == UpSpec => []UpComesBack
<1>1. UpIInv => UpComesBack
  BY DEF UpIInv, UpSafe, BroughtBack, UpComesBack
<1> QED BY UpdateInv, <1>1, PTL

-----------------------------------------------------------------------------
(* The removal.                                                          *)

\* What a client and its link may be.
ClientSteps == {"none", "dialling", "connected", "engaging", "allowing", "scoping", "blocking",
                "quitting"}
Links == [up : BOOLEAN, marked : BOOLEAN, hung : BOOLEAN]

\* Which values the variables take.
ChTypeOK ==
    /\ chKind \in {"linux", "windows"} /\ chKnown \in BOOLEAN /\ chGuard \in BOOLEAN
    /\ chWall \subseteq Rules \union {"block"} /\ chLink \in Links
    /\ chFiles \subseteq {"config", "shortcuts", "prefix", "helper"}
    /\ chClient \in ClientSteps
    /\ chJob \in [done : 0 .. 7, warned : BOOLEAN] /\ chMet \in BOOLEAN

\* A file stays until the step that removes it, and the step warns when it does not.
FilesInStep ==
    /\ chJob.done < 4 => "config" \in chFiles
    /\ chJob.done < 6 => CanAct
    /\ chJob.done < 7 => "prefix" \in chFiles
    /\ ~chJob.warned => /\ chJob.done >= 4 /\ chKnown => "config" \notin chFiles
                        /\ chJob.done >= 5 => "shortcuts" \notin chFiles
                        /\ chJob.done >= 6 => "helper" \notin chFiles

\* Unless a client lived on, there is none after the first step, and nothing to
\* engage the switch or to bring the tunnel up.
TakenAway ==
    ~chMet => /\ chJob.done >= 1 => chClient = "none" /\ chWall = {}
              /\ chJob.done >= 2 /\ chKnown /\ chLink.up => chLink.hung

\* The invariant of the removal.
ChIInv == ChTypeOK /\ FilesInStep /\ TakenAway

-----------------------------------------------------------------------------
(* The position of each step.                                              *)
LEMMA StepPlaces ==
    ASSUME chJob.done \in 0 .. 7
    PROVE  /\ AtStep("release") => chJob.done = 0
           /\ AtStep("link") => chJob.done = 1
           /\ AtStep("kill") => chJob.done = 2
           /\ AtStep("config") => chJob.done = 3
           /\ AtStep("shortcuts") => chJob.done = 4
           /\ AtStep("helper") => chJob.done = 5
           /\ AtStep("prefix") => chJob.done = 6
           /\ Finished => chJob.done = 7
<1>1. /\ Len(UnSteps) = 7
      /\ UnSteps[1] = "release" /\ UnSteps[2] = "link" /\ UnSteps[3] = "kill"
      /\ UnSteps[4] = "config" /\ UnSteps[5] = "shortcuts" /\ UnSteps[6] = "helper"
      /\ UnSteps[7] = "prefix"
  BY DEF UnSteps
<1>2. chJob.done \in {0, 1, 2, 3, 4, 5, 6, 7} OBVIOUS
<1> QED BY <1>1, <1>2 DEF AtStep, Finished

(* What tearing the link down may leave.                                   *)
LEMMA DownsLeave ==
    ASSUME chLink \in Links
    PROVE  /\ \A link \in Downs : /\ link \in Links
                                  /\ CanAct /\ link.up => link.hung
                                  /\ link.up => link.hung \/ link = chLink
           /\ \A link \in Tidied : link \in Links /\ (link.up => link.hung \/ link = chLink)
<1>1. \A link \in Downs : \/ link = [up |-> FALSE, marked |-> FALSE, hung |-> FALSE]
                          \/ link = [up |-> TRUE, marked |-> FALSE, hung |-> TRUE]
                          \/ ~CanAct /\ link = chLink
  BY DEF Downs
<1>2. \A link \in Downs : /\ link \in Links
                          /\ CanAct /\ link.up => link.hung
                          /\ link.up => link.hung \/ link = chLink
  <2> TAKE link \in Downs
  <2>1. CASE link = [up |-> FALSE, marked |-> FALSE, hung |-> FALSE]
    BY <2>1 DEF Links
  <2>2. CASE link = [up |-> TRUE, marked |-> FALSE, hung |-> TRUE]
    BY <2>2 DEF Links
  <2>3. CASE ~CanAct /\ link = chLink BY <2>3
  <2> QED BY <1>1, <2>1, <2>2, <2>3
<1>3. \A link \in Tidied : link \in Downs \/ link = chLink BY DEF Tidied
<1> QED BY <1>2, <1>3

(* Before the removal all files are there.                               *)
LEMMA ChAtStart == ChInit => ChIInv
<1> SUFFICES ASSUME ChInit PROVE ChIInv OBVIOUS
<1>1. chLink \in Links /\ ~chLink.up BY DEF ChInit, Links
<1>2. chJob \in [done : 0 .. 7, warned : BOOLEAN] /\ chJob.done = 0 BY DEF ChInit
<1>3. ChTypeOK BY <1>1, <1>2 DEF ChInit, ChTypeOK, ClientSteps
<1>4. FilesInStep BY <1>2 DEF ChInit, FilesInStep, CanAct, Windows
<1> QED BY <1>1, <1>2, <1>3, <1>4 DEF ChIInv, TakenAway

(* A client that runs (the removal has then not begun, or chMet says that  *)
(* it met one) may do what it likes to the link, the rules and itself.     *)
LEMMA WhileClientRuns ==
    ASSUME ChIInv, UNCHANGED <<chUser, chFiles, chJob, chMet>>,
           chClient \in ClientSteps \ {"none"}, chClient' \in ClientSteps,
           chLink' \in Links, chWall' \subseteq Rules \union {"block"}
    PROVE  ChIInv'
<1>1. chJob.done \in 0 .. 7 BY DEF ChIInv, ChTypeOK
<1>2. ChTypeOK' BY DEF ChIInv, ChTypeOK, chUser
<1>3. FilesInStep' BY DEF ChIInv, FilesInStep, CanAct, Windows, chUser
<1>4. ASSUME ~chMet' PROVE ~(chJob'.done >= 1) /\ ~(chJob'.done >= 2)
  <2>1. ~(chJob.done >= 1) BY <1>4 DEF ChIInv, TakenAway
  <2> QED BY <1>1, <2>1
<1>5. TakenAway' BY <1>4 DEF TakenAway
<1> QED BY <1>2, <1>3, <1>5 DEF ChIInv

(* Every step keeps the invariant: of the removal, of the clients that   *)
(* start, run and die beside it, and of what they leave in the system.   *)
LEMMA ChIInvKept == ChIInv /\ [ChNext]_chVars => ChIInv'
<1> SUFFICES ASSUME ChIInv, [ChNext]_chVars PROVE ChIInv' OBVIOUS
<1> USE DEF ChIInv
<1>1. chJob.done \in 0 .. 7 /\ chLink \in Links BY DEF ChTypeOK
<1>2. Released \subseteq chWall BY DEF Released
<1>a. CASE UNCHANGED chVars
  BY <1>a DEF chVars, chUser, ChTypeOK, FilesInStep, TakenAway, CanAct, Windows
<1>b. CASE ClientStarts
  <2>1. chLink' \in Links BY <1>1, <1>b, DownsLeave DEF ClientStarts
  <2>2. chWall' \subseteq chWall BY <1>2, <1>b DEF ClientStarts
  <2>3. UNCHANGED <<chKind, chKnown, chGuard, chFiles, chJob>> /\ chClient' = "dialling"
        /\ chMet' = (chMet \/ chJob.done > 0)
    BY <1>b DEF ClientStarts, chUser
  <2>4. ChTypeOK' BY <2>1, <2>2, <2>3 DEF ChTypeOK, ClientSteps
  <2>5. FilesInStep' BY <2>3 DEF FilesInStep, CanAct, Windows
  <2>6. ASSUME ~chMet' PROVE ~(chJob'.done >= 1)
    <3>1. ~(chJob.done > 0) BY <2>3, <2>6
    <3> QED BY <1>1, <2>3, <3>1
  <2>7. TakenAway' BY <1>1, <2>3, <2>6 DEF TakenAway
  <2> QED BY <2>4, <2>5, <2>7
<1>c. CASE Connected
  <2>1. chLink' \in Links BY <1>c DEF Connected, Links
  <2>2. chWall' \subseteq chWall BY <1>2, <1>c DEF Connected
  <2> QED BY <1>c, <2>1, <2>2, WhileClientRuns DEF Connected, ChTypeOK, ClientSteps
<1>d. CASE LinkLost
  <2>1. chLink' \in Links BY <1>1, <1>d, DownsLeave DEF LinkLost
  <2>2. chClient' \in ClientSteps BY <1>d DEF LinkLost, ClientSteps
  <2> QED BY <1>d, <2>1, <2>2, WhileClientRuns DEF LinkLost, ChTypeOK, ClientSteps
<1>e. CASE EngageHelper
  BY <1>1, <1>e, WhileClientRuns DEF EngageHelper, ChTypeOK, ClientSteps
<1>f. CASE EngageNetsh
  <2>1. chClient \in ClientSteps \ {"none"} /\ chClient' \in ClientSteps
    BY <1>f DEF EngageNetsh, ClientSteps
  <2>2. chWall' \subseteq Rules \union {"block"}
    BY <1>f DEF EngageNetsh, ChTypeOK, Rules
  <2> QED BY <1>1, <1>f, <2>1, <2>2, WhileClientRuns DEF EngageNetsh
<1>g. CASE ClientQuits
  <2>1. chLink' \in Links BY <1>1, <1>g, DownsLeave DEF ClientQuits
  <2> QED BY <1>2, <1>g, <2>1, WhileClientRuns DEF ClientQuits, ChTypeOK, ClientSteps
<1>h. CASE ClientDies
  BY <1>1, <1>h, WhileClientRuns DEF ClientDies, ChTypeOK, ClientSteps
<1>i. CASE Reboots
  <2>1. chLink' \in Links BY <1>1, <1>i DEF Reboots, Links
  <2> QED BY <1>1, <1>i, <2>1
         DEF Reboots, chUser, ChTypeOK, FilesInStep, TakenAway, CanAct, Windows, ClientSteps
<1>j. CASE RecoverTunnel
  <2>1. chLink' \in Links /\ (chLink'.up => chLink'.hung \/ chLink' = chLink)
    BY <1>1, <1>j, DownsLeave DEF RecoverTunnel
  <2> QED BY <1>1, <1>j, <2>1
         DEF RecoverTunnel, chUser, ChTypeOK, FilesInStep, TakenAway, CanAct, Windows
<1>3. ASSUME Onwards, chJob.done < 7
      PROVE  chJob' \in [done : 0 .. 7, warned : BOOLEAN]
             /\ chJob'.done = chJob.done + 1 /\ chJob'.warned = chJob.warned
  BY <1>3 DEF Onwards, ChTypeOK
<1>k. CASE UnRelease
  <2>1. chJob.done = 0 BY <1>1, <1>k, StepPlaces DEF UnRelease
  <2>2. Released = {} BY <2>1 DEF FilesInStep, Released
  <2>3. /\ UNCHANGED <<chKind, chKnown, chGuard, chLink, chFiles, chClient>> /\ chWall' = {}
        /\ chMet' = (chMet \/ chClient # "none")
        /\ chJob' \in [done : 0 .. 7, warned : BOOLEAN]
        /\ chJob'.done = 1 /\ chJob'.warned = chJob.warned
    BY <1>3, <1>k, <2>1, <2>2 DEF UnRelease, chUser
  <2>4. ChTypeOK' BY <2>3 DEF ChTypeOK
  <2>5. FilesInStep' BY <2>1, <2>3 DEF FilesInStep, CanAct, Windows
  <2>6. ASSUME ~chMet' PROVE chClient' = "none" BY <2>3, <2>6
  <2>7. TakenAway' BY <2>3, <2>6 DEF TakenAway
  <2> QED BY <2>4, <2>5, <2>7
<1>l. CASE UnLink
  <2>1. chJob.done = 1 BY <1>1, <1>l, StepPlaces DEF UnLink
  <2>2. chLink' \in Links /\ (chKnown /\ chLink'.up => chLink'.hung)
    BY <1>1, <1>l, <2>1, DownsLeave DEF UnLink, FilesInStep
  <2> QED BY <1>1, <1>3, <1>l, <2>1, <2>2
         DEF UnLink, chUser, ChTypeOK, FilesInStep, TakenAway, CanAct, Windows
<1>m. CASE UnKill
  <2>1. chJob.done = 2 BY <1>1, <1>m, StepPlaces DEF UnKill
  <2> QED BY <1>1, <1>3, <1>m, <2>1
         DEF UnKill, chUser, ChTypeOK, FilesInStep, TakenAway, CanAct, Windows, ClientSteps
<1>n. ASSUME NEW what \in {"config", "shortcuts", "helper"}, UnRemove(what) PROVE ChIInv'
  <2>1. /\ what = "config" => chJob.done = 3
        /\ what = "shortcuts" => chJob.done = 4
        /\ what = "helper" => chJob.done = 5
    BY <1>1, <1>n, StepPlaces DEF UnRemove
  <2>2. /\ chJob' \in [done : 0 .. 7, warned : BOOLEAN] /\ chJob'.done = chJob.done + 1
        /\ \/ chFiles' = (IF what = "config" /\ ~chKnown THEN chFiles ELSE chFiles \ {what})
              /\ chJob'.warned = chJob.warned
           \/ chFiles' = chFiles /\ chJob'.warned
    <3>1. CASE Onwards /\ chFiles' = IF what = "config" /\ ~chKnown THEN chFiles
                                     ELSE chFiles \ {what}
      BY <1>1, <1>3, <2>1, <3>1
    <3>2. CASE chFiles' = chFiles /\ chJob' = [done |-> chJob.done + 1, warned |-> TRUE]
      BY <1>1, <2>1, <3>2
    <3> QED BY <1>n, <3>1, <3>2 DEF UnRemove
  <2>3. UNCHANGED <<chKind, chKnown, chGuard, chWall, chLink, chClient, chMet>>
    BY <1>n DEF UnRemove, chUser
  <2>4. ChTypeOK' BY <2>2, <2>3 DEF ChTypeOK
  <2>5. FilesInStep'
    <3>1. CASE what = "config"
      BY <2>1, <2>2, <2>3, <3>1 DEF FilesInStep, CanAct, Windows
    <3>2. CASE what = "shortcuts"
      BY <2>1, <2>2, <2>3, <3>2 DEF FilesInStep, CanAct, Windows
    <3>3. CASE what = "helper"
      BY <2>1, <2>2, <2>3, <3>3 DEF FilesInStep, CanAct, Windows
    <3> QED BY <3>1, <3>2, <3>3
  <2>6. TakenAway' BY <1>1, <2>1, <2>2, <2>3 DEF TakenAway
  <2> QED BY <2>4, <2>5, <2>6
<1>o. CASE UnSchedule
  <2>1. chJob.done = 6 BY <1>1, <1>o, StepPlaces DEF UnSchedule
  <2>2. /\ chJob' \in [done : 0 .. 7, warned : BOOLEAN] /\ chJob'.done = 7
        /\ chJob'.warned \/ chJob'.warned = chJob.warned
    <3>1. CASE Onwards BY <1>3, <2>1, <3>1
    <3>2. CASE chJob' = [done |-> chJob.done + 1, warned |-> TRUE] BY <2>1, <3>2
    <3> QED BY <1>o, <3>1, <3>2 DEF UnSchedule
  <2> QED BY <1>1, <1>o, <2>1, <2>2
         DEF UnSchedule, chUser, ChTypeOK, FilesInStep, TakenAway, CanAct, Windows
<1>p. CASE DeferredCleanup
  <2>1. chJob.done = 7 BY <1>1, <1>p, StepPlaces DEF DeferredCleanup
  <2> QED BY <1>1, <1>p, <2>1
         DEF DeferredCleanup, chUser, ChTypeOK, FilesInStep, TakenAway, CanAct, Windows
<1> QED
  BY <1>a, <1>b, <1>c, <1>d, <1>e, <1>f, <1>g, <1>h, <1>i, <1>j, <1>k, <1>l, <1>m, <1>n, <1>o, <1>p
     DEF ChNext

(* The invariant of the removal (uninstall.py; the bridge and the        *)
(* platforms behind the clients it meets).                               *)
THEOREM UninstallInv == ChSpec => []ChIInv
<1> QED BY ChAtStart, ChIInvKept, PTL DEF ChSpec

(* A finished uninstall leaves no firewall rule, no tunnel of the        *)
(* profile it found unless that would not stop, and no file not warned   *)
(* of; unless a client outlived its first step (uninstall.py).           *)
THEOREM LeavesOnline == ChSpec => []UnLeavesOnline
<1>1. ChIInv => UnLeavesOnline
  <2> SUFFICES ASSUME ChIInv, Finished, ~chMet PROVE UnLeavesOnline BY DEF UnLeavesOnline
  <2>1. chJob.done = 7 BY StepPlaces DEF ChIInv, ChTypeOK
  <2> QED BY <2>1 DEF ChIInv, ChTypeOK, FilesInStep, TakenAway, UnLeavesOnline
<1> QED BY UninstallInv, <1>1, PTL
=============================================================================
