------------------------- MODULE ServerPartsSafety -------------------------
(***************************************************************************)
(* Theorems about parts of the server: what a stop of its manager leaves   *)
(* behind (ServerManager), what the logs screen shows (LogWatch), and what *)
(* is told of the traffic (TrafficHistory).                                *)
(*                                                                         *)
(* SmStoppedClean speaks of a server that is stopped with nothing under    *)
(* way.  That nothing is left then depends on everything a stop and a      *)
(* start do before: SmIInv says who may own the transport, its scheduler   *)
(* and its listener at every step of either, as long as no two of them     *)
(* have met, and gives up the parts the code does not keep once they have. *)
(* LwShowsAll speaks of the lines still in the buffer: LwIInv adds what    *)
(* the buffer holds, and that the screen has them in order.                *)
(* TrTellsTruth speaks of sums over tables: the section on sums says what  *)
(* such a sum is by induction on the set it runs over, in the form of a    *)
(* least set for which it would be wrong; TrIInv adds what rows may be in  *)
(* the table and in the hands of the scheduler.                            *)
(***************************************************************************)
EXTENDS ServerManager, LogWatch, TrafficHistory,
        SequenceTheorems, FiniteSetTheorems, WellFoundedInduction, TLAPS

-----------------------------------------------------------------------------
(* The server's transport: what a stop leaves behind.                      *)

\* What a start is at, and the process it has spawned.
StarterRecord == [at : StarterLabels, made : Nat]

\* Which values the variables take.
SmTypeOK ==
    /\ smStarter \in [Starters -> StarterRecord]
    /\ smPc \in [SmThreads -> SmLabels] /\ smGrip \in [SmThreads -> Nat]
    /\ smProcs \in [Spawns -> {"none", "up", "dead"}] /\ smHandle \in Nat
    /\ smSchedule \in [handle : Nat, alive : SUBSET Nat]
    /\ smListen \in [handle : Nat, bound : Nat]
    /\ smState \in {"stopped", "starting", "running", "error"}

\* A thread past the first statement of stop(), and past the second.
Signalled == {"take", "kill", "unwire", "settle", "restart"}
Taken == {"kill", "unwire", "settle", "restart"}
StopOn == \E c \in SmThreads : smPc[c] \in Signalled
Emptying == \E c \in SmThreads : smPc[c] \in Taken

\* A start that has not yet spawned its wstunnel.
Unspawned == \E s \in Starters : smStarter[s].at \in {"wire", "spawn"}

\* Nothing runs beside the server that the manager does not refer to.
Referred ==
    /\ \A c \in SmThreads : smGrip[c] # 0 => smPc[c] = "kill"
    /\ ~smMet => \A i \in Spawns :
          smProcs[i] = "up" => i = smHandle \/ \E c \in SmThreads : smGrip[c] = i

\* Stops and starts that have not met exclude each other.
Exclusive ==
    ~smMet =>
        /\ \A r, s \in Starters : smStarter[r].at # "off" /\ smStarter[s].at # "off" => r = s
        /\ \A c, d \in SmThreads : smPc[c] \in Signalled /\ smPc[d] \in Signalled => c = d
        /\ SmStarting => ~StopOn /\ smState # "stopped"
        /\ Unspawned => smState = "starting"

\* Before the process is launched none of its threads does anything.
Launched == smHost = "none" => \A c \in SmThreads : smPc[c] = "idle"

\* No process behind the handle where a start may forget it, no handle where
\* the transport is stopped.
HandleFree ==
    ~smMet =>
        /\ smState = "error" \/ Unspawned => smHandle \notin Spawns \/ smProcs[smHandle] # "up"
        /\ smState = "stopped" \/ Emptying => smHandle = 0

\* The scheduler and the listener that run are the ones referred to, and none
\* runs where the server is stopped, being stopped or started.
Attended ==
    ~smMet /\ ~smRevived =>
        /\ smSchedule.alive \subseteq {smSchedule.handle}
        /\ smListen.bound \in {0, smListen.handle}
        /\ smState = "stopped" \/ SmStarting \/ StopOn
              => smSchedule.alive = {} /\ smListen.bound = 0

\* What the manager keeps at every step, and with the launch the whole
\* invariant.
SmSafe == Referred /\ Exclusive /\ HandleFree /\ Attended
SmWell == SmTypeOK /\ SmSafe
SmIInv == SmWell /\ Launched

(* Before the launch there is nothing to keep.                           *)
LEMMA SmAtStart == SmInit => SmIInv
<1> SUFFICES ASSUME SmInit PROVE SmIInv OBVIOUS
<1> USE DEF SmInit
<1>1. SmTypeOK BY DEF SmTypeOK, StarterRecord, StarterLabels, SmLabels
<1>2. ~SmStarting /\ ~StopOn /\ ~Emptying /\ ~Unspawned
  BY DEF SmStarting, StopOn, Emptying, Unspawned, Signalled, Taken
<1>3. SmSafe
  BY <1>2 DEF SmSafe, Referred, Exclusive, HandleFree, Attended, Signalled
<1> QED BY <1>1, <1>3 DEF SmIInv, SmWell, Launched

-----------------------------------------------------------------------------
\* What the manager owns and how far stops and starts are: unchanged.
SmView == <<smState, smHandle, smProcs, smSchedule, smListen, smStarter, smGrip, smMet, smRevived>>

(* The labels of a thread, and which of them are inside stop().          *)
LEMMA LabelTypes ==
    /\ Signalled \subseteq SmLabels /\ Taken \subseteq Signalled /\ Signalled \subseteq StopLabels
    /\ {"idle", "setup", "start", "bounce", "rewire", "gone", "signal"} \subseteq SmLabels \ Signalled
BY DEF Signalled, Taken, SmLabels, StopLabels

\* A thread that is in none of the later steps of stop() moves to another such.
LEMMA SmAside ==
    ASSUME SmWell, UNCHANGED SmView, NEW c \in SmThreads, smPc[c] \notin Signalled,
           NEW l \in SmLabels \ Signalled, smPc' = smPc \/ SmGoto(c, l)
    PROVE  SmWell'
<1> USE DEF SmView
<1>1. smPc' \in [SmThreads -> SmLabels]
      /\ \A d \in SmThreads : smPc'[d] = smPc[d] \/ (smPc[d] \notin Signalled /\ smPc'[d] \notin Signalled)
  BY DEF SmWell, SmTypeOK, SmGoto
<1>2. SmTypeOK' BY <1>1 DEF SmWell, SmTypeOK
<1>3. (StopOn' <=> StopOn) /\ (Emptying' <=> Emptying) /\ (Unspawned' <=> Unspawned)
      /\ (SmStarting' <=> SmStarting)
  BY <1>1, LabelTypes DEF StopOn, Emptying, Unspawned, SmStarting
<1>4. Referred' BY <1>1 DEF SmWell, SmSafe, Referred, Signalled
<1>5. Exclusive' BY <1>1, <1>3 DEF SmWell, SmSafe, Exclusive
<1>6. HandleFree' BY <1>3 DEF SmWell, SmSafe, HandleFree
<1>7. Attended' BY <1>3 DEF SmWell, SmSafe, Attended
<1> QED BY <1>2, <1>4, <1>5, <1>6, <1>7 DEF SmWell, SmSafe

(* The steps that leave to the manager what it owns: the launch of a     *)
(* process, the calls before they reach start() or stop(), signals,      *)
(* edits of the configuration and changes of the units.                  *)
LEMMA QuietSteps ==
    ASSUME SmIInv,
           \/ LaunchServe \/ LaunchApp \/ LaunchWeb \/ SmSetup \/ SmQuit \/ Sighup \/ Sigterm \/ Reload
           \/ (\E c \in SmThreads : Bounce(c) \/ Rewire(c))
           \/ (\E c \in Callers : ApiControl(c) \/ ApiBounceUnits(c) \/ ApiChange(c))
           \/ OutsideEdit \/ RefreshConfig \/ UnitChanges \/ UNCHANGED smVars
    PROVE  SmWell'
<1> USE LabelTypes DEF SmView, smOwned, smThreadVars, smOutside, smSignals, smHistory, smVars
<1>0. Main \in SmThreads /\ Callers \subseteq SmThreads /\ SmWell
  BY DEF SmThreads, SmIInv
<1>m. CASE /\ UNCHANGED SmView /\ smPc[Main] \notin Signalled
           /\ smPc' = smPc \/ \E l \in SmLabels \ Signalled : SmGoto(Main, l)
  <2>1. PICK l \in SmLabels \ Signalled : smPc' = smPc \/ SmGoto(Main, l) BY <1>m
  <2> QED BY <1>0, <1>m, <2>1, SmAside
<1>c. CASE \E c \in SmThreads :
              /\ UNCHANGED SmView /\ smPc[c] \notin Signalled
              /\ \E l \in SmLabels \ Signalled : SmGoto(c, l)
  <2>1. PICK c \in SmThreads : /\ UNCHANGED SmView /\ smPc[c] \notin Signalled
                               /\ \E l \in SmLabels \ Signalled : SmGoto(c, l) BY <1>c
  <2>2. PICK l \in SmLabels \ Signalled : SmGoto(c, l) BY <2>1
  <2> QED BY <1>0, <2>1, <2>2, SmAside
<1>u. CASE UNCHANGED <<SmView, smPc>>
  <2>1. SmTypeOK' BY <1>0, <1>u DEF SmWell, SmTypeOK
  <2>2. SmSafe' BY <1>0, <1>u DEF SmWell, SmSafe, Referred, Exclusive, HandleFree, Attended,
          SmStarting, StopOn, Emptying, Unspawned
  <2> QED BY <2>1, <2>2 DEF SmWell
<1>1. CASE LaunchServe \/ LaunchApp \/ LaunchWeb
  <2>1. smHost = "none" /\ UNCHANGED SmView
        /\ (SmGoto(Main, "start") \/ SmGoto(Main, "setup") \/ SmGoto(Main, "idle"))
    BY <1>1 DEF LaunchServe, LaunchApp, LaunchWeb, SmBegins
  <2>2. smPc[Main] \notin Signalled BY <1>0, <2>1 DEF SmIInv, Launched
  <2> QED BY <1>m, <2>1, <2>2
<1>2. CASE SmSetup
  <2>1. UNCHANGED SmView /\ smPc[Main] = "setup" /\ (smPc' = smPc \/ SmGoto(Main, "start"))
    BY <1>2 DEF SmSetup
  <2> QED BY <1>m, <2>1
<1>3. CASE SmQuit \/ Reload
  <2>1. UNCHANGED SmView /\ smPc[Main] = "idle" /\ SmGoto(Main, "signal")
    BY <1>3 DEF SmQuit, Reload
  <2> QED BY <1>m, <2>1
<1>4. CASE Sighup \/ Sigterm \/ OutsideEdit \/ RefreshConfig \/ UnitChanges \/ UNCHANGED smVars
  <2>1. UNCHANGED <<SmView, smPc>> BY <1>4 DEF Sighup, Sigterm, OutsideEdit, RefreshConfig, UnitChanges
  <2> QED BY <1>u, <2>1
<1>5. CASE \E c \in SmThreads : Bounce(c) \/ Rewire(c)
  <2>1. PICK c \in SmThreads : Bounce(c) \/ Rewire(c) BY <1>5
  <2>2. UNCHANGED SmView /\ smPc[c] \in {"bounce", "rewire"}
        /\ (SmGoto(c, "signal") \/ SmGoto(c, "rewire") \/ SmGoto(c, "idle"))
    BY <2>1 DEF Bounce, Rewire
  <2> QED BY <1>c, <2>2
<1>6. CASE \E c \in Callers : ApiControl(c) \/ ApiBounceUnits(c) \/ ApiChange(c)
  <2>1. PICK c \in Callers : ApiControl(c) \/ ApiBounceUnits(c) \/ ApiChange(c) BY <1>6
  <2>2. UNCHANGED SmView /\ smPc[c] = "idle"
        /\ (smPc' = smPc \/ SmGoto(c, "start") \/ SmGoto(c, "signal") \/ SmGoto(c, "bounce"))
    BY <2>1 DEF ApiControl, ApiBounceUnits, ApiChange, ApiCall
  <2>3. CASE smPc' = smPc BY <1>u, <2>2, <2>3
  <2> QED BY <1>0, <1>c, <2>2, <2>3
<1> QED BY <1>1, <1>2, <1>3, <1>4, <1>5, <1>6

-----------------------------------------------------------------------------
\* A thread inside stop() is alone there if nothing has met.
LEMMA AloneThere ==
    ASSUME SmWell, NEW c \in SmThreads, smPc[c] \in Signalled, ~smMet
    PROVE  /\ ~SmStarting /\ \A d \in SmThreads \ {c} : smPc[d] \notin Signalled
           /\ ~Unspawned /\ StopOn
<1>1. StopOn BY DEF StopOn
<1>2. ~SmStarting /\ \A d \in SmThreads \ {c} : smPc[d] \notin Signalled
  BY <1>1 DEF SmWell, SmSafe, Exclusive
<1>3. ~Unspawned BY <1>2 DEF SmStarting, Unspawned
<1> QED BY <1>1, <1>2, <1>3

(* stop() tells the watchers to leave: from now on it is the only one    *)
(* inside, or two have met.                                              *)
LEMMA SmStopSignal ==
    ASSUME SmWell, NEW c \in SmThreads, StopSignal(c) PROVE SmWell'
<1> USE DEF StopSignal, SmGoto, smOutside, smSignals
<1>1. smPc[c] = "signal" /\ smPc' \in [SmThreads -> SmLabels] /\ smPc'[c] = "take"
      /\ \A d \in SmThreads \ {c} : smPc'[d] = smPc[d]
  BY LabelTypes DEF SmWell, SmTypeOK, Signalled
<1>2. smSchedule' \in [handle : Nat, alive : SUBSET Nat] /\ smListen' \in [handle : Nat, bound : Nat]
      /\ smMet' \in BOOLEAN
  BY DEF SmWell, SmTypeOK
<1>3. SmTypeOK' BY <1>1, <1>2 DEF SmWell, SmTypeOK
<1>4. Referred'
  <2>1. \A d \in SmThreads : smGrip'[d] # 0 => smPc'[d] = "kill"
    BY <1>1 DEF SmWell, SmSafe, Referred
  <2>2. ~smMet' => ~smMet OBVIOUS
  <2> QED BY <2>1, <2>2 DEF SmWell, SmSafe, Referred
<1>5. ASSUME ~smMet'
      PROVE  /\ ~smMet /\ ~SmStarting /\ ~SmStarting'
             /\ \A d \in SmThreads \ {c} : smPc[d] \notin Signalled /\ smPc'[d] \notin Signalled
             /\ ~Unspawned' /\ ~Emptying'
  <2>1. ~smMet /\ ~SmStarting /\ \A d \in SmThreads \ {c} : smPc[d] \notin StopLabels
    BY <1>5 DEF SmStopping
  <2>2. ~SmStarting' /\ ~Unspawned' BY <2>1 DEF SmStarting, Unspawned
  <2>3. \A d \in SmThreads \ {c} : smPc[d] \notin Signalled /\ smPc'[d] \notin Signalled
    BY <1>1, <2>1, LabelTypes
  <2>4. ~Emptying'
    BY <1>1, <2>3, LabelTypes DEF Emptying, Taken
  <2> QED BY <2>1, <2>2, <2>3, <2>4
<1>6. Exclusive' BY <1>5, <1>2, <1>1 DEF Exclusive, SmStarting
<1>7. HandleFree' BY <1>5, <1>2 DEF SmWell, SmSafe, HandleFree
<1>8. Attended'
  <2>1. SUFFICES ASSUME ~smMet', ~smRevived'
                 PROVE  smSchedule'.alive = {} /\ smListen'.bound = 0
    BY <1>2 DEF Attended
  <2>2. smSchedule.alive \subseteq {smSchedule.handle} /\ smListen.bound \in {0, smListen.handle}
    BY <1>5, <2>1 DEF SmWell, SmSafe, Attended
  <2> QED BY <2>2
<1> QED BY <1>3, <1>4, <1>6, <1>7, <1>8 DEF SmWell, SmSafe

(* It takes the handle of the process.                                   *)
LEMMA SmStopTake ==
    ASSUME SmWell, NEW c \in SmThreads, StopTake(c) PROVE SmWell'
<1> USE DEF StopTake, SmGoto, smOutside, smSignals, smHistory
<1>1. smPc[c] = "take" /\ smPc' \in [SmThreads -> SmLabels] /\ smPc'[c] = "kill"
      /\ \A d \in SmThreads \ {c} : smPc'[d] = smPc[d]
  BY LabelTypes DEF SmWell, SmTypeOK, Signalled
<1>2. smGrip' \in [SmThreads -> Nat] /\ smGrip'[c] = smHandle
      /\ \A d \in SmThreads \ {c} : smGrip'[d] = smGrip[d]
  BY DEF SmWell, SmTypeOK
<1>3. SmTypeOK' BY <1>1, <1>2 DEF SmWell, SmTypeOK
<1>4. ~smMet => ~SmStarting /\ (\A d \in SmThreads \ {c} : smPc[d] \notin Signalled) /\ ~Unspawned /\ StopOn
  BY <1>1, AloneThere DEF Signalled
<1>5. Referred'
  <2>1. \A d \in SmThreads : smGrip'[d] # 0 => smPc'[d] = "kill"
    BY <1>1, <1>2 DEF SmWell, SmSafe, Referred
  <2>2. ASSUME ~smMet, NEW i \in Spawns, smProcs[i] = "up"
        PROVE  \E d \in SmThreads : smGrip'[d] = i
    <3>1. CASE i = smHandle BY <1>2, <3>1
    <3>2. CASE \E d \in SmThreads : smGrip[d] = i
      <4>1. PICK d \in SmThreads : smGrip[d] = i BY <3>2
      <4>2. smGrip[d] # 0 BY <4>1 DEF Spawns
      <4>3. d # c BY <1>1, <4>2 DEF SmWell, SmSafe, Referred
      <4> QED BY <1>2, <4>1, <4>3
    <3> QED BY <2>2, <3>1, <3>2 DEF SmWell, SmSafe, Referred
  <2> QED BY <2>1, <2>2 DEF Referred
<1>6. Exclusive' BY <1>1, <1>4 DEF Exclusive, SmStarting, Unspawned, Signalled
<1>7. HandleFree' BY DEF HandleFree, Spawns
<1>8. Attended' BY <1>4 DEF SmWell, SmSafe, Attended
<1> QED BY <1>3, <1>5, <1>6, <1>7, <1>8 DEF SmWell, SmSafe

\* Processes only end, and the kill ends the one that was taken.
LEMMA SmStopKill ==
    ASSUME SmWell, NEW c \in SmThreads, StopKill(c) PROVE SmWell'
<1> USE DEF StopKill, SmGoto, smOutside, smSignals, smHistory
<1>1. smPc[c] = "kill" /\ smPc' \in [SmThreads -> SmLabels] /\ smPc'[c] = "unwire"
      /\ \A d \in SmThreads \ {c} : smPc'[d] = smPc[d]
  BY LabelTypes DEF SmWell, SmTypeOK, Signalled, Taken
<1>2. smGrip' \in [SmThreads -> Nat] /\ smGrip'[c] = 0
      /\ \A d \in SmThreads \ {c} : smGrip'[d] = smGrip[d]
  BY DEF SmWell, SmTypeOK
<1>3. smProcs' \in [Spawns -> {"none", "up", "dead"}]
      /\ \A i \in Spawns : smProcs'[i] = "up" => smProcs[i] = "up" /\ i # smGrip[c]
  <2>1. CASE smGrip[c] # 0 BY <2>1 DEF Ends, SmWell, SmTypeOK
  <2>2. CASE smGrip[c] = 0 BY <2>2 DEF SmWell, SmTypeOK, Spawns
  <2> QED BY <2>1, <2>2
<1>4. SmTypeOK' BY <1>1, <1>2, <1>3 DEF SmWell, SmTypeOK
<1>5. ~smMet => ~SmStarting /\ (\A d \in SmThreads \ {c} : smPc[d] \notin Signalled) /\ ~Unspawned /\ StopOn
  BY <1>1, AloneThere DEF Signalled
<1>6. Referred'
  <2>1. \A d \in SmThreads : smGrip'[d] # 0 => smPc'[d] = "kill"
    BY <1>1, <1>2 DEF SmWell, SmSafe, Referred
  <2>2. ASSUME ~smMet, NEW i \in Spawns, smProcs'[i] = "up"
        PROVE  i = smHandle \/ \E d \in SmThreads : smGrip'[d] = i
    BY <1>2, <1>3, <2>2 DEF SmWell, SmSafe, Referred
  <2> QED BY <2>1, <2>2 DEF Referred
<1>7. Exclusive' BY <1>1, <1>5 DEF Exclusive, SmStarting, Unspawned, Signalled
<1>8. HandleFree'
  <2>1. Emptying BY <1>1 DEF Emptying, Taken
  <2> QED BY <1>3, <1>5, <2>1 DEF SmWell, SmSafe, HandleFree, Unspawned
<1>9. Attended' BY <1>5 DEF SmWell, SmSafe, Attended
<1> QED BY <1>4, <1>6, <1>7, <1>8, <1>9 DEF SmWell, SmSafe

(* It stops the scheduler and the listener it has the handles of, ...    *)
LEMMA SmStopUnwire ==
    ASSUME SmWell, NEW c \in SmThreads, StopUnwire(c) PROVE SmWell'
<1> USE DEF StopUnwire, SmGoto, smOwned, smSignals, smHistory
<1>1. smPc[c] = "unwire" /\ smPc' \in [SmThreads -> SmLabels] /\ smPc'[c] = "settle"
      /\ \A d \in SmThreads \ {c} : smPc'[d] = smPc[d]
  BY LabelTypes DEF SmWell, SmTypeOK, Signalled, Taken
<1>2. SmTypeOK' BY <1>1 DEF SmWell, SmTypeOK
<1>3. ~smMet => ~SmStarting /\ (\A d \in SmThreads \ {c} : smPc[d] \notin Signalled) /\ ~Unspawned /\ StopOn
  BY <1>1, AloneThere DEF Signalled
<1>4. Emptying BY <1>1 DEF Emptying, Taken
<1>5. Referred' BY <1>1 DEF SmWell, SmSafe, Referred
<1>6. Exclusive' BY <1>1, <1>3 DEF Exclusive, SmStarting, Unspawned, Signalled
<1>7. HandleFree' BY <1>3, <1>4 DEF SmWell, SmSafe, HandleFree, Unspawned
<1>8. Attended' BY <1>3 DEF SmWell, SmSafe, Attended
<1> QED BY <1>2, <1>5, <1>6, <1>7, <1>8 DEF SmWell, SmSafe

(* ... says that the server is stopped, and returns.                     *)
LEMMA SmStopSettle ==
    ASSUME SmWell, NEW c \in SmThreads, StopSettle(c) PROVE SmWell'
<1> USE DEF StopSettle, SmSet, SmGoto, smOwned, smOutside, smHistory
<1>1. smPc[c] = "settle" /\ smPc' \in [SmThreads -> SmLabels] /\ smPc'[c] \in {"idle", "restart"}
      /\ \A d \in SmThreads \ {c} : smPc'[d] = smPc[d]
  BY LabelTypes DEF SmWell, SmTypeOK, Signalled, Taken
<1>2. SmTypeOK' BY <1>1 DEF SmWell, SmTypeOK
<1>3. ~smMet => ~SmStarting /\ (\A d \in SmThreads \ {c} : smPc[d] \notin Signalled) /\ ~Unspawned /\ StopOn
  BY <1>1, AloneThere DEF Signalled
<1>4. Emptying BY <1>1 DEF Emptying, Taken
<1>5. Referred' BY <1>1 DEF SmWell, SmSafe, Referred
<1>6. Exclusive' BY <1>1, <1>3 DEF Exclusive, SmStarting, Unspawned, Signalled
<1>7. HandleFree' BY <1>3, <1>4 DEF SmWell, SmSafe, HandleFree, Spawns
<1>8. Attended' BY <1>3 DEF SmWell, SmSafe, Attended
<1> QED BY <1>2, <1>5, <1>6, <1>7, <1>8 DEF SmWell, SmSafe

(* The same where the process is about to end.                           *)
LEMMA SmStopExit ==
    ASSUME SmWell, NEW c \in SmThreads, StopExit(c) PROVE SmWell'
<1> USE DEF StopExit, SmGoto, smOutside, smHistory
<1>1. smPc[c] = "settle" /\ smPc' \in [SmThreads -> SmLabels] /\ smPc'[c] = "gone"
      /\ \A d \in SmThreads \ {c} : smPc'[d] = smPc[d]
  BY LabelTypes DEF SmWell, SmTypeOK, Signalled, Taken
<1>2. smProcs' \in [Spawns -> {"none", "up", "dead"}]
      /\ \A i \in Spawns : smProcs'[i] = "up" => smProcs[i] = "up"
  BY DEF SmWell, SmTypeOK
<1>3. SmTypeOK' BY <1>1, <1>2 DEF SmWell, SmTypeOK
<1>4. ~smMet => ~SmStarting /\ (\A d \in SmThreads \ {c} : smPc[d] \notin Signalled) /\ ~Unspawned /\ StopOn
  BY <1>1, AloneThere DEF Signalled
<1>5. Emptying BY <1>1 DEF Emptying, Taken
<1>6. Referred' BY <1>1, <1>2 DEF SmWell, SmSafe, Referred
<1>7. Exclusive' BY <1>1, <1>4 DEF Exclusive, SmStarting, Unspawned, Signalled
<1>8. HandleFree' BY <1>4, <1>5 DEF SmWell, SmSafe, HandleFree, Spawns
<1>9. Attended' BY <1>4 DEF SmWell, SmSafe, Attended
<1> QED BY <1>3, <1>6, <1>7, <1>8, <1>9 DEF SmWell, SmSafe

\* start(): refused, adopted, or handed to a thread of its own.
LEMMA SmStart ==
    ASSUME SmWell, NEW c \in SmThreads, Start(c) PROVE SmWell'
<1> USE DEF Start, SmGoto, smOwned, smOutside
<1>1. smPc[c] \in {"start", "restart"} /\ smPc' \in [SmThreads -> SmLabels]
      /\ smPc'[c] \in {"rewire", "idle"} /\ \A d \in SmThreads \ {c} : smPc'[d] = smPc[d]
  BY LabelTypes DEF SmWell, SmTypeOK
<1>2. ASSUME ~smMet'
      PROVE  /\ ~smMet /\ ~SmStarting
             /\ \A d \in SmThreads : d # c => smPc[d] \notin Signalled
             /\ \A d \in SmThreads : smPc'[d] \notin Signalled
             /\ ~StopOn' /\ ~Emptying'
  <2>1. ~smMet /\ ~SmStarting /\ \A d \in SmThreads \ {c} : smPc[d] \notin StopLabels
    BY <1>2 DEF SmStopping
  <2>2. \A d \in SmThreads : d # c => smPc[d] \notin Signalled
    BY <2>1, LabelTypes
  <2>3. \A d \in SmThreads : smPc'[d] \notin Signalled
    BY <1>1, <2>2, LabelTypes
  <2>4. ~StopOn' /\ ~Emptying' BY <2>3, LabelTypes DEF StopOn, Emptying
  <2> QED BY <2>1, <2>2, <2>3, <2>4
<1>3. Referred'
  <2>1. ~smMet' => ~smMet OBVIOUS
  <2>2. \A d \in SmThreads : smGrip'[d] # 0 => smPc'[d] = "kill"
    BY <1>1 DEF SmWell, SmSafe, Referred
  <2> QED BY <2>1, <2>2 DEF SmWell, SmSafe, Referred
<1>4. CASE smState \in {"starting", "running"} /\ UNCHANGED <<smState, smStarter, smRevived>>
  <2>1. SmTypeOK' BY <1>1, <1>4 DEF SmWell, SmTypeOK
  <2>2. ~smMet' => ~SmStarting' /\ ~Unspawned' BY <1>2, <1>4 DEF SmStarting, Unspawned
  <2>3. Exclusive' BY <1>2, <1>4, <2>2 DEF Exclusive, SmStarting
  <2>4. HandleFree' BY <1>2, <1>4, <2>2 DEF SmWell, SmSafe, HandleFree
  <2>5. Attended' BY <1>2, <1>4, <2>2 DEF SmWell, SmSafe, Attended
  <2> QED BY <1>3, <2>1, <2>3, <2>4, <2>5 DEF SmWell, SmSafe
<1>5. CASE smState' = "running" /\ UNCHANGED <<smStarter, smRevived>>
  <2>1. SmTypeOK' BY <1>1, <1>5 DEF SmWell, SmTypeOK
  <2>2. ~smMet' => ~SmStarting' /\ ~Unspawned' BY <1>2, <1>5 DEF SmStarting, Unspawned
  <2>3. Exclusive' BY <1>2, <1>5, <2>2 DEF Exclusive, SmStarting
  <2>4. HandleFree' BY <1>2, <1>5, <2>2 DEF SmWell, SmSafe, HandleFree
  <2>5. Attended' BY <1>2, <1>5, <2>2 DEF SmWell, SmSafe, Attended
  <2> QED BY <1>3, <2>1, <2>3, <2>4, <2>5 DEF SmWell, SmSafe
<1>6. CASE /\ smState \notin {"starting", "running"} /\ smState' = "starting"
           /\ \E s \in Starters : smStarter[s].at = "off"
                                  /\ smStarter' = [smStarter EXCEPT ![s].at = "wire"]
           /\ smRevived' = (smRevived \/ smState = "error")
  <2>1. PICK s \in Starters : smStarter[s].at = "off"
                             /\ smStarter' = [smStarter EXCEPT ![s].at = "wire"] BY <1>6
  <2>2. smStarter' \in [Starters -> StarterRecord] /\ smStarter'[s].at = "wire"
        /\ \A r \in Starters \ {s} : smStarter'[r] = smStarter[r]
    BY <2>1 DEF SmWell, SmTypeOK, StarterRecord, StarterLabels
  <2>3. SmTypeOK' BY <1>1, <1>6, <2>2 DEF SmWell, SmTypeOK
  <2>4. Exclusive' BY <1>2, <1>6, <2>2 DEF Exclusive, SmStarting
  <2>5. smState \in {"stopped", "error"} BY <1>6 DEF SmWell, SmTypeOK
  <2>6. HandleFree'
    BY <1>2, <1>6, <2>5 DEF SmWell, SmSafe, HandleFree, Spawns
  <2>7. Attended'
    BY <1>2, <1>6, <2>5 DEF SmWell, SmSafe, Attended
  <2> QED BY <1>3, <2>3, <2>4, <2>6, <2>7 DEF SmWell, SmSafe
<1>7. \/ smState \in {"starting", "running"} /\ UNCHANGED <<smState, smStarter, smRevived>>
      \/ smState' = "running" /\ UNCHANGED <<smStarter, smRevived>>
      \/ /\ smState \notin {"starting", "running"} /\ smState' = "starting"
         /\ \E s \in Starters : smStarter[s].at = "off"
                                /\ smStarter' = [smStarter EXCEPT ![s].at = "wire"]
         /\ smRevived' = (smRevived \/ smState = "error")
  BY DEF SmSet
<1> QED BY <1>4, <1>5, <1>6, <1>7

-----------------------------------------------------------------------------
\* What a step of a starter leaves of the starters.
LEMMA StarterMoves ==
    ASSUME SmWell, NEW s \in Starters, smStarter[s].at # "off", UNCHANGED smPc
    PROVE  /\ \A l \in StarterLabels : StarterGoto(s, l) =>
                 /\ smStarter' \in [Starters -> StarterRecord] /\ smStarter'[s].at = l
                 /\ \A r \in Starters : r # s => smStarter'[r] = smStarter[r]
           /\ StarterEnds(s) =>
                 /\ smStarter' \in [Starters -> StarterRecord] /\ smStarter'[s].at = "off"
                 /\ \A r \in Starters : r # s => smStarter'[r] = smStarter[r]
           /\ ~smMet => ~StopOn /\ ~StopOn' /\ ~Emptying' /\ smState # "stopped" /\ SmStarting
                        /\ (\A r \in Starters : r # s => smStarter[r].at = "off")
                        /\ \A d \in SmThreads : smPc[d] \notin Signalled
<1>1. ASSUME NEW l \in StarterLabels, StarterGoto(s, l)
      PROVE  /\ smStarter' \in [Starters -> StarterRecord] /\ smStarter'[s].at = l
             /\ \A r \in Starters : r # s => smStarter'[r] = smStarter[r]
  BY <1>1 DEF StarterGoto, SmWell, SmTypeOK, StarterRecord
<1>2. ASSUME StarterEnds(s)
      PROVE  /\ smStarter' \in [Starters -> StarterRecord] /\ smStarter'[s].at = "off"
             /\ \A r \in Starters : r # s => smStarter'[r] = smStarter[r]
  <2>1. [at |-> "off", made |-> 0] \in StarterRecord BY DEF StarterRecord, StarterLabels
  <2> QED BY <1>2, <2>1 DEF StarterEnds, SmWell, SmTypeOK
<1>3. ASSUME ~smMet
      PROVE  /\ ~StopOn /\ ~StopOn' /\ ~Emptying' /\ smState # "stopped" /\ SmStarting
             /\ \A r \in Starters : r # s => smStarter[r].at = "off"
             /\ \A d \in SmThreads : smPc[d] \notin Signalled
  <2>1. SmStarting BY DEF SmStarting
  <2>2. ~StopOn /\ smState # "stopped" BY <1>3, <2>1 DEF SmWell, SmSafe, Exclusive
  <2>3. \A d \in SmThreads : smPc[d] \notin Signalled BY <2>2 DEF StopOn
  <2>4. ~StopOn' /\ ~Emptying' BY <2>3, LabelTypes DEF StopOn, Emptying
  <2>5. \A r \in Starters : r # s => smStarter[r].at = "off"
    BY <1>3 DEF SmWell, SmSafe, Exclusive
  <2> QED BY <2>1, <2>2, <2>3, <2>4, <2>5
<1> QED BY <1>1, <1>2, <1>3

\* A start that fails where no process is behind the handle.
LEMMA StarterFailing ==
    ASSUME SmWell, NEW s \in Starters, smStarter[s].at # "off", StarterFails(s),
           smHandle \notin Spawns \/ smMet \/ smProcs[smHandle] # "up",
           UNCHANGED <<smPc, smGrip, smHandle, smProcs, smSchedule, smListen, smMet, smRevived>>
    PROVE  SmWell'
<1>1. smStarter' \in [Starters -> StarterRecord] /\ smStarter'[s].at = "off" /\ smState' = "error"
      /\ \A r \in Starters : r # s => smStarter'[r] = smStarter[r]
  BY StarterMoves DEF StarterFails, SmSet
<1>2. ~smMet => ~StopOn /\ ~StopOn' /\ ~Emptying' /\ smState # "stopped" /\ SmStarting
                /\ (\A r \in Starters : r # s => smStarter[r].at = "off")
                /\ \A d \in SmThreads : smPc[d] \notin Signalled
  BY StarterMoves
<1>3. ~smMet => ~SmStarting' /\ ~Unspawned' BY <1>1, <1>2 DEF SmStarting, Unspawned
<1>4. SmTypeOK' BY <1>1 DEF SmWell, SmTypeOK
<1>5. Referred' BY DEF SmWell, SmSafe, Referred
<1>6. Exclusive' BY <1>1, <1>2, <1>3 DEF Exclusive, SmStarting
<1>7. HandleFree' BY <1>1, <1>2 DEF HandleFree
<1>8. Attended' BY <1>1, <1>2, <1>3 DEF SmWell, SmSafe, Attended
<1> QED BY <1>4, <1>5, <1>6, <1>7, <1>8 DEF SmWell, SmSafe

(* A start begins the scheduler and the listener, ...                    *)
LEMMA SmWire ==
    ASSUME SmWell, NEW s \in Starters, Wire(s) PROVE SmWell'
<1> USE DEF Wire, StarterAt, smOwned, smHistory
<1>1. smStarter[s].at = "wire" OBVIOUS
<1>2. Unspawned BY <1>1 DEF Unspawned
<1>3. CASE StarterFails(s)
  <2>1. smHandle \notin Spawns \/ smMet \/ smProcs[smHandle] # "up"
    BY <1>2 DEF SmWell, SmSafe, HandleFree
  <2> QED BY <1>1, <1>3, <2>1, StarterFailing
<1>4. CASE StarterGoto(s, "spawn") /\ UNCHANGED smState
  <2>1. smStarter' \in [Starters -> StarterRecord] /\ smStarter'[s].at = "spawn"
        /\ \A r \in Starters : r # s => smStarter'[r] = smStarter[r]
    BY <1>1, <1>4, StarterMoves DEF StarterLabels
  <2>2. ~smMet => ~StopOn /\ ~StopOn' /\ ~Emptying' /\ smState # "stopped" /\ SmStarting
                /\ (\A r \in Starters : r # s => smStarter[r].at = "off")
                /\ \A d \in SmThreads : smPc[d] \notin Signalled
    BY <1>1, StarterMoves
  <2>3. SmTypeOK' BY <2>1, <1>4 DEF SmWell, SmTypeOK
  <2>4. Referred' BY DEF SmWell, SmSafe, Referred
  <2>5. Exclusive'
    BY <1>2, <1>4, <2>1, <2>2 DEF SmWell, SmSafe, Exclusive
  <2>6. HandleFree' BY <1>2, <1>4, <2>2 DEF SmWell, SmSafe, HandleFree
  <2>7. Attended' BY <1>4, <2>2 DEF SmWell, SmSafe, Attended
  <2> QED BY <2>3, <2>4, <2>5, <2>6, <2>7 DEF SmWell, SmSafe
<1> QED BY <1>3, <1>4

(* ... spawns wstunnel, ...                                              *)
LEMMA SmSpawn ==
    ASSUME SmWell, NEW s \in Starters, Spawn(s) PROVE SmWell'
<1> USE DEF Spawn, StarterAt, smOutside, smHistory
<1>1. smStarter[s].at = "spawn" OBVIOUS
<1>2. Unspawned BY <1>1 DEF Unspawned
<1>0. ~smMet => smHandle \notin Spawns \/ smProcs[smHandle] # "up"
  BY <1>2 DEF SmWell, SmSafe, HandleFree
<1>3. CASE StarterFails(s) /\ UNCHANGED <<smHandle, smProcs>>
  BY <1>0, <1>1, <1>3, StarterFailing
<1>4. CASE /\ Spawned \in Spawns
           /\ smProcs' = [smProcs EXCEPT ![Spawned] = IF PortTaken(smMem) THEN "dead" ELSE "up"]
           /\ smHandle' = Spawned
           /\ smStarter' = [smStarter EXCEPT ![s] = [at |-> "announce", made |-> Spawned]]
           /\ UNCHANGED smState
  <2> DEFINE n == Spawned
  <2>0. n \in Spawns /\ n \in Nat BY <1>4 DEF Spawns
  <2>1. smStarter' \in [Starters -> StarterRecord] /\ smStarter'[s].at = "announce"
        /\ \A r \in Starters : r # s => smStarter'[r] = smStarter[r]
    <3>1. [at |-> "announce", made |-> Spawned] \in StarterRecord
      BY <2>0 DEF StarterRecord, StarterLabels
    <3> QED BY <1>4, <3>1 DEF SmWell, SmTypeOK
  <2>2. ~smMet => ~StopOn /\ ~StopOn' /\ ~Emptying' /\ smState # "stopped" /\ SmStarting
                /\ (\A r \in Starters : r # s => smStarter[r].at = "off")
                /\ \A d \in SmThreads : smPc[d] \notin Signalled
    BY <1>1, StarterMoves
  <2>3. smProcs' \in [Spawns -> {"none", "up", "dead"}] /\ smHandle' = n
        /\ \A i \in Spawns : i # n => smProcs'[i] = smProcs[i]
    <3> HIDE DEF PortTaken, Spawned
    <3> QED BY <1>4, <2>0 DEF SmWell, SmTypeOK
  <2> HIDE DEF n
  <2>4. SmTypeOK' BY <1>4, <2>0, <2>1, <2>3 DEF SmWell, SmTypeOK
  <2>5. Referred'
    <3>1. ASSUME ~smMet, NEW i \in Spawns, smProcs'[i] = "up", i # n
          PROVE  \E d \in SmThreads : smGrip[d] = i
      BY <1>0, <3>1, <2>3 DEF SmWell, SmSafe, Referred
    <3> QED BY <2>3, <3>1 DEF SmWell, SmSafe, Referred
  <2>6. ~smMet => ~Unspawned' /\ smState = "starting"
    BY <1>2, <2>1, <2>2 DEF Unspawned, SmWell, SmSafe, Exclusive
  <2>7. Exclusive' BY <1>4, <2>1, <2>2, <2>6 DEF SmWell, SmSafe, Exclusive
  <2>8. HandleFree' BY <1>4, <2>2, <2>6 DEF HandleFree
  <2>9. Attended' BY <1>4, <2>2 DEF SmWell, SmSafe, Attended
  <2> QED BY <2>4, <2>5, <2>7, <2>8, <2>9 DEF SmWell, SmSafe
<1> QED BY <1>3, <1>4

(* ... says that the server is running, ...                              *)
LEMMA SmAnnounce ==
    ASSUME SmWell, NEW s \in Starters, Announce(s) PROVE SmWell'
<1> USE DEF Announce, StarterAt, SmSet, smOwned, smOutside, smHistory
<1>1. smStarter[s].at = "announce" /\ smState' = "running" OBVIOUS
<1>2. smStarter' \in [Starters -> StarterRecord] /\ smStarter'[s].at = "watch"
      /\ \A r \in Starters : r # s => smStarter'[r] = smStarter[r]
  BY <1>1, StarterMoves DEF StarterLabels
<1>3. ~smMet => ~StopOn /\ ~StopOn' /\ ~Emptying' /\ smState # "stopped" /\ SmStarting
              /\ (\A r \in Starters : r # s => smStarter[r].at = "off")
              /\ \A d \in SmThreads : smPc[d] \notin Signalled
  BY <1>1, StarterMoves
<1>4. SmTypeOK' BY <1>1, <1>2 DEF SmWell, SmTypeOK
<1>5. ~smMet => ~Unspawned' BY <1>2, <1>3 DEF Unspawned
<1>6. Referred' BY DEF SmWell, SmSafe, Referred
<1>7. Exclusive' BY <1>1, <1>2, <1>3, <1>5 DEF SmWell, SmSafe, Exclusive
<1>8. HandleFree' BY <1>1, <1>3, <1>5 DEF HandleFree
<1>9. Attended' BY <1>1, <1>3 DEF SmWell, SmSafe, Attended
<1> QED BY <1>4, <1>6, <1>7, <1>8, <1>9 DEF SmWell, SmSafe

(* ... and stays to read what wstunnel prints, ...                       *)
LEMMA SmWatch ==
    ASSUME SmWell, NEW s \in Starters, Watch(s) PROVE SmWell'
<1> USE DEF Watch, StarterAt, smOutside, smHistory
<1>1. smStarter[s].at = "watch" OBVIOUS
<1>2. CASE smHandle = 0 /\ StarterFails(s)
  BY <1>1, <1>2, StarterFailing DEF Spawns
<1>3. CASE StarterGoto(s, "attend") /\ UNCHANGED smState
  <2>1. smStarter' \in [Starters -> StarterRecord] /\ smStarter'[s].at = "attend"
        /\ \A r \in Starters : r # s => smStarter'[r] = smStarter[r]
    BY <1>1, <1>3, StarterMoves DEF StarterLabels
  <2>2. ~smMet => ~StopOn /\ ~StopOn' /\ ~Emptying' /\ smState # "stopped" /\ SmStarting
                /\ (\A r \in Starters : r # s => smStarter[r].at = "off")
                /\ \A d \in SmThreads : smPc[d] \notin Signalled
    BY <1>1, StarterMoves
  <2>3. SmTypeOK' BY <1>3, <2>1 DEF SmWell, SmTypeOK
  <2>4. ~smMet => ~Unspawned' BY <2>1, <2>2 DEF Unspawned
  <2>5. Referred' BY DEF SmWell, SmSafe, Referred
  <2>6. Exclusive' BY <1>3, <2>1, <2>2, <2>4 DEF SmWell, SmSafe, Exclusive
  <2>7. HandleFree' BY <1>3, <2>2, <2>4 DEF SmWell, SmSafe, HandleFree
  <2>8. Attended' BY <1>3, <2>2 DEF SmWell, SmSafe, Attended
  <2> QED BY <2>3, <2>5, <2>6, <2>7, <2>8 DEF SmWell, SmSafe
<1> QED BY <1>2, <1>3

(* ... until it ends, or a stop takes it away.                           *)
LEMMA SmAttend ==
    ASSUME SmWell, NEW s \in Starters, Attend(s) PROVE SmWell'
<1> USE DEF Attend, StarterAt, smOutside, smSignals, smHistory
<1>1. smStarter[s].at = "attend" OBVIOUS
<1>2. smStarter' \in [Starters -> StarterRecord] /\ smStarter'[s].at = "off"
      /\ \A r \in Starters : r # s => smStarter'[r] = smStarter[r]
  BY <1>1, StarterMoves
<1>3. ~smMet => ~StopOn /\ ~StopOn' /\ ~Emptying' /\ smState # "stopped" /\ SmStarting
              /\ (\A r \in Starters : r # s => smStarter[r].at = "off")
              /\ \A d \in SmThreads : smPc[d] \notin Signalled
  BY <1>1, StarterMoves
<1> DEFINE n == smStarter[s].made
<1>4. n \in Nat BY DEF SmWell, SmTypeOK, StarterRecord
<1>5. smSchedule' = [handle |-> n, alive |-> smSchedule.alive \cup {n}]
      /\ (smListen' = [handle |-> n, bound |-> n]
          \/ smListen' = [smListen EXCEPT !.handle = 0])
  OBVIOUS
<1> HIDE DEF n
<1>6. SmTypeOK' BY <1>2, <1>4, <1>5 DEF SmWell, SmTypeOK
<1>7. ~smMet => ~Unspawned' /\ ~SmStarting' BY <1>2, <1>3 DEF Unspawned, SmStarting
<1>8. Referred' BY DEF SmWell, SmSafe, Referred
<1>9. Exclusive' BY <1>2, <1>3, <1>7 DEF SmWell, SmSafe, Exclusive
<1>10. HandleFree' BY <1>3, <1>7 DEF SmWell, SmSafe, HandleFree
<1>11. Attended'
  <2>1. SUFFICES ASSUME ~smMet, ~smRevived
                 PROVE  /\ smSchedule'.alive \subseteq {smSchedule'.handle}
                        /\ smListen'.bound \in {0, smListen'.handle}
    BY <1>3, <1>7 DEF Attended
  <2>2. smSchedule.alive = {} /\ smListen.bound = 0
    BY <1>3, <2>1 DEF SmWell, SmSafe, Attended
  <2>3. smListen'.bound \in {0, smListen'.handle}
    BY <1>5, <2>2 DEF SmWell, SmTypeOK
  <2> QED BY <1>5, <2>2, <2>3
<1> QED BY <1>6, <1>8, <1>9, <1>10, <1>11 DEF SmWell, SmSafe

-----------------------------------------------------------------------------
\* The watchdog, and a wstunnel that dies.
LEMMA SmMonitor ==
    ASSUME SmWell, Monitor PROVE SmWell'
<1> USE DEF Monitor, SmSet, smThreadVars, smOutside, smHistory
<1>1. CASE smState' = smState
  <2>1. SmTypeOK' BY <1>1 DEF SmWell, SmTypeOK
  <2>2. SmSafe' BY <1>1 DEF SmWell, SmSafe, Referred, Exclusive, HandleFree, Attended,
          SmStarting, StopOn, Emptying, Unspawned
  <2> QED BY <2>1, <2>2 DEF SmWell
<1>2. CASE smState = "running" /\ smProcs[smHandle] = "dead" /\ smState' = "error"
  <2>1. SmTypeOK' BY <1>2 DEF SmWell, SmTypeOK
  <2>2. Referred' BY DEF SmWell, SmSafe, Referred
  <2>3. (StopOn' <=> StopOn) /\ (Emptying' <=> Emptying) /\ (Unspawned' <=> Unspawned)
        /\ (SmStarting' <=> SmStarting)
    BY DEF StopOn, Emptying, Unspawned, SmStarting
  <2>4. Exclusive' BY <1>2, <2>3 DEF SmWell, SmSafe, Exclusive
  <2>5. HandleFree' BY <1>2, <2>3 DEF SmWell, SmSafe, HandleFree
  <2>6. Attended' BY <1>2, <2>3 DEF SmWell, SmSafe, Attended
  <2> QED BY <2>1, <2>2, <2>4, <2>5, <2>6 DEF SmWell, SmSafe
<1> QED BY <1>1, <1>2

(* wstunnel may end at any time.                                         *)
LEMMA SmTransportDies ==
    ASSUME SmWell, TransportDies PROVE SmWell'
<1> USE DEF TransportDies, smThreadVars, smOutside, smSignals
<1>1. smProcs' \in [Spawns -> {"none", "up", "dead"}]
      /\ \A i \in Spawns : smProcs'[i] = "up" => smProcs[i] = "up"
  BY DEF SmWell, SmTypeOK, Ends
<1>2. SmTypeOK' BY <1>1 DEF SmWell, SmTypeOK
<1>3. (StopOn' <=> StopOn) /\ (Emptying' <=> Emptying) /\ (Unspawned' <=> Unspawned)
      /\ (SmStarting' <=> SmStarting)
  BY DEF StopOn, Emptying, Unspawned, SmStarting
<1>4. Referred' BY <1>1 DEF SmWell, SmSafe, Referred
<1>5. Exclusive' BY <1>3 DEF SmWell, SmSafe, Exclusive
<1>6. HandleFree' BY <1>1, <1>3 DEF SmWell, SmSafe, HandleFree
<1>7. Attended' BY <1>3 DEF SmWell, SmSafe, Attended
<1> QED BY <1>2, <1>4, <1>5, <1>6, <1>7 DEF SmWell, SmSafe

\* Every step, and the launch comes before every other one.
LEMMA SmKept == SmIInv /\ [SmNext]_smVars => SmIInv'
<1> SUFFICES ASSUME SmIInv, [SmNext]_smVars PROVE SmIInv' OBVIOUS
<1>0. SmWell BY DEF SmIInv
<1>1. SmWell'
  <2>1. CASE \E c \in SmThreads : ThreadStep(c)
    <3>1. PICK c \in SmThreads : ThreadStep(c) BY <2>1
    <3> QED BY <1>0, <3>1, QuietSteps, SmStopSignal, SmStopTake, SmStopKill, SmStopUnwire,
               SmStopSettle, SmStopExit, SmStart DEF ThreadStep, StopStep
  <2>2. CASE \E s \in Starters : StarterStep(s)
    <3>1. PICK s \in Starters : StarterStep(s) BY <2>2
    <3> QED BY <1>0, <3>1, SmWire, SmSpawn, SmAnnounce, SmWatch, SmAttend DEF StarterStep
  <2>3. CASE Monitor \/ TransportDies BY <1>0, <2>3, SmMonitor, SmTransportDies
  <2>4. CASE \/ LaunchServe \/ LaunchApp \/ LaunchWeb \/ SmSetup \/ SmQuit \/ Sighup \/ Sigterm \/ Reload
             \/ (\E c \in Callers : ApiControl(c) \/ ApiBounceUnits(c) \/ ApiChange(c))
             \/ OutsideEdit \/ RefreshConfig \/ UnitChanges \/ UNCHANGED smVars
    BY <2>4, QuietSteps
  <2> QED BY <2>1, <2>2, <2>3, <2>4 DEF SmNext
<1>2. Launched'
  <2>1. CASE LaunchServe \/ LaunchApp \/ LaunchWeb
    BY <2>1 DEF LaunchServe, LaunchApp, LaunchWeb, SmBegins, Launched
  <2>2. CASE UNCHANGED <<smHost, smPc>> BY <2>2 DEF SmIInv, Launched
  <2>3. CASE UNCHANGED smHost /\ smHost # "none" BY <2>3 DEF Launched
  <2>4. CASE \E c \in SmThreads : ThreadStep(c)
    <3>1. UNCHANGED smHost /\ smHost # "none"
      BY <2>4 DEF ThreadStep, SmAlive, StopStep, StopSignal, StopTake, StopKill, StopUnwire,
           StopSettle, StopExit, Start, Bounce, Rewire
    <3> QED BY <2>3, <3>1
  <2>5. CASE \E s \in Starters : StarterStep(s)
    <3>1. UNCHANGED <<smHost, smPc>>
      BY <2>5 DEF StarterStep, Wire, Spawn, Announce, Watch, Attend
    <3> QED BY <2>2, <3>1
  <2>6. CASE \E c \in Callers : ApiControl(c) \/ ApiBounceUnits(c) \/ ApiChange(c)
    <3>1. UNCHANGED smHost /\ smHost # "none"
      BY <2>6 DEF ApiControl, ApiBounceUnits, ApiChange, ApiCall, SmAlive
    <3> QED BY <2>3, <3>1
  <2>7. CASE SmSetup \/ SmQuit \/ Sighup \/ Sigterm \/ Reload
    <3>1. UNCHANGED smHost /\ smHost # "none"
      BY <2>7 DEF SmSetup, SmQuit, Sighup, Sigterm, Reload, SmAlive
    <3> QED BY <2>3, <3>1
  <2>8. CASE Monitor \/ TransportDies \/ OutsideEdit \/ RefreshConfig \/ UnitChanges \/ UNCHANGED smVars
    <3>1. UNCHANGED <<smHost, smPc>>
      BY <2>8 DEF Monitor, TransportDies, OutsideEdit, RefreshConfig, UnitChanges, smVars, smThreadVars
    <3> QED BY <2>2, <3>1
  <2> QED BY <2>1, <2>4, <2>5, <2>6, <2>7, <2>8 DEF SmNext
<1> QED BY <1>1, <1>2 DEF SmIInv

(* The invariant of the server manager: what owns the transport, its     *)
(* scheduler and its listener at every step of a start and of a stop     *)
(* (server_manager.py).                                                  *)
THEOREM ManagerInv == SmSpec => []SmIInv
<1>1. SmInit => SmIInv BY SmAtStart
<1>2. SmIInv /\ [SmNext]_smVars => SmIInv' BY SmKept
<1> QED BY <1>1, <1>2, PTL DEF SmSpec

(* As long as no stop or start has met another, no wstunnel runs that    *)
(* the manager does not refer to; and where the server is stopped with   *)
(* nothing under way, no process, scheduler or listener is left, but of  *)
(* a server that was restarted over a dead one (server_manager.py:       *)
(* start() and stop() share no lock).                                    *)
THEOREM ManagerStopsClean == SmSpec => []SmStoppedClean
<1>1. SmIInv => SmStoppedClean
  BY DEF SmIInv, SmWell, SmSafe, Referred, HandleFree, Attended, SmStoppedClean
<1> QED BY <1>1, ManagerInv, PTL

-----------------------------------------------------------------------------
(* The logs screen.                                                      *)

-----------------------------------------------------------------------------

\* Which values the variables take.
LwTypeOK ==
    /\ lwBuffer \in Seq(Nat) /\ lwTotal \in Nat /\ lwSeen \in Nat /\ lwShown \in Seq(Nat)
    /\ lwPhase \in {"off", "backfilled", "following"} /\ lwGap \in Nat \X Nat

\* The buffer holds the newest lines, in order.
Newest ==
    /\ Len(lwBuffer) <= lwTotal
    /\ \A i \in 1 .. Len(lwBuffer) : lwBuffer[i] = lwTotal - Len(lwBuffer) + i

\* The last line the screen may have been given.
Reach == IF lwPhase = "following" THEN lwSeen ELSE IF lwPhase = "off" THEN 0 ELSE lwGap[1]

\* What is on the screen is in order, without a line twice, and was
\* logged.
Rising ==
    /\ \A i, j \in 1 .. Len(lwShown) : i < j => lwShown[i] < lwShown[j]
    /\ \A i \in 1 .. Len(lwShown) : lwShown[i] <= Reach
    /\ Reach <= lwTotal

\* A line still in the buffer that is not on the screen.
Lacking(n) ==
    /\ n \in Nat /\ lwTotal - Len(lwBuffer) < n /\ n <= Reach
    /\ \A i \in 1 .. Len(lwShown) : lwShown[i] # n

\* A line that is missing from the screen was logged between the
\* backfill and the start of the watcher.
Complete == \A n \in Nat : Lacking(n) => lwPhase = "following" /\ lwGap[1] < n /\ n <= lwGap[2]

\* The invariant of the logs screen.
LwIInv == LwTypeOK /\ Newest /\ Rising /\ Complete

\* The lengths and the lines of what is kept.
LEMMA LwSizes ==
    ASSUME NEW s \in Seq(Nat)
    PROVE  Len(s) \in Nat /\ DOMAIN s = 1 .. Len(s) /\ \A i \in 1 .. Len(s) : s[i] \in Nat
BY LenProperties

\* The end of a sequence.
LEMMA LastOfIs ==
    ASSUME NEW s \in Seq(Nat), NEW n \in Nat
    PROVE  \E m \in Nat :
              /\ m <= Len(s) /\ m <= n /\ (m = n \/ m = Len(s))
              /\ LastOf(s, n) \in Seq(Nat) /\ Len(LastOf(s, n)) = m
              /\ \A i \in 1 .. m : LastOf(s, n)[i] = s[Len(s) - m + i]
<1> DEFINE l == Len(s)
<1>1. l \in Nat /\ l = Len(s) BY LwSizes
<1>2. \A i \in 1 .. l : s[i] \in Nat BY LwSizes
<1>3. LastOf(s, n) = SubSeq(s, l + 1 - (IF n < l THEN n ELSE l), l) BY DEF LastOf
<1> HIDE DEF l
<1>4. PICK m \in Nat : m <= l /\ m <= n /\ (m = n \/ m = l)
                       /\ LastOf(s, n) = SubSeq(s, l + 1 - m, l)
  <2>1. CASE n < l
    <3>1. LastOf(s, n) = SubSeq(s, l + 1 - n, l) BY <1>3, <2>1
    <3>2. n <= l BY <1>1, <2>1
    <3>3. n <= n /\ (n = n \/ n = l) OBVIOUS
    <3>4. WITNESS n \in Nat
    <3> QED BY <3>1, <3>2, <3>3
  <2>2. CASE ~(n < l)
    <3>1. LastOf(s, n) = SubSeq(s, l + 1 - l, l) BY <1>3, <2>2
    <3>2. l <= n BY <1>1, <2>2
    <3>3. l <= l /\ (l = n \/ l = l) BY <1>1
    <3> l \in Nat BY <1>1
    <3>4. WITNESS l \in Nat
    <3> QED BY <1>1, <3>1, <3>2, <3>3
  <2> QED BY <2>1, <2>2
<1> DEFINE b == l + 1 - m
<1>5. b \in Nat /\ b >= 1 /\ b <= l + 1 /\ l - b + 1 = m BY <1>1, <1>4
<1>6. LastOf(s, n) = SubSeq(s, b, l) BY <1>4
<1>7. \A i \in Nat : b + i - 1 = l - m + i BY <1>1
<1> HIDE DEF b
<1>8. /\ SubSeq(s, b, l) \in Seq(Nat)
      /\ Len(SubSeq(s, b, l)) = IF b <= l THEN l - b + 1 ELSE 0
      /\ \A i \in 1 .. l - b + 1 : SubSeq(s, b, l)[i] = s[b + i - 1]
  <2>1. \A i \in b .. l : s[i] \in Nat BY <1>1, <1>2, <1>5
  <2> QED BY <1>1, <1>5, <2>1, SubSeqProperties
<1>9. Len(SubSeq(s, b, l)) = m BY <1>1, <1>4, <1>5, <1>8
<1>10. ASSUME NEW i \in 1 .. m PROVE SubSeq(s, b, l)[i] = s[l - m + i]
  <2>1. SubSeq(s, b, l)[i] = s[b + i - 1] BY <1>5, <1>8
  <2>2. i \in Nat OBVIOUS
  <2>3. b + i - 1 = l - m + i BY <1>7, <2>2
  <2> QED BY <2>1, <2>3
<1>11. WITNESS m \in Nat
<1> QED BY <1>1, <1>4, <1>6, <1>8, <1>9, <1>10

(* At the start nothing is logged and nothing is shown.                  *)
LEMMA LwAtStart == LwInit => LwIInv
BY DEF LwInit, LwIInv, LwTypeOK, Newest, Rising, Complete, Lacking, Reach

(* A new line pushes the oldest one out of a full buffer.                *)
LEMMA LineKept == LwIInv /\ LogLine => LwIInv'
<1> SUFFICES ASSUME LwIInv, LogLine PROVE LwIInv' OBVIOUS
<1> DEFINE l == Len(lwBuffer)
           total == lwTotal
           t == Append(lwBuffer, total + 1)
<1>1. l \in Nat /\ total \in Nat /\ l <= total
  BY LwSizes DEF LwIInv, LwTypeOK, Newest
<1>2. t \in Seq(Nat) /\ Len(t) = l + 1 /\ t[l + 1] = total + 1
      /\ \A i \in 1 .. l : t[i] = lwBuffer[i]
  BY <1>1, AppendProperties DEF LwIInv, LwTypeOK
<1>3. lwBuffer' = LastOf(t, Capacity) /\ lwTotal' = total + 1 BY DEF LogLine
<1>4. \A i \in 1 .. l : lwBuffer[i] = total - l + i BY DEF LwIInv, Newest
<1>5. \A n \in Nat : Lacking(n) <=> total - l < n /\ n <= Reach /\ \A i \in 1 .. Len(lwShown) : lwShown[i] # n
  BY DEF Lacking
<1>6. UNCHANGED <<lwPhase, lwSeen, lwShown, lwGap>> BY DEF LogLine
<1>7. Reach' = Reach /\ Reach \in Nat /\ Reach <= total
  BY <1>6 DEF Reach, LwIInv, LwTypeOK, Rising
<1> HIDE DEF t, l, total
<1>8. PICK m \in Nat : /\ m <= Len(t) /\ m <= Capacity
                       /\ lwBuffer' \in Seq(Nat) /\ Len(lwBuffer') = m
                       /\ \A i \in 1 .. m : lwBuffer'[i] = t[Len(t) - m + i]
  BY <1>2, <1>3, LastOfIs, LogWatchAssumption
<1>9. ASSUME NEW i \in 1 .. l + 1 PROVE t[i] = total - l + i
  <2>1. CASE i = l + 1 BY <1>1, <1>2, <2>1
  <2>2. CASE i \in 1 .. l BY <1>2, <1>4, <2>2
  <2> QED BY <1>1, <2>1, <2>2
<1>10. ASSUME NEW i \in 1 .. m PROVE lwBuffer'[i] = lwTotal' - m + i
  <2>1. Len(t) - m + i \in 1 .. l + 1 /\ total - l + (Len(t) - m + i) = (total + 1) - m + i
    BY <1>1, <1>2, <1>8
  <2> QED BY <1>3, <1>8, <1>9, <2>1
<1>11. LwTypeOK' BY <1>1, <1>3, <1>6, <1>8 DEF LwIInv, LwTypeOK
<1>12. Newest'
  <2>1. m <= total + 1 BY <1>1, <1>2, <1>8
  <2> QED BY <1>3, <1>8, <1>10, <2>1 DEF Newest
<1>13. Rising' BY <1>1, <1>3, <1>6, <1>7 DEF LwIInv, Rising
<1>14. ASSUME NEW n \in Nat, Lacking(n)' PROVE Lacking(n)
  <2>1. total + 1 - m < n /\ n <= Reach /\ \A i \in 1 .. Len(lwShown) : lwShown[i] # n
    <3>1. lwTotal' - Len(lwBuffer') < n /\ n <= Reach' /\ \A i \in 1 .. Len(lwShown') : lwShown'[i] # n
      BY <1>14 DEF Lacking
    <3>2. lwTotal' - Len(lwBuffer') = total + 1 - m BY <1>1, <1>3, <1>8
    <3>3. lwShown' = lwShown BY <1>6
    <3> QED BY <1>7, <3>1, <3>2, <3>3
  <2>2. total - l < n BY <1>1, <1>2, <1>8, <2>1
  <2> QED BY <1>5, <2>1, <2>2
<1>15. Complete' BY <1>6, <1>14 DEF LwIInv, Complete
<1> QED BY <1>11, <1>12, <1>13, <1>15 DEF LwIInv

(* The backfill shows the end of the buffer, and the watcher begins to   *)
(* count where the log is then.                                          *)
LEMMA ShowsKept == LwIInv /\ (Backfill \/ StartWatcher) => LwIInv'
<1> SUFFICES ASSUME LwIInv, Backfill \/ StartWatcher PROVE LwIInv' OBVIOUS
<1>0. lwTotal \in Nat /\ Len(lwBuffer) \in Nat /\ Len(lwShown) \in Nat /\ Len(lwBuffer) <= lwTotal
      /\ lwGap \in Nat \X Nat
  BY LwSizes DEF LwIInv, LwTypeOK, Newest
<1>1. CASE Backfill
  <2>1. lwPhase' = "backfilled" /\ lwShown' = lwBuffer /\ lwGap' = <<lwTotal, lwTotal>>
        /\ UNCHANGED <<lwBuffer, lwTotal, lwSeen>>
    BY <1>1 DEF Backfill
  <2>2. LwTypeOK' BY <2>1 DEF LwIInv, LwTypeOK
  <2>3. Newest' BY <2>1 DEF LwIInv, Newest
  <2>4. Reach' = lwTotal BY <2>1 DEF Reach
  <2>5. \A i \in 1 .. Len(lwBuffer) : lwBuffer[i] = lwTotal - Len(lwBuffer) + i
    BY DEF LwIInv, Newest
  <2> DEFINE l == Len(lwBuffer)
             total == lwTotal
  <2>6. l \in Nat /\ total \in Nat /\ l <= total /\ \A i \in 1 .. l : lwBuffer[i] = total - l + i
    BY <1>0, <2>5
  <2>7. lwShown' = lwBuffer /\ l = Len(lwBuffer) /\ total = lwTotal BY <2>1
  <2> HIDE DEF l, total
  <2>8. /\ \A i, j \in 1 .. l : i < j => lwBuffer[i] < lwBuffer[j]
        /\ \A i \in 1 .. l : lwBuffer[i] <= total
    BY <2>6
  <2>9. Rising' BY <1>0, <2>1, <2>4, <2>7, <2>8 DEF Rising
  <2>10. ASSUME NEW n \in Nat, total - l < n, n <= total
         PROVE  \E i \in 1 .. l : lwBuffer[i] = n
    <3> DEFINE i == n - (total - l)
    <3>1. i \in 1 .. l /\ total - l + i = n BY <2>6, <2>10
    <3> HIDE DEF i
    <3> QED BY <2>6, <3>1
  <2>11. Complete' BY <2>1, <2>4, <2>7, <2>10 DEF Complete, Lacking
  <2> QED BY <2>2, <2>3, <2>9, <2>11 DEF LwIInv
<1>2. CASE StartWatcher
  <2>1. lwPhase = "backfilled" /\ lwPhase' = "following" /\ lwSeen' = lwTotal
        /\ lwGap' = <<lwGap[1], lwTotal>> /\ UNCHANGED <<lwBuffer, lwTotal, lwShown>>
    BY <1>2 DEF StartWatcher
  <2>2. LwTypeOK' BY <1>0, <2>1 DEF LwIInv, LwTypeOK
  <2>3. Newest' BY <2>1 DEF LwIInv, Newest
  <2>4. Reach' = lwTotal /\ Reach = lwGap[1] /\ Reach \in Nat BY <1>0, <2>1 DEF Reach
  <2>5. Rising'
    <3>1. Reach <= lwTotal /\ \A i \in 1 .. Len(lwShown) : lwShown[i] <= Reach /\ lwShown[i] \in Nat
      BY LwSizes DEF LwIInv, LwTypeOK, Rising
    <3>2. \A i \in 1 .. Len(lwShown) : lwShown[i] <= lwTotal BY <1>0, <2>4, <3>1
    <3> QED BY <1>0, <2>1, <2>4, <3>2 DEF LwIInv, Rising
  <2>6. lwGap'[1] = lwGap[1] /\ lwGap'[2] = lwTotal BY <2>1
  <2>7. ASSUME NEW n \in Nat, Lacking(n)'
        PROVE  lwGap[1] < n /\ n <= lwTotal
    <3>0. lwTotal - Len(lwBuffer) < n /\ n <= lwTotal /\ \A i \in 1 .. Len(lwShown) : lwShown[i] # n
      BY <2>1, <2>4, <2>7 DEF Lacking
    <3>1. CASE n <= Reach
      <4>1. Lacking(n) BY <3>0, <3>1 DEF Lacking
      <4> QED BY <2>1, <4>1 DEF LwIInv, Complete
    <3>2. CASE n > Reach BY <2>4, <3>0, <3>2
    <3> QED BY <2>4, <3>1, <3>2
  <2>8. Complete' BY <2>1, <2>6, <2>7 DEF Complete
  <2> QED BY <2>2, <2>3, <2>5, <2>8 DEF LwIInv
<1> QED BY <1>1, <1>2

\* What the watcher takes is what the buffer still has of the lines after its count.
LEMMA SinceIs ==
    ASSUME LwIInv, lwSeen <= lwTotal
    PROVE  \E m \in Nat :
              /\ m <= Len(lwBuffer) /\ m <= lwTotal - lwSeen
              /\ m = lwTotal - lwSeen \/ m = Len(lwBuffer)
              /\ Since(lwSeen) \in Seq(Nat) /\ Len(Since(lwSeen)) = m
              /\ \A i \in 1 .. m : Since(lwSeen)[i] = lwTotal - m + i
<1> DEFINE l == Len(lwBuffer)
           total == lwTotal
           seen == lwSeen
           k == total - seen
<1>1. l \in Nat /\ total \in Nat /\ seen \in Nat /\ k \in Nat /\ l <= total /\ lwBuffer \in Seq(Nat)
      /\ \A i \in 1 .. l : lwBuffer[i] = total - l + i
  BY LwSizes DEF LwIInv, LwTypeOK, Newest
<1>2. (k > 0 => Since(seen) = LastOf(lwBuffer, k)) /\ (k = 0 => Since(seen) = <<>>)
  BY <1>1 DEF Since
<1>3. l = Len(lwBuffer) /\ total = lwTotal /\ seen = lwSeen /\ k = lwTotal - lwSeen OBVIOUS
<1> HIDE DEF l, total, seen, k
<1>4. CASE k > 0
  <2>1. PICK m \in Nat : /\ m <= l /\ m <= k /\ (m = k \/ m = l)
                         /\ LastOf(lwBuffer, k) \in Seq(Nat) /\ Len(LastOf(lwBuffer, k)) = m
                         /\ \A i \in 1 .. m : LastOf(lwBuffer, k)[i] = lwBuffer[l - m + i]
    BY <1>1, <1>3, LastOfIs
  <2>2. ASSUME NEW i \in 1 .. m PROVE lwBuffer[l - m + i] = total - m + i
    <3>1. l - m + i \in 1 .. l /\ total - l + (l - m + i) = total - m + i BY <1>1, <2>1
    <3> QED BY <1>1, <3>1
  <2>3. WITNESS m \in Nat
  <2> QED BY <1>2, <1>3, <1>4, <2>1, <2>2
<1>5. CASE k = 0
  <2>1. Since(lwSeen) = <<>> BY <1>2, <1>3, <1>5
  <2>2. WITNESS 0 \in Nat
  <2> QED BY <1>1, <1>3, <1>5, <2>1
<1> QED BY <1>1, <1>4, <1>5

(* The watcher shows what it has not counted yet, as far as the buffer   *)
(* still has it.                                                         *)
LEMMA WatchKept == LwIInv /\ WatchLogs => LwIInv'
<1> SUFFICES ASSUME LwIInv, WatchLogs PROVE LwIInv' OBVIOUS
<1> DEFINE l == Len(lwBuffer)
           d == Len(lwShown)
           total == lwTotal
           seen == lwSeen
           new == Since(lwSeen)
<1>1. /\ l \in Nat /\ d \in Nat /\ total \in Nat /\ seen \in Nat /\ seen <= total /\ l <= total
      /\ Reach = seen /\ Reach' = total /\ lwShown \in Seq(Nat)
      /\ \A i, j \in 1 .. d : i < j => lwShown[i] < lwShown[j]
      /\ \A i \in 1 .. d : lwShown[i] <= seen /\ lwShown[i] \in Nat
  BY LwSizes DEF LwIInv, LwTypeOK, WatchLogs, Rising, Newest, Reach
<1>2. lwShown' = lwShown \o new /\ lwSeen' = total /\ UNCHANGED <<lwBuffer, lwTotal, lwPhase, lwGap>>
  BY DEF WatchLogs
<1>3. PICK m \in Nat : /\ m <= l /\ m <= total - seen /\ (m = total - seen \/ m = l)
                       /\ new \in Seq(Nat) /\ Len(new) = m
                       /\ \A i \in 1 .. m : new[i] = total - m + i
  BY <1>1, SinceIs
<1>4. l = Len(lwBuffer) /\ d = Len(lwShown) /\ total = lwTotal /\ seen = lwSeen OBVIOUS
<1> HIDE DEF l, d, total, seen, new
<1>5. lwShown' \in Seq(Nat) /\ Len(lwShown') = d + m
      /\ \A i \in 1 .. d + m : lwShown'[i] = IF i <= d THEN lwShown[i] ELSE new[i - d]
  <2>1. /\ lwShown \o new \in Seq(Nat) /\ Len(lwShown \o new) = Len(lwShown) + Len(new)
        /\ \A i \in 1 .. Len(lwShown) + Len(new) :
              (lwShown \o new)[i] = IF i <= Len(lwShown) THEN lwShown[i] ELSE new[i - Len(lwShown)]
    BY <1>1, <1>3, ConcatProperties
  <2> QED BY <1>2, <1>3, <1>4, <2>1
\* A line on the screen was there, or is one of the new ones.
<1>6. ASSUME NEW i \in 1 .. d + m
      PROVE  \/ i \in 1 .. d /\ lwShown'[i] = lwShown[i] /\ lwShown'[i] <= seen
             \/ i > d /\ lwShown'[i] = total - m + (i - d) /\ lwShown'[i] > seen /\ lwShown'[i] <= total
  <2>1. CASE i <= d
    <3>1. i \in 1 .. d BY <1>1, <1>3, <2>1
    <3>2. lwShown'[i] = lwShown[i] BY <1>5, <2>1
    <3> QED BY <1>1, <3>1, <3>2
  <2>2. CASE i > d
    <3>1. i - d \in 1 .. m /\ ~(i <= d) BY <1>1, <1>3, <2>2
    <3>2. lwShown'[i] = new[i - d] BY <1>5, <3>1
    <3>3. lwShown'[i] = total - m + (i - d) BY <1>3, <3>1, <3>2
    <3>4. total - m + (i - d) > seen /\ total - m + (i - d) <= total BY <1>1, <1>3, <3>1
    <3> QED BY <2>2, <3>3, <3>4
  <2> QED BY <1>1, <1>3, <2>1, <2>2
<1>7. LwTypeOK' BY <1>1, <1>2, <1>5 DEF LwIInv, LwTypeOK
<1>8. Newest' BY <1>2 DEF LwIInv, Newest
<1>9. Rising'
  <2>1. ASSUME NEW i \in 1 .. d + m, NEW j \in 1 .. d + m, i < j
        PROVE  lwShown'[i] < lwShown'[j]
    <3>1. CASE j \in 1 .. d
      <4>1. i \in 1 .. d BY <1>1, <1>3, <2>1, <3>1
      <4>2. lwShown[i] < lwShown[j] BY <1>1, <2>1, <3>1, <4>1
      <4>3. i <= d /\ j <= d BY <3>1, <4>1, <1>1
      <4> QED BY <1>5, <4>2, <4>3
    <3>2. CASE j > d /\ i \in 1 .. d
      <4>1. lwShown'[j] = total - m + (j - d) /\ lwShown'[j] > seen BY <1>1, <1>6, <3>2
      <4>2. lwShown'[i] = lwShown[i] /\ lwShown'[i] <= seen BY <1>1, <1>6, <3>2
      <4>3. lwShown[i] \in Nat /\ total - m + (j - d) \in Int BY <1>1, <1>3, <3>2
      <4> QED BY <1>1, <4>1, <4>2, <4>3
    <3>3. CASE j > d /\ i > d
      <4>1. lwShown'[i] = total - m + (i - d) /\ lwShown'[j] = total - m + (j - d)
        BY <1>1, <1>6, <3>3
      <4>2. total - m + (i - d) < total - m + (j - d) BY <1>1, <1>3, <2>1
      <4> QED BY <4>1, <4>2
    <3>4. i \in 1 .. d \/ i > d BY <1>1, <1>3
    <3>5. j \in 1 .. d \/ j > d BY <1>1, <1>3
    <3>6. j \in 1 .. d => i \in 1 .. d BY <1>1, <1>3, <2>1
    <3> QED BY <3>1, <3>2, <3>3, <3>4, <3>5, <3>6
  <2>2. ASSUME NEW i \in 1 .. d + m PROVE lwShown'[i] <= total
    <3>1. CASE i \in 1 .. d
      <4>1. i <= d BY <1>1, <3>1
      <4>2. lwShown'[i] = lwShown[i] BY <1>5, <4>1
      <4>3. lwShown[i] <= seen /\ lwShown[i] \in Nat BY <1>1, <3>1
      <4> QED BY <1>1, <4>2, <4>3
    <3>2. CASE i > d BY <1>1, <1>6, <3>2
    <3> QED BY <1>1, <1>3, <3>1, <3>2
  <2>3. total <= total BY <1>1
  <2> QED BY <1>1, <1>2, <1>4, <1>5, <2>1, <2>2, <2>3 DEF Rising
<1>10. ASSUME NEW n \in Nat, Lacking(n)' PROVE Lacking(n)
  <2>1. total - l < n /\ n <= total /\ \A i \in 1 .. d + m : lwShown'[i] # n
    <3>1. lwTotal' - Len(lwBuffer') < n /\ n <= Reach' /\ \A i \in 1 .. Len(lwShown') : lwShown'[i] # n
      BY <1>10 DEF Lacking
    <3> QED BY <1>1, <1>2, <1>4, <1>5, <3>1
  <2>2. n <= seen
    <3>1. SUFFICES ASSUME n > seen PROVE FALSE BY <1>1
    <3> DEFINE i == n - (total - m)
    <3>2. i \in 1 .. m /\ total - m + i = n
      <4>1. CASE m = total - seen BY <1>1, <1>3, <2>1, <3>1, <4>1
      <4>2. CASE m = l BY <1>1, <1>3, <2>1, <3>1, <4>2
      <4> QED BY <1>3, <4>1, <4>2
    <3> HIDE DEF i
    <3>3. d + i \in 1 .. d + m /\ ~(d + i <= d) /\ (d + i) - d = i BY <1>1, <1>3, <3>2
    <3>4. lwShown'[d + i] = new[i] BY <1>5, <3>3
    <3>5. lwShown'[d + i] = n BY <1>3, <3>2, <3>4
    <3> QED BY <2>1, <3>3, <3>5
  <2>3. ASSUME NEW i \in 1 .. d, lwShown[i] = n PROVE FALSE
    <3>1. i \in 1 .. d + m /\ i <= d BY <1>1, <1>3
    <3>2. lwShown'[i] = n BY <1>5, <2>3, <3>1
    <3> QED BY <2>1, <3>1, <3>2
  <2> QED BY <1>1, <1>4, <2>1, <2>2, <2>3 DEF Lacking
<1>11. Complete'
  <2>1. \A n \in Nat : Lacking(n) => lwPhase = "following" /\ lwGap[1] < n /\ n <= lwGap[2]
    BY DEF LwIInv, Complete
  <2> QED BY <1>2, <1>10, <2>1 DEF Complete
<1> QED BY <1>7, <1>8, <1>9, <1>11 DEF LwIInv

(* The invariant of the logs screen, for buffers and backfills of any    *)
(* size (logs.py; the log watcher of the panel).                         *)
THEOREM LogInv == LwSpec => []LwIInv
<1>1. LwInit => LwIInv BY LwAtStart
<1>2. ASSUME LwIInv, [LwNext]_lwVars PROVE LwIInv'
  <2>1. CASE UNCHANGED lwVars
    BY <1>2, <2>1 DEF lwVars, LwIInv, LwTypeOK, Newest, Rising, Complete, Lacking, Reach
  <2> QED BY <1>2, <2>1, LineKept, ShowsKept, WatchKept DEF LwNext
<1> QED BY <1>1, <1>2, PTL DEF LwSpec

(* What is shown is in order and nothing twice, and every line that is   *)
(* still in the buffer is shown once the watcher has looked, but for     *)
(* those logged between the backfill and the start of the watcher.       *)
THEOREM LogsShown == LwSpec => []LwShowsAll
<1>1. ASSUME LwIInv PROVE LwShowsAll
  <2> USE <1>1 DEF LwIInv, LwTypeOK
  <2>1. \A i, j \in DOMAIN lwShown : i < j => lwShown[i] < lwShown[j] BY LwSizes DEF Rising
  <2>2. ASSUME lwPhase = "following", NEW n \in ToSet(lwBuffer), n \notin ToSet(lwShown), n <= lwSeen
        PROVE  lwGap[1] < n /\ n <= lwGap[2]
    <3>1. PICK i \in 1 .. Len(lwBuffer) : n = lwBuffer[i] BY <2>2 DEF ToSet
    <3>2. n \in Nat /\ lwTotal - Len(lwBuffer) < n BY <3>1 DEF Newest
    <3>3. \A k \in 1 .. Len(lwShown) : lwShown[k] # n BY <2>2 DEF ToSet
    <3>4. Lacking(n) BY <2>2, <3>2, <3>3 DEF Lacking, Reach
    <3> QED BY <3>2, <3>4 DEF Complete
  <2>3. \A n \in ToSet(lwBuffer) : n \in Nat BY DEF ToSet
  <2> QED BY <2>1, <2>2, <2>3 DEF LwShowsAll
<1> QED BY <1>1, LogInv, PTL

-----------------------------------------------------------------------------
(* Sums over finite sets.                                                *)

\* The element that a fold takes next.
Pick(s) == CHOOSE x \in s : TRUE
\* What the elements of a set add up to, given what they add up to without one.
Part(f, g, s) == IF s = {} THEN 0 ELSE f[Pick(s)] + g[s \ {Pick(s)}]
\* The sums of all subsets, as the fold makes them.
Parts(f, g) == g = [s \in SUBSET DOMAIN f |-> Part(f, g, s)]
PartsOf(f) == CHOOSE g : Parts(f, g)

(* A property that fails for some subset of a finite set fails for one    *)
(* all of whose subsets have it.                                          *)
LEMMA MinimalSet ==
    ASSUME NEW D, IsFiniteSet(D), NEW F \in SUBSET (SUBSET D), F # {}
    PROVE  \E m \in F : \A s \in F : s \subseteq m => s = m
<1>1. F \subseteq FiniteSubsetsOf(D)
  BY FS_Subset DEF FiniteSubsetsOf
<1>2. PICK m \in F : \A s \in F : ~(<<s, m>> \in StrictSubsetOrdering(D))
  BY <1>1, FS_StrictSubsetOrderingWellFounded, WFMin
<1> QED BY <1>2 DEF StrictSubsetOrdering

(* The fold takes an element there is.                                   *)
LEMMA PickIn == ASSUME NEW s, s # {} PROVE Pick(s) \in s
BY DEF Pick

(* The library's fold is a function of all subsets of what it adds up.   *)
LEMMA SumIsPart ==
    ASSUME NEW f
    PROVE  SumOf(f) = PartsOf(f)[DOMAIN f]
BY DEF SumOf, MapThenSumSet, MapThenFoldSet, PartsOf, Parts, Part, Pick

(* A set of natural numbers has a least one.                             *)
LEMMA LeastNumber ==
    ASSUME NEW F \in SUBSET Nat, F # {}
    PROVE  \E n \in F : \A m \in F : n <= m
<1>1. PICK n \in F : \A m \in F : ~(<<m, n>> \in OpToRel(<, Nat))
  BY NatLessThanWellFounded, WFMin
<1>2. ASSUME NEW m \in F PROVE n <= m
  <2>1. ~(m < n) BY <1>1 DEF OpToRel
  <2> QED BY <2>1
<1> QED BY <1>2

(* The parts of a sum are there: by induction on their size.             *)
LEMMA PartsThere ==
    ASSUME NEW D, IsFiniteSet(D), NEW f \in [D -> Nat]
    PROVE  Parts(f, PartsOf(f))
<1> DEFINE Small(n) == {s \in SUBSET D : Cardinality(s) <= n}
           Good(n, g) == g \in [Small(n) -> Nat] /\ \A s \in Small(n) : g[s] = Part(f, g, s)
           Bad == {n \in Nat : \A g : ~Good(n, g)}
<1>1. ASSUME NEW s \in SUBSET D
      PROVE  IsFiniteSet(s) /\ Cardinality(s) \in Nat /\ (Cardinality(s) = 0 <=> s = {})
  BY FS_Subset, FS_CardinalityType, FS_EmptySet
<1>2. ASSUME NEW s \in SUBSET D, s # {}
      PROVE  /\ Pick(s) \in D /\ s \ {Pick(s)} \in SUBSET D
             /\ Cardinality(s \ {Pick(s)}) = Cardinality(s) - 1
  BY <1>1, <1>2, PickIn, FS_RemoveElement
<1>3. Good(0, [s \in Small(0) |-> 0])
  <2>1. \A s \in Small(0) : s = {}
    BY <1>1
  <2> QED BY <2>1 DEF Part
<1>4. ASSUME NEW n \in Nat, NEW g, Good(n, g)
      PROVE  \E h : Good(n + 1, h)
  <2> DEFINE h == [s \in Small(n + 1) |-> IF Cardinality(s) <= n THEN g[s] ELSE Part(f, g, s)]
  <2>1. ASSUME NEW s \in Small(n + 1), s # {}
        PROVE  s \ {Pick(s)} \in Small(n)
    BY <1>1, <1>2, <2>1
  <2>2. Small(n) \subseteq Small(n + 1)
    BY <1>1
  <2>3. ASSUME NEW s \in Small(n + 1)
        PROVE  Part(f, g, s) \in Nat
    BY <2>1, <1>2, <1>4 DEF Part
  <2>4. ASSUME NEW s \in Small(n + 1)
        PROVE  h[s] \in Nat /\ h[s] = Part(f, g, s)
    BY <2>3, <1>4, <1>1
  <2>5. ASSUME NEW s \in Small(n)
        PROVE  h[s] = g[s]
    BY <2>2, <2>5
  <2>6. ASSUME NEW s \in Small(n + 1)
        PROVE  Part(f, g, s) = Part(f, h, s)
    BY <2>1, <2>5 DEF Part
  <2> HIDE DEF Small
  <2>7. h \in [Small(n + 1) -> Nat]
    BY <2>4
  <2> HIDE DEF h
  <2> QED BY <2>4, <2>6, <2>7
<1>5. Bad = {}
  <2> SUFFICES ASSUME Bad # {} PROVE FALSE
    OBVIOUS
  <2> HIDE DEF Good, Small
  <2>1. PICK n \in Bad : \A m \in Bad : n <= m
    BY LeastNumber
  <2>2. n # 0
    BY <1>3
  <2>3. n - 1 \in Nat /\ ~(n <= n - 1) /\ (n - 1) + 1 = n
    BY <2>2
  <2>4. PICK g : Good(n - 1, g)
    BY <2>1, <2>3
  <2> QED BY <2>3, <2>4, <1>4
<1>6. Cardinality(D) \in Nat /\ \A s \in SUBSET D : s \in Small(Cardinality(D))
  BY FS_CardinalityType, FS_Subset
<1>7. PICK g : Good(Cardinality(D), g)
  BY <1>5, <1>6
<1>8. Small(Cardinality(D)) = SUBSET D
  BY <1>6
<1>9. Parts(f, g)
  <2>1. g \in [SUBSET D -> Nat] /\ \A s \in SUBSET D : g[s] = Part(f, g, s)
    BY <1>7, <1>8
  <2> QED BY <2>1 DEF Parts
<1> QED BY <1>9 DEF PartsOf

(* What the parts are, ...                                               *)
LEMMA PartIs ==
    ASSUME NEW D, IsFiniteSet(D), NEW f \in [D -> Nat], NEW s \in SUBSET D
    PROVE  PartsOf(f)[s] = Part(f, PartsOf(f), s)
BY PartsThere DEF Parts

(* ... that they are numbers, ...                                       *)
LEMMA PartNat ==
    ASSUME NEW D, IsFiniteSet(D), NEW f \in [D -> Nat]
    PROVE  \A s \in SUBSET D : PartsOf(f)[s] \in Nat
<1> DEFINE g == PartsOf(f)
           Bad == {s \in SUBSET D : g[s] \notin Nat}
<1> SUFFICES ASSUME Bad # {} PROVE FALSE
  OBVIOUS
<1>1. PICK m \in Bad : \A s \in Bad : s \subseteq m => s = m
  <2>1. Bad \in SUBSET (SUBSET D)
    OBVIOUS
  <2> HIDE DEF Bad
  <2> QED BY <2>1, MinimalSet
<1>2. g[m] = Part(f, g, m)
  BY PartIs
<1>3. CASE m = {}
  BY <1>1, <1>2, <1>3 DEF Part
<1>4. CASE m # {}
  <2>1. Pick(m) \in D /\ m \ {Pick(m)} \in SUBSET D /\ m \ {Pick(m)} # m
    BY <1>4, PickIn
  <2>2. g[m \ {Pick(m)}] \in Nat
    BY <2>1, <1>1
  <2> QED BY <2>1, <2>2, <1>1, <1>2, <1>4 DEF Part
<1> QED BY <1>3, <1>4

(* ... and that they only depend on the values in them.                  *)
LEMMA PartSame ==
    ASSUME NEW D, IsFiniteSet(D), NEW f \in [D -> Nat], NEW C \in SUBSET D,
           NEW e \in [C -> Nat], \A x \in C : e[x] = f[x]
    PROVE  \A s \in SUBSET C : PartsOf(e)[s] = PartsOf(f)[s]
<1> DEFINE g == PartsOf(f)
           h == PartsOf(e)
           Bad == {s \in SUBSET C : h[s] # g[s]}
<1> SUFFICES ASSUME Bad # {} PROVE FALSE
  OBVIOUS
<1>1. IsFiniteSet(C)
  BY FS_Subset
<1>2. PICK m \in Bad : \A s \in Bad : s \subseteq m => s = m
  <2>1. Bad \in SUBSET (SUBSET C)
    OBVIOUS
  <2> HIDE DEF Bad
  <2> QED BY <1>1, <2>1, MinimalSet
<1>3. g[m] = Part(f, g, m) /\ h[m] = Part(e, h, m)
  BY <1>1, PartIs
<1>4. CASE m = {}
  BY <1>2, <1>3, <1>4 DEF Part
<1>5. CASE m # {}
  <2>1. Pick(m) \in C /\ m \ {Pick(m)} \in SUBSET C /\ m \ {Pick(m)} # m
    BY <1>5, PickIn
  <2>2. g[m \ {Pick(m)}] = h[m \ {Pick(m)}]
    BY <2>1, <1>2
  <2> QED BY <2>1, <2>2, <1>2, <1>3, <1>5 DEF Part
<1> QED BY <1>4, <1>5

(* Any element may be taken away, not just the one the fold takes:       *)
(* addition does not mind the order.                                     *)
LEMMA PartRemove ==
    ASSUME NEW D, IsFiniteSet(D), NEW f \in [D -> Nat]
    PROVE  \A s \in SUBSET D : \A x \in s : PartsOf(f)[s] = f[x] + PartsOf(f)[s \ {x}]
<1> DEFINE g == PartsOf(f)
           Bad == {s \in SUBSET D : \E x \in s : g[s] # f[x] + g[s \ {x}]}
<1> SUFFICES ASSUME Bad # {} PROVE FALSE
  OBVIOUS
<1>1. PICK m \in Bad : \A s \in Bad : s \subseteq m => s = m
  <2>1. Bad \in SUBSET (SUBSET D)
    OBVIOUS
  <2> HIDE DEF Bad
  <2> QED BY <2>1, MinimalSet
<1>2. PICK x \in m : g[m] # f[x] + g[m \ {x}]
  OBVIOUS
<1> DEFINE p == Pick(m)
<1>3. m # {} /\ p \in m /\ g[m] = f[p] + g[m \ {p}]
  BY <1>2, PickIn, PartIs DEF Part
<1>4. p # x
  BY <1>2, <1>3
<1> HIDE DEF p, g
<1>5. m \ {p} \in SUBSET D /\ m \ {x} \in SUBSET D /\ m \ {p} # m /\ m \ {x} # m
  BY <1>2, <1>3
<1>6. g[m \ {p}] = f[x] + g[(m \ {p}) \ {x}]
  BY <1>1, <1>4, <1>5, <1>2
<1>7. g[m \ {x}] = f[p] + g[(m \ {x}) \ {p}]
  BY <1>1, <1>4, <1>5, <1>3
<1>8. (m \ {x}) \ {p} = (m \ {p}) \ {x}
  OBVIOUS
<1>9. f[x] \in Nat /\ f[p] \in Nat /\ g[(m \ {p}) \ {x}] \in Nat
  BY <1>2, <1>3, <1>5, PartNat DEF g
<1>10. g[m \ {x}] = f[p] + g[(m \ {p}) \ {x}]
  BY <1>7, <1>8
<1>11. \A fx, fp, gr \in Nat : fp + (fx + gr) = fx + (fp + gr)
  OBVIOUS
<1> QED BY <1>2, <1>3, <1>6, <1>9, <1>10, <1>11

(* A sum is a number, ...                                                *)
LEMMA SumNat ==
    ASSUME NEW D, IsFiniteSet(D), NEW f \in [D -> Nat]
    PROVE  SumOf(f) \in Nat
BY SumIsPart, PartNat

(* ... that of nothing is nought, ...                                    *)
LEMMA SumEmpty ==
    ASSUME NEW f, DOMAIN f = {}, f \in [{} -> Nat]
    PROVE  SumOf(f) = 0
BY SumIsPart, PartIs, FS_EmptySet DEF Part

\* The values but one.
Without(f, x) == [y \in DOMAIN f \ {x} |-> f[y]]

(* ... and any value may be taken out of it.                             *)
LEMMA SumRemove ==
    ASSUME NEW D, IsFiniteSet(D), NEW f \in [D -> Nat], NEW x \in D
    PROVE  SumOf(f) = f[x] + SumOf(Without(f, x))
<1> DEFINE e == Without(f, x)
<1>1. e \in [D \ {x} -> Nat] /\ \A y \in D \ {x} : e[y] = f[y]
  BY DEF Without
<1> HIDE DEF e
<1>2. PartsOf(e)[D \ {x}] = PartsOf(f)[D \ {x}]
  BY <1>1, PartSame
<1>3. PartsOf(f)[D] = f[x] + PartsOf(f)[D \ {x}]
  BY PartRemove
<1>4. DOMAIN e = D \ {x} /\ DOMAIN f = D
  BY <1>1
<1> QED BY <1>2, <1>3, <1>4, SumIsPart DEF e

(* Only noughts add up to nothing.                                       *)
LEMMA SumZero ==
    ASSUME NEW D, IsFiniteSet(D), NEW f \in [D -> Nat], \A x \in D : f[x] = 0
    PROVE  SumOf(f) = 0
<1> DEFINE g == PartsOf(f)
           Bad == {s \in SUBSET D : g[s] # 0}
<1> SUFFICES ASSUME Bad # {} PROVE FALSE
  BY SumIsPart
<1>1. PICK m \in Bad : \A s \in Bad : s \subseteq m => s = m
  <2>1. Bad \in SUBSET (SUBSET D)
    OBVIOUS
  <2> HIDE DEF Bad
  <2> QED BY <2>1, MinimalSet
<1>2. CASE m = {}
  BY <1>1, <1>2, PartIs DEF Part
<1>3. CASE m # {}
  <2>1. PICK x \in m : TRUE
    BY <1>3
  <2>2. g[m] = f[x] + g[m \ {x}]
    BY PartRemove
  <2>3. g[m \ {x}] = 0
    BY <1>1
  <2> QED BY <2>2, <2>3, <1>1
<1> QED BY <1>2, <1>3

(* A sum may be taken in classes.                                        *)
LEMMA SumInClasses ==
    ASSUME NEW D, IsFiniteSet(D), NEW f \in [D -> Nat],
           NEW K, IsFiniteSet(K), NEW class \in [D -> K]
    PROVE  SumOf(f) = SumOf([k \in K |-> SumOf([x \in {y \in D : class[y] = k} |-> f[x]])])
<1> DEFINE Of(s, k) == {y \in s : class[y] = k}
           Class(s, k) == SumOf([x \in Of(s, k) |-> f[x]])
           Classes(s) == [k \in K |-> Class(s, k)]
           Bad == {s \in SUBSET D : SumOf([x \in s |-> f[x]]) # SumOf(Classes(s))}
<1>1. ASSUME NEW s \in SUBSET D, NEW k \in K
      PROVE  /\ IsFiniteSet(s) /\ IsFiniteSet(Of(s, k))
             /\ [x \in s |-> f[x]] \in [s -> Nat]
             /\ [x \in Of(s, k) |-> f[x]] \in [Of(s, k) -> Nat]
  BY FS_Subset
<1>2. ASSUME NEW s \in SUBSET D, NEW k \in K
      PROVE  Class(s, k) \in Nat
  <2> DEFINE C == Of(s, k)
  <2> HIDE DEF C
  <2> QED BY <1>1, SumNat DEF C
<1>3. Bad = {}
  <2> SUFFICES ASSUME Bad # {} PROVE FALSE
    OBVIOUS
  <2>1. PICK m \in Bad : \A s \in Bad : s \subseteq m => s = m
    <3>1. Bad \in SUBSET (SUBSET D)
      OBVIOUS
    <3> HIDE DEF Bad
    <3> QED BY <3>1, MinimalSet
  <2>2. CASE m = {}
    <3>1. SumOf([x \in m |-> f[x]]) = 0
      BY <2>2, SumEmpty
    <3>2. ASSUME NEW k \in K PROVE Class(m, k) = 0
      <4>1. Of(m, k) = {}
        BY <2>2
      <4> HIDE DEF Of
      <4> QED BY <4>1, SumEmpty
    <3> HIDE DEF Class
    <3>3. Classes(m) \in [K -> Nat] /\ \A k \in K : Classes(m)[k] = 0
      BY <3>2
    <3> HIDE DEF Classes
    <3>4. SumOf(Classes(m)) = 0
      BY <3>3, SumZero
    <3> QED BY <2>1, <3>1, <3>4
  <2>3. CASE m # {}
    <3>1. PICK x \in m : TRUE
      BY <2>3
    <3> DEFINE n == m \ {x}
               c == class[x]
    <3>2. m \in SUBSET D /\ n \in SUBSET D /\ n # m /\ x \in D /\ c \in K /\ f[x] \in Nat
      BY <3>1
    <3>3. SumOf([y \in n |-> f[y]]) = SumOf(Classes(n))
      BY <2>1, <3>2
    <3>4. SumOf([y \in m |-> f[y]]) = f[x] + SumOf([y \in n |-> f[y]])
      <4> DEFINE e == [y \in m |-> f[y]]
      <4>1. e \in [m -> Nat] /\ IsFiniteSet(m) /\ e[x] = f[x]
        BY <1>1, <3>2
      <4>2. Without(e, x) = [y \in n |-> f[y]]
        BY DEF Without
      <4> HIDE DEF e, n
      <4>3. SumOf(e) = e[x] + SumOf(Without(e, x))
        BY <4>1, <3>1, SumRemove
      <4> QED BY <4>1, <4>2, <4>3 DEF e
    <3>5. Class(m, c) = f[x] + Class(n, c)
      <4> DEFINE e == [y \in Of(m, c) |-> f[y]]
      <4>1. e \in [Of(m, c) -> Nat] /\ IsFiniteSet(Of(m, c)) /\ e[x] = f[x] /\ x \in Of(m, c)
        BY <1>1, <3>2
      <4>2. Of(n, c) = Of(m, c) \ {x}
        OBVIOUS
      <4>3. Without(e, x) = [y \in Of(n, c) |-> f[y]]
        BY <4>2 DEF Without
      <4> HIDE DEF e, n, Of
      <4>4. SumOf(e) = e[x] + SumOf(Without(e, x))
        BY <4>1, SumRemove
      <4> QED BY <4>1, <4>3, <4>4 DEF e
    <3>6. ASSUME NEW k \in K \ {c} PROVE Class(m, k) = Class(n, k)
      <4>1. Of(m, k) = Of(n, k)
        OBVIOUS
      <4> HIDE DEF Of
      <4> QED BY <4>1
    <3> HIDE DEF Class, n, c
    <3>7. /\ Classes(m) \in [K -> Nat] /\ Classes(n) \in [K -> Nat]
          /\ Classes(m)[c] = f[x] + Classes(n)[c]
      BY <1>2, <3>2, <3>5
    <3> HIDE DEF Classes
    <3> DEFINE rest == Without(Classes(n), c)
    <3>8. rest \in [K \ {c} -> Nat]
      BY <3>7 DEF Without
    <3>9. Without(Classes(m), c) = rest
      <4>1. Without(Classes(m), c) = [k \in K \ {c} |-> Classes(m)[k]]
        BY <3>7 DEF Without
      <4>2. rest = [k \in K \ {c} |-> Classes(n)[k]]
        BY <3>7 DEF Without
      <4>3. \A k \in K \ {c} : Classes(m)[k] = Classes(n)[k]
        BY <3>6 DEF Classes
      <4> HIDE DEF rest
      <4> QED BY <4>1, <4>2, <4>3
    <3>10. /\ SumOf(Classes(m)) = Classes(m)[c] + SumOf(rest)
           /\ SumOf(Classes(n)) = Classes(n)[c] + SumOf(rest)
      BY <3>2, <3>7, <3>9, SumRemove
    <3>11. SumOf(rest) \in Nat /\ Classes(n)[c] \in Nat
      <4> HIDE DEF rest
      <4>1. IsFiniteSet(K \ {c})
        BY FS_RemoveElement
      <4> QED BY <3>2, <3>7, <3>8, <4>1, SumNat
    <3> QED BY <2>1, <3>2, <3>3, <3>4, <3>7, <3>10, <3>11
  <2> QED BY <2>2, <2>3
<1>4. SumOf([x \in D |-> f[x]]) = SumOf(Classes(D))
  BY <1>3
<1>5. [x \in D |-> f[x]] = f
  OBVIOUS
<1> QED BY <1>4, <1>5

-----------------------------------------------------------------------------
(* The table.                                                            *)
\* A row, with its history.
TrRow == [ts : Nat, key : Peers, bytes : Nat, moved : Nat, life : Nat]

\* What a later reading of a peer's counter says beside an earlier one: more has
\* moved, and what the counter shows since it last started over is part of it.
Follows(new, old) ==
    /\ old.moved <= new.moved /\ old.life <= new.life
    /\ old.life = new.life => new.bytes - old.bytes = new.moved - old.moved
    /\ old.life < new.life => new.bytes <= new.moved - old.moved

\* A table a scheduler may have written: one row for a peer and a moment, and rows
\* of a peer that follow one another.
Orderly(rows) ==
    /\ rows \subseteq TrRow /\ IsFiniteSet(rows)
    /\ \A q, r \in rows : q.key = r.key =>
          /\ q.ts = r.ts => q = r
          /\ q.ts < r.ts => Follows(r, q)

(* Part of such a table is one, too.                                     *)
LEMMA PartOrderly ==
    ASSUME NEW rows, Orderly(rows), NEW some \in SUBSET rows
    PROVE  Orderly(some)
BY FS_Subset DEF Orderly

(* A row's predecessor is the latest row of its peer before it.          *)
LEMMA LagIs ==
    ASSUME NEW rows, Orderly(rows), NEW r \in rows, NEW p \in Before(rows, r),
           \A o \in Before(rows, r) : o.ts <= p.ts
    PROVE  Lag(rows, r) = p
<1>1. ASSUME NEW q \in Before(rows, r), \A o \in Before(rows, r) : o.ts <= q.ts
      PROVE  q = p
  <2>1. q \in rows /\ p \in rows /\ q.key = p.key
    BY DEF Before
  <2>2. q.ts \in Nat /\ p.ts \in Nat /\ q.ts <= p.ts /\ p.ts <= q.ts
    BY <1>1, <2>1 DEF Orderly, TrRow
  <2> QED BY <2>1, <2>2 DEF Orderly
<1> QED BY <1>1 DEF Lag

(* Some row of a few is the last, ...                                    *)
LEMMA LastRow ==
    ASSUME NEW some, IsFiniteSet(some), some # {}, some \subseteq TrRow
    PROVE  \E n \in some : \A r \in some : r.ts <= n.ts
<1> DEFINE NotBefore(q) == {r \in some : q.ts <= r.ts}
           F == {NotBefore(q) : q \in some}
<1>1. F \in SUBSET (SUBSET some) /\ F # {}
  OBVIOUS
<1>2. PICK m \in F : \A s \in F : s \subseteq m => s = m
  <2> HIDE DEF F
  <2> QED BY <1>1, MinimalSet
<1>3. PICK n \in some : m = NotBefore(n)
  OBVIOUS
<1>4. ASSUME NEW r \in some, ~(r.ts <= n.ts)
      PROVE  FALSE
  <2>1. r.ts \in Nat /\ n.ts \in Nat /\ \A q \in some : q.ts \in Nat
    BY DEF TrRow
  <2>2. NotBefore(r) \subseteq m
    BY <1>3, <1>4, <2>1
  <2>3. NotBefore(r) = m
    BY <1>2, <2>2
  <2>4. n \in NotBefore(r)
    BY <1>3, <2>1, <2>3
  <2> QED BY <1>4, <2>1, <2>4
<1> QED BY <1>4

(* ... and one the first.                                                *)
LEMMA FirstRow ==
    ASSUME NEW some, some # {}, some \subseteq TrRow
    PROVE  \E f \in some : \A r \in some : f.ts <= r.ts
<1> DEFINE F == {r.ts : r \in some}
<1>1. F \in SUBSET Nat /\ F # {}
  BY DEF TrRow
<1> HIDE DEF F
<1>2. PICK n \in F : \A m \in F : n <= m
  BY <1>1, LeastNumber
<1> USE DEF F
<1>3. PICK f \in some : n = f.ts
  OBVIOUS
<1> QED BY <1>2, <1>3

(* A row without a predecessor adds nothing, another one the difference. *)
LEMMA DeltaNat ==
    ASSUME NEW rows, Orderly(rows), NEW r \in rows
    PROVE  /\ Delta(rows, r) \in Nat
           /\ Before(rows, r) = {} => Delta(rows, r) = 0
<1>1. CASE Before(rows, r) = {}
  BY <1>1 DEF Delta
<1>2. CASE Before(rows, r) # {}
  <2>1. IsFiniteSet(Before(rows, r)) /\ Before(rows, r) \subseteq TrRow
    BY FS_Subset DEF Before, Orderly
  <2>2. PICK p \in Before(rows, r) : \A o \in Before(rows, r) : o.ts <= p.ts
    BY <1>2, <2>1, LastRow
  <2>3. Lag(rows, r) = p
    BY <2>2, LagIs
  <2>4. p.bytes \in Nat /\ r.bytes \in Nat
    BY <2>1 DEF Orderly, TrRow
  <2> QED BY <2>3, <2>4, <1>2 DEF Delta
<1> QED BY <1>1, <1>2

\* Rows of a peer without a gap, the first of which is `first`.
Stretch(rows, some, first) ==
    /\ some \subseteq {r \in rows : r.key = first.key} /\ first \in some
    /\ \A r \in some : first.ts <= r.ts
    /\ \A r \in some : \A q \in rows :
          q.key = first.key /\ first.ts <= q.ts /\ q.ts <= r.ts => q \in some

(* What is told of rows without a gap fits them: every row adds what     *)
(* moved since its predecessor, or less if the counter started over.     *)
LEMMA StretchFits ==
    ASSUME NEW rows, Orderly(rows), NEW some, NEW first, Stretch(rows, some, first)
    PROVE  Fits(Total(rows, some \ {first}), some)
<1> DEFINE Told(s) == Total(rows, s \ {first})
           Bad == {s \in SUBSET rows : Stretch(rows, s, first) /\ ~Fits(Told(s), s)}
<1> SUFFICES ASSUME Bad # {} PROVE FALSE
  BY DEF Stretch
<1>1. PICK m \in Bad : \A s \in Bad : s \subseteq m => s = m
  <2>1. Bad \in SUBSET (SUBSET rows) /\ IsFiniteSet(rows)
    BY DEF Orderly
  <2> HIDE DEF Bad
  <2> QED BY <2>1, MinimalSet
<1>2. m \subseteq rows /\ Stretch(rows, m, first) /\ ~Fits(Told(m), m)
  OBVIOUS
<1>3. m # {} /\ IsFiniteSet(m) /\ m \subseteq TrRow /\ first \in m
  BY <1>2, FS_Subset DEF Stretch, Orderly
<1>4. PICK n \in m : \A r \in m : r.ts <= n.ts
  BY <1>3, LastRow
<1> DEFINE rest == m \ {n}
<1>5. CASE n = first
  <2>1. ASSUME NEW r \in m PROVE r = first
    <3>1. r.ts \in Nat /\ first.ts \in Nat /\ r.ts <= first.ts /\ first.ts <= r.ts
      BY <1>2, <1>3, <1>4, <1>5 DEF Stretch, TrRow
    <3> QED BY <3>1, <1>2 DEF Stretch, Orderly
  <2>2. m \ {first} = {}
    BY <2>1
  <2>3. Told(m) = 0
    <3> DEFINE e == [r \in m \ {first} |-> Delta(rows, r)]
    <3>1. DOMAIN e = {} /\ e \in [{} -> Nat]
      BY <2>2
    <3> HIDE DEF e
    <3>2. SumOf(e) = 0
      BY <3>1, SumEmpty
    <3> QED BY <3>2 DEF e, Total
  <2>4. first.ts \in Nat /\ first.moved \in Nat
    BY <1>3 DEF TrRow
  <2> HIDE DEF Told
  <2>5. Fits(0, m)
    BY <2>1, <2>4, <1>3 DEF Fits
  <2> QED BY <2>3, <2>5, <1>2
<1>6. CASE n # first
  <2>1. \A r, q \in m : r.ts \in Nat /\ r.moved \in Nat /\ r.life \in Nat /\ r.bytes \in Nat
    BY <1>3 DEF TrRow
  <2>2. ASSUME NEW r \in rest PROVE r.ts < n.ts
    <3>1. r \in rows /\ n \in rows /\ r.key = n.key /\ r # n
      BY <1>2 DEF Stretch
    <3>2. r.ts # n.ts
      BY <3>1 DEF Orderly
    <3> QED BY <3>2, <2>1, <1>4
  <2>3. Stretch(rows, rest, first)
    <3>1. /\ rest \subseteq {r \in rows : r.key = first.key}
          /\ first \in rest /\ \A r \in rest : first.ts <= r.ts
      BY <1>2, <1>6 DEF Stretch
    <3>2. ASSUME NEW r \in rest, NEW q \in rows, q.key = first.key, first.ts <= q.ts, q.ts <= r.ts
          PROVE  q \in rest
      <4>1. q \in m
        BY <3>2, <1>2 DEF Stretch
      <4>2. q.ts < n.ts
        BY <4>1, <3>2, <2>1, <2>2
      <4> QED BY <4>1, <4>2, <2>1
    <3> HIDE DEF rest
    <3> QED BY <3>1, <3>2 DEF Stretch
  <2>4. Fits(Told(rest), rest)
    <3>1. rest \in SUBSET rows /\ rest \subseteq m /\ rest # m
      BY <1>2
    <3> QED BY <1>1, <2>3, <3>1
  <2>5. PICK old, new \in rest :
           /\ \A r \in rest : old.ts <= r.ts /\ r.ts <= new.ts
           /\ Told(rest) <= new.moved - old.moved
           /\ old.life = new.life => Told(rest) = new.moved - old.moved
    BY <2>4 DEF Fits
  <2>6. Lag(rows, n) = new /\ Before(rows, n) # {}
    <3>1. new \in rows /\ n \in rows /\ new.key = first.key /\ n.key = first.key
      BY <1>2 DEF Stretch
    <3>2. new \in Before(rows, n)
      BY <2>2, <3>1 DEF Before
    <3>3. ASSUME NEW o \in Before(rows, n) PROVE o.ts <= new.ts
      <4>1. o \in rows /\ o.key = first.key /\ o.ts < n.ts /\ o.ts \in Nat
        BY <3>1 DEF Before, Orderly, TrRow
      <4>2. CASE first.ts <= o.ts
        <5>1. o.ts <= n.ts
          BY <4>1, <2>1
        <5>2. o \in m
          BY <4>1, <4>2, <5>1, <1>2 DEF Stretch
        <5>3. o # n
          BY <4>1, <2>1
        <5> QED BY <5>2, <5>3, <2>5
      <4>3. CASE ~(first.ts <= o.ts)
        <5>1. first \in rest
          BY <1>3, <1>6
        <5> QED BY <4>1, <4>3, <5>1, <2>1, <2>5
      <4> QED BY <4>2, <4>3
    <3> QED BY <3>1, <3>2, <3>3, LagIs
  <2>7. Follows(n, new)
    <3>1. new \in rows /\ n \in rows /\ new.key = n.key /\ new.ts < n.ts
      BY <1>2, <2>2 DEF Stretch
    <3> QED BY <3>1 DEF Orderly
  <2>8. /\ Delta(rows, n) \in Nat /\ Delta(rows, n) <= n.moved - new.moved
        /\ new.life = n.life => Delta(rows, n) = n.moved - new.moved
    <3>1. n \in m /\ new \in m
      OBVIOUS
    <3>2. Delta(rows, n) = IF n.bytes < new.bytes THEN 0 ELSE n.bytes - new.bytes
      BY <2>6 DEF Delta
    <3> QED BY <3>1, <3>2, <2>1, <2>7 DEF Follows
  <2>9. Told(m) = Delta(rows, n) + Told(rest) /\ Told(rest) \in Nat
    <3> DEFINE e == [r \in m \ {first} |-> Delta(rows, r)]
               d == [r \in rest \ {first} |-> Delta(rows, r)]
    <3>1. /\ e \in [m \ {first} -> Nat] /\ d \in [rest \ {first} -> Nat]
          /\ IsFiniteSet(m \ {first}) /\ IsFiniteSet(rest \ {first})
          /\ n \in m \ {first} /\ e[n] = Delta(rows, n)
      <4>1. \A r \in m : Delta(rows, r) \in Nat
        BY <1>2, DeltaNat
      <4> QED BY <4>1, <1>3, <1>6, FS_RemoveElement
    <3>2. (m \ {first}) \ {n} = rest \ {first}
      OBVIOUS
    <3>3. Without(e, n) = d
      BY <3>2 DEF Without
    <3> HIDE DEF e, d, rest
    <3>4. SumOf(e) = e[n] + SumOf(d) /\ SumOf(d) \in Nat
      BY <3>1, <3>3, SumRemove, SumNat
    <3> QED BY <3>1, <3>4 DEF e, d, Total
  <2> HIDE DEF Told
  <2>10. /\ old \in m /\ n \in m /\ old.life <= new.life /\ new.life <= n.life
         /\ \A r \in m : old.ts <= r.ts /\ r.ts <= n.ts
    <3>1. old = first
      <4>1. old.ts <= first.ts /\ first.ts <= old.ts
        BY <2>5, <1>3, <1>6, <1>2 DEF Stretch
      <4>2. old.ts = first.ts
        BY <4>1, <2>1, <1>3
      <4> QED BY <4>2, <1>2, <1>3 DEF Stretch, Orderly
    <3>2. old.life <= new.life
      <4>1. old.ts <= new.ts /\ old \in rows /\ new \in rows /\ old.key = new.key
        BY <2>5, <1>2 DEF Stretch
      <4>2. CASE old.ts = new.ts
        <5>1. old = new
          BY <4>1, <4>2 DEF Orderly
        <5> QED BY <5>1, <2>1
      <4>3. CASE old.ts < new.ts
        BY <4>1, <4>3 DEF Orderly, Follows
      <4> QED BY <4>1, <4>2, <4>3, <2>1
    <3> QED BY <3>1, <3>2, <2>7, <1>2, <1>4 DEF Follows, Stretch
  <2>11. /\ Told(m) <= n.moved - old.moved
         /\ old.life = n.life => Told(m) = n.moved - old.moved
    <3>1. old \in m /\ n \in m /\ new \in m
      OBVIOUS
    <3> HIDE DEF rest
    <3> QED BY <3>1, <2>1, <2>5, <2>8, <2>9, <2>10
  <2> QED BY <2>10, <2>11, <1>2 DEF Fits
<1> QED BY <1>5, <1>6

-----------------------------------------------------------------------------
(* What readers find.                                                    *)
(* What is made of the elements of a finite set is finite.               *)
LEMMA ImageFinite ==
    ASSUME NEW S, IsFiniteSet(S), NEW f, DOMAIN f = S
    PROVE  IsFiniteSet({f[x] : x \in S})
<1> DEFINE T == {f[x] : x \in S}
           g == [x \in S |-> f[x]]
<1>1. g \in Surjection(S, T)
  BY DEF Surjection
<1> HIDE DEF g, T
<1>2. IsFiniteSet(T)
  BY <1>1, FS_Surjection
<1> QED BY <1>2 DEF T

(* A total of rows is a number, ...                                      *)
LEMMA TotalNat ==
    ASSUME NEW rows, Orderly(rows), NEW some \in SUBSET rows
    PROVE  /\ Total(rows, some) \in Nat
           /\ some = {} => Total(rows, some) = 0
<1> DEFINE e == [r \in some |-> Delta(rows, r)]
<1>1. e \in [some -> Nat] /\ IsFiniteSet(some)
  BY DeltaNat, FS_Subset DEF Orderly
<1> HIDE DEF e
<1>2. SumOf(e) \in Nat /\ (some = {} => SumOf(e) = 0)
  BY <1>1, SumNat, SumEmpty
<1> QED BY <1>2 DEF e, Total

(* ... any row may be taken out of it, ...                               *)
LEMMA TotalRemove ==
    ASSUME NEW rows, Orderly(rows), NEW some \in SUBSET rows, NEW r \in some
    PROVE  Total(rows, some) = Delta(rows, r) + Total(rows, some \ {r})
<1> DEFINE e == [q \in some |-> Delta(rows, q)]
           d == [q \in some \ {r} |-> Delta(rows, q)]
<1>1. e \in [some -> Nat] /\ IsFiniteSet(some) /\ e[r] = Delta(rows, r)
  BY DeltaNat, FS_Subset DEF Orderly
<1>2. Without(e, r) = d
  BY DEF Without
<1> HIDE DEF e, d
<1>3. SumOf(e) = e[r] + SumOf(d)
  BY <1>1, <1>2, SumRemove
<1> QED BY <1>1, <1>3 DEF e, d, Total

(* ... and it may be taken in classes.                                   *)
LEMMA TotalInClasses ==
    ASSUME NEW rows, Orderly(rows), NEW some \in SUBSET rows,
           NEW K, IsFiniteSet(K), NEW class \in [some -> K]
    PROVE  Total(rows, some) =
               SumOf([k \in K |-> Total(rows, {r \in some : class[r] = k})])
<1> DEFINE e == [r \in some |-> Delta(rows, r)]
           Of(k) == {r \in some : class[r] = k}
<1>1. e \in [some -> Nat] /\ IsFiniteSet(some)
  BY DeltaNat, FS_Subset DEF Orderly
<1>2. ASSUME NEW k \in K
      PROVE  [r \in Of(k) |-> e[r]] = [r \in Of(k) |-> Delta(rows, r)]
  OBVIOUS
<1> HIDE DEF e
<1>3. SumOf(e) = SumOf([k \in K |-> SumOf([r \in Of(k) |-> e[r]])])
  BY <1>1, SumInClasses
<1>4. [k \in K |-> SumOf([r \in Of(k) |-> e[r]])] = [k \in K |-> Total(rows, Of(k))]
  <2> HIDE DEF Of
  <2>1. ASSUME NEW k \in K PROVE SumOf([r \in Of(k) |-> e[r]]) = Total(rows, Of(k))
    BY <1>2 DEF Total
  <2> QED BY <2>1
<1> QED BY <1>3, <1>4 DEF e, Total

(* All rows of a peer in a window: the first adds nothing.               *)
LEMMA WindowFits ==
    ASSUME NEW rows, Orderly(rows), NEW k \in {r.key : r \in rows}
    PROVE  LET seen == {r \in rows : r.key = k} IN Fits(Total(rows, seen), seen)
<1> DEFINE seen == {r \in rows : r.key = k}
<1>1. seen # {} /\ seen \subseteq TrRow /\ seen \in SUBSET rows
  BY DEF Orderly
<1>2. PICK f \in seen : \A r \in seen : f.ts <= r.ts
  <2> HIDE DEF seen
  <2> QED BY <1>1, FirstRow
<1>3. Stretch(rows, seen, f)
  BY <1>2 DEF Stretch
<1>4. Before(rows, f) = {}
  <2>1. ASSUME NEW q \in Before(rows, f) PROVE FALSE
    <3>1. q \in seen /\ q.ts < f.ts /\ f.ts <= q.ts /\ q.ts \in Nat /\ f.ts \in Nat
      BY <1>1, <1>2 DEF Before, TrRow
    <3> QED BY <3>1
  <2> QED BY <2>1
<1>5. f \in rows
  OBVIOUS
<1> HIDE DEF seen
<1>6. Total(rows, seen) = Total(rows, seen \ {f})
  <2>1. Delta(rows, f) = 0
    BY <1>4, <1>5, DeltaNat
  <2>2. Total(rows, seen \ {f}) \in Nat
    BY <1>1, TotalNat
  <2> QED BY <1>1, <2>1, <2>2, TotalRemove
<1>7. Fits(Total(rows, seen \ {f}), seen)
  BY <1>3, StretchFits
<1> QED BY <1>6, <1>7 DEF seen

(* top_talkers tells the truth, and hourly_buckets the same in all.      *)
LEMMA WindowTellsTruth ==
    ASSUME NEW rows, Orderly(rows), NEW since
    PROVE  LET told == TopTalkers(rows, since)
           IN  /\ \A k \in DOMAIN told :
                     Fits(told[k], {r \in From(rows, since) : r.key = k})
               /\ SumOf(HourlyBuckets(rows, since)) = SumOf(told)
<1> DEFINE w == From(rows, since)
           told == TopTalkers(rows, since)
           key == [r \in w |-> r.key]
           hour == [r \in w |-> r.ts \div Hour]
           Keys == {key[r] : r \in w}
           Hours == {hour[r] : r \in w}
<1>1. w \in SUBSET rows /\ Orderly(w) /\ IsFiniteSet(w)
  <2>1. w \in SUBSET rows
    BY DEF From
  <2> HIDE DEF w
  <2> QED BY <2>1, PartOrderly DEF Orderly
<1>2. Keys = {r.key : r \in w} /\ Hours = {r.ts \div Hour : r \in w}
  OBVIOUS
<1>3. told = [k \in Keys |-> Total(w, {r \in w : r.key = k})]
  BY <1>2 DEF TopTalkers
<1>4. HourlyBuckets(rows, since) = [h \in Hours |-> Total(w, {r \in w : r.ts \div Hour = h})]
  BY <1>2 DEF HourlyBuckets
<1>5. IsFiniteSet(Keys) /\ IsFiniteSet(Hours) /\ key \in [w -> Keys] /\ hour \in [w -> Hours]
  <2>1. DOMAIN key = w /\ DOMAIN hour = w
    OBVIOUS
  <2>2. key \in [w -> Keys] /\ hour \in [w -> Hours]
    OBVIOUS
  <2> HIDE DEF key, hour, w
  <2> QED BY <1>1, <2>1, <2>2, ImageFinite
<1> HIDE DEF w, told, Keys, Hours
<1>6. SumOf(told) = Total(w, w)
  <2>1. ASSUME NEW k \in Keys PROVE {r \in w : r.key = k} = {r \in w : key[r] = k}
    OBVIOUS
  <2> HIDE DEF key
  <2>2. told = [k \in Keys |-> Total(w, {r \in w : key[r] = k})]
    BY <1>3, <2>1
  <2> QED BY <1>1, <1>5, <2>2, TotalInClasses
<1>7. SumOf(HourlyBuckets(rows, since)) = Total(w, w)
  <2>1. ASSUME NEW h \in Hours PROVE {r \in w : r.ts \div Hour = h} = {r \in w : hour[r] = h}
    OBVIOUS
  <2> HIDE DEF hour
  <2>2. HourlyBuckets(rows, since) = [h \in Hours |-> Total(w, {r \in w : hour[r] = h})]
    BY <1>4, <2>1
  <2> QED BY <1>1, <1>5, <2>2, TotalInClasses
<1>8. ASSUME NEW k \in DOMAIN told
      PROVE  Fits(told[k], {r \in w : r.key = k})
  <2>1. k \in {r.key : r \in w} /\ told[k] = Total(w, {r \in w : r.key = k})
    BY <1>2, <1>3
  <2> QED BY <1>1, <2>1, WindowFits
<1> QED BY <1>6, <1>7, <1>8 DEF told, w

(* The newest bucket of a window holds the present.                      *)
LEMMA BucketIs ==
    ASSUME NEW now \in Nat, NEW buckets \in Nat, NEW ts \in Nat,
           SeriesStart(now, buckets) <= ts, ts <= now
    PROVE  /\ SeriesStart(now, buckets) \in Int
           /\ (ts - SeriesStart(now, buckets)) \div Hour \in 0..buckets - 1
<1> DEFINE last == (now \div Hour + 1) * Hour
           width == buckets * Hour
           start == SeriesStart(now, buckets)
           n == now \div Hour
<1>1. Hour \in Nat \ {0}
  BY TrafficAssumption
<1>2. n \in Nat
  BY <1>1
<1>3. now < last
  BY <1>1
<1>4. width \in Nat /\ last \in Nat
  BY <1>1, <1>2
<1>5. start = last - width
  <2> HIDE DEF n
  <2>1. (n + 1 - buckets) * Hour = (n + 1) * Hour - buckets * Hour
    BY <1>1, <1>2
  <2>2. start = (n + 1 - buckets) * Hour /\ last = (n + 1) * Hour
    BY DEF n, SeriesStart
  <2> QED BY <2>1, <2>2
<1> DEFINE m == ts - start
<1>6. start \in Int /\ m \in Nat /\ m < width
  <2> HIDE DEF last, width
  <2> QED BY <1>3, <1>4, <1>5
<1>7. m \div Hour \in Nat /\ m \div Hour < buckets
  <2> HIDE DEF m
  <2> QED BY <1>1, <1>6
<1> QED BY <1>6, <1>7

(* The rows that bound what is drawn of a peer are rows without a gap,    *)
(* and what is told of it is told of all of them but the first.          *)
LEMMA DrawnStretch ==
    ASSUME NEW start \in Int, Orderly(trRows), NEW k,
           NEW wide, wide = From(trRows, start - LookBack),
           NEW drawn, drawn = {r \in From(trRows, start) : Before(wide, r) # {}},
           k \in {r.key : r \in drawn}
    PROVE  Fits(Total(wide, {r \in drawn : r.key = k}), Drawn(k, start))
<1> DEFINE mine == {r \in wide : r.key = k}
           S == Drawn(k, start)
<1>1. /\ LookBack \in Nat /\ wide \in SUBSET trRows /\ Orderly(wide) /\ wide \subseteq TrRow
      /\ drawn \in SUBSET wide
  <2>1. LookBack \in Nat /\ wide \in SUBSET trRows
    BY TrafficAssumption DEF From
  <2>2. Orderly(wide) /\ wide \subseteq TrRow
    BY <2>1, PartOrderly DEF Orderly
  <2>3. ASSUME NEW r \in drawn PROVE r \in wide
    <3>1. r \in trRows /\ r.ts >= start /\ r.ts \in Nat
      BY DEF From, Orderly, TrRow
    <3> QED BY <2>1, <3>1 DEF From
  <2> QED BY <2>1, <2>2, <2>3
<1>2. S = {r \in mine : \A q \in mine : r.ts < q.ts => q.ts >= start}
  BY DEF Drawn
<1>3. \A r \in wide : r.ts \in Nat
  BY <1>1 DEF TrRow
<1>4. ASSUME NEW r \in drawn, r.key = k
      PROVE  r \in S /\ r.ts >= start
  <2>1. r \in mine /\ r.ts >= start
    BY <1>1, <1>4 DEF From
  <2> QED BY <1>2, <1>3, <2>1
<1>5. S # {} /\ S \subseteq TrRow
  BY <1>1, <1>2, <1>4
<1>6. PICK f \in S : \A r \in S : f.ts <= r.ts
  <2> HIDE DEF S
  <2> QED BY <1>5, FirstRow
<1>7. f \in wide /\ f.key = k /\ \A q \in mine : f.ts < q.ts => q.ts >= start
  BY <1>2
<1> HIDE DEF S
<1>8. Stretch(wide, S, f)
  <2>1. S \subseteq {r \in wide : r.key = f.key} /\ f \in S
    BY <1>2, <1>7
  <2>2. ASSUME NEW q \in wide, q.key = f.key, f.ts <= q.ts
        PROVE  q \in S
    BY <2>2, <1>2, <1>3, <1>7
  <2> QED BY <2>1, <2>2, <1>6 DEF Stretch
<1>9. ASSUME NEW r \in drawn, r.key = k PROVE r # f
  <2> SUFFICES ASSUME r = f PROVE FALSE
    OBVIOUS
  <2>1. Before(wide, f) # {} /\ IsFiniteSet(Before(wide, f)) /\ Before(wide, f) \subseteq TrRow
    BY <1>1, FS_Subset DEF Before, Orderly
  <2>2. PICK p \in Before(wide, f) : \A q \in Before(wide, f) : q.ts <= p.ts
    BY <2>1, LastRow
  <2>3. p \in mine /\ p.ts < f.ts /\ f.ts >= start
    BY <1>4, <1>7 DEF Before
  <2>4. ASSUME NEW q \in mine, p.ts < q.ts PROVE q.ts >= start
    <3>1. q \notin Before(wide, f)
      BY <2>2, <2>3, <2>4, <1>3
    <3>2. ~(q.ts < f.ts)
      BY <3>1, <1>7 DEF Before
    <3> QED BY <3>2, <2>3, <1>3, <1>7
  <2>5. p \in S
    BY <1>2, <2>3, <2>4
  <2> QED BY <2>3, <2>5, <1>3, <1>6, <1>7
<1>10. ASSUME NEW r \in S, r # f PROVE r \in drawn /\ r.key = k
  <2>1. r \in mine
    BY <1>2
  <2>2. f.ts # r.ts
    BY <1>1, <1>7, <1>10, <2>1 DEF Orderly
  <2>3. f.ts < r.ts
    BY <1>3, <1>6, <1>7, <2>1, <2>2
  <2>4. r.ts >= start /\ f \in Before(wide, r)
    BY <1>7, <2>1, <2>3 DEF Before
  <2> QED BY <1>1, <2>1, <2>4 DEF From
<1>11. {r \in drawn : r.key = k} = S \ {f}
  BY <1>4, <1>9, <1>10
<1>12. Fits(Total(wide, S \ {f}), S)
  BY <1>1, <1>8, StretchFits
<1> QED BY <1>11, <1>12 DEF S

(* series, and what the panel makes of it, tells the truth.              *)
LEMMA SeriesTellsTruth ==
    ASSUME Orderly(trRows), trNow \in Nat, \A r \in trRows : r.ts <= trNow,
           NEW buckets \in Nat
    PROVE  LET screen == GetTrafficHistory(trRows, trNow, buckets)
           IN  /\ \A k \in DOMAIN screen.per_client :
                     Fits(screen.per_client[k], Drawn(k, SeriesStart(trNow, buckets)))
               /\ screen.rx_total = SumOf(screen.per_client)
               /\ screen.rx_total > 0 => screen.has_data /\ screen.covered \in 0..buckets * Hour
<1> DEFINE screen == GetTrafficHistory(trRows, trNow, buckets)
           data == Series(trRows, trNow, buckets)
           start == SeriesStart(trNow, buckets)
           wide == From(trRows, start - LookBack)
           drawn == {r \in From(trRows, start) : Before(wide, r) # {}}
           key == [r \in drawn |-> r.key]
           bucket == [r \in drawn |-> (r.ts - start) \div Hour]
           Keys == {r.key : r \in drawn}
           Buckets == 0..buckets - 1
<1>1. start \in Int /\ LookBack \in Nat /\ Hour \in Nat \ {0}
  <2>1. LookBack \in Nat /\ Hour \in Nat \ {0}
    BY TrafficAssumption
  <2>2. trNow \div Hour \in Nat
    BY <2>1
  <2> QED BY <2>1, <2>2 DEF SeriesStart
<1> HIDE DEF start
<1>2. wide \in SUBSET trRows
  BY DEF From
<1>3. \A r \in drawn : r \in wide /\ r.ts >= start /\ r.ts <= trNow /\ r.ts \in Nat
  BY <1>1 DEF From, Orderly, TrRow
<1>4. Orderly(wide) /\ drawn \in SUBSET wide /\ IsFiniteSet(drawn)
  <2>1. drawn \in SUBSET wide
    BY <1>3
  <2> HIDE DEF wide, drawn
  <2> QED BY <1>2, <2>1, PartOrderly, FS_Subset DEF Orderly
<1>5. /\ data.rx = [i \in Buckets |-> Total(wide, {r \in drawn : (r.ts - start) \div Hour = i})]
      /\ data.per_key = [k \in Keys |-> Total(wide, {r \in drawn : r.key = k})]
      /\ From(trRows, start) # {} =>
            data.covered =
                trNow - Max({Min({r.ts : r \in From(trRows, start)}), trNow - buckets * Hour})
  BY DEF Series, start
<1>6. /\ screen.has_data = (DOMAIN data.per_key # {}) /\ screen.rx_total = SumOf(data.rx)
      /\ screen.per_client = data.per_key /\ screen.covered = data.covered
  BY DEF GetTrafficHistory
<1>7. key \in [drawn -> Keys] /\ IsFiniteSet(Keys)
  <2>1. DOMAIN key = drawn /\ key \in [drawn -> Keys] /\ Keys = {key[r] : r \in drawn}
    OBVIOUS
  <2> HIDE DEF key, drawn, Keys
  <2> QED BY <1>4, <2>1, ImageFinite
<1>8. bucket \in [drawn -> Buckets] /\ IsFiniteSet(Buckets)
  <2>1. IsFiniteSet(Buckets)
    BY FS_Interval
  <2>2. ASSUME NEW r \in drawn PROVE (r.ts - start) \div Hour \in Buckets
    <3> HIDE DEF drawn
    <3> QED BY <1>3, BucketIs DEF start
  <2> HIDE DEF drawn, Buckets
  <2> QED BY <2>1, <2>2
<1> HIDE DEF data, screen, wide, drawn, Keys, Buckets
<1>9. ASSUME NEW k \in DOMAIN screen.per_client
      PROVE  Fits(screen.per_client[k], Drawn(k, start))
  <2>1. k \in Keys /\ screen.per_client[k] = Total(wide, {r \in drawn : r.key = k})
    BY <1>5, <1>6
  <2> QED BY <1>1, <2>1, DrawnStretch DEF Keys, wide, drawn
<1>10. SumOf(data.per_key) = Total(wide, drawn)
  <2>1. ASSUME NEW k \in Keys PROVE {r \in drawn : r.key = k} = {r \in drawn : key[r] = k}
    OBVIOUS
  <2> HIDE DEF key
  <2>2. data.per_key = [k \in Keys |-> Total(wide, {r \in drawn : key[r] = k})]
    BY <1>5, <2>1
  <2> QED BY <1>4, <1>7, <2>2, TotalInClasses
<1>11. SumOf(data.rx) = Total(wide, drawn)
  <2>1. ASSUME NEW i \in Buckets
        PROVE  {r \in drawn : (r.ts - start) \div Hour = i} = {r \in drawn : bucket[r] = i}
    OBVIOUS
  <2> HIDE DEF bucket
  <2>2. data.rx = [i \in Buckets |-> Total(wide, {r \in drawn : bucket[r] = i})]
    BY <1>5, <2>1
  <2> QED BY <1>4, <1>8, <2>2, TotalInClasses
<1>12. ASSUME screen.rx_total > 0
       PROVE  screen.has_data /\ screen.covered \in 0..buckets * Hour
  <2>1. drawn # {}
    <3>1. Total(wide, drawn) > 0
      BY <1>6, <1>11, <1>12
    <3>2. ~(0 > 0)
      OBVIOUS
    <3> QED BY <1>4, <3>1, <3>2, TotalNat
  <2>2. screen.has_data
    <3>1. Keys # {}
      BY <2>1 DEF Keys
    <3>2. DOMAIN data.per_key = Keys
      BY <1>5
    <3> QED BY <3>1, <3>2, <1>6
  <2> DEFINE seen == {r.ts : r \in From(trRows, start)}
             first == Min(seen)
             from == trNow - buckets * Hour
             latest == Max({first, from})
  <2>3. From(trRows, start) # {} /\ seen # {} /\ seen \in SUBSET Nat /\ \A n \in seen : n <= trNow
    BY <2>1 DEF drawn, From, Orderly, TrRow
  <2>4. first \in Nat /\ first <= trNow
    <3> HIDE DEF seen
    <3>1. \E n \in seen : \A m \in seen : n <= m
      BY <2>3, LeastNumber
    <3>2. first \in seen
      BY <3>1 DEF Min
    <3> QED BY <2>3, <3>2
  <2>5. buckets * Hour \in Nat /\ from \in Int /\ from <= trNow /\ trNow - from = buckets * Hour
    <3>1. buckets * Hour \in Nat
      BY <1>1
    <3> QED BY <3>1
  <2>6. latest \in {first, from} /\ latest >= from
    <3> HIDE DEF first, from
    <3>1. \E x \in {first, from} : \A y \in {first, from} : x >= y
      BY <2>4, <2>5
    <3> QED BY <3>1 DEF Max
  <2>7. screen.covered = trNow - latest
    BY <2>3, <1>5, <1>6
  <2>8. screen.covered \in 0..buckets * Hour
    <3> HIDE DEF first, from, latest
    <3> QED BY <2>4, <2>5, <2>6, <2>7
  <2> QED BY <2>2, <2>8
<1> QED BY <1>6, <1>9, <1>10, <1>11, <1>12 DEF screen, start

-----------------------------------------------------------------------------
(* The scheduler and the counters.                                       *)

\* Counters that move on, a clock, and a scheduler with the rows it has read.
Counters ==
    /\ trNow \in Nat
    /\ trLive \in [Peers -> [on : BOOLEAN, bytes : Nat, moved : Nat, life : Nat]]
    /\ \A k \in Peers : trLive[k].bytes <= trLive[k].moved
    /\ trSampler = [at |-> trSampler.at, held |-> trSampler.held, stop |-> trSampler.stop]

\* What was written, and what was read to be written, is of the past.
OfThePast ==
    /\ Orderly(trRows)
    /\ \A r \in trRows : r.ts <= trNow /\ Follows(trLive[r.key], r)

\* What the scheduler has read is newer than what it has written.
Newer ==
    /\ trSampler.held \subseteq TrRow /\ IsFiniteSet(trSampler.held)
    /\ \A h \in trSampler.held :
          /\ Follows(trLive[h.key], h)
          /\ \A g \in trSampler.held : g.key = h.key => g = h
          /\ \A r \in trRows : r.key = h.key => Follows(h, r)

\* The invariant of the traffic history.
TrIInv == Counters /\ OfThePast /\ Newer

(* A row of the counters as they are now.                                *)
LEMMA RowIs ==
    ASSUME Counters, NEW k \in Peers, NEW ts \in Nat
    PROVE  /\ RowOf(k, ts) \in TrRow /\ RowOf(k, ts).ts = ts /\ RowOf(k, ts).key = k
           /\ Follows(trLive[k], RowOf(k, ts))
           /\ \A r : Follows(trLive[k], r) => Follows(RowOf(k, ts), r)
<1> DEFINE l == trLive[k]
<1>1. l \in [on : BOOLEAN, bytes : Nat, moved : Nat, life : Nat]
  BY DEF Counters
<1> HIDE DEF l
<1>2. RowOf(k, ts) = [ts |-> ts, key |-> k, bytes |-> l.bytes, moved |-> l.moved, life |-> l.life]
  BY DEF RowOf, l
<1> QED BY <1>1, <1>2 DEF TrRow, Follows, l

(* There is one for a peer.                                              *)
LEMMA RowsOf ==
    ASSUME Counters, NEW ts \in Nat, NEW seen \in SUBSET Peers
    PROVE  IsFiniteSet({RowOf(k, ts) : k \in seen})
<1> DEFINE f == [k \in seen |-> RowOf(k, ts)]
<1>1. IsFiniteSet(seen) /\ DOMAIN f = seen
  BY TrafficAssumption, FS_Subset
<1>2. {f[k] : k \in seen} = {RowOf(k, ts) : k \in seen}
  OBVIOUS
<1> HIDE DEF f
<1> QED BY <1>1, <1>2, ImageFinite

(* At first the table has nothing, or what an older version left.        *)
LEMMA InitTraffic == TrInit => TrIInv
<1> SUFFICES ASSUME TrInit PROVE TrIInv
  OBVIOUS
<1>1. Counters /\ trSampler.held = {} /\ trNow = 1
  BY DEF TrInit, Counters
<1>2. Newer
  BY <1>1, FS_EmptySet DEF Newer
<1>3. IsFiniteSet(trRows)
  BY <1>1, RowsOf, FS_EmptySet DEF TrInit
<1>4. \A r \in trRows : \E k \in Peers : r = RowOf(k, 0)
  BY DEF TrInit
<1>5. ASSUME NEW r \in trRows
      PROVE  /\ r \in TrRow /\ r.ts = 0 /\ Follows(trLive[r.key], r)
             /\ \A q \in trRows : q.key = r.key => q = r
  BY <1>1, <1>4, RowIs
<1>6. OfThePast
  BY <1>1, <1>3, <1>5 DEF OfThePast, Orderly
<1> QED BY <1>1, <1>2, <1>6 DEF TrIInv

(* The rows are written: ...                                             *)
LEMMA WriteKeeps == ASSUME TrIInv, WriteRows PROVE TrIInv'
<1> DEFINE held == trSampler.held
           New(h) == [h EXCEPT !.ts = trNow]
<1>1. PICK done \in SUBSET {New(h) : h \in held} :
        LET kept == {q \in trRows : \A r \in done : <<q.ts, q.key>> # <<r.ts, r.key>>}
            all == kept \union done
        IN  trRows' = all \/ trRows' = From(all, trNow - Retention)
  BY DEF WriteRows
<1> DEFINE kept == {q \in trRows : \A r \in done : <<q.ts, q.key>> # <<r.ts, r.key>>}
           all == kept \union done
<1>2. trRows' \subseteq all
  BY <1>1 DEF From
<1>3. Counters' /\ trNow' = trNow /\ trLive' = trLive /\ trSampler'.held = {} /\ trNow \in Nat
  BY DEF WriteRows, Counters, TrIInv
<1>4. Newer'
  BY <1>3, FS_EmptySet DEF Newer
<1>5. ASSUME NEW h \in held
      PROVE  /\ New(h) \in TrRow /\ New(h).ts = trNow /\ New(h).key = h.key /\ h.key \in Peers
             /\ Follows(trLive[h.key], New(h))
             /\ \A r : Follows(h, r) => Follows(New(h), r)
  <2>1. h \in TrRow /\ Follows(trLive[h.key], h)
    BY DEF TrIInv, Newer
  <2>2. New(h) = [ts |-> trNow, key |-> h.key,
                  bytes |-> h.bytes, moved |-> h.moved, life |-> h.life]
    BY <2>1 DEF TrRow
  <2> HIDE DEF New
  <2> QED BY <1>3, <2>1, <2>2 DEF TrRow, Follows
<1>6. IsFiniteSet(all)
  <2> DEFINE f == [h \in held |-> New(h)]
  <2>1. IsFiniteSet(held) /\ DOMAIN f = held /\ {f[h] : h \in held} = {New(h) : h \in held}
    BY DEF TrIInv, Newer
  <2>2. IsFiniteSet({New(h) : h \in held})
    <3> HIDE DEF f, New, held
    <3> QED BY <2>1, ImageFinite
  <2>3. IsFiniteSet(done) /\ IsFiniteSet(kept)
    <3> HIDE DEF New
    <3> QED BY <2>2, FS_Subset DEF TrIInv, OfThePast, Orderly
  <2> HIDE DEF kept
  <2> QED BY <2>3, FS_Union
<1>7. ASSUME NEW r \in all
      PROVE  r \in TrRow /\ r.ts <= trNow /\ Follows(trLive[r.key], r)
  <2>1. CASE r \in trRows
    BY <2>1 DEF TrIInv, OfThePast, Orderly
  <2>2. CASE r \in done
    <3>1. PICK h \in held : r = New(h)
      BY <2>2
    <3> HIDE DEF New
    <3> QED BY <1>3, <1>5, <3>1
  <2> QED BY <2>1, <2>2
<1>8. ASSUME NEW q \in all, NEW r \in all, q.key = r.key
      PROVE  (q.ts = r.ts => q = r) /\ (q.ts < r.ts => Follows(r, q))
  <2>1. CASE q \in kept /\ r \in kept
    BY <2>1, <1>8 DEF TrIInv, OfThePast, Orderly
  <2>2. CASE r \in done /\ q \in done
    <3>1. PICK h \in held, g \in held : r = New(h) /\ q = New(g)
      BY <2>2
    <3>2. g = h
      <4> HIDE DEF New
      <4>1. g.key = h.key
        BY <1>5, <1>8, <3>1
      <4> QED BY <4>1 DEF TrIInv, Newer
    <3>3. r = q
      BY <3>1, <3>2
    <3>4. ~(q.ts < r.ts)
      BY <3>3, <1>7 DEF TrRow
    <3> QED BY <3>3, <3>4
  <2>3. CASE r \in done /\ q \in kept
    <3>1. PICK h \in held : r = New(h)
      BY <2>3
    <3>2. q.ts # r.ts
      BY <2>3, <1>8
    <3>3. Follows(h, q)
      <4> HIDE DEF New
      <4>1. h.key = q.key
        BY <1>5, <1>8, <3>1
      <4> QED BY <4>1, <2>3 DEF TrIInv, Newer
    <3>4. Follows(r, q)
      <4> HIDE DEF New
      <4> QED BY <1>5, <3>1, <3>3
    <3> QED BY <3>2, <3>4
  <2>4. CASE r \in kept /\ q \in done
    <3>1. q.ts # r.ts
      BY <2>4, <1>8
    <3>2. q.ts = trNow /\ r.ts <= trNow /\ r.ts \in Nat
      <4>1. PICK h \in held : q = New(h)
        BY <2>4
      <4> HIDE DEF New
      <4> QED BY <4>1, <1>5, <1>7 DEF TrRow
    <3> QED BY <3>1, <3>2, <1>3
  <2> QED BY <2>1, <2>2, <2>3, <2>4
<1>9. OfThePast'
  <2> HIDE DEF all
  <2>1. Orderly(all)
    BY <1>6, <1>7, <1>8 DEF Orderly
  <2>2. Orderly(trRows')
    BY <1>2, <2>1, PartOrderly
  <2> QED BY <1>2, <1>3, <1>7, <2>2 DEF OfThePast, Orderly
<1> QED BY <1>3, <1>4, <1>9 DEF TrIInv

(* ... and the counters move on, or start over.                          *)
LEMMA MovesOn ==
    ASSUME TrIInv, UNCHANGED <<trNow, trRows, trSampler>>,
           trLive' \in [Peers -> [on : BOOLEAN, bytes : Nat, moved : Nat, life : Nat]],
           \A k \in Peers :
              \/ trLive'[k] = trLive[k]
              \/ /\ trLive'[k].bytes = trLive[k].bytes + 1 /\ trLive'[k].moved = trLive[k].moved + 1
                 /\ trLive'[k].life = trLive[k].life
              \/ /\ trLive'[k].bytes = 0 /\ trLive'[k].moved = trLive[k].moved
                 /\ trLive'[k].life = trLive[k].life + 1
    PROVE  TrIInv'
<1>1. ASSUME NEW k \in Peers
      PROVE  /\ trLive'[k].bytes <= trLive'[k].moved
             /\ trLive[k] \in [on : BOOLEAN, bytes : Nat, moved : Nat, life : Nat]
  BY DEF TrIInv, Counters
<1>2. ASSUME NEW r \in TrRow, Follows(trLive[r.key], r)
      PROVE  Follows(trLive'[r.key], r)
  <2>1. r.key \in Peers
    BY DEF TrRow
  <2>2. trLive[r.key].bytes <= trLive[r.key].moved
    BY <2>1 DEF TrIInv, Counters
  <2> QED BY <1>1, <1>2, <2>1, <2>2 DEF Follows, TrRow
<1> QED BY <1>1, <1>2 DEF TrIInv, Counters, OfThePast, Newer, Orderly

(* Every step of the scheduler, the counters and the clock.              *)
LEMMA TrafficStep == ASSUME TrIInv, [TrNext]_trVars PROVE TrIInv'
<1> USE DEF TrIInv
<1>1. CASE UNCHANGED trVars
  BY <1>1 DEF trVars, Counters, OfThePast, Newer
<1>2. CASE StartScheduler
  <2>1. trSampler'.held = {} /\ Counters'
    BY <1>2 DEF StartScheduler, Counters
  <2> QED BY <1>2, <2>1, FS_EmptySet DEF StartScheduler, OfThePast, Newer
<1>3. CASE ReadPeers
  <2>1. PICK seen \in SUBSET Peers : trSampler'.held = {RowOf(k, 0) : k \in seen}
    BY <1>3 DEF ReadPeers, LivePeers, Counters
  <2>2. Counters' /\ OfThePast'
    BY <1>3 DEF ReadPeers, Counters, OfThePast
  <2>3. IsFiniteSet({RowOf(k, 0) : k \in seen})
    BY RowsOf
  <2>4. UNCHANGED <<trNow, trLive, trRows>>
    BY <1>3 DEF ReadPeers
  <2>5. ASSUME NEW k \in seen
        PROVE  /\ RowOf(k, 0) \in TrRow /\ RowOf(k, 0).key = k
               /\ Follows(trLive[k], RowOf(k, 0))
               /\ \A r \in trRows : r.key = k => Follows(RowOf(k, 0), r)
    BY RowIs DEF OfThePast
  <2>6. Newer'
    BY <2>1, <2>3, <2>4, <2>5 DEF Newer
  <2> QED BY <2>2, <2>6
<1>4. CASE WriteRows
  BY <1>4, WriteKeeps
<1>5. CASE Wake \/ StopScheduler
  <2>1. trSampler'.held = trSampler.held /\ Counters' /\ UNCHANGED <<trNow, trLive, trRows>>
    BY <1>5 DEF Wake, StopScheduler, Counters
  <2> QED BY <2>1 DEF OfThePast, Newer
<1>6. ASSUME NEW k \in Peers, Transfer(k) PROVE TrIInv'
  BY <1>6, MovesOn DEF Transfer, Counters
<1>7. ASSUME NEW k \in Peers, PeerToggled(k) PROVE TrIInv'
  BY <1>7, MovesOn DEF PeerToggled, Counters
<1>8. CASE InterfaceRestarted
  <2>1. ASSUME NEW k \in Peers
        PROVE  /\ trLive[k] \in [on : BOOLEAN, bytes : Nat, moved : Nat, life : Nat]
               /\ trLive'[k] = [trLive[k] EXCEPT !.bytes = 0, !.life = @ + 1]
    BY <1>8 DEF InterfaceRestarted, Counters
  <2>2. ASSUME NEW k \in Peers
        PROVE  /\ trLive'[k] \in [on : BOOLEAN, bytes : Nat, moved : Nat, life : Nat]
               /\ trLive'[k].bytes = 0 /\ trLive'[k].moved = trLive[k].moved
               /\ trLive'[k].life = trLive[k].life + 1
    <3> DEFINE l == trLive[k]
               new == trLive'[k]
    <3>1. /\ l \in [on : BOOLEAN, bytes : Nat, moved : Nat, life : Nat]
          /\ new = [l EXCEPT !.bytes = 0, !.life = @ + 1]
      BY <2>1
    <3> HIDE DEF l, new
    <3>2. new = [on |-> l.on, bytes |-> 0, moved |-> l.moved, life |-> l.life + 1]
      BY <3>1
    <3>3. /\ new \in [on : BOOLEAN, bytes : Nat, moved : Nat, life : Nat]
          /\ new.bytes = 0 /\ new.moved = l.moved /\ new.life = l.life + 1
      BY <3>1, <3>2
    <3> QED BY <3>3 DEF l, new
  <2>3. trLive' \in [Peers -> [on : BOOLEAN, bytes : Nat, moved : Nat, life : Nat]]
    <3>1. trLive' = [k \in Peers |-> trLive'[k]]
      BY <1>8 DEF InterfaceRestarted
    <3> QED BY <2>2, <3>1
  <2>4. UNCHANGED <<trNow, trRows, trSampler>>
    BY <1>8 DEF InterfaceRestarted
  <2> QED BY <2>2, <2>3, <2>4, MovesOn
<1>9. CASE ClockMoves
  <2>1. Counters' /\ trNow' = trNow + 1 /\ UNCHANGED <<trLive, trRows, trSampler>>
    BY <1>9 DEF ClockMoves, Counters
  <2>2. Newer'
    BY <2>1 DEF Newer
  <2>3. OfThePast'
    BY <2>1 DEF OfThePast, Counters, Orderly, TrRow
  <2> QED BY <2>1, <2>2, <2>3
<1> QED BY <1>1, <1>2, <1>3, <1>4, <1>5, <1>6, <1>7, <1>8, <1>9 DEF TrNext

(* Whichever of the rows a reader finds, and in every window, no peer is   *)
(* told to have moved more than it did, and exactly what it did if its     *)
(* counter has not started over; the buckets that are drawn add up to the  *)
(* peers' totals (traffic_history.py: top_talkers, hourly_buckets, series; *)
(* api.py: get_traffic_history).                                           *)
THEOREM TellsTruth == TrSpec => []TrTellsTruth
<1>1. TrIInv => TrTellsTruth
  <2> SUFFICES ASSUME TrIInv PROVE TrTellsTruth
    OBVIOUS
  <2>1. Orderly(trRows) /\ trNow \in Nat /\ \A r \in trRows : r.ts <= trNow
    BY DEF TrIInv, OfThePast, Counters
  <2>2. \A buckets \in 1..MaxNow : buckets \in Nat
    BY TrafficAssumption
  <2> QED BY <2>1, <2>2, WindowTellsTruth, SeriesTellsTruth DEF TrTellsTruth
<1>2. TrIInv /\ [TrNext]_trVars => TrIInv'
  BY TrafficStep
<1> QED BY <1>1, <1>2, InitTraffic, PTL DEF TrSpec
=============================================================================
