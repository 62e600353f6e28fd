----------------------------- MODULE SelfUpdate -----------------------------
(***************************************************************************)
(* The three updaters: the Windows window (api.py, updater.py), `outwarp   *)
(* update` and `outwarp-server update` (cli.py).  Each asks for the latest *)
(* release, downloads its asset, checks it against the signed manifest and *)
(* installs it.  The window cannot replace its own files: it leaves a      *)
(* helper process behind that waits for it to exit, runs the installer and *)
(* brings the client back, and it quits only once the helper has said that *)
(* it runs.  The window downloads a release to the same file every time,   *)
(* and nothing stops a second update from being asked for while one runs.  *)
(***************************************************************************)
EXTENDS Naturals, Sequences, FiniteSets

CONSTANTS
    UpRuns,         \* threads and processes that run an update, by number
    MaxUpRuns,      \* bound: updates asked for
    MaxReleases     \* bound: releases published meanwhile

ASSUME SelfUpdateAssumption ==
    UpRuns \subseteq Nat \ {0} /\ MaxUpRuns \in Nat /\ MaxReleases \in Nat

Products == {"window", "client", "server"}
\* What a release publishes beside its assets: a manifest that is signed and names them,
\* or not (none, not signed by the release key, or without the asset).
Qualities == {"signed", "unsigned"}
Helpers == {"cmd", "powershell"}
Files == (UpRuns \X {0}) \cup ({0} \X (1 .. MaxReleases))

VARIABLES
    upQuality,      \* the releases published so far; the last one is the latest
    upVersion,      \* the installed release of each product
    upRun,          \* each run: [at, product, release, helper]
    upFile,         \* the downloads: "none", "part" or "whole"
    upReady,        \* outwarp-update.ready exists
    upHelper,       \* each run's helper: [at, release, left]: "none", "born", "waiting"
                    \* or "installing", the release it is to install, and whether
                    \* the process it waits for has exited
    upApp,          \* "up", or "gone" when it has quit for an update
    upTunnel,       \* the window's tunnel is up
    upFrozen,       \* the window is a packaged program: it knows the file that starts it
    upForsaken,     \* history: the helper that was started last said that it runs and has
                    \* not brought the client back
    upRan,          \* history: what was installed: [release, whole]
    upOverlap,      \* history: an update of the window began before the last one,
                    \* its helper included, was through
    upAsked

upVars == <<upQuality, upVersion, upRun, upFile, upReady, upHelper, upApp, upTunnel, upFrozen,
            upForsaken, upRan, upOverlap, upAsked>>

NoHelper == [at |-> "none", release |-> 0, left |-> FALSE]
NoRun == [at |-> "idle", product |-> "window", release |-> 0, helper |-> "cmd"]

UpInit ==
    /\ upQuality = <<>> /\ upVersion = [p \in Products |-> 0]
    /\ upRun = [u \in UpRuns |-> NoRun]
    /\ upFile = [f \in Files |-> "none"]
    /\ upReady = FALSE /\ upHelper = [u \in UpRuns |-> NoHelper]
    /\ upApp = "up" /\ upTunnel = TRUE /\ upFrozen \in BOOLEAN /\ upForsaken = FALSE
    /\ upRan = {} /\ upOverlap = FALSE /\ upAsked = 0

-----------------------------------------------------------------------------
(* Helpers.                                                                *)

Latest == Len(upQuality)
OfWindow(u) == upRun[u].product = "window"
\* The window's file is named for the release, in the temporary directory; the
\* command lines make a directory of their own.
FileOf(u) == IF OfWindow(u) THEN <<0, upRun[u].release>> ELSE <<u, 0>>
IsWhole(f) == upFile[f] = "whole"
HelperTo(u, label) == upHelper' = [upHelper EXCEPT ![u].at = label]
HelperEnds(u) == upHelper' = [upHelper EXCEPT ![u] = NoHelper]
RunTo(u, label) == upRun' = [upRun EXCEPT ![u].at = label]
RunEnds(u) == upRun' = [upRun EXCEPT ![u] = NoRun]
InWindow == {u \in UpRuns : upRun[u] # NoRun /\ OfWindow(u)}
UpdatesWindow(u) == u \in InWindow \/ upHelper[u] # NoHelper

UpFree(u) == upRun[u] = NoRun /\ upHelper[u] = NoHelper
SameWorld == UNCHANGED <<upQuality, upVersion, upApp, upFrozen, upRan, upOverlap, upAsked>>
SameFate == UNCHANGED <<upFrozen, upForsaken>>

-----------------------------------------------------------------------------
(* The release, the download, the check.                                   *)

PublishRelease ==
    /\ Latest < MaxReleases
    /\ \E q \in Qualities : upQuality' = Append(upQuality, q)
    /\ SameFate /\ UNCHANGED <<upVersion, upRun, upFile, upReady, upHelper, upApp, upTunnel, upRan,
                                upOverlap, upAsked>>

\* check_for_update: nothing to do without a newer release with an asset for this
\* product, or when it cannot be asked.
CheckForUpdate(u) ==
    /\ UpFree(u) /\ \A v \in UpRuns : v < u => ~UpFree(v)
    /\ upAsked < MaxUpRuns /\ upAsked' = upAsked + 1
    /\ \E p \in Products :
          /\ p = "window" => upApp = "up"
          /\ Latest > upVersion[p]
          /\ upRun' = [upRun EXCEPT ![u] = [NoRun EXCEPT !.at = "download", !.product = p,
                                                         !.release = Latest]]
          /\ upOverlap' = (upOverlap \/ (p = "window" /\ \E v \in UpRuns : UpdatesWindow(v)))
    /\ SameFate
    /\ UNCHANGED <<upQuality, upVersion, upFile, upReady, upHelper, upApp, upTunnel, upRan>>

\* download_installer opens the file for writing, ...
BeginDownload(u) ==
    /\ upRun[u].at = "download" /\ RunTo(u, "body")
    /\ upFile' = [upFile EXCEPT ![FileOf(u)] = "part"]
    /\ SameWorld /\ UNCHANGED <<upForsaken, upReady, upHelper, upTunnel>>

\* ... and fills it; a connection that drops is an error when it breaks the read
\* and goes unnoticed when it merely ends the body early.
EndDownload(u) ==
    /\ upRun[u].at = "body"
    /\ \/ RunEnds(u) /\ UNCHANGED upFile
       \/ /\ RunTo(u, "verify")
          /\ \E body \in {"part", "whole"} : upFile' = [upFile EXCEPT ![FileOf(u)] = body]
    /\ SameWorld /\ UNCHANGED <<upForsaken, upReady, upHelper, upTunnel>>

\* Mutant of Verified: a release without a signed manifest has nothing to check.
VerifiedIfPublished(u) == upQuality[upRun[u].release] # "signed" \/ IsWhole(FileOf(u))

\* verify_download, verify_wheel: the manifest is there, signed by the release key
\* and names the asset, and the file on disk has the digest it states.
Verified(u) == upQuality[upRun[u].release] = "signed" /\ IsWhole(FileOf(u))

\* A manifest or a signature that cannot be fetched fails the check too.
VerifyDownload(u) ==
    /\ upRun[u].at = "verify"
    /\ \/ RunEnds(u)
       \/ Verified(u) /\ RunTo(u, IF OfWindow(u) THEN "halt" ELSE "pip")
    /\ SameWorld /\ UNCHANGED <<upForsaken, upFile, upReady, upHelper, upTunnel>>

\* pip install --upgrade, for the two command lines; it may fail or time out, and
\* the temporary directory is removed.
PipInstall(u) ==
    /\ upRun[u].at = "pip" /\ RunEnds(u)
    /\ upFile' = [upFile EXCEPT ![FileOf(u)] = "none"]
    /\ \/ /\ upVersion' = [upVersion EXCEPT ![upRun[u].product] = upRun[u].release]
          /\ upRan' = upRan \cup {[release |-> upRun[u].release, whole |-> IsWhole(FileOf(u))]}
       \/ UNCHANGED <<upVersion, upRan>>
    /\ SameFate /\ UNCHANGED <<upQuality, upReady, upHelper, upApp, upTunnel, upOverlap, upAsked>>

-----------------------------------------------------------------------------
(* The window: _run_update after the check, _launch_installer.             *)

\* The tunnel is stopped before the installer is launched.
HaltTunnel(u) ==
    /\ upRun[u].at = "halt" /\ upTunnel' = FALSE
    /\ \E h \in Helpers :       \* cmd.exe first, unless the client is not elevated
          upRun' = [upRun EXCEPT ![u].at = "spawn", ![u].helper = h]
    /\ SameWorld /\ UNCHANGED <<upForsaken, upFile, upReady, upHelper>>

\* The next helper of the list, or none is left and the update fails.
NextHelper(u) ==
    upRun' = [upRun EXCEPT ![u] = IF upRun[u].helper = "cmd"
                                  THEN [upRun[u] EXCEPT !.at = "spawn", !.helper = "powershell"]
                                  ELSE NoRun]

\* The flag is removed and a helper started; it may not start at all.
SpawnHelper(u) ==
    /\ upRun[u].at = "spawn" /\ upReady' = FALSE /\ upForsaken' = FALSE
    /\ \/ /\ RunTo(u, "await")
          /\ upHelper' = [upHelper EXCEPT ![u] = [at |-> "born", release |-> upRun[u].release,
                                                  left |-> FALSE]]
       \/ NextHelper(u) /\ UNCHANGED upHelper
    /\ SameWorld /\ UNCHANGED <<upFile, upTunnel>>

\* Mutant of AwaitHelper: a helper that was started is as good as one that runs.
TrustHelper(u) ==
    /\ upRun[u].at = "await" /\ RunTo(u, "quit")
    /\ SameWorld /\ UNCHANGED <<upForsaken, upFile, upReady, upHelper, upTunnel>>

\* The flag is seen within six seconds; or the helper has exited or has not
\* written it by then, is killed, and the next one is tried.
AwaitHelper(u) ==
    /\ upRun[u].at = "await"
    /\ \/ upReady /\ RunTo(u, "quit") /\ UNCHANGED upHelper
       \/ NextHelper(u) /\ HelperEnds(u)
    /\ SameWorld /\ UNCHANGED <<upForsaken, upFile, upReady, upTunnel>>

\* _quit_for_update: the process ends, and every thread of it.
QuitForUpdate(u) ==
    /\ upRun[u].at = "quit" /\ upApp' = "gone"
    /\ upRun' = [v \in UpRuns |-> IF v \in InWindow THEN NoRun ELSE upRun[v]]
    /\ upHelper' = [v \in UpRuns |-> IF upHelper[v] = NoHelper THEN NoHelper
                                     ELSE [upHelper[v] EXCEPT !.left = TRUE]]
    /\ SameFate
    /\ UNCHANGED <<upQuality, upVersion, upFile, upReady, upTunnel, upRan, upOverlap, upAsked>>

\* The user connects again while an update is running, or after one failed.
ConnectMeanwhile ==
    /\ upApp = "up" /\ ~upTunnel /\ upTunnel' = TRUE
    /\ SameFate /\ UNCHANGED <<upQuality, upVersion, upRun, upFile, upReady, upHelper, upApp, upRan,
                                upOverlap, upAsked>>

-----------------------------------------------------------------------------
(* The helper: _update_batch, _update_powershell.                          *)

\* It writes the flag first; or it is blocked before it gets that far.
HelperReports(u) ==
    /\ upHelper[u].at = "born"
    /\ \/ HelperTo(u, "waiting") /\ upReady' = TRUE
       \/ HelperEnds(u) /\ UNCHANGED upReady
    /\ SameWorld /\ UNCHANGED <<upForsaken, upRun, upFile, upTunnel>>

\* The process it waits for has exited: the installer runs, unless elevation is
\* declined; it fails on a file that is not whole.  It may start the client that
\* it has installed, a packaged one.
HelperInstalls(u) ==
    /\ upHelper[u].at = "waiting" /\ upHelper[u].left /\ HelperTo(u, "installing")
    /\ \/ UNCHANGED <<upVersion, upApp, upFrozen, upRan>>
       \/ LET release == upHelper[u].release
              whole == IsWhole(<<0, release>>)
          IN  /\ upRan' = upRan \cup {[release |-> release, whole |-> whole]}
              /\ upVersion' = IF whole THEN [upVersion EXCEPT !["window"] = release]
                              ELSE upVersion
              /\ upApp' \in IF whole THEN {"up", "gone"} ELSE {upApp}
              /\ upFrozen' = (upFrozen \/ (whole /\ upApp' = "up"))
    /\ UNCHANGED <<upQuality, upRun, upFile, upReady, upTunnel, upForsaken, upOverlap, upAsked>>

\* ... and when it is still not running, the helper does, if it was told what to
\* start (client_exe is empty for a client that runs from its sources) and if that
\* can be started.
HelperRestarts(u) ==
    /\ upHelper[u].at = "installing" /\ HelperEnds(u)
    /\ \/ upApp = "up" /\ UNCHANGED <<upApp, upForsaken>>
       \/ upApp = "gone" /\ upFrozen /\ upApp' = "up" /\ UNCHANGED upForsaken
       \/ /\ upApp = "gone" /\ UNCHANGED upApp
          /\ upForsaken' = TRUE
    /\ UNCHANGED <<upQuality, upVersion, upRun, upFile, upReady, upTunnel, upFrozen, upRan,
                   upOverlap, upAsked>>

\* Nothing watches a helper that has written the flag: one that is killed while it
\* waits or while the installer runs leaves the client as it is.
HelperKilled(u) ==
    /\ upHelper[u].at \in {"waiting", "installing"} /\ HelperEnds(u)
    /\ upForsaken' = TRUE
    /\ SameWorld /\ UNCHANGED <<upRun, upFile, upReady, upTunnel>>

UpNext ==
    \/ PublishRelease \/ ConnectMeanwhile
    \/ \E u \in UpRuns :
          \/ CheckForUpdate(u) \/ BeginDownload(u) \/ EndDownload(u) \/ VerifyDownload(u)
          \/ PipInstall(u) \/ HaltTunnel(u) \/ SpawnHelper(u) \/ AwaitHelper(u)
          \/ QuitForUpdate(u) \/ HelperReports(u) \/ HelperInstalls(u) \/ HelperRestarts(u)
          \/ HelperKilled(u)

UpSpec == UpInit /\ [][UpNext]_upVars

-----------------------------------------------------------------------------
(* Properties.                                                             *)

\* Nothing is installed but whole assets of releases whose manifest is signed and
\* names them, whatever is published and however downloads break; unless an update
\* of the window met another one, when it may truncate the file that one has checked.
\* (api.py: "Verify the download [...] before we run it".)
UpInstallsVerified ==
    ~upOverlap => \A f \in upRan : f.whole /\ upQuality[f.release] = "signed"

\* A client that has quit for an update has a helper at work, one that has said that
\* it runs; or that very helper came to grief after it had said so: it was killed,
\* or the client did not start, or the helper did not know what to start (a client
\* that runs from its sources).  Unless two updates met.  (api.py: "closing the app
\* with nothing left to install or relaunch it reads as a crash".)
UpComesBack ==
    upApp = "gone" /\ ~upOverlap =>
        upForsaken \/ \E u \in UpRuns : upHelper[u].at \in {"waiting", "installing"}
=============================================================================
