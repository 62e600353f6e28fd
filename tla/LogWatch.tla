------------------------------ MODULE LogWatch ------------------------------
(***************************************************************************)
(* The Logs screen: lines that any thread logs go into a buffer of fixed   *)
(* size (MemoryLogHandler, logs.py), and a watcher that wakes four times a *)
(* second takes what is new by counting the lines ever emitted (api.py).   *)
(* What was in the buffer when the interface came up is shown first.       *)
(* Lines are numbered in the order in which they are emitted.              *)
(***************************************************************************)
EXTENDS Naturals, SequencesExt

CONSTANTS
    Capacity,   \* of the buffer
    MaxLines    \* bound: lines emitted

ASSUME LogWatchAssumption == Capacity \in Nat \ {0} /\ MaxLines \in Nat

VARIABLES
    lwBuffer,  \* MemoryLogHandler._buf
    lwTotal,   \* MemoryLogHandler._total
    lwPhase,   \* the interface: "off", "backfilled" or "following"
    lwSeen,    \* the watcher's count
    lwShown,   \* the lines the interface was given
    lwGap      \* history: [from, to) emitted between the backfill and the watcher

lwVars == <<lwBuffer, lwTotal, lwPhase, lwSeen, lwShown, lwGap>>

LwInit ==
    /\ lwBuffer = <<>> /\ lwTotal = 0 /\ lwPhase = "off" /\ lwSeen = 0 /\ lwShown = <<>>
    /\ lwGap = <<0, 0>>

LastOf(s, n) == SubSeq(s, Len(s) + 1 - (IF n < Len(s) THEN n ELSE Len(s)), Len(s))

LogLine ==
    /\ lwTotal < MaxLines /\ lwTotal' = lwTotal + 1
    /\ lwBuffer' = LastOf(Append(lwBuffer, lwTotal + 1), Capacity)
    /\ UNCHANGED <<lwPhase, lwSeen, lwShown, lwGap>>

\* bind_window, start_background: a snapshot is recorded.
Backfill ==
    /\ lwPhase = "off" /\ lwPhase' = "backfilled"
    /\ lwShown' = lwBuffer /\ lwGap' = <<lwTotal, lwTotal>>
    /\ UNCHANGED <<lwBuffer, lwTotal, lwSeen>>

\* _start_log_watcher: it counts from here.
StartWatcher ==
    /\ lwPhase = "backfilled" /\ lwPhase' = "following"
    /\ lwSeen' = lwTotal /\ lwGap' = <<lwGap[1], lwTotal>>
    /\ UNCHANGED <<lwBuffer, lwTotal, lwShown>>

\* Mutant of Since: the watcher's count is taken for a place in the buffer.
SinceIndex(seen) == SubSeq(lwBuffer, seen + 1, Len(lwBuffer))

\* MemoryLogHandler.since: what the buffer still holds of the lines after `seen`.
Since(seen) == IF lwTotal > seen THEN LastOf(lwBuffer, lwTotal - seen) ELSE <<>>

WatchLogs ==
    /\ lwPhase = "following"
    /\ lwShown' = lwShown \o Since(lwSeen) /\ lwSeen' = lwTotal
    /\ UNCHANGED <<lwBuffer, lwTotal, lwPhase, lwGap>>

LwNext == LogLine \/ Backfill \/ StartWatcher \/ WatchLogs

LwSpec == LwInit /\ [][LwNext]_lwVars

\* The screen shows lines in order and none twice; of the lines the buffer still
\* holds it lacks only those the watcher has not come to and those emitted
\* between the backfill and its start.
LwShowsAll ==
    /\ \A i, j \in DOMAIN lwShown : i < j => lwShown[i] < lwShown[j]
    /\ lwPhase = "following" =>
          \A n \in ToSet(lwBuffer) :
             n \in ToSet(lwShown) \/ n > lwSeen \/ (lwGap[1] < n /\ n <= lwGap[2])
=============================================================================
