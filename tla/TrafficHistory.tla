---------------------------- MODULE TrafficHistory ----------------------------
(***************************************************************************)
(* The traffic shown by the panel and the TUI.  A scheduler thread of the  *)
(* running server writes the raw counters of every WireGuard peer into an  *)
(* SQLite table once an interval; whoever reads it works the differences   *)
(* out from consecutive rows (traffic_history.py).  The counters start     *)
(* over with the interface, a row is a transaction of its own, and rows    *)
(* leave after the retention.  Sent and received bytes are treated alike:  *)
(* one counter stands for both.  One scheduler thread at a time is assumed *)
(* here, and a clock that does not go back.                                *)
(***************************************************************************)
EXTENDS Integers, FiniteSets, FiniteSetsExt

CONSTANTS
    Peers,        \* public keys
    Hour,         \* the length of a bucket
    LookBack,     \* how far `series` looks behind its window
    Retention,    \* of rows
    MaxNow,       \* bound: the clock
    MaxMoved,     \* bound: bytes in all
    MaxBacks      \* bound: counters that start over

ASSUME TrafficAssumption ==
    /\ Hour \in Nat \ {0} /\ LookBack \in Nat /\ Retention \in Nat /\ MaxNow \in Nat
    /\ IsFiniteSet(Peers)

VARIABLES
    trNow,      \* the clock
    trLive,     \* get_live_peers: the counter, and what really moved in which life
    trRows,     \* the snapshot table
    trSampler   \* the scheduler thread: where it is, what it has read, and its _stop

trVars == <<trNow, trLive, trRows, trSampler>>

\* A row: `moved` and `life` are history, the rest is the table's.
RowOf(k, ts) == [ts |-> ts, key |-> k, bytes |-> trLive[k].bytes,
                 moved |-> trLive[k].moved, life |-> trLive[k].life]

-----------------------------------------------------------------------------
(* Reading: differences between a peer's consecutive rows.                 *)

From(rows, since) == {r \in rows : r.ts >= since}
Before(rows, r) == {q \in rows : q.key = r.key /\ q.ts < r.ts}

\* LAG(...) OVER (PARTITION BY public_key ORDER BY ts).
Lag(rows, r) == CHOOSE q \in Before(rows, r) : \A o \in Before(rows, r) : o.ts <= q.ts

\* What a row adds: nothing without a predecessor or when the counter went back.
Delta(rows, r) ==
    IF Before(rows, r) = {} \/ r.bytes < Lag(rows, r).bytes THEN 0
    ELSE r.bytes - Lag(rows, r).bytes

SumOf(f) == MapThenSumSet(LAMBDA x : f[x], DOMAIN f)
Total(rows, some) == SumOf([r \in some |-> Delta(rows, r)])

\* Mutant of TopTalkers: the largest counter of the window less the smallest.
TopTalkersMaxMin(rows, since) ==
    LET seen(k) == {r.bytes : r \in {q \in From(rows, since) : q.key = k}}
    IN  [k \in {r.key : r \in From(rows, since)} |-> Max(seen(k)) - Min(seen(k))]

\* top_talkers, without its limit.
TopTalkers(rows, since) ==
    LET window == From(rows, since)
    IN  [k \in {r.key : r \in window} |-> Total(window, {r \in window : r.key = k})]

\* hourly_buckets.
HourlyBuckets(rows, since) ==
    LET window == From(rows, since)
    IN  [h \in {r.ts \div Hour : r \in window} |->
            Total(window, {r \in window : r.ts \div Hour = h})]

\* The window of `series`: its newest bucket holds `now`.
SeriesStart(now, buckets) == (now \div Hour + 1 - buckets) * Hour

\* series: dense buckets, the peers' totals, and the stretch that has snapshots.
Series(rows, now, buckets) ==
    LET start == SeriesStart(now, buckets)
        wide == From(rows, start - LookBack)
        drawn == {r \in From(rows, start) : Before(wide, r) # {}}
        first == Min({r.ts : r \in From(rows, start)})
    IN  [rx |-> [i \in 0..buckets - 1 |->
                    Total(wide, {r \in drawn : (r.ts - start) \div Hour = i})],
         per_key |-> [k \in {r.key : r \in drawn} |->
                         Total(wide, {r \in drawn : r.key = k})],
         covered |-> IF From(rows, start) = {} THEN 0
                     ELSE now - Max({first, now - buckets * Hour})]

\* Api.get_traffic_history, of a window of so many buckets.
GetTrafficHistory(rows, now, buckets) ==
    LET data == Series(rows, now, buckets)
    IN  [has_data |-> DOMAIN data.per_key # {}, rx_total |-> SumOf(data.rx),
         per_client |-> data.per_key, covered |-> data.covered]

-----------------------------------------------------------------------------
(* The scheduler thread.                                                   *)

\* _adopt_legacy_db: the history begins empty, or with what an older version left.
TrInit ==
    /\ trNow = 1
    /\ trLive = [k \in Peers |-> [on |-> TRUE, bytes |-> 0, moved |-> 0, life |-> 0]]
    /\ trRows \in {{}, {RowOf(k, 0) : k \in Peers}}
    /\ trSampler = [at |-> "off", held |-> {}, stop |-> FALSE]

SamplerAt(where) == trSampler.at = where

\* build_scheduler and its start, once an earlier thread has ended.
StartScheduler ==
    /\ SamplerAt("off")
    /\ trSampler' = [at |-> "due", held |-> {}, stop |-> FALSE]
    /\ UNCHANGED <<trNow, trLive, trRows>>

\* get_live_peers: the interface's peers, or none if `wg` cannot be asked.
LivePeers == {{}, {k \in Peers : trLive[k].on}}

\* snapshot: the peers' counters are read (without any there is nothing to write).
ReadPeers ==
    /\ SamplerAt("due")
    /\ \E seen \in LivePeers :
          trSampler' = [trSampler EXCEPT !.at = IF seen = {} THEN "waiting" ELSE "read",
                                         !.held = {RowOf(k, 0) : k \in seen}]
    /\ UNCHANGED <<trNow, trLive, trRows>>

\* INSERT OR REPLACE row after row, with the clock as it is by now, and then DELETE
\* for the rows past their retention.  A locked database or a full disk ends it
\* anywhere; what is written stays (and is what another process sees meanwhile).
WriteRows ==
    /\ SamplerAt("read")
    /\ trSampler' = [trSampler EXCEPT !.at = "waiting", !.held = {}]
    /\ \E done \in SUBSET {[r EXCEPT !.ts = trNow] : r \in trSampler.held} :
          LET kept == {q \in trRows : \A r \in done : <<q.ts, q.key>> # <<r.ts, r.key>>}
              all == kept \union done
          IN  \/ trRows' = all
              \/ /\ Cardinality(done) = Cardinality(trSampler.held)
                 /\ trRows' = From(all, trNow - Retention)
    /\ UNCHANGED <<trNow, trLive>>

\* _stop.wait(interval): stopped, or time for the next snapshot.
Wake ==
    /\ SamplerAt("waiting")
    /\ trSampler' = [trSampler EXCEPT !.at = IF trSampler.stop THEN "off" ELSE "due"]
    /\ UNCHANGED <<trNow, trLive, trRows>>

\* _SnapshotScheduler.stop.
StopScheduler ==
    /\ ~SamplerAt("off") /\ ~trSampler.stop /\ trSampler' = [trSampler EXCEPT !.stop = TRUE]
    /\ UNCHANGED <<trNow, trLive, trRows>>

-----------------------------------------------------------------------------
(* What the counters and the clock do.                                     *)

Moved == MapThenSumSet(LAMBDA k : trLive[k].moved, Peers)
Backs == MapThenSumSet(LAMBDA k : trLive[k].life, Peers)

Transfer(k) ==
    /\ trLive[k].on /\ Moved < MaxMoved
    /\ trLive' = [trLive EXCEPT ![k].bytes = @ + 1, ![k].moved = @ + 1]
    /\ UNCHANGED <<trNow, trRows, trSampler>>

\* A peer leaves the interface, or comes back: its counter starts over.
PeerToggled(k) ==
    /\ Backs < MaxBacks
    /\ trLive' = [trLive EXCEPT ![k].on = ~@, ![k].bytes = 0, ![k].life = @ + 1]
    /\ UNCHANGED <<trNow, trRows, trSampler>>

\* The interface is brought up again: every counter starts over.
InterfaceRestarted ==
    /\ Backs < MaxBacks
    /\ trLive' = [k \in Peers |-> [trLive[k] EXCEPT !.bytes = 0, !.life = @ + 1]]
    /\ UNCHANGED <<trNow, trRows, trSampler>>

ClockMoves ==
    /\ trNow < MaxNow /\ trNow' = trNow + 1
    /\ UNCHANGED <<trLive, trRows, trSampler>>

TrNext ==
    \/ StartScheduler \/ ReadPeers \/ WriteRows \/ Wake \/ StopScheduler
    \/ \E k \in Peers : Transfer(k) \/ PeerToggled(k)
    \/ InterfaceRestarted \/ ClockMoves

TrSpec == TrInit /\ [][TrNext]_trVars

-----------------------------------------------------------------------------
(* Properties.                                                             *)

\* What is told of the rows in which a peer was seen: no more than moved between the
\* first and the last of them, and exactly that if its counter did not start over.
Fits(told, seen) ==
    \E old, new \in seen :
       /\ \A r \in seen : old.ts <= r.ts /\ r.ts <= new.ts
       /\ told <= new.moved - old.moved
       /\ old.life = new.life => told = new.moved - old.moved

\* The rows that bound what is drawn of a peer: the window's, and the last before it.
Drawn(k, start) ==
    LET wide == {r \in From(trRows, start - LookBack) : r.key = k}
    IN  {r \in wide : \A q \in wide : r.ts < q.ts => q.ts >= start}

\* "Counters reset on interface restart, so we clamp negative deltas to zero rather
\* than recording a fake gigabyte": whichever of the rows a reader finds, and in every
\* window, no peer is told to have moved more than it did, and the buckets that are
\* drawn add up to the clients' totals.
TrTellsTruth ==
    /\ \A since \in 0..trNow :
          LET told == TopTalkers(trRows, since)
          IN  /\ \A k \in DOMAIN told :
                    Fits(told[k], {r \in From(trRows, since) : r.key = k})
              /\ SumOf(HourlyBuckets(trRows, since)) = SumOf(told)
    /\ \A buckets \in 1..MaxNow :
          LET screen == GetTrafficHistory(trRows, trNow, buckets)
          IN  /\ \A k \in DOMAIN screen.per_client :
                    Fits(screen.per_client[k], Drawn(k, SeriesStart(trNow, buckets)))
              /\ screen.rx_total = SumOf(screen.per_client)
              /\ screen.rx_total > 0 => screen.has_data /\ screen.covered \in 0..buckets * Hour
=============================================================================
