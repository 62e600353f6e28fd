-------------------------- MODULE ClientRegistry --------------------------
(***************************************************************************)
(* The server's client registry: what `outwarp-server add-client`, its     *)
(* siblings and the enrolment listener do to the files and the interface   *)
(* they share.  Each process runs one operation at a time, in the steps    *)
(* of operations.py:                                                       *)
(*                                                                         *)
(*   flock, load -> BEGIN IMMEDIATE + checks -> token file -> wg set ->   *)
(*   COMMIT -> list_active + save + unlock -> write wg0.conf -> syncconf   *)
(*                                                                         *)
(* The enrolment listener (enroll_server.py) redeems a token first and     *)
(* takes the SQLite lock but never the flock.  A step is as large as the   *)
(* other processes let it be: whatever no one else can observe or change   *)
(* in between is one action.                                               *)
(***************************************************************************)
EXTENDS Naturals, FiniteSets

CONSTANTS
    Names,        \* client names
    PoolSize,     \* usable hosts of the subnet, the server's own left out
    Admins,       \* processes that administer: a CLI command, the web panel
    Listeners,    \* the enrolment listener process (at most one), or none
    Nobody,       \* no process (a lock is free), no client
    AdminOps,     \* the operations the admins of this instance perform
    SameProcess,  \* does the listener run inside the administering process?
    HotMayFail,   \* may `wg set` fail (interface down)?
    PersistMayFail, \* may writing or syncing wg0.conf fail?
    Expiries,     \* subset of BOOLEAN: may a client be given an expiry date?
    TokensLapse,  \* may an unused token outlive its TTL?
    MaxOps,       \* bound: operations started, and so tokens minted
    MaxCrashes    \* bound: processes killed in the middle of an operation

Procs == Admins \cup Listeners

LockedOps == {"add", "reserve", "revoke", "enable", "disable", "rotate", "patch"}
UnlockedOps == {"renew", "reconcile"}

ASSUME RegistryAssumption ==
    /\ PoolSize \in Nat /\ MaxOps \in Nat
    /\ MaxCrashes \in Nat
    /\ Nobody \notin Procs \cup Names
    /\ Admins \cap Listeners = {}
    /\ AdminOps \subseteq LockedOps \cup UnlockedOps
    /\ SameProcess \in BOOLEAN
    /\ HotMayFail \in BOOLEAN /\ PersistMayFail \in BOOLEAN
    /\ Expiries \subseteq BOOLEAN /\ TokensLapse \in BOOLEAN

Addresses == 1..PoolSize
Tokens == 1..MaxOps
NoKey == 0
NoAddress == 0

Row == [st : {"absent", "active", "disabled", "revoked"},
        key : Nat, addr : Nat, exp : BOOLEAN]
AbsentRow == [st |-> "absent", key |-> NoKey, addr |-> NoAddress, exp |-> FALSE]

\* Peers of the interface or of wg0.conf; TokenFile is enrollment_tokens.json.
Peer == [key : Nat, addr : Nat]
TokenFile == [Tokens -> {"none", "unused", "used"}]

\* The fields of server_config.json that some operation rewrites, each by the
\* number of the edit that produced its value; 0 is the value of an old config.
Fields == {"signing", "settings", "cert"}
ConfigFile == [Fields -> Nat]
EmptyConfig == [f \in Fields |-> 0]

PCs == {"idle", "flock", "begin", "tokload", "toksave", "hot", "commit", "save",
        "write", "sync", "redeem", "enload", "renew"}

\* The local variables of one running operation.
Work == [op : LockedOps \cup UnlockedOps \cup {"none", "enroll"},
         name : Names \cup {Nobody}, key : Nat, addr : Nat, token : Nat,
         held : TokenFile, cfg : ConfigFile, snap : [Names -> Row]]
NoWork == [op |-> "none", name |-> Nobody, key |-> NoKey, addr |-> NoAddress,
           token |-> 0, held |-> [t \in Tokens |-> "none"],
           cfg |-> EmptyConfig, snap |-> [n \in Names |-> AbsentRow]]

VARIABLES
    rows,     \* clients.sqlite
    tokens,   \* enrollment_tokens.json
    cfg,      \* server_config.json
    conf,     \* the peers of wg0.conf
    live,     \* the peers of the running interface
    db,       \* holder of SQLite's write lock
    flock,    \* holder of the flock on .server_config.json.lock
    pc,       \* the step each process is at
    work,     \* its local variables
    today,    \* 0 before the expiry dates in use, 1 after them
    lapsed,   \* tokens past their TTL
    owner,    \* the client each minted token was minted for
    keys,     \* keys generated so far
    edits,    \* config edits made so far
    acked,    \* history: the last edit of each field some operation saved
    redeemed, \* history: how often redeem() accepted each token
    unsynced, \* history: a crash, a failure or the calendar left wg0.conf behind
    started,  \* operations started
    crashes   \* processes killed

files == <<rows, tokens, cfg, conf, live>>
locks == <<db, flock>>
clock == <<today, lapsed>>
counters == <<owner, keys, edits, acked, redeemed, unsynced, started, crashes>>
vars == <<files, locks, pc, work, clock, counters>>

Init ==
    /\ rows = [n \in Names |-> AbsentRow]
    /\ tokens = [t \in Tokens |-> "none"]
    /\ cfg = EmptyConfig /\ acked = EmptyConfig
    /\ conf = {} /\ live = {}
    /\ db = Nobody /\ flock = Nobody
    /\ pc = [p \in Procs |-> "idle"]
    /\ work = [p \in Procs |-> NoWork]
    /\ today = 0 /\ lapsed = {}
    /\ owner = [t \in Tokens |-> Nobody]
    /\ redeemed = [t \in Tokens |-> 0]
    /\ keys = 0 /\ edits = 0 /\ started = 0 /\ crashes = 0
    /\ unsynced = FALSE

-----------------------------------------------------------------------------
(* Helpers: rows, addresses, peers, token files.                           *)

Standing(r) == r.st \in {"active", "disabled"}

\* Mutant of IsLivePeer: the conf builder forgets the state of the row.
AnyStateIsLive(r) == r.key # NoKey /\ ~(r.exp /\ today = 1)

\* wireguard.is_live_peer, the one rule every conf builder applies.
IsLivePeer(r) == r.key # NoKey /\ r.st = "active" /\ ~(r.exp /\ today = 1)

\* Mutant of PeerOf: a [Peer] section without its PublicKey.
KeylessPeer(r) == [addr |-> r.addr]

PeerOf(r) == [key |-> r.key, addr |-> r.addr]
LivePeers(rs) == {PeerOf(rs[n]) : n \in {m \in Names : IsLivePeer(rs[m])}}

\* `wg set peer K allowed-ips A`: K gets A, and any peer that had A loses it.
WithPeer(peers, k, a) ==
    {q \in peers : q.key # k /\ q.addr # a} \cup {[key |-> k, addr |-> a]}
WithoutPeer(peers, k) == {q \in peers : q.key # k}

\* Mutant of SyncConf: `wg addconf` keeps the peers the file does not name.
AddConf(peers, file) == {q \in peers : \A f \in file : f.key # q.key} \cup file

\* `wg syncconf`: peers the file does not name are dropped.
SyncConf(peers, file) == file

\* Mutant of Taken: a disabled client's address counts as free.
TakenByActive(rs) == {rs[n].addr : n \in {m \in Names : rs[m].st = "active"}}

\* list_active(): the rows whose addresses count as allocated.
Taken(rs) == {rs[n].addr : n \in {m \in Names : Standing(rs[m])}}
Free(rs) == Addresses \ Taken(rs)
FirstFree(rs, a) == a \in Free(rs) /\ \A b \in Free(rs) : a <= b

DropOutstanding(file, n) ==
    [t \in Tokens |-> IF owner[t] = n /\ file[t] = "unused" THEN "none" ELSE file[t]]

\* enrollment._prune forgets entries a week after they were used or expired:
\* any of them may be that old.
Prunings(file) ==
    LET Old == {t \in Tokens : file[t] = "used" \/ (file[t] = "unused" /\ t \in lapsed)}
    IN {[t \in Tokens |-> IF t \in old THEN "none" ELSE file[t]] : old \in SUBSET Old}

Minted == {t \in Tokens : owner[t] # Nobody}
FreshToken(t) == t \in Tokens \ Minted /\ \A u \in Tokens \ Minted : t <= u

Goto(p, label) == pc' = [pc EXCEPT ![p] = label]
Done(p) == Goto(p, "idle") /\ work' = [work EXCEPT ![p] = NoWork]

\* Mutant of DbFree: a deferred BEGIN, which does not wait for a writer.
DeferredBegin == TRUE
\* SQLite's write lock, taken by BEGIN IMMEDIATE.
DbFree == db = Nobody
\* Mutant of FlockFree: an operation outside locked_config.
NoFlock == TRUE
\* The cross-process lock of locked_config.
FlockFree == flock = Nobody
Unlock(p) == flock' = IF flock = p THEN Nobody ELSE flock

\* Mutant of Abort: the exception path forgets to unlock.
AbortLocked(p) == Done(p) /\ UNCHANGED flock

\* An exception leaves the operation through locked_config's `finally`.
Abort(p) == Unlock(p) /\ Done(p)

\* Mutant of TokenFileFree: the token file without its lock.
NoTokenLock(p) == p \in Procs

\* enrollment._write_lock is a threading.Lock: it keeps two threads of one
\* process apart, and two processes not at all.
TokenFileFree(p) ==
    SameProcess => \A q \in Procs \ {p} : pc[q] \notin {"toksave", "redeem"}

-----------------------------------------------------------------------------
(* An administrative operation: add_client (with and without --enroll),    *)
(* revoke_client, set_client_enabled, rotate_client, _save_config_patch.   *)

\* Mutant of LoadedConfig: a config kept in memory since the process started.
StartupConfig == EmptyConfig

\* ServerConfig.load: what is in the file now.
LoadedConfig == cfg

\* add_client and rotate_client backfill a missing .owcfg signing key.
Backfills(o) == o \in {"add", "reserve", "rotate"} /\ cfg["signing"] = 0

\* An admin calls operation o on client n, and waits for the flock.
Call(p, o, n) ==
    /\ pc[p] = "idle" /\ started < MaxOps
    /\ o \in AdminOps \cap LockedOps
    /\ started' = started + 1
    /\ work' = [work EXCEPT ![p] = [NoWork EXCEPT !.op = o, !.name = n]]
    /\ Goto(p, "flock")
    /\ UNCHANGED <<files, locks, clock, owner, keys, edits, acked, redeemed, unsynced, crashes>>

\* Enter locked_config and reload the file.
Lock(p) ==
    LET o == work[p].op
        new == edits + 1
    IN  /\ pc[p] = "flock" /\ FlockFree
        /\ flock' = p
        /\ edits' = IF Backfills(o) THEN new ELSE edits
        /\ work' = [work EXCEPT ![p].cfg =
                IF Backfills(o) THEN [LoadedConfig EXCEPT !["signing"] = new] ELSE LoadedConfig]
        /\ Goto(p, IF o = "patch" THEN "save" ELSE "begin")
        /\ UNCHANGED <<files, db, clock, owner, keys, acked, redeemed, unsynced, started, crashes>>

\* The checks each operation makes on the row it reads in its transaction.
Refused(o, r) ==
    CASE o \in {"add", "reserve"} -> Standing(r) \/ Free(rows) = {}
      [] o = "enroll" -> ~Standing(r) \/ r.key # NoKey
      [] OTHER -> ~Standing(r)

NeedsKey(o) == o \in {"add", "rotate", "enroll"}

\* BEGIN IMMEDIATE, the checks, and the address add_client will insert.
BeginTxn(p) ==
    LET o == work[p].op
        r == rows[work[p].name]
        k == IF NeedsKey(o) THEN keys + 1 ELSE NoKey
    IN  /\ pc[p] = "begin" /\ DbFree /\ ~Refused(o, r)
        /\ db' = p
        /\ keys' = IF NeedsKey(o) THEN keys + 1 ELSE keys
        /\ \E a \in IF o \in {"add", "reserve"} THEN Addresses ELSE {r.addr} :
              /\ o \in {"add", "reserve"} => FirstFree(rows, a)
              /\ work' = [work EXCEPT ![p] = [@ EXCEPT !.key = k, !.addr = a]]
        /\ Goto(p, IF o \in {"reserve", "revoke"} THEN "tokload" ELSE "hot")
        /\ UNCHANGED <<files, flock, clock, owner, edits, acked, redeemed, unsynced, started, crashes>>

\* The checks fail: ROLLBACK, leave locked_config, raise.
RefuseTxn(p) ==
    /\ pc[p] = "begin" /\ DbFree
    /\ Refused(work[p].op, rows[work[p].name])
    /\ Abort(p)
    /\ UNCHANGED <<files, db, clock, counters>>

\* SQLite's 30 s busy timeout runs out on another process's transaction.
TimeoutTxn(p) ==
    /\ pc[p] = "begin" /\ ~DbFree
    /\ Abort(p)
    /\ UNCHANGED <<files, db, clock, counters>>

\* enrollment.issue and enrollment.revoke rewrite the whole token file: a
\* read here, a write in IssueToken or RevokeTokens.
LoadTokens(p) ==
    /\ pc[p] = "tokload" /\ TokenFileFree(p)
    /\ work' = [work EXCEPT ![p].held = tokens]
    /\ Goto(p, "toksave")
    /\ UNCHANGED <<files, locks, clock, counters>>

IssueToken(p) ==
    LET n == work[p].name IN
    /\ pc[p] = "toksave" /\ work[p].op = "reserve"
    /\ \E t \in Tokens :
          /\ FreshToken(t)
          /\ owner' = [owner EXCEPT ![t] = n]
          /\ \E kept \in Prunings(DropOutstanding(work[p].held, n)) :
                tokens' = [kept EXCEPT ![t] = "unused"]
    /\ Goto(p, "commit")
    /\ UNCHANGED <<rows, cfg, conf, live, locks, work, clock, keys, edits, acked,
                   redeemed, unsynced, started, crashes>>

RevokeTokens(p) ==
    LET kept == DropOutstanding(work[p].held, work[p].name) IN
    /\ pc[p] = "toksave" /\ work[p].op = "revoke"
    /\ tokens' = IF kept = work[p].held THEN tokens ELSE kept
    /\ Goto(p, "hot")
    /\ UNCHANGED <<rows, cfg, conf, live, locks, work, clock, counters>>

\* What the operation asks `wg set` for, before and after a tolerated failure.
HotEffect(p) ==
    LET o == work[p].op
        r == rows[work[p].name]
        k == work[p].key
        a == work[p].addr
    IN  CASE o = "add" -> {WithPeer(live, k, a)}
          [] o = "revoke" \/ o = "disable" -> {WithoutPeer(live, r.key)}
          [] o = "enable" /\ IsLivePeer([r EXCEPT !.st = "active"]) -> {WithPeer(live, r.key, a)}
          [] o = "enroll" /\ r.st = "active" -> {WithPeer(live, k, a)}
          [] o = "rotate" /\ r.st = "active" ->
                {WithPeer(WithoutPeer(live, r.key), k, a)} \cup
                IF HotMayFail THEN {WithoutPeer(live, r.key), WithPeer(live, k, a)} ELSE {}
          [] OTHER -> {live}

HotApply(p) ==
    /\ pc[p] = "hot"
    /\ \E peers \in HotEffect(p) \cup (IF HotMayFail THEN {live} ELSE {}) : live' = peers
    /\ Goto(p, "commit")
    /\ UNCHANGED <<rows, tokens, cfg, conf, locks, work, clock, counters>>

\* The row each operation leaves: INSERT, or UPDATE of the columns it owns.
NewRow(p, e) ==
    LET o == work[p].op
        r == rows[work[p].name]
        w == work[p]
    IN  CASE o \in {"add", "reserve"} ->
                [st |-> "active", key |-> w.key, addr |-> w.addr, exp |-> e]
          [] o \in {"rotate", "enroll"} -> [r EXCEPT !.key = w.key]
          [] o = "revoke" -> [r EXCEPT !.st = "revoked"]
          [] o = "enable" -> [r EXCEPT !.st = "active"]
          [] o = "disable" -> [r EXCEPT !.st = "disabled"]

Commit(p) ==
    /\ pc[p] = "commit"
    /\ \E e \in Expiries : rows' = [rows EXCEPT ![work[p].name] = NewRow(p, e)]
    /\ db' = Nobody
    /\ Goto(p, "save")
    /\ UNCHANGED <<tokens, cfg, conf, live, flock, work, clock, counters>>

\* `updated = replace(config, clients=store.list_active()); updated.save()`,
\* then leave locked_config.  The listener does the same without the flock.
SaveConfig(p) ==
    /\ pc[p] = "save" /\ work[p].op # "patch"
    /\ cfg' = work[p].cfg
    /\ acked' = IF work[p].op = "enroll" THEN acked
                ELSE [acked EXCEPT !["signing"] = work[p].cfg["signing"]]
    /\ work' = [work EXCEPT ![p].snap = rows]
    /\ Unlock(p)
    /\ Goto(p, "write")
    /\ UNCHANGED <<rows, tokens, conf, live, db, clock, owner, keys, edits, redeemed,
                   unsynced, started, crashes>>

\* _save_config_patch: a changed setting on top of the freshest file.
SavePatch(p) ==
    /\ pc[p] = "save" /\ work[p].op = "patch"
    /\ cfg' = [work[p].cfg EXCEPT !["settings"] = edits + 1]
    /\ acked' = [acked EXCEPT !["settings"] = edits + 1]
    /\ edits' = edits + 1
    /\ Unlock(p) /\ Done(p)
    /\ UNCHANGED <<rows, tokens, conf, live, db, clock, owner, keys, redeemed,
                   unsynced, started, crashes>>

\* _persist_wg_config, outside every lock: build the conf from the snapshot
\* and replace the file ...
WriteConf(p) ==
    /\ pc[p] = "write"
    /\ conf' = LivePeers(work[p].snap)
    /\ unsynced' = FALSE
    /\ Goto(p, "sync")
    /\ UNCHANGED <<rows, tokens, cfg, live, locks, work, clock, owner, keys, edits, acked,
                   redeemed, started, crashes>>

\* ... then `wg syncconf` makes the interface what the file says.
SyncLive(p) ==
    /\ pc[p] = "sync"
    /\ live' = SyncConf(live, conf)
    /\ Done(p)
    /\ UNCHANGED <<rows, tokens, cfg, conf, locks, clock, counters>>

\* Either half may fail: the caller gets a warning and returns.
PersistFails(p) ==
    /\ PersistMayFail /\ pc[p] \in {"write", "sync"}
    /\ unsynced' = TRUE
    /\ Done(p)
    /\ UNCHANGED <<files, locks, clock, owner, keys, edits, acked, redeemed, started, crashes>>

-----------------------------------------------------------------------------
(* Operations that take no lock at all.                                    *)

\* `outwarp-server renew-cert`: load, reissue the certificate, save.
RenewLoad(p) ==
    /\ pc[p] = "idle" /\ started < MaxOps /\ "renew" \in AdminOps
    /\ started' = started + 1
    /\ work' = [work EXCEPT ![p] = [NoWork EXCEPT !.op = "renew", !.cfg = LoadedConfig]]
    /\ Goto(p, "renew")
    /\ UNCHANGED <<files, locks, clock, owner, keys, edits, acked, redeemed, unsynced, crashes>>

RenewSave(p) ==
    /\ pc[p] = "renew"
    /\ cfg' = [work[p].cfg EXCEPT !["cert"] = edits + 1]
    /\ acked' = [acked EXCEPT !["cert"] = edits + 1]
    /\ edits' = edits + 1
    /\ Done(p)
    /\ UNCHANGED <<rows, tokens, conf, live, locks, clock, owner, keys, redeemed,
                   unsynced, started, crashes>>

\* A server start or `outwarp-server restart`: reconcile() with the config
\* the process has loaded.
Reconcile(p) ==
    /\ pc[p] = "idle" /\ started < MaxOps /\ "reconcile" \in AdminOps
    /\ started' = started + 1
    /\ work' = [work EXCEPT ![p] = [NoWork EXCEPT !.op = "reconcile", !.snap = rows]]
    /\ Goto(p, "write")
    /\ UNCHANGED <<files, locks, clock, owner, keys, edits, acked, redeemed, unsynced, crashes>>

-----------------------------------------------------------------------------
(* The enrolment listener.  enroll_lock serialises its requests, so it is  *)
(* one process running one request at a time.                              *)

\* A client posts a token it was given; redeem() reads the token file ...
RedeemLoad(p, t) ==
    /\ pc[p] = "idle" /\ started < MaxOps
    /\ t \in Minted /\ TokenFileFree(p)
    /\ started' = started + 1
    /\ work' = [work EXCEPT ![p] = [NoWork EXCEPT
            !.op = "enroll", !.token = t, !.name = owner[t], !.held = tokens]]
    /\ Goto(p, "redeem")
    /\ UNCHANGED <<files, locks, clock, owner, keys, edits, acked, redeemed, unsynced, crashes>>

\* Mutant of Redeemable: the used marker is not looked at.
RedeemableAgain(p) == work[p].held[work[p].token] # "none" /\ work[p].token \notin lapsed

Redeemable(p) == work[p].held[work[p].token] = "unused" /\ work[p].token \notin lapsed

\* ... and writes it back with the token spent,
RedeemSave(p) ==
    LET t == work[p].token IN
    /\ pc[p] = "redeem" /\ Redeemable(p)
    /\ \E kept \in Prunings(work[p].held) : tokens' = [kept EXCEPT ![t] = "used"]
    /\ redeemed' = [redeemed EXCEPT ![t] = @ + 1]
    /\ Goto(p, "enload")
    /\ UNCHANGED <<rows, cfg, conf, live, locks, work, clock, owner, keys, edits, acked,
                   unsynced, started, crashes>>

\* or refuses it (403).
RedeemRefuse(p) ==
    /\ pc[p] = "redeem" /\ ~Redeemable(p)
    /\ Done(p)
    /\ UNCHANGED <<files, locks, clock, counters>>

\* The config complete_enrollment will save, loaded before its transaction.
EnrollLoad(p) ==
    /\ pc[p] = "enload"
    /\ work' = [work EXCEPT ![p].cfg = LoadedConfig]
    /\ Goto(p, "begin")
    /\ UNCHANGED <<files, locks, clock, counters>>

-----------------------------------------------------------------------------
(* The environment: kills, the calendar, token lifetimes.                  *)

\* The kernel drops the flock, SQLite rolls the transaction back; the token
\* file, the interface and wg0.conf keep what was already done to them.
Crash(p) ==
    /\ pc[p] # "idle" /\ crashes < MaxCrashes
    /\ crashes' = crashes + 1
    /\ db' = IF db = p THEN Nobody ELSE db
    /\ unsynced' = TRUE
    /\ Unlock(p) /\ Done(p)
    /\ UNCHANGED <<files, clock, owner, keys, edits, acked, redeemed, started>>

DayPasses ==
    /\ today = 0 /\ TRUE \in Expiries
    /\ today' = 1
    /\ unsynced' = TRUE
    /\ UNCHANGED <<files, locks, pc, work, lapsed, owner, keys, edits, acked, redeemed,
                   started, crashes>>

TokenLapses(t) ==
    /\ TokensLapse /\ t \in Minted \ lapsed
    /\ lapsed' = lapsed \cup {t}
    /\ UNCHANGED <<files, locks, pc, work, today, counters>>

-----------------------------------------------------------------------------
Transaction(p) ==
    \/ Lock(p) \/ BeginTxn(p) \/ RefuseTxn(p) \/ TimeoutTxn(p)
    \/ HotApply(p) \/ Commit(p) \/ SaveConfig(p)
Persist(p) == WriteConf(p) \/ SyncLive(p) \/ PersistFails(p)

AdminStep(p) ==
    \/ LoadTokens(p) \/ IssueToken(p) \/ RevokeTokens(p)
    \/ SavePatch(p) \/ RenewSave(p)
ListenerStep(p) == RedeemSave(p) \/ RedeemRefuse(p) \/ EnrollLoad(p)

\* What a process that has begun an operation does next.
Continue(p) ==
    \/ Transaction(p) \/ Persist(p)
    \/ p \in Admins /\ AdminStep(p)
    \/ p \in Listeners /\ ListenerStep(p)

Start ==
    \/ \E p \in Admins : \/ \E o \in AdminOps, n \in Names : Call(p, o, n)
                         \/ RenewLoad(p) \/ Reconcile(p)
    \/ \E p \in Listeners, t \in Tokens : RedeemLoad(p, t)

Environment ==
    \/ \E p \in Procs : Crash(p)
    \/ DayPasses
    \/ \E t \in Tokens : TokenLapses(t)

Next == Start \/ (\E p \in Procs : Continue(p)) \/ Environment

Spec == Init /\ [][Next]_vars

\* A started operation keeps running; nobody is obliged to start one.
Fairness == \A p \in Procs : WF_vars(Continue(p))
FairSpec == Spec /\ Fairness
-----------------------------------------------------------------------------
(* Properties.                                                             *)

TypeOK ==
    /\ rows \in [Names -> Row]
    /\ tokens \in TokenFile
    /\ cfg \in ConfigFile /\ acked \in ConfigFile
    /\ conf \subseteq Peer /\ live \subseteq Peer
    /\ db \in Procs \cup {Nobody} /\ flock \in Procs \cup {Nobody}
    /\ pc \in [Procs -> PCs]
    /\ work \in [Procs -> Work]
    /\ today \in {0, 1} /\ lapsed \subseteq Tokens
    /\ owner \in [Tokens -> Names \cup {Nobody}]
    /\ redeemed \in [Tokens -> Nat]
    /\ keys \in Nat /\ edits \in Nat /\ started \in Nat /\ crashes \in Nat
    /\ unsynced \in BOOLEAN

\* No two registered clients hold one tunnel address, whatever processes race:
\* add_client allocates and inserts under one BEGIN IMMEDIATE.
AddressesUnique ==
    \A m, n \in Names :
        m # n /\ Standing(rows[m]) /\ Standing(rows[n]) => rows[m].addr # rows[n].addr

\* Neither wg0.conf nor the running interface ever routes one address to two
\* keys, although both are written from snapshots outside the locks and
\* hot-patched from inside them.
RoutesUnique ==
    \A peers \in {conf, live} : \A q, r \in peers : q.addr = r.addr => q = r

\* The list an admin saves and is about to persist shows the change it has
\* committed itself: rotate_client relies on it when it looks its client up in
\* `updated.clients`, and revoke_client when it writes wg0.conf from it.
OwnChangeInSnapshot ==
    \A p \in Admins :
        LET w == work[p] IN
        pc[p] = "write" /\ w.op # "reconcile" =>
            LET r == w.snap[w.name] IN
            CASE w.op \in {"add", "rotate"} -> Standing(r) /\ r.key = w.key
              [] w.op = "reserve" -> Standing(r)
              [] w.op = "revoke" -> r.st = "revoked"
              [] w.op = "enable" -> r.st = "active"
              [] w.op = "disable" -> r.st = "disabled"

AllIdle == \A p \in Procs : pc[p] = "idle"

\* With nothing running, nothing failed and no date passed since the last
\* sync, wg0.conf and the interface hold exactly the registered, enabled,
\* unexpired, enrolled clients.
SettledMatchesRegistry ==
    AllIdle /\ ~unsynced => conf = LivePeers(rows) /\ live = conf

\* Every config edit an operation has saved is still in server_config.json:
\* "Never save a snapshot taken from memory" (api.py).
NoLostEdit == cfg = acked

\* redeem() accepts a token at most once: "two simultaneous redemptions of
\* one token cannot both win" (enrollment.py).
TokenRedeemedOnce == \A t \in Tokens : redeemed[t] <= 1

\* Between transactions an unspent token in the file belongs to a registered
\* client: revoking one leaves no token that could bring the slot back.
NoTokenForRevoked ==
    db = Nobody => \A t \in Tokens : tokens[t] = "unused" => Standing(rows[owner[t]])

\* A revoked client is out of the interface once every operation has returned.
RevokedStaysOff ==
    AllIdle /\ ~unsynced => \A n \in Names :
        rows[n].st = "revoked" => PeerOf(rows[n]) \notin live

\* An operation that has begun ends: no process waits on another for ever.
OperationsFinish == \A p \in Procs : pc[p] # "idle" ~> pc[p] = "idle"

\* Every committed change is one step of the ledger applied to the registry as
\* it was at that instant, although checks and writes are separate steps here.
Ledger == INSTANCE PeerLedger WITH slots <- rows
ImplementsLedger == Ledger!Spec
=============================================================================
