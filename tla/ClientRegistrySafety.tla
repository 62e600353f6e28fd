----------------------- MODULE ClientRegistrySafety -----------------------
(***************************************************************************)
(* The type correctness and the safety properties of the registry, for    *)
(* every value of its constants.                                           *)
(* The argument: LocksHeld says which steps hold which lock; with it, the  *)
(* checks made at BEGIN IMMEDIATE still hold at COMMIT (Checked), so no    *)
(* commit breaks AddressesUnique; every list of clients an operation       *)
(* carries is a registry of some instant, so it has unique addresses too   *)
(* (SnapshotsUnique), and wg0.conf and the interface inherit that.         *)
(*                                                                         *)
(* The tokens and the agreement of wg0.conf with the registry depend on    *)
(* who runs: TokensTracked and Backed need the listener in the             *)
(* administering process, InStep a single process.                         *)
(***************************************************************************)
EXTENDS ClientRegistry, TLAPS

-----------------------------------------------------------------------------
(* Type correctness.                                                       *)

LEMMA Blanks ==
    /\ AbsentRow \in Row
    /\ EmptyConfig \in ConfigFile
    /\ [t \in Tokens |-> "none"] \in TokenFile
    /\ [n \in Names |-> AbsentRow] \in [Names -> Row]
BY DEF AbsentRow, Row, EmptyConfig, ConfigFile, TokenFile, NoKey, NoAddress

LEMMA NoWorkType == NoWork \in Work
BY Blanks DEF NoWork, Work, NoKey, NoAddress, LockedOps, UnlockedOps

\* Starting over: a fresh operation record with a few fields filled in.
LEMMA FreshWork ==
    ASSUME NEW o \in LockedOps \cup UnlockedOps \cup {"enroll"},
           NEW n \in Names \cup {Nobody}, NEW t \in Nat, NEW f \in TokenFile,
           NEW c \in ConfigFile, NEW s \in [Names -> Row]
    PROVE  /\ [NoWork EXCEPT !.op = o, !.name = n] \in Work
           /\ [NoWork EXCEPT !.op = o, !.cfg = c] \in Work
           /\ [NoWork EXCEPT !.op = o, !.snap = s] \in Work
           /\ [NoWork EXCEPT !.op = o, !.token = t, !.name = n, !.held = f] \in Work
BY NoWorkType DEF Work

\* Which operation a process can be in the middle of at each step.
ShapeOf(p, l, w) ==
    /\ l = "idle" \/ w.op \in UnlockedOps \/ w.name \in Names
    /\ p \in Admins /\ l # "idle" => w.op \in LockedOps \cup UnlockedOps
    /\ p \in Listeners /\ l # "idle" => w.op = "enroll"
    /\ l = "flock" => p \in Admins
    /\ w.op = "renew" <=> l = "renew"
    /\ w.op = "reconcile" => l \in {"write", "sync"}
    /\ w.op = "patch" => l \in {"flock", "save"}
Shape == \A p \in Procs : ShapeOf(p, pc[p], work[p])
Typed == TypeOK /\ Shape

\* Process p goes to step l with local variables w; no other process moves.
Moves(p, l, w) ==
    /\ pc' = [pc EXCEPT ![p] = l]
    /\ work' = [work EXCEPT ![p] = w]

LEMMA MovesTyped ==
    ASSUME Typed, NEW p \in Procs, NEW l \in PCs, NEW w \in Work,
           Moves(p, l, w), ShapeOf(p, l, w)
    PROVE  pc' \in [Procs -> PCs] /\ work' \in [Procs -> Work] /\ Shape'
<1>1. pc' \in [Procs -> PCs] /\ work' \in [Procs -> Work]
  BY DEF Typed, TypeOK, Moves
<1>2. ASSUME NEW q \in Procs PROVE ShapeOf(q, pc'[q], work'[q])
  BY <1>2 DEF Typed, TypeOK, Moves, Shape
<1> QED BY <1>1, <1>2 DEF Shape

\* The three ways the actions move: p keeps its local variables, ends its
\* operation, or updates its local variables.
LEMMA GotoMoves ==
    ASSUME TypeOK, NEW p \in Procs, NEW l, Goto(p, l), work' = work
    PROVE  Moves(p, l, work[p])
BY DEF TypeOK, Goto, Moves

LEMMA DoneMoves ==
    ASSUME NEW p \in Procs, Done(p)
    PROVE  Moves(p, "idle", NoWork)
BY DEF Done, Goto, Moves

LEMMA IdleShape == \A p : ShapeOf(p, "idle", NoWork)
BY DEF ShapeOf, NoWork, UnlockedOps, LockedOps

LEMMA InitTyped == Init => Typed
<1> SUFFICES ASSUME Init PROVE Typed  OBVIOUS
<1>1. pc \in [Procs -> PCs] /\ work \in [Procs -> Work]
  BY NoWorkType DEF Init, PCs
<1>2. owner \in [Tokens -> Names \cup {Nobody}] /\ redeemed \in [Tokens -> Nat]
  BY DEF Init
<1>3. TypeOK  BY <1>1, <1>2, Blanks DEF Init, TypeOK
<1>4. Shape  BY IdleShape DEF Init, Shape
<1> QED BY <1>3, <1>4 DEF Typed

-----------------------------------------------------------------------------
(* One lemma per action that does more than move its process.              *)

LEMMA CallTyped ==
    ASSUME Typed, NEW p \in Admins, NEW o \in AdminOps, NEW n \in Names, Call(p, o, n)
    PROVE  Typed'
<1> DEFINE w == [NoWork EXCEPT !.op = o, !.name = n]
<1>1. p \in Procs /\ "flock" \in PCs /\ p \notin Listeners
  BY RegistryAssumption DEF Procs, PCs
<1>2. o \in LockedOps  BY DEF Call
<1>3. w \in Work  BY <1>2, FreshWork, Blanks
<1>4. Moves(p, "flock", w)  BY DEF Call, Goto, Moves
<1>5. ShapeOf(p, "flock", w)
  BY <1>1, <1>2 DEF ShapeOf, NoWork, LockedOps, UnlockedOps
<1> QED BY <1>1, <1>3, <1>4, <1>5, MovesTyped
        DEF Typed, TypeOK, Call, files, clock, locks

LEMMA LockTyped ==
    ASSUME Typed, NEW p \in Procs, Lock(p)
    PROVE  Typed'
<1>1. work[p] \in Work /\ cfg \in ConfigFile /\ edits \in Nat
  BY DEF Typed, TypeOK
<1>2. [LoadedConfig EXCEPT !["signing"] = edits + 1] \in ConfigFile
  BY <1>1 DEF LoadedConfig, ConfigFile, Fields
<1>3. PICK c \in ConfigFile : work' = [work EXCEPT ![p].cfg = c]
  BY <1>1, <1>2 DEF Lock, LoadedConfig
<1> DEFINE w == [work[p] EXCEPT !.cfg = c]
           l == IF work[p].op = "patch" THEN "save" ELSE "begin"
<1>4. w \in Work /\ w.op = work[p].op /\ w.name = work[p].name
  BY <1>1 DEF Work
<1>5. l \in PCs  BY DEF PCs
<1>6. Moves(p, l, w)  BY <1>3 DEF Lock, Goto, Moves
<1>7. ShapeOf(p, l, w)
  BY <1>4 DEF Typed, Shape, ShapeOf, Lock
<1> QED BY <1>4, <1>5, <1>6, <1>7, MovesTyped DEF Typed, TypeOK, Lock, files, clock

LEMMA BeginTyped ==
    ASSUME Typed, NEW p \in Procs, BeginTxn(p)
    PROVE  Typed'
<1> DEFINE o == work[p].op
           l == IF o \in {"reserve", "revoke"} THEN "tokload" ELSE "hot"
           k == IF NeedsKey(o) THEN keys + 1 ELSE NoKey
<1>1. work[p] \in Work /\ keys \in Nat  BY DEF Typed, TypeOK
<1>2. work[p].name \in Names
  BY DEF Typed, Shape, ShapeOf, BeginTxn, UnlockedOps
<1>3. rows[work[p].name].addr \in Nat
  BY <1>2 DEF Typed, TypeOK, Row
<1>4. PICK a \in IF o \in {"add", "reserve"} THEN Addresses ELSE {rows[work[p].name].addr} :
        work' = [work EXCEPT ![p] = [@ EXCEPT !.key = k, !.addr = a]]
  BY DEF BeginTxn
<1>11. a \in Nat  BY <1>3, RegistryAssumption DEF Addresses
<1> DEFINE w == [work[p] EXCEPT !.key = k, !.addr = a]
<1>5. k \in Nat  BY <1>1 DEF NoKey
<1>6. w \in Work /\ w.op = o /\ w.name = work[p].name
  BY <1>1, <1>5, <1>11 DEF Work
<1>7. Moves(p, l, w)
  BY <1>4 DEF Typed, TypeOK, BeginTxn, Goto, Moves
<1>8. ShapeOf(p, l, w)
  BY <1>2, <1>6 DEF Typed, Shape, ShapeOf, BeginTxn
<1>9. l \in PCs  BY DEF PCs
<1>10. keys' \in Nat  BY <1>1 DEF BeginTxn
<1> QED BY <1>6, <1>7, <1>8, <1>9, <1>10, MovesTyped
        DEF Typed, TypeOK, BeginTxn, files, clock

LEMMA AbortTyped ==
    ASSUME Typed, NEW p \in Procs, RefuseTxn(p) \/ TimeoutTxn(p) \/ RedeemRefuse(p)
                                    \/ PersistFails(p) \/ SyncLive(p) \/ Crash(p)
    PROVE  Typed'
<1>1. Done(p)
  BY DEF RefuseTxn, TimeoutTxn, RedeemRefuse, PersistFails, SyncLive, Crash, Abort
<1>2. pc' \in [Procs -> PCs] /\ work' \in [Procs -> Work] /\ Shape'
  BY <1>1, DoneMoves, MovesTyped, IdleShape, NoWorkType DEF PCs
<1>3. flock' \in Procs \cup {Nobody} /\ db' \in Procs \cup {Nobody}
  BY DEF Typed, TypeOK, RefuseTxn, TimeoutTxn, RedeemRefuse, PersistFails, SyncLive,
         Crash, Abort, Unlock, locks
<1>4. live' \subseteq Peer /\ UNCHANGED <<rows, tokens, cfg, conf>>
  BY DEF Typed, TypeOK, RefuseTxn, TimeoutTxn, RedeemRefuse, PersistFails, SyncLive,
         Crash, Abort, files, SyncConf
<1>5. UNCHANGED <<today, lapsed, owner, keys, edits, acked, redeemed, started>>
  BY DEF RefuseTxn, TimeoutTxn, RedeemRefuse, PersistFails, SyncLive, Crash, clock, counters
<1>6. crashes' = crashes \/ crashes' = crashes + 1
  BY DEF RefuseTxn, TimeoutTxn, RedeemRefuse, PersistFails, SyncLive, Crash, counters
<1>7. unsynced' = unsynced \/ unsynced' = TRUE
  BY DEF RefuseTxn, TimeoutTxn, RedeemRefuse, PersistFails, SyncLive, Crash, counters
<1>8. crashes' \in Nat
  BY <1>6 DEF Typed, TypeOK
<1>9. unsynced' \in BOOLEAN
  <2>1. unsynced \in BOOLEAN  BY DEF Typed, TypeOK
  <2> QED BY <1>7, <2>1
<1> QED BY <1>2, <1>3, <1>4, <1>5, <1>8, <1>9 DEF Typed, TypeOK

\* Token files and peer sets stay of their types under the helpers.
LEMMA TokenFileHelpers ==
    ASSUME NEW f \in TokenFile
    PROVE  /\ \A n : DropOutstanding(f, n) \in TokenFile
           /\ \A g \in Prunings(f) : g \in TokenFile
           /\ \A t : [f EXCEPT ![t] = "unused"] \in TokenFile
           /\ \A t : [f EXCEPT ![t] = "used"] \in TokenFile
BY DEF TokenFile, DropOutstanding, Prunings

LEMMA PeerHelpers ==
    ASSUME NEW peers \in SUBSET Peer
    PROVE  /\ \A k : WithoutPeer(peers, k) \in SUBSET Peer
           /\ \A k \in Nat, a \in Nat : WithPeer(peers, k, a) \in SUBSET Peer
BY DEF WithoutPeer, WithPeer, Peer

LEMMA LivePeersType ==
    ASSUME NEW rs \in [Names -> Row]
    PROVE  LivePeers(rs) \subseteq Peer
BY DEF LivePeers, PeerOf, Peer, Row

LEMMA TokenStepsTyped ==
    ASSUME Typed, NEW p \in Procs,
           LoadTokens(p) \/ IssueToken(p) \/ RevokeTokens(p) \/ RedeemSave(p)
    PROVE  Typed'
<1>1. work[p] \in Work /\ work[p].held \in TokenFile /\ tokens \in TokenFile
  BY DEF Typed, TypeOK, Work
<1>2. pc[p] # "idle" /\ pc[p] \notin {"flock", "save", "write", "sync", "renew"}
  BY DEF LoadTokens, IssueToken, RevokeTokens, RedeemSave
<1>3. work[p].name \in Names /\ \A l \in PCs \ {"renew", "flock"} : ShapeOf(p, l, work[p])
  BY <1>2 DEF Typed, Shape, ShapeOf, UnlockedOps
<1>4. CASE LoadTokens(p)
  <2> DEFINE w == [work[p] EXCEPT !.held = tokens]
  <2>1. w \in Work /\ w.op = work[p].op /\ w.name = work[p].name  BY <1>1 DEF Work
  <2>2. Moves(p, "toksave", w)  BY <1>4 DEF LoadTokens, Goto, Moves
  <2>3. ShapeOf(p, "toksave", w)  BY <1>3, <2>1 DEF ShapeOf, PCs
  <2> QED BY <1>4, <2>1, <2>2, <2>3, MovesTyped
          DEF Typed, TypeOK, LoadTokens, files, locks, clock, counters, PCs
<1>5. CASE IssueToken(p)
  <2>1. Moves(p, "commit", work[p])
    BY <1>5, GotoMoves DEF Typed, IssueToken
  <2>2. PICK t \in Tokens : \E kept \in Prunings(DropOutstanding(work[p].held, work[p].name)) :
            tokens' = [kept EXCEPT ![t] = "unused"]
    BY <1>5 DEF IssueToken
  <2>4. DropOutstanding(work[p].held, work[p].name) \in TokenFile
    BY <1>1, TokenFileHelpers
  <2>5. tokens' \in TokenFile
    BY <2>2, <2>4, TokenFileHelpers
  <2>3. owner' \in [Tokens -> Names \cup {Nobody}]
    BY <1>3, <1>5 DEF Typed, TypeOK, IssueToken
  <2> QED BY <1>1, <1>3, <1>5, <2>1, <2>3, <2>5, MovesTyped
          DEF Typed, TypeOK, IssueToken, locks, clock, PCs
<1>6. CASE RevokeTokens(p)
  <2>1. Moves(p, "hot", work[p])
    BY <1>6, GotoMoves DEF Typed, RevokeTokens
  <2>2. tokens' \in TokenFile
    BY <1>1, <1>6, TokenFileHelpers DEF RevokeTokens
  <2> QED BY <1>1, <1>3, <1>6, <2>1, <2>2, MovesTyped
          DEF Typed, TypeOK, RevokeTokens, locks, clock, counters, PCs
<1>7. CASE RedeemSave(p)
  <2>1. Moves(p, "enload", work[p])
    BY <1>7, GotoMoves DEF Typed, RedeemSave
  <2>4. PICK kept \in Prunings(work[p].held) :
            tokens' = [kept EXCEPT ![work[p].token] = "used"]
    BY <1>7 DEF RedeemSave
  <2>2. tokens' \in TokenFile
    BY <1>1, <2>4, TokenFileHelpers
  <2>3. redeemed' \in [Tokens -> Nat]
    <3>1. redeemed \in [Tokens -> Nat]  BY DEF Typed, TypeOK
    <3>2. redeemed' = [redeemed EXCEPT ![work[p].token] = redeemed[work[p].token] + 1]
      BY <1>7 DEF RedeemSave
    <3>3. CASE work[p].token \in Tokens
      <4>1. redeemed[work[p].token] + 1 \in Nat  BY <3>1, <3>3
      <4> QED BY <3>1, <3>2, <4>1
    <3>4. CASE work[p].token \notin Tokens
      <4>1. redeemed' = redeemed  BY <3>1, <3>2, <3>4
      <4> QED BY <3>1, <4>1
    <3> QED BY <3>3, <3>4
  <2> QED BY <1>1, <1>3, <1>7, <2>1, <2>2, <2>3, MovesTyped
          DEF Typed, TypeOK, RedeemSave, locks, clock, PCs
<1> QED BY <1>4, <1>5, <1>6, <1>7

LEMMA HotTyped ==
    ASSUME Typed, NEW p \in Procs, HotApply(p)
    PROVE  Typed'
<1> DEFINE r == rows[work[p].name]
<1>1. work[p].key \in Nat /\ work[p].addr \in Nat /\ work[p] \in Work /\ live \in SUBSET Peer
  BY DEF Typed, TypeOK, Work
<1>2. work[p].name \in Names /\ ShapeOf(p, "commit", work[p])
  BY DEF Typed, Shape, ShapeOf, HotApply, UnlockedOps
<1>3. r \in Row /\ r.key \in Nat
  BY <1>2 DEF Typed, TypeOK, Row
<1>4. /\ WithPeer(live, work[p].key, work[p].addr) \in SUBSET Peer
      /\ WithPeer(live, r.key, work[p].addr) \in SUBSET Peer
      /\ WithoutPeer(live, r.key) \in SUBSET Peer
      /\ WithPeer(WithoutPeer(live, r.key), work[p].key, work[p].addr) \in SUBSET Peer
  BY <1>1, <1>3, PeerHelpers
<1>5. \A peers \in HotEffect(p) : peers \in SUBSET Peer
  BY <1>1, <1>4 DEF HotEffect
<1>6. live' \subseteq Peer
  BY <1>1, <1>5 DEF HotApply
<1>7. Moves(p, "commit", work[p])
  BY GotoMoves DEF Typed, HotApply
<1> QED BY <1>1, <1>2, <1>6, <1>7, MovesTyped
        DEF Typed, TypeOK, HotApply, locks, clock, counters, PCs

LEMMA NewRowType ==
    ASSUME Typed, NEW p \in Procs, pc[p] = "commit", NEW e \in Expiries
    PROVE  NewRow(p, e) \in Row
<1>1. work[p].key \in Nat /\ work[p].addr \in Nat /\ e \in BOOLEAN
  BY RegistryAssumption DEF Typed, TypeOK, Work
<1>2. work[p].name \in Names
  BY DEF Typed, Shape, ShapeOf, UnlockedOps
<1>3. rows[work[p].name] \in Row  BY <1>2 DEF Typed, TypeOK
<1>4. work[p].op \in {"add", "reserve", "revoke", "enable", "disable", "rotate", "enroll"}
  BY DEF Typed, Shape, ShapeOf, LockedOps, UnlockedOps, Procs
<1> QED BY <1>1, <1>3, <1>4 DEF NewRow, Row

LEMMA CommitTyped ==
    ASSUME Typed, NEW p \in Procs, Commit(p)
    PROVE  Typed'
<1>1. work[p] \in Work /\ ShapeOf(p, "save", work[p])
  BY DEF Typed, TypeOK, Shape, ShapeOf, Commit
<1>2. PICK e \in Expiries : rows' = [rows EXCEPT ![work[p].name] = NewRow(p, e)]
  BY DEF Commit
<1>3. NewRow(p, e) \in Row  BY NewRowType DEF Commit
<1>4. rows' \in [Names -> Row]
  BY <1>2, <1>3 DEF Typed, TypeOK
<1>5. Moves(p, "save", work[p])
  BY GotoMoves DEF Typed, Commit
<1> QED BY <1>1, <1>4, <1>5, MovesTyped
        DEF Typed, TypeOK, Commit, clock, counters, PCs

LEMMA SaveTyped ==
    ASSUME Typed, NEW p \in Procs, SaveConfig(p)
    PROVE  Typed'
<1> DEFINE w == [work[p] EXCEPT !.snap = rows]
<1>1. work[p] \in Work /\ work[p].cfg \in ConfigFile /\ rows \in [Names -> Row]
  BY DEF Typed, TypeOK, Work
<1>2. w \in Work /\ w.op = work[p].op /\ w.name = work[p].name
  BY <1>1 DEF Work
<1>3. Moves(p, "write", w)  BY DEF SaveConfig, Goto, Moves
<1>4. ShapeOf(p, "write", w)
  BY <1>2 DEF Typed, Shape, ShapeOf, SaveConfig
<1>5. cfg' \in ConfigFile /\ acked' \in ConfigFile
  BY <1>1 DEF Typed, TypeOK, SaveConfig, ConfigFile, Fields
<1> QED BY <1>2, <1>3, <1>4, <1>5, MovesTyped
        DEF Typed, TypeOK, SaveConfig, Unlock, clock, PCs

\* A save that ends its operation: _save_config_patch and renew-cert.
LEMMA EditTyped ==
    ASSUME Typed, NEW p \in Procs, SavePatch(p) \/ RenewSave(p)
    PROVE  Typed'
<1>1. pc' \in [Procs -> PCs] /\ work' \in [Procs -> Work] /\ Shape'
  BY DoneMoves, MovesTyped, IdleShape, NoWorkType DEF PCs, SavePatch, RenewSave
<1>2. work[p].cfg \in ConfigFile /\ edits \in Nat /\ acked \in ConfigFile
  BY DEF Typed, TypeOK, Work
<1>3. cfg' \in ConfigFile /\ acked' \in ConfigFile /\ edits' \in Nat
  BY <1>2 DEF SavePatch, RenewSave, ConfigFile, Fields
<1> QED BY <1>1, <1>3 DEF Typed, TypeOK, SavePatch, RenewSave, Unlock, clock, locks

LEMMA WriteTyped ==
    ASSUME Typed, NEW p \in Procs, WriteConf(p)
    PROVE  Typed'
<1>1. work[p] \in Work /\ work[p].snap \in [Names -> Row] /\ ShapeOf(p, "sync", work[p])
  BY DEF Typed, TypeOK, Work, Shape, ShapeOf, WriteConf
<1>2. conf' \subseteq Peer
  BY <1>1, LivePeersType DEF WriteConf
<1>3. Moves(p, "sync", work[p])
  BY GotoMoves DEF Typed, WriteConf
<1> QED BY <1>1, <1>2, <1>3, MovesTyped
        DEF Typed, TypeOK, WriteConf, locks, clock, PCs

LEMMA UnlockedCallsTyped ==
    ASSUME Typed, NEW p \in Admins, RenewLoad(p) \/ Reconcile(p)
    PROVE  Typed'
<1>1. p \in Procs /\ p \notin Listeners
  BY RegistryAssumption DEF Procs
<1>2. cfg \in ConfigFile /\ rows \in [Names -> Row]  BY DEF Typed, TypeOK
<1>3. CASE RenewLoad(p)
  <2> DEFINE w == [NoWork EXCEPT !.op = "renew", !.cfg = cfg]
  <2>1. w \in Work  BY <1>2, FreshWork, Blanks DEF UnlockedOps
  <2>2. Moves(p, "renew", w)  BY <1>3 DEF RenewLoad, LoadedConfig, Goto, Moves
  <2>3. ShapeOf(p, "renew", w)  BY <1>1 DEF ShapeOf, NoWork, UnlockedOps
  <2> QED BY <1>1, <1>3, <2>1, <2>2, <2>3, MovesTyped
          DEF Typed, TypeOK, RenewLoad, files, locks, clock, PCs
<1>4. CASE Reconcile(p)
  <2> DEFINE w == [NoWork EXCEPT !.op = "reconcile", !.snap = rows]
  <2>1. w \in Work  BY <1>2, FreshWork, Blanks DEF UnlockedOps
  <2>2. Moves(p, "write", w)  BY <1>4 DEF Reconcile, Goto, Moves
  <2>3. ShapeOf(p, "write", w)  BY <1>1 DEF ShapeOf, NoWork, UnlockedOps
  <2> QED BY <1>1, <1>4, <2>1, <2>2, <2>3, MovesTyped
          DEF Typed, TypeOK, Reconcile, files, locks, clock, PCs
<1> QED BY <1>3, <1>4

LEMMA EnrolCallsTyped ==
    ASSUME Typed, NEW p \in Listeners
    PROVE  /\ EnrollLoad(p) => Typed'
           /\ \A t \in Tokens : RedeemLoad(p, t) => Typed'
<1>1. p \in Procs /\ p \notin Admins
  BY RegistryAssumption DEF Procs
<1>2. cfg \in ConfigFile /\ tokens \in TokenFile /\ work[p] \in Work
  BY <1>1 DEF Typed, TypeOK
<1>3. ASSUME EnrollLoad(p) PROVE Typed'
  <2> DEFINE w == [work[p] EXCEPT !.cfg = cfg]
  <2>1. w \in Work /\ w.op = work[p].op /\ w.name = work[p].name  BY <1>2 DEF Work
  <2>2. Moves(p, "begin", w)  BY <1>3 DEF EnrollLoad, LoadedConfig, Goto, Moves
  <2>3. ShapeOf(p, "begin", w)
    BY <1>1, <1>3, <2>1 DEF Typed, Shape, ShapeOf, EnrollLoad
  <2> QED BY <1>1, <1>3, <2>1, <2>2, <2>3, MovesTyped
          DEF Typed, TypeOK, EnrollLoad, files, locks, clock, counters, PCs
<1>4. ASSUME NEW t \in Tokens, RedeemLoad(p, t) PROVE Typed'
  <2> DEFINE w == [NoWork EXCEPT !.op = "enroll", !.token = t, !.name = owner[t],
                                 !.held = tokens]
  <2>1. owner[t] \in Names
    BY <1>4 DEF Typed, TypeOK, RedeemLoad, Minted
  <2>2. t \in Nat  BY <1>4, RegistryAssumption DEF Tokens
  <2>3. w \in Work  BY <1>2, <2>1, <2>2, FreshWork, Blanks
  <2>4. Moves(p, "redeem", w)  BY <1>4 DEF RedeemLoad, Goto, Moves
  <2>5. ShapeOf(p, "redeem", w)
    BY <1>1, <2>1 DEF ShapeOf, NoWork, UnlockedOps
  <2> QED BY <1>1, <1>4, <2>3, <2>4, <2>5, MovesTyped
          DEF Typed, TypeOK, RedeemLoad, files, locks, clock, PCs
<1> QED BY <1>3, <1>4

LEMMA ClockTyped ==
    ASSUME Typed, DayPasses \/ \E t \in Tokens : TokenLapses(t)
    PROVE  Typed'
<1>1. CASE DayPasses
  BY <1>1 DEF Typed, TypeOK, Shape, DayPasses, files, locks
<1>2. CASE \E t \in Tokens : TokenLapses(t)
  BY <1>2 DEF Typed, TypeOK, Shape, TokenLapses, files, locks, counters
<1> QED BY <1>1, <1>2

LEMMA StutterTyped ==
    ASSUME Typed, UNCHANGED vars
    PROVE  Typed'
BY DEF Typed, TypeOK, Shape, vars, files, locks, clock, counters

LEMMA ContinueTyped ==
    ASSUME Typed, NEW p \in Procs, Continue(p)
    PROVE  Typed'
<1>1. CASE Transaction(p)
  BY <1>1, LockTyped, BeginTyped, AbortTyped, HotTyped, CommitTyped, SaveTyped
  DEF Transaction
<1>2. CASE Persist(p)
  BY <1>2, WriteTyped, AbortTyped DEF Persist
<1>3. CASE p \in Admins /\ AdminStep(p)
  BY <1>3, TokenStepsTyped, EditTyped DEF AdminStep
<1>4. CASE p \in Listeners /\ ListenerStep(p)
  BY <1>4, TokenStepsTyped, AbortTyped, EnrolCallsTyped DEF ListenerStep
<1> QED BY <1>1, <1>2, <1>3, <1>4 DEF Continue

LEMMA NextTyped == Typed /\ [Next]_vars => Typed'
<1> SUFFICES ASSUME Typed, [Next]_vars PROVE Typed'  OBVIOUS
<1>1. CASE Start
  BY <1>1, CallTyped, UnlockedCallsTyped, EnrolCallsTyped DEF Start
<1>2. CASE \E p \in Procs : Continue(p)
  BY <1>2, ContinueTyped
<1>3. CASE Environment
  BY <1>3, AbortTyped, ClockTyped DEF Environment
<1> QED BY <1>1, <1>2, <1>3, StutterTyped DEF Next

LEMMA AlwaysTyped == Spec => []Typed
BY InitTyped, NextTyped, PTL DEF Spec

\* Every state a run of the registry reaches is well typed, whatever the
\* processes, the pool, the operations performed and the failures allowed.
THEOREM TypeCorrect == Spec => []TypeOK
<1>1. Typed => TypeOK  BY DEF Typed
<1> QED BY <1>1, AlwaysTyped, PTL

-----------------------------------------------------------------------------
(* Who holds the locks.                                                    *)

TxnSteps == {"tokload", "toksave", "hot", "commit"}
LockedSteps == TxnSteps \cup {"begin", "save"}

\* The write lock is held exactly inside a transaction, the flock exactly
\* inside locked_config.
HoldsAt(p, l, d, f) ==
    /\ d = p <=> l \in TxnSteps
    /\ f = p <=> p \in Admins /\ l \in LockedSteps
LocksHeld == \A p \in Procs : HoldsAt(p, pc[p], db, flock)

\* Process p goes to step l, and takes and gives back the locks accordingly.
LockMove(p, l) ==
    /\ pc' = [pc EXCEPT ![p] = l]
    /\ IF l \in TxnSteps THEN db \in {p, Nobody} /\ db' = p
                         ELSE db' = IF db = p THEN Nobody ELSE db
    /\ IF p \in Admins /\ l \in LockedSteps
       THEN flock \in {p, Nobody} /\ flock' = p
       ELSE flock' = IF flock = p THEN Nobody ELSE flock

LEMMA NobodyRuns == Nobody \notin Procs
BY RegistryAssumption

LEMMA LockMoves ==
    ASSUME Typed, LocksHeld, NEW p \in Procs, NEW l, LockMove(p, l)
    PROVE  LocksHeld'
<1> SUFFICES ASSUME NEW q \in Procs PROVE HoldsAt(q, pc'[q], db', flock')
  BY DEF LocksHeld
<1>1. p # Nobody /\ q # Nobody  BY NobodyRuns
<1>2. HoldsAt(q, pc[q], db, flock)  BY DEF LocksHeld
<1>3. pc'[q] = IF q = p THEN l ELSE pc[q]
  BY DEF Typed, TypeOK, LockMove
<1>4. CASE q = p  BY <1>1, <1>3, <1>4 DEF LockMove, HoldsAt
<1>5. CASE q # p  BY <1>1, <1>2, <1>3, <1>5 DEF LockMove, HoldsAt
<1> QED BY <1>4, <1>5

LEMMA InitLocks == Init => LocksHeld
BY NobodyRuns DEF Init, LocksHeld, HoldsAt, TxnSteps, LockedSteps

LEMMA TxnLocks ==
    ASSUME Typed, LocksHeld, NEW p \in Procs, Transaction(p)
    PROVE  LocksHeld'
<1>1. HoldsAt(p, pc[p], db, flock) /\ p # Nobody
  BY NobodyRuns DEF LocksHeld
<1>2. p \in Admins \/ p \in Listeners  BY DEF Procs
<1>3. ShapeOf(p, pc[p], work[p])  BY DEF Typed, Shape
<1>4. CASE Lock(p)
  <2>1. pc[p] = "flock" /\ p \in Admins
    BY <1>3, <1>4 DEF Lock, ShapeOf
  <2> DEFINE l == IF work[p].op = "patch" THEN "save" ELSE "begin"
  <2>2. LockMove(p, l)
    BY <1>1, <1>4, <2>1 DEF Lock, LockMove, Goto, FlockFree, HoldsAt, TxnSteps, LockedSteps
  <2> QED BY <2>2, LockMoves
<1>5. CASE BeginTxn(p)
  <2> DEFINE l == IF work[p].op \in {"reserve", "revoke"} THEN "tokload" ELSE "hot"
  <2>1. LockMove(p, l)
    BY <1>1, <1>5 DEF BeginTxn, LockMove, Goto, DbFree, HoldsAt, TxnSteps, LockedSteps
  <2> QED BY <2>1, LockMoves
<1>6. CASE RefuseTxn(p) \/ TimeoutTxn(p)
  <2>1. LockMove(p, "idle")
    BY <1>1, <1>6 DEF RefuseTxn, TimeoutTxn, Abort, Done, Unlock, LockMove, Goto, HoldsAt,
                      TxnSteps, LockedSteps
  <2> QED BY <2>1, LockMoves
<1>7. CASE HotApply(p)
  <2>1. LockMove(p, "commit")
    BY <1>1, <1>7 DEF HotApply, LockMove, Goto, HoldsAt, TxnSteps, LockedSteps, locks
  <2> QED BY <2>1, LockMoves
<1>8. CASE Commit(p)
  <2>1. LockMove(p, "save")
    BY <1>1, <1>8 DEF Commit, LockMove, Goto, HoldsAt, TxnSteps, LockedSteps
  <2> QED BY <2>1, LockMoves
<1>9. CASE SaveConfig(p)
  <2>1. LockMove(p, "write")
    BY <1>1, <1>9 DEF SaveConfig, LockMove, Goto, Unlock, HoldsAt, TxnSteps, LockedSteps
  <2> QED BY <2>1, LockMoves
<1> QED BY <1>4, <1>5, <1>6, <1>7, <1>8, <1>9 DEF Transaction

\* The steps outside transactions neither take nor give back a lock, except
\* that _save_config_patch leaves locked_config.
LEMMA PersistLocks ==
    ASSUME Typed, LocksHeld, NEW p \in Procs, Persist(p)
    PROVE  LocksHeld'
<1>1. HoldsAt(p, pc[p], db, flock) /\ p # Nobody
  BY NobodyRuns DEF LocksHeld
<1>2. CASE WriteConf(p)
  <2>1. LockMove(p, "sync")
    BY <1>1, <1>2 DEF WriteConf, LockMove, Goto, HoldsAt, TxnSteps, LockedSteps, locks
  <2> QED BY <2>1, LockMoves
<1>3. CASE SyncLive(p) \/ PersistFails(p)
  <2>1. LockMove(p, "idle")
    BY <1>1, <1>3 DEF SyncLive, PersistFails, Done, LockMove, Goto, HoldsAt, TxnSteps,
                      LockedSteps, locks
  <2> QED BY <2>1, LockMoves
<1> QED BY <1>2, <1>3 DEF Persist

LEMMA AdminLocks ==
    ASSUME Typed, LocksHeld, NEW p \in Procs, AdminStep(p)
    PROVE  LocksHeld'
<1>1. HoldsAt(p, pc[p], db, flock) /\ p # Nobody
  BY NobodyRuns DEF LocksHeld
<1>2. CASE LoadTokens(p)
  <2>1. LockMove(p, "toksave")
    BY <1>1, <1>2 DEF LoadTokens, LockMove, Goto, HoldsAt, TxnSteps, LockedSteps, locks
  <2> QED BY <2>1, LockMoves
<1>3. CASE IssueToken(p)
  <2>1. LockMove(p, "commit")
    BY <1>1, <1>3 DEF IssueToken, LockMove, Goto, HoldsAt, TxnSteps, LockedSteps, locks
  <2> QED BY <2>1, LockMoves
<1>4. CASE RevokeTokens(p)
  <2>1. LockMove(p, "hot")
    BY <1>1, <1>4 DEF RevokeTokens, LockMove, Goto, HoldsAt, TxnSteps, LockedSteps, locks
  <2> QED BY <2>1, LockMoves
<1>5. CASE SavePatch(p)
  <2>1. LockMove(p, "idle")
    BY <1>1, <1>5 DEF SavePatch, Done, Unlock, LockMove, Goto, HoldsAt, TxnSteps, LockedSteps
  <2> QED BY <2>1, LockMoves
<1>6. CASE RenewSave(p)
  <2>1. LockMove(p, "idle")
    BY <1>1, <1>6 DEF RenewSave, Done, LockMove, Goto, HoldsAt, TxnSteps, LockedSteps, locks
  <2> QED BY <2>1, LockMoves
<1> QED BY <1>2, <1>3, <1>4, <1>5, <1>6 DEF AdminStep

LEMMA ListenerLocks ==
    ASSUME Typed, LocksHeld, NEW p \in Listeners, ListenerStep(p)
    PROVE  LocksHeld'
<1>1. p \in Procs /\ p \notin Admins  BY RegistryAssumption DEF Procs
<1>2. HoldsAt(p, pc[p], db, flock) /\ p # Nobody
  BY <1>1, NobodyRuns DEF LocksHeld
<1>3. CASE RedeemSave(p)
  <2>1. LockMove(p, "enload")
    BY <1>1, <1>2, <1>3 DEF RedeemSave, LockMove, Goto, HoldsAt, TxnSteps, LockedSteps, locks
  <2> QED BY <1>1, <2>1, LockMoves
<1>4. CASE RedeemRefuse(p)
  <2>1. LockMove(p, "idle")
    BY <1>1, <1>2, <1>4 DEF RedeemRefuse, Done, LockMove, Goto, HoldsAt, TxnSteps,
                            LockedSteps, locks
  <2> QED BY <1>1, <2>1, LockMoves
<1>5. CASE EnrollLoad(p)
  <2>1. LockMove(p, "begin")
    BY <1>1, <1>2, <1>5 DEF EnrollLoad, LockMove, Goto, HoldsAt, TxnSteps, LockedSteps, locks
  <2> QED BY <1>1, <2>1, LockMoves
<1> QED BY <1>3, <1>4, <1>5 DEF ListenerStep

LEMMA StartLocks ==
    ASSUME Typed, LocksHeld, Start
    PROVE  LocksHeld'
<1>1. PICK p \in Procs, l \in {"flock", "renew", "write", "redeem"} :
          pc[p] = "idle" /\ Goto(p, l) /\ UNCHANGED locks
  BY DEF Start, Call, RenewLoad, Reconcile, RedeemLoad, Procs
<1>2. HoldsAt(p, pc[p], db, flock) /\ p # Nobody
  BY NobodyRuns DEF LocksHeld
<1>3. LockMove(p, l)
  BY <1>1, <1>2 DEF LockMove, Goto, HoldsAt, TxnSteps, LockedSteps, locks
<1> QED BY <1>3, LockMoves

LEMMA EnvironmentLocks ==
    ASSUME Typed, LocksHeld, Environment
    PROVE  LocksHeld'
<1>1. CASE \E p \in Procs : Crash(p)
  <2>1. PICK p \in Procs : Crash(p)  BY <1>1
  <2>2. LockMove(p, "idle")
    BY <2>1 DEF Crash, Unlock, Done, Goto, LockMove, TxnSteps, LockedSteps
  <2> QED BY <2>2, LockMoves
<1>2. CASE DayPasses \/ \E t \in Tokens : TokenLapses(t)
  BY <1>2 DEF DayPasses, TokenLapses, LocksHeld, locks
<1> QED BY <1>1, <1>2 DEF Environment

LEMMA AlwaysLocksHeld == Spec => []LocksHeld
<1>1. Typed /\ LocksHeld /\ [Next]_vars => LocksHeld'
  <2> SUFFICES ASSUME Typed, LocksHeld, [Next]_vars PROVE LocksHeld'  OBVIOUS
  <2>1. CASE \E p \in Procs : Continue(p)
    BY <2>1, TxnLocks, PersistLocks, AdminLocks, ListenerLocks DEF Continue
  <2>2. CASE UNCHANGED vars
    BY <2>2 DEF vars, locks, LocksHeld
  <2> QED BY <2>1, <2>2, StartLocks, EnvironmentLocks DEF Next
<1> QED BY <1>1, InitLocks, AlwaysTyped, PTL DEF Spec

-----------------------------------------------------------------------------
(* The checks made at BEGIN IMMEDIATE hold until COMMIT.                   *)

\* What process p may rely on inside its transaction.
Agreed(p) ==
    LET w == work[p]
        r == rows[w.name]
    IN  pc[p] \in TxnSteps =>
            /\ w.op \in {"add", "reserve"} =>
                  ~Standing(r) /\ w.addr \in Addresses /\ w.addr \notin Taken(rows)
            /\ w.op \notin {"add", "reserve"} => Standing(r)
            /\ w.op = "enroll" => r.key = NoKey
            /\ w.op = "reserve" => w.key = NoKey
            /\ NeedsKey(w.op) => w.key <= keys /\ \A n \in Names : rows[n].key < w.key
Checked == \A p \in Procs : Agreed(p)

KeysBounded == \A n \in Names : rows[n].key <= keys

Transactional == Checked /\ KeysBounded /\ AddressesUnique

\* The lists the operations carry, and those they left behind.
Unrepeated(rs) ==
    \A m, n \in Names : m # n /\ Standing(rs[m]) /\ Standing(rs[n]) => rs[m].addr # rs[n].addr
SnapshotsUnique == \A p \in Procs : Unrepeated(work[p].snap)

\* What its own change looks like in a registry rs, for an admin's operation w.
Shows(w, rs) ==
    LET r == rs[w.name] IN
    CASE w.op \in {"add", "rotate"} -> Standing(r) /\ r.key = w.key
      [] w.op = "reserve" -> Standing(r)
      [] w.op = "revoke" -> r.st = "revoked"
      [] w.op = "enable" -> r.st = "active"
      [] w.op = "disable" -> r.st = "disabled"
OwnChangeKept ==
    \A p \in Admins : pc[p] = "save" /\ work[p].op # "patch" =>
        Shows(work[p], rows) /\ (NeedsKey(work[p].op) => work[p].key # NoKey)

\* A step that changes no row, mints no key and brings no one into a
\* transaction leaves all of this alone.
Quiet ==
    /\ rows' = rows /\ keys' = keys
    /\ \A q \in Procs : pc'[q] \in TxnSteps =>
          /\ pc[q] \in TxnSteps
          /\ work'[q].op = work[q].op /\ work'[q].name = work[q].name
          /\ work'[q].key = work[q].key /\ work'[q].addr = work[q].addr

LEMMA QuietKeeps ==
    ASSUME Transactional, Quiet
    PROVE  Transactional'
<1>1. ASSUME NEW q \in Procs PROVE Agreed(q)'
  BY <1>1 DEF Transactional, Checked, Quiet, Agreed, NeedsKey, Standing, Taken
<1>2. KeysBounded' /\ AddressesUnique'
  BY DEF Transactional, KeysBounded, AddressesUnique, Standing, Quiet
<1> QED BY <1>1, <1>2 DEF Transactional, Checked

\* Most actions move one process and touch neither rows nor keys.
LEMMA QuietMove ==
    ASSUME Typed, NEW p \in Procs, NEW l, NEW w,
           pc' = [pc EXCEPT ![p] = l], work' = [work EXCEPT ![p] = w],
           rows' = rows, keys' = keys,
           l \in TxnSteps => /\ pc[p] \in TxnSteps
                             /\ w.op = work[p].op /\ w.name = work[p].name
                             /\ w.key = work[p].key /\ w.addr = work[p].addr
    PROVE  Quiet
BY DEF Typed, TypeOK, Quiet

LEMMA QuietGoto ==
    ASSUME Typed, NEW p \in Procs, NEW l, Goto(p, l), work' = work,
           rows' = rows, keys' = keys, l \in TxnSteps => pc[p] \in TxnSteps
    PROVE  Quiet
BY DEF Typed, TypeOK, Goto, Quiet

LEMMA QuietDone ==
    ASSUME Typed, NEW p \in Procs, Done(p), rows' = rows, keys' = keys
    PROVE  Quiet
BY QuietMove DEF Done, Goto, TxnSteps

LEMMA QuietTransactions ==
    ASSUME Typed, NEW p \in Procs, Transaction(p), ~BeginTxn(p), ~Commit(p)
    PROVE  Quiet
<1>1. CASE Lock(p)
  BY <1>1, QuietMove DEF Lock, Goto, TxnSteps, files
<1>2. CASE RefuseTxn(p) \/ TimeoutTxn(p)
  BY <1>2, QuietDone DEF RefuseTxn, TimeoutTxn, Abort, files, counters
<1>3. CASE HotApply(p)
  BY <1>3, QuietGoto DEF HotApply, TxnSteps, counters
<1>4. CASE SaveConfig(p)
  BY <1>4, QuietMove DEF SaveConfig, Goto, TxnSteps
<1> QED BY <1>1, <1>2, <1>3, <1>4 DEF Transaction

LEMMA QuietPersist ==
    ASSUME Typed, NEW p \in Procs, Persist(p)
    PROVE  Quiet
<1>1. CASE WriteConf(p)
  BY <1>1, QuietGoto DEF WriteConf, TxnSteps
<1>2. CASE SyncLive(p) \/ PersistFails(p)
  BY <1>2, QuietDone DEF SyncLive, PersistFails, files, counters
<1> QED BY <1>1, <1>2 DEF Persist

LEMMA QuietAdmin ==
    ASSUME Typed, NEW p \in Procs, AdminStep(p)
    PROVE  Quiet
<1>1. CASE LoadTokens(p)
  <2> DEFINE w == [work[p] EXCEPT !.held = tokens]
  <2>1. work[p] \in Work  BY DEF Typed, TypeOK
  <2>2. /\ w.op = work[p].op /\ w.name = work[p].name
        /\ w.key = work[p].key /\ w.addr = work[p].addr
    BY <2>1 DEF Work
  <2>3. work' = [work EXCEPT ![p] = w]
    BY <1>1 DEF LoadTokens
  <2>4. pc' = [pc EXCEPT ![p] = "toksave"] /\ rows' = rows /\ keys' = keys /\ pc[p] \in TxnSteps
    BY <1>1 DEF LoadTokens, Goto, TxnSteps, files, counters
  <2> HIDE DEF w
  <2> QED BY <2>2, <2>3, <2>4, QuietMove
<1>2. CASE IssueToken(p)
  BY <1>2, QuietGoto DEF IssueToken, TxnSteps
<1>3. CASE RevokeTokens(p)
  BY <1>3, QuietGoto DEF RevokeTokens, TxnSteps, counters
<1>4. CASE SavePatch(p) \/ RenewSave(p)
  BY <1>4, QuietDone DEF SavePatch, RenewSave
<1> QED BY <1>1, <1>2, <1>3, <1>4 DEF AdminStep

LEMMA QuietListener ==
    ASSUME Typed, NEW p \in Procs, ListenerStep(p)
    PROVE  Quiet
<1>1. CASE RedeemSave(p)
  BY <1>1, QuietGoto DEF RedeemSave, TxnSteps
<1>2. CASE RedeemRefuse(p)
  BY <1>2, QuietDone DEF RedeemRefuse, files, counters
<1>3. CASE EnrollLoad(p)
  BY <1>3, QuietMove DEF EnrollLoad, Goto, TxnSteps, files, counters
<1> QED BY <1>1, <1>2, <1>3 DEF ListenerStep

LEMMA QuietStart ==
    ASSUME Typed, Start
    PROVE  Quiet
<1>1. ASSUME NEW p \in Admins, NEW o \in AdminOps, NEW n \in Names, Call(p, o, n)
      PROVE  Quiet
  BY <1>1, QuietMove DEF Call, Goto, TxnSteps, files, Procs
<1>2. ASSUME NEW p \in Admins, RenewLoad(p) \/ Reconcile(p)
      PROVE  Quiet
  BY <1>2, QuietMove DEF RenewLoad, Reconcile, Goto, TxnSteps, files, Procs
<1>3. ASSUME NEW p \in Listeners, NEW t \in Tokens, RedeemLoad(p, t)
      PROVE  Quiet
  BY <1>3, QuietMove DEF RedeemLoad, Goto, TxnSteps, files, Procs
<1> QED BY <1>1, <1>2, <1>3 DEF Start

LEMMA QuietEnvironment ==
    ASSUME Typed, Environment
    PROVE  Quiet
<1>1. ASSUME NEW p \in Procs, Crash(p) PROVE Quiet
  BY <1>1, QuietDone DEF Crash, files
<1>2. CASE DayPasses
  BY <1>2 DEF DayPasses, Quiet, files
<1>3. CASE \E t \in Tokens : TokenLapses(t)
  BY <1>3 DEF TokenLapses, Quiet, files, counters
<1> QED BY <1>1, <1>2, <1>3 DEF Environment

\* Begin and commit are the only steps that matter to Transactional.
LEMMA OtherStepsQuiet ==
    ASSUME Typed, [Next]_vars, ~\E p \in Procs : BeginTxn(p) \/ Commit(p)
    PROVE  Quiet
<1>1. CASE \E p \in Procs : Continue(p)
  BY <1>1, QuietTransactions, QuietPersist, QuietAdmin, QuietListener DEF Continue
<1>2. CASE UNCHANGED vars
  BY <1>2 DEF vars, files, counters, Quiet
<1> QED BY <1>1, <1>2, QuietStart, QuietEnvironment DEF Next

\* A transaction begins: no one else is in one, and its checks have passed.
LEMMA BeginKeeps ==
    ASSUME Typed, LocksHeld, Transactional, NEW p \in Procs, BeginTxn(p)
    PROVE  Transactional'
<1> DEFINE o == work[p].op
           k == IF NeedsKey(o) THEN keys + 1 ELSE NoKey
<1>1. work[p] \in Work /\ keys \in Nat /\ work[p].name \in Names
  BY DEF Typed, TypeOK, Shape, ShapeOf, BeginTxn, UnlockedOps
<1>2. PICK a \in IF o \in {"add", "reserve"} THEN Addresses ELSE {rows[work[p].name].addr} :
        /\ o \in {"add", "reserve"} => FirstFree(rows, a)
        /\ work' = [work EXCEPT ![p] = [@ EXCEPT !.key = k, !.addr = a]]
  BY DEF BeginTxn
<1>3. work'[p] = [work[p] EXCEPT !.key = k, !.addr = a]
  BY <1>2 DEF Typed, TypeOK
<1>4. work'[p].op = o /\ work'[p].name = work[p].name /\ work'[p].key = k /\ work'[p].addr = a
  BY <1>1, <1>3 DEF Work
<1>5. \A n \in Names : rows[n].key \in Nat /\ rows[n].key <= keys
  BY DEF Typed, TypeOK, Row, Transactional, KeysBounded
<1>6. rows' = rows /\ keys' = IF NeedsKey(o) THEN keys + 1 ELSE keys
  BY DEF BeginTxn, files
<1>7. KeysBounded' /\ AddressesUnique'
  BY <1>1, <1>5, <1>6 DEF Transactional, KeysBounded, AddressesUnique, Standing
<1>8. ASSUME NEW q \in Procs, q # p PROVE pc'[q] \notin TxnSteps
  BY <1>8, NobodyRuns DEF BeginTxn, DbFree, LocksHeld, HoldsAt, Typed, TypeOK, Goto
<1>9. Agreed(p)'
  <2>1. ~Refused(o, rows[work[p].name])  BY DEF BeginTxn
  <2>2. o \in {"add", "reserve"} =>
            ~Standing(rows[work[p].name]) /\ a \in Addresses /\ a \notin Taken(rows)
    BY <1>2, <2>1 DEF Refused, FirstFree, Free
  <2>3. o \notin {"add", "reserve"} => Standing(rows[work[p].name])
    BY <2>1 DEF Refused
  <2>4. o = "enroll" => rows[work[p].name].key = NoKey
    BY <2>1 DEF Refused
  <2>5. o = "reserve" => k = NoKey  BY DEF NeedsKey
  <2>6. NeedsKey(o) => k <= keys' /\ \A n \in Names : rows[n].key < k
    BY <1>1, <1>5, <1>6
  <2>7. Standing(rows'[work'[p].name]) <=> Standing(rows[work[p].name])
    BY <1>4, <1>6 DEF Standing
  <2>8. Taken(rows') = Taken(rows)  BY <1>6
  <2> HIDE DEF o, k
  <2> QED BY <1>4, <1>6, <2>2, <2>3, <2>4, <2>5, <2>6, <2>7, <2>8 DEF Agreed
<1> QED BY <1>7, <1>8, <1>9 DEF Transactional, Checked, Agreed

\* What a commit does to the registry, in the terms the invariants need.
LEMMA CommitChanges ==
    ASSUME Typed, Transactional, NEW p \in Procs, Commit(p)
    PROVE  \E n \in Names, r \in Row :
              /\ n = work[p].name /\ rows' = [rows EXCEPT ![n] = r]
              /\ r.key <= keys
              /\ Standing(r) => \A m \in Names \ {n} : Standing(rows[m]) => rows[m].addr # r.addr
<1> DEFINE n == work[p].name
<1>1. /\ n \in Names /\ work[p] \in Work /\ keys \in Nat
      /\ work[p].op \in {"add", "reserve", "revoke", "enable", "disable", "rotate", "enroll"}
  BY DEF Typed, TypeOK, Shape, ShapeOf, Commit, LockedOps, UnlockedOps, Procs
<1>2. PICK e \in Expiries : rows' = [rows EXCEPT ![n] = NewRow(p, e)]
  BY DEF Commit
<1> DEFINE r == NewRow(p, e)
<1>3. r \in Row  BY NewRowType DEF Commit
<1>4. rows[n] \in Row /\ rows[n].key <= keys
  BY <1>1 DEF Typed, TypeOK, Transactional, KeysBounded
<1>5. Agreed(p) /\ pc[p] \in TxnSteps
  BY DEF Transactional, Checked, Commit, TxnSteps
<1>6. r.key \in {work[p].key, rows[n].key}
      /\ (r.key = rows[n].key \/ NeedsKey(work[p].op) \/ work[p].op = "reserve")
  BY <1>1, <1>4 DEF NewRow, NeedsKey, Row
<1>7. r.key <= keys
  BY <1>1, <1>4, <1>5, <1>6 DEF Agreed, NeedsKey, NoKey
<1>8. CASE work[p].op \in {"add", "reserve"}
  <2>1. r.addr = work[p].addr  BY <1>8 DEF NewRow
  <2>2. work[p].addr \notin Taken(rows)  BY <1>5, <1>8 DEF Agreed
  <2>3. \A m \in Names : Standing(rows[m]) => rows[m].addr # r.addr
    BY <2>1, <2>2 DEF Taken
  <2> QED BY <1>1, <1>2, <1>3, <1>7, <2>3
<1>9. CASE work[p].op \notin {"add", "reserve"}
  <2>1. r.addr = rows[n].addr  BY <1>1, <1>4, <1>9 DEF NewRow, Row
  <2>2. Standing(rows[n])  BY <1>5, <1>9 DEF Agreed
  <2>3. \A m \in Names \ {n} : Standing(rows[m]) => rows[m].addr # r.addr
    BY <1>1, <2>1, <2>2 DEF Transactional, AddressesUnique
  <2> QED BY <1>1, <1>2, <1>3, <1>7, <2>3
<1> QED BY <1>8, <1>9

LEMMA CommitKeeps ==
    ASSUME Typed, LocksHeld, Transactional, NEW p \in Procs, Commit(p)
    PROVE  Transactional'
<1>1. PICK n \in Names, r \in Row :
          /\ n = work[p].name /\ rows' = [rows EXCEPT ![n] = r]
          /\ r.key <= keys
          /\ Standing(r) => \A m \in Names \ {n} : Standing(rows[m]) => rows[m].addr # r.addr
  BY CommitChanges
<1>2. keys' = keys /\ rows \in [Names -> Row]
  BY DEF Commit, counters, Typed, TypeOK
<1>3. KeysBounded'
  BY <1>1, <1>2 DEF KeysBounded, Transactional
<1>4. AddressesUnique'
  <2> SUFFICES ASSUME NEW m \in Names, NEW k \in Names, m # k,
                      Standing(rows'[m]), Standing(rows'[k])
               PROVE  rows'[m].addr # rows'[k].addr
    BY DEF AddressesUnique, Standing
  <2>1. rows'[m] = (IF m = n THEN r ELSE rows[m]) /\ rows'[k] = (IF k = n THEN r ELSE rows[k])
    BY <1>1, <1>2
  <2>2. CASE m # n /\ k # n
    BY <2>1, <2>2 DEF Transactional, AddressesUnique
  <2>3. CASE m = n \/ k = n
    BY <1>1, <2>1, <2>3
  <2> QED BY <2>2, <2>3
<1>5. ASSUME NEW q \in Procs PROVE pc'[q] \notin TxnSteps
  BY <1>5 DEF Commit, LocksHeld, HoldsAt, TxnSteps, Goto, Typed, TypeOK
<1> QED BY <1>3, <1>4, <1>5 DEF Transactional, Checked, Agreed

LEMMA InitTransactional == Init => Transactional
<1> SUFFICES ASSUME Init PROVE Transactional  OBVIOUS
<1>1. \A n \in Names : rows[n].key = 0 /\ ~Standing(rows[n])
  BY DEF Init, AbsentRow, NoKey, Standing
<1>2. KeysBounded  BY <1>1 DEF Init, KeysBounded
<1>4. AddressesUnique  BY <1>1 DEF AddressesUnique
<1>3. Checked  BY DEF Init, Checked, Agreed, TxnSteps
<1> QED BY <1>2, <1>3, <1>4 DEF Transactional

LEMMA AlwaysTransactional == Spec => []Transactional
<1>1. Typed /\ LocksHeld /\ Transactional /\ [Next]_vars => Transactional'
  BY OtherStepsQuiet, QuietKeeps, BeginKeeps, CommitKeeps
<1> QED BY <1>1, InitTransactional, AlwaysTyped, AlwaysLocksHeld, PTL DEF Spec

\* No two registered clients ever hold one tunnel address, however many
\* processes allocate at once and whichever of them are killed.
THEOREM AddressesStayUnique == Spec => []AddressesUnique
<1>1. Transactional => AddressesUnique  BY DEF Transactional
<1> QED BY <1>1, AlwaysTransactional, PTL

-----------------------------------------------------------------------------
(* The ledger: every commit is one step of the abstract specification.     *)

LEMMA CommitIsLedgerStep ==
    ASSUME Typed, Transactional, NEW p \in Procs, Commit(p)
    PROVE  Ledger!Next
<1> DEFINE n == work[p].name
           o == work[p].op
<1>1. /\ n \in Names /\ work[p].key \in Nat /\ work[p].addr \in Nat
      /\ o \in {"add", "reserve", "revoke", "enable", "disable", "rotate", "enroll"}
  BY DEF Typed, TypeOK, Work, Shape, ShapeOf, Commit, LockedOps, UnlockedOps, Procs
<1>2. PICK e \in Expiries : rows' = [rows EXCEPT ![n] = NewRow(p, e)]
  BY DEF Commit
<1> DEFINE old == rows[n]
           new == NewRow(p, e)
<1>3. new \in Row  BY NewRowType DEF Commit
<1>4. old \in Row /\ rows \in [Names -> Row]  BY <1>1 DEF Typed, TypeOK
<1>5. rows'[n] = new /\ Ledger!Only(n)
  BY <1>1, <1>2, <1>3, <1>4 DEF Ledger!Only, Ledger!Slot, Row
<1>6. Agreed(p) /\ pc[p] \in TxnSteps
  BY DEF Transactional, Checked, Commit, TxnSteps
<1>7. CASE o \in {"add", "reserve"}
  <2>1. ~Standing(old) /\ work[p].addr \in Addresses /\ work[p].addr \notin Taken(rows)
    BY <1>6, <1>7 DEF Agreed
  <2>2. new.st = "active" /\ new.key = work[p].key /\ new.addr = work[p].addr
    BY <1>7 DEF NewRow
  <2>3. \A m \in Names : Standing(rows[m]) => rows[m].addr # new.addr
    BY <2>1, <2>2 DEF Taken
  <2>4. new.key = 0 \/ \A m \in Names : rows[m].key # new.key
    <3>1. CASE o = "reserve"  BY <1>6, <2>2, <3>1 DEF Agreed, NoKey
    <3>2. CASE o = "add"
      <4>1. \A m \in Names : rows[m].key < work[p].key
        BY <1>6, <3>2 DEF Agreed, NeedsKey
      <4>2. \A m \in Names : rows[m].key \in Nat  BY <1>4 DEF Row
      <4> QED BY <1>1, <2>2, <4>1, <4>2
    <3> QED BY <1>7, <3>1, <3>2
  <2>5. Ledger!Register(n)
    BY <1>5, <2>1, <2>2, <2>3, <2>4 DEF Ledger!Register, Ledger!InUse, Standing, Addresses
  <2> QED BY <1>1, <2>5 DEF Ledger!Next
<1>8. o \notin {"add", "reserve"} => Standing(old)
  BY <1>6 DEF Agreed
<1>9. CASE o = "enroll"
  <2>1. old.key = NoKey /\ old.key < work[p].key
    BY <1>1, <1>6, <1>9 DEF Agreed, NeedsKey
  <2>2. new = [old EXCEPT !.key = work[p].key]  BY <1>9 DEF NewRow
  <2>3. new.key = work[p].key /\ work[p].key # 0
    BY <1>1, <1>4, <2>1, <2>2 DEF Row, NoKey
  <2>4. Ledger!Enrol(n)
    BY <1>5, <1>8, <1>9, <2>1, <2>2, <2>3 DEF Ledger!Enrol, Ledger!InUse, Standing, NoKey
  <2> QED BY <1>1, <2>4 DEF Ledger!Next
<1>10. CASE o = "rotate"
  <2>1. old.key < work[p].key
    BY <1>1, <1>6, <1>10 DEF Agreed, NeedsKey
  <2>2. new = [old EXCEPT !.key = work[p].key]  BY <1>10 DEF NewRow
  <2>3. new.key = work[p].key /\ old.key \in Nat  BY <1>4, <2>2 DEF Row
  <2>4. new.key > old.key  BY <1>1, <2>1, <2>3
  <2>5. Ledger!Rotate(n)
    BY <1>5, <1>8, <1>10, <2>2, <2>3, <2>4 DEF Ledger!Rotate, Ledger!InUse, Standing
  <2> QED BY <1>1, <2>5 DEF Ledger!Next
<1>11. CASE o = "revoke"
  <2>1. Ledger!Revoke(n)
    BY <1>5, <1>8, <1>11 DEF NewRow, Ledger!Revoke, Ledger!InUse, Standing
  <2> QED BY <1>1, <2>1 DEF Ledger!Next
<1>12. CASE o \in {"enable", "disable"}
  <2>1. PICK st \in {"active", "disabled"} : new = [old EXCEPT !.st = st]
    BY <1>12 DEF NewRow
  <2>2. new.st = st  BY <1>4, <2>1 DEF Row
  <2>3. Ledger!Switch(n)
    BY <1>5, <1>8, <1>12, <2>1, <2>2 DEF Ledger!Switch, Ledger!InUse, Standing
  <2> QED BY <1>1, <2>3 DEF Ledger!Next
<1> QED BY <1>1, <1>7, <1>9, <1>10, <1>11, <1>12

LEMMA LedgerStep ==
    ASSUME Typed, Transactional, [Next]_vars
    PROVE  [Ledger!Next]_rows
<1>1. CASE \E p \in Procs : BeginTxn(p)
  BY <1>1 DEF BeginTxn, files
<1>2. CASE \E p \in Procs : Commit(p)
  BY <1>2, CommitIsLedgerStep
<1>3. CASE ~\E p \in Procs : BeginTxn(p) \/ Commit(p)
  BY <1>3, OtherStepsQuiet DEF Quiet
<1> QED BY <1>1, <1>2, <1>3

\* Whatever the processes interleave, the registry changes as if each
\* operation checked and applied its change at one instant.
THEOREM RegistryImplementsLedger == Spec => ImplementsLedger
<1>1. Init => Ledger!Init
  BY DEF Init, AbsentRow, NoKey, NoAddress, Ledger!Init, Ledger!Absent
<1> QED BY <1>1, LedgerStep, AlwaysTyped, AlwaysTransactional, PTL
        DEF Spec, ImplementsLedger, Ledger!Spec

(* What the ledger is worth to the clients: whatever implements it gives *)
(* each client in use an address of the pool that no other one has, since *)
(* only a registration sets one (operations.py).                         *)
THEOREM LedgerSeparates == Ledger!Spec => []Ledger!Separate
<1> USE DEF Ledger!InUse, Ledger!Slot
<1>1. Ledger!Init => Ledger!Separate
  BY DEF Ledger!Init, Ledger!Absent, Ledger!Separate
<1>2. Ledger!Separate /\ [Ledger!Next]_rows => Ledger!Separate'
  <2> SUFFICES ASSUME Ledger!Separate, [Ledger!Next]_rows PROVE Ledger!Separate'
    OBVIOUS
  <2>1. CASE UNCHANGED rows
    BY <2>1 DEF Ledger!Separate
  <2>2. CASE Ledger!Next
    <3>1. PICK n \in Names : \/ Ledger!Register(n)
                            \/ Ledger!Enrol(n) \/ Ledger!Switch(n) \/ Ledger!Rotate(n) \/ Ledger!Revoke(n)
      BY <2>2 DEF Ledger!Next
    <3>2. Ledger!Only(n)
      BY <3>1 DEF Ledger!Register, Ledger!Enrol, Ledger!Switch, Ledger!Rotate, Ledger!Revoke
    <3>3. CASE Ledger!Register(n)
      BY <3>2, <3>3 DEF Ledger!Register, Ledger!Only, Ledger!Separate
    <3>4. CASE Ledger!Enrol(n) \/ Ledger!Switch(n) \/ Ledger!Rotate(n) \/ Ledger!Revoke(n)
      <4>1. Ledger!InUse(rows[n]) /\ rows'[n].addr = rows[n].addr
        BY <3>2, <3>4
           DEF Ledger!Enrol, Ledger!Switch, Ledger!Rotate, Ledger!Revoke, Ledger!Only, Ledger!Separate
      <4> QED BY <3>2, <4>1 DEF Ledger!Only, Ledger!Separate
    <3> QED BY <3>1, <3>3, <3>4
  <2> QED BY <2>1, <2>2
<1> QED BY <1>1, <1>2, PTL DEF Ledger!Spec

-----------------------------------------------------------------------------
(* The lists operations carry, and the routes built from them.             *)

Blank == [n \in Names |-> AbsentRow]

\* Process p goes to step l with local variables w: where its list comes from,
\* and by which actions it can reach "save" and "write".
Carries(p, l, w) ==
    /\ Moves(p, l, w)
    /\ w.snap \in {work[p].snap, rows, Blank}
    /\ l = "save" => Commit(p) \/ w.op = "patch"
    /\ l = "write" => SaveConfig(p) \/ w.op = "reconcile"
StepBy(p) == \E l, w : Carries(p, l, w)

LEMMA GotoSteps ==
    ASSUME Typed, NEW p \in Procs, NEW l, Goto(p, l), work' = work, l \notin {"save", "write"}
    PROVE  StepBy(p)
<1>1. Carries(p, l, work[p])
  BY DEF Typed, TypeOK, Goto, Moves, Carries
<1> QED BY <1>1 DEF StepBy

LEMMA DoneSteps ==
    ASSUME NEW p \in Procs, Done(p)
    PROVE  StepBy(p)
<1>1. NoWork.snap = Blank  BY DEF NoWork, Blank
<1>2. Carries(p, "idle", NoWork)
  BY <1>1, DoneMoves DEF Carries
<1> QED BY <1>2 DEF StepBy

LEMMA StartSteps ==
    ASSUME Typed, Start
    PROVE  \E p \in Procs : StepBy(p)
<1>1. ASSUME NEW p \in Admins, NEW o \in AdminOps, NEW n \in Names, Call(p, o, n)
      PROVE  StepBy(p)
  <2> DEFINE w == [NoWork EXCEPT !.op = o, !.name = n]
  <2>1. Carries(p, "flock", w)
    BY <1>1 DEF Call, Goto, Moves, Carries, NoWork, Blank
  <2> QED BY <2>1 DEF StepBy
<1>2. ASSUME NEW p \in Admins, RenewLoad(p) PROVE StepBy(p)
  <2> DEFINE w == [NoWork EXCEPT !.op = "renew", !.cfg = LoadedConfig]
  <2>1. Carries(p, "renew", w)
    BY <1>2 DEF RenewLoad, Goto, Moves, Carries, NoWork, Blank
  <2> QED BY <2>1 DEF StepBy
<1>3. ASSUME NEW p \in Admins, Reconcile(p) PROVE StepBy(p)
  <2> DEFINE w == [NoWork EXCEPT !.op = "reconcile", !.snap = rows]
  <2>1. Carries(p, "write", w)
    BY <1>3 DEF Reconcile, Goto, Moves, Carries, NoWork
  <2> QED BY <2>1 DEF StepBy
<1>4. ASSUME NEW p \in Listeners, NEW t \in Tokens, RedeemLoad(p, t) PROVE StepBy(p)
  <2> DEFINE w == [NoWork EXCEPT !.op = "enroll", !.token = t, !.name = owner[t],
                                 !.held = tokens]
  <2>1. Carries(p, "redeem", w)
    BY <1>4 DEF RedeemLoad, Goto, Moves, Carries, NoWork, Blank
  <2> QED BY <2>1 DEF StepBy
<1> QED BY <1>1, <1>2, <1>3, <1>4 DEF Start, Procs

LEMMA TransactionSteps ==
    ASSUME Typed, NEW p \in Procs, Transaction(p)
    PROVE  StepBy(p)
<1>1. work[p] \in Work /\ work \in [Procs -> Work]  BY DEF Typed, TypeOK
<1>2. CASE Lock(p)
  <2> DEFINE l == IF work[p].op = "patch" THEN "save" ELSE "begin"
  <2>1. PICK c : work' = [work EXCEPT ![p].cfg = c]  BY <1>2 DEF Lock
  <2> DEFINE w == [work[p] EXCEPT !.cfg = c]
  <2>2. w.snap = work[p].snap /\ w.op = work[p].op  BY <1>1 DEF Work
  <2>3. Moves(p, l, w)  BY <1>1, <1>2, <2>1 DEF Lock, Goto, Moves
  <2>4. Carries(p, l, w)  BY <2>2, <2>3 DEF Carries
  <2> QED BY <2>4 DEF StepBy
<1>3. CASE BeginTxn(p)
  <2> DEFINE l == IF work[p].op \in {"reserve", "revoke"} THEN "tokload" ELSE "hot"
  <2>1. PICK k, a : work' = [work EXCEPT ![p] = [@ EXCEPT !.key = k, !.addr = a]]
    BY <1>3 DEF BeginTxn
  <2> DEFINE w == [work[p] EXCEPT !.key = k, !.addr = a]
  <2>2. w.snap = work[p].snap  BY <1>1 DEF Work
  <2>3. Moves(p, l, w)  BY <1>1, <1>3, <2>1 DEF BeginTxn, Goto, Moves
  <2>4. Carries(p, l, w)  BY <2>2, <2>3 DEF Carries
  <2> QED BY <2>4 DEF StepBy
<1>4. CASE RefuseTxn(p) \/ TimeoutTxn(p)
  BY <1>4, DoneSteps DEF RefuseTxn, TimeoutTxn, Abort
<1>5. CASE HotApply(p)
  BY <1>5, GotoSteps DEF HotApply
<1>6. CASE Commit(p)
  <2>1. Carries(p, "save", work[p])
    BY <1>6, GotoMoves DEF Typed, Commit, Carries
  <2> QED BY <2>1 DEF StepBy
<1>7. CASE SaveConfig(p)
  <2> DEFINE w == [work[p] EXCEPT !.snap = rows]
  <2>1. w.snap = rows  BY <1>1 DEF Work
  <2>2. Carries(p, "write", w)
    BY <1>7, <2>1 DEF SaveConfig, Goto, Moves, Carries
  <2> QED BY <2>2 DEF StepBy
<1> QED BY <1>2, <1>3, <1>4, <1>5, <1>6, <1>7 DEF Transaction

LEMMA OtherSteps ==
    ASSUME Typed, NEW p \in Procs, Persist(p) \/ AdminStep(p) \/ ListenerStep(p) \/ Crash(p)
    PROVE  StepBy(p)
<1>1. work[p] \in Work  BY DEF Typed, TypeOK
<1>2. CASE LoadTokens(p)
  <2> DEFINE w == [work[p] EXCEPT !.held = tokens]
  <2>1. w.snap = work[p].snap  BY <1>1 DEF Work
  <2>2. Carries(p, "toksave", w)
    BY <1>2, <2>1 DEF LoadTokens, Goto, Moves, Carries
  <2> QED BY <2>2 DEF StepBy
<1>3. CASE EnrollLoad(p)
  <2> DEFINE w == [work[p] EXCEPT !.cfg = LoadedConfig]
  <2>1. w.snap = work[p].snap  BY <1>1 DEF Work
  <2>2. Carries(p, "begin", w)
    BY <1>3, <2>1 DEF EnrollLoad, Goto, Moves, Carries
  <2> QED BY <2>2 DEF StepBy
<1>4. CASE IssueToken(p) \/ RevokeTokens(p) \/ RedeemSave(p) \/ WriteConf(p)
  BY <1>4, GotoSteps DEF IssueToken, RevokeTokens, RedeemSave, WriteConf
<1>5. CASE SavePatch(p) \/ RenewSave(p) \/ RedeemRefuse(p) \/ SyncLive(p)
           \/ PersistFails(p) \/ Crash(p)
  BY <1>5, DoneSteps DEF SavePatch, RenewSave, RedeemRefuse, SyncLive, PersistFails, Crash
<1> QED BY <1>2, <1>3, <1>4, <1>5 DEF Persist, AdminStep, ListenerStep

LEMMA EveryStep ==
    ASSUME Typed, [Next]_vars
    PROVE  (\E p \in Procs : StepBy(p)) \/ UNCHANGED <<pc, work>>
<1>1. CASE \E p \in Procs : Continue(p)
  BY <1>1, TransactionSteps, OtherSteps DEF Continue
<1>2. CASE Environment
  BY <1>2, OtherSteps DEF Environment, DayPasses, TokenLapses
<1>3. CASE UNCHANGED vars
  BY <1>3 DEF vars
<1> QED BY <1>1, <1>2, <1>3, StartSteps DEF Next

LEMMA BlankUnrepeated == Unrepeated(Blank)
BY DEF Unrepeated, Blank, AbsentRow, Standing

LEMMA SnapshotsStep ==
    ASSUME Typed, Transactional, SnapshotsUnique, [Next]_vars
    PROVE  SnapshotsUnique'
<1>1. Unrepeated(rows)
  BY DEF Transactional, AddressesUnique, Unrepeated
<1>2. CASE UNCHANGED <<pc, work>>
  BY <1>2 DEF SnapshotsUnique, Unrepeated, Standing
<1>3. CASE \E p \in Procs : StepBy(p)
  <2> PICK p \in Procs : StepBy(p)  BY <1>3
  <2>1. PICK l, w : Carries(p, l, w)  BY DEF StepBy
  <2>2. Unrepeated(w.snap)
    BY <1>1, <2>1, BlankUnrepeated DEF SnapshotsUnique, Carries
  <2>3. \A q \in Procs : work'[q] = IF q = p THEN w ELSE work[q]
    BY <2>1 DEF Carries, Moves, Typed, TypeOK
  <2>4. ASSUME NEW q \in Procs PROVE Unrepeated(work'[q].snap)
    BY <2>2, <2>3 DEF SnapshotsUnique
  <2> QED BY <2>4 DEF SnapshotsUnique, Unrepeated, Standing
<1> QED BY <1>2, <1>3, EveryStep

LEMMA InitSnapshots == Init => SnapshotsUnique
<1>1. NoWork.snap = Blank  BY DEF NoWork, Blank
<1> QED BY <1>1, BlankUnrepeated DEF Init, SnapshotsUnique

LEMMA AlwaysSnapshotsUnique == Spec => []SnapshotsUnique
BY SnapshotsStep, InitSnapshots, AlwaysTyped, AlwaysTransactional, PTL DEF Spec

OneRoute(peers) == \A q, r \in peers : q.addr = r.addr => q = r

\* A list with unique addresses gives routes with one key each.
LEMMA UniqueLivePeers ==
    ASSUME NEW rs \in [Names -> Row], Unrepeated(rs)
    PROVE  OneRoute(LivePeers(rs))
<1> SUFFICES ASSUME NEW m \in Names, NEW n \in Names, IsLivePeer(rs[m]), IsLivePeer(rs[n]),
                    PeerOf(rs[m]).addr = PeerOf(rs[n]).addr
             PROVE  PeerOf(rs[m]) = PeerOf(rs[n])
  BY DEF OneRoute, LivePeers
<1>1. rs[m].addr = rs[n].addr  BY DEF PeerOf
<1>2. Standing(rs[m]) /\ Standing(rs[n])  BY DEF IsLivePeer, Standing
<1> QED BY <1>1, <1>2 DEF Unrepeated

\* `wg set` keeps that, whichever peer it adds or removes.
LEMMA HotKeepsRoutes ==
    ASSUME NEW peers, OneRoute(peers)
    PROVE  /\ \A k : OneRoute(WithoutPeer(peers, k))
           /\ \A k, a : OneRoute(WithPeer(peers, k, a))
BY DEF OneRoute, WithoutPeer, WithPeer

LEMMA RoutesFrame ==
    ASSUME [Next]_vars, ~\E p \in Procs : HotApply(p) \/ WriteConf(p) \/ SyncLive(p)
    PROVE  UNCHANGED <<conf, live>>
<1>1. CASE Start
  BY <1>1 DEF Start, Call, RenewLoad, Reconcile, RedeemLoad, files
<1>2. CASE Environment
  BY <1>2 DEF Environment, Crash, DayPasses, TokenLapses, files
<1>3. CASE UNCHANGED vars
  BY <1>3 DEF vars, files
<1>4. ASSUME NEW p \in Procs, Transaction(p), ~HotApply(p) PROVE UNCHANGED <<conf, live>>
  BY <1>4 DEF Transaction, Lock, BeginTxn, RefuseTxn, TimeoutTxn, Commit, SaveConfig, files
<1>5. ASSUME NEW p \in Procs, PersistFails(p) \/ AdminStep(p) \/ ListenerStep(p)
      PROVE  UNCHANGED <<conf, live>>
  BY <1>5 DEF PersistFails, AdminStep, LoadTokens, IssueToken, RevokeTokens, SavePatch,
              RenewSave, ListenerStep, RedeemSave, RedeemRefuse, EnrollLoad, files
<1> QED BY <1>1, <1>2, <1>3, <1>4, <1>5 DEF Next, Continue, Persist

LEMMA RoutesStep ==
    ASSUME Typed, SnapshotsUnique, RoutesUnique, [Next]_vars
    PROVE  RoutesUnique'
<1>1. OneRoute(conf) /\ OneRoute(live)
  BY DEF RoutesUnique, OneRoute
<1>2. CASE \E p \in Procs : HotApply(p)
  <2>1. PICK p \in Procs : HotApply(p)  BY <1>2
  <2>2. OneRoute(WithoutPeer(live, rows[work[p].name].key))
    BY <1>1, HotKeepsRoutes
  <2>3. \A peers \in HotEffect(p) : OneRoute(peers)
    BY <1>1, <2>2, HotKeepsRoutes DEF HotEffect
  <2>4. OneRoute(live')  BY <1>1, <2>1, <2>3 DEF HotApply
  <2>5. conf' = conf  BY <2>1 DEF HotApply
  <2> QED BY <1>1, <2>4, <2>5 DEF RoutesUnique, OneRoute
<1>3. CASE \E p \in Procs : WriteConf(p)
  <2>1. PICK p \in Procs : WriteConf(p)  BY <1>3
  <2>2. work[p].snap \in [Names -> Row] /\ Unrepeated(work[p].snap)
    BY DEF Typed, TypeOK, Work, SnapshotsUnique
  <2>3. OneRoute(conf') /\ live' = live
    BY <2>1, <2>2, UniqueLivePeers DEF WriteConf
  <2> QED BY <1>1, <2>3 DEF RoutesUnique, OneRoute
<1>4. CASE \E p \in Procs : SyncLive(p)
  BY <1>1, <1>4 DEF SyncLive, SyncConf, RoutesUnique, OneRoute
<1>5. CASE UNCHANGED <<conf, live>>
  BY <1>1, <1>5 DEF RoutesUnique, OneRoute
<1> QED BY <1>2, <1>3, <1>4, <1>5, RoutesFrame

\* wg0.conf and the interface never route one address to two keys, although
\* they are written from lists that may be older than the registry.
THEOREM RoutesStayUnique == Spec => []RoutesUnique
<1>1. Init => RoutesUnique  BY DEF Init, RoutesUnique
<1> QED BY <1>1, RoutesStep, AlwaysTyped, AlwaysSnapshotsUnique, PTL DEF Spec

-----------------------------------------------------------------------------
(* An admin finds its own change in the list it saves.                     *)

\* A commit shows its own change, and has a key if it made one.
LEMMA CommitShows ==
    ASSUME Typed, Transactional, NEW p \in Admins, Commit(p)
    PROVE  Shows(work[p], rows') /\ (NeedsKey(work[p].op) => work[p].key # NoKey)
<1> DEFINE n == work[p].name
           w == work[p]
<1>1. /\ p \in Procs /\ n \in Names /\ w.key \in Nat /\ rows[n] \in Row
      /\ w.op \in {"add", "reserve", "revoke", "enable", "disable", "rotate"}
  BY DEF Typed, TypeOK, Work, Shape, ShapeOf, Commit, LockedOps, UnlockedOps, Procs
<1>2. PICK e \in Expiries : rows' = [rows EXCEPT ![n] = NewRow(p, e)]
  BY DEF Commit
<1>3. rows'[n] = NewRow(p, e)  BY <1>1, <1>2 DEF Typed, TypeOK
<1>4. Agreed(p) /\ pc[p] \in TxnSteps
  BY <1>1 DEF Transactional, Checked, Commit, TxnSteps
<1>5. NeedsKey(w.op) => w.key # NoKey
  <2>1. rows[n].key \in Nat  BY <1>1 DEF Row
  <2> QED BY <1>1, <1>4, <2>1 DEF Agreed, NoKey
<1>6. w.op = "rotate" => Standing(rows[n])
  BY <1>4 DEF Agreed
<1>7. Shows(w, rows')
  <2>1. CASE w.op \in {"add", "reserve"}
    <3>1. rows'[n].st = "active" /\ rows'[n].key = w.key
      BY <1>3, <2>1 DEF NewRow
    <3> QED BY <2>1, <3>1 DEF Shows, Standing
  <2>2. CASE w.op = "rotate"
    <3>1. rows'[n].st = rows[n].st /\ rows'[n].key = w.key
      BY <1>1, <1>3, <2>2 DEF NewRow, Row
    <3> QED BY <1>6, <2>2, <3>1 DEF Shows, Standing
  <2>3. CASE w.op \in {"revoke", "enable", "disable"}
    <3>1. rows'[n].st = CASE w.op = "revoke" -> "revoked"
                          [] w.op = "enable" -> "active"
                          [] w.op = "disable" -> "disabled"
      BY <1>1, <1>3, <2>3 DEF NewRow, Row
    <3> QED BY <2>3, <3>1 DEF Shows
  <2> QED BY <1>1, <2>1, <2>2, <2>3
<1> QED BY <1>5, <1>7

\* The listener's commits leave an admin's change visible: an enrolment gives
\* a key to a slot that has none and changes nothing else.
LEMMA EnrolmentKeepsShows ==
    ASSUME Typed, Transactional, NEW p \in Listeners, Commit(p),
           NEW q \in Admins, pc[q] = "save", work[q].op # "patch", Shows(work[q], rows),
           NeedsKey(work[q].op) => work[q].key # NoKey
    PROVE  Shows(work[q], rows')
<1> DEFINE n == work[p].name
           m == work[q].name
<1>1. /\ p \in Procs /\ q \in Procs /\ n \in Names /\ m \in Names
      /\ rows[n] \in Row /\ rows \in [Names -> Row] /\ work[p].op = "enroll"
      /\ work[q].op \in {"add", "reserve", "revoke", "enable", "disable", "rotate"}
  BY DEF Typed, TypeOK, Shape, ShapeOf, Commit, LockedOps, UnlockedOps, Procs
<1>2. PICK e \in Expiries : rows' = [rows EXCEPT ![n] = NewRow(p, e)]
  BY DEF Commit
<1>3. NewRow(p, e) = [rows[n] EXCEPT !.key = work[p].key]
  BY <1>1 DEF NewRow
<1>4. rows[n].key = NoKey
  BY <1>1 DEF Transactional, Checked, Agreed, Commit, TxnSteps
<1>5. rows'[m].st = rows[m].st
  BY <1>1, <1>2, <1>3 DEF Row
<1>6. CASE m # n
  <2>1. rows'[m] = rows[m]  BY <1>1, <1>2, <1>6
  <2> QED BY <1>1, <2>1 DEF Shows
<1>7. CASE m = n
  <2>1. work[q].op \notin {"add", "rotate"}
    BY <1>4, <1>7 DEF Shows, NeedsKey
  <2> QED BY <1>1, <1>5, <2>1 DEF Shows, Standing
<1> QED BY <1>6, <1>7

\* Apart from a commit, a process about to save saw its change before, too.
LEMMA SavePointStep ==
    ASSUME Typed, LocksHeld, Transactional, OwnChangeKept, [Next]_vars
    PROVE  OwnChangeKept'
<1> DEFINE Kept(q) == /\ Shows(work[q], rows)
                      /\ NeedsKey(work[q].op) => work[q].key # NoKey
<1> SUFFICES ASSUME NEW q \in Admins, pc'[q] = "save", work'[q].op # "patch"
             PROVE  Shows(work'[q], rows') /\ (NeedsKey(work'[q].op) => work'[q].key # NoKey)
  BY DEF OwnChangeKept, Shows, NeedsKey, Standing
<1>1. q \in Procs /\ rows \in [Names -> Row]  BY DEF Procs, Typed, TypeOK
<1>2. CASE \E p \in Procs : Commit(p)
  <2>1. PICK p \in Procs : Commit(p)  BY <1>2
  <2>2. work' = work /\ pc' = [pc EXCEPT ![p] = "save"]
    BY <2>1 DEF Commit, Goto
  <2>3. CASE q = p
    BY <2>1, <2>2, <2>3, CommitShows
  <2>4. CASE q # p
    <3>1. pc[q] = "save"  BY <1>1, <2>2, <2>4 DEF Typed, TypeOK
    <3>2. flock = q
      BY <1>1, <3>1 DEF LocksHeld, HoldsAt, LockedSteps
    <3>3. p \in Listeners
      BY <2>1, <2>4, <3>2 DEF Commit, LocksHeld, HoldsAt, LockedSteps, TxnSteps, Procs
    <3>4. Kept(q)  BY <2>2, <3>1 DEF OwnChangeKept
    <3> QED BY <2>1, <2>2, <3>1, <3>3, <3>4, EnrolmentKeepsShows
  <2> QED BY <2>3, <2>4
<1>3. CASE ~\E p \in Procs : Commit(p)
  <2>1. rows' = rows
    BY <1>3, OtherStepsQuiet DEF Quiet, BeginTxn, files
  <2>2. pc[q] = "save" /\ work'[q] = work[q]
    <3>1. CASE UNCHANGED <<pc, work>>  BY <3>1
    <3>2. CASE \E p \in Procs : StepBy(p)
      <4> PICK p \in Procs : StepBy(p)  BY <3>2
      <4>1. PICK l, w : Carries(p, l, w)  BY DEF StepBy
      <4>2. pc' = [pc EXCEPT ![p] = l] /\ work' = [work EXCEPT ![p] = w]
        BY <4>1 DEF Carries, Moves
      <4>3. CASE q = p
        <5>1. l = "save" /\ w.op # "patch"
          BY <1>1, <4>2, <4>3 DEF Typed, TypeOK
        <5> QED BY <1>3, <4>1, <5>1 DEF Carries
      <4>4. CASE q # p  BY <1>1, <4>2, <4>4 DEF Typed, TypeOK
      <4> QED BY <4>3, <4>4
    <3> QED BY <3>1, <3>2, EveryStep
  <2>3. Kept(q)  BY <2>2 DEF OwnChangeKept
  <2>4. Shows(work'[q], rows') <=> Shows(work[q], rows)
    BY <2>1, <2>2
  <2> QED BY <2>2, <2>3, <2>4
<1> QED BY <1>2, <1>3

LEMMA AlwaysOwnChangeKept == Spec => []OwnChangeKept
<1>1. Init => OwnChangeKept
  BY DEF Init, OwnChangeKept, Procs
<1> QED BY <1>1, SavePointStep, AlwaysTyped, AlwaysLocksHeld, AlwaysTransactional, PTL
        DEF Spec

LEMMA SnapshotStep ==
    ASSUME Typed, OwnChangeKept, OwnChangeInSnapshot, [Next]_vars
    PROVE  OwnChangeInSnapshot'
<1> SUFFICES ASSUME NEW q \in Admins, pc'[q] = "write", work'[q].op # "reconcile"
             PROVE  Shows(work'[q], work'[q].snap)
  BY DEF OwnChangeInSnapshot, Shows, Standing
<1>1. q \in Procs  BY DEF Procs
<1>2. ASSUME pc[q] = "write", work'[q] = work[q]
      PROVE  Shows(work'[q], work'[q].snap)
  BY <1>2 DEF OwnChangeInSnapshot, Shows
<1>3. CASE UNCHANGED <<pc, work>>  BY <1>2, <1>3
<1>4. CASE \E p \in Procs : StepBy(p)
  <2> PICK p \in Procs : StepBy(p)  BY <1>4
  <2>1. PICK l, w : Carries(p, l, w)  BY DEF StepBy
  <2>2. pc' = [pc EXCEPT ![p] = l] /\ work' = [work EXCEPT ![p] = w]
    BY <2>1 DEF Carries, Moves
  <2>3. CASE q # p  BY <1>1, <1>2, <2>2, <2>3 DEF Typed, TypeOK
  <2>4. CASE q = p
    <3>1. SaveConfig(p)
      BY <1>1, <2>1, <2>2, <2>4 DEF Typed, TypeOK, Carries
    <3>2. work[q] \in Work /\ work'[q] = [work[q] EXCEPT !.snap = rows]
      BY <1>1, <2>4, <3>1 DEF Typed, TypeOK, SaveConfig
    <3>3. /\ work'[q].snap = rows /\ work'[q].op = work[q].op
          /\ work'[q].name = work[q].name /\ work'[q].key = work[q].key
      BY <3>2 DEF Work
    <3>4. Shows(work[q], rows)
      BY <2>4, <3>1 DEF OwnChangeKept, SaveConfig
    <3> QED BY <3>3, <3>4 DEF Shows
  <2> QED BY <2>3, <2>4
<1> QED BY <1>3, <1>4, EveryStep

\* The list an admin is about to write to wg0.conf always shows the change it
\* has committed, although other processes commit in between.
THEOREM OwnChangeStaysInSnapshot == Spec => []OwnChangeInSnapshot
<1>1. Init => OwnChangeInSnapshot
  BY DEF Init, OwnChangeInSnapshot, Procs
<1> QED BY <1>1, SnapshotStep, AlwaysTyped, AlwaysOwnChangeKept, PTL DEF Spec

-----------------------------------------------------------------------------
(* Enrolment tokens, where the listener runs in the administering process. *)

\* A process that has read the token file and is about to write it back.
TokenSteps == {"toksave", "redeem"}
Rewriting(p) == pc[p] \in TokenSteps

\* Only one does so at a time, and the file is still what it has read.
FileHeld ==
    /\ \A p, q \in Procs : Rewriting(p) /\ Rewriting(q) => p = q
    /\ \A p \in Procs : Rewriting(p) => work[p].held = tokens
    /\ \A p \in Procs : pc[p] = "redeem" => work[p].token \in Minted

\* An unspent token was never redeemed, and a fresh one neither.
Accounted ==
    \A t \in Tokens : /\ redeemed[t] <= 1
                      /\ tokens[t] = "unused" => redeemed[t] = 0
                      /\ t \notin Minted => redeemed[t] = 0 /\ tokens[t] # "unused"
TokensTracked == FileHeld /\ Accounted

\* Process p is about to commit the reservation of name n.
Reserves(p, n) == pc[p] = "commit" /\ work[p].op = "reserve" /\ work[p].name = n

\* An unspent token belongs to a registered client, or to the one being
\* reserved.
Backed ==
    \A t \in Tokens : tokens[t] = "unused" =>
        Standing(rows[owner[t]]) \/ \E p \in Procs : Reserves(p, owner[t])

\* Once a revocation has dropped those of its client, there are none.
Dropped ==
    \A p \in Procs : pc[p] \in {"hot", "commit"} /\ work[p].op = "revoke" =>
        \A t \in Tokens : tokens[t] = "unused" => owner[t] # work[p].name

\* A step that neither touches tokens nor begins to.
TokenQuiet ==
    /\ UNCHANGED <<tokens, redeemed, owner>>
    /\ \A q \in Procs : pc'[q] \in TokenSteps =>
          /\ pc[q] = pc'[q]
          /\ work'[q].held = work[q].held /\ work'[q].token = work[q].token

(* A process that moves on, but not to a token step.                     *)
LEMMA TokenQuietMove ==
    ASSUME Typed, NEW p \in Procs, NEW l, Goto(p, l), l \notin TokenSteps,
           \A q \in Procs : q # p => work'[q] = work[q],
           UNCHANGED <<tokens, redeemed, owner>>
    PROVE  TokenQuiet
BY DEF Typed, TypeOK, Goto, TokenQuiet

(* Every other step is quiet.                                            *)
LEMMA QuietTokens ==
    ASSUME Typed, [Next]_vars
    PROVE  \/ TokenQuiet
           \/ \E p \in Procs : LoadTokens(p) \/ IssueToken(p) \/ RevokeTokens(p) \/ RedeemSave(p)
           \/ \E p \in Listeners, t \in Tokens : RedeemLoad(p, t)
<1>1. work \in [Procs -> Work] BY DEF Typed, TypeOK
<1>2. Admins \subseteq Procs /\ Listeners \subseteq Procs BY DEF Procs
<1>3. ASSUME NEW p \in Admins, NEW o \in AdminOps, NEW n \in Names, Call(p, o, n) PROVE TokenQuiet
  BY <1>1, <1>2, <1>3, TokenQuietMove DEF Call, files, TokenSteps
<1>4. ASSUME NEW p \in Admins, RenewLoad(p) PROVE TokenQuiet
  BY <1>1, <1>2, <1>4, TokenQuietMove DEF RenewLoad, files, TokenSteps
<1>5. ASSUME NEW p \in Admins, Reconcile(p) PROVE TokenQuiet
  BY <1>1, <1>2, <1>5, TokenQuietMove DEF Reconcile, files, TokenSteps
<1>6. ASSUME NEW p \in Procs, Lock(p) PROVE TokenQuiet
  <2>1. PICK l \in {"save", "begin"} : Goto(p, l) BY <1>6 DEF Lock
  <2> QED BY <1>1, <1>6, <2>1, TokenQuietMove DEF Lock, files, TokenSteps
<1>7. ASSUME NEW p \in Procs, BeginTxn(p) PROVE TokenQuiet
  <2>1. PICK l \in {"tokload", "hot"} : Goto(p, l) BY <1>7 DEF BeginTxn
  <2> QED BY <1>1, <1>7, <2>1, TokenQuietMove DEF BeginTxn, files, TokenSteps
<1>8. ASSUME NEW p \in Procs, Done(p), UNCHANGED <<tokens, redeemed, owner>> PROVE TokenQuiet
  BY <1>1, <1>8, TokenQuietMove DEF Done, TokenSteps
<1>9. ASSUME NEW p \in Procs, RefuseTxn(p) \/ TimeoutTxn(p) \/ RedeemRefuse(p) \/ PersistFails(p)
                                \/ SyncLive(p) \/ SavePatch(p) \/ RenewSave(p) \/ Crash(p)
      PROVE  TokenQuiet
  BY <1>8, <1>9 DEF RefuseTxn, TimeoutTxn, RedeemRefuse, PersistFails, SyncLive, SavePatch, RenewSave,
     Crash, Abort, files, counters
<1>10. ASSUME NEW p \in Procs, HotApply(p) PROVE TokenQuiet
  BY <1>1, <1>10, TokenQuietMove DEF HotApply, counters, TokenSteps
<1>11. ASSUME NEW p \in Procs, Commit(p) PROVE TokenQuiet
  BY <1>1, <1>11, TokenQuietMove DEF Commit, counters, TokenSteps
<1>12. ASSUME NEW p \in Procs, SaveConfig(p) PROVE TokenQuiet
  BY <1>1, <1>12, TokenQuietMove DEF SaveConfig, TokenSteps
<1>13. ASSUME NEW p \in Procs, WriteConf(p) PROVE TokenQuiet
  BY <1>1, <1>13, TokenQuietMove DEF WriteConf, TokenSteps
<1>14. ASSUME NEW p \in Procs, EnrollLoad(p) PROVE TokenQuiet
  BY <1>1, <1>14, TokenQuietMove DEF EnrollLoad, files, counters, TokenSteps
<1>15. ASSUME DayPasses \/ \E t \in Tokens : TokenLapses(t) PROVE TokenQuiet
  BY <1>15 DEF DayPasses, TokenLapses, files, counters, TokenQuiet
<1>16. CASE UNCHANGED vars
  BY <1>16 DEF vars, files, counters, TokenQuiet
<1>17. CASE Start
  BY <1>3, <1>4, <1>5, <1>17 DEF Start
<1>18. CASE \E p \in Procs : Continue(p)
  BY <1>6, <1>7, <1>9, <1>10, <1>11, <1>12, <1>13, <1>14, <1>18
     DEF Continue, Transaction, Persist, AdminStep, ListenerStep
<1>19. CASE Environment
  BY <1>9, <1>15, <1>19 DEF Environment
<1> QED BY <1>16, <1>17, <1>18, <1>19 DEF Next

\* Nobody else is rewriting the file when a process begins to.
LEMMA BeginsAlone ==
    ASSUME SameProcess, NEW p \in Procs, TokenFileFree(p), pc[p] \notin TokenSteps
    PROVE  \A q \in Procs : ~Rewriting(q)
BY DEF TokenFileFree, Rewriting, TokenSteps

\* What the helpers leave unspent was unspent.
LEMMA NothingRevived ==
    ASSUME NEW f \in TokenFile
    PROVE  /\ \A n, t : t \in Tokens /\ DropOutstanding(f, n)[t] = "unused" =>
                f[t] = "unused" /\ owner[t] # n
           /\ \A g \in Prunings(f), t \in Tokens : g[t] = "unused" => f[t] = "unused"
<1>1. \A n, t : t \in Tokens /\ DropOutstanding(f, n)[t] = "unused" =>
         f[t] = "unused" /\ owner[t] # n
  BY DEF DropOutstanding
<1>2. \A g \in Prunings(f), t \in Tokens : g[t] = "unused" => f[t] = "unused"
  BY DEF Prunings
<1> QED BY <1>1, <1>2

\* What the three actions that write the token file do to it.
LEMMA TokenWrites ==
    ASSUME Typed, FileHeld, NEW p \in Procs, IssueToken(p) \/ RevokeTokens(p) \/ RedeemSave(p)
    PROVE  /\ \A u \in Tokens : tokens'[u] = "unused" =>
                 \/ tokens[u] = "unused" /\ owner'[u] = owner[u]
                 \/ IssueToken(p) /\ u \notin Minted /\ owner'[u] = work[p].name
           /\ \A u \in Tokens : owner'[u] = owner[u] \/ (IssueToken(p) /\ u \notin Minted)
           /\ IssueToken(p) => redeemed' = redeemed /\ work[p].name \in Names
           /\ RevokeTokens(p) => \A u \in Tokens : tokens'[u] = "unused" => owner[u] # work[p].name
           /\ RedeemSave(p) => /\ work[p].token \in Minted /\ tokens[work[p].token] = "unused"
                               /\ tokens'[work[p].token] = "used"
                               /\ redeemed' = [redeemed EXCEPT ![work[p].token] = @ + 1]
<1>1. work[p].held = tokens /\ tokens \in TokenFile /\ owner \in [Tokens -> Names \cup {Nobody}]
  BY DEF Typed, TypeOK, FileHeld, Rewriting, TokenSteps, IssueToken, RevokeTokens, RedeemSave
<1>2. work[p].name \in Names
  BY DEF Typed, Shape, ShapeOf, IssueToken, RevokeTokens, RedeemSave, UnlockedOps
<1>3. CASE IssueToken(p)
  <2>1. PICK t \in Tokens :
            /\ FreshToken(t) /\ owner' = [owner EXCEPT ![t] = work[p].name]
            /\ \E kept \in Prunings(DropOutstanding(tokens, work[p].name)) :
                  tokens' = [kept EXCEPT ![t] = "unused"]
    BY <1>1, <1>3 DEF IssueToken
  <2>2. PICK kept \in Prunings(DropOutstanding(tokens, work[p].name)) :
            tokens' = [kept EXCEPT ![t] = "unused"]
    BY <2>1
  <2>3. DropOutstanding(tokens, work[p].name) \in TokenFile /\ kept \in TokenFile
    BY <1>1, <2>2, TokenFileHelpers
  <2>4. \A u \in Tokens : kept[u] = "unused" => tokens[u] = "unused"
    BY <1>1, <2>2, <2>3, NothingRevived
  <2>5. \A u \in Tokens : u # t => tokens'[u] = kept[u] BY <2>2, <2>3 DEF TokenFile
  <2>6. t \notin Minted BY <2>1 DEF FreshToken
  <2>7. owner'[t] = work[p].name /\ \A u \in Tokens : u # t => owner'[u] = owner[u]
    BY <1>1, <2>1
  <2>8. redeemed' = redeemed /\ ~RevokeTokens(p) /\ ~RedeemSave(p)
    BY <1>3 DEF IssueToken, RevokeTokens, RedeemSave
  <2> QED BY <1>2, <1>3, <2>4, <2>5, <2>6, <2>7, <2>8
<1>4. CASE RevokeTokens(p)
  <2>1. tokens' = DropOutstanding(tokens, work[p].name) /\ owner' = owner
    BY <1>1, <1>4 DEF RevokeTokens, counters
  <2>2. ~IssueToken(p) /\ ~RedeemSave(p)
    BY <1>4 DEF IssueToken, RevokeTokens, RedeemSave
  <2> QED BY <1>1, <1>4, <2>1, <2>2, NothingRevived
<1>5. CASE RedeemSave(p)
  <2>1. PICK kept \in Prunings(tokens) : tokens' = [kept EXCEPT ![work[p].token] = "used"]
    BY <1>1, <1>5 DEF RedeemSave
  <2>2. kept \in TokenFile BY <1>1, <2>1, TokenFileHelpers
  <2>3. \A u \in Tokens : kept[u] = "unused" => tokens[u] = "unused"
    BY <1>1, <2>1, NothingRevived
  <2>4. work[p].token \in Minted /\ work[p].token \in Tokens
    BY <1>5 DEF FileHeld, RedeemSave, Minted
  <2>5. tokens[work[p].token] = "unused" BY <1>1, <1>5 DEF RedeemSave, Redeemable
  <2>6. tokens'[work[p].token] = "used" /\ \A u \in Tokens : tokens'[u] = "unused" => kept[u] = "unused"
    BY <2>1, <2>2, <2>4 DEF TokenFile
  <2>7. owner' = owner /\ ~IssueToken(p) /\ ~RevokeTokens(p)
        /\ redeemed' = [redeemed EXCEPT ![work[p].token] = @ + 1]
    BY <1>5 DEF IssueToken, RevokeTokens, RedeemSave
  <2> QED BY <1>5, <2>3, <2>4, <2>5, <2>6, <2>7
<1> QED BY <1>3, <1>4, <1>5

(* No step of one process comes between the reading and the writing of   *)
(* another.                                                              *)
LEMMA TrackedStep ==
    ASSUME SameProcess, Typed, TokensTracked, [Next]_vars
    PROVE  TokensTracked'
<1> USE DEF TokensTracked
<1>1. pc \in [Procs -> PCs] /\ work \in [Procs -> Work] /\ tokens \in TokenFile
      /\ redeemed \in [Tokens -> Nat] /\ Minted \subseteq Tokens
  BY DEF Typed, TypeOK, Minted
<1>2. CASE TokenQuiet
  <2>1. Minted' = Minted BY <1>2 DEF TokenQuiet, Minted
  <2>2. FileHeld' BY <1>2, <2>1 DEF TokenQuiet, FileHeld, Rewriting, TokenSteps
  <2>3. Accounted' BY <1>2, <2>1 DEF TokenQuiet, Accounted
  <2> QED BY <2>2, <2>3
<1>3. ASSUME NEW p \in Procs, LoadTokens(p) PROVE TokensTracked'
  <2>1. \A q \in Procs : ~Rewriting(q)
    BY <1>3, BeginsAlone DEF LoadTokens, TokenSteps
  <2>2. /\ pc'[p] = "toksave" /\ work'[p].held = tokens
        /\ \A q \in Procs : q # p => pc'[q] = pc[q] /\ work'[q] = work[q]
    BY <1>1, <1>3 DEF LoadTokens, Goto, Work
  <2>3. UNCHANGED <<tokens, redeemed, owner>> BY <1>3 DEF LoadTokens, files, counters
  <2>4. FileHeld' BY <2>1, <2>2, <2>3 DEF FileHeld, Rewriting, TokenSteps, Minted
  <2>5. Accounted' BY <2>3 DEF Accounted, Minted
  <2> QED BY <2>4, <2>5
<1>4. ASSUME NEW p \in Listeners, NEW t \in Tokens, RedeemLoad(p, t) PROVE TokensTracked'
  <2>0. p \in Procs BY DEF Procs
  <2>1. \A q \in Procs : ~Rewriting(q)
    BY <1>4, <2>0, BeginsAlone DEF RedeemLoad, TokenSteps
  <2>2. /\ pc'[p] = "redeem" /\ work'[p].held = tokens /\ work'[p].token = t /\ t \in Minted
        /\ \A q \in Procs : q # p => pc'[q] = pc[q] /\ work'[q] = work[q]
    BY <1>1, <1>4, <2>0, NoWorkType DEF RedeemLoad, Goto, Work
  <2>3. UNCHANGED <<tokens, redeemed, owner>> BY <1>4 DEF RedeemLoad, files
  <2>4. FileHeld' BY <2>1, <2>2, <2>3 DEF FileHeld, Rewriting, TokenSteps, Minted
  <2>5. Accounted' BY <2>3 DEF Accounted, Minted
  <2> QED BY <2>4, <2>5
<1>5. ASSUME NEW p \in Procs, IssueToken(p) \/ RevokeTokens(p) \/ RedeemSave(p)
      PROVE  TokensTracked'
  <2>1. \A q \in Procs : q # p => ~Rewriting(q)
    BY <1>5 DEF FileHeld, Rewriting, TokenSteps, IssueToken, RevokeTokens, RedeemSave
  <2>2. pc'[p] \in {"commit", "hot", "enload"} /\ \A q \in Procs : q # p => pc'[q] = pc[q]
    BY <1>1, <1>5 DEF IssueToken, RevokeTokens, RedeemSave, Goto
  <2>3. FileHeld' BY <2>1, <2>2 DEF FileHeld, Rewriting, TokenSteps
  <2>4. Minted \subseteq Minted'
    <3>1. \A u \in Tokens : owner'[u] = owner[u] \/ u \notin Minted BY <1>5, TokenWrites
    <3> QED BY <3>1 DEF Minted
  <2>5. CASE RedeemSave(p)
    <3>1. work[p].token \in Tokens /\ redeemed[work[p].token] = 0
      BY <1>1, <2>5, TokenWrites DEF Accounted
    <3>2. redeemed'[work[p].token] = 1
          /\ \A u \in Tokens : u # work[p].token => redeemed'[u] = redeemed[u]
      BY <1>1, <2>5, <3>1, TokenWrites
    <3>3. \A u \in Tokens : tokens'[u] = "unused" => u # work[p].token /\ tokens[u] = "unused"
      <4>1. ~IssueToken(p) BY <2>5 DEF RedeemSave, IssueToken
      <4> QED BY <2>5, <4>1, TokenWrites
    <3>4. work[p].token \in Minted BY <2>5, TokenWrites
    <3> QED BY <2>3, <2>4, <3>2, <3>3, <3>4 DEF Accounted
  <2>6. CASE ~RedeemSave(p)
    <3>1. redeemed' = redeemed BY <1>5, <2>6, TokenWrites DEF RevokeTokens, counters
    <3>2. \A u \in Tokens : tokens'[u] = "unused" => tokens[u] = "unused" \/ u \notin Minted
      BY <1>5, TokenWrites
    <3>3. ASSUME NEW u \in Tokens, tokens'[u] = "unused" PROVE u \in Minted'
      <4>1. CASE tokens[u] = "unused" BY <2>4, <4>1 DEF Accounted
      <4>2. CASE IssueToken(p) /\ owner'[u] = work[p].name
        <5>1. owner'[u] # Nobody BY <1>5, <4>2, TokenWrites, RegistryAssumption
        <5> QED BY <5>1 DEF Minted
      <4> QED BY <1>5, <3>3, <4>1, <4>2, TokenWrites
    <3> QED BY <2>3, <2>4, <3>1, <3>2, <3>3 DEF Accounted
  <2> QED BY <2>5, <2>6
<1> QED BY <1>2, <1>3, <1>4, <1>5, QuietTokens

(* So the file is always what its writer has read.                       *)
LEMMA AlwaysTracked ==
    ASSUME SameProcess
    PROVE  Spec => []TokensTracked
<1>1. Init => TokensTracked
  BY DEF Init, TokensTracked, FileHeld, Accounted, Rewriting, TokenSteps
<1>2. Typed /\ TokensTracked /\ [Next]_vars => TokensTracked'
  BY TrackedStep
<1> QED BY <1>1, <1>2, AlwaysTyped, PTL DEF Spec

(* A token is redeemed once at most, where the enrolment listener runs   *)
(* in the process that administers the clients: the lock of the token    *)
(* file is a lock of that process (enrollment.py, redeem). With the      *)
(* listener in a process of its own it does not hold.                    *)
THEOREM TokensRedeemedOnce ==
    ASSUME SameProcess
    PROVE  Spec => []TokenRedeemedOnce
<1>1. TokensTracked => TokenRedeemedOnce
  BY DEF TokensTracked, Accounted, TokenRedeemedOnce
<1>2. Spec => []TokensTracked  BY AlwaysTracked
<1> QED BY <1>1, <1>2, PTL

-----------------------------------------------------------------------------

(* What is committed, other than a revocation, is a standing             *)
(* registration.                                                         *)
LEMMA CommitStands ==
    ASSUME Typed, Transactional, NEW p \in Procs, pc[p] = "commit", work[p].op # "revoke",
           NEW e \in Expiries
    PROVE  Standing(NewRow(p, e))
<1>1. work[p].name \in Names /\ rows[work[p].name] \in Row
  BY DEF Typed, TypeOK, Shape, ShapeOf, UnlockedOps
<1>2. work[p].op \in {"add", "reserve", "enable", "disable", "rotate", "enroll"}
  BY DEF Typed, Shape, ShapeOf, LockedOps, UnlockedOps, Procs
<1>3. work[p].op \notin {"add", "reserve"} => Standing(rows[work[p].name])
  BY DEF Transactional, Checked, Agreed, TxnSteps
<1> QED BY <1>1, <1>2, <1>3 DEF NewRow, Standing, Row

\* A step that touches neither rows nor tokens, and is in no transaction's way.
Ending == {"hot", "commit"}
Aside ==
    /\ UNCHANGED <<rows, tokens, owner>>
    /\ \A q \in Procs : /\ pc[q] = "commit" => pc'[q] = "commit" /\ work'[q] = work[q]
                        /\ pc'[q] \in Ending /\ work'[q].op = "revoke" =>
                              pc[q] \in Ending /\ work'[q] = work[q]

(* A process that moves on, but not to the end of a revocation.          *)
LEMMA AsideMove ==
    ASSUME Typed, NEW p \in Procs, NEW l, Goto(p, l), pc[p] # "commit",
           \/ l \notin Ending
           \/ work'[p].op # "revoke"
           \/ pc[p] = "hot" /\ work' = work,
           \A q \in Procs : q # p => work'[q] = work[q],
           UNCHANGED <<rows, tokens, owner>>
    PROVE  Aside
BY DEF Typed, TypeOK, Goto, Aside, Ending

(* Every step is aside, the commit of a transaction, or one that writes  *)
(* tokens.                                                               *)
LEMMA StepKinds ==
    ASSUME MaxCrashes = 0, Typed, [Next]_vars
    PROVE  \/ Aside
           \/ \E p \in Procs : Commit(p)
           \/ \E p \in Procs : IssueToken(p) \/ RevokeTokens(p) \/ RedeemSave(p)
<1>1. work \in [Procs -> Work] BY DEF Typed, TypeOK
<1>2. Admins \subseteq Procs /\ Listeners \subseteq Procs BY DEF Procs
<1>3. ASSUME NEW p \in Admins, NEW o \in AdminOps, NEW n \in Names, Call(p, o, n) PROVE Aside
  BY <1>1, <1>2, <1>3, AsideMove DEF Call, files, Ending
<1>4. ASSUME NEW p \in Admins, RenewLoad(p) PROVE Aside
  BY <1>1, <1>2, <1>4, AsideMove DEF RenewLoad, files, Ending
<1>5. ASSUME NEW p \in Admins, Reconcile(p) PROVE Aside
  BY <1>1, <1>2, <1>5, AsideMove DEF Reconcile, files, Ending
<1>6. ASSUME NEW p \in Listeners, NEW t \in Tokens, RedeemLoad(p, t) PROVE Aside
  BY <1>1, <1>2, <1>6, AsideMove DEF RedeemLoad, files, Ending
<1>7. ASSUME NEW p \in Procs, Lock(p) PROVE Aside
  <2>1. PICK l \in {"save", "begin"} : Goto(p, l) BY <1>7 DEF Lock
  <2> QED BY <1>1, <1>7, <2>1, AsideMove DEF Lock, files, Ending
<1>8. ASSUME NEW p \in Procs, BeginTxn(p) PROVE Aside
  <2>1. PICK k, a : work' = [work EXCEPT ![p] = [@ EXCEPT !.key = k, !.addr = a]]
    BY <1>8 DEF BeginTxn
  <2>2. work'[p].op = work[p].op BY <1>1, <2>1 DEF Work
  <2>3. PICK l : Goto(p, l) /\ (work[p].op = "revoke" => l = "tokload") BY <1>8 DEF BeginTxn
  <2> QED BY <1>1, <1>8, <2>1, <2>2, <2>3, AsideMove DEF BeginTxn, files, Ending
<1>9. ASSUME NEW p \in Procs, Done(p), UNCHANGED <<rows, tokens, owner>>, pc[p] # "commit"
      PROVE  Aside
  BY <1>1, <1>9, AsideMove DEF Done, Ending
<1>10. ASSUME NEW p \in Procs, RefuseTxn(p) \/ TimeoutTxn(p) \/ RedeemRefuse(p) \/ PersistFails(p)
                                 \/ SyncLive(p) \/ SavePatch(p) \/ RenewSave(p)
       PROVE  Aside
  BY <1>9, <1>10 DEF RefuseTxn, TimeoutTxn, RedeemRefuse, PersistFails, SyncLive, SavePatch, RenewSave,
     Abort, files, counters
<1>11. ASSUME NEW p \in Procs, HotApply(p) PROVE Aside
  BY <1>1, <1>11, AsideMove DEF HotApply, counters, Ending
<1>12. ASSUME NEW p \in Procs, SaveConfig(p) PROVE Aside
  BY <1>1, <1>12, AsideMove DEF SaveConfig, Ending
<1>13. ASSUME NEW p \in Procs, WriteConf(p) PROVE Aside
  BY <1>1, <1>13, AsideMove DEF WriteConf, Ending
<1>14. ASSUME NEW p \in Procs, EnrollLoad(p) PROVE Aside
  BY <1>1, <1>14, AsideMove DEF EnrollLoad, files, counters, Ending
<1>15. ASSUME NEW p \in Procs, LoadTokens(p) PROVE Aside
  BY <1>1, <1>15, AsideMove DEF LoadTokens, files, counters, Ending
<1>16. ASSUME DayPasses \/ \E t \in Tokens : TokenLapses(t) PROVE Aside
  BY <1>16 DEF DayPasses, TokenLapses, files, counters, Aside
<1>17. CASE UNCHANGED vars
  BY <1>17 DEF vars, files, counters, Aside
<1>18. \A p \in Procs : ~Crash(p)
  BY DEF Crash, Typed, TypeOK
<1>19. CASE Start
  BY <1>3, <1>4, <1>5, <1>6, <1>19 DEF Start
<1>20. CASE \E p \in Procs : Continue(p)
  BY <1>7, <1>8, <1>10, <1>11, <1>12, <1>13, <1>14, <1>15, <1>20
     DEF Continue, Transaction, Persist, AdminStep, ListenerStep
<1>21. CASE Environment
  BY <1>16, <1>18, <1>21 DEF Environment
<1> QED BY <1>17, <1>19, <1>20, <1>21 DEF Next

(* Where no process is killed, a token comes before the row of its       *)
(* client but not without it, and goes before the row is revoked.        *)
LEMMA BackedStep ==
    ASSUME MaxCrashes = 0, Typed, LocksHeld, Transactional, FileHeld, Backed, Dropped, [Next]_vars
    PROVE  Backed' /\ Dropped'
<1>1. pc \in [Procs -> PCs] /\ work \in [Procs -> Work] /\ rows \in [Names -> Row]
      /\ owner \in [Tokens -> Names \cup {Nobody}]
  BY DEF Typed, TypeOK
<1>2. ASSUME NEW p \in Procs, NEW q \in Procs, pc[p] \in TxnSteps, pc[q] \in TxnSteps PROVE p = q
  BY <1>2 DEF LocksHeld, HoldsAt
<1>3. CASE Aside
  <2>1. ASSUME NEW t \in Tokens, tokens'[t] = "unused"
        PROVE  \/ Standing(rows[owner[t]])
               \/ \E q \in Procs : /\ pc'[q] = "commit"
                                   /\ work'[q].op = "reserve" /\ work'[q].name = owner[t]
    <3>1. CASE Standing(rows[owner[t]]) BY <3>1
    <3>2. CASE \E q \in Procs : Reserves(q, owner[t])
      <4>1. PICK q \in Procs : Reserves(q, owner[t]) BY <3>2
      <4>2. pc'[q] = "commit" /\ work'[q] = work[q] BY <1>3, <4>1 DEF Aside, Reserves
      <4> QED BY <4>1, <4>2 DEF Reserves
    <3> QED BY <1>3, <2>1, <3>1, <3>2 DEF Backed, Aside
  <2>2. Backed' BY <1>3, <2>1 DEF Backed, Aside, Reserves, Standing
  <2>3. Dropped' BY <1>3 DEF Aside, Dropped, Ending
  <2> QED BY <2>2, <2>3
<1>4. ASSUME NEW p \in Procs, Commit(p) PROVE Backed' /\ Dropped'
  <2>1. PICK e \in Expiries : rows' = [rows EXCEPT ![work[p].name] = NewRow(p, e)]
    BY <1>4 DEF Commit
  <2>2. /\ pc[p] = "commit" /\ pc'[p] = "save" /\ UNCHANGED <<tokens, owner, work>>
        /\ \A q \in Procs : q # p => pc'[q] = pc[q]
    BY <1>1, <1>4 DEF Commit, Goto, counters
  <2>3. work[p].name \in Names BY <2>2 DEF Typed, Shape, ShapeOf, UnlockedOps
  <2>4. \A q \in Procs : pc'[q] \notin Ending
    BY <1>2, <2>2 DEF TxnSteps, Ending
  <2>5. ASSUME NEW t \in Tokens, tokens[t] = "unused" PROVE Standing(rows'[owner[t]])
    <3>1. CASE owner[t] = work[p].name
      <4>1. work[p].op # "revoke" BY <2>2, <2>5, <3>1 DEF Dropped
      <4>2. Standing(NewRow(p, e)) BY <2>2, <4>1, CommitStands
      <4> QED BY <1>1, <2>1, <2>3, <3>1, <4>2
    <3>2. CASE owner[t] # work[p].name
      <4>1. ~\E q \in Procs : Reserves(q, owner[t])
        BY <1>2, <2>2, <3>2 DEF Reserves, TxnSteps
      <4>2. Standing(rows[owner[t]]) BY <2>5, <4>1 DEF Backed
      <4>3. rows'[owner[t]] = rows[owner[t]] BY <1>1, <2>1, <2>3, <3>2
      <4> QED BY <4>2, <4>3
    <3> QED BY <3>1, <3>2
  <2>6. Backed' BY <2>2, <2>5 DEF Backed, Standing
  <2>7. Dropped' BY <2>4 DEF Dropped, Ending
  <2> QED BY <2>6, <2>7
<1>5. ASSUME NEW p \in Procs, IssueToken(p) \/ RevokeTokens(p) \/ RedeemSave(p)
      PROVE  Backed' /\ Dropped'
  <2>1. rows' = rows /\ work' = work
    BY <1>5 DEF IssueToken, RevokeTokens, RedeemSave, counters
  <2>2. /\ \A q \in Procs : q # p => pc'[q] = pc[q]
        /\ IssueToken(p) => pc'[p] = "commit" /\ work[p].op = "reserve" /\ pc[p] = "toksave"
        /\ RevokeTokens(p) => pc'[p] = "hot" /\ work[p].op = "revoke" /\ pc[p] = "toksave"
        /\ RedeemSave(p) => pc'[p] = "enload" /\ pc[p] = "redeem"
    BY <1>1, <1>5 DEF IssueToken, RevokeTokens, RedeemSave, Goto
  <2>3. /\ \A u \in Tokens : tokens'[u] = "unused" =>
                 \/ tokens[u] = "unused" /\ owner'[u] = owner[u]
                 \/ IssueToken(p) /\ u \notin Minted /\ owner'[u] = work[p].name
        /\ RevokeTokens(p) => \A u \in Tokens : tokens'[u] = "unused" => owner[u] # work[p].name
    BY <1>5, TokenWrites
  <2>4. ASSUME NEW u \in Tokens, tokens'[u] = "unused"
        PROVE  \/ Standing(rows[owner'[u]])
               \/ \E q \in Procs : /\ pc'[q] = "commit"
                                   /\ work[q].op = "reserve" /\ work[q].name = owner'[u]
    <3>1. CASE IssueToken(p) /\ owner'[u] = work[p].name BY <2>2, <3>1
    <3>2. CASE tokens[u] = "unused" /\ owner'[u] = owner[u]
      <4>1. CASE Standing(rows[owner[u]]) BY <3>2, <4>1
      <4>2. CASE \E q \in Procs : Reserves(q, owner[u])
        <5>1. PICK q \in Procs : Reserves(q, owner[u]) BY <4>2
        <5>2. q # p BY <1>5, <2>2, <5>1 DEF Reserves
        <5> QED BY <2>2, <3>2, <5>1, <5>2 DEF Reserves
      <4> QED BY <3>2, <4>1, <4>2 DEF Backed
    <3> QED BY <2>3, <2>4, <3>1, <3>2
  <2>5. Backed'
    BY <2>1, <2>4 DEF Backed, Reserves, Standing
  <2>6. ASSUME NEW q \in Procs, pc'[q] \in Ending, work[q].op = "revoke",
               NEW u \in Tokens, tokens'[u] = "unused"
        PROVE  owner'[u] # work[q].name
    <3>1. CASE q = p
      <4>1. RevokeTokens(p) /\ ~IssueToken(p)
        BY <1>5, <2>2, <2>6, <3>1 DEF Ending, IssueToken
      <4> QED BY <2>3, <2>6, <3>1, <4>1
    <3>2. CASE q # p
      <4>1. pc[q] \in Ending /\ pc[q] \in TxnSteps
        BY <2>2, <2>6, <3>2 DEF Ending, TxnSteps
      <4>2. ~IssueToken(p)
        BY <1>2, <2>2, <3>2, <4>1 DEF TxnSteps
      <4> QED BY <2>3, <2>6, <4>1, <4>2 DEF Dropped, Ending
    <3> QED BY <3>1, <3>2
  <2>7. Dropped' BY <2>1, <2>6 DEF Dropped, Ending
  <2> QED BY <2>5, <2>7
<1> QED BY <1>3, <1>4, <1>5, StepKinds

(* So an unspent token always has its client.                            *)
LEMMA AlwaysBacked ==
    ASSUME SameProcess, MaxCrashes = 0
    PROVE  Spec => [](Backed /\ Dropped)
<1>1. Init => Backed /\ Dropped
  BY DEF Init, Backed, Dropped
<1>2. Typed /\ LocksHeld /\ Transactional /\ TokensTracked /\ Backed /\ Dropped /\ [Next]_vars
        => (Backed /\ Dropped)'
  BY BackedStep DEF TokensTracked
<1> QED BY <1>1, <1>2, AlwaysTyped, AlwaysLocksHeld, AlwaysTransactional, AlwaysTracked, PTL DEF Spec

(* No unspent token belongs to a client that is revoked, where the       *)
(* listener runs in the administering process and that is not killed     *)
(* between the minting of a token and the commit of the row it is for    *)
(* (operations.py: the token is issued inside the transaction, and       *)
(* revoke_client drops those of its client first).                       *)
THEOREM NoTokenOutlivesRevocation ==
    ASSUME SameProcess, MaxCrashes = 0
    PROVE  Spec => []NoTokenForRevoked
<1>1. ASSUME LocksHeld, Backed, db = Nobody, NEW t \in Tokens, tokens[t] = "unused"
      PROVE  Standing(rows[owner[t]])
  <2>1. \A p \in Procs : ~Reserves(p, owner[t])
    BY <1>1, NobodyRuns DEF LocksHeld, HoldsAt, TxnSteps, Reserves
  <2> QED BY <1>1, <2>1 DEF Backed
<1>2. LocksHeld /\ Backed => NoTokenForRevoked
  BY <1>1 DEF NoTokenForRevoked
<1> QED BY <1>2, AlwaysLocksHeld, AlwaysBacked, PTL

-----------------------------------------------------------------------------
-----------------------------------------------------------------------------
(* One operation at a time: what the files and the interface say of the    *)
(* registry once it has returned.                                          *)

\* There is one process.
OneAtATime == \A p, q \in Procs : p = q

\* A change is committed that wg0.conf does not show yet, or the interface.
Unwritten(p) == pc[p] = "write" \/ (pc[p] = "save" /\ work[p].op # "patch")
Unapplied(p) == Unwritten(p) \/ pc[p] \in {"commit", "sync"}

\* Otherwise wg0.conf shows the live peers, and the interface is as
\* wg0.conf says, since the last operation that did not fail.
InStep ==
    /\ \A p \in Procs : pc[p] = "write" => work[p].snap = rows
    /\ ~unsynced /\ (\A p \in Procs : ~Unwritten(p)) => conf = LivePeers(rows)
    /\ ~unsynced /\ (\A p \in Procs : ~Unapplied(p)) => live = conf

\* A step of the process that changes nothing they say.
LEMMA InStepKept ==
    ASSUME OneAtATime, InStep, NEW p \in Procs, UNCHANGED <<rows, conf, live, today>>,
           \/ unsynced' = TRUE
           \/ /\ unsynced' = unsynced
              /\ (Unwritten(p) => Unwritten(p)') /\ (Unapplied(p) => Unapplied(p)'),
           pc'[p] = "write" => work'[p].snap = rows
    PROVE  InStep'
<1>1. \A q \in Procs : q = p BY DEF OneAtATime
<1>2. LivePeers(rows)' = LivePeers(rows) BY DEF LivePeers, IsLivePeer
<1> HIDE DEF LivePeers
<1> QED BY <1>1, <1>2 DEF InStep

\* The same, by the steps at which nothing is pending.
LEMMA InStepAside ==
    ASSUME OneAtATime, InStep, NEW p \in Procs, UNCHANGED <<rows, conf, live, today>>,
           unsynced' \in {unsynced, TRUE}, ~Unapplied(p) \/ unsynced' = TRUE,
           pc'[p] # "write"
    PROVE  InStep'
<1>1. ~Unapplied(p) => ~Unwritten(p) BY DEF Unapplied
<1> QED BY <1>1, InStepKept

(* Every step leaves them in step, or is the one that owes the next.     *)
LEMMA InStepStep ==
    ASSUME OneAtATime, Typed, InStep, [Next]_vars
    PROVE  InStep'
<1>1. pc \in [Procs -> PCs] /\ work \in [Procs -> Work] BY DEF Typed, TypeOK
<1>2. Admins \subseteq Procs /\ Listeners \subseteq Procs BY DEF Procs
<1>3. ASSUME NEW p \in Admins, NEW o \in AdminOps, NEW n \in Names, Call(p, o, n) PROVE InStep'
  BY <1>1, <1>2, <1>3, InStepAside DEF Call, Goto, files, clock, Unapplied, Unwritten
<1>4. ASSUME NEW p \in Admins, RenewLoad(p) PROVE InStep'
  BY <1>1, <1>2, <1>4, InStepAside DEF RenewLoad, Goto, files, clock, Unapplied, Unwritten
<1>5. ASSUME NEW p \in Admins, Reconcile(p) PROVE InStep'
  <2>1. pc[p] = "idle" /\ UNCHANGED <<rows, conf, live, today, unsynced>>
    BY <1>5 DEF Reconcile, files, clock
  <2>2. work'[p].snap = rows BY <1>1, <1>2, <1>5 DEF Reconcile, NoWork
  <2> QED BY <1>2, <2>1, <2>2, InStepKept DEF Unapplied, Unwritten
<1>6. ASSUME NEW p \in Listeners, NEW t \in Tokens, RedeemLoad(p, t) PROVE InStep'
  BY <1>1, <1>2, <1>6, InStepAside DEF RedeemLoad, Goto, files, clock, Unapplied, Unwritten
<1>7. ASSUME NEW p \in Procs, pc[p] \notin {"commit", "save", "write", "sync"}, pc'[p] # "write",
             UNCHANGED <<rows, conf, live, today, unsynced>>
      PROVE  InStep'
  BY <1>7, InStepAside DEF Unapplied, Unwritten
<1>8. ASSUME NEW p \in Procs,
             Lock(p) \/ BeginTxn(p) \/ RefuseTxn(p) \/ TimeoutTxn(p) \/ LoadTokens(p)
                \/ IssueToken(p) \/ RevokeTokens(p) \/ RenewSave(p) \/ RedeemSave(p)
                \/ RedeemRefuse(p) \/ EnrollLoad(p)
      PROVE  InStep'
  <2>1. UNCHANGED <<rows, conf, live, today, unsynced>>
    BY <1>8 DEF Lock, BeginTxn, RefuseTxn, TimeoutTxn, LoadTokens, IssueToken, RevokeTokens,
       RenewSave, RedeemSave, RedeemRefuse, EnrollLoad, files, clock, counters
  <2>2. pc[p] \notin {"commit", "save", "write", "sync"}
    BY <1>8 DEF Lock, BeginTxn, RefuseTxn, TimeoutTxn, LoadTokens, IssueToken, RevokeTokens,
       RenewSave, RedeemSave, RedeemRefuse, EnrollLoad
  <2>3. pc'[p] # "write"
    BY <1>1, <1>8 DEF Lock, BeginTxn, RefuseTxn, TimeoutTxn, LoadTokens, IssueToken, RevokeTokens,
       RenewSave, RedeemSave, RedeemRefuse, EnrollLoad, Goto, Done, Abort
  <2> QED BY <1>7, <2>1, <2>2, <2>3
<1>9. ASSUME NEW p \in Procs, HotApply(p) PROVE InStep'
  <2>1. pc[p] = "hot" /\ pc'[p] = "commit" /\ UNCHANGED <<rows, conf, today, unsynced>>
    BY <1>1, <1>9 DEF HotApply, Goto, clock, counters
  <2>2. LivePeers(rows)' = LivePeers(rows) BY <2>1 DEF LivePeers, IsLivePeer
  <2>3. \A q \in Procs : q = p BY DEF OneAtATime
  <2> HIDE DEF LivePeers
  <2> QED BY <2>1, <2>2, <2>3 DEF InStep, Unwritten, Unapplied
<1>10. ASSUME NEW p \in Procs, Commit(p) PROVE InStep'
  <2>1. pc'[p] = "save" /\ work' = work BY <1>1, <1>10 DEF Commit, Goto
  <2>2. work[p].op # "patch" BY <1>10 DEF Commit, Typed, Shape, ShapeOf
  <2>3. \A q \in Procs : q = p BY DEF OneAtATime
  <2> QED BY <2>1, <2>2, <2>3 DEF InStep, Unwritten, Unapplied
<1>11. ASSUME NEW p \in Procs, SaveConfig(p) PROVE InStep'
  <2>1. pc'[p] = "write" /\ work'[p].snap = rows BY <1>1, <1>11 DEF SaveConfig, Goto, Work
  <2>2. UNCHANGED <<rows, conf, live, today, unsynced>> BY <1>11 DEF SaveConfig, clock
  <2> QED BY <2>1, <2>2, InStepKept DEF Unwritten, Unapplied
<1>12. ASSUME NEW p \in Procs, SavePatch(p) PROVE InStep'
  <2>1. pc'[p] = "idle" BY <1>1, <1>12 DEF SavePatch, Done, Goto
  <2>2. UNCHANGED <<rows, conf, live, today, unsynced>> /\ ~Unapplied(p)
    BY <1>12 DEF SavePatch, clock, Unapplied, Unwritten
  <2> QED BY <2>1, <2>2, InStepAside
<1>13. ASSUME NEW p \in Procs, WriteConf(p) PROVE InStep'
  <2>1. pc[p] = "write" /\ pc'[p] = "sync" /\ work[p].snap = rows
        /\ conf' = LivePeers(work[p].snap) /\ UNCHANGED <<rows, today>>
    BY <1>1, <1>13 DEF WriteConf, Goto, clock, InStep
  <2>2. LivePeers(rows)' = LivePeers(rows) BY <2>1 DEF LivePeers, IsLivePeer
  <2>3. \A q \in Procs : q = p BY DEF OneAtATime
  <2> HIDE DEF LivePeers
  <2> QED BY <2>1, <2>2, <2>3 DEF InStep, Unwritten, Unapplied
<1>14. ASSUME NEW p \in Procs, SyncLive(p) PROVE InStep'
  <2>1. pc[p] = "sync" /\ pc'[p] = "idle" /\ live' = conf /\ UNCHANGED <<rows, conf, today, unsynced>>
    BY <1>1, <1>14 DEF SyncLive, SyncConf, Done, Goto, clock, counters
  <2>2. LivePeers(rows)' = LivePeers(rows) BY <2>1 DEF LivePeers, IsLivePeer
  <2>3. \A q \in Procs : q = p BY DEF OneAtATime
  <2> HIDE DEF LivePeers
  <2> QED BY <2>1, <2>2, <2>3 DEF InStep, Unwritten, Unapplied
<1>15. ASSUME NEW p \in Procs, PersistFails(p) \/ Crash(p) PROVE InStep'
  <2>1. pc'[p] = "idle" /\ unsynced' = TRUE /\ UNCHANGED <<rows, conf, live, today>>
    BY <1>1, <1>15 DEF PersistFails, Crash, Done, Goto, files, clock
  <2> QED BY <2>1, InStepAside
<1>16. CASE DayPasses
  BY <1>16 DEF DayPasses, InStep, files
<1>17. CASE (\E t \in Tokens : TokenLapses(t)) \/ UNCHANGED vars
  <2>1. UNCHANGED <<rows, conf, live, today, unsynced, pc, work>>
    BY <1>17 DEF TokenLapses, vars, files, clock, counters
  <2>2. LivePeers(rows)' = LivePeers(rows) BY <2>1 DEF LivePeers, IsLivePeer
  <2> HIDE DEF LivePeers
  <2> QED BY <2>1, <2>2 DEF InStep, Unwritten, Unapplied
<1>18. CASE Start
  BY <1>3, <1>4, <1>5, <1>6, <1>18 DEF Start
<1>19. CASE \E p \in Procs : Continue(p)
  BY <1>8, <1>9, <1>10, <1>11, <1>12, <1>13, <1>14, <1>15, <1>19
     DEF Continue, Transaction, Persist, AdminStep, ListenerStep
<1>20. CASE Environment
  BY <1>15, <1>16, <1>17, <1>20 DEF Environment
<1> QED BY <1>17, <1>18, <1>19, <1>20 DEF Next

(* Once the operations of a single process have returned, wg0.conf lists *)
(* exactly the live peers of the registry and the interface has what it  *)
(* lists, unless a step has failed since (operations.py,                 *)
(* _persist_wg_config). With two processes a run refutes it.             *)
THEOREM SettledRegistryMatches ==
    ASSUME OneAtATime
    PROVE  Spec => []SettledMatchesRegistry
<1>1. Init => InStep
  <2>1. Init => LivePeers(rows) = {} BY DEF Init, LivePeers, IsLivePeer, AbsentRow
  <2> HIDE DEF LivePeers
  <2> QED BY <2>1 DEF Init, InStep
<1>2. Typed /\ InStep /\ [Next]_vars => InStep' BY InStepStep
<1>3. InStep => SettledMatchesRegistry
  BY DEF InStep, Unwritten, Unapplied, AllIdle, SettledMatchesRegistry
<1> QED BY <1>1, <1>2, <1>3, AlwaysTyped, PTL DEF Spec
=============================================================================
