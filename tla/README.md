# A verification of OutWarp in TLA+

OutWarp tunnels WireGuard through a WebSocket (wstunnel) so that it passes
networks that block UDP. It is a Python program in two halves: a *server*
(`src/server/outwarp_server`) that keeps a registry of clients, the WireGuard
configuration and an enrolment listener; and a *client* (`src/client/outwarp`)
that dials the server over a ladder of routes, keeps the tunnel up and guards
the user's traffic with a kill switch. This directory holds TLA+ modules for the
parts of it where interleavings, failures and restarts decide whether it is
right, the TLC configurations that check them, and TLAPS proofs of what matters
most for every size of the instance.

Run `tlc -config X.cfg M` for a run of `PROJECT.json` and `tlapm M.tla` for a
module with theorems.

## 1. The system and its parts

| part | state it keeps | operations | meets |
|---|---|---|---|
| client registry (`operations.py`, `client_store.py`, `ip_pool.py`) | `clients.sqlite`: name, key, address, state, expiry | add, reserve, revoke, enable, disable, rotate, complete_enrollment | SQLite write lock; token file, wg0.conf, `wg set` inside and after its transaction |
| configuration file (`config.py`) | `server_config.json` | `locked_config`, load, save, `_save_config_patch`, renew-cert | flock; every operation rewrites it |
| enrolment (`enrollment.py`, `enroll_server.py`) | `enrollment_tokens.json`, rate-limit counters | issue, revoke, redeem, prune; HTTP listener | a lock of the process; the registry |
| server WireGuard (`wireguard.py`, `platforms/linux.py`) | `wg0.conf`, peers of the interface | build, install, `wg set`, `wg syncconf` | lists that operations carry out of their locks |
| server manager (`server_manager.py`, `cli.py serve`) | state, wstunnel handle, stop event, threads of start and watchdog | start, stop, restart, refresh, signals | wstunnel, listener, WireGuard; the panel's API calls it on threads of its own |
| web panel (`web_server.py`, `web_auth.py`, `api.py`, `logs.py`) | sessions in memory and on disk, login failures, event queues, the log ring | login, logout, requests, event streams | browsers; `outwarp-server admin-token`; registry, manager and host through its API |
| server host (`setup_wizard.py`, `service_install.py`, `platforms/`, `caddy.py`) | WireGuard, units, NAT rules, forwarding, firewall, Caddy | setup, restart, settings, uninstall; reboots | the machine; the configuration |
| server doctor (`diagnostics.py`) | the report on the screen | checks, automatic fixes | the host |
| traffic history (`traffic_history.py`) | a table of counters | scheduler, queries | WireGuard's counters, the panel |
| tunnel and manager (`tunnel.py`) | state, two events, worker thread, wstunnel handle, "installed" flag, attempt counter | start, stop, cancel, connect, disconnect, `_run` | kill switch at each change of state, platform, listeners |
| kill switch (`killswitch.py`) | firewall rules, outliving the process | reconcile, engage, release | called from `_set_state`; startup of the daemon |
| daemon (`service.py`) | two events; exit codes 0, 2, 3, 4 | `run_daemon`, signals | tunnel manager; systemd restarts it on failure |
| tunnel ownership (`ownership.py`) | a file lock | acquire, release, hand over to the service | window, terminal interface, `connect`, daemon |
| GUI bridge, CLI, TUI (`api.py`, `cli.py`, `tui/`) | one manager, background threads | connect, disconnect, reconnect, import, switch, edit, remove | the manager and the profiles, each call on a thread of its own |
| ladder and routing (`fallback.py`, `routing.py`, `dnscache.py`) | sticky strategy, remembered answers | build, reorder, resolve, escape set | `connect`, `wg_conf`, the kill switch's allowlist |
| profiles and trust (`config.py`, `profiles.py`, `profile_trust.py`) | profile files, active pointer, pinned keys | import, switch, edit, reset, remove, migrate | several processes without a lock |
| enrolment client (`enroll.py`) | one token, one key | redeem over the rungs | the server's listener |
| updaters (`updater.py`, `api.py`, both `cli.py`) | a downloaded file, a helper process | check, download, verify, install | the application, which quits for it |
| client uninstall (`uninstall.py`) | - | undo everything a client leaves | kill switch, tunnel, running clients |

Client diagnostics, tray, the JavaScript interfaces, installers and packaging
make up the rest; nothing of them is modelled. `PROJECT.json` lists every part
with what is modelled of it.

### What is hard about it

* **Several processes, three locks.** CLI, panel and listener share files. The
  flock covers the configuration, SQLite's `BEGIN IMMEDIATE` the registry, a
  `threading.Lock` the tokens. No lock covers `wg0.conf`: the list written to
  it was read under the flock but is written after it.
* **A change is many steps** - check, token, `wg set`, COMMIT, save, write, sync
  - any of which may fail or be the last before the process is killed.
* **A stop meets a worker in the middle of something.** `stop()` sets two
  events, joins for ten seconds and then disconnects the same tunnel object the
  worker is using. The GUI calls start and stop from unsynchronised threads.
* **The kill switch follows the state by side effect.** Whether packets may leave
  depends on the order of `_set_state`, teardown and reconcile.
* **Rules and interface outlive the process** that made them, its memory does not.

### What makes each part correct

* Registry: one address per registered client; a commit is one legal change of the
  registry as it is at that instant; files and interface agree with it when
  nothing is pending; no key that was revoked comes back.
* Tokens: redeemed at most once; none outlives its client.
* Configuration: no saved edit is lost.
* Tunnel: after a stop nothing is left; no process is orphaned; every call returns
  and every attempt ends; the failure count gives up exactly at `max_attempts`.
* Kill switch: from the first connection until a stop, traffic takes the tunnel or
  does not leave; a crash does not open it, a stop does.
* Daemon: giving up leads to a retry; a stop is honoured at any moment.
* Server manager: serving or exiting, never in between; a dead wstunnel is noticed; a
  stop that is not overlapped leaves nothing; a reload arrives.
* Panel: no request on a session that ended; a lockout that locks out; a browser
  that sees the state in the end, and threads that end with theirs.
* Enrolment: a device that saved its profile holds the registered key, and a spent
  token is somebody's.
* Ownership and profiles: one tunnel at a time, of the active profile; a pinned key
  that no import changes; no private key lost.
* Routes: the address dialled is outside the tunnel and inside the allowlist.
* Host: a command that says it is done leaves what it says, and the doctor agrees.
* Traffic: nothing is reported that was not moved. Updates: nothing runs that was
  not verified, and who quits for one comes back. Uninstall: the machine is left
  online.

## 2. Modules

| module | what it is |
|---|---|
| `PeerLedger` | what the registry promises: single-slot changes register, enrol, switch, rotate, revoke |
| `ClientRegistry` | the server's operations over all the shared files, step by step; implements `PeerLedger` |
| `MCClientRegistry` | its TLC instances (names are interchangeable) |
| `ClientRegistrySafety` | theorems about it |
| `TunnelLifecycle` | what the client's tunnel promises to its observers: states, interface, kill switch, session |
| `TunnelManager` | the manager, its worker, wstunnel, the interface, the kill switch and the threads that call it; implements `TunnelLifecycle` |
| `MCTunnelManager` | its TLC instances |
| `TunnelManagerProofs`, `TunnelManagerSafety` | theorems about it |
| `ClientDaemon`, `ClientDaemonSafety` | `TunnelManager` inside `run_daemon` and systemd: start, stop, kill, restart; theorems |
| `MCClientDaemon` | its TLC instance for a finding; `MCClientParts` has the others |
| `ServerManager` | the manager's process: callers, starters, watchdog, the `serve` loop, the units beside it |
| `PanelSessions`, `PanelSessionsSafety` | who is let into the panel; theorems |
| `PanelEvents`, `LogWatch` | how the interface learns of events, and of log lines |
| `EnrolExchange` | devices walking the rungs with one token against the listener's threads |
| `TunnelOwners` | the ownership lock among all the surfaces |
| `ManagerSwitch` | the window's current manager and the active profile |
| `ProfileStore` | imports file by file, pins, migration, two processes |
| `SelfUpdate` | the three updaters and the helper that outlives the window |
| `EscapeRoutes` | three lookups of one name: rungs, AllowedIPs, allowlist |
| `ServerHost`, `ServerDoctor`, `ServerHostSafety` | the machine and its commands; the doctor over it (extends `ServerHost`); theorems |
| `TrafficHistory` | snapshots of counters and what is read out of them |
| `ClientUninstall` | what clients leave behind, and the command that takes it away |
| `ServerPartsSafety` | theorems about `ServerManager`, `LogWatch` and `TrafficHistory` |
| `ClientPartsSafety` | theorems about `TunnelOwners`, `ManagerSwitch`, `EnrolExchange`, `ProfileStore`, `EscapeRoutes`, `SelfUpdate`, `ClientUninstall` |
| `MCServerParts`, `MCClientParts` | the parts of the server, and those of the client, side by side in one TLC instance, one of them running |

### ClientRegistry and the code

A process is a CLI command or the panel (`Admins`) or the enrolment listener
(`Listeners`). Its program counter names the point in `operations.py` it has
reached; `work[p]` holds its local variables: the name, key and address it works
on, the token file it has read (`held`), the configuration it has loaded (`cfg`),
and the list of clients it will write to `wg0.conf` (`snap`).

| step | code |
|---|---|
| `Lock` | `locked_config`: flock, load, backfill of missing signing keys |
| `BeginTxn`, `RefuseTxn`, `TimeoutTxn` | `BEGIN IMMEDIATE`, the checks of the operation, its refusals, SQLite's busy timeout |
| `LoadTokens`, `IssueToken`, `RevokeTokens` | the read-modify-write of the token file inside the transaction |
| `HotApply` | `wg set`, which may fail: logged, and the operation goes on |
| `Commit` | the row, and COMMIT |
| `SaveConfig`, `SavePatch` | `list_active`, save, leaving the flock |
| `WriteConf`, `SyncLive`, `PersistFails` | `_persist_wg_config`: after every lock |
| `RedeemLoad`, `RedeemSave`, `RedeemRefuse`, `EnrollLoad` | the listener: redeem, then `complete_enrollment` |
| `RenewLoad`, `RenewSave`, `Reconcile` | renew-cert and restart_services, which take no lock |
| `Crash`, `DayPasses`, `TokenLapses` | a kill at any step; dates that pass |

What no other process can see or change in between is one action. Keys, tokens
and edits are numbers in the order in which they are made; an address is its
place in the pool. `acked`, `redeemed`, `owner`, `lapsed`, `unsynced`, `keys`
and `edits` are history, or the identity of a random value.

### TunnelManager and the code

A thread is a controller (a thread of the GUI, the TUI or the CLI calling
`start`, `stop`, or both in a row) or the manager's worker. Each access to what
they share - the two events, the handle to wstunnel, the "installed" flag, the
state - is a step. `pc[t]` is the place in `_run`, `connect`, `disconnect`, `stop`
or `start`; `then[t]` is where a routine that both run (`terminate` ... `unflag`
for `disconnect()`, `guard` for the reconciliation in `_set_state`) returns to.

`connect` is inlined: `Dial` (its prelude, whose errors need no cleanup),
`Install`, `Flag`, then for each rung `Rung`, `Pin`, `Check`, `Spawn`, `Await`,
`Hear`; any exception inside its `try` is `Raise`, a `disconnect()` followed by
the handler in `_run`. `Won` ... `Backoff` are the rest of `_run`. `Faults` says
which errors an instance may meet: an expired profile, a missing or blocked
wstunnel, an unresolvable server, a failing WireGuard or firewall command, a
failing uninstall, an interface that somebody else takes down. `iface = "gone"` is
an interface that vanished while it was being watched. `session` is history: a
connection has been up and nobody has asked to stop. `MaxCalls` bounds the
controllers' calls.

`start()` is two steps, one for each `clear()`: it holds the manager's lock
(`LockFree`), but `stop()` sets its two events and reads `_thread` without it, so
these can fall between them. Only `_set_state` at the end of `stop()` waits.
`SlowWorker` is the ten seconds of `stop()`'s join running out.

### ClientDaemon and the code

It adds the service to `TunnelManager`: `Startup` (own the tunnel, release stale
rules unless the switch is on, start), `GaveUp` and `Terminated` (the two ways out
of the loop into `manager.stop()`), `Exit` with its exit code as `Restarts`, and
`Killed`: memory is lost, rules and interface stay. The unit's
`Restart=on-failure` is `Restart`. `orphans` is history: which of interface and rules
is there because its own removal was the last thing that failed, or because a killed
process has left it and its successor has not yet put its own in the place, or not yet
reported a state.

### The server's process, panel and host

**`ServerManager`.** `smPc[c]` is where a thread of the API or the main thread is
in `stop` (`signal`, `take`, `kill`, `unwire`, `settle`), `smStarter[s]` where a
start is (`wire`, `spawn`, `announce`, `watch`, `attend`): `stop()` and the body of
a start share the handle, the stop event and the state without a lock, so each
access is a step. `smHost` says which program holds the manager: the `serve` loop
with its signals and exit codes (`Sighup`, `Sigterm`, `Reload`, `SmQuit`), the
desktop window, or a window or panel beside systemd units (`UnitChanges`,
`ApiBounceUnits`, `Rewire`). `MonitorOnce` is the watchdog.

**`PanelSessions`.** A request on a thread is `psHandler[h]`; what `_authed` reads
before it takes the store's lock is kept in it, so that a rotation, a logout or a
purge may fall in between (`RequestArrives`, `Validate`). A login is
verified outside every lock and opens its session a step later (`VerifyToken`,
`OpenSession`). Saves may fail (`SavesFail`), and `RestartPanel` reads back
whatever the file holds.

**`PanelEvents`, `LogWatch`.** A queue per browser drops what does not fit; the
live poll repeats the state; a thread blocked on a vanished peer is freed by
`WriteTimeout`, one that has nothing to write by `Heartbeat`. The log watcher takes
what is new out of a ring by counting.

**`ServerHost`, `ServerDoctor`.** `hoJob` is the command and the steps it has left,
in the order of the code; a step may fail (`Passed`, `Warned`, `GivesUp` say how the
code takes it), a kill may fall between two, and a reboot keeps only what is
enabled. `hoPromise` is what the last command that ended well has said. The doctor
adds its checks as predicates, and its fixes as further commands: the panel's
checks again first, the text interface's acts on the report it shows.

A configuration has its public port, one for the loopback interface and its branch
(`Setups` are the answers the wizard may be given), `WsPort` says which of them wstunnel is
told, and the unit, the running process and Caddy's site each keep what *they* were
written for (`names`, `holds`, `loaded`). So a setup over a running wstunnel leaves it on
the old port, and the checks of the doctor ask for the port that is configured, as `ss` is
asked in `diagnostics.py:863` and `904`. Who finds its port taken is started again and
again (`Started`), while `systemctl` reports success.

A step that reports success may have failed: many programs are run with `check=False`.
`PassedBut` is such a step, and `hoMissed` is history: what was missed ("link", "nat",
"port", "forwarding" of a reconciliation on Windows, "port" of ufw, and of an uninstall
"wstunnel", "enroll", "wireguard", "front"). It is what the properties may excuse, each
entry for its own part. Three fields of `hoWg` are history too: `gone`, the interface was
deleted under its active unit, which a restart does not mend; `loose`, it is up under a unit that
need not be enabled, which a reboot undoes; `strays`, the subnets whose masquerading rule
no PostDown will take away. A reboot clears them (`Rebooted`).

**`TrafficHistory`.** The scheduler's thread as steps and the table as a set of
rows; every query of the module is an operator over that set, so that the invariant
can ask all of them in every state.

### The client's surfaces

**`EnrolExchange`.** `exDevice[d]` is `enroll()` on a device - dial a rung, post,
await, next rung, save - and `exPost` the requests and answers in flight: an answer
may be lost or come after the wait has ended. The listener's lock is `exBusy`;
`SpendToken` and `CompleteEnrolment` are two steps, as in `enroll_server.py`.

**`TunnelOwners`.** A role for each surface, the lock, and the service's unit. Some
ways to start a manager look at neither: the window's `import_profile` and `reconnect`
(`GuiStartsAnyway`), and in the terminal interface a profile edit by a viewer and
the retry on the very screen that says that another process has the tunnel
(`TuiStartsAnyway`). `toIntruders` remembers who did that, and the invariant is
about all the others.

**`ManagerSwitch`.** A thread of the bridge captures a manager and acts on it later
(`Connect` and `Reconnect` read it, `StopCaptured` and `StartCaptured` act), an edit swaps the manager in a thread of its own
(`SwitchManager`), and the profile on disk and the pointer are further steps.

**`ProfileStore`.** An import is one step per file it writes: pins, configuration,
pristine copy, pointer; `BeginMigration` ... `PointAtMigrated` is the old layout.
A kill may fall between two of them, or in the middle of writing the pins. A private
key is a number, given to an import when its profile is verified; a new identifier is
the least that is free, as `slug-2`, `slug-3` are tried in turn.

**`SelfUpdate`.** Three programs run `upRun`; the window's helper (`upHelper`) is a
process of its own that reports through a file and outlives it: `left` says that its
window has quit for it. It brings the client back if it was told what to start
(`upFrozen`: `client_exe` is empty for a client run from its sources) and if that starts
(`HelperRestarts`), and it may be killed while it waits or installs (`HelperKilled`).
`upForsaken` is history: the helper started last said that it runs and came to such an
end.

**`EscapeRoutes`.** `ResolveRungs`, `InstallTunnel` and `EngageSwitch` look the names
up one after another, each by its own means, falling back to what `esCache`
remembers. The ladder is the set of rungs not yet tried, and `Foremost` the one that
is dialled next: the rung that last worked on this network, then in the ladder's
order. An attempt that fails before it has an address (`Preflight`) goes on as a tunnel
that is lost does: the state changes, and the switch is reconciled with an allowlist
resolved anew. `WeatherChanges` is a network that begins or stops lying, or a server
that moves.

**`ClientUninstall`.** Clients come, connect, lose their tunnel, quit or die at any
step of engaging the switch; `UnSteps` are the steps of the command per platform. A link
may outlive its removal (`Downs`): the Windows service may not stop, and the helper's
`wg-quick down` is followed by `|| true`.

## 3. Runs

| run | instance | shows |
|---|---|---|
| `registry_concurrent` | 2 admins, listener, 2 names, 2 addresses, 4 operations (428k states) | addresses and routes stay unique, an admin finds its own change, every commit is a step of `PeerLedger` |
| `registry_tokens` | admin and listener in one process, tokens lapse, 4 operations (186k) | a token is redeemed once and never outlives its client; operations end |
| `registry_sequential` | 1 admin, 9 operations, failures, 1 crash, dates, 3 operations (169k) | files agree with the registry once synced |
| `tunnel_session` | 1 controller, 2 rungs, 3 attempts, all faults but two, 5 calls (23k) | `NoLeak`, `StoppedClean`, `TunnelLifecycle` implemented, calls return, attempts end |
| `server_parts` | six components one at a time (228k): see below | 12 properties of components that share no state |
| `client_parts` | eight components one at a time (189k): see below | 13 properties of components that share no state |
| `registry_stale_persist`, `registry_lost_edit`, `registry_token_race`, `tunnel_overlap`, `daemon_switch`, `escape_disagrees` | small | violations: section 5 |

**`server_parts`, `client_parts`.** `MCServerParts` and `MCClientParts` choose a component
in the initial state and run it alone, so the state space is the sum of the components and
not their product. Modules that interact are not split this way: the doctor is composed
with the host, the registry with its token file and interface, the daemon with its tunnel
manager. What each shows, and its bounds:

| component | bounds | properties |
|---|---|---|
| manager | 1 caller beside the main thread, 2 starts at once, 2 spawns, 1 upset, 1 edit | `SmServeWhole`, `SmDeathNoticed`, `SmStoppedClean`, `SmReloadApplied` |
| sessions | 2 threads, 3 requests, 1 rotation, 1 restart, lifetimes 1 and 2, clock to 2, failing saves | `PsGrantsAreLive`, `PsLockoutHolds` |
| events | 1 browser visiting twice, queue of 2, 3 changes | `PeViewHeals`, `PeThreadReclaimed` |
| logs | buffer of 2, 6 lines | `LwShowsAll` |
| host | 2 answers to the wizard that differ in subnet and public port, each with both branches, and a third with another inner port, 2 configurations, 2 commands, 1 fault, 3 platforms | `HoKeepsWord`, `DrAgrees` |
| traffic | 1 peer, clock to 3, 1 restart of its counter | `TrTellsTruth` |
| daemon | service with 2 kills, failing engage, release and uninstall | `StopLeavesNothing`, `ClosedUntilConnected`, `ServiceAnswers` |
| enrolment | 2 devices, 2 rungs, 2 imports, 1 strike, 1 listener kill | `ExHeldKeyAdmitted`, `ExNobodyStranded` |
| owners | 3 toggles, kills or give-ups | `ToOneOwner` |
| switch | 2 profiles, 2 threads, 2 calls | `GmSettled` |
| profiles | 2 servers, 2 processes, 2 operations, 1 kill | `PfPinHolds`, `PfKeysKept` |
| update | 2 runs, 2 releases, packaged or not | `UpInstallsVerified`, `UpComesBack` |
| routes | 2 losses or failed attempts, 1 change of the network | `EsReachable` |
| uninstall | 2 client processes | `UnLeavesOnline` |

**Bounds.** Two names and two addresses show every collision, reuse of an address
after a revoke, and a pool that is exhausted (a pool of one in the sequential
run, where no race needs two); a hazard in the list involves
at most two processes and the listener, and at most three operations, of which
the runs allow four between them. The listener may be mid-operation at the same
time as both admins. One crash is enough for any cut of one operation; a process
that is killed twice has only been killed at one step each time. Two rungs give a
first, a next and an exhausted ladder; three attempts a first failure, a further
one and the last. Five calls are connect, disconnect, reconnect and a call on top.
Two kills put a successor of a killed process itself at risk.
In these two runs, two actors of a kind meet in every order, and each count leaves one
step after the case it is there for: two commands on a host are one to prepare it
and one to fail over what it left, two operations on profiles an import and whatever
meets it, three requests two logins that lock an address and one that is turned
away, six log lines a ring of two overwritten twice. Windows of 1 or 2 ticks stand
for minutes and days: only their order matters.

**Deadlock** is off in all runs: with the bounds on operations and calls used up
and nothing running, the system rests, as the real one does when nobody uses it.
That nothing rests while an operation is running is what `OperationsFinish` and
`CallsReturn` check.

**Fairness.** Weak fairness of each process's next step in `registry_tokens` (a
runnable process runs, locks have timeouts, no operation is obliged to start) and
of the worker and each controller in `tunnel_session` (threads the operating
system schedules; every wait of the code has a timeout or an event). No fairness
for faults, for requests, for crashes, or for the outcome of a probe: a
handshake that never comes is allowed for ever. `FairDaemon` adds systemd's
restart and the main loop, which polls. `SmFairness` is that of the manager's
threads, its watchdog and the `serve` loop, which wake on a timeout; `PeFairness`
that of the live poll, of each connection's thread (its queue and its socket have
timeouts) and of a page that, once loaded, says that it is ready. Neither obliges
a call, a change, a browser that leaves or a process that dies.

**Mutants.** Every property of a passing run is broken by a change a plausible
bug would make (the `Mutant of` definitions): a deferred BEGIN, a token lock
left out, a teardown that does not wait for the worker, a state set after the
teardown, a failure that is not counted, and so on.

## 4. Proofs

Every safety invariant and action property of the passing runs is a theorem, for every
value of the constants; liveness is left to TLC. A theorem with a hypothesis on a constant says so; the hypotheses name situations of the code, and for
each the run that refutes the property without it is given. Apart from them only the
modules' named assumptions are used. Each proof has the form

    Init => IInv      IInv /\ [Next]_vars => IInv'      IInv => Property

with a lemma for each action or family of actions, and `IInv` was checked with TLC on the
bounds of section 3 before it was proved.

### The registry

`ClientRegistrySafety` proves `TypeCorrect`, and rests the rest on two invariants that are
not in the runs: `LocksHeld` - the SQLite lock is held exactly by the
process inside a transaction, the flock exactly by those inside `locked_config` - and
`Transactional` - what a process inside a transaction has checked about the registry is
still true. From them:

* `AddressesStayUnique`: the addresses of registered clients differ. By itself this is not
  inductive, since `Commit` writes an address chosen several steps earlier;
  `Transactional` says that it is still free.
* `RegistryImplementsLedger`: every commit is a step of `PeerLedger`, every other
  step a stutter. `LedgerSeparates` says what that is worth: in the ledger each client in
  use has an address of the pool to itself.
* `RoutesStayUnique`: also in `wg0.conf` and on the interface, which are written
  from old lists. The argument carries the uniqueness through every list a
  process holds, and shows that a list lives on with the keys it had.
* `OwnChangeStaysInSnapshot`: between an admin's commit and its save only the
  listener can commit (the flock), and an enrolment changes nothing an admin has
  done.
* `TokensRedeemedOnce`, if `SameProcess`: the listener is a thread of the administering
  process, so that the token file's lock reaches it. `TokensTracked` says that one thread
  at a time rewrites the file, that it is still what that thread has read, and that a
  token which is in it unspent was never redeemed. Without `SameProcess` the instance of
  `registry_token_race` violates it, as it does the next one.
* `NoTokenOutlivesRevocation`, if `SameProcess` and no process is killed: `Backed` says
  that an unspent token belongs to a registered client or to the one whose reservation is
  about to be committed, and `Dropped` that a revocation that has dropped its client's
  tokens has none left when it commits. A kill between the token file and COMMIT leaves a
  token without a row, which is why `MaxCrashes = 0`; `registry_tokens` has the same bound.
* `SettledRegistryMatches`, if one process runs (`OneAtATime`): `InStep` says at each
  step of an operation which of registry, `wg0.conf` and interface agree. With two
  processes `registry_stale_persist` refutes it.

### The tunnel and the service

`TunnelManagerProofs` proves `TypeCorrect`, for any number of controllers. It is not
inductive as it stands: where a thread returns to decides whether it goes on legally, so
`Flow` relates a thread's place, return address and pending state, and `Counters` the
failure count and the rung to the worker's place.

`TunnelManagerSafety` is about one controller (`Alone`). With two, one can tear down the
session the other starts, and none of its theorems about the manager holds:
`tunnel_overlap`.

* `SessionNeverLeaks` (`NoLeak`), also when `SlowWorker` lets the worker outlast the join.
  The strengthening is `Safe`: before a stop nobody is inside `stop()` (`Calm`);
  `launch` finds a dead worker (`Launching`); a session is one nobody asked to
  stop (`Wanted`); a connection just won is still there (`Fresh`); and a session is
  *covered* (`Cover`): by the interface while the worker watches it, by the rules
  anywhere else, and in the two reconciliations between them by what the one
  being removed still protects.
* `StopsClean` (`StoppedClean`), if the worker ends within the ten seconds of the join
  (`Orderly` = `Alone` and not `SlowWorker`): otherwise `stop()` returns, and its caller
  goes on, while a worker is still inside `connect`. `Tidy` says of the worker at
  each step where it may have a wstunnel, an interface or rules (`Processes`,
  `Interfaces`, `Rules`), how far a stop has come (`Stopping`), and that nothing is left
  when it is over (`Stopped`).
* `FollowsLifecycle` (`ImplementsLifecycle`), if `Orderly`: each step of the manager is a
  step of `TunnelLifecycle` or changes none of its variables. `Staged` adds which state
  the manager is in at each label of its worker, `Switched` that nothing reconciles a
  switch that is disabled. The commands that may fail and the setting of the switch are
  constants of the lifecycle (`Refused`, `Enabled`), since its promises depend on them:
  a session is `Protected` by a switch that is enabled and can be engaged, and a
  stopped tunnel has no interface if it could be removed. `tunnel_session` checks the
  refinement with the switch on and neither command failing.
* `LifecycleShut`, for whatever implements the lifecycle: a protected session never has its
  interface down without the rules, and a disabled switch has no rules. `ManagerShut` is
  its consequence for the manager.

`ClientDaemonSafety` is about the manager inside the service, and reuses the lemmas on
each step of it. A service's manager is called by one thread, so `Alone` holds and
is no hypothesis.

* `ServiceKeepsClosed` (`ClosedUntilConnected`), with no hypothesis: rules are taken away
  for a connection or a stop only, over restarts and kills. `Guarded` is `Safe`, which
  speaks of a session and so survives a kill that ends one, with what a fresh process is
  like (`Unborn`) and what a reconciliation under way will do (`Aimed`).
* `ServiceLeavesNothing` (`StopLeavesNothing`), if not `SlowWorker`, over kills too and with
  any command failing: `Answered` is `Tidy` for what the service answers for (`Owned`, all
  that is not in `orphans`), and a process that has not begun has none of that in place.

### The server's parts

`PanelSessionsSafety`, for any number of threads, requests, rotations and restarts, and
saves that fail anywhere:

* `GrantsStayLive` (`PsGrantsAreLive`). A granted request alone says too little: what it
  was granted on may be an entry the file has kept from before a logout or a rotation.
  `StoresSound` says of memory and file together that entries are truthful (`Truthful`),
  one per session (`OneEntry`), numbered without gaps (`Numbered`, which makes the next
  number new) and, for a session that is void, bound to a token that is no longer current;
  `RequestsSound` carries that through the steps between the moment a request reads the
  token and the moment it looks its session up.
* `LockoutHolds` (`PsLockoutHolds`): wrong tokens looked at since the lock fell and those
  still being verified together are at most those that were being verified when it fell,
  a sum over a finite set of threads of any size.

`ServerPartsSafety`:

* `ManagerStopsClean` (`SmStoppedClean`): `stop()` and a start share no lock, so who owns
  the transport, its scheduler and its listener is stated for every pair of places of the
  two (`HandleFree`, `Attended`), as long as none has met another (`Exclusive`, given up
  by the history variable `smMet`); `Referred` says that nothing runs that the manager
  does not refer to.
* `LogsShown` (`LwShowsAll`), for buffers and backfills of any size: the buffer holds the
  newest lines (`Newest`), what is shown rises (`Rising`), and a buffered line is lacking
  only if it was logged between the backfill and the watcher's start (`Complete`).
* `TellsTruth` (`TrTellsTruth`), for any finite set of peers, any window, number of buckets,
  restarts of the counters, rows written in part and retention. The totals are folds over
  sets of rows, and the library's induction over finite sets cannot be instantiated; what
  a sum is comes instead from a smallest set that would be an exception (`MinimalSet`, from
  the library's well-foundedness of strict inclusion). A row counts what its peer moved
  since the peer's row before, so the rows of one peer without a gap add up to at most the
  distance between their ends, and to exactly that if the counter did not start over
  (`StretchFits`); sums over classes of rows are the sum over all (`SumInClasses`), which is
  why the buckets and the peers have one total. What the table has to be for that
  (`Orderly`) is kept by the scheduler as long as rows are of the past (`OfThePast`) and the
  row it is about to write is the newest of its peer (`Newer`).

`ServerHostSafety`, for any subnets and any number of commands, configurations, faults,
kills and reboots, any ports and answers of the wizard. No hypothesis on a constant is
needed: what the code does not keep is excepted in the properties, by the history in `hoWg`
and `hoMissed`, and by `PortLost` and `Overlooked`, which are states:

* `PromisesKept` (`HoKeepsWord`). What a command has said is so because of every step it
  has made, over whatever was failed, killed or half done before it. `HoIInv` divides this up:
  - `Machine`: what holds of the interface, its unit and its rules at any time. A subnet
    has one rule while its interface is up and none otherwise, but for the strays
    (`RulesCounted`); beside systemd an interface that is up has an
    active unit, one that is enabled or `loose`.
  - `JobShape`: where each command can be on each platform. The sequence of steps left is
    thereby a place, and no induction over it is needed.
  - `Planned` and `Progress`: what a command that has gone well so far was begun for, and
    what it has reached at the step ahead of it.
  - `Said`: what was promised, in a form that a reboot keeps: the files, the units and what
    is enabled as well as what runs (`Serves`, `Bare`).

  A step is the command's last one, and what it says must be so (`Finished`), or leads to
  the next one, where `Progress` must hold (`WentOn`), or has failed and leaves nothing to
  show (`Unwell`). There is a lemma for each step, used by every command that takes it.
  `Leftovers` says of every state that what runs although its file is gone was missed by
  an uninstall (`WgLeftover`, `UnitLeftover`, `CaddyLeftover`), which is what makes an
  excuse one about the machine as it is now.
* `DoctorAgrees` (`DrAgrees`): `Listening` says that the unit of the present configuration
  names its port and the wstunnel run from it holds that port, so that what was promised
  and what the checks ask of the ports meet; `OffersKnown` that every fix the report offers
  belongs to a check of the doctor.
* `HostInvariant`: the invariant of both, `DrIInv`: `HoIInv`, `Listening`, `Leftovers` and
  `OffersKnown`.

### The client's parts

`ClientPartsSafety` has a section for each. History variables say where the code
gives a promise up; the part of an invariant that depends on one is guarded by it, in the
property as in the invariant.

* `OneOwnerAtATime` (`ToOneOwner`), any number of upheavals. That one surface at most is up
  does not keep a second one from coming up; `HoldersOnly` and `Held` do: who owns or runs
  the tunnel has the lock, unless it is one of the two interfaces that start their
  manager without it.
* `Settled` (`GmSettled`), any profiles, threads and calls: `Counted` and `OneSwitch` say
  which calls exclude each other, `Captured` which manager a call holds, `UpOnly` which
  managers may be up, `Carries` and `Replacing` what the current and the next one carry.
* `HeldKeysAdmitted`, `NobodyStranded` (`ExHeldKeyAdmitted`, `ExNobodyStranded`), any devices
  and rungs: a key in an answer is the registered one (`Honest`), the token is spent with
  one registration (`SpentOnce`), the listener's lock is held by the request it is at
  (`InTouch`), and a spent token has told somebody or is about to (`SomebodyTold`).
* `PinsHold` (`PfPinHolds`), any servers, processes and imports: until two imports meet at
  the pins, one at most is there (`OnePinner`), and between its read and its write the
  file is still what it has read (`Pinner`).
* `KeysStay` (`PfKeysKept`): until imports meet at the files, one that writes them is alone
  there (`AloneAtFiles`) and overwrites its own profile or none (`OwnTarget`); a pristine
  copy lags behind its profile in the step between the two writes only (`CopiesFollow`); a
  migration moves the pristine copy first and ends where there was none (`OriginalFirst`,
  `MovesToNothing`); so a key to be kept is in a profile or in the old file
  (`KeysThere`). Which identifier an import takes is a least element, whose existence is
  that of a least natural number of a non-empty set.
* `Reachable` (`EsReachable`), any number of attempts and changes of the network: what is
  left of the ladder has its addresses outside the tunnel (`KeptOutside`), and on a
  network that has not changed the remembered answers are true (`TruthKept`), so that an
  allowlist resolved behind an engaged switch has the server's address.
* `InstallsVerified`, `ComesBack` (`UpInstallsVerified`, `UpComesBack`): until two updates
  meet, one at most is under way (`OneUpdate`), the run and its helper are at matching
  steps (`InStep`), the file that is about to be installed is the one that was verified
  (`Checked`), and a window that has quit has a helper at work that has confirmed, unless
  the one started last came to grief after it had (`BroughtBack`, `upForsaken`). `ComesBack`
  thus speaks of everything up to that confirmation, which is all the code looks at, and
  not of a helper killed later, a start that fails or a client without a `client_exe`.
* `LeavesOnline` (`UnLeavesOnline`): how far the command has come says which files are gone
  (`FilesInStep`) and which rules and links (`TakenAway`), whatever clients left behind
  before it and wherever they died.

### Only model-checked

* Liveness: `OperationsFinish`, `CallsReturn`, `AttemptsEnd`, `ServiceAnswers`
  (`RetriesAgain` and `StopHonoured`), `SmServeWhole`, `SmReloadApplied`, `SmDeathNoticed`, `PeViewHeals`,
  `PeThreadReclaimed`. Fairness needs ENABLED, which is out of the prover's reach.

## 5. Where the code does not do what it says

Six runs end in a violation; `PROJECT.json` quotes the lines.

1. `registry_stale_persist`: a list written late to `wg0.conf` puts a revoked peer
   back on the interface, although the change log says that these commands can no
   longer race.
2. `registry_lost_edit`: `complete_enrollment` saves a configuration loaded outside
   the lock; a setting saved in between is lost.
3. `registry_token_race`: the token file's lock does not reach the listener in its
   own process; a revoked client's token reappears.
4. `tunnel_overlap`: a stop that is still disconnecting forgets the wstunnel of
   the session another thread has just started.
5. `daemon_switch`: a daemon that gives up releases the kill switch on its way out,
   which its own comment says must not happen.

6. `escape_disagrees`: the kill switch resolves its allowlist from the ladder anew,
   without the addresses a public resolver gave this connection, so it may lack
   the one the tunnel had kept outside.

Observed while modelling, without a run of their own. Most are behaviours of the
models, and where one would break a property, that property names the exception
as a history variable (`smMet`, `smRevived`, `pfTrouble`, `toIntruders`, `gmTrouble`,
`chMet`, `upOverlap`, `upForsaken`, `hoMissed`, `exMishap`) or in its statement.

*Client.* A profile that has expired makes the daemon exit with 3 and be restarted
every ten seconds, which `tunnel.py:907-909` gives as what the check is there to
avoid. After a kill with the switch engaged, a stop that arrives before the
successor's first change of state leaves rules and interface, since a fresh
manager's `_set_state(DISCONNECTED)` is a no-op (`orphans` in `StopLeavesNothing`). The window's import and reconnect start its manager
beside the service's, and so do the terminal interface's retry after it was refused
the lock (`tui/screens/failed.py:85`) and its profile edit (`tui/screens/profile.py:208`),
although the lock is there so that one process at a time owns the tunnel
(`ownership.py:1`). Enabling the service from the window keeps the window's
lock, so the daemon exits with 4 and stays down (`api.py:1348`); an error in
`set_active` leaves the window without a manager (`api.py:690-697`); two quick edits
orphan one (`api.py:843`). Two imports race on the pins, and a kill while `known_servers.json` is written
empties it (`profile_trust.py:79-84`); a kill between `config.json` and its pristine
copy leaves a profile that cannot be reset. A second update of the same release
truncates the file the first has verified, and both share one flag
(`api.py:1043`). Nobody watches the update's helper once it has said that it runs: killed
while it waits or installs, or unable to start the client (which it only logs,
`api.py:1297`), it leaves the user with neither, and a client that does not run from a
package is never started again (`api.py:1172`). Uninstalling under sudo looks into root's configuration; uninstalling
releases the switch before it ends running clients (`uninstall.py:330`, `338`), which
engage it again, against the comment at 321-328, and its pattern misses
`outwarp launch`. On Windows, a WireGuard start that times out drops the marker of a
service that exists, and a failed rule after the default became Block leaves no
allow rules (`platforms/windows.py:171-192`, `333-347`).

*Server.* Setting up again over a running wstunnel keeps its old arguments and port, since
`enable --now` starts nothing that runs (`service_install.py:104`,
`platforms/linux.py:77`): setup ends with its success panel (its probe of localhost prints
a warning), and the doctor's port check fails. Setting up again on the direct branch leaves
the site of the domain branch in Caddy, which keeps 443: the new unit cannot bind it, while
`enable --now`, a start and a restart of a `Type=simple` unit all report success, and setup's
probe finds Caddy (`PortLost`). A domain setup on a port other than 443 writes a site without
a port, so nothing listens on the configured one. Exit codes are ignored where success is
reported: `systemctl enable` of an interface that is up (`platforms/linux.py:165`),
`disable --now` (87, 132, 207), `wg-quick down` (`platforms/kubernetes.py:132`), the removal
of the Windows service and the NetNat, forwarding and the firewall's rule
(`platforms/windows.py:113-115`, `262-269`, `302-311`), `sysctl -p` and `ufw allow`
(`service_install.py:36`, `57`) and Caddy's reload in an uninstall (`caddy.py:334`). An
uninstall removes the file of an interface whose `disable --now` failed, after which no
PostDown can take its rule away. Another subnet leaves the old masquerading rule, and on
Windows the old NetNat. The doctor's masquerading fix (`diagnostics.py:1083`) is a
hot reload when the interface is up, so the rule does not come back, and it installs
the peers of its caller's snapshot; its WireGuard port check fails on every healthy
systemd host; its fixes of the listeners (`systemctl start`, `diagnostics.py:890`, `927`) mend nothing
when the unit runs already on an old port, or is down and names another. An
interface deleted under an active unit is not restored by a restart. The doctor's
restart brings up an interface whose unit is not enabled, so that a later restart's
success does not outlast a reboot. Uninstalling leaves the rule of an old subnet and
forwarding on until a reboot and ignores a failing reload of Caddy. In the domain
branch a change of endpoint leaves Caddy on the old name, a change of port does not
open the firewall, and a restart does not put Caddy's front back. A server started
again after a crash keeps its old scheduler and listener; a SIGHUP during a start is
lost; a logout whose save fails is undone by a restart; an event stream outlives the
session that opened it; a login verified just before a rotation opens a session
bound to the new token (`web_server.py:292-298`, `web_auth.py:223`); the panel's
quit takes the units' interface down (`api.py:1567-1573`); a scheduler whose join
has run out may record a row beside its successor, and a legacy history adopted
twice at once may be lost (`traffic_history.py:57-71`).

## 6. What is left out, and why

* Failures of writing `server_config.json` and the token file (a full disk): an
  exception the operations do not handle; `Crash` covers where it leaves the
  files.
* The Windows variants: `LK_LOCK`'s ten retries instead of a blocking flock, an
  uninstall that may fail (this one is modelled, as the fault "teardown").
* WireGuard moving an address to the peer that claims it last: `WithPeer` takes an
  address from whoever had it, as the kernel does, so that of the two halves of
  `RoutesUnique` the one about `live` says little by itself; what can be wrong there is
  that a peer loses its route, which `SettledMatchesRegistry` looks at for one process. The half about
  `wg0.conf`, built from older lists, is the one that is at stake.
* The backfill of SPKI pins: like the signing key's, which is modelled.
* A kill between a redemption and the registration strands the reservation: the
  code has no recovery but revoking it (`exMishap` in `EnrolExchange`).
* A failing engage or release of the kill switch leaves the rules as they were (the faults
  "engage", "release"); the Linux helper removes its table before it loads the new one, so
  that a load which fails there leaves none. `ServiceAnswers` is checked with the faults of
  `client_parts.cfg`, which has no expired profile and no missing or blocked wstunnel.
* Of the host: `systemctl daemon-reload` failing after a file has been written, a
  crash-looping wstunnel that binds once Caddy lets its port go (it stays down until the
  next start), programs other than Caddy and wstunnel on the ports.
* wstunnel surviving terminate and kill; an interface vanishing while a rung is
  being dialled (a rung that fails); listeners' and phase payloads.
* The kill switch setting switched while a tunnel runs.
* The handshake monitor (`handshake_monitor.py`): rules over the parsed output of
  `wg show`, one thread and no shared state but its own snapshot. `refresh_config`
  when the file cannot be loaded.
* Two schedulers at once and a clock that goes back, which `TrafficHistory` excludes;
  rates (`peak_bps`, `avg_bps`), a division of what it has.
* `SelfUpdate` takes minisign as a yes or no; `integrity.py` is a comparison of hashes.
* The global limiter of enrolments: with one token the limiter per token, which allows
  less, always acts first.
* Diagnostics of the client, tray, notifications, the JavaScript interfaces,
  parsing, certificates and profile generation, presentation, installers and
  packaging: sequential I/O, rendering or cryptography, without a state of their
  own that another actor could meet.

## 7. Plan

What the first plan named is modelled. Left, in this order:

1. `HandshakeMonitor`, with its first poll, composed with `ServerManager`'s restarts;
   a second scheduler in `TrafficHistory`.
2. Larger instances of single parts (a second rung provisioned, two peers, a second
   browser), as runs of their own where a case needs them.
