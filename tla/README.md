# HPXNODE in TLA+

HPXNODE is the agent a panel drives over gRPC or REST to run VPN and proxy
cores on one host: it starts and stops them, keeps their users in step with
the panel, limits devices and speed, and reports traffic. The modules here are
specifications of its core logic, written from the Go source under `src/`. TLC
checks them on small instances, and TLAPS proves the theorems of the
`...Proofs` modules for every value of the constants.

`PROJECT.json` says for every definition which lines of the source it stands
for, which runs there are, which mutation of the code breaks each property,
and which hazards of the code the properties are for.

## 1. Inventory

| Component (source) | State | Operations | Shared with, called by | Hard part | What makes it correct |
|---|---|---|---|---|---|
| Node controller (`controller/`, `controller/rpc`, `controller/rest`) | `backends`, `clientIP`, `cancelFunc`, `lastRequest`, `shaper` under `c.mu` | Start, Stop, Connect, Disconnect, StartBackend, keepAliveTracker, refreshShaping | one goroutine per request, one tracker and one recorder per client | the lock is released between steps that belong together; Shutdown of a core takes seconds | no core is lost or left running, a client in control is attended, silence disconnects |
| WireGuard core (`backend/wireguard`) | `PeerStore` (two maps), the kernel's peers, `userLimits`, `kicked`, `overStrikes` | full and partial sync, restart, shutdown, enforceIpLimits | requests hold `syncMu`; the poll loop does not | kernel and store change one after the other and either may fail; kicks live in one of the two only | the store is one to one, the kernel has what the store has, kicked users stay out and come back |
| Xray process (`backend/xray/core.go`, `xray.go`, `jobs.go`) | process, `restarting`, failure count, `x.mu` | Start, Stop, Restart, Shutdown, checkXrayHealth | health goroutine, requests and the owner | a restart that waits while the backend is shut down; a process that dies at any time | acknowledged users are served, a crash heals, Shutdown ends and is final |
| Xray users (`backend/xray/user.go`, `iplimit.go`, `config.go`) | clients per inbound, users in the process, `userByEmail`, `kicked` | SyncUser, SyncUsers, UpdateUsers, UpdateUsersAndRestart, enforceIpLimitsOnce | process API, restarts, sidecar | three copies of the user set, changed through calls that fail one by one | configuration is what was asked, process has what the configuration has |
| Shared charon (`backend/ipsec`) with IKEv2 and L2TP (`backend/ikev2`, `backend/l2tp`) | `refs`, process, fragments in `conf.d`; per backend `state`, `shutdownOnce` | Acquire, Release, LoadAll; New, Restart, Shutdown, watchAutoCert | two backends and a certificate watcher without a common lock | counting over failed starts, restarts and a daemon that dies | the count is the number of holders, a running backend is served, a dropped one is stopped |
| Speed limiter (`backend/ratelimit`) | `marks`, `freed`, `nextMark`, `applied`, `ifaceSet`; tc trees, nft chain | Apply, Close | the controller's recorder | every command may fail half way; interfaces come and go | marks are exclusive, a successful Apply installed what it was given, nothing is left behind |
| Traffic accounting (`pkg/stats/tracker.go`) | per key: current, base, last report, deleted | UpdateStatsBatch, RemoveStats, GetStats, CleanupDeletedEntries | poll loop, requests, pulls | counters restart, samples are applied late | nobody is charged twice, nothing pending is lost |
| Interface counters (`pkg/stats/interface_counters.go`) | a baseline per direction | Delta | stats of all backends | roll back of one direction | growth is reported once |
| Device limit across backends (`backend/devicelimit.go`) | none (reads counts, orders `KeepDevices`) | EnforceGlobalDeviceLimits | controller, every ten seconds | counts are stale when the budget is shared out | at most the limit stays, lower ranks give way first |
| Composite (`backend/composite.go`) | list of backends | every Backend method, on each in turn | requests without an instance | one of several fails | an error reaches the caller, the others are served |
| Chunked lists (`controller/users_chunk.go`, `rpc/user.go`) | chunks by index | SyncUsersChunked | streams | chunks missing or repeated | all chunks in order or an error |
| OpenVPN (`backend/openvpn`) | users, live sessions, `sessionSeen`, `cnCumulative`, management client | connect, release, kill, user syncs, Restart, collectStats | management goroutine, stats loop, enforcer | client ids begin again at a restart; the client is replaced without a lock | no more sessions than the limit, growth counted once |
| IKEv2, L2TP and PPTP users and sessions (`backend/ikev2`, `backend/l2tp`, `backend/pptp`) | user tables, swanctl secrets and chap-secrets, SAs and ppp interfaces, `sessionSeen`, `counted` | the four user requests, terminateRevoked, collectStats, enforceLimits, KeepDevices | charon and pppd, poll loops, the composite, the pass over all backends | access is a table, a file and live sessions, changed one after the other; interface names are used again | a revoked user is out, an answer of success is true on every backend, nothing is counted twice |
| OpenConnect, SSTP, SSH, PPTP, MTProto, GRE and the sing-box sidecar of Xray | user table, what was written from it, process, `waitDone`, `shutdownOnce` | SyncUser(s), UpdateUsers(AndRestart), Restart, Shutdown, the goroutine that waits for the process | requests, which take no common lock; for the sidecar Xray's requests and restarts | a wait channel replaced while goroutines of older processes still close it; writes and tools that fail | one process, with the users set last; no double close; a restart ends |
| AmneziaWG, wg-c, egress, hostroute, config, logger, sysstats, tlsutil, netutil, fsutil, `cmd/` , `common/` | read once or none | | | | not modelled (see 7) |

How they interact: a panel request passes the middleware, which asks the
controller for a backend; handlers call that backend without holding `c.mu`.
Each backend has goroutines of its own (health check, poll loop, enforcer,
certificate watcher) that end when its context is cancelled by Shutdown. The
controller's recorder gathers the clients of all backends with a speed limit
and hands them to one `ratelimit.Manager`. IKEv2 and L2TP share one charon.
Xray drives a sing-box sidecar for the inbounds Xray lacks.

## 2. Modules

The grain of atomicity is the same in all modules: one action is one stretch
of code between two points where another goroutine can get in (a lock
released, a channel waited on, a process or kernel call whose outcome
matters). Calls that can fail have a disjunct, or an action, for each outcome.

**Controller.tla.** `backends`, `clientIP`, `cancelFunc`, `idle`
(`time.Since(lastRequest)`) and `shaper` are the controller's fields; `cores`
is the set of cores that run, `applied` what the shaper has installed. A
request is used once, so the core it launches and the context it connects with
carry its name. `pc` places each handler, tracker and recorder; `held` is the
local variable that carries instances across an unlock. Start is `Retire`,
`ShutdownOld`, `Launch`, `Insert`, `Connect`, preceded by the four steps of
Disconnect when another client is in control.

**WireGuard.tla.** `peers` and `emailToKey` are PeerStore, `kernel` the
interface, `userLimits`, `kicked` and `strikes` the limiter. `sync` walks a
request through rememberLimits, the diff, the kernel call and each single
change of ApplyChanges; `enf` walks a poll through its snapshot and its kicks
and re-admissions.

**XrayCore.tla** has the process, `x.mu`, the health check, a request that
restarts, and Shutdown. A configuration is the number of changes made so far.
**XrayUsers.tla** has what those processes serve: `clients` per inbound in the
configuration, `live` in the process, `proc` (booting, up or dead), `known` and
`kicked` in the limiter, and `wanted` and `failed`, the history of what the
panel asked and was refused. A restart takes `clients` at its start, also while
users are kicked; a process that boots is given up by the status wait when its
context is cancelled, and comes up all the same. API calls change `live` one
inbound at a time; each may fail, and the error of RemoveInboundUser is
dropped. The history `astray` has the users that the process serves because a
removal failed or a restart read them back.

**Charon.tla** has the daemon (`refs`, `process`, `alive`, `loaded`), the
fragments and, per backend, the owner's thread and the watcher's. The history
variable `holds` is who acquired and did not release, `calm` that no Restart
has failed and charon has not died.

**SharedDaemon.tla** is what charon.go promises its users: who holds the
daemon and whether it runs, nothing of counts, fragments or threads.
`Charon!SD` instantiates it with `holders <- holds`, `up <- alive` and
`sound <- calm`.

**RateLimit.tla** has the allocator and what is installed: `tree` per
interface, `rules` in nft. `Apply` is a sequence of steps over the departures
and the wanted clients, each of which may fail.

**StatsTracker.tla** has the kernel's counters, the tracker's entries, the
samples of a poll under way, and two histories, `carried` (traffic that really
passed) and `billed` (what GetStats with reset reported).

**ProcessBackend.tla** is one backend of one of seven packages, which
`kind` names: they repeat one life cycle and differ in what they keep of a
user (`store`), where the server finds it (`file`, `accounts`, `serves`,
`link`) and what guards Shutdown. `failed` is that a call returned an error;
what fails without one (useradd and chpasswd of SSH, `ip link del` of GRE) does
so in the model too, and `missed` remembers whose account was not made. A caller's request is a table change, a
write, and for some a restart: `stop`, the wait, `renew` (the new Once and
channel), `start`. Each process has a goroutine whose `Exit` closes the
`waitDone` of that moment; a second close sets `panicked`.

**OpenVPN.tla** has the `userStore` (`users`, `sessions`), the management
connection as two queues (`events` from the server, `cmds` to it), the server
with its clients (external), the reader between a decision and its command,
the statistics loop, and one request at a time as the sequence `todo` of its
calls. `carried` is what the clients of a name really carried; `mixed` says
that a server started while sessions of the one before were still counted.

**UserLists.tla** has the pure part of user lists: BuildUsersFromChunks and
what applyUser and replaceAll make of a table. **Sessions.tla** composes it
with the node: a request goes to every backend in turn as the composite does
it (`req`, `reply`), each backend changes table, secrets and live sessions one
after the other, a poll lists the sessions, reads counters and enforces the
limit of the backend in separate steps (`poll`), and the pass over all
backends reads one backend's count per step, shares the limit out and ends
what is over (`pass`). A pull goes from backend to backend, reads the total
under one lock and calls Delta under another (`pulls`); pulls may overlap, and
with polls in between a sample is stale when it is applied. charon rekeys: an
IKE SA gets a new number and keeps the counters of its children, a child's
counters start again. The histories serve the properties: `carried` is what the
sessions of a user carried at each backend, `again` what a rekey leaves to be
seen a second time, `rebased` by how much stale samples moved a baseline back,
and `moved`, `shed` and `lapsed` who left, who was ended and whether a
revocation missed something.

The `MC...` modules give small instances and symmetry sets, the `...Proofs`
modules the theorems. Three of those have the theorems of two models:
ControllerProofs also of RateLimit, WireGuardProofs also of StatsTracker,
XrayUsersProofs also of XrayCore. **DataProofs.tla** has the lemmas about sums,
folds and sequences that OpenVPNProofs and SessionsProofs rest on.

## 3. Runs

Bounds are constants named in the modules; where several things are bounded
only together, `Budgets` is a set of mixtures and a behaviour has one of them.
A deadlock check is switched off where the system or the bound stops it: the
Controller uses each request once, a WireGuard, Xray, OpenVPN or process
backend may be shut down for good, and a behaviour of OpenVPN or Sessions may
use up its budget. Deadlock is checked in `charon_shared`, `ratelimit_apply`,
`xusers` and `stats_tracker`, which never stop.

| Run | Bound and why it is enough | Shows |
|---|---|---|
| `controller_serial` | 4 requests one at a time, 2 panels, 3 keys of which one is disabled and one limited: start, replace, takeover and stop can follow each other | `NoOrphanCore`, `OwnedAndAttended`, `SameClientAdds` hold for a panel that waits for its answers |
| `controller_live` | 2 requests of a panel that may overlap, with and without keep-alive: every pair of handler and tracker steps meets | `DeadCoreIsLeaving`, `ClientIsAttended` under any interleaving (proved for any number of requests and panels); `TakenGoesDown`, `SilenceDisconnects` |
| `wireguard` | 2 users, 3 keys, 2 addresses, one user over its limit, two strikes: keys and addresses change hands, a key is free for a rotation, and every request meets a kicked user; kernel calls fail | `OneToOne`, `KernelMatchesStore`, `UntouchedKeepTheirPeer`; `KickedReturns` |
| `ratelimit_apply` | 3 clients, 2 marks: the range is full and marks come back; 2 limits, a tunnel that comes and goes, every command may fail | `MarksAreExclusive`, `AppliedIsInstalled` |
| `charon_shared` | 3 backends, one renewing: a third can be starting while two share; restarts fail and the daemon dies | `RefsAreHolders`, `CharonServes` until one of those happens; `NotLeaked`, `DroppedIsStopped`, `ImplementsSharedDaemon` always |
| `charon_failed_restart` | 2 backends | refutes `LastReleaseStops` (section 6) |
| `xray_core` | `maxFailures` is 10 as in the code (`jobs.go:83`), 4 changes | `AckedIsServed`; `HealsItself`, `ShutdownEnds` |
| `xusers` | a user on 2 inbounds, so that a call can fail half way; kicks, additions and removals that fail, status waits that give up, crashes and health restarts at any step | `LiveIsConfigured`, `KickedStaysOut` except for who is `astray`, `ConfigIsAsked`; `KicksEnd` |
| `process_backends` | each of the 7 packages, one caller, lists that add, change and remove users, tools that fail for some users, 3 restarts: a process of before the last one can still be ending | `NoPanic`, `ServesUsers`; `RestartEnds` |
| `openvpn` | 2 names, one with a pinned serial, lists that remove, lower a limit or drop it; five mixtures of up to 3 logins, 2 lists, a restart, a crash, a stop, 2 polls and 3 units of traffic | `RemovedAreGone`, `WithinLimit`, `NeverOverbilled` |
| `sessions` | IKEv2 with L2TP and IKEv2 with PPTP, 2 users, 2 addresses; single users, full lists, streams that are whole, out of order, unfinished or with a hole; nine mixtures of up to 2 requests, 3 logins, failing calls, rekeys, traffic, 2 pulls and devices that leave | `AckedIsApplied`, `RevokedStaysOut`, `NeverOverbilled`, `NotUndercut`; `Converges` |
| `stats_tracker` | one key (keys are independent), counters to 2, added 3 times | `NeverOverbilled`, `Exact`, `PendingKept` |

The type invariants `TypeOK` of Controller and Charon are proved, that of
XrayCore is a part of the invariant proved there; those of WireGuard,
RateLimit, StatsTracker and XrayUsers hold with the configurations of their
runs and were checked apart from them, so that a run asks only what a reader
would argue about.

A passing run may state a condition (one request at a time, no overlap of a
poll with a sync, one caller): section 6 says what happens without it.

## 4. Fairness

Only runs with a liveness property use `FairSpec`; the fairness of a module is
its definition `Fairness`.

- Controller: weak fairness for every goroutine (the Go scheduler) and for the
  clock; strong fairness for leaving a loop whose context is cancelled, because
  `select` picks among ready cases at random. Requests need not arrive.
- WireGuard: weak fairness of the request that holds `syncMu`; strong for the
  poll, which Go's mutexes let in eventually, and for a re-admission that is
  tried again and again (`Readmit`): the kernel does not refuse it for ever.
  Cooldowns run out.
- XrayCore: strong fairness for taking `x.mu` (`sync.Mutex` goes into
  starvation mode after a millisecond) and for a start by the health check to
  succeed if it is tried again and again. Without the last one xray may be
  unable to start for ever, which no code of the node can help.
- XrayUsers: tickers and threads go on, an enforcement pass gets its turn
  between requests (strong fairness), a process that boots comes up, a dead one
  is restarted, and from some moment on the calls of a re-admission are answered
  and xray no longer dies or is restarted alive (a refused re-admission is tried
  again at the next tick, `iplimit.go:84`, so a process that refuses each time,
  or one that keeps a user whom a removal could not take off, keeps the kick).
  The calls of the panel's requests and of kicks may fail for ever.
- ProcessBackend: callers go on and a killed process ends. Processes need not
  end otherwise.
- Sessions: a request goes on, the tickers of polls and of the pass fire while
  the budget has loops, and pppd and charon end what they were told to end.
  Clients need not do anything. `Converges` is stated for behaviours whose
  loops go on (`PassTicks`).
- OpenVPN has no liveness property.

## 5. Proofs

| Theorem | Statement | Assumptions | Argument |
|---|---|---|---|
| `ControllerProofs!TypesHold` | `Spec => []TypeOK` | `ControllerAssumption` | `TypeInv`: types, that a handler inside Start serves a Start, and that background goroutines exist only after their Connect |
| `ControllerProofs!RegisteredCoresRun` | `Spec => []DeadCoreIsLeaving` | the same | `CoreInv`. A core leaves `cores` in two places, both through a local variable. So the locals must never name a core that is about to be registered (`UnregisteredRuns`, `DisconnectHolds`) nor, in a Start, one that still is (`RetiringHolds`), which needs that a core is filed under one key (`FiledByKey`) |
| `ControllerProofs!ClientsAreAttended` | `Spec => []ClientIsAttended` | the same | the property is inductive with `TypeInv` |
| `ControllerProofs!NoCoreOrphaned`, `CoresAreOwned` | `Serial => (Spec => []NoOrphanCore)`, the same of `OwnedAndAttended` | the same; `Serial`: `Concurrency = 1 /\ KeepAlive = {0}`, a panel that waits for each answer and asks for no keep-alive. Section 6 shows that each of the two is needed | `SerialInv`. The handler at work is alone (`OneAtATime`, from the cardinality in the guard of Arrive), so only it holds cores (`InItsHands`), a Disconnect gets hold of all that run (`Emptying`), what a check found is there when it is used (`StillThere`), and a Start either adds to its own client's cores or has an empty map (`AddsOrTakesOver`), which keeps the cores one client's (`Owned`). `CoresAreOwned` takes the rest from the two theorems above, which hold for any panel. `Moves` and `Arrives` say what of the invariant a handler's step has to re-establish |
| `WireGuardProofs!StoreIsOneToOne` | `Spec => []OneToOne` | `WireGuardAssumption` | `StoreInv`: the store and the pending batch are typed and the maps are inverse. The rebuild of a full sync rests on `TargetByUser` and `Inverse`; a single removal or upsert is `StoreChange` |
| `WireGuardProofs!KernelFollowsStore`, `OthersKeepTheirPeer` | `~Overlap /\ ~Resync => (Spec => []KernelMatchesStore)`, the same of the action property `UntouchedKeepTheirPeer` | `WireGuardAssumption`; `~Overlap`: the enforcer and a sync do not overlap; `~Resync`: no list for some users names a kicked one. Section 6 shows that both are needed | `KernelInv` on top of `StoreInv`. Within a sync the kernel is ahead of the store: it has the peers of the store as it will be (`Future`, `Ahead`). A key the batch takes from a user goes to another upsert or to the removals (`Leaves`, `OneKey`), no address is given out twice (`OneAddress`, `Fair`), so that cryptokey routing takes nothing from anybody else, and all of it concerns users the list names (`Names`). Sync and enforcer do not meet (`Apart`), so the peer the enforcer has looked up is still the stored one when it tells the kernel (`Working`) |
| `ControllerProofs!MarksExclusive` | `Spec => []MarksAreExclusive` | `RateLimitAssumption` | `IInv`: assigned marks are distinct (`Own`), freed ones distinct and unassigned (`Free`), all below `nextMark` (`Below`), and whoever is dropped has a mark (`Marked`, `Leaving`) |
| `ControllerProofs!AppliedInstalled` | `Spec => []AppliedIsInstalled` | the same | `InstInv` on top of `IInv`: of the clients an Apply without error has passed, each has the class of its mark on every interface that has the tree (`Classes`), and then its rule (`Rules`); what comes after is for another client, whose mark is another one (`IInv`), and leaves both alone. Whoever has a mark is a client or on its way out (`Passing`) |
| `CharonProofs!TypesHold` | `Spec => []TypeOK` | `CharonAssumption` | inductive |
| `CharonProofs!ReferencesAreCounted`, `RunningIsServed` | `~Overlap => (Spec => []RefsAreHolders)`, the same of `CharonServes`. Both properties speak of behaviours until a Restart fails or charon dies (the history variable `calm`) | `CharonAssumption`; `~Overlap`: no Shutdown overlaps a renewal. Section 6 shows that both conditions are needed | `IInv`: who holds a reference follows from where its threads are (`HoldsByControl`), one thread of a backend at a time (`Alone`), `refs = Cardinality(holds)` (`Counted`), the daemon lives while it is positive |
| `CharonProofs!DaemonIsNotLeaked` | `~Overlap => (Spec => []NotLeaked)`, whatever has failed | `CharonAssumption`, `~Overlap` | `Survives`, what is left of `IInv` after a failed Restart: a reference is held only where a thread will give it back (`HoldsWithin`); a release too many makes the count too small, never too large, and charon lives only while it is positive (`Undercounts`); where threads are and what they know (`Alone`, `KnowsStill`, `RestsStill`) |
| `CharonProofs!CharonIsSharedDaemon` | `~Overlap => (Spec => ImplementsSharedDaemon)` | the same | Under `IInv` and `Survives` a step that acquires is `Acquire`, one that releases is `Release`, a failing Restart and a dying charon are `Break`, all others stutter |
| `XrayUsersProofs!AcknowledgedIsServed` | `Spec => []AckedIsServed` | `XrayCoreAssumption` | `Ordered`: `acked <= runs <= config`, and a request waiting for its status asked for no more than runs |
| `XrayUsersProofs!ConfigurationIsAsked` | `Serial => (Spec => []ConfigIsAsked)` | `XrayUsersAssumption`; `Serial`: a request and an enforcement pass do not overlap | `IInv`. The property speaks of idle states only, so it says nothing of the steps in between. `ConfigMatches` does: of a user the request is about the configuration is right on every inbound the request has been at, of the others everywhere. It is kept because what the limiter remembers, has in its snapshot and re-admits a user with is what the panel wants (`KnownIsWanted`, `SeenIsWanted`, `ReadmitsWanted`) |
| `XrayUsersProofs!ProcessIsConfigured`, `CoolingIsOut` | `Serial => (Spec => []LiveIsConfigured)`, the same of `KickedStaysOut`, over crashes, health restarts, dropped errors and status waits that were given up. Who is served though he should not be is `astray`: his removal failed, or a restart read him back | the same, and that `None` is neither a user nor a state of a kick | `LiveInv` on top of `IInv`: of everyone but the users an operation under way is about, the process serves what the configuration says or the user is `astray` (`Serves`, `Accounted`, `Busy`); of those, on every inbound where it is done with them (`Brings`, `Undone`). A restart gives the process the configuration, and a user being kicked is off every inbound the kick has been at, or astray there (`Process`). What an operation is about to do is about its users (`Job`), and the enforcer re-admits only whom it has cooled (`Kicks`) |
| `ProcessBackendProofs!TableIsServed` | `OneCaller => (Spec => []ServesUsers)`, for each of the seven packages; of an SSH user in `missed` it says nothing | `ProcessAssumption`; `OneCaller`: `~Slow`, and `Caller` has at most one member. Section 6 shows that both are needed | `ProcessInv`. At most the process `o.process` names runs, and the channel it will close is open (`OneProcess`); between the end of a Shutdown and a start nothing runs, and the next channel is new (`NothingRuns`); whoever waits is the one in the Once (`Waits`); after the owner's Shutdown only Shutdown is called (`Dropped`); and what a caller writes is still the table (`WritesTable`), so that file, accounts or the process agree with it afterwards (`Agrees`) |
| `WireGuardProofs!NobodyIsOverbilled`, `OnceAddedIsExact`, `PendingIsKept` | `Atomic => (Spec => []NeverOverbilled)`, the same of `Exact` and `PendingKept` | `StatsTrackerAssumption`; `Atomic`: no removal between the reading and the applying of a poll | `IInv`, for each key: no poll has applied the counter since the peer was added, and then what was paid before plus the whole counter is within what was carried (`Fresh`), or the peer is paid up to its last sample (`Seen`); a sample is of the peer that is there (`Current`); what a removal puts aside is what is pending (`Aside`, `Covered`) |
| `OpenVPNProofs!RemovedUsersAreGone` | `Spec => []RemovedAreGone` | `OpenVPNAssumption` | `Admissions`. A client is good (`Good`) while it is connected or about to be admitted and no command, call or event under way ends it. Good clients are in the table (`Known`): the steps that take a user out of it leave the kill of all its clients behind, also of one whose admission is decided and not yet written. That needs that without a connection nothing is on its way to the server (`Wires`) and that what is on the wire is about clients of this server (`Fits`) |
| `OpenVPNProofs!NamesAreWithinTheirLimit` | `Spec => []WithinLimit`, a property of behaviours until a server starts while sessions of the last one are still counted (the history variable `mixed`) | the same | `Counting` on top of `Admissions`: every good client is counted in `sessions` (`Held`), a counted client was let in (`Shown`), a stopped server leaves nothing behind (`Quiet`), so a name whose limit is not about to be enforced is within it (`Limited`) |
| `OpenVPNProofs!NobodyIsOverbilled` | `Spec => []NeverOverbilled` | the same | `Chain` and `Ledger`. Statuses are read late and out of a queue, so the invariant speaks of all of them: a client's row never falls from one to the next, and no status in between lacks it (`Chain`). The ledger is a set of accounts, of live clients and of those that only a status still names, with what can still be charged for each; charged and due together were carried. |
| `SessionsProofs!RevokedUsersStayOut` | `Spec => []RevokedStaysOut`, until a call of a revocation fails, an SA that it has listed is renumbered, or a restart leaves charon running (the history variable `lapsed`) | `SessionsAssumption` | `Access` (types, and that a ppp interface is always free) and `Revoking`: while a request revokes, who may still have a secret or an SA, step by step. Before the secrets are unloaded it is the table and the removed; after, nobody new can come in, and the SAs of the removed are still to be listed, then are on the list of victims. That `removed` names everyone the table lost (`RemovedIsReported`) is an induction over the list |
| `SessionsProofs!NobodyIsOverbilled` | `OnePpp => (Spec => []NeverOverbilled)`: per user for IKEv2, per backend for PPP, beyond what a rekey shows `again` and what stale samples of pulls have `rebased` | the same; `OnePpp`: no node has both PPP backends. Section 6 shows that it is needed | `Ledger`, per backend and for those billed together (`Whose`: one user of IKEv2, all users of a PPP backend): what was counted, what is listed and not counted yet, and what the live sessions have grown by since the marks they will be measured from (`Due`, `Mark`) was carried there or is shown again (`Allowed`). `Mark` is where the backends differ: IKEv2 lists counters and bills those, PPP lists interfaces and reads counters later, by when an interface may be another session's. A session is one of a backend that lists it (`Homed`). `Pulled`: a sample under way is at most the total, which only grows, and what was reported is at most the baseline and what it was moved back by |
| `SessionsProofs!WhatIsAckedIsApplied` | `PanelLists => (Spec => []AckedIsApplied)` | the same; `PanelLists`: a user's name is its e-mail (`ikev2/users.go:10` "keyed by username = user id", `:44` "email = user id") and a list names a user once. The instance of the run satisfies it; section 6 says what happens to names that are not e-mails | `Applying`: the place of the request in the list it was given (`Placed`), and for every backend which of the users up to there are in its table (`Entered`) and in what it accepts (`Opened`). `TakenHas` and `TakenLeaves` say what a list makes of a table; `Revoking` supplies that the removed lose their secrets |

The theorems hold for any number of requests, users, keys, backends or
clients. The inductive invariants are stated in the `...Proofs` modules and can
be checked by TLC on the instance of the run of their module, but for the
ledgers of OpenVPN and Sessions: one says that accounts exist, the other sums
with the recursive function of DataProofs, which is out of TLC's reach.

The library's induction theorems take an operator, which the prover cannot
instantiate. DataProofs therefore has them for sets: a set of numbers with 0
and the successor of each is Nat (`NatSetInduction`), and a property of finite
subsets, given as a set of sets, holds of all (`FiniteInduction`). From those
follow that the recursive functions behind `SumFunction`, `FoldLeft`,
`FlattenSeq` and `SetToSeq` exist and what they compute (`SumPlus`, `SumLeq`,
`SumParts`, and in SessionsProofs `TakenIs` and `TakenNext`).

Only model-checked:

- `Sessions!NotUndercut`. It does not hold for every value of the constants:
  with L2TP and PPTP on one node each hook records the other's sessions
  (section 6). A proof would have to exclude that node and follow the
  stale counts of the pass through every poll;
- `Controller!SameClientAdds`, `Charon!DroppedIsStopped` and
  `ProcessBackend!NoPanic`. The conditions a proof would need (one request at a
  time, no Shutdown during a renewal, one caller) exclude the interleavings of
  section 6 that break them, and leave little to prove; the runs show that the
  sequential code keeps them;
- all liveness properties: the prover handles neither fairness nor ENABLED
  here.

## 6. What the code does not keep

Some properties one would expect do not hold. Each is a definition of its
module; giving the run of that module the constants of the table (the others
stay small: one or two of everything) and the property makes TLC print the
steps. Where the property is checked by a run, that run has the condition that
excludes the case. `charon_failed_restart` is kept as a run of its own.

| Property | Constants | What the code does |
|---|---|---|
| `Controller!OneCorePerKey` | `Concurrency = 2`, starts of one key | StartBackend takes the old core out under one lock and inserts the new one under another (`controller.go:391`): of two overlapping Starts of an instance both launch, and the second insert overwrites the first, which keeps running |
| `Controller!SameClientAdds` | `Concurrency = 2`, two keys | Start compares the caller with `s.Ip()` before the first Start has reached Connect (`rpc/base.go:34`): a second Start of the same panel sees a core and no address, and disconnects |
| `Controller!FormerClientIsGone` | 3 starts, 2 clients, `KeepAlive = {0, 1}` | Connect overwrites `cancelFunc` without calling it (`controller.go:105`): after a replacement that failed the map is empty, another client's Start skips Disconnect and the former client's tracker lives on |
| `Controller!NoStaleShaping` | `LimitedKey = {k}`, start and stop | refreshShaping applies with a shaper it read before a Disconnect closed it (`shaper.go:51`) |
| `Controller!NoOrphanCore` | `KeepAlive = {1}`, two keys | the tracker's Disconnect replaces the map after a Start inserted into it (`controller.go:134`) |
| `Controller!NoPanic` | `Concurrency = 2`, start, stop and call | handlers ask for the backend again after the middleware's check, and it may be nil then (`rpc/user.go:38`) |
| `WireGuard!KernelMatchesStore` | `Resync = TRUE` | rememberLimits forgets the kick of every user a list names, the diff against the store finds nothing to add (`iplimit.go:51`): the peer never comes back. The same happens when a list hands a kicked user's key and address to another user |
| `WireGuard!KernelMatchesStore` | `Overlap = TRUE` | the enforcer adds the peer it looked up without `syncMu` (`iplimit.go:174`), after a sync removed it |
| `WireGuard!KickedStaysOut` | `Op = {"full"}`, 2 users | a full sync that changes anything sends all peers with ReplacePeers, the kicked ones too (`user_full_sync.go:38`) |
| `WireGuard!LimitsCover` | `Op = {"partialRestart"}`, 2 users | UpdateUsersAndRestart passes a partial list with `replace=true` (`user.go:48`): everyone else's limits are forgotten |
| `RateLimit!EveryClientIsCapped` | `Ipv6 = {v6}` | syncMarks stops at the first rule nft refuses, and an IPv6 address in an `ip daddr` rule is one (`nft.go:52`): the clients behind it stay uncapped |
| `RateLimit!NothingLeftBehind` | `MayFail = FALSE` | Apply forgets a tunnel that is down (`ratelimit.go:205`); up again it still has its tree |
| `Charon!LastReleaseStops` | run `charon_failed_restart` | a Restart that fails has released; the next Shutdown or Restart releases again, a reference of another backend (`ikev2.go:187`, `l2tp.go:195`) |
| `Charon!AcquireEnsures` | any | acquire returns at once when `refs > 0`, also when charon has died (`charon.go:86`) |
| `Charon!DroppedIsStopped` | `Overlap = TRUE` | the certificate watcher's Restart does not look at its context again (`autocert.go:352`) and revives a backend that was shut down |
| `XrayCore!StaysDown` | `Health = TRUE` or `Requests = TRUE` | a cancelled probe counts as a failure (`jobs.go:115`), a request waits for `x.mu` (`user.go:194`): either starts xray after Shutdown |
| `XrayUsers!ConfigIsAsked` | `Serial = FALSE` | the enforcer re-admits with the user object of its snapshot (`iplimit.go:83`) over a newer request |
| `XrayUsers!KickedStaysOut` | without `<<i, u>> \in astray` | a kick does not change the configuration (`iplimit.go:121`): a restart ends the cooldown. The error of the removal is dropped in the same line: the user may never have been disconnected |
| `XrayUsers!LiveIsConfigured` | without `<<i, u>> \in astray` | the error of RemoveInboundUser is dropped (`user.go:170`, `:220`, `:224`): a user whose removal failed, or was asked of a process that boots, is served while the panel is told of success. A restart between the removal and the change of the configuration in SyncUser does the same |
| `ProcessBackend!ServesUsers` | 2 callers | Restart replaces channel, Once and process without a lock (`singbox.go:216`, and the same in the other packages): two processes, one of them known to nobody |
| `ProcessBackend!NoPanic` | `Slow = TRUE`, or 2 callers | the goroutine of an old process closes `o.waitDone` as it is when the process ends (`sshvpn.go:266`): after a Shutdown that stopped waiting and a Restart it closes the channel of the next one, whose own goroutine closes it again |
| `ProcessBackend!RemovedHasNoAccount` | any | syncSystemUsers adds accounts and changes passwords (`sshvpn.go:209`); nothing removes the account of a user the list has lost |
| `ProcessBackend!TunnelIsDeleted` | any | the error of `ip link del` is dropped (`gre.go:177`): the tunnel may outlive the owner's Shutdown |
| `OpenVPN!WithinLimit` | without its condition `~mixed` | the sessions of a server stay counted until its connection has been read to the end (`users.go:34`, `mgmt.go:191`); the ids of the next server begin at 0 again and meet them, and one client's end uncounts another |
| `Sessions!NotUndercut` | `Nodes = {{"l2tp", "pptp"}}` | the hooks of L2TP and PPTP record each other's sessions (`l2tp/serverconf.go:59`, `pptp/serverconf.go:47`): the one device of a user is counted by both backends, and the shared limit ends it |
| `Sessions!NeverOverbilled` | `Nodes = {{"l2tp", "pptp"}}` | for the same reason each of the two backends counts what the sessions of both carry |
| `Sessions!RekeyedOnce` | one login, one byte, one rekey, one loop | after a rekey the SA has a new number and the counters of before; `saSeen` knows SAs by number, and the counters are billed from 0 (`ikev2/stats.go:48`) |
| `Sessions!PulledOnce` | `Nodes = {{"ikev2"}}`, one byte, 4 pulls | GetStats unlocks between reading the total and Delta (`ikev2/stats.go:153`, `l2tp/stats.go:138`, `pptp/stats.go:129`): an older total that comes last is taken for a reset of the counters, and the next pull reports the difference again |
| `Sessions!RevokedStaysOut` | without `~lapsed` | revokeUsers goes by the list of SAs (`ikev2.go:290`): one that charon renumbers before it is terminated stays, as does one whose call fails |
| `StatsTracker!NeverOverbilled` | `Atomic = FALSE` | a sample read before a removal and applied after the pull is charged again (`wireguard/jobs.go:100`) |

Other behaviours of the code the models have, and the properties allow for:

- Partial lists. UpdateUsersAndRestart of WireGuard and Xray takes the list for
  the limits of everyone (`wireguard/user.go:48`, `xray/user.go:249`); UpdateUsers
  of OpenConnect, SSTP, SSH, MTProto and GRE replaces the table by it. A chunked
  list of more than 100 users becomes an UpdateUsersAndRestart
  (`rpc/user.go:75`). Chunks above the one marked last are dropped silently.
- Keys. A user that a list takes off an inbound is deleted by e-mail, while
  tables are keyed by the user name of the credentials: one whose name is not
  the e-mail stays (the instances have names that are e-mails).
- SSH accounts are added to the system and never removed. MTProto answers
  success without a restart when the secret of a restart that failed is sent
  again. A process that crashes, or that a failed restart left down, is noticed
  by nobody in these packages. The sidecar's goroutine may clear `running` after
  a restart has set it.
- OpenVPN. SyncUsers with a new serial leaves the sessions of the old one; a full
  list drops the passwords it does not carry; a client id used again underbills
  (never overbills); UpdateUsersAndRestart with a lower limit lets the sessions
  of the old server block or double those of the new.
- IKEv2. A revocation charon refuses is not tried again, though `ikev2.go:268`
  says the next poll will; UpdateUsersAndRestart while L2TP holds charon keeps
  the removed users' SAs and secrets (`lapsed`); a list that removes a user and
  adds it again revokes it.
- PPP. Sessions of removed users go on until they end by themselves
  (`l2tp.go:254`). Which of two users is charged is open when an interface
  changes hands between the listing and the reading of its counters; the total
  of the backend is never too high. L2TP and PPTP install hooks in the same
  directory, so with both on a node each records, bills and counts every
  session; `chap-secrets` is read, changed and written by both without a common
  lock. The run has one of the two per node.
- The pass over all backends goes by the devices of each backend's last poll;
  `NotUndercut` leaves out users whose devices left by themselves meanwhile.
- gRPC's SyncUser answers success on any error of the stream. The REST front end
  turns a panic of a handler into status 500 (`middleware.Recoverer`), gRPC does
  not.

## 7. Not modelled

Generated protobuf code, configuration parsing, logging, TLS files, host
routes and NAT (commands issued once at the start), system statistics,
latency probes, `cmd/serviced` (runs CLI commands for an HTTP request), the
images and scripts. AmneziaWG and wg-c wrap the WireGuard core with another
device and keep no state of their own. Killing a process tree and the search
for orphaned processes are part of a stop that succeeds or fails.

## 8. Plan

Done, in this order: Controller, WireGuard, RateLimit, Charon, XrayCore,
XrayUsers, StatsTracker; ProcessBackend, OpenVPN, UserLists, Sessions;
SharedDaemon and the refinement; the proofs above. The project keeps one run
per question and one or two per module. The definitions stand for about 31%
of the Go source, generated code included.

What could follow, most useful first:

1. A proof of `NotUndercut` for nodes with one PPP backend.
2. An abstract "the users asked for are served" that WireGuard, XrayUsers and
   ProcessBackend implement under their conditions.
3. The outbound counters and the log ring of Xray and OpenVPN, the online
   queries of the composite, and WireGuard's host routing over restarts.
