# HubFuse in TLA+

HubFuse shares directories between the machines of a household or a team. A
central *hub* (`src/internal/hub`) knows the devices; each device runs an
*agent* (`src/internal/agent`) that keeps a session with the hub, serves its
own shares over SFTP and mounts the shares of its peers when the hub says that
they are up. This directory holds the TLA+ model of the system, the TLC
configurations that check it and the proofs that TLAPS checks.

## Inventory

| component | state | operations | talks to |
|---|---|---|---|
| device registry (`hub/registry.go`) | map of event subscriptions, `draining` flag, one reader/writer mutex | Join, Register, Heartbeat, UpdateShares, Rename, Deregister, Leave, Subscribe, Broadcast, Drain, CloseAllSubscribers | store (calls), agents (events on 64-slot channels) |
| store (`hub/store`) | SQLite tables devices, shares, pairings, pending_invites, pending_join_tokens; one connection | one statement or transaction per method | everything in the hub |
| heartbeat monitor (`hub/heartbeat.go`) | none; one goroutine, two tickers | checkStale, pruneInactive | store, registry |
| hub lifecycle (`hub/hub.go`, `hub/lifecycle.go`) | lifecycle state, background goroutines | Start, Stop (drain, sweep, close streams, stop server, close store), ReconcileDeviceStatuses | registry, store, gRPC server |
| gRPC server (`hub/server.go`, `hub/interceptor.go`) | one goroutine per call or stream | drain and auth interceptors, the handlers | registry |
| pairing (`hub/pairing.go`) | rows of pairings and pending_invites | RequestPairing, ConfirmPairing, sendToDevice | store, subscriptions |
| join tokens (`hub/join_token.go`) | rows of pending_join_tokens | IssueJoinToken, consumeJoinToken, expiry sweep | store; a second process issues tokens |
| agent session (`agent/daemon.go`, `client.go`, `connector.go`, `heartbeat.go`) | hub client, session context, failure count | connect, register, subscribe, read stream, heartbeat, reconnect, Shutdown | hub (RPCs) |
| agent events (`agent/events.go`) | online peers, nicknames | handlers of the five events | mounter |
| mounter (`agent/mounter.go`) | mounts with a health state | Mount, probe, unmount, reconcile | sshfs processes |
| config reload (`agent/confighandler.go`, `agent/config`) | current configuration | diff, swap, publish | hub, mounter |
| SSH/SFTP server (`agent/sshserver.go`, `sftphandler.go`, `sharesacl.go`) | allowed keys, ACL | access decision | peers |
| process control (`common/daemonize`) | PID file | spawn, readiness, stop | the operating system |

What is hard here is not any single function. Every hub handler is a chain of
store calls, and the chains of several handlers, of the monitor and of the
shutdown interleave; a row can vanish between two statements; events are
published after the write they report; store calls fail; the process is killed
between any two steps and restarts on the database it left. In the agent four
goroutines share the mounts and three the hub connection, each acting on what it
read before it waited; a file system can die or hang under them, and the
configuration file is rewritten by other processes. `PROJECT.json`
lists the places under `hazards`.

What makes each component correct:

* registry: a device is online exactly when it should be (no phantom after a
  shutdown, no resurrection after a departure), peers' last word agrees with
  the row, no stream outlives the shutdown;
* monitor: silent devices go offline, live ones come back, connected ones are
  never pruned;
* lifecycle: a shutdown ends, the store is not closed under a live writer;
* pairing and tokens: one row per pair, a token admits one device;
* session: one live session, no lost client, reconnects until told to stop;
* mounter: a share is mounted at most once, a healthy mount stays while it is
  wanted, a dead one is replaced, and an empty target is guarded;
* access: a peer reads what the configuration grants and nothing else, and an
  edit of the configuration takes effect;
* process control: exit statuses, PID files and the commands' reports are true.

## Modules

| module | what it is |
|---|---|
| `Registry` | the registry with the tables devices and shares, the monitor, the subscription streams, and the hub's shutdown, death and restart |
| `MCRegistry` | `Registry` with the symmetry set TLC uses |
| `RegistryProofs` | the inductive invariant of `Registry` and the theorems |
| `Pairing` | pairing: the tables pairings and pending_invites, RequestPairing, ConfirmPairing, `sendToDevice`, the expiry sweep |
| `MCPairing` | `Pairing` with the symmetry set TLC uses |
| `PairingProofs` | the inductive invariant of `Pairing` and the theorems |
| `HubProcess` | the hub as a process: `start`, `Hub.Start` against `Hub.Stop`, signals, PID file, `start --daemon`, `stop` |
| `HubProofs` | the inductive invariant of `HubProcess` and the theorems |
| `MountTable` | abstract: what the agent promises about its mounts |
| `AgentMounts` | the mount table with the four goroutines that use it: events, watcher, monitor, shutdown; implements `MountTable` |
| `MountsProofs` | the inductive invariant of `AgentMounts` and the theorems on its invariants |
| `MountsRefinement` | the theorem that `AgentMounts` implements `MountTable` |
| `AgentSession` | the daemon's session: Run, Register and its retries, connection replacement, heartbeats, the publishing of changed shares, Shutdown |
| `SessionProofs` | the inductive invariant of `AgentSession` and the theorems |
| `Admission` | join tokens, Join and Rename as statements on two tables |
| `Access` | an agent that exports a share, composed with `Admission`: nicknames, keys, the configuration file and its watcher, the SFTP decision |
| `AccessProofs` | the inductive invariant of `Access` and the theorems |
| `MCHub`, `MCMounts`, `MCSession`, `MCAccess` | the instances for TLC |

`Access` extends `Admission`: the hub names the devices, the agent hears of the
names late. The other modules meet in what one takes from the other:
`HubProcess` only uses the store that `Registry` describes; `AgentSession`
treats an RPC as one step of a hub that works, refuses, is down or swallows
calls; `AgentMounts` takes any sequence of events and snapshots as input,
including the ones that the findings about `Registry` show to be wrong.

### Registry: state

| variable | code |
|---|---|
| `status`, `age`, `port`, `shares` | a device's row: `status` (with "absent" for no row), `last_heartbeat` against the monitor's two thresholds (Fresh, Stale, Ancient), whether `ssh_port` is set, its rows in `shares` |
| `sub` | `Registry.subscribers`: the number of the stream whose channel is in the map, 0 for none |
| `streams`, `last` | `Server.Subscribe` handlers still running; numbering |
| `box` | what went into the channel in the map: for each device the last word (up with shares, down, nothing), or that an event was dropped |
| `hub`, `sweep` | where `Hub.stop` is, and the devices `sweepOnlineDevices` still has to announce; `draining` is derived from `hub` |
| `pc`, `arg` | each RPC goroutine: its next step, its device and what it has read |
| `mon` | the monitor goroutine: its step, the rest of its list, the device to announce |
| `ready` | the agents' side: devices that may call Subscribe, because a Register has succeeded |
| `swept`, `fate` | history variables for the properties |

### Registry: steps

The store has one connection (`SetMaxOpenConns(1)`), so a store method is one
atomic step; between two of them anything else can happen. `Call` is the gRPC
server starting a handler behind the drain interceptor, `Fail` a store call
that returns an error. A section under the read lock that contains a store call
spans several steps: its program counters form `ReadLocked`, and every section
under the write lock (`Drain`, `Unmap`, `Subscribe`, `StreamBroken`,
`CloseAllSubscribers`) waits for `NoReaders`. Write sections contain no store
call and are one step. A broadcast is one step: each subscriber's channel
receives the event once, and the properties look at one peer at a time, so
spreading the sends over several steps would add nothing.

A channel's fill level is not kept. Any send may find the channel full; `box`
then records the loss, and the properties about the last word speak of peers
that lost nothing.

Time is the action `Age`. It is not taken while an RPC of the device is in
service (30 s until stale against store calls that give up after 5 s) nor
within a round of the monitor (the threshold of a round is fixed when the round
begins, so no heartbeat gets older than it during the round).

`Halt` is the end of the process: all memory is gone, the rows stay. It follows
a `GracefulStop` that found every handler and stream gone (`ExitGraceful`), or
the end of the grace window and the forced `Stop` behind it, whatever still
runs (`GraceExpires`), or happens at any moment (`Killed`). `GracefulStop` also
waits for idle connections, which the model does not keep; that is why
`ExitGraceful` may happen and need not. A stream's handler may sit in
`stream.Send` against a client that does not read, so `StreamClosed` need not
happen either. `Start` reconciles the statuses and serves again.

### Pairing: state and steps

`pending` and `invite` are the rows of pending_invites, `pairings` those of
pairings. A device's row is only what pairing reads of it: absent, online, or
neither (`away`). `sub` and `last` number the channels in
`Registry.subscribers` as in `Registry`. `pc` and `arg` are the handlers; the
order of the steps of both RPCs is the record `Then`. The history variables
record which pairs an invite was stored for (`asked`), who was sent
PairingCompleted (`told`), how far a confirmation got after its INSERT
(`course`), who was deleted (`left`) and which rows were written after one of
their devices was deleted (`late`).

Each store call is a step and can fail (`Fail`; the random code that is in use
is one such failure). Nothing joins the calls into a transaction.
`sendToDevice` is two steps, `SendLookup` under the lock and `Send` or
`SendPanics` after it, because the code releases the lock between them. A
channel is closed in the section that takes it out of the map, so it is open
exactly while it is in the map.

The rest of the hub is one step per effect on what pairing shares with it:
`Status`, `DeleteDevice` (Leave and the prune, with the cascade), `Subscribe`,
`Unsubscribe`, `Killed`, in any order. This allows more behaviours than
`Registry` has, which is sound for the safety properties; the violation needs
only a reconnect, which `Registry` has too. A nickname and a public key stand
for their device: `RequestGetTo` finds whichever device the caller means, and
who is told about whom says whose key was sent.

### AgentMounts: state and steps

`cfg`, `online` and `paired` are what the daemon knows (`d.config.Mounts`,
`d.onlineDevices`, the key files); `active` is `Mounter.activeMounts`, an
endpoint and a generation, which stands for the identity of a `*Mount`. `krn`
is the kernel's side (none, live, zombie, wedged), `mode` the permissions of the
target beneath and `full` the targets that hold local files. A target is
"exposed" when its last `guardTarget` failed, or met a mount left there and
changed nothing beneath it. `probe` and `stats` are the single-flight table and its
goroutines. `todo[a]` is what goroutine `a` still has to do of the list it
computed; `call[a]` a `Mount` that waits for a probe without the mutex.

A section under `m.mu` is one step, with all its outcomes (`Establish`,
`UnmountKey`, `Remount`): commands and chmods that fail, a target with local
files, a mount that does not appear, a backend killed at its deadline, an entry
reaped although its mount lives because the check of it failed. `Fault` and
`Unwedge` are the file system's own fate, also of a mount that has no entry any
more; `LocalWrite` puts local files into a target that is not guarded, or takes
them out. What shutdown finds is a snapshot, as in `UnmountAllForce`.

Abstractions: a mount left at a target stands in the way of the next one. (In
the code a live one of an empty share would be mounted over.) It does not hang.
Nobody writes to a target between the check for local files and the attach,
and nobody but the daemon changes a target's mode.

`TableRefined` is the refinement: with `table`, `serving`, `asking` and what the
daemon knows mapped from this state, every step of `AgentMounts` is one of
`MountTable` or leaves it alone. It would fail if a probe's verdict on one mount
were applied to its successor.

### AgentSession: state and steps

`main` is Run's goroutine, `sess` the one that keeps the session, `beat` the
heartbeat loop, `watch` the configuration watcher. `clients` are the open
connections, `hubClient` the installed one, `taken` what Shutdown took, `wedged`
the ones that swallow calls. A call leaves in one step and ends in another, by
the hub's answer, an error or a deadline. The exception is Subscribe: a stream
opens without the hub's answer (`Subscribed`), and that it is dead shows only
when it is read. `missed`, `own` and `blame` are history: whether a change of
the shares fell under a Register or failed to be published since, and whose
heartbeat failures ended a session.

### HubProcess: state and steps

`main`, `term` and `stop` are the goroutines of `RunE`, `awaitTermination` and
`Hub.Stop`; `bg` and `handlers` count those that use the store. A timer may fire
as soon as it is armed, so no property rests on a duration. `Die` is the end of
the process from whichever goroutine; the PID file outlives it. `parent` and
`cli` are the other two processes; `parent` ends as "unread" when it cannot read
the PID file, and leaves the child running. `end` says how the process ended:
"cut" is an error of the start that is only the cancelled context.

### Admission and Access: state and steps

Join is three statements (claim, check, insert), Rename two; the constraints of
the table decide. `held` records the nicknames a device has had, which are the
ones an agent can have heard. The agent's `view`, `nick` and `disk` are the
three places of a nickname, `file`, `base` and `acl` the three of the access
list. `Save` is `Truncate` and `Write`, and the watcher may read between them; an
editor saves like that or by rename (`SaveByRename`), and then the watch is gone
with the old file (`watched`). The watcher's Load can fail, at its start or on
an event, which is then used up (`ReloadFails`). `sync` is history: whether the
watcher knows the file in force ("current"), has failed to load it since
("unread"), or has no baseline in force or no watch ("apart"). A request is granted in one step, except Rename and Link, which resolve their
target in a second one (`RequestTarget`). `policy` remembers the configuration
the list in force was made from, and `breached` that a request was granted which
that configuration does not permit.

## Runs

| run | instance | shows |
|---|---|---|
| `registry` | a device, a listening peer, 2 concurrent RPCs, 1 stream; Join, Register, Subscribe, Heartbeat, Deregister, Leave and pruning | the safety properties of online rows, departures, deleted rows and shutdown |
| `registry_live` | one device, 2 concurrent RPCs, with fairness | the shutdown ends; recovery and demotion happen |
| `stale_news` | expects a violation | see Findings |
| `departed` | expects a violation | see Findings |
| `pairing` | an initiator that comes and goes, a peer, 2 concurrent RPCs, 2 codes, 1 attempt | what pairing without a transaction keeps |
| `pairing_send` | expects a violation | see Findings |
| `mounts` | one share of one peer, 2 endpoints, 3 generations, 2 faults, 2 inputs; with fairness | the refinement of `MountTable`, guarded targets, one probe per mount, and that what can be healed is |
| `session` | 3 connections, 2 failures to end a session, 1 edit, 2 faults; with fairness | connections accounted for, heartbeats judge their own session, shares converge, the session recovers, a stop ends |
| `first_register` | expects a violation | see Findings |
| `hub_process` | 2 runs, 2 signals, 1 handler, 1 fault; with fairness | the store outlives its users, exits are honest, a stop settles |
| `cut_exit` | expects a violation | see Findings |
| `access` | 2 devices, 2 nicknames, 2 tokens, 1 rename, 1 edit, 1 restart | names and tokens, justified grants, edits in force |

Two handlers suffice for every race between two RPCs of a device; the monitor
and `Hub.stop` are further actors. All conflicts in the code are between steps
about the same device, so one calling device and one peer that listens show
them; the peer never calls, which keeps it online and its channel open. One
stream of the device is open at a time; that a reconnect replaces a channel
whose handler still runs is left to the theorems, which hold for every number of
streams and of the other bounds. UpdateShares is in `registry_live`. In
`pairing` one device
(`Restless`) changes its row and stream, the other stays; every lookup of a
device and every channel concerns one device at a time, and the confirmer's own
row is read only when the request is made.

In `mounts` everything that interferes is about one key, so one share is
enough; two endpoints let a peer move, and three generations are the most that a
table entry, a probe left behind and a waiting caller can hold. Two inputs are
an online event and the event or edit that races with what it started; with one
fault instead of two, three inputs were checked as well. In `session` a third
connection is the replacement of a replacement. In `hub_process` the second run
meets what the first left behind. In `access` the list starts with a nickname
and one edit makes it anything else: empty, with everyone, read only, or no
share (lists that name an identity are left to the theorems); the second device competes for names and tokens. Deadlock is
not checked in these four: a daemon that has ended, or spent its bounds, may
stop.

Fairness (`Fairness`) in `registry_live`: a goroutine that can go on does; an agent whose stream
is open sends heartbeats; the store calls of a recovery and the monitor's
UPDATE do not fail every time (strong fairness), and the grace timer of a
shutdown fires. Nothing makes a stream's handler, `GracefulStop` or a kill
happen: with clients that do not read, the shutdown ends by its timer. In
`mounts`, `session` and
`hub_process` each goroutine that can go on does, a call ends by its answer or
its deadline and a timer that is armed fires, since the code gives every one of
these waits a context or a timer; a stat of a hung file system, a handler and a
forced `Stop` need not end. Nothing the environment does is fair: no signal, no
event, no hub that comes back.

### Findings

* `stale_news`: the recovery announces shares it read before its section; a
  Register that replaced them in between has not yet written the status that
  would have stopped it.
* `departed`: `Register` broadcasts outside the section that wrote the row, so
  a Deregister in between is overtaken.
* `pairing_send`: `sendToDevice` sends on a channel it looked up before it
  released the lock. A reconnect closes that channel in between, and the send
  panics; the process ends.
* `first_register`: `sessionOnce` takes the shares before it calls Register, and
  a change is published only once a Register was answered. A change in between
  is in neither, against `confighandler.go:47` ("the first Register that
  succeeds carries these shares"); the next session or change repairs it.
* `cut_exit`: `awaitTermination` cancels the context before `Stop` marks the hub
  as stopped. A `ReconcileDeviceStatuses` that fails in between with the
  cancelled context is returned as an error, and an ordinary stop exits with
  status 1, which `hub.go:168` means to exclude.

Two behaviours that the checks of `pairing` delimit, without a statement in the
repository that they contradict: concurrent confirmations take an invite's
attempts past `maxPairingAttempts`, by less than their number
(`AttemptsBounded`); and a device that leaves while a request or confirmation
about it is between its check and its write leaves a row behind (`NoOrphans`
says that nothing else does).

### Known windows

The properties are stated around the following behaviours. The code has them,
and where a comment disagrees it is named.

Registry (`Registry`):

* `MarkOffline` writes the row and broadcasts afterwards, in no section. A
  heartbeat in between recovers the device and announces it first (`CheckStale`,
  `MarkOfflineIfStale`, the steps of a recovery, `MarkOfflineSend`), and so
  does a Register that is about to announce. The monitor's DeviceOffline is then
  the last word on a device that is online, until its next Register or event.
  The comment at `registry.go:677` speaks of a heartbeat between the SELECT and
  the UPDATE, which the UPDATE's condition covers.

Mounts (`AgentMounts`):

* a Mount that was decided before its entry was removed from the configuration,
  or its peer went offline, still runs afterwards and leaves a mount that only a
  later event removes. `asking` in `MountTable` allows it;
* a caller with an endpoint that is out of date replaces a healthy mount at the
  newer one, until the monitor comes by;
* a dead mount left at the target without an entry (its unmount "succeeded"
  without effect, or a backend was killed as it attached) makes `guardTarget`
  fail from then on, and a live one whose entry was reaped
  (`mounter.go:703-707`) is in the way. Once somebody unmounts it, the target
  beneath is still at the mode the mount had (0700) until the next attempt.
  `DeadIsHealed` and `UnmountedIsGuarded` except this ("exposed"), as they do a
  chmod that fails: five call sites only warn of it (`mounter.go:562`, `:581`,
  `:600`, `:918`, `:940`);
* local files in a target keep it from being mounted for as long as they are
  there (`full`); they can get there while the target is exposed;
* the comment at `mounter.go:786` says that for a vanished entry "the caller must
  fall through and create one"; `Mount` (`mounter.go:456`) returns instead, and
  gives the reason. The model follows the code;
* `ComputeDiff` does not look at the target: a changed `to` has no effect before
  the next start;
* a Mount that events begin after `UnmountAllForce` has taken its list stays.

Session (`AgentSession`):

* shares changed while the first Register is under way (the finding
  `first_register`); a Register that left with the old shares can arrive after
  the publication of the new ones; a publication that failed waits for the next
  session or change (`missed`);
* one replacement per episode: a replacement that wedges too is not replaced
  (`Recoverable`);
* if the SSH server dies while Run waits for its first stream, Run returns
  without Shutdown although a Register may have been accepted.

Hub process (`HubProcess`):

* `start --daemon` that fails to read the PID file says so and gives up, and the
  child it started runs on (`spawn_unix.go:121-124`; "unread" in `ExitHonest`);
* a second signal between Stop's end and the check of `succeeded` aborts; the
  start under way may write the PID file again after the abort removed it.
  `ExitHonest` excepts aborts;
* two `start` commands at once both find no PID file. The loser removes the
  winner's file and marks its devices offline. The model starts one at a time.

Access (`Admission`, `Access`):

* a Join that finds its nickname taken has used its token up; the command's
  prompt for another nickname cannot succeed with it;
* an edit between `NewDaemon` and `NewWatcher` is not in force until the next
  change of the shares ("apart" in `EditInForce`);
* a file that `Load` refuses, such as one with an unknown mount tool, leaves the
  old list in force without a word, until a later event ("unread");
* an editor that saves by rename takes the watch away: that edit and all later
  ones have no effect before the next start. The comment at `watcher.go:11` says
  that the watcher reacts "whenever the file is modified or recreated". The same
  holds of an agent whose watch could not be set up (`daemon.go:1486-1490`);
* the watcher can load the truncated file: the share list is empty for a moment;
* `pair-confirm` and the daemon each rewrite the whole of `nicknames.json` and
  can lose each other's entry; a start repairs it from the hub;
* connections, open handles and key files outlive a revocation; a device that
  was renamed keeps the access of its old nickname until the agent hears of it.

## Proofs

`RegistryProofs` proves, for all values of the constants that satisfy
`RegistryAssumption`, the type invariant, `SectionsExclusive`,
`NoPhantomOnline`, `NoOrphanStream`, `OnlineWasSeen`, `PeersHearDeparture` and
the action properties `OnlyRegisterRaisesUnsubscribed` and
`PruneSparesConnected`. The assumption says that there is a device, that the
empty share list is one, and bounds the types of the other constants.

The inductive invariant `IInv` has four parts.

1. `TypeOK`.
2. `ShutdownInv`: the shutdown properties with `SectionsExclusive`, from which
   they follow: a handler that is about to write "online" holds the read lock,
   so the hub still runs, and the sweep comes later. `Quiet` (nothing runs in a
   hub that is down) and `Unswept` carry the argument through a restart.
3. `PruneInv`: a device between its Register's heartbeat and its Subscribe has
   a fresh heartbeat (`RecentBeat`), hence so has every device whose stream was
   opened after the pruner listed the streams (`Watched`).
4. `DepartureInv`: a departed device has no stream and no Register in flight
   (`Gone`), so by `SectionsExclusive` no handler has its DeviceOnline to send.

`PairingProofs` proves every property of the run `pairing` for any number of
devices, codes and handlers and any limit of attempts, from
`PairingAssumption` (some device, some code, a finite set of handlers, a limit
of at least 1). The properties are not inductive alone; `IInv` adds

1. `AskedAlong`: stored invites, and what a handler read from one, were asked
   for, also when the code has since been deleted and drawn again;
2. `RowOfCommitted`: a handler past its INSERT has its row unless one of the
   devices was deleted; with the primary key this gives `ConfirmOnce` and
   `ToldIsPaired`;
3. `AttemptsInFlight`: an invite's attempts plus the confirmations that have
   checked it and not yet counted themselves stay below the bound. A
   confirmation enters this set only below the limit, and moves from it into
   the counter, so the sum never grows past the limit.

`StepEffects` states what one step does to confirmations in progress; the
lemmas on commitment and half-done pairs follow from it without another case
split.

`AccessProofs` proves every property of the run on `MCAccess`, those of
`Admission` and those of the composition, from `AdmissionAssumption` and
`AccessAssumption`: identities, nicknames and "all" are different things, peers
are devices, and an access list names only these. Its `IInv` adds

1. `ClaimsDisjoint` and `JoinedSpent`: a claimed token is gone, belongs to one
   call and has let nobody in yet, and the token of an admitted device is gone
   for good; `CallNamed` carries the nickname from the check to the write;
2. `NamesHeld`: what the hub, the list of online peers, the cache and the file
   say about a device's nickname is a nickname the device has had. Steps of the
   hub only add to that (`HeldGrows`), so grants stay justified under them;
3. `GrantsSound`: the access list is that of one configuration, and the first
   half of a Rename was permitted. `ResolvedIsPermitted` then says that what
   the SFTP server resolves, the configuration permits;
4. `WatcherCurrent`: a watcher that has its watch, and could load the file, has
   an event for every difference between the file and its baseline; an idle one
   has installed its baseline unless it started apart from it; and a watcher
   without a watch is "apart".

`HubProofs` proves `TypeOK`, `StoreOutlivesUsers` and `ExitHonest` for any
number of runs, signals, handlers and faults (`BoundsAssumption`: at least one
run). The properties speak of the store, the exit status and the PID file; what
keeps them true is where five goroutines and two other processes can be at the
same time, which `IInv` says:

1. `InStep`: `awaitTermination`, the goroutine of `Stop`, the atomics it sets and
   `Hub.state` go through their steps together;
2. `Serving` and `Stopping`: a server exists only behind Start's second critical
   section, and Stop's critical section decides whether it ever will, so a Stop
   that saw no server waits for none and a Stop that saw one has waited for it;
3. `Returned`: Start returns without an error only after a signal, so `RunE`
   waits for Stop before it exits with 0;
4. `PidsPast`: the PIDs in the file and in the commands are those of runs that
   have begun, and a run writes its file late.

`SessionProofs` proves `TypeOK`, `ClientsAccounted`, `BeatsJudgeOwnSession` and
`SharesConverge` for any number of connections, edits and faults and any limit
of heartbeat failures from 1 (`SessionAssumption`). Each property has its own
strengthening:

1. `Held`: which connections a goroutine holds at each of its steps; the
   session's spare one is open and not the installed one, and what Shutdown has
   taken stays installed because `swapHubClient` refuses once `hubClientClosed` is set;
2. `Judged`: at most one of the failures counted is of a beat older than the
   session, and none while that beat is in flight;
3. `Published`: what a session registers is the configuration in force, and what
   it has registered the hub has, unless a publication is under way or a change
   was missed.

`MountsProofs` proves `TypeOK`, `UnmountedIsGuarded` and `ProbeSingleFlight` for
any sets of peers, shares and endpoints and all bounds (`MountsAssumption`:
`None` is no endpoint, there is a generation). `IInv` adds

1. `Roles`: the reason for a piece of work still holds when its turn comes. An
   unmount of the events goroutine is of a share its peer does not offer, since
   only that goroutine changes what peers offer; a drop of the watcher is of a
   share that is not configured; a final unmount comes after the stop;
2. `Guarding`: a configured target that has no entry and is neither guarded nor
   exposed has the watcher on its way to it. Every section under the mutex that
   leaves no entry leaves the target guarded or exposed, except at shutdown
   (`Guards`, `GuardOut`);
3. `Probing`: the probe that runs for the entry in the table is the registered
   one, so a second caller joins it. A new entry takes a generation that no
   probe runs for (`FreeGen`);
4. `Verdicts`: a verdict "dead" is true of the mount it is about for as long as
   that mount is in the table, since no file system that is gone comes back.

`EstablishOut`, `UnmountOut` and `RemountOut` say what a section under the mutex
can make of its key: everything as it was, no mount, or a new one of a free
generation. The cases of the actions use these and not the sections.

`MountsRefinement` proves the refinement, `Spec => TableRefined`, in two halves.
Every action moves the table as an action of `MountTable` does (`MovesBar`):
`Mount` is `Attach` or `Replace`, an unmount `Release`, a file system that dies
`Fail`, all others `Learn`. `Release` of a mount that serves needs `Roles`, and
`Replace` by the same endpoint needs `Verdicts`. And no caller begins to ask for
a mount that is not configured with its peer paired and present at that endpoint
(`NextFounded`): the events compute their mounts from what they have just
learned, the watcher tries what is configured (`Roles`), the monitor looks
again.

With these, every invariant and action property that a passing run checks, and
the refinement, is a theorem.

Only model-checked: the liveness properties (`ShutdownSettles`,
`GivenUpIsRecovered`, `SilentIsDemoted`, `DeadIsHealed`, `SessionRecovers`,
`StopEnds`, `StopSettles`). They rest on fairness and hence on `ENABLED`, which
the prover does not treat. The violations of the findings are counterexamples of
TLC.

## Not modelled

Authentication by certificate and the making of certificates; IP addresses (a
port or an endpoint stands for them); paths inside a share and the checks that
keep them there, which are computations on strings and on the file system; open
SFTP handles; the mount and unmount commands themselves; the syntax of the
configuration; the stub backend of the tests. Two agents and a hub are not
composed in one module: the product of `Registry`, `AgentSession` and
`AgentMounts` is out of TLC's reach, so each takes its neighbour as an
environment that may do more. What an agent misses between its Register and its
Subscribe, or through a full channel, is therefore listed as a hazard and not
covered by a property; no code repairs it before the next Register. Wording,
logging and generated code stay out, as do the components marked `not_modelled`
in `PROJECT.json`.

## Plan

Done: the registry, pairing, the hub's process, the agent's mounts, its session,
and admission with access, in this order of importance, each with the proofs of
its safety properties. Open: what follows from `MountTable` alone (a caller's
view of how long a mount lasts), and an abstract specification of what the
registry promises to an agent that follows its events.
