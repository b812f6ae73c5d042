------------------------------ MODULE Registry ------------------------------
(***************************************************************************)
(* The hub's device registry: the rows of the SQLite store, the table of   *)
(* event subscriptions guarded by one reader/writer mutex, the gRPC        *)
(* handlers that read and write both, the heartbeat monitor's goroutine,   *)
(* and the hub's shutdown and restart.                                     *)
(*                                                                         *)
(* A gRPC handler is a sequence of store calls.  The store has a single    *)
(* connection, so each call is one atomic step, and the steps of different *)
(* handlers, of the monitor and of Hub.stop interleave freely.  A section  *)
(* under the read lock that spans more than one step is a set of program   *)
(* counters (ReadLocked); a section under the write lock is one step that  *)
(* waits until no handler is in ReadLocked.                                *)
(***************************************************************************)
EXTENDS Naturals, FiniteSets

CONSTANTS
    Device,      \* device identities
    Handler,     \* goroutines serving unary RPCs (bound on concurrent RPCs)
    Shares,      \* share lists a device can export
    NoShares,    \* the empty share list
    MaxStreams,  \* bound: Subscribe streams of one device and one hub life
    Caller,      \* bound: the devices whose agents make calls; the others are
                 \*        peers that only listen
    Rpc,         \* bound: the RPCs the callers make
    Retention    \* whether inactive devices are pruned (retention > 0)

ASSUME RegistryAssumption ==
    /\ Device # {}
    /\ MaxStreams \in Nat
    /\ Retention \in BOOLEAN
    /\ NoShares \in Shares
    /\ Caller \subseteq Device
    /\ Rpc \subseteq {"Join", "Register", "Heartbeat", "UpdateShares",
                      "Deregister", "Leave", "Subscribe"}

VARIABLES
    status,    \* devices.status, or "absent" when there is no row
    age,       \* how old devices.last_heartbeat is: see Fresh, Stale, Ancient
    port,      \* TRUE once devices.ssh_port is set by a Register
    shares,    \* the rows of table shares
    sub,       \* Registry.subscribers: stream number, 0 when not in the map
    streams,   \* Subscribe handlers still running
    last,      \* the number of the last stream of each device
    box,       \* what was put in the channel in the map: last words, losses
    hub,       \* where the hub process and its Hub.stop have got to
    sweep,     \* online devices the shutdown still has to announce
    swept,     \* history: the shutdown sweep has cleared the online rows
    pc,        \* the next step of each handler
    arg,       \* the handler's device and the values it has read so far
    mon,       \* the heartbeat monitor's goroutine
    ready,     \* callers between a successful Register and its Subscribe
    fate       \* history: what this hub process has seen of each device

rows == <<status, age, port, shares>>
fanout == <<sub, streams, last, box>>
life == <<hub, sweep, swept>>
agents == <<ready, fate>>
vars == <<rows, fanout, life, pc, arg, mon, agents>>
-----------------------------------------------------------------------------
(***************************************************************************)
(* Values.                                                                 *)
(***************************************************************************)
Status == {"absent", "registered", "online", "offline"}

\* last_heartbeat against the monitor's two thresholds, timeout and retention.
Fresh == 0
Stale == 1
Ancient == 2

\* What a subscriber last heard about a device.
Silence == [word |-> "silent", shares |-> NoShares]
Down == [word |-> "down", shares |-> NoShares]
Up(v) == [word |-> "up", shares |-> v]
Word == [word : {"silent", "up", "down"}, shares : Shares]

\* What a channel carried so far.  Once an event was dropped the rest is not
\* followed any more.
EmptyBox == [lost |-> FALSE, told |-> [d \in Device |-> Silence]]
LostBox == [lost |-> TRUE, told |-> [d \in Device |-> Silence]]
Box == [lost : BOOLEAN, told : [Device -> Word]]

\* What a handler works on: its device, and the shares and port it was given
\* or has read.
Arg == [dev : Device, shares : Shares, port : BOOLEAN]

\* The RPCs and the first step of each.
FirstStep ==
    [Join |-> "createDevice", Register |-> "getDevice",
     Heartbeat |-> "updateHeartbeat", UpdateShares |-> "setShares",
     Deregister |-> "deregGet", Leave |-> "leaveGet",
     Subscribe |-> "subscribe"]

\* Steps that are store calls: each can fail (context ended, store error).
StorePcs == {"createDevice", "getDevice", "regShares", "regBeat", "markWrite",
             "updateHeartbeat", "hbGet", "hbShares", "recWrite", "setShares",
             "deregGet", "deregWrite", "leaveGet", "leaveDelete"}

\* Steps taken with the read lock held since the previous step.
ReadLockedNotRegister == {"recWrite", "recSend"}     \* mutant
ReadLockedNotAnnounce == {"markWrite", "recWrite"}   \* mutant
ReadLocked == {"markWrite", "recWrite", "recSend"}

\* Steps of a Register in flight.
RegisterPcs == {"getDevice", "regShares", "regBeat", "markLock", "markWrite",
                "regSend"}

Pcs == StorePcs \cup
       {"idle", "markLock", "regSend", "canRecover", "recLock", "recSend",
        "sharesSend", "deregUnsub", "deregSend", "leaveSend", "leaveUnsub", "subscribe"}

MonPcs == {"idle", "demote", "demoteSend", "prune", "pruneUnsub", "pruneSend"}
HubPcs == {"run", "drained", "mark", "sweepSend", "close", "wait", "down"}

\* Registry.draining: set by Drain, gone with the process.
drainingUntilSwept == hub \in {"drained", "mark", "sweepSend"}  \* mutant
draining == hub \notin {"run", "down"}

Present(d) == status[d] # "absent"
Subscribed(d) == sub[d] # 0
Dev(h) == arg[h].dev

InService(d) == \E h \in Handler : pc[h] # "idle" /\ Dev(h) = d
Registering(d) == \E h \in Handler : Dev(h) = d /\ pc[h] \in RegisterPcs

\* The write lock is free to take: no handler is between the steps of a
\* section under the read lock.
NoReaders == \A h \in Handler : pc[h] \notin ReadLocked
-----------------------------------------------------------------------------
(***************************************************************************)
(* The event fanout.  A channel holds 64 events and a send to a full one   *)
(* is dropped.  How full a channel is depends on how fast its stream       *)
(* takes events out, so any send may find it full.                         *)
(***************************************************************************)
Hear(b, d, w) == IF b.lost THEN b ELSE [b EXCEPT !.told[d] = w]

\* Put words[p] about device d in the channel of each subscriber p in to,
\* those that are full excepted.
Send(to, d, words) ==
    \E full \in SUBSET {p \in to : Subscribed(p)} :
        box' = [p \in Device |->
                  IF p \in full THEN LostBox
                  ELSE IF p \in to /\ Subscribed(p) THEN Hear(box[p], d, words[p])
                  ELSE box[p]]

broadcastLocked(d, words) == Send(Device \ {d}, d, words)

\* Broadcast takes the read lock for one step: no write section is ever open
\* between steps, so it never waits here.
Broadcast(d, words) == broadcastLocked(d, words)
BroadcastAll(d, words) == Send(Device, d, words)

\* The events, as what each peer knows of device d after it.  SharesUpdated
\* changes what a peer knows of a device that it believes to be up.
DeviceOnline(v) == [p \in Device |-> Up(v)]
DeviceOffline == [p \in Device |-> Down]
DeviceRemoved == [p \in Device |-> Down]
SharesUpdated(d, v) ==
    [p \in Device |-> IF box[p].told[d].word = "up" THEN Up(v)
                      ELSE box[p].told[d]]

UnmapUnlocked(d) ==  \* mutant
    /\ sub' = [sub EXCEPT ![d] = 0]
    /\ box' = [box EXCEPT ![d] = EmptyBox]
    /\ UNCHANGED <<streams, last>>

\* delete(r.subscribers, d); close(ch): under the write lock.
Unmap(d) ==
    /\ NoReaders
    /\ sub' = [sub EXCEPT ![d] = 0]
    /\ box' = [box EXCEPT ![d] = EmptyBox]
    /\ UNCHANGED <<streams, last>>

removeSubscriber(d) == Unmap(d)
-----------------------------------------------------------------------------
(***************************************************************************)
(* Handlers.  Call is the gRPC server starting one, past the drain and     *)
(* authentication interceptors.                                            *)
(***************************************************************************)
NoArg == [dev |-> CHOOSE d \in Device : TRUE, shares |-> NoShares,
          port |-> FALSE]

\* Handler h goes on with step, knowing a; an idle handler knows nothing.
GotoWith(h, step, a) ==
    /\ pc' = [pc EXCEPT ![h] = step]
    /\ arg' = [arg EXCEPT ![h] = IF step = "idle" THEN NoArg ELSE a]
Goto(h, step) == GotoWith(h, step, arg[h])
Return(h) == Goto(h, "idle")

\* Subscribe calls of d that have not reached the map yet (for the bound).
Pending(d) == Cardinality({x \in Handler : pc[x] = "subscribe" /\ Dev(x) = d})

\* fate: "unknown" to this hub process, "seen" up by it, or "departed": it
\* deregistered and has not come back.
Seen(d) == [fate EXCEPT ![d] = "seen"]
Returned(d) == IF fate[d] = "departed" THEN Seen(d) ELSE fate

Call(h, d, rpc, v) ==
    /\ pc[h] = "idle"
    /\ hub # "down"
    /\ ~draining
    /\ rpc = "Subscribe" => d \in ready /\ last[d] + Pending(d) < MaxStreams
    /\ v = NoShares \/ rpc \in {"Register", "UpdateShares"}
    /\ GotoWith(h, FirstStep[rpc], [dev |-> d, shares |-> v, port |-> FALSE])
    /\ ready' = IF rpc \in {"Register", "Subscribe"} THEN ready \ {d} ELSE ready
    /\ fate' = IF rpc = "Register" THEN Returned(d) ELSE fate
    /\ UNCHANGED <<rows, fanout, life, mon>>

\* A store call of handler h fails: its context ended or the store refused.
\* Every handler returns at once; a lock it held is released by its defer.
Fail(h) ==
    /\ pc[h] \in StorePcs
    /\ Return(h)
    /\ UNCHANGED <<rows, fanout, life, mon, agents>>

\* INSERT INTO devices: refused when the row exists.
Join(h) ==
    /\ pc[h] = "createDevice"
    /\ Return(h)
    /\ IF Present(Dev(h))
       THEN UNCHANGED rows
       ELSE /\ status' = [status EXCEPT ![Dev(h)] = "registered"]
            /\ age' = [age EXCEPT ![Dev(h)] = Fresh]
            /\ port' = [port EXCEPT ![Dev(h)] = FALSE]
            /\ UNCHANGED shares
    /\ UNCHANGED <<fanout, life, mon, agents>>

(* Register: store calls and a broadcast.  The draining flag is read first,
   in no section with GetDevice: a Drain before that read is a refusal, one
   after it is not noticed here. *)
RegisterRefused(h) ==
    /\ pc[h] = "getDevice"
    /\ draining
    /\ Return(h)
    /\ UNCHANGED <<rows, fanout, life, mon, agents>>

\* The list of online devices the RPC returns is read here as well and not
\* used by any later step.
RegisterGetDevice(h) ==
    /\ pc[h] = "getDevice"
    /\ Goto(h, IF Present(Dev(h)) THEN "regShares" ELSE "idle")
    /\ UNCHANGED <<rows, fanout, life, mon, agents>>

\* DELETE and INSERTs: a missing row is noticed only when there is a share to
\* insert (the foreign key), not when the list is empty.
SetSharesOK(d, v) == Present(d) \/ v = NoShares
SetShares(d, v) ==
    shares' = IF Present(d) THEN [shares EXCEPT ![d] = v] ELSE shares

RegisterSetShares(h) ==
    /\ pc[h] = "regShares"
    /\ SetSharesOK(Dev(h), arg[h].shares)
    /\ SetShares(Dev(h), arg[h].shares)
    /\ Goto(h, "regBeat")
    /\ UNCHANGED <<status, age, port, fanout, life, mon, agents>>

UpdateHeartbeatBackdated(h, next) ==  \* mutant
    /\ IF Present(Dev(h))
       THEN age' = [age EXCEPT ![Dev(h)] = @ + 1] /\ Goto(h, next)
       ELSE UNCHANGED age /\ Return(h)
    /\ UNCHANGED <<status, port, shares, fanout, life, mon, agents>>

\* UPDATE devices SET last_heartbeat: requireAffected turns a missing row
\* into ErrNotFound.
UpdateHeartbeat(h, next) ==
    /\ IF Present(Dev(h))
       THEN age' = [age EXCEPT ![Dev(h)] = Fresh] /\ Goto(h, next)
       ELSE UNCHANGED age /\ Return(h)
    /\ UNCHANGED <<status, port, shares, fanout, life, mon, agents>>

RegisterBeat(h) == pc[h] = "regBeat" /\ UpdateHeartbeat(h, "markLock")

\* markOnlineUnlessDraining: the flag is read and the row written under one
\* hold of the read lock.
MarkLock(h) ==
    /\ pc[h] = "markLock"
    /\ Goto(h, IF draining THEN "idle" ELSE "markWrite")
    /\ UNCHANGED <<rows, fanout, life, mon, agents>>

MarkWrite(h) ==
    /\ pc[h] = "markWrite"
    /\ IF Present(Dev(h))
       THEN /\ status' = [status EXCEPT ![Dev(h)] = "online"]
            /\ port' = [port EXCEPT ![Dev(h)] = TRUE]
            /\ fate' = Seen(Dev(h))
            /\ Goto(h, "regSend")
       ELSE UNCHANGED <<status, port, fate>> /\ Return(h)
    /\ UNCHANGED <<age, shares, fanout, life, mon, ready>>

RegisterSend(h) ==
    /\ pc[h] = "regSend"
    /\ Broadcast(Dev(h), DeviceOnline(arg[h].shares))
    /\ ready' = ready \cup {Dev(h)}
    /\ Return(h)
    /\ UNCHANGED <<rows, sub, streams, last, life, mon, fate>>

(* Heartbeat: record liveness, then recover a device the hub gave up on. *)
HeartbeatUpdate(h) == pc[h] = "updateHeartbeat" /\ UpdateHeartbeat(h, "hbGet")

HeartbeatGet(h) ==
    /\ pc[h] = "hbGet"
    /\ GotoWith(h, IF status[Dev(h)] = "offline" THEN "canRecover" ELSE "idle",
                [arg[h] EXCEPT !.port = port[Dev(h)]])
    /\ UNCHANGED <<rows, fanout, life, mon, agents>>

\* Asked twice: outside any section as an early exit, and again in
\* recoverAndAnnounce, whose answer is the one that counts.
canRecoverUnsubscribed(d) == ~draining  \* mutant
canRecoverNever(d) == FALSE             \* mutant
canRecover(d) == ~draining /\ Subscribed(d)

HeartbeatCanRecover(h) ==
    /\ pc[h] = "canRecover"
    /\ Goto(h, IF canRecover(Dev(h)) /\ arg[h].port
               THEN "hbShares" ELSE "idle")
    /\ UNCHANGED <<rows, fanout, life, mon, agents>>

HeartbeatGetShares(h) ==
    /\ pc[h] = "hbShares"
    /\ GotoWith(h, "recLock", [arg[h] EXCEPT !.shares = shares[Dev(h)]])
    /\ UNCHANGED <<rows, fanout, life, mon, agents>>

\* recoverAndAnnounce: guard, MarkOnlineIfOffline and broadcastLocked under
\* one hold of the read lock.
RecoverLock(h) ==
    /\ pc[h] = "recLock"
    /\ Goto(h, IF canRecover(Dev(h)) THEN "recWrite" ELSE "idle")
    /\ UNCHANGED <<rows, fanout, life, mon, agents>>

RecoverWrite(h) ==
    /\ pc[h] = "recWrite"
    /\ IF status[Dev(h)] = "offline"
       THEN /\ status' = [status EXCEPT ![Dev(h)] = "online"]
            /\ fate' = Seen(Dev(h))
            /\ Goto(h, "recSend")
       ELSE UNCHANGED <<status, fate>> /\ Return(h)
    /\ UNCHANGED <<age, port, shares, fanout, life, mon, ready>>

RecoverSend(h) ==
    /\ pc[h] = "recSend"
    /\ broadcastLocked(Dev(h), DeviceOnline(arg[h].shares))
    /\ Return(h)
    /\ UNCHANGED <<rows, sub, streams, last, life, mon, agents>>

(* UpdateShares: replace the share rows, then tell the peers. *)
UpdateSharesSet(h) ==
    /\ pc[h] = "setShares"
    /\ SetSharesOK(Dev(h), arg[h].shares)
    /\ SetShares(Dev(h), arg[h].shares)
    /\ Goto(h, "sharesSend")
    /\ UNCHANGED <<status, age, port, fanout, life, mon, agents>>

UpdateSharesSend(h) ==
    /\ pc[h] = "sharesSend"
    /\ Broadcast(Dev(h), SharesUpdated(Dev(h), arg[h].shares))
    /\ Return(h)
    /\ UNCHANGED <<rows, sub, streams, last, life, mon, agents>>

(* Deregister: close the subscription, then write the status, then tell. *)
DeregisterGet(h) ==
    /\ pc[h] = "deregGet"
    /\ GotoWith(h, IF Present(Dev(h)) THEN "deregUnsub" ELSE "idle",
                [arg[h] EXCEPT !.port = port[Dev(h)]])
    /\ UNCHANGED <<rows, fanout, life, mon, agents>>

DeregisterUnsub(h) ==
    /\ pc[h] = "deregUnsub"
    /\ removeSubscriber(Dev(h))
    /\ Goto(h, "deregWrite")
    /\ UNCHANGED <<rows, life, mon, agents>>

\* The port written back is the one read by DeregisterGet.
DeregisterWrite(h) ==
    /\ pc[h] = "deregWrite"
    /\ IF Present(Dev(h))
       THEN /\ status' = [status EXCEPT ![Dev(h)] = "offline"]
            /\ port' = [port EXCEPT ![Dev(h)] = arg[h].port]
            /\ Goto(h, "deregSend")
       ELSE UNCHANGED <<status, port>> /\ Return(h)
    /\ UNCHANGED <<age, shares, fanout, life, mon, agents>>

DeregisterSend(h) ==
    /\ pc[h] = "deregSend"
    /\ Broadcast(Dev(h), DeviceOffline)
    /\ Return(h)
    /\ fate' = IF Subscribed(Dev(h)) \/ Registering(Dev(h)) THEN fate
               ELSE [fate EXCEPT ![Dev(h)] = "departed"]
    /\ UNCHANGED <<rows, sub, streams, last, life, mon, ready>>

(* Leave: delete the row and its shares, tell the peers, then close the
   caller's subscription. *)
DeleteRows(ds) ==
    /\ status' = [d \in Device |-> IF d \in ds THEN "absent" ELSE status[d]]
    /\ shares' = [d \in Device |-> IF d \in ds THEN NoShares ELSE shares[d]]
    /\ age' = [d \in Device |-> IF d \in ds THEN Fresh ELSE age[d]]
    /\ port' = [d \in Device |-> IF d \in ds THEN FALSE ELSE port[d]]

LeaveGet(h) ==
    /\ pc[h] = "leaveGet"
    /\ Goto(h, IF Present(Dev(h)) THEN "leaveDelete" ELSE "idle")
    /\ UNCHANGED <<rows, fanout, life, mon, agents>>

LeaveDelete(h) ==
    /\ pc[h] = "leaveDelete"
    /\ DeleteRows({Dev(h)})
    /\ Goto(h, "leaveSend")
    /\ UNCHANGED <<fanout, life, mon, agents>>

LeaveSend(h) ==
    /\ pc[h] = "leaveSend"
    /\ Broadcast(Dev(h), DeviceRemoved)
    /\ Goto(h, "leaveUnsub")
    /\ UNCHANGED <<rows, sub, streams, last, life, mon, agents>>

LeaveUnsub(h) ==
    /\ pc[h] = "leaveUnsub"
    /\ removeSubscriber(Dev(h))
    /\ Return(h)
    /\ UNCHANGED <<rows, life, mon, agents>>

(* Subscribe: the draining flag is read and the channel put in the map in
   one write section; an older channel of the device is closed.  The handler
   then becomes stream last[d] and is no longer a unary handler. *)
Subscribe(h) ==
    /\ pc[h] = "subscribe"
    /\ NoReaders
    /\ Return(h)
    /\ LET d == Dev(h) IN
       IF draining
       THEN UNCHANGED <<fanout, fate>>
       ELSE /\ last' = [last EXCEPT ![d] = @ + 1]
            /\ sub' = [sub EXCEPT ![d] = last[d] + 1]
            /\ streams' = [streams EXCEPT ![d] = @ \cup {last[d] + 1}]
            /\ box' = [box EXCEPT ![d] = EmptyBox]
            /\ fate' = Returned(d)
    /\ UNCHANGED <<rows, life, mon, ready>>
-----------------------------------------------------------------------------
(***************************************************************************)
(* Subscribe streams: Server.Subscribe's loop.                             *)
(***************************************************************************)
\* The channel of stream g was closed: the handler returns and its deferred
\* unsub finds another channel, or none, in the map.  It need not get there: a
\* client that does not read can hold it in stream.Send.
StreamClosed(d, g) ==
    /\ g \in streams[d]
    /\ sub[d] # g
    /\ streams' = [streams EXCEPT ![d] = @ \ {g}]
    /\ UNCHANGED <<rows, sub, last, box, life, pc, arg, mon, agents>>

\* The client of stream g is gone: unsub closes the channel if it is still
\* the one in the map.
StreamBroken(d, g) ==
    /\ g \in streams[d]
    /\ NoReaders
    /\ streams' = [streams EXCEPT ![d] = @ \ {g}]
    /\ IF sub[d] = g
       THEN /\ sub' = [sub EXCEPT ![d] = 0]
            /\ box' = [box EXCEPT ![d] = EmptyBox]
       ELSE UNCHANGED <<sub, box>>
    /\ UNCHANGED <<rows, last, life, pc, arg, mon, agents>>
-----------------------------------------------------------------------------
(***************************************************************************)
(* The heartbeat monitor: one goroutine, so a stale check and a prune      *)
(* never overlap.  Its context is cancelled when the shutdown leaves       *)
(* "drained".  mon.todo is what is left of the list it read, mon.due the   *)
(* device whose event is to be broadcast next.                             *)
(***************************************************************************)
MonIdle == [pc |-> "idle", todo |-> {}, due |-> {}]
Ticking == hub \in {"run", "drained"}

\* Time passes between two rounds of the monitor.  A round's threshold is
\* fixed when the round begins, so a heartbeat that lands during the round is
\* newer than the threshold however long the round takes.  Likewise no RPC
\* runs from a heartbeat until that heartbeat is stale (30s, against store
\* calls that give up after 5s), and an agent between Register and Subscribe
\* gives up (20s) before that.
Age(d) ==
    /\ d \in Caller
    /\ mon.pc = "idle"
    /\ Present(d) /\ age[d] < (IF Retention THEN Ancient ELSE Stale)
    /\ ~InService(d)
    /\ age' = [age EXCEPT ![d] = @ + 1]
    /\ ready' = ready \ {d}
    /\ UNCHANGED <<status, port, shares, fanout, life, pc, arg, mon, fate>>

\* The rows GetStaleDevices selects.
StaleSubscribed ==  \* mutant
    {d \in Device : status[d] = "online" /\ age[d] >= Stale /\ Subscribed(d)}
StaleDevices == {d \in Device : status[d] = "online" /\ age[d] >= Stale}

CheckStale ==
    /\ mon.pc = "idle" /\ Ticking
    /\ StaleDevices # {}
    /\ mon' = [pc |-> "demote", todo |-> StaleDevices, due |-> {}]
    /\ UNCHANGED <<rows, fanout, life, pc, arg, agents>>

\* The monitor goes on with the rest of its list.
MonNext(rest, step) ==
    mon' = IF rest = {} THEN MonIdle
           ELSE [pc |-> step, todo |-> rest, due |-> {}]

\* MarkOfflineIfStale: still online and still stale in the same statement.
MarkOfflineIfStale(d) ==
    /\ mon.pc = "demote" /\ d \in mon.todo
    /\ IF status[d] = "online" /\ age[d] >= Stale
       THEN /\ status' = [status EXCEPT ![d] = "offline"]
            /\ mon' = [pc |-> "demoteSend", todo |-> mon.todo \ {d}, due |-> {d}]
       ELSE UNCHANGED status /\ MonNext(mon.todo \ {d}, "demote")
    /\ UNCHANGED <<age, port, shares, fanout, life, pc, arg, agents>>

\* The statement failed: logged, and the loop goes on.
MarkOfflineFails(d) ==
    /\ mon.pc = "demote" /\ d \in mon.todo
    /\ MonNext(mon.todo \ {d}, "demote")
    /\ UNCHANGED <<rows, fanout, life, pc, arg, agents>>

MarkOfflineSend(d) ==
    /\ mon.pc = "demoteSend" /\ d \in mon.due
    /\ Broadcast(d, DeviceOffline)
    /\ MonNext(mon.todo, "demote")
    /\ UNCHANGED <<rows, sub, streams, last, life, pc, arg, agents>>

\* pruneInactive: the subscribers are listed, then one transaction deletes
\* the offline rows that are older than the retention and not in the list.
PruneList ==
    /\ Retention
    /\ mon.pc = "idle" /\ Ticking
    /\ mon' = [pc |-> "prune", todo |-> {d \in Device : Subscribed(d)},
               due |-> {}]
    /\ UNCHANGED <<rows, fanout, life, pc, arg, agents>>

PrunableConnected(active) ==  \* mutant
    {d \in Device : status[d] = "offline" /\ age[d] = Ancient}
Prunable(active) ==
    {d \in Device : status[d] = "offline" /\ age[d] = Ancient} \ active

DeletePrunedDevices ==
    /\ mon.pc = "prune"
    /\ DeleteRows(Prunable(mon.todo))
    /\ MonNext(Prunable(mon.todo), "pruneUnsub")
    /\ UNCHANGED <<fanout, life, pc, arg, agents>>

PruneFails ==
    /\ mon.pc = "prune"
    /\ mon' = MonIdle
    /\ UNCHANGED <<rows, fanout, life, pc, arg, agents>>

PruneUnsub(d) ==
    /\ mon.pc = "pruneUnsub" /\ d \in mon.todo
    /\ removeSubscriber(d)
    /\ mon' = [pc |-> "pruneSend", todo |-> mon.todo \ {d}, due |-> {d}]
    /\ UNCHANGED <<rows, life, pc, arg, agents>>

PruneSend(d) ==
    /\ mon.pc = "pruneSend" /\ d \in mon.due
    /\ Broadcast(d, DeviceRemoved)
    /\ MonNext(mon.todo, "pruneUnsub")
    /\ UNCHANGED <<rows, sub, streams, last, life, pc, arg, agents>>
-----------------------------------------------------------------------------
(***************************************************************************)
(* Hub.stop, process exit and Hub.Start.                                   *)
(***************************************************************************)
Drain ==
    /\ hub = "run"
    /\ NoReaders
    /\ hub' = "drained"
    /\ UNCHANGED <<rows, fanout, sweep, swept, pc, arg, mon, agents>>

Online == {d \in Device : status[d] = "online"}

MarkNoneOffline == UNCHANGED status  \* mutant
MarkAllOffline ==
    status' = [d \in Device |-> IF d \in Online THEN "offline" ELSE status[d]]

\* sweepOnlineDevices: list, one UPDATE, one broadcast for each listed device.
SweepList ==
    /\ hub = "drained"
    /\ hub' = IF Online = {} THEN "close" ELSE "mark"
    /\ sweep' = Online
    /\ swept' = (Online = {})
    /\ UNCHANGED <<rows, fanout, pc, arg, mon, agents>>

SweepMark ==
    /\ hub = "mark"
    /\ MarkAllOffline
    /\ hub' = "sweepSend"
    /\ swept' = TRUE
    /\ UNCHANGED <<age, port, shares, fanout, sweep, pc, arg, mon, agents>>

\* Either statement failed: nothing is broadcast.
SweepFails ==
    /\ hub \in {"drained", "mark"}
    /\ hub' = "close"
    /\ sweep' = {}
    /\ UNCHANGED <<rows, fanout, swept, pc, arg, mon, agents>>

SweepSend(d) ==
    /\ hub = "sweepSend" /\ d \in sweep
    /\ BroadcastAll(d, DeviceOffline)
    /\ sweep' = sweep \ {d}
    /\ hub' = IF sweep' = {} THEN "close" ELSE hub
    /\ UNCHANGED <<rows, sub, streams, last, swept, pc, arg, mon, agents>>

CloseAllSubscribers ==
    /\ hub = "close"
    /\ NoReaders
    /\ sub' = [d \in Device |-> 0]
    /\ box' = [d \in Device |-> EmptyBox]
    /\ hub' = "wait"
    /\ UNCHANGED <<rows, streams, last, sweep, swept, pc, arg, mon, agents>>

\* The process is gone, and with it everything but the database.
Halt ==
    /\ hub' = "down"
    /\ sub' = [d \in Device |-> 0]
    /\ streams' = [d \in Device |-> {}]
    /\ last' = [d \in Device |-> 0]
    /\ box' = [d \in Device |-> EmptyBox]
    /\ pc' = [h \in Handler |-> "idle"]
    /\ arg' = [h \in Handler |-> NoArg]
    /\ mon' = MonIdle
    /\ sweep' = {}
    /\ ready' = {}
    /\ fate' = [d \in Device |-> "unknown"]
    /\ UNCHANGED <<rows, swept>>

\* GracefulStop returned in time: every handler and every stream has, the
\* connections are gone, and so is the monitor.  A peer can keep any of this
\* from ever happening.
ExitGraceful ==
    /\ hub = "wait"
    /\ \A h \in Handler : pc[h] = "idle"
    /\ \A d \in Device : streams[d] = {}
    /\ mon.pc = "idle"
    /\ Halt

GraceExpiresIdle ==  \* mutant
    /\ hub = "wait"
    /\ \A d \in Device : streams[d] = {}
    /\ Halt

\* The grace window, or the budget behind it, ran out: Hub.stop forces the
\* server down and returns whatever is still running, and the process exits.
GraceExpires == hub = "wait" /\ Halt

\* The process was killed, at any moment.
Killed == hub # "down" /\ Halt

\* ReconcileDeviceStatuses, then the listener.
Start ==
    /\ hub = "down"
    /\ MarkAllOffline
    /\ hub' = "run"
    /\ swept' = FALSE
    /\ UNCHANGED <<age, port, shares, fanout, sweep, pc, arg, mon, agents>>
-----------------------------------------------------------------------------
\* The callers have joined; the other devices, their peers, have registered
\* and subscribed too.
Init ==
    /\ status = [d \in Device |-> IF d \in Caller THEN "registered" ELSE "online"]
    /\ age = [d \in Device |-> Fresh]
    /\ port = [d \in Device |-> d \notin Caller]
    /\ shares = [d \in Device |-> NoShares]
    /\ sub = [d \in Device |-> IF d \in Caller THEN 0 ELSE 1]
    /\ streams = [d \in Device |-> IF d \in Caller THEN {} ELSE {1}]
    /\ last = [d \in Device |-> IF d \in Caller THEN 0 ELSE 1]
    /\ box = [d \in Device |-> EmptyBox]
    /\ hub = "run"
    /\ sweep = {}
    /\ swept = FALSE
    /\ pc = [h \in Handler |-> "idle"]
    /\ arg = [h \in Handler |-> NoArg]
    /\ mon = MonIdle
    /\ ready = {}
    /\ fate = [d \in Device |-> IF d \in Caller THEN "unknown" ELSE "seen"]

HandlerStep(h) ==
    \/ Join(h)
    \/ RegisterRefused(h) \/ RegisterGetDevice(h) \/ RegisterSetShares(h)
    \/ RegisterBeat(h)
    \/ MarkLock(h) \/ MarkWrite(h) \/ RegisterSend(h)
    \/ HeartbeatUpdate(h) \/ HeartbeatGet(h) \/ HeartbeatCanRecover(h)
    \/ HeartbeatGetShares(h) \/ RecoverLock(h) \/ RecoverWrite(h)
    \/ RecoverSend(h)
    \/ UpdateSharesSet(h) \/ UpdateSharesSend(h)
    \/ DeregisterGet(h) \/ DeregisterUnsub(h) \/ DeregisterWrite(h)
    \/ DeregisterSend(h)
    \/ LeaveGet(h) \/ LeaveDelete(h) \/ LeaveSend(h) \/ LeaveUnsub(h)
    \/ Subscribe(h)

MonitorStep ==
    \/ CheckStale \/ PruneList \/ DeletePrunedDevices
    \/ \E d \in Device : \/ MarkOfflineIfStale(d) \/ MarkOfflineSend(d)
                         \/ PruneUnsub(d) \/ PruneSend(d)

StopStep ==
    \/ SweepList \/ SweepMark \/ CloseAllSubscribers \/ GraceExpires
    \/ \E d \in Device : SweepSend(d)

Next ==
    \/ \E h \in Handler, d \in Caller, rpc \in Rpc, v \in Shares :
         Call(h, d, rpc, v)
    \/ \E h \in Handler : HandlerStep(h) \/ Fail(h)
    \/ \E d \in Device : Age(d) \/ MarkOfflineFails(d)
    \/ \E d \in Device, g \in 1..MaxStreams : StreamClosed(d, g)
    \/ \E d \in Caller, g \in 1..MaxStreams : StreamBroken(d, g)
    \/ MonitorStep \/ PruneFails
    \/ Drain \/ StopStep \/ SweepFails \/ ExitGraceful \/ Killed \/ Start

Spec == Init /\ [][Next]_vars

(***************************************************************************)
(* Fairness.  A handler or goroutine that can take its next step does (the *)
(* Go scheduler, and locks that are not held forever).  An agent sends a   *)
(* heartbeat every few seconds while its session, whose event stream is    *)
(* open, lasts; one without a session need not.  The store calls of a      *)
(* heartbeat's recovery and the monitor's UPDATE can fail, but not every   *)
(* time they are tried.  The monitor's stale check has a ticker of its own *)
(* and the prune cannot crowd it out.  The timers of Hub.stop fire.  No    *)
(* other call and no kill is fair; nor is the end of a stream or of        *)
(* GracefulStop, which a client can hold up.                               *)
(***************************************************************************)
Beat(d) ==
    /\ "Heartbeat" \in Rpc
    /\ Subscribed(d)
    /\ \E h \in Handler : Call(h, d, "Heartbeat", NoShares)

Fairness ==
    /\ \A h \in Handler : WF_vars(HandlerStep(h) \/ Fail(h))
    /\ \A d \in Caller : SF_vars(Beat(d))
    /\ SF_vars(\E h \in Handler : HeartbeatUpdate(h))
    /\ SF_vars(\E h \in Handler : HeartbeatGet(h))
    /\ SF_vars(\E h \in Handler : HeartbeatGetShares(h))
    /\ SF_vars(\E h \in Handler : RecoverWrite(h))
    /\ SF_vars(\E d \in Device : MarkOfflineIfStale(d))
    /\ WF_vars(MonitorStep) /\ SF_vars(CheckStale)
    /\ WF_vars(StopStep)

FairSpec == Spec /\ Fairness
-----------------------------------------------------------------------------
(***************************************************************************)
(* Properties.                                                             *)
(***************************************************************************)
\* Every variable keeps to the values the code can give it.
TypeOK ==
    /\ status \in [Device -> Status]
    /\ age \in [Device -> {Fresh, Stale, Ancient}]
    /\ port \in [Device -> BOOLEAN]
    /\ shares \in [Device -> Shares]
    /\ sub \in [Device -> Nat]
    /\ streams \in [Device -> SUBSET Nat]
    /\ last \in [Device -> Nat]
    /\ box \in [Device -> Box]
    /\ hub \in HubPcs
    /\ sweep \in SUBSET Device
    /\ swept \in BOOLEAN
    /\ pc \in [Handler -> Pcs]
    /\ arg \in [Handler -> Arg]
    /\ mon \in [pc : MonPcs, todo : SUBSET Device, due : SUBSET Device]
    /\ ready \in SUBSET Device
    /\ fate \in [Device -> {"unknown", "seen", "departed"}]

\* While a handler is in a section under the read lock the hub has not begun
\* to drain, and a recovery's section does not outlive the subscription that
\* its guard saw: Drain, Deregister, Leave and a broken stream wait for it.
SectionsExclusive ==
    \A h \in Handler :
        /\ pc[h] \in {"markWrite", "recWrite", "recSend"} => hub = "run"
        /\ pc[h] \in {"recWrite", "recSend"} => Subscribed(Dev(h))

\* Once the shutdown sweep has cleared the online rows no Register and no
\* heartbeat that was already past the interceptors puts one back, so none
\* survives into the database the next hub process opens (Drain against
\* markOnlineUnlessDraining and recoverAndAnnounce).
NoPhantomOnline ==
    hub # "run" /\ swept => Online = {}

\* No channel is left in the map, and none enters it, once
\* CloseAllSubscribers has run: a stream that did would never be closed and
\* GracefulStop would wait for it.
NoOrphanStream ==
    hub = "wait" => \A d \in Device : ~Subscribed(d)

\* A serving hub lists as online only devices that registered or recovered
\* with this very process, whatever an earlier one left in the database when
\* it was killed (ReconcileDeviceStatuses).
OnlineWasSeen ==
    hub = "run" => \A d \in Online : fate[d] # "unknown"

\* A device without an event stream goes online by its own Register and by
\* nothing else: a heartbeat still in flight when Deregister or Leave closed
\* the stream does not raise the device again.
OnlyRegisterRaisesUnsubscribed ==
    [][\A d \in Device :
         /\ status[d] # "online" /\ status'[d] = "online"
         /\ ~Subscribed(d)
         => \E h \in Handler : pc[h] = "markWrite" /\ Dev(h) = d]_vars

\* After a Deregister that no Register overlapped, no peer that has followed
\* all events was left with "online" as the last word on the device, whatever
\* heartbeats and monitor rounds were in flight.
PeersHearDeparture ==
    \A d \in Device : fate[d] = "departed" =>
        \A p \in Device : Subscribed(p) /\ ~box[p].lost
                          => box[p].told[d].word # "up"

\* The pruner never deletes a device whose event stream is open, although it
\* lists the streams in one step and deletes the rows in a later one: a
\* device that opened its stream in between had registered before
\* (ActiveSubscribers, DeletePrunedDevices).
PruneSparesConnected ==
    [][mon.pc = "prune" /\ mon'.pc = "pruneUnsub"
         => \A d \in mon'.todo : ~Subscribed(d)]_vars

\* A stopped hub goes down by itself, although a client may keep its stream's
\* handler, and with it GracefulStop, from ever returning: the sweep and
\* CloseAllSubscribers get past the handlers that hold the registry's lock or
\* fail, and the grace timer past the rest (StopServer).
ShutdownSettles == hub = "drained" ~> hub = "down"

\* A device the monitor gave up on while its agent is up and its stream open
\* comes back online (or loses its stream, leaves, or the hub stops).
GivenUpIsRecovered ==
    \A d \in Caller :
      status[d] = "offline" /\ port[d] /\ Subscribed(d) /\ hub = "run"
        ~> status[d] # "offline" \/ ~Subscribed(d) \/ hub # "run"

\* An online device whose agent is silent is taken offline by the monitor.
SilentIsDemoted ==
    \A d \in Caller :
      status[d] = "online" /\ age[d] >= Stale /\ hub = "run"
        ~> status[d] # "online" \/ age[d] = Fresh \/ hub # "run"

\* Nothing is in flight about device d.
Settled(d) ==
    /\ ~InService(d)
    /\ mon.pc = "idle" /\ hub = "run"

\* As Heartbeat's comment has it: a heartbeat that brings a device back does
\* not announce data that a Register in flight has replaced.
RecoveryIsCurrent ==
    \A h \in Handler : pc[h] = "recSend" => arg[h].shares = shares[Dev(h)]

\* As recoverAndAnnounce's comment has it: peers are not left with "online"
\* as the last word on a device that has gone away.
DepartedNotAnnounced ==
    \A d \in Device :
        Settled(d) /\ status[d] = "offline" /\ ~Subscribed(d) =>
        \A p \in Device : Subscribed(p) /\ ~box[p].lost
                          => box[p].told[d].word # "up"
=============================================================================
