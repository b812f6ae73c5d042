----------------------------- MODULE AgentMounts ----------------------------
(***************************************************************************)
(* The agent's mounts: the table of mounter.go and the four goroutines     *)
(* that use it.  "events" handles the hub's events and the snapshot of a   *)
(* Register, "watcher" a changed configuration file, "monitor" the         *)
(* periodic reconciliation, "main" the shutdown.  Each works through a set *)
(* of pieces of work, todo[a], that it computed from state it read         *)
(* earlier; a section under m.mu is one step.  Mount gives the mutex up    *)
(* while it waits for a health probe, and that is a wait of its own,       *)
(* call[a], with the generation of the mount that it asked about.          *)
(*                                                                         *)
(* A generation is the identity of a *Mount: free again once no table      *)
(* entry, no probe and no caller holds it.  The kernel's side of a mount   *)
(* is krn: "live", "zombie" (its sshfs is gone, every access fails with    *)
(* ENOTCONN), "wedged" (an access hangs) or "none".  A command or a system *)
(* call that fails, a mount that does not appear and a kernel mount that   *)
(* breaks use up MaxFaults.  Renames of peers are left to module Access; a mount entry   *)
(* that changes only its target is invisible to ComputeDiff and here.      *)
(***************************************************************************)
EXTENDS Integers, FiniteSets

CONSTANTS
    Peer, Share, Endpoint,
    None,        \* no endpoint
    MaxGen,      \* bound: generations of one mount alive at once
    MaxFaults,   \* bound: faults
    MaxInputs    \* bound: events of the hub and changes of the configuration

ASSUME MountsAssumption ==
    /\ None \notin Endpoint
    /\ MaxGen \in Nat \ {0} /\ MaxFaults \in Nat /\ MaxInputs \in Nat

VARIABLES
    cfg,      \* d.config.Mounts
    online,   \* d.onlineDevices: where a peer is and what it exports
    paired,   \* the peers with a key file in known_devices
    active,   \* m.activeMounts: endpoint and generation
    krn,      \* what the kernel has at the target
    mode,     \* the target's own mode: "normal", "guarded", "mountable", or
              \* "exposed": not guarded, for the last guardTarget failed or
              \* met a mount
    full,     \* the targets that hold local files
    probe,    \* m.probes: the generation probed, 0 when there is no entry
    stats,    \* the runProbe goroutines of each generation
    todo,     \* what each goroutine has left to do
    call,     \* Mount waiting for a probe
    backoff,  \* d.reconcileFails: the keys whose nextTry has not come
    phase,    \* "running", "stopping", "unmounting", "exited"
    faults,   \* bound: faults left
    inputs    \* bound: inputs and local writes left

known == <<cfg, online, paired>>
table == <<active, krn, mode, full>>
probes == <<probe, stats>>
vars == <<known, table, probes, todo, call, backoff, phase, faults, inputs>>
-----------------------------------------------------------------------------
Key == Peer \X Share
Gen == 1..MaxGen
Actor == {"events", "watcher", "monitor", "main"}
Info == [ep : Endpoint, shares : SUBSET Share]
NoPeer == [ep |-> None, shares |-> {}]
NoMount == [ep |-> None, gen |-> 0]
NoCall == [gen |-> 0]

Peerof(k) == online[k[1]]
Desired(k) ==
    /\ k \in cfg
    /\ Peerof(k).ep # None
    /\ k[2] \in Peerof(k).shares
    /\ k[1] \in paired

\* Pieces of work.  A piece that another one turned into comes first, and
\* the watcher removes entries after it has tried to mount the added ones.
Do(op, k) == [op |-> op, key |-> k]
MountAt(k, ep, est) == [op |-> "mount", key |-> k, ep |-> ep, est |-> est]
Rank(i) ==
    CASE i.op \in {"learn", "try", "guard", "visit"} -> 1
      [] i.op = "drop" -> 2
      [] OTHER -> 0
Ready(a, op, i) ==
    /\ phase # "exited"
    /\ call[a] = NoCall
    /\ i \in todo[a] /\ i.op = op
    /\ \A j \in todo[a] : Rank(i) <= Rank(j)
Done(a, i) == todo' = [todo EXCEPT ![a] = @ \ {i}]
Becomes(a, i, is) == todo' = [todo EXCEPT ![a] = (@ \ {i}) \cup is]

\* The startup sweep has guarded the configured targets it could.
Init ==
    /\ cfg \in SUBSET Key
    /\ online = [p \in Peer |-> NoPeer]
    /\ paired \in SUBSET Peer
    /\ active = [k \in Key |-> NoMount]
    /\ krn = [k \in Key |-> "none"]
    /\ mode \in [Key -> {"normal", "guarded", "exposed"}]
    /\ \A k \in Key : mode[k] = "normal" <=> k \notin cfg
    /\ full \in SUBSET Key
    /\ probe = [k \in Key |-> 0]
    /\ stats = [k \in Key |-> [g \in Gen |-> 0]]
    /\ todo = [a \in Actor |-> {}]
    /\ call = [a \in Actor |-> NoCall]
    /\ backoff = {} /\ phase = "running"
    /\ faults = MaxFaults /\ inputs = MaxInputs
-----------------------------------------------------------------------------
(***************************************************************************)
(* The sections under m.mu.                                                *)
(***************************************************************************)
\* What such a section makes of key k, and whether it returns an error.
Out(m, kr, md, n, ok) ==
    [active |-> m, krn |-> kr, mode |-> md, faults |-> n, ok |-> ok]
Apply(k, o) ==
    /\ o.faults >= 0
    /\ active' = [active EXCEPT ![k] = o.active]
    /\ krn' = [krn EXCEPT ![k] = o.krn]
    /\ mode' = [mode EXCEPT ![k] = o.mode]
    /\ faults' = o.faults
    /\ UNCHANGED full

\* The monitor's Mount runs under the daemon's context, the others do not.
Cancelled(a) == a = "monitor" /\ phase # "running"

FreeGen(k) ==
    {g \in Gen : /\ active[k].gen # g
                 /\ stats[k][g] = 0
                 /\ \A a \in Actor : call[a].gen = g => call[a].key # k}

\* guardTarget with n faults left: what can become of a target whose mode is
\* md.  It can fail, and over a mount it changes the remote directory or
\* fails; the code warns and goes on, or returns the error.
Chmodded(md, n) == [mode |-> md, faults |-> n]
Missed(md) == IF md = "guarded" THEN md ELSE "exposed"
GuardNothing(kr, md, n) == {Chmodded(md, n)}  \* mutant
Guard(kr, md, n) ==
    IF kr = "none" THEN {Chmodded("guarded", n), Chmodded(Missed(md), n - 1)}
    ELSE {Chmodded(Missed(md), n)}

\* Mount returns an error with nothing in the table; md is the target's mode
\* before its last guardTarget.
NotMounted(kr, md, n) ==
    {Out(NoMount, kr, g.mode, g.faults, FALSE) : g \in Guard(kr, md, n)}

\* Mount from guardTarget on, with kernel state kr and n faults left.  A
\* mount left at the target is in the way: it fails guardTarget or shows its
\* files.  Local files are not mounted over.  Until makeMountable an error
\* leaves the target as guardTarget made it; later ones guard it again.  A
\* backend killed when its time is up may just have attached a mount, dead
\* now.
Establish(a, k, ep, kr, n) ==
    IF kr # "none" \/ k \in full THEN NotMounted(kr, mode[k], n)
    ELSE IF Cancelled(a)
    THEN NotMounted(kr, mode[k], n) \cup NotMounted(kr, "mountable", n)
    ELSE NotMounted("none", mode[k], n - 1)
         \cup NotMounted("none", "mountable", n - 1)
         \cup NotMounted("zombie", "mountable", n - 1)
         \cup {Out([ep |-> ep, gen |-> g], "live", "mountable", n, TRUE) :
                  g \in {h \in FreeGen(k) : \A f \in FreeGen(k) : h <= f}}

\* The entry is out of the table and the kernel's side is kr.
Released(k, kr, reguard, n) ==
    {Out(NoMount, kr, g.mode, g.faults, TRUE) :
        g \in IF reguard THEN Guard(kr, mode[k], n) ELSE {Chmodded(mode[k], n)}}

\* unmountKey.  When the command fails the entry goes all the same if the
\* path is seen to be no mountpoint, or the check of it fails: always over a
\* dead mount, and at the price of another fault over a live one.
UnmountKey(a, k, reguard) ==
    LET cost == IF Cancelled(a) THEN 0 ELSE 1
    IN  (IF krn[k] = "none" \/ ~ Cancelled(a)
         THEN Released(k, "none", reguard, faults) ELSE {})
        \cup (IF krn[k] = "zombie"
              THEN Released(k, "zombie", reguard, faults - cost) ELSE {})
        \cup (IF krn[k] = "live"
              THEN Released(k, "live", reguard, faults - cost - 1) ELSE {})
        \cup {Out(active[k], krn[k], mode[k], faults - cost, FALSE)}

Remount(a, k, ep) ==
    UNION {IF u.ok THEN Establish(a, k, ep, u.krn, u.faults) ELSE {u} :
              u \in UnmountKey(a, k, FALSE)}

\* noteReconcileFailure, clearReconcileErr.
Settle(a, k, est, ok) ==
    backoff' = CASE a # "monitor" -> backoff
                 [] ok -> backoff \ {k}
                 [] OTHER -> IF est THEN backoff \cup {k} ELSE backoff

SameEndpointOrNone(m, ep) == m.ep \in {ep, None}  \* mutant
SameEndpoint(m, ep) == m.ep = ep

\* Mount up to where it gives the mutex up or returns.
MountBegin(a, i) ==
    /\ Ready(a, "mount", i)
    /\ Done(a, i)
    /\ LET k == i.key
           m == active[k]
       IN  IF SameEndpoint(m, i.ep)
           THEN /\ call' = [call EXCEPT ![a] = [gen |-> m.gen, key |-> k,
                               ep |-> i.ep, est |-> i.est, health |-> "wait"]]
                /\ probe' = [probe EXCEPT ![k] = m.gen]
                /\ stats' = IF probe[k] = m.gen THEN stats
                            ELSE [stats EXCEPT ![k][m.gen] = @ + 1]
                /\ UNCHANGED <<table, faults, backoff>>
           ELSE /\ \E o \in IF m = NoMount
                            THEN Establish(a, k, i.ep, krn[k], faults)
                            ELSE Remount(a, k, i.ep) :
                       Apply(k, o) /\ Settle(a, k, i.est, o.ok)
                /\ UNCHANGED <<call, probes>>
    /\ UNCHANGED <<known, phase, inputs>>

\* The entry was removed, or replaced, while its probe ran.
OutdatedNever(c) == active[c.key] = NoMount  \* mutant
Outdated(c) == active[c.key].gen # c.gen

\* Mount once it has the verdict and the mutex again.
MountResume(a) ==
    LET c == call[a]
        k == c.key
    IN  /\ phase # "exited" /\ c # NoCall
        /\ c.health # "wait"
        /\ call' = [call EXCEPT ![a] = NoCall]
        /\ IF Outdated(c) \/ c.health # "dead"
           THEN Settle(a, k, c.est, TRUE) /\ UNCHANGED <<table, faults>>
           ELSE \E o \in Remount(a, k, c.ep) :
                   Apply(k, o) /\ Settle(a, k, c.est, o.ok)
        /\ UNCHANGED <<known, probes, todo, phase, inputs>>

\* awaitProbe's timer, or the context, ends the wait and not the probe.
ProbeTimeout(a) ==
    /\ phase # "exited"
    /\ call[a] # NoCall /\ call[a].health = "wait"
    /\ krn[call[a].key] = "wedged" \/ Cancelled(a)
    /\ call' = [call EXCEPT ![a].health = "unknown"]
    /\ UNCHANGED <<known, table, probes, todo, backoff, phase, faults, inputs>>

\* runProbe's stat returns, which it never does while the mount is wedged;
\* one left over from an earlier mount returns whenever it likes.  An error
\* that is no proof of death, which costs a fault, tells nothing.
Classify(kr, odd) ==
    IF odd > 0 THEN "unknown" ELSE IF kr = "live" THEN "healthy" ELSE "dead"
DeregisterAny(k, g) == 0  \* mutant
Deregister(k, g) == IF probe[k] = g THEN 0 ELSE probe[k]
RunProbe(k, g, odd) ==
    /\ phase # "exited" /\ odd <= faults
    /\ stats[k][g] > 0
    /\ active[k].gen = g => krn[k] # "wedged"
    /\ stats' = [stats EXCEPT ![k][g] = @ - 1]
    /\ probe' = [probe EXCEPT ![k] = Deregister(k, g)]
    /\ call' = [a \in Actor |->
                  IF /\ call[a].gen = g /\ call[a].key = k
                     /\ call[a].health = "wait"
                  THEN [call[a] EXCEPT !.health = Classify(krn[k], odd)]
                  ELSE call[a]]
    /\ faults' = faults - odd
    /\ UNCHANGED <<known, table, todo, backoff, phase, inputs>>

\* Unmount and the bodies of the loops of UnmountDevice and unmountAll.
Unmount(a, op) == \E i \in todo[a] :
    /\ Ready(a, op, i)
    /\ Becomes(a, i, IF op = "drop" THEN {Do("unguard", i.key)} ELSE {})
    /\ IF active[i.key] = NoMount THEN UNCHANGED <<table, faults>>
       ELSE \E o \in UnmountKey(a, i.key, op # "final") : Apply(i.key, o)
    /\ UNCHANGED <<known, probes, call, backoff, phase, inputs>>
-----------------------------------------------------------------------------
(***************************************************************************)
(* The supervise goroutine: events of the hub.                             *)
(***************************************************************************)
Input(a) ==
    /\ phase # "exited" /\ inputs > 0
    /\ todo[a] = {} /\ call[a] = NoCall
    /\ inputs' = inputs - 1
    /\ UNCHANGED <<table, probes, call, backoff, phase, faults>>

MountsForOnlineDevice(p, info) ==
    {MountAt(<<p, s>>, info.ep, FALSE) :
        s \in {t \in info.shares : <<p, t>> \in cfg}}
OnlineMounts(p, info) ==
    IF p \in paired THEN MountsForOnlineDevice(p, info) ELSE {}

DeviceOnline(p, info) ==
    /\ Input("events")
    /\ online' = [online EXCEPT ![p] = info]
    /\ todo' = [todo EXCEPT !["events"] = OnlineMounts(p, info)]
    /\ UNCHANGED <<cfg, paired>>

\* handleDeviceOffline, and handleDeviceRemoved, which does the same.
DeviceOffline(p) ==
    /\ Input("events")
    /\ online' = [online EXCEPT ![p] = NoPeer]
    /\ todo' = [todo EXCEPT !["events"] =
                  {Do("unmount", k) : k \in {j \in Key : /\ j[1] = p
                                             /\ active[j] # NoMount}}]
    /\ UNCHANGED <<cfg, paired>>

\* Unmounts what is no longer exported; what is exported now is left to the
\* monitor.
SharesUpdated(p, shares) ==
    /\ Input("events")
    /\ online[p] # NoPeer
    /\ online' = [online EXCEPT ![p].shares = shares]
    /\ todo' = [todo EXCEPT !["events"] =
                  {Do("unmount", k) : k \in {j \in Key : /\ j[1] = p
                                             /\ active[j] # NoMount
                                             /\ j[2] \notin shares}}]
    /\ UNCHANGED <<cfg, paired>>

PairingCompleted(p) ==
    /\ Input("events")
    /\ paired' = paired \cup {p}
    /\ todo' = [todo EXCEPT !["events"] =
                  IF online[p] = NoPeer THEN {Do("guard", k) : k \in cfg}
                  ELSE MountsForOnlineDevice(p, online[p])]
    /\ UNCHANGED <<cfg, online>>

\* processInitialDevices: absent peers are forgotten and their mounts left
\* to a later event; the others are treated one after the other.
RegisterSnapshot(present, info) ==
    /\ Input("events")
    /\ online' = [p \in Peer |-> IF p \in present THEN online[p] ELSE NoPeer]
    /\ todo' = [todo EXCEPT !["events"] =
                  {[op |-> "learn", peer |-> p, info |-> info] : p \in present}]
    /\ UNCHANGED <<cfg, paired>>

Learn == \E i \in todo["events"] :
    /\ Ready("events", "learn", i)
    /\ online' = [online EXCEPT ![i.peer] = i.info]
    /\ Becomes("events", i, OnlineMounts(i.peer, i.info))
    /\ UNCHANGED <<cfg, paired, table, probes, call, backoff, phase, faults,
                   inputs>>

\* The check for a mount and the guarding of the target are two steps.
GuardCheck == \E i \in todo["events"] :
    /\ Ready("events", "guard", i)
    /\ Becomes("events", i, IF active[i.key] # NoMount THEN {}
                            ELSE {Do("chmod", i.key)})
    /\ UNCHANGED <<known, table, probes, call, backoff, phase, faults, inputs>>

\* unguardTarget, which can miss the directory in the same ways.
Unguard(kr, md, n) ==
    IF kr = "none" THEN {Chmodded("normal", n), Chmodded(md, n - 1)}
    ELSE {Chmodded(md, n)}

\* guardTarget and unguardTarget without the mutex.
Chmod(a, op) == \E i \in todo[a] :
    /\ Ready(a, op, i)
    /\ krn[i.key] # "wedged"
    /\ \E g \in IF op = "chmod" THEN Guard(krn[i.key], mode[i.key], faults)
                ELSE Unguard(krn[i.key], mode[i.key], faults) :
          /\ g.faults >= 0
          /\ mode' = [mode EXCEPT ![i.key] = g.mode]
          /\ faults' = g.faults
    /\ Done(a, i)
    /\ UNCHANGED <<known, active, krn, full, probes, call, backoff, phase, inputs>>
-----------------------------------------------------------------------------
(***************************************************************************)
(* The configuration watcher, the mount monitor and the shutdown.          *)
(***************************************************************************)
\* onConfigChange: the configuration is swapped before anything else.
OnConfigChange(new) ==
    /\ Input("watcher")
    /\ new # cfg
    /\ cfg' = new
    /\ todo' = [todo EXCEPT !["watcher"] = {Do("try", k) : k \in new \ cfg}
                                      \cup {Do("drop", k) : k \in cfg \ new}]
    /\ UNCHANGED <<online, paired>>

TryMount == \E i \in todo["watcher"] :
    /\ Ready("watcher", "try", i)
    /\ LET peer == Peerof(i.key)
       IN  Becomes("watcher", i,
              IF peer = NoPeer \/ i.key[1] \notin paired
              THEN {Do("chmod", i.key)}
              ELSE {MountAt(i.key, peer.ep, FALSE)})
    /\ UNCHANGED <<known, table, probes, call, backoff, phase, faults, inputs>>

\* runMountMonitor's tick.
Sweep ==
    /\ phase = "running"
    /\ todo["monitor"] = {} /\ call["monitor"] = NoCall /\ cfg # {}
    /\ todo' = [todo EXCEPT !["monitor"] = {Do("visit", k) : k \in cfg}]
    /\ UNCHANGED <<known, table, probes, call, backoff, phase, faults, inputs>>

\* The body of reconcileMounts' loop up to its call of Mount.
VisitAbsentOnly(k) == Desired(k) /\ active[k] = NoMount /\ k \notin backoff  \* mutant
Visitable(k) == Desired(k) /\ (active[k] # NoMount \/ k \notin backoff)
Visit == \E i \in todo["monitor"] :
    /\ Ready("monitor", "visit", i)
    /\ IF phase # "running" THEN todo' = [todo EXCEPT !["monitor"] = {}]
       ELSE Becomes("monitor", i,
               IF ~ Visitable(i.key) THEN {}
               ELSE {MountAt(i.key, Peerof(i.key).ep,
                             active[i.key] = NoMount)})
    /\ UNCHANGED <<known, table, probes, call, backoff, phase, faults, inputs>>

\* The time of reconcileState.nextTry comes.
NextTry(k) ==
    /\ phase = "running" /\ k \in backoff
    /\ backoff' = backoff \ {k}
    /\ UNCHANGED <<known, table, probes, todo, call, phase, faults, inputs>>

Cancel ==
    /\ phase = "running"
    /\ phase' = "stopping"
    /\ UNCHANGED <<known, table, probes, todo, call, backoff, faults, inputs>>

\* UnmountAllForce takes its list of keys first.
Shutdown ==
    /\ phase = "stopping"
    /\ phase' = "unmounting"
    /\ todo' = [todo EXCEPT !["main"] =
                  {Do("final", k) : k \in {j \in Key : active[j] # NoMount}}]
    /\ UNCHANGED <<known, table, probes, call, backoff, faults, inputs>>

\* Whatever the other goroutines were doing ends with the process.
Exit ==
    /\ phase = "unmounting" /\ todo["main"] = {}
    /\ phase' = "exited"
    /\ UNCHANGED <<known, table, probes, todo, call, backoff, faults, inputs>>
-----------------------------------------------------------------------------
(***************************************************************************)
(* What happens to a mounted file system, in the table or left over: its   *)
(* sshfs dies, somebody unmounts it, the peer stops answering and perhaps  *)
(* answers again (a mount left over does not hang here).  And local files  *)
(* come into a target, or go, while it is not guarded and not mounted.     *)
(***************************************************************************)
Fault(k, kr) ==
    /\ phase # "exited"
    /\ \/ kr = "zombie" /\ krn[k] \in {"live", "wedged"}
       \/ kr = "none" /\ krn[k] \in {"live", "zombie"}
       \/ kr = "wedged" /\ krn[k] = "live" /\ active[k] # NoMount
    /\ faults > 0
    /\ faults' = faults - 1
    /\ krn' = [krn EXCEPT ![k] = kr]
    /\ UNCHANGED <<known, active, mode, full, probes, todo, call, backoff,
                   phase, inputs>>

Unwedge(k) ==
    /\ phase # "exited" /\ krn[k] = "wedged"
    /\ krn' = [krn EXCEPT ![k] = "live"]
    /\ UNCHANGED <<known, active, mode, full, probes, todo, call, backoff,
                   phase, faults, inputs>>

LocalWrite(k) ==
    /\ phase # "exited" /\ inputs > 0
    /\ krn[k] = "none" /\ mode[k] # "guarded"
    /\ full' = IF k \in full THEN full \ {k} ELSE full \cup {k}
    /\ inputs' = inputs - 1
    /\ UNCHANGED <<known, active, krn, mode, probes, todo, call, backoff,
                   phase, faults>>

Step(a) ==
    \/ \E i \in todo[a] : MountBegin(a, i)
    \/ MountResume(a) \/ ProbeTimeout(a)
    \/ Unmount(a, "unmount") \/ Unmount(a, "drop") \/ Unmount(a, "final")
    \/ Chmod(a, "chmod") \/ Chmod(a, "unguard")
Events == Step("events") \/ Learn \/ GuardCheck
Watcher == Step("watcher") \/ TryMount
Monitor == Step("monitor") \/ Visit \/ Sweep
Main == Step("main") \/ Shutdown \/ Exit
Inputs ==
    \/ \E p \in Peer :
          \/ \E info \in Info : DeviceOnline(p, info)
          \/ \E shares \in SUBSET Share : SharesUpdated(p, shares)
          \/ DeviceOffline(p) \/ PairingCompleted(p)
    \/ \E present \in SUBSET Peer, info \in Info :
          RegisterSnapshot(present, info)
    \/ \E new \in SUBSET Key : OnConfigChange(new)
Next ==
    \/ Events \/ Watcher \/ Monitor \/ Main \/ Inputs \/ Cancel
    \/ \E k \in Key :
          \/ \E g \in Gen, odd \in 0..1 : RunProbe(k, g, odd)
          \/ \E kr \in {"zombie", "none", "wedged"} : Fault(k, kr)
          \/ NextTry(k) \/ Unwedge(k) \/ LocalWrite(k)

\* Goroutines run, stats of mounts that answer return and the clock goes on.
Fairness ==
    /\ WF_vars(Events) /\ WF_vars(Watcher) /\ WF_vars(Monitor) /\ WF_vars(Main)
    /\ \A k \in Key :
          WF_vars(NextTry(k)) /\ \A g \in Gen : WF_vars(RunProbe(k, g, 0))

Spec == Init /\ [][Next]_vars /\ Fairness
-----------------------------------------------------------------------------
\* Every variable has its type.
TypeOK ==
    /\ cfg \subseteq Key /\ paired \subseteq Peer /\ backoff \subseteq Key
    /\ online \in [Peer -> Info \cup {NoPeer}]
    /\ active \in [Key -> [ep : Endpoint, gen : Gen] \cup {NoMount}]
    /\ krn \in [Key -> {"none", "live", "zombie", "wedged"}]
    /\ mode \in [Key -> {"normal", "guarded", "mountable", "exposed"}]
    /\ full \subseteq Key
    /\ probe \in [Key -> 0..MaxGen]
    /\ stats \in [Key -> [Gen -> Nat]]
    /\ \A a \in Actor : call[a] = NoCall \/ call[a].gen \in Gen
    /\ phase \in {"running", "stopping", "unmounting", "exited"}
    /\ faults \in 0..MaxFaults /\ inputs \in 0..MaxInputs

\* The mounter keeps the promises of MountTable: one mount per share, and a
\* mount that serves goes only when nobody wants it at that moment, for
\* another endpoint, or at shutdown; a verdict on a mount since replaced
\* does no harm.
Table == INSTANCE MountTable WITH
    table <- [k \in Key |-> active[k].ep],
    serving <- {k \in Key : active[k] # NoMount /\ krn[k] \in {"live", "wedged"}},
    configured <- cfg,
    at <- [k \in Key |-> IF k[1] \in paired THEN Peerof(k).ep ELSE None],
    offered <- {k \in Key : k[2] \in Peerof(k).shares},
    asking <- UNION {{<<i.key, i.ep>> : i \in {j \in todo[a] : j.op = "mount"}}
                     \cup (IF call[a] = NoCall THEN {}
                           ELSE {<<call[a].key, call[a].ep>>}) : a \in Actor},
    stopping <- phase # "running"
TableRefined == Table!Spec

\* While nobody is at work on it, a configured target without an entry in the
\* table is guarded: no local write lands in a directory that a mount will
\* hide.  The exception, "exposed", is a target whose last guardTarget failed
\* or met a mount left there, which the code reports and does not repair
\* before its next attempt (mounter.go:562, 581, 600, 918, 940); no other
\* path leaves a target open.
AtRest(k) == \A a \in Actor :
    /\ call[a] = NoCall \/ call[a].key # k
    /\ \A i \in todo[a] : i.op = "learn" \/ i.key # k
UnmountedIsGuarded ==
    \A k \in cfg :
        /\ phase = "running" /\ AtRest(k)
        /\ active[k] = NoMount
        => mode[k] \in {"guarded", "exposed"}

\* However many callers ask, a generation is probed by one goroutine at a
\* time: a wedged mount does not collect hanging ones.
ProbeSingleFlight == \A k \in Key, g \in Gen : stats[k][g] <= 1

\* A share that stays desired ends up mounted at the peer's endpoint, and
\* alive, once nothing stands in the way for good: its file system does not
\* hang, the target holds no local files, which Mount refuses to hide, and no
\* mount is left there without an entry.  Attempts that failed before, and
\* whatever broke the mount, do not keep it from coming back.
Healable(k) ==
    /\ Desired(k) /\ phase = "running"
    /\ krn[k] # "wedged" /\ k \notin full
    /\ krn[k] # "none" => active[k] # NoMount
Healed(k) == active[k].ep = Peerof(k).ep /\ krn[k] = "live"
DeadIsHealed == \A k \in Key : <>[]Healable(k) => []<>Healed(k)
=============================================================================
