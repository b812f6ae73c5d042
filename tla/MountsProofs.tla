----------------------------- MODULE MountsProofs ----------------------------
(***************************************************************************)
(* The safety properties of AgentMounts for every set of peers, shares and *)
(* endpoints and all bounds, and that it implements MountTable.            *)
(*                                                                         *)
(* The strengthening says what a piece of work still means when its turn   *)
(* comes (Roles): the goroutine that computed it is the only one that      *)
(* could have undone its reason meanwhile.  A target that is not guarded   *)
(* has the watcher on its way to it (Guarding); the probe that runs for    *)
(* the mount in the table is the registered one (Probing); and a verdict   *)
(* "dead" stays true of the mount it is about (Verdicts).                  *)
(***************************************************************************)
EXTENDS AgentMounts, TLAPS

-----------------------------------------------------------------------------
(* The inductive invariant.                                                *)

Mounted == [ep : Endpoint, gen : Gen] \cup {NoMount}
Kernel == {"none", "live", "zombie", "wedged"}
Mode == {"normal", "guarded", "mountable", "exposed"}
\* What guardTarget can leave: a guarded target, or one that it missed.
Shut == {"guarded", "exposed"}
MountWork == [op : {"mount"}, key : Key, ep : Endpoint, est : BOOLEAN]
KeyWork == [op : {"unmount", "drop", "final", "chmod", "unguard", "guard", "try", "visit"},
            key : Key]
LearnWork == [op : {"learn"}, peer : Peer, info : Info]
Work == MountWork \cup KeyWork \cup LearnWork
Call == [gen : Gen, key : Key, ep : Endpoint, est : BOOLEAN,
         health : {"wait", "healthy", "dead", "unknown"}]

\* The type invariant, with what TypeOK leaves open of work and calls.
Typed ==
    /\ cfg \subseteq Key /\ paired \subseteq Peer /\ backoff \subseteq Key
    /\ online \in [Peer -> Info \cup {NoPeer}]
    /\ active \in [Key -> Mounted]
    /\ krn \in [Key -> Kernel]
    /\ mode \in [Key -> Mode] /\ full \subseteq Key
    /\ probe \in [Key -> 0..MaxGen]
    /\ stats \in [Key -> [Gen -> Nat]]
    /\ todo \in [Actor -> SUBSET Work]
    /\ call \in [Actor -> Call \cup {NoCall}]
    /\ phase \in {"running", "stopping", "unmounting", "exited"}
    /\ faults \in 0..MaxFaults /\ inputs \in 0..MaxInputs

\* The reason for a piece of work still holds.
Due(a, i) ==
    /\ i.op = "unmount" => /\ a = "events"
                           /\ \/ Peerof(i.key).ep = None
                              \/ i.key[2] \notin Peerof(i.key).shares
                           /\ \A j \in todo[a] : j.op # "learn"
    /\ i.op \in {"drop", "unguard"} => a = "watcher" /\ i.key \notin cfg
    /\ i.op = "try" => a = "watcher" /\ i.key \in cfg
    /\ i.op = "final" => phase # "running"
Roles == \A a \in Actor : \A i \in todo[a] : Due(a, i)

\* The watcher has yet to mount or guard the target.
Coming(k) == \E i \in todo["watcher"] : i.op \in {"try", "chmod", "mount"} /\ i.key = k
Guarding ==
    \A k \in cfg :
        phase = "running" /\ active[k] = NoMount => mode[k] \in Shut \/ Coming(k)

Probing ==
    \A k \in Key, g \in Gen :
        /\ stats[k][g] <= 1
        /\ active[k].gen = g /\ stats[k][g] > 0 => probe[k] = g

Verdicts ==
    \A a \in Actor :
        /\ call[a] # NoCall /\ call[a].health = "dead"
        /\ active[call[a].key].gen = call[a].gen
        => krn[call[a].key] \in {"none", "zombie"}

IInv == Typed /\ Roles /\ Guarding /\ Probing /\ Verdicts

-----------------------------------------------------------------------------
(* Pieces of work, calls and the outcomes of the sections under m.mu.      *)

Outcome == [active : Mounted, krn : Kernel, mode : Mode, faults : Int, ok : BOOLEAN]

\* The section leaves the key as it was, or without a mount, or with a new one.
Kept(k, o) == o.active = active[k] /\ o.krn = krn[k] /\ o.mode = mode[k]
Freed(o) == o.active = NoMount
Made(k, ep, o) ==
    \E g \in FreeGen(k) : o.active = [ep |-> ep, gen |-> g] /\ o.krn = "live"
\* It does not leave a target without a mount and without guardTarget's attempt.
Guards(o) == o.active = NoMount => o.mode \in Shut

\* The shape of a piece of work follows from its operation.
LEMMA WorkShape ==
    ASSUME NEW i \in Work
    PROVE  /\ i.op = "mount" => i \in MountWork
           /\ i.op = "learn" => i \in LearnWork
           /\ i.op \notin {"mount", "learn"} => i \in KeyWork
           /\ i.op # "learn" => i.key \in Key
  BY DEF Work, MountWork, KeyWork, LearnWork

\* What Do and MountAt build is work.
LEMMA WorkMade ==
    /\ \A op \in {"unmount", "drop", "final", "chmod", "unguard", "guard", "try", "visit"} :
          \A k \in Key : Do(op, k) \in Work
    /\ \A k \in Key, ep \in Endpoint, est \in BOOLEAN : MountAt(k, ep, est) \in Work
  BY DEF Work, MountWork, KeyWork, Do, MountAt

\* A mount has an endpoint and a generation, NoMount and NoCall have neither.
LEMMA Absent ==
    /\ \A m \in Mounted : m # NoMount => m.ep \in Endpoint /\ m.gen \in Gen
    /\ NoMount.ep = None /\ NoMount.gen = 0 /\ NoCall.gen = 0
    /\ 0 \notin Gen
    /\ \A c \in Call \cup {NoCall} : c # NoCall => c \in Call
    /\ NoMount \in Mounted
    /\ NoCall \notin Call
  <1>1. 0 \notin Gen
    BY MountsAssumption DEF Gen
  <1> QED  BY <1>1 DEF Mounted, NoMount, NoCall, Call

\* guardTarget: the target is guarded, or was missed, at the cost of a fault.
LEMMA GuardOut ==
    ASSUME NEW kr, NEW md \in Mode, NEW n \in Int, NEW g \in Guard(kr, md, n)
    PROVE  g.mode \in Shut /\ g.mode \in Mode /\ g.faults \in Int /\ g.faults <= n
  <1>1. g \in {Chmodded("guarded", n), Chmodded(Missed(md), n - 1), Chmodded(Missed(md), n)}
    BY DEF Guard
  <1>2. Missed(md) \in Shut
    BY DEF Missed, Shut
  <1> QED  BY <1>1, <1>2 DEF Chmodded, Shut, Mode

\* Mount returns an error: no entry, and guardTarget was tried.
LEMMA NotMountedOut ==
    ASSUME NEW kr \in Kernel, NEW md \in Mode, NEW n \in Int, NEW o \in NotMounted(kr, md, n)
    PROVE  o \in Outcome /\ o.faults <= n /\ Guards(o) /\ Freed(o)
  <1>1. PICK g \in Guard(kr, md, n) : o = Out(NoMount, kr, g.mode, g.faults, FALSE)
    BY DEF NotMounted
  <1>2. g.mode \in Shut /\ g.mode \in Mode /\ g.faults \in Int /\ g.faults <= n
    BY GuardOut
  <1>3. /\ o \in Outcome
        /\ o.active = NoMount /\ o.mode = g.mode /\ o.faults = g.faults
    BY <1>1, <1>2, Absent DEF Out, Outcome
  <1> QED  BY <1>2, <1>3 DEF Guards, Freed

\* Mount from guardTarget on: nothing is mounted, or a mount of a generation
\* that nobody holds.
LEMMA EstablishOut ==
    ASSUME Typed, NEW a \in Actor, NEW k \in Key, NEW ep \in Endpoint,
           NEW kr \in Kernel, NEW n \in Int, NEW o \in Establish(a, k, ep, kr, n)
    PROVE  /\ o \in Outcome /\ o.faults <= n /\ Guards(o)
           /\ Freed(o) \/ Made(k, ep, o)
  <1> DEFINE Goal == /\ o \in Outcome /\ o.faults <= n /\ Guards(o)
                     /\ Freed(o) \/ Made(k, ep, o)
  <1>1. /\ mode[k] \in Mode /\ "mountable" \in Mode
        /\ "none" \in Kernel /\ "zombie" \in Kernel /\ n - 1 \in Int
    BY DEF Typed, Mode, Kernel
  <1>2. ASSUME NEW kr2 \in Kernel, NEW md \in Mode, o \in NotMounted(kr2, md, n)  PROVE Goal
    BY <1>2, NotMountedOut
  <1>3. ASSUME NEW kr2 \in Kernel, NEW md \in Mode, o \in NotMounted(kr2, md, n - 1)  PROVE Goal
    <2>1. o \in Outcome /\ o.faults <= n - 1 /\ Guards(o) /\ Freed(o)
      BY <1>1, <1>3, NotMountedOut
    <2>2. o.faults \in Int
      BY <2>1 DEF Outcome
    <2> QED  BY <2>1, <2>2
  <1>4. ASSUME NEW g \in FreeGen(k), o = Out([ep |-> ep, gen |-> g], "live", "mountable", n, TRUE)
        PROVE  Goal
    <2>1. [ep |-> ep, gen |-> g] \in Mounted /\ [ep |-> ep, gen |-> g] # NoMount
      BY Absent DEF Mounted, NoMount, FreeGen
    <2>2. /\ o \in Outcome /\ o.active = [ep |-> ep, gen |-> g] /\ o.krn = "live"
          /\ o.faults = n
      BY <1>4, <2>1 DEF Out, Outcome, Kernel, Mode
    <2> QED  BY <2>1, <2>2 DEF Guards, Made
  <1> HIDE DEF Goal
  <1>5. CASE kr # "none" \/ k \in full
    <2>1. o \in NotMounted(kr, mode[k], n)
      BY <1>5 DEF Establish
    <2> QED  BY <1>1, <1>2, <2>1 DEF Goal
  <1>6. CASE ~ (kr # "none" \/ k \in full) /\ Cancelled(a)
    <2>1. o \in NotMounted(kr, mode[k], n) \/ o \in NotMounted(kr, "mountable", n)
      BY <1>6 DEF Establish
    <2> QED  BY <1>1, <1>2, <2>1 DEF Goal
  <1>7. CASE ~ (kr # "none" \/ k \in full) /\ ~ Cancelled(a)
    <2>1. \/ o \in NotMounted("none", mode[k], n - 1)
          \/ o \in NotMounted("none", "mountable", n - 1)
          \/ o \in NotMounted("zombie", "mountable", n - 1)
          \/ \E g \in FreeGen(k) : o = Out([ep |-> ep, gen |-> g], "live", "mountable", n, TRUE)
      BY <1>7 DEF Establish
    <2> QED  BY <1>1, <1>3, <1>4, <2>1 DEF Goal
  <1> QED  BY <1>5, <1>6, <1>7

\* The entry is out of the table; with reguard, guardTarget was tried.
LEMMA ReleasedOut ==
    ASSUME Typed, NEW k \in Key, NEW kr \in Kernel, NEW reguard \in BOOLEAN, NEW n \in Int,
           NEW u \in Released(k, kr, reguard, n)
    PROVE  /\ u \in Outcome /\ u.faults <= n /\ u.ok
           /\ Freed(u)
           /\ reguard => Guards(u)
  <1>1. PICK g \in IF reguard THEN Guard(kr, mode[k], n) ELSE {Chmodded(mode[k], n)} :
           u = Out(NoMount, kr, g.mode, g.faults, TRUE)
    BY DEF Released
  <1>2. mode[k] \in Mode
    BY DEF Typed
  <1>3. /\ g.mode \in Mode /\ g.faults \in Int /\ g.faults <= n
        /\ reguard => g.mode \in Shut
    <2>1. CASE reguard
      BY <1>1, <1>2, <2>1, GuardOut
    <2>2. CASE ~ reguard
      BY <1>1, <1>2, <2>2 DEF Chmodded
    <2> QED  BY <2>1, <2>2
  <1>4. /\ u \in Outcome /\ u.ok
        /\ u.active = NoMount /\ u.mode = g.mode /\ u.faults = g.faults
    BY <1>1, <1>3, Absent DEF Out, Outcome
  <1> QED  BY <1>3, <1>4 DEF Guards, Freed

\* unmountKey: an error leaves everything, success leaves no entry.
LEMMA UnmountOut ==
    ASSUME Typed, NEW a \in Actor, NEW k \in Key, NEW reguard \in BOOLEAN,
           NEW u \in UnmountKey(a, k, reguard)
    PROVE  /\ u \in Outcome /\ u.faults <= faults
           /\ ~ u.ok => Kept(k, u)
           /\ u.ok => Freed(u)
           /\ u.ok /\ reguard => Guards(u)
  <1> DEFINE Goal == /\ u \in Outcome /\ u.faults <= faults
                     /\ ~ u.ok => Kept(k, u)
                     /\ u.ok => Freed(u)
                     /\ u.ok /\ reguard => Guards(u)
             cost == IF Cancelled(a) THEN 0 ELSE 1
  <1>1. mode[k] \in Mode /\ krn[k] \in Kernel /\ active[k] \in Mounted /\ faults \in Int
    BY MountsAssumption DEF Typed
  <1>2. /\ faults - cost \in Int /\ faults - cost <= faults
        /\ faults - cost - 1 \in Int /\ faults - cost - 1 <= faults
    BY <1>1
  <1> HIDE DEF cost
  <1>3. ASSUME NEW kr \in Kernel, NEW n \in Int, n <= faults, u \in Released(k, kr, reguard, n)
        PROVE  Goal
    <2>1. u \in Outcome /\ u.faults <= n /\ u.ok /\ Freed(u) /\ (reguard => Guards(u))
      BY <1>3, ReleasedOut
    <2>2. u.faults \in Int
      BY <2>1 DEF Outcome
    <2>3. u.faults <= faults
      BY <1>1, <1>3, <2>1, <2>2
    <2> QED  BY <2>1, <2>3, Zenon
  <1>4. ASSUME u = Out(active[k], krn[k], mode[k], faults - cost, FALSE)  PROVE Goal
    <2>1. /\ u \in Outcome /\ ~ u.ok
          /\ u.active = active[k] /\ u.krn = krn[k] /\ u.mode = mode[k]
          /\ u.faults = faults - cost
      BY <1>1, <1>2, <1>4 DEF Out, Outcome
    <2> QED  BY <1>2, <2>1 DEF Kept
  <1> HIDE DEF Goal
  <1>5. \/ u \in Released(k, "none", reguard, faults)
        \/ u \in Released(k, "zombie", reguard, faults - cost)
        \/ u \in Released(k, "live", reguard, faults - cost - 1)
        \/ u = Out(active[k], krn[k], mode[k], faults - cost, FALSE)
    BY Zenon DEF UnmountKey, cost
  <1>6. "none" \in Kernel /\ "zombie" \in Kernel /\ "live" \in Kernel /\ faults <= faults
    BY <1>1 DEF Kernel
  <1>7. Goal
    BY <1>1, <1>2, <1>3, <1>4, <1>5, <1>6
  <1> QED  BY <1>7 DEF Goal

\* Unmount and Mount: the old mount stays, or none, or the new one.
LEMMA RemountOut ==
    ASSUME Typed, NEW a \in Actor, NEW k \in Key, NEW ep \in Endpoint,
           active[k] # NoMount, NEW o \in Remount(a, k, ep)
    PROVE  /\ o \in Outcome /\ o.faults <= faults /\ Guards(o)
           /\ Kept(k, o) \/ Freed(o) \/ Made(k, ep, o)
  <1>1. PICK u \in UnmountKey(a, k, FALSE) :
           o \in IF u.ok THEN Establish(a, k, ep, u.krn, u.faults) ELSE {u}
    BY DEF Remount
  <1>2. /\ u \in Outcome /\ u.faults <= faults
        /\ ~ u.ok => Kept(k, u)
    BY UnmountOut
  <1>3. faults \in Int /\ u.krn \in Kernel /\ u.faults \in Int
    BY <1>2, MountsAssumption DEF Typed, Outcome
  <1>4. ASSUME ~ u.ok  PROVE o = u /\ Kept(k, o) /\ Guards(o)
    BY <1>1, <1>2, <1>4 DEF Kept, Guards
  <1>5. ASSUME u.ok
        PROVE  /\ o \in Outcome /\ o.faults <= u.faults /\ Guards(o)
               /\ Freed(o) \/ Made(k, ep, o)
    <2>1. o \in Establish(a, k, ep, u.krn, u.faults)
      BY <1>1, <1>5
    <2> QED  BY <2>1, <1>3, EstablishOut
  <1>6. o \in Outcome => o.faults \in Int
    BY DEF Outcome
  <1>7. CASE u.ok
    BY <1>2, <1>3, <1>5, <1>6, <1>7
  <1>8. CASE ~ u.ok
    BY <1>2, <1>4, <1>8
  <1> QED  BY <1>7, <1>8

-----------------------------------------------------------------------------
(* What a step preserves by what it leaves alone.                          *)

\* Work whose reason is not touched stays due; mounting, guarding a target and
\* looking at a key need no reason.
LEMMA RolesKept ==
    ASSUME Typed, Roles, cfg' = cfg, online' = online, phase' = "running" => phase = "running",
           \A b \in Actor : \A i \in todo'[b] :
              \/ i \in todo[b]
              \/ i.op \in {"mount", "chmod", "guard", "visit"}
              \/ i.op = "unguard" /\ b = "watcher" /\ i.key \notin cfg
              \/ i.op = "final" /\ phase # "running"
    PROVE  Roles'
  <1> SUFFICES ASSUME NEW b \in Actor, NEW i \in todo'[b]  PROVE Due(b, i)'
    BY DEF Roles
  <1>1. ASSUME i \in todo[b]  PROVE Due(b, i)'
    <2>1. Due(b, i)
      BY <1>1 DEF Roles
    <2>2. ASSUME i.op = "unmount"  PROVE \A j \in todo'[b] : j.op # "learn"
      BY <2>1, <2>2 DEF Due
    <2> QED  BY <2>1, <2>2 DEF Due, Peerof
  <1>2. ASSUME i.op \in {"mount", "chmod", "guard", "visit"}  PROVE Due(b, i)'
    BY <1>2 DEF Due
  <1>3. ASSUME i.op = "unguard" /\ b = "watcher" /\ i.key \notin cfg  PROVE Due(b, i)'
    BY <1>3 DEF Due
  <1>4. ASSUME i.op = "final" /\ phase # "running"  PROVE Due(b, i)'
    BY <1>4 DEF Due
  <1> QED  BY <1>1, <1>2, <1>3, <1>4

\* A step on key k alone keeps the targets guarded if it guards that of k.
LEMMA GuardingKept ==
    ASSUME Typed, Guarding, cfg' = cfg, phase' = "running" => phase = "running", NEW k,
           \A j \in Key \ {k} :
              active'[j] = active[j] /\ mode'[j] = mode[j],
           \A i \in todo["watcher"] :
              i.op \in {"try", "chmod", "mount"} => i \in todo'["watcher"] \/ i.key = k,
           k \in cfg /\ phase' = "running" /\ active'[k] = NoMount
              => mode'[k] \in Shut \/ Coming(k)'
    PROVE  Guarding'
  <1> SUFFICES ASSUME NEW j \in cfg, phase' = "running", active'[j] = NoMount, j # k
               PROVE  mode'[j] \in Shut \/ Coming(j)'
    BY DEF Guarding
  <1>1. j \in Key \ {k}
    BY DEF Typed
  <1>2. mode[j] \in Shut \/ Coming(j)
    BY <1>1 DEF Guarding
  <1>3. ASSUME Coming(j)  PROVE Coming(j)'
    BY <1>3 DEF Coming
  <1> QED  BY <1>1, <1>2, <1>3

\* A step that leaves the table alone, and the watcher's work.
LEMMA GuardingSame ==
    ASSUME Typed, Guarding, cfg' = cfg, phase' = "running" => phase = "running",
           UNCHANGED table,
           \A i \in todo["watcher"] :
              i.op \in {"try", "chmod", "mount"} => i \in todo'["watcher"]
    PROVE  Guarding'
  <1> SUFFICES ASSUME NEW j \in cfg, phase' = "running", active[j] = NoMount
               PROVE  mode[j] \in Shut \/ Coming(j)'
    BY DEF Guarding, table
  <1>1. mode[j] \in Shut \/ Coming(j)
    BY DEF Guarding
  <1>2. ASSUME Coming(j)  PROVE Coming(j)'
    BY <1>2 DEF Coming
  <1> QED  BY <1>1, <1>2

\* Probes and verdicts depend on the entry's generation and the kernel's state only.
LEMMA ProbingSame ==
    ASSUME Probing, UNCHANGED <<active, probes>>
    PROVE  Probing'
  BY DEF Probing, probes

\* The same of the verdicts.
LEMMA VerdictsSame ==
    ASSUME Verdicts, UNCHANGED <<table, call>>
    PROVE  Verdicts'
  BY DEF Verdicts, table

\* What Apply does to the table.
LEMMA Applied ==
    ASSUME Typed, NEW k \in Key, NEW o \in Outcome, o.faults <= faults, Apply(k, o)
    PROVE  /\ active' \in [Key -> Mounted] /\ krn' \in [Key -> Kernel]
           /\ mode' \in [Key -> Mode] /\ full' = full /\ faults' \in 0..MaxFaults
           /\ active'[k] = o.active /\ krn'[k] = o.krn /\ mode'[k] = o.mode
           /\ \A j \in Key \ {k} :
                 active'[j] = active[j] /\ krn'[j] = krn[j] /\ mode'[j] = mode[j]
  <1>1. /\ o.active \in Mounted /\ o.krn \in Kernel /\ o.mode \in Mode /\ o.faults \in Int
    BY DEF Outcome
  <1>2. faults' \in 0..MaxFaults
    BY <1>1, MountsAssumption DEF Typed, Apply
  <1> QED  BY <1>1, <1>2 DEF Typed, Apply

\* A new mount has a generation that no probe runs for and no caller waits for, so
\* a section under m.mu disturbs neither probes nor verdicts.
LEMMA SectionKeeps ==
    ASSUME Typed, Probing, Verdicts, NEW k \in Key, NEW ep \in Endpoint,
           NEW o \in Outcome, o.faults <= faults, Apply(k, o),
           Kept(k, o) \/ Freed(o) \/ Made(k, ep, o),
           UNCHANGED probes,
           \A b \in Actor : call'[b] = call[b] \/ call'[b] = NoCall
    PROVE  Probing' /\ Verdicts'
  <1>1. /\ active'[k] = o.active /\ krn'[k] = o.krn
        /\ \A j \in Key \ {k} : active'[j] = active[j] /\ krn'[j] = krn[j]
    BY Applied
  <1>2. \/ active'[k] = active[k] /\ krn'[k] = krn[k]
        \/ active'[k] = NoMount
        \/ \E g \in FreeGen(k) : active'[k] = [ep |-> ep, gen |-> g]
    BY <1>1 DEF Kept, Freed, Made
  <1>3. \/ active'[k] = active[k] /\ krn'[k] = krn[k]
        \/ active'[k].gen = 0
        \/ /\ stats[k][active'[k].gen] = 0
           /\ \A a \in Actor : call[a].gen = active'[k].gen => call[a].key # k
    <2>1. ASSUME NEW g \in FreeGen(k), active'[k] = [ep |-> ep, gen |-> g]
          PROVE  /\ stats[k][active'[k].gen] = 0
                 /\ \A a \in Actor : call[a].gen = active'[k].gen => call[a].key # k
      <3>1. active'[k].gen = g
        BY <2>1
      <3> QED  BY <3>1 DEF FreeGen
    <2>2. ASSUME active'[k] = NoMount  PROVE active'[k].gen = 0
      BY <2>2 DEF NoMount
    <2> QED  BY <1>2, <2>1, <2>2
  <1>4. Probing'
    <2> SUFFICES ASSUME NEW j \in Key, NEW g \in Gen
                 PROVE  /\ stats[j][g] <= 1
                        /\ active'[j].gen = g /\ stats[j][g] > 0 => probe[j] = g
      BY DEF Probing, probes
    <2>1. stats[j][g] <= 1 /\ (active[j].gen = g /\ stats[j][g] > 0 => probe[j] = g)
      BY DEF Probing
    <2>2. CASE j # k
      BY <2>1, <2>2, <1>1
    <2>3. CASE j = k
      BY <2>1, <2>3, <1>3, Absent
    <2> QED  BY <2>2, <2>3
  <1>5. Verdicts'
    <2> SUFFICES ASSUME NEW b \in Actor, call'[b] # NoCall, call'[b].health = "dead",
                        active'[call'[b].key].gen = call'[b].gen
                 PROVE  krn'[call'[b].key] \in {"none", "zombie"}
      BY DEF Verdicts
    <2>1. call'[b] = call[b] /\ call[b] \in Call
      BY Absent DEF Typed
    <2>2. call[b].key \in Key /\ call[b].gen \in Gen
      BY <2>1 DEF Call
    <2>3. active[call[b].key].gen = call[b].gen => krn[call[b].key] \in {"none", "zombie"}
      BY <2>1 DEF Verdicts
    <2>4. CASE call[b].key # k
      BY <2>1, <2>2, <2>3, <2>4, <1>1
    <2>5. CASE call[b].key = k
      BY <2>1, <2>2, <2>3, <2>5, <1>3, Absent
    <2> QED  BY <2>4, <2>5
  <1> QED  BY <1>4, <1>5

\* Work is taken off the list, or replaced.
LEMMA TodoKept ==
    ASSUME Typed, NEW a \in Actor, NEW i, NEW is \in SUBSET Work, Becomes(a, i, is)
    PROVE  /\ todo' \in [Actor -> SUBSET Work]
           /\ todo'[a] = (todo[a] \ {i}) \cup is
           /\ \A b \in Actor \ {a} : todo'[b] = todo[b]
  BY DEF Typed, Becomes

\* The same when nothing takes its place.
LEMMA TodoDone ==
    ASSUME Typed, NEW a \in Actor, NEW i, Done(a, i)
    PROVE  /\ todo' \in [Actor -> SUBSET Work]
           /\ todo'[a] = todo[a] \ {i}
           /\ \A b \in Actor \ {a} : todo'[b] = todo[b]
  BY DEF Typed, Done

\* noteReconcileFailure and clearReconcileErr.
LEMMA SettleTyped ==
    ASSUME Typed, NEW a, NEW k \in Key, NEW est, NEW ok, Settle(a, k, est, ok)
    PROVE  backoff' \subseteq Key
  BY DEF Typed, Settle

-----------------------------------------------------------------------------
(* Each action preserves the invariant.                                    *)

\* Mount finds the entry it is asked for and joins or starts its probe.
LEMMA AskProbe ==
    ASSUME IInv, NEW a \in Actor, NEW i \in todo[a], MountBegin(a, i),
           SameEndpoint(active[i.key], i.ep)
    PROVE  IInv'
  <1> DEFINE k == i.key
             m == active[k]
             c == [gen |-> m.gen, key |-> k, ep |-> i.ep, est |-> i.est, health |-> "wait"]
  <1>1. Typed /\ Roles /\ Guarding /\ Probing /\ Verdicts
    BY DEF IInv
  <1>2. /\ Done(a, i) /\ i.op = "mount"
        /\ call' = [call EXCEPT ![a] = c]
        /\ probe' = [probe EXCEPT ![k] = m.gen]
        /\ stats' = IF probe[k] = m.gen THEN stats ELSE [stats EXCEPT ![k][m.gen] = @ + 1]
        /\ UNCHANGED <<cfg, online, paired, active, krn, mode, full, faults, backoff, phase, inputs>>
    BY DEF MountBegin, Ready, known, table
  <1>3. i \in Work
    BY <1>1 DEF Typed
  <1>4. i \in MountWork /\ k \in Key /\ i.ep \in Endpoint /\ i.est \in BOOLEAN
    BY <1>2, <1>3, WorkShape DEF MountWork
  <1>5. m \in Mounted /\ m # NoMount /\ m.gen \in Gen
    BY <1>1, <1>4, Absent, MountsAssumption DEF SameEndpoint, Typed
  <1>6. c \in Call /\ c # NoCall
    BY <1>4, <1>5, Absent DEF Call
  <1>7. /\ todo' \in [Actor -> SUBSET Work] /\ todo'[a] = todo[a] \ {i}
        /\ \A b \in Actor \ {a} : todo'[b] = todo[b]
    BY <1>1, <1>2, TodoDone
  <1>8. m.gen \in 0..MaxGen
    BY <1>5, MountsAssumption DEF Gen
  <1> HIDE DEF c
  <1>9. Typed'
    <2>1. call' \in [Actor -> Call \cup {NoCall}]
      BY <1>1, <1>2, <1>6 DEF Typed
    <2>2. probe' \in [Key -> 0..MaxGen]
      BY <1>1, <1>2, <1>4, <1>8 DEF Typed
    <2>3. stats' \in [Key -> [Gen -> Nat]]
      BY <1>1, <1>2, <1>4, <1>5 DEF Typed
    <2> QED  BY <1>1, <1>2, <1>7, <2>1, <2>2, <2>3 DEF Typed
  <1>10. Roles'
    <2>1. \A b \in Actor : todo'[b] \subseteq todo[b]
      BY <1>7
    <2> QED  BY <1>1, <1>2, <2>1, RolesKept
  <1>11. Guarding'
    <2>1. \A j \in todo["watcher"] : j \in todo'["watcher"] \/ j.key = k
      BY <1>7 DEF Actor
    <2> QED  BY <1>1, <1>2, <1>5, <2>1, GuardingKept
  <1>12. Probing'
    <2> SUFFICES ASSUME NEW j \in Key, NEW g \in Gen
                 PROVE  /\ stats'[j][g] <= 1
                        /\ active[j].gen = g /\ stats'[j][g] > 0 => probe'[j] = g
      BY <1>2 DEF Probing
    <2>1. stats[j][g] <= 1 /\ (active[j].gen = g /\ stats[j][g] > 0 => probe[j] = g)
      BY <1>1 DEF Probing
    <2>2. stats[j][g] \in Nat
      BY <1>1 DEF Typed
    <2>3. stats'[j][g] = IF probe[k] # m.gen /\ j = k /\ g = m.gen THEN stats[j][g] + 1
                         ELSE stats[j][g]
      BY <1>1, <1>2, <1>4, <1>5 DEF Typed
    <2>4. probe'[j] = IF j = k THEN m.gen ELSE probe[j]
      BY <1>1, <1>2, <1>4 DEF Typed
    <2> QED  BY <2>1, <2>2, <2>3, <2>4
  <1>13. Verdicts'
    <2> SUFFICES ASSUME NEW b \in Actor, call'[b] # NoCall, call'[b].health = "dead",
                        active[call'[b].key].gen = call'[b].gen
                 PROVE  krn[call'[b].key] \in {"none", "zombie"}
      BY <1>2 DEF Verdicts
    <2>1. b # a
      BY <1>1, <1>2 DEF c, Typed
    <2>2. call'[b] = call[b]
      BY <1>1, <1>2, <2>1 DEF Typed
    <2> QED  BY <1>1, <2>2 DEF Verdicts
  <1> QED  BY <1>9, <1>10, <1>11, <1>12, <1>13 DEF IInv

\* Mount finds no entry, or one of another endpoint.
LEMMA MountAnew ==
    ASSUME IInv, NEW a \in Actor, NEW i \in todo[a], MountBegin(a, i),
           ~ SameEndpoint(active[i.key], i.ep)
    PROVE  \E o \in Outcome :
              /\ Apply(i.key, o) /\ Settle(a, i.key, i.est, o.ok)
              /\ o.faults <= faults /\ Guards(o)
              /\ \/ Kept(i.key, o)
                 \/ Freed(o)
                 \/ Made(i.key, i.ep, o)
  <1>1. Typed
    BY DEF IInv
  <1>2. i \in Work /\ i.op = "mount"
    BY <1>1 DEF Typed, MountBegin, Ready
  <1>3. i.key \in Key /\ i.ep \in Endpoint
    BY <1>2, WorkShape DEF MountWork
  <1>4. krn[i.key] \in Kernel /\ faults \in Int
    BY <1>1, <1>3, MountsAssumption DEF Typed
  <1>5. PICK o \in IF active[i.key] = NoMount THEN Establish(a, i.key, i.ep, krn[i.key], faults)
                   ELSE Remount(a, i.key, i.ep) :
           Apply(i.key, o) /\ Settle(a, i.key, i.est, o.ok)
    BY DEF MountBegin
  <1>6. CASE active[i.key] = NoMount
    <2>1. o \in Establish(a, i.key, i.ep, krn[i.key], faults)
      BY <1>5, <1>6
    <2>2. /\ o \in Outcome /\ o.faults <= faults /\ Guards(o)
          /\ Freed(o) \/ Made(i.key, i.ep, o)
      BY <1>1, <1>3, <1>4, <2>1, EstablishOut
    <2> QED  BY <1>5, <2>2
  <1>7. CASE active[i.key] # NoMount
    <2>1. o \in Remount(a, i.key, i.ep)
      BY <1>5, <1>7
    <2>2. /\ o \in Outcome /\ o.faults <= faults /\ Guards(o)
          /\ Kept(i.key, o) \/ Freed(o) \/ Made(i.key, i.ep, o)
      BY <1>1, <1>3, <1>7, <2>1, RemountOut
    <2> QED  BY <1>5, <2>2
  <1> QED  BY <1>6, <1>7

\* Mount up to where it gives the mutex up or returns.
LEMMA MountBeginStep ==
    ASSUME IInv, NEW a \in Actor, NEW i \in todo[a], MountBegin(a, i)
    PROVE  IInv'
  <1>1. CASE SameEndpoint(active[i.key], i.ep)
    BY <1>1, AskProbe
  <1>2. CASE ~ SameEndpoint(active[i.key], i.ep)
    <2>1. Typed /\ Roles /\ Guarding /\ Probing /\ Verdicts
      BY DEF IInv
    <2>2. /\ Done(a, i) /\ i.op = "mount"
          /\ UNCHANGED <<cfg, online, paired, call, probe, stats, phase, inputs>>
      BY <1>2 DEF MountBegin, Ready, known, probes
    <2>3. i \in Work
      BY <2>1 DEF Typed
    <2>4. i.key \in Key /\ i.ep \in Endpoint
      BY <2>2, <2>3, WorkShape DEF MountWork
    <2>5. PICK o \in Outcome :
              /\ Apply(i.key, o) /\ Settle(a, i.key, i.est, o.ok)
              /\ o.faults <= faults /\ Guards(o)
              /\ Kept(i.key, o) \/ Freed(o) \/ Made(i.key, i.ep, o)
      BY <1>2, MountAnew
    <2>6. /\ active' \in [Key -> Mounted] /\ krn' \in [Key -> Kernel]
          /\ mode' \in [Key -> Mode] /\ full' = full /\ faults' \in 0..MaxFaults
          /\ active'[i.key] = o.active /\ krn'[i.key] = o.krn /\ mode'[i.key] = o.mode
          /\ \A j \in Key \ {i.key} :
                active'[j] = active[j] /\ krn'[j] = krn[j] /\ mode'[j] = mode[j]
      BY <2>1, <2>4, <2>5, Applied
    <2>7. /\ todo' \in [Actor -> SUBSET Work] /\ todo'[a] = todo[a] \ {i}
          /\ \A b \in Actor \ {a} : todo'[b] = todo[b]
      BY <2>1, <2>2, TodoDone
    <2>8. backoff' \subseteq Key
      BY <2>1, <2>4, <2>5, SettleTyped
    <2>9. Typed'
      BY <2>1, <2>2, <2>6, <2>7, <2>8 DEF Typed
    <2>10. Roles'
      <3>1. \A b \in Actor : todo'[b] \subseteq todo[b]
        BY <2>7
      <3> QED  BY <2>1, <2>2, <3>1, RolesKept
    <2>11. Guarding'
      <3>1. \A j \in todo["watcher"] : j \in todo'["watcher"] \/ j.key = i.key
        BY <2>7 DEF Actor
      <3>2. active'[i.key] = NoMount => mode'[i.key] \in Shut
        BY <2>5, <2>6 DEF Guards
      <3> QED  BY <2>1, <2>2, <2>6, <3>1, <3>2, GuardingKept
    <2>12. Probing' /\ Verdicts'
      BY <2>1, <2>2, <2>4, <2>5, SectionKeeps DEF probes
    <2> QED  BY <2>9, <2>10, <2>11, <2>12 DEF IInv
  <1> QED  BY <1>1, <1>2

\* Mount with its verdict: nothing, or the mount is replaced.
LEMMA Resumed ==
    ASSUME IInv, NEW a \in Actor, MountResume(a)
    PROVE  /\ call[a] \in Call
           /\ \/ UNCHANGED <<table, faults>> /\ Settle(a, call[a].key, call[a].est, TRUE)
              \/ /\ active[call[a].key].gen = call[a].gen /\ call[a].health = "dead"
                 /\ active[call[a].key] # NoMount
                 /\ \E o \in Outcome :
                      /\ Apply(call[a].key, o)
                      /\ Settle(a, call[a].key, call[a].est, o.ok)
                      /\ o.faults <= faults /\ Guards(o)
                      /\ \/ Kept(call[a].key, o)
                         \/ Freed(o)
                         \/ Made(call[a].key, call[a].ep, o)
  <1>1. Typed
    BY DEF IInv
  <1>2. call[a] \in Call
    BY <1>1, Absent DEF MountResume, Typed
  <1>3. call[a].key \in Key /\ call[a].ep \in Endpoint /\ call[a].gen \in Gen
    BY <1>2 DEF Call
  <1>4. CASE Outdated(call[a]) \/ call[a].health # "dead"
    BY <1>2, <1>4 DEF MountResume
  <1>5. CASE ~ (Outdated(call[a]) \/ call[a].health # "dead")
    <2>1. PICK o \in Remount(a, call[a].key, call[a].ep) :
             Apply(call[a].key, o) /\ Settle(a, call[a].key, call[a].est, o.ok)
      BY <1>5 DEF MountResume
    <2>2. active[call[a].key].gen = call[a].gen /\ call[a].health = "dead"
      BY <1>5 DEF Outdated
    <2>3. active[call[a].key] # NoMount
      BY <1>3, <2>2, Absent
    <2>4. /\ o \in Outcome /\ o.faults <= faults /\ Guards(o)
          /\ Kept(call[a].key, o) \/ Freed(o) \/ Made(call[a].key, call[a].ep, o)
      BY <1>1, <1>3, <2>1, <2>3, RemountOut
    <2> QED  BY <1>2, <2>1, <2>2, <2>3, <2>4
  <1> QED  BY <1>4, <1>5

\* Mount once it has the verdict and the mutex again.
LEMMA MountResumeStep ==
    ASSUME IInv, NEW a \in Actor, MountResume(a)
    PROVE  IInv'
  <1> DEFINE k == call[a].key
  <1>1. Typed /\ Roles /\ Guarding /\ Probing /\ Verdicts
    BY DEF IInv
  <1>2. /\ call' = [call EXCEPT ![a] = NoCall]
        /\ UNCHANGED <<cfg, online, paired, probe, stats, todo, phase, inputs>>
    BY DEF MountResume, known, probes
  <1>3. call[a] \in Call /\ k \in Key /\ call[a].ep \in Endpoint
    BY Resumed DEF Call
  <1>4. /\ call' \in [Actor -> Call \cup {NoCall}]
        /\ \A b \in Actor : call'[b] = call[b] \/ call'[b] = NoCall
    BY <1>1, <1>2 DEF Typed
  <1>5. Roles'
    BY <1>1, <1>2, RolesKept
  <1>6. CASE UNCHANGED <<table, faults>> /\ Settle(a, k, call[a].est, TRUE)
    <2>1. backoff' \subseteq Key
      BY <1>1, <1>3, <1>6, SettleTyped
    <2>2. Typed'
      BY <1>1, <1>2, <1>4, <1>6, <2>1 DEF Typed, table
    <2>3. Guarding'
      BY <1>1, <1>2, <1>6, GuardingSame
    <2>4. Probing'
      BY <1>1, <1>2, <1>6, ProbingSame DEF table, probes
    <2>5. Verdicts'
      BY <1>1, <1>4, <1>6 DEF Verdicts, table
    <2> QED  BY <1>5, <2>2, <2>3, <2>4, <2>5 DEF IInv
  <1>7. ASSUME NEW o \in Outcome, Apply(k, o), Settle(a, k, call[a].est, o.ok),
               o.faults <= faults, Guards(o),
               Kept(k, o) \/ Freed(o) \/ Made(k, call[a].ep, o)
        PROVE  IInv'
    <2>1. backoff' \subseteq Key
      BY <1>1, <1>3, <1>7, SettleTyped
    <2>2. /\ active' \in [Key -> Mounted] /\ krn' \in [Key -> Kernel]
          /\ mode' \in [Key -> Mode] /\ full' = full /\ faults' \in 0..MaxFaults
          /\ active'[k] = o.active /\ krn'[k] = o.krn /\ mode'[k] = o.mode
          /\ \A j \in Key \ {k} :
                active'[j] = active[j] /\ krn'[j] = krn[j] /\ mode'[j] = mode[j]
      BY <1>1, <1>3, <1>7, Applied
    <2>3. Typed'
      BY <1>1, <1>2, <1>4, <2>1, <2>2 DEF Typed
    <2>4. Guarding'
      <3>1. active'[k] = NoMount => mode'[k] \in Shut
        BY <1>7, <2>2 DEF Guards
      <3> QED  BY <1>1, <1>2, <2>2, <3>1, GuardingKept
    <2>5. Probing' /\ Verdicts'
      BY <1>1, <1>2, <1>3, <1>4, <1>7, SectionKeeps DEF probes
    <2> QED  BY <1>5, <2>3, <2>4, <2>5 DEF IInv
  <1> QED  BY <1>6, <1>7, Resumed

\* The wait ends before the probe does.
LEMMA ProbeTimeoutStep ==
    ASSUME IInv, NEW a \in Actor, ProbeTimeout(a)
    PROVE  IInv'
  <1>1. Typed /\ Roles /\ Guarding /\ Probing /\ Verdicts
    BY DEF IInv
  <1>2. /\ call[a] # NoCall /\ call' = [call EXCEPT ![a].health = "unknown"]
        /\ UNCHANGED <<cfg, online, paired, active, krn, mode, full, probe, stats, todo, backoff,
                       phase, faults, inputs>>
    BY DEF ProbeTimeout, known, table, probes
  <1>3. call[a] \in Call
    BY <1>1, <1>2, Absent DEF Typed
  <1>4. [call[a] EXCEPT !.health = "unknown"] \in Call
    BY <1>3 DEF Call
  <1>5. /\ call' \in [Actor -> Call \cup {NoCall}]
        /\ call'[a].health = "unknown"
        /\ \A b \in Actor \ {a} : call'[b] = call[b]
    BY <1>1, <1>2, <1>3, <1>4 DEF Typed, Call
  <1>6. Typed'
    BY <1>1, <1>2, <1>5 DEF Typed
  <1>7. Verdicts'
    BY <1>1, <1>2, <1>5 DEF Verdicts
  <1>8. Roles' /\ Guarding' /\ Probing'
    BY <1>1, <1>2, RolesKept, GuardingSame, ProbingSame DEF table, probes
  <1> QED  BY <1>6, <1>7, <1>8 DEF IInv

\* A stat returns: its verdict goes to the callers that wait for that generation.
LEMMA RunProbeStep ==
    ASSUME IInv, NEW k \in Key, NEW g \in Gen, NEW odd \in 0..1, RunProbe(k, g, odd)
    PROVE  IInv'
  <1>1. Typed /\ Roles /\ Guarding /\ Probing /\ Verdicts
    BY DEF IInv
  <1>2. /\ stats[k][g] > 0
        /\ active[k].gen = g => krn[k] # "wedged"
        /\ stats' = [stats EXCEPT ![k][g] = @ - 1]
        /\ probe' = [probe EXCEPT ![k] = Deregister(k, g)]
        /\ call' = [a \in Actor |->
                      IF /\ call[a].gen = g /\ call[a].key = k
                         /\ call[a].health = "wait"
                      THEN [call[a] EXCEPT !.health = Classify(krn[k], odd)]
                      ELSE call[a]]
        /\ faults' = faults - odd /\ odd <= faults
        /\ UNCHANGED <<cfg, online, paired, active, krn, mode, full, todo, backoff, phase, inputs>>
    BY DEF RunProbe, known, table
  <1>3. \A j \in Key, h \in Gen : stats[j][h] \in Nat
    BY <1>1 DEF Typed
  <1>4. /\ stats' \in [Key -> [Gen -> Nat]]
        /\ \A j \in Key, h \in Gen :
              stats'[j][h] = IF j = k /\ h = g THEN stats[j][h] - 1 ELSE stats[j][h]
    <2>1. stats[k][g] - 1 \in Nat
      BY <1>2, <1>3
    <2> QED  BY <1>1, <1>2, <2>1 DEF Typed
  <1>5. /\ probe' \in [Key -> 0..MaxGen]
        /\ \A j \in Key : probe'[j] = IF j = k /\ probe[k] = g THEN 0 ELSE probe[j]
    <2>1. Deregister(k, g) \in 0..MaxGen
      BY <1>1, MountsAssumption DEF Deregister, Typed
    <2> QED  BY <1>1, <1>2, <2>1 DEF Deregister, Typed
  <1>6. ASSUME NEW a \in Actor
        PROVE  /\ call'[a] \in Call \cup {NoCall}
               /\ \/ call'[a] = call[a]
                  \/ /\ call'[a].gen = g /\ call'[a].key = k
                     /\ call'[a].health = Classify(krn[k], odd)
    <2>1. CASE call[a].gen = g /\ call[a].key = k /\ call[a].health = "wait"
      <3>1. call[a] \in Call
        BY <1>1, <2>1, Absent DEF Typed
      <3>2. Classify(krn[k], odd) \in {"wait", "healthy", "dead", "unknown"}
        BY DEF Classify
      <3>3. call'[a] = [call[a] EXCEPT !.health = Classify(krn[k], odd)]
        BY <1>2, <2>1
      <3> HIDE DEF Classify
      <3> QED  BY <2>1, <3>1, <3>2, <3>3 DEF Call
    <2>2. CASE ~ (call[a].gen = g /\ call[a].key = k /\ call[a].health = "wait")
      BY <1>1, <1>2, <2>2 DEF Typed
    <2> QED  BY <2>1, <2>2
  <1>7. call' \in [Actor -> Call \cup {NoCall}]
    <2>1. call' = [a \in Actor |-> call'[a]]
      BY <1>2
    <2> QED  BY <1>6, <2>1
  <1>8. Typed'
    <2>1. faults' \in 0..MaxFaults
      BY <1>1, <1>2, MountsAssumption DEF Typed
    <2> QED  BY <1>1, <1>2, <1>4, <1>5, <1>7, <2>1 DEF Typed
  <1>9. Probing'
    <2> SUFFICES ASSUME NEW j \in Key, NEW h \in Gen
                 PROVE  /\ stats'[j][h] <= 1
                        /\ active[j].gen = h /\ stats'[j][h] > 0 => probe'[j] = h
      BY <1>2 DEF Probing
    <2>1. stats[j][h] <= 1 /\ (active[j].gen = h /\ stats[j][h] > 0 => probe[j] = h)
      BY <1>1 DEF Probing
    <2> QED  BY <1>3, <1>4, <1>5, <2>1
  <1>10. Verdicts'
    <2> SUFFICES ASSUME NEW a \in Actor, call'[a] # NoCall, call'[a].health = "dead",
                        active[call'[a].key].gen = call'[a].gen
                 PROVE  krn[call'[a].key] \in {"none", "zombie"}
      BY <1>2 DEF Verdicts
    <2>1. CASE call'[a] = call[a]
      BY <1>1, <2>1 DEF Verdicts
    <2>2. CASE /\ call'[a].gen = g /\ call'[a].key = k
               /\ call'[a].health = Classify(krn[k], odd)
      <3>1. krn[k] \in Kernel
        BY <1>1 DEF Typed
      <3> QED  BY <1>2, <2>2, <3>1 DEF Classify, Kernel
    <2> QED  BY <1>6, <2>1, <2>2
  <1>11. Roles' /\ Guarding'
    BY <1>1, <1>2, RolesKept, GuardingSame DEF table
  <1> QED  BY <1>8, <1>9, <1>10, <1>11 DEF IInv

\* Unmount: nothing, or the entry goes; the entry goes unguarded at shutdown only.
LEMMA Unmounted ==
    ASSUME IInv, NEW a \in Actor, NEW op \in {"unmount", "drop", "final"},
           NEW i \in todo[a], Ready(a, op, i), active[i.key] # NoMount,
           NEW o \in UnmountKey(a, i.key, op # "final")
    PROVE  /\ i.key \in Key /\ o \in Outcome /\ o.faults <= faults
           /\ Kept(i.key, o) \/ Freed(o)
           /\ phase # "running" \/ Guards(o)
  <1>1. Typed /\ Roles
    BY DEF IInv
  <1>2. i \in Work /\ i.op = op
    BY <1>1 DEF Typed, Ready
  <1>3. i.key \in Key
    BY <1>2, WorkShape
  <1>4. (op # "final") \in BOOLEAN
    OBVIOUS
  <1>5. /\ o \in Outcome /\ o.faults <= faults
        /\ ~ o.ok => Kept(i.key, o)
        /\ o.ok => Freed(o)
        /\ o.ok /\ op # "final" => Guards(o)
    BY <1>1, <1>3, <1>4, UnmountOut
  <1>6. op = "final" => phase # "running"
    BY <1>1, <1>2 DEF Roles, Due
  <1>7. Kept(i.key, o) => Guards(o)
    BY DEF Kept, Guards
  <1> QED  BY <1>3, <1>5, <1>6, <1>7

\* Unmount and the bodies of the loops of UnmountDevice and unmountAll.
LEMMA UnmountStep ==
    ASSUME IInv, NEW a \in Actor, NEW op \in {"unmount", "drop", "final"}, Unmount(a, op)
    PROVE  IInv'
  <1>1. Typed /\ Roles /\ Guarding /\ Probing /\ Verdicts
    BY DEF IInv
  <1>2. PICK i \in todo[a] :
           /\ Ready(a, op, i)
           /\ Becomes(a, i, IF op = "drop" THEN {Do("unguard", i.key)} ELSE {})
           /\ IF active[i.key] = NoMount THEN UNCHANGED <<table, faults>>
              ELSE \E o \in UnmountKey(a, i.key, op # "final") : Apply(i.key, o)
           /\ UNCHANGED <<cfg, online, paired, probe, stats, call, backoff, phase, inputs>>
    BY DEF Unmount, known, probes
  <1> DEFINE is == IF op = "drop" THEN {Do("unguard", i.key)} ELSE {}
  <1>3. i \in Work /\ i.op = op /\ i.key \in Key
    BY <1>1, <1>2, WorkShape DEF Typed, Ready
  <1>4. is \in SUBSET Work
    BY <1>3, WorkMade
  <1>5. \A j \in is : op = "drop" /\ j.op = "unguard" /\ j.key = i.key
    BY DEF Do
  <1> HIDE DEF is
  <1>6. /\ todo' \in [Actor -> SUBSET Work] /\ todo'[a] = (todo[a] \ {i}) \cup is
        /\ \A b \in Actor \ {a} : todo'[b] = todo[b]
    <2>1. Becomes(a, i, is)
      BY <1>2 DEF is
    <2> QED  BY <1>1, <1>4, <2>1, TodoKept
  <1>7. Roles'
    <2>1. op = "drop" => a = "watcher" /\ i.key \notin cfg
      BY <1>1, <1>3 DEF Roles, Due
    <2>2. \A b \in Actor : \A j \in todo'[b] :
             \/ j \in todo[b]
             \/ j.op = "unguard" /\ b = "watcher" /\ j.key \notin cfg
      BY <1>5, <1>6, <2>1
    <2> QED  BY <1>1, <1>2, <2>2, RolesKept
  <1>8. \A j \in todo["watcher"] :
           j.op \in {"try", "chmod", "mount"} => j \in todo'["watcher"]
    BY <1>3, <1>6 DEF Actor
  <1>9. CASE active[i.key] = NoMount
    <2>1. UNCHANGED <<active, krn, mode, full, faults>>
      BY <1>2, <1>9 DEF table
    <2>2. Typed'
      BY <1>1, <1>2, <1>6, <2>1 DEF Typed
    <2>3. Guarding' /\ Probing' /\ Verdicts'
      BY <1>1, <1>2, <1>8, <2>1, GuardingSame, ProbingSame, VerdictsSame DEF table, probes
    <2> QED  BY <1>7, <2>2, <2>3 DEF IInv
  <1>10. CASE active[i.key] # NoMount
    <2>1. PICK o \in UnmountKey(a, i.key, op # "final") : Apply(i.key, o)
      BY <1>2, <1>10
    <2>2. /\ o \in Outcome /\ o.faults <= faults
          /\ Kept(i.key, o) \/ Freed(o)
          /\ phase # "running" \/ Guards(o)
      BY <1>2, <1>10, Unmounted
    <2>3. /\ active' \in [Key -> Mounted] /\ krn' \in [Key -> Kernel]
          /\ mode' \in [Key -> Mode] /\ full' = full /\ faults' \in 0..MaxFaults
          /\ active'[i.key] = o.active /\ krn'[i.key] = o.krn /\ mode'[i.key] = o.mode
          /\ \A j \in Key \ {i.key} :
                active'[j] = active[j] /\ krn'[j] = krn[j] /\ mode'[j] = mode[j]
      BY <1>1, <1>3, <2>1, <2>2, Applied
    <2>4. Typed'
      BY <1>1, <1>2, <1>6, <2>3 DEF Typed
    <2>5. Guarding'
      <3>1. phase' = "running" /\ active'[i.key] = NoMount
               => mode'[i.key] \in Shut
        BY <1>2, <2>2, <2>3 DEF Guards
      <3> QED  BY <1>1, <1>2, <1>8, <2>3, <3>1, GuardingKept
    <2>6. active[i.key].ep \in Endpoint
      BY <1>1, <1>3, <1>10, Absent DEF Typed
    <2>7. Probing' /\ Verdicts'
      BY <1>1, <1>2, <1>3, <2>1, <2>2, <2>6, SectionKeeps DEF probes
    <2> QED  BY <1>7, <2>4, <2>5, <2>7 DEF IInv
  <1> QED  BY <1>9, <1>10

\* guardTarget and unguardTarget without the mutex.
LEMMA ChmodStep ==
    ASSUME IInv, NEW a \in Actor, NEW op \in {"chmod", "unguard"}, Chmod(a, op)
    PROVE  IInv'
  <1>1. Typed /\ Roles /\ Guarding /\ Probing /\ Verdicts
    BY DEF IInv
  <1>2. PICK i \in todo[a] :
           /\ Ready(a, op, i)
           /\ \E g \in IF op = "chmod" THEN Guard(krn[i.key], mode[i.key], faults)
                       ELSE Unguard(krn[i.key], mode[i.key], faults) :
                 /\ g.faults >= 0
                 /\ mode' = [mode EXCEPT ![i.key] = g.mode]
                 /\ faults' = g.faults
           /\ Done(a, i)
           /\ UNCHANGED <<cfg, online, paired, active, krn, full, probe, stats, call, backoff,
                          phase, inputs>>
    BY DEF Chmod, known, probes
  <1>3. i \in Work /\ i.op = op /\ i.key \in Key
    BY <1>1, <1>2, WorkShape DEF Typed, Ready
  <1>4. /\ todo' \in [Actor -> SUBSET Work] /\ todo'[a] = todo[a] \ {i}
        /\ \A b \in Actor \ {a} : todo'[b] = todo[b]
    BY <1>1, <1>2, TodoDone
  <1>5. /\ mode' \in [Key -> Mode] /\ faults' \in 0..MaxFaults
        /\ \A j \in Key \ {i.key} : mode'[j] = mode[j]
        /\ op = "chmod" => mode'[i.key] \in Shut
    <2>1. mode[i.key] \in Mode /\ faults \in Int /\ faults <= MaxFaults
      BY <1>1, <1>3, MountsAssumption DEF Typed
    <2>2. PICK g \in IF op = "chmod" THEN Guard(krn[i.key], mode[i.key], faults)
                     ELSE Unguard(krn[i.key], mode[i.key], faults) :
             /\ g.faults >= 0
             /\ mode' = [mode EXCEPT ![i.key] = g.mode]
             /\ faults' = g.faults
      BY <1>2
    <2>3. /\ g.mode \in Mode /\ g.faults \in Int /\ g.faults <= faults
          /\ op = "chmod" => g.mode \in Shut
      <3>1. CASE op = "chmod"
        BY <2>1, <2>2, <3>1, GuardOut
      <3>2. CASE op = "unguard"
        BY <2>1, <2>2, <3>2 DEF Unguard, Chmodded, Mode
      <3> QED  BY <3>1, <3>2
    <2>4. faults' \in 0..MaxFaults
      BY <2>1, <2>2, <2>3, MountsAssumption
    <2> QED  BY <1>1, <1>3, <2>2, <2>3, <2>4 DEF Typed
  <1>6. Typed'
    BY <1>1, <1>2, <1>4, <1>5 DEF Typed
  <1>7. Roles'
    <2>1. \A b \in Actor : todo'[b] \subseteq todo[b]
      BY <1>4
    <2> QED  BY <1>1, <1>2, <2>1, RolesKept
  <1>8. Guarding'
    <2>1. op = "unguard" => i.key \notin cfg
      BY <1>1, <1>3 DEF Roles, Due
    <2>2. \A j \in todo["watcher"] : j \in todo'["watcher"] \/ j.key = i.key
      BY <1>4 DEF Actor
    <2> QED  BY <1>1, <1>2, <1>5, <2>1, <2>2, GuardingKept
  <1>9. Probing' /\ Verdicts'
    <2>1. Probing'
      BY <1>1, <1>2, ProbingSame DEF probes
    <2>2. Verdicts'
      BY <1>1, <1>2 DEF Verdicts
    <2> QED  BY <2>1, <2>2
  <1> QED  BY <1>6, <1>7, <1>8, <1>9 DEF IInv

\* What the hub tells changes the reasons of the events' own work only.
LEMMA RolesEvents ==
    ASSUME Typed, Roles, cfg' = cfg, phase' = phase,
           \A b \in Actor \ {"events"} : todo'[b] = todo[b],
           \A i \in todo'["events"] : Due("events", i)'
    PROVE  Roles'
  <1> SUFFICES ASSUME NEW b \in Actor, b # "events", NEW i \in todo'[b]  PROVE Due(b, i)'
    BY DEF Roles
  <1>1. i \in todo[b]
    OBVIOUS
  <1>2. Due(b, i)
    BY <1>1 DEF Roles
  <1> QED  BY <1>2 DEF Due

\* An input is taken with nothing left to do, and gives the goroutine its work.
LEMMA InputTakes ==
    ASSUME Typed, NEW a \in Actor, Input(a), NEW is \in SUBSET Work,
           todo' = [todo EXCEPT ![a] = is]
    PROVE  /\ todo' \in [Actor -> SUBSET Work] /\ todo'[a] = is /\ todo[a] = {}
           /\ \A b \in Actor \ {a} : todo'[b] = todo[b]
           /\ inputs' \in 0..MaxInputs
           /\ UNCHANGED <<active, krn, mode, full, probe, stats, call, backoff, phase, faults>>
  BY MountsAssumption DEF Typed, Input, table, probes

\* An event of the hub: the new work must be due.
LEMMA EventKeeps ==
    ASSUME IInv, Input("events"), NEW is \in SUBSET Work,
           todo' = [todo EXCEPT !["events"] = is], cfg' = cfg,
           online' \in [Peer -> Info \cup {NoPeer}], paired' \subseteq Peer,
           \A i \in todo'["events"] : Due("events", i)'
    PROVE  IInv'
  <1>1. Typed /\ Roles /\ Guarding /\ Probing /\ Verdicts
    BY DEF IInv
  <1>2. /\ todo' \in [Actor -> SUBSET Work]
        /\ \A b \in Actor \ {"events"} : todo'[b] = todo[b]
        /\ inputs' \in 0..MaxInputs
        /\ UNCHANGED <<active, krn, mode, full, probe, stats, call, backoff, phase, faults>>
    BY <1>1, InputTakes DEF Actor
  <1>3. Typed'
    BY <1>1, <1>2 DEF Typed
  <1>4. Roles'
    BY <1>1, <1>2, RolesEvents
  <1>5. todo'["watcher"] = todo["watcher"]
    BY <1>2 DEF Actor
  <1>6. Guarding' /\ Probing' /\ Verdicts'
    BY <1>1, <1>2, <1>5, GuardingSame, ProbingSame, VerdictsSame DEF table, probes
  <1> QED  BY <1>3, <1>4, <1>6 DEF IInv

\* mountsForOnlineDevice lists mounts of configured shares.
LEMMA OnlineWork ==
    ASSUME Typed, NEW p \in Peer, NEW info \in Info
    PROVE  /\ MountsForOnlineDevice(p, info) \in SUBSET Work
           /\ OnlineMounts(p, info) \in SUBSET Work
           /\ \A i \in MountsForOnlineDevice(p, info) : i.op = "mount"
           /\ \A i \in OnlineMounts(p, info) : i.op = "mount"
  <1>1. info.ep \in Endpoint
    BY DEF Info
  <1>2. ASSUME NEW i \in MountsForOnlineDevice(p, info)  PROVE i \in Work /\ i.op = "mount"
    <2>1. PICK s \in info.shares : <<p, s>> \in cfg /\ i = MountAt(<<p, s>>, info.ep, FALSE)
      BY DEF MountsForOnlineDevice
    <2>2. <<p, s>> \in Key
      BY <2>1 DEF Typed
    <2>3. MountAt(<<p, s>>, info.ep, FALSE) \in MountWork
      BY <1>1, <2>2 DEF MountAt, MountWork
    <2> QED  BY <2>1, <2>3 DEF Work, MountWork
  <1> QED  BY <1>2 DEF OnlineMounts

\* A device comes online.
LEMMA DeviceOnlineStep ==
    ASSUME IInv, NEW p \in Peer, NEW info \in Info, DeviceOnline(p, info)
    PROVE  IInv'
  <1>1. Typed
    BY DEF IInv
  <1>2. /\ Input("events") /\ online' = [online EXCEPT ![p] = info]
        /\ todo' = [todo EXCEPT !["events"] = OnlineMounts(p, info)]
        /\ UNCHANGED <<cfg, paired>>
    BY DEF DeviceOnline
  <1>3. online' \in [Peer -> Info \cup {NoPeer}] /\ paired' \subseteq Peer
    BY <1>1, <1>2 DEF Typed
  <1>4. todo'["events"] = OnlineMounts(p, info)
    BY <1>1, <1>2 DEF Typed, Actor
  <1>5. \A i \in todo'["events"] : Due("events", i)'
    BY <1>1, <1>4, OnlineWork DEF Due
  <1> QED  BY <1>1, <1>2, <1>3, <1>5, OnlineWork, EventKeeps

\* A device goes: its mounts are to be removed, and it has no endpoint.
LEMMA DeviceOfflineStep ==
    ASSUME IInv, NEW p \in Peer, DeviceOffline(p)
    PROVE  IInv'
  <1> DEFINE ks == {j \in Key : j[1] = p /\ active[j] # NoMount}
             is == {Do("unmount", k) : k \in ks}
  <1>1. Typed
    BY DEF IInv
  <1>2. /\ Input("events") /\ online' = [online EXCEPT ![p] = NoPeer]
        /\ todo' = [todo EXCEPT !["events"] = is]
        /\ UNCHANGED <<cfg, paired>>
    BY DEF DeviceOffline
  <1>3. online' \in [Peer -> Info \cup {NoPeer}] /\ paired' \subseteq Peer /\ online'[p] = NoPeer
    BY <1>1, <1>2 DEF Typed
  <1>4. is \in SUBSET Work
    BY WorkMade
  <1>5. \A i \in is : i.op = "unmount" /\ i.key[1] = p
    BY DEF Do
  <1> HIDE DEF is
  <1>6. todo'["events"] = is
    BY <1>1, <1>2 DEF Typed, Actor
  <1>7. \A i \in todo'["events"] : Due("events", i)'
    <2> SUFFICES ASSUME NEW i \in is  PROVE Due("events", i)'
      BY <1>6
    <2>1. i.op = "unmount" /\ Peerof(i.key)'.ep = None
      BY <1>3, <1>5 DEF Peerof, NoPeer
    <2>2. \A j \in todo'["events"] : j.op # "learn"
      BY <1>5, <1>6
    <2> QED  BY <2>1, <2>2 DEF Due
  <1> QED  BY <1>2, <1>3, <1>4, <1>7, EventKeeps

\* A device exports other shares: the mounts of the ones gone are to be removed.
LEMMA SharesUpdatedStep ==
    ASSUME IInv, NEW p \in Peer, NEW shares \in SUBSET Share, SharesUpdated(p, shares)
    PROVE  IInv'
  <1> DEFINE ks == {j \in Key : j[1] = p /\ active[j] # NoMount /\ j[2] \notin shares}
             is == {Do("unmount", k) : k \in ks}
  <1>1. Typed
    BY DEF IInv
  <1>2. /\ Input("events") /\ online[p] # NoPeer
        /\ online' = [online EXCEPT ![p].shares = shares]
        /\ todo' = [todo EXCEPT !["events"] = is]
        /\ UNCHANGED <<cfg, paired>>
    BY DEF SharesUpdated
  <1>3. online[p] \in Info
    BY <1>1, <1>2 DEF Typed
  <1>4. [online[p] EXCEPT !.shares = shares] \in Info
    BY <1>3 DEF Info
  <1>5. /\ online' \in [Peer -> Info \cup {NoPeer}] /\ paired' \subseteq Peer
        /\ online'[p] = [online[p] EXCEPT !.shares = shares]
    BY <1>1, <1>2, <1>4 DEF Typed
  <1>6. online'[p].shares = shares
    BY <1>3, <1>5 DEF Info
  <1>7. is \in SUBSET Work
    BY WorkMade
  <1>8. \A i \in is : i.op = "unmount" /\ i.key[1] = p /\ i.key[2] \notin shares
    BY DEF Do
  <1> HIDE DEF is
  <1>9. todo'["events"] = is
    BY <1>1, <1>2 DEF Typed, Actor
  <1>10. \A i \in todo'["events"] : Due("events", i)'
    <2> SUFFICES ASSUME NEW i \in is  PROVE Due("events", i)'
      BY <1>9
    <2>1. i.op = "unmount" /\ i.key[2] \notin Peerof(i.key)'.shares
      BY <1>6, <1>8 DEF Peerof
    <2>2. \A j \in todo'["events"] : j.op # "learn"
      BY <1>8, <1>9
    <2> QED  BY <2>1, <2>2 DEF Due
  <1> QED  BY <1>2, <1>5, <1>7, <1>10, EventKeeps

\* A pairing is complete.
LEMMA PairingCompletedStep ==
    ASSUME IInv, NEW p \in Peer, PairingCompleted(p)
    PROVE  IInv'
  <1> DEFINE is == IF online[p] = NoPeer THEN {Do("guard", k) : k \in cfg}
                   ELSE MountsForOnlineDevice(p, online[p])
  <1>1. Typed
    BY DEF IInv
  <1>2. /\ Input("events") /\ paired' = paired \cup {p}
        /\ todo' = [todo EXCEPT !["events"] = is]
        /\ UNCHANGED <<cfg, online>>
    BY DEF PairingCompleted
  <1>3. online' \in [Peer -> Info \cup {NoPeer}] /\ paired' \subseteq Peer
    BY <1>1, <1>2 DEF Typed
  <1>4. is \in SUBSET Work /\ \A i \in is : i.op \in {"guard", "mount"}
    <2>1. CASE online[p] = NoPeer
      <3>1. cfg \subseteq Key
        BY <1>1 DEF Typed
      <3> QED  BY <2>1, <3>1, WorkMade DEF Do
    <2>2. CASE online[p] # NoPeer
      <3>1. online[p] \in Info
        BY <1>1, <2>2 DEF Typed
      <3> QED  BY <1>1, <2>2, <3>1, OnlineWork
    <2> QED  BY <2>1, <2>2
  <1> HIDE DEF is
  <1>5. todo'["events"] = is
    BY <1>1, <1>2 DEF Typed, Actor
  <1>6. \A i \in todo'["events"] : Due("events", i)'
    BY <1>4, <1>5 DEF Due
  <1> QED  BY <1>2, <1>3, <1>4, <1>6, EventKeeps

\* The snapshot that Register returns.
LEMMA SnapshotStep ==
    ASSUME IInv, NEW present \in SUBSET Peer, NEW info \in Info,
           RegisterSnapshot(present, info)
    PROVE  IInv'
  <1> DEFINE is == {[op |-> "learn", peer |-> p, info |-> info] : p \in present}
  <1>1. Typed
    BY DEF IInv
  <1>2. /\ Input("events")
        /\ online' = [p \in Peer |-> IF p \in present THEN online[p] ELSE NoPeer]
        /\ todo' = [todo EXCEPT !["events"] = is]
        /\ UNCHANGED <<cfg, paired>>
    BY DEF RegisterSnapshot
  <1>3. online' \in [Peer -> Info \cup {NoPeer}] /\ paired' \subseteq Peer
    BY <1>1, <1>2 DEF Typed
  <1>4. is \in SUBSET Work /\ \A i \in is : i.op = "learn"
    BY DEF Work, LearnWork
  <1> HIDE DEF is
  <1>5. todo'["events"] = is
    BY <1>1, <1>2 DEF Typed, Actor
  <1>6. \A i \in todo'["events"] : Due("events", i)'
    BY <1>4, <1>5 DEF Due
  <1> QED  BY <1>2, <1>3, <1>4, <1>6, EventKeeps

\* One device of the snapshot: nothing is to be unmounted while any is left.
LEMMA LearnStep ==
    ASSUME IInv, Learn
    PROVE  IInv'
  <1>1. Typed /\ Roles /\ Guarding /\ Probing /\ Verdicts
    BY DEF IInv
  <1>2. PICK i \in todo["events"] :
           /\ Ready("events", "learn", i)
           /\ online' = [online EXCEPT ![i.peer] = i.info]
           /\ Becomes("events", i, OnlineMounts(i.peer, i.info))
           /\ UNCHANGED <<cfg, paired, active, krn, mode, full, probe, stats, call, backoff, phase,
                          faults, inputs>>
    BY DEF Learn, table, probes
  <1>3. "events" \in Actor /\ i \in Work /\ i.op = "learn"
    BY <1>1, <1>2 DEF Typed, Ready, Actor
  <1>4. i.peer \in Peer /\ i.info \in Info
    BY <1>3, WorkShape DEF LearnWork
  <1>5. /\ OnlineMounts(i.peer, i.info) \in SUBSET Work
        /\ \A j \in OnlineMounts(i.peer, i.info) : j.op = "mount"
    BY <1>1, <1>4, OnlineWork
  <1>6. /\ todo' \in [Actor -> SUBSET Work]
        /\ todo'["events"] = (todo["events"] \ {i}) \cup OnlineMounts(i.peer, i.info)
        /\ \A b \in Actor \ {"events"} : todo'[b] = todo[b]
    BY <1>1, <1>2, <1>3, <1>5, TodoKept
  <1>7. Typed'
    <2>1. online' \in [Peer -> Info \cup {NoPeer}]
      BY <1>1, <1>2, <1>4 DEF Typed
    <2> QED  BY <1>1, <1>2, <1>6, <2>1 DEF Typed
  <1>8. Roles'
    <2> SUFFICES ASSUME NEW j \in todo'["events"]  PROVE Due("events", j)'
      BY <1>1, <1>2, <1>6, RolesEvents
    <2>1. CASE j.op = "mount"
      BY <2>1 DEF Due
    <2>2. CASE j \in todo["events"]
      <3>1. Due("events", j)
        BY <1>1, <1>3, <2>2 DEF Roles
      <3>2. j.op # "unmount"
        BY <1>3, <3>1 DEF Due
      <3> QED  BY <1>2, <3>1, <3>2 DEF Due
    <2> QED  BY <1>5, <1>6, <2>1, <2>2
  <1>9. todo'["watcher"] = todo["watcher"]
    BY <1>6 DEF Actor
  <1>10. Guarding' /\ Probing' /\ Verdicts'
    BY <1>1, <1>2, <1>9, GuardingSame, ProbingSame, VerdictsSame DEF table, probes
  <1> QED  BY <1>7, <1>8, <1>10 DEF IInv

\* A step that changes only what is left to do, and perhaps the phase.
LEMMA WorkKeeps ==
    ASSUME IInv, todo' \in [Actor -> SUBSET Work],
           phase' \in {"running", "stopping", "unmounting", "exited"},
           phase' = "running" => phase = "running",
           UNCHANGED <<known, table, probes, call, backoff, faults, inputs>>,
           \A b \in Actor : \A i \in todo'[b] :
              \/ i \in todo[b]
              \/ i.op \in {"mount", "chmod", "guard", "visit"}
              \/ i.op = "final" /\ phase # "running",
           \A i \in todo["watcher"] :
              i.op \in {"try", "chmod", "mount"} => i \in todo'["watcher"]
    PROVE  IInv'
  <1>1. Typed /\ Roles /\ Guarding /\ Probing /\ Verdicts
    BY DEF IInv
  <1>2. Typed'
    BY <1>1 DEF Typed, known, table, probes
  <1>3. Roles'
    BY <1>1, RolesKept DEF known
  <1>4. Guarding' /\ Probing' /\ Verdicts'
    BY <1>1, GuardingSame, ProbingSame, VerdictsSame DEF known, table
  <1> QED  BY <1>2, <1>3, <1>4 DEF IInv

\* handlePairingCompleted looks for a mount before it guards the target.
LEMMA GuardCheckStep ==
    ASSUME IInv, GuardCheck
    PROVE  IInv'
  <1>1. Typed
    BY DEF IInv
  <1>2. PICK i \in todo["events"] :
           /\ Ready("events", "guard", i)
           /\ Becomes("events", i, IF active[i.key] # NoMount THEN {}
                                   ELSE {Do("chmod", i.key)})
    BY DEF GuardCheck
  <1>3. UNCHANGED <<known, table, probes, call, backoff, phase, faults, inputs>>
    BY DEF GuardCheck
  <1> DEFINE is == IF active[i.key] # NoMount THEN {} ELSE {Do("chmod", i.key)}
  <1>4. "events" \in Actor /\ i \in Work /\ i.op = "guard" /\ i.key \in Key
    BY <1>1, <1>2, WorkShape DEF Typed, Ready, Actor
  <1>5. is \in SUBSET Work /\ \A j \in is : j.op = "chmod"
    BY <1>4, WorkMade DEF Do
  <1> HIDE DEF is
  <1>6. Becomes("events", i, is)
    BY <1>2 DEF is
  <1>7. /\ todo' \in [Actor -> SUBSET Work] /\ todo'["events"] = (todo["events"] \ {i}) \cup is
        /\ \A b \in Actor \ {"events"} : todo'[b] = todo[b]
    BY <1>1, <1>4, <1>5, <1>6, TodoKept
  <1>8. todo'["watcher"] = todo["watcher"]
    BY <1>7 DEF Actor
  <1>9. phase' \in {"running", "stopping", "unmounting", "exited"}
    BY <1>1, <1>3 DEF Typed
  <1>10. \A b \in Actor : \A j \in todo'[b] : j \in todo[b] \/ j.op = "chmod"
    BY <1>5, <1>7
  <1> QED  BY <1>3, <1>7, <1>8, <1>9, <1>10, WorkKeeps

\* The configuration changes: what is added is tried, what is gone is dropped.
LEMMA ConfigStep ==
    ASSUME IInv, NEW new \in SUBSET Key, OnConfigChange(new)
    PROVE  IInv'
  <1> DEFINE is == {Do("try", k) : k \in new \ cfg} \cup {Do("drop", k) : k \in cfg \ new}
  <1>1. Typed /\ Roles /\ Guarding /\ Probing /\ Verdicts
    BY DEF IInv
  <1>2. /\ Input("watcher") /\ cfg' = new /\ todo' = [todo EXCEPT !["watcher"] = is]
        /\ UNCHANGED <<online, paired>>
    BY DEF OnConfigChange
  <1>3. cfg \subseteq Key
    BY <1>1 DEF Typed
  <1>4. is \in SUBSET Work
    BY <1>3, WorkMade
  <1>5. \A i \in is : \/ i.op = "try" /\ i.key \in new
                      \/ i.op = "drop" /\ i.key \notin new
    BY DEF Do
  <1>6. \A k \in new \ cfg : Do("try", k) \in is
    OBVIOUS
  <1> HIDE DEF is
  <1>7. "watcher" \in Actor /\ "events" \in Actor
    BY DEF Actor
  <1>8. /\ todo' \in [Actor -> SUBSET Work] /\ todo'["watcher"] = is /\ todo["watcher"] = {}
        /\ \A b \in Actor \ {"watcher"} : todo'[b] = todo[b]
        /\ inputs' \in 0..MaxInputs
        /\ UNCHANGED <<active, krn, mode, full, probe, stats, call, backoff, phase, faults>>
    BY <1>1, <1>2, <1>4, <1>7, InputTakes
  <1>9. Typed'
    BY <1>1, <1>2, <1>8 DEF Typed
  <1>10. Roles'
    <2> SUFFICES ASSUME NEW b \in Actor, NEW i \in todo'[b]  PROVE Due(b, i)'
      BY DEF Roles
    <2>1. CASE b = "watcher"
      BY <1>2, <1>5, <1>8, <2>1 DEF Due
    <2>2. CASE b # "watcher"
      <3>1. todo'[b] = todo[b]
        BY <1>8, <2>2
      <3>2. Due(b, i)
        BY <1>1, <3>1 DEF Roles
      <3> QED  BY <1>2, <1>8, <2>2, <3>1, <3>2 DEF Due, Peerof
    <2> QED  BY <2>1, <2>2
  <1>11. Guarding'
    <2> SUFFICES ASSUME NEW k \in new, phase = "running", active[k] = NoMount
                 PROVE  mode[k] \in Shut \/ Coming(k)'
      BY <1>2, <1>8 DEF Guarding
    <2>1. CASE k \in cfg
      BY <1>1, <1>8, <2>1 DEF Guarding, Coming
    <2>2. CASE k \notin cfg
      <3>1. Do("try", k) \in todo'["watcher"]
        BY <1>6, <1>8, <2>2
      <3>2. Do("try", k).op = "try" /\ Do("try", k).key = k
        BY DEF Do
      <3> QED  BY <3>1, <3>2 DEF Coming
    <2> QED  BY <2>1, <2>2
  <1>12. Probing' /\ Verdicts'
    BY <1>1, <1>8, ProbingSame, VerdictsSame DEF table, probes
  <1> QED  BY <1>9, <1>10, <1>11, <1>12 DEF IInv

\* An added share: its target is guarded, or Mount is called.
LEMMA TryMountStep ==
    ASSUME IInv, TryMount
    PROVE  IInv'
  <1>1. Typed /\ Roles /\ Guarding /\ Probing /\ Verdicts
    BY DEF IInv
  <1>2. PICK i \in todo["watcher"] :
           /\ Ready("watcher", "try", i)
           /\ Becomes("watcher", i,
                 IF Peerof(i.key) = NoPeer \/ i.key[1] \notin paired
                 THEN {Do("chmod", i.key)}
                 ELSE {MountAt(i.key, Peerof(i.key).ep, FALSE)})
    BY DEF TryMount
  <1>3. UNCHANGED <<cfg, online, paired, active, krn, mode, full, probe, stats, call, backoff, phase,
                    faults, inputs>>
    BY DEF TryMount, known, table, probes
  <1> DEFINE i2 == IF Peerof(i.key) = NoPeer \/ i.key[1] \notin paired
                   THEN Do("chmod", i.key)
                   ELSE MountAt(i.key, Peerof(i.key).ep, FALSE)
  <1>4. "watcher" \in Actor /\ i \in Work /\ i.op = "try" /\ i.key \in Key
    BY <1>1, <1>2, WorkShape DEF Typed, Ready, Actor
  <1>5. i2 \in Work /\ i2.op \in {"chmod", "mount"} /\ i2.key = i.key
    <2>1. CASE Peerof(i.key) = NoPeer \/ i.key[1] \notin paired
      BY <1>4, <2>1, WorkMade DEF Do
    <2>2. CASE ~ (Peerof(i.key) = NoPeer \/ i.key[1] \notin paired)
      <3>1. Peerof(i.key) \in Info
        BY <1>1, <1>4, <2>2 DEF Typed, Peerof, Key
      <3>2. Peerof(i.key).ep \in Endpoint
        BY <3>1 DEF Info
      <3>3. MountAt(i.key, Peerof(i.key).ep, FALSE) \in Work
        BY <1>4, <3>2 DEF MountAt, Work, MountWork
      <3>4. /\ MountAt(i.key, Peerof(i.key).ep, FALSE).op = "mount"
            /\ MountAt(i.key, Peerof(i.key).ep, FALSE).key = i.key
        BY DEF MountAt
      <3> QED  BY <2>2, <3>3, <3>4 DEF MountAt
    <2> QED  BY <2>1, <2>2
  <1>6. Becomes("watcher", i, {i2})
    BY <1>2 DEF MountAt
  <1> HIDE DEF i2
  <1>7. /\ todo' \in [Actor -> SUBSET Work] /\ todo'["watcher"] = (todo["watcher"] \ {i}) \cup {i2}
        /\ \A b \in Actor \ {"watcher"} : todo'[b] = todo[b]
    BY <1>1, <1>4, <1>5, <1>6, TodoKept
  <1>8. Typed'
    BY <1>1, <1>3, <1>7 DEF Typed
  <1>9. Roles'
    <2>1. \A b \in Actor : \A j \in todo'[b] : j \in todo[b] \/ j.op \in {"chmod", "mount"}
      BY <1>5, <1>7
    <2> QED  BY <1>1, <1>3, <2>1, RolesKept
  <1>10. Guarding'
    <2>1. \A j \in todo["watcher"] : j \in todo'["watcher"] \/ j.key = i.key
      BY <1>7
    <2>2. Coming(i.key)'
      BY <1>5, <1>7 DEF Coming
    <2> QED  BY <1>1, <1>3, <2>1, <2>2, GuardingKept
  <1>11. Probing' /\ Verdicts'
    BY <1>1, <1>3, ProbingSame, VerdictsSame DEF table, probes
  <1> QED  BY <1>8, <1>9, <1>10, <1>11 DEF IInv

\* The monitor's tick, and its visit to one key.
LEMMA MonitorStep ==
    ASSUME IInv, Sweep \/ Visit
    PROVE  IInv'
  <1>1. Typed
    BY DEF IInv
  <1>2. UNCHANGED <<known, table, probes, call, backoff, phase, faults, inputs>>
    BY DEF Sweep, Visit
  <1>3. phase' \in {"running", "stopping", "unmounting", "exited"}
    BY <1>1, <1>2 DEF Typed
  <1>4. "monitor" \in Actor /\ "watcher" \in Actor
    BY DEF Actor
  <1>5. ASSUME NEW is \in SUBSET Work, todo' = [todo EXCEPT !["monitor"] = is],
               \A i \in is : i \in todo["monitor"] \/ i.op \in {"visit", "mount"}
        PROVE  IInv'
    <2>1. /\ todo' \in [Actor -> SUBSET Work] /\ todo'["monitor"] = is
          /\ \A b \in Actor \ {"monitor"} : todo'[b] = todo[b]
      BY <1>1, <1>5, <1>4 DEF Typed
    <2>2. todo'["watcher"] = todo["watcher"]
      BY <1>4, <2>1
    <2>3. \A b \in Actor : \A i \in todo'[b] : i \in todo[b] \/ i.op \in {"visit", "mount"}
      BY <1>5, <2>1
    <2> QED  BY <1>2, <1>3, <2>1, <2>2, <2>3, WorkKeeps
  <1>6. CASE Sweep
    <2> DEFINE is == {Do("visit", k) : k \in cfg}
    <2>1. cfg \subseteq Key
      BY <1>1 DEF Typed
    <2>2. is \in SUBSET Work /\ \A i \in is : i.op = "visit"
      BY <2>1, WorkMade DEF Do
    <2> HIDE DEF is
    <2>3. todo' = [todo EXCEPT !["monitor"] = is]
      BY <1>6 DEF Sweep, is
    <2> QED  BY <1>5, <2>2, <2>3
  <1>7. CASE Visit
    <2>1. PICK i \in todo["monitor"] :
             /\ Ready("monitor", "visit", i)
             /\ IF phase # "running" THEN todo' = [todo EXCEPT !["monitor"] = {}]
                ELSE Becomes("monitor", i,
                        IF ~ Visitable(i.key) THEN {}
                        ELSE {MountAt(i.key, Peerof(i.key).ep, active[i.key] = NoMount)})
      BY <1>7 DEF Visit
    <2>2. i \in Work /\ i.key \in Key
      BY <1>1, <1>4, <2>1, WorkShape DEF Typed, Ready
    <2> DEFINE new == IF ~ Visitable(i.key) THEN {}
                      ELSE {MountAt(i.key, Peerof(i.key).ep, active[i.key] = NoMount)}
    <2>3. new \in SUBSET Work /\ \A j \in new : j.op = "mount"
      <3>1. CASE Visitable(i.key)
        <4>1. Peerof(i.key) \in Info \cup {NoPeer} /\ Peerof(i.key).ep # None
          BY <1>1, <2>2, <3>1 DEF Typed, Peerof, Key, Visitable, Desired
        <4>2. Peerof(i.key).ep \in Endpoint
          BY <4>1 DEF Info, NoPeer
        <4>3. (active[i.key] = NoMount) \in BOOLEAN
          OBVIOUS
        <4>4. MountAt(i.key, Peerof(i.key).ep, active[i.key] = NoMount) \in Work
          BY <2>2, <4>2, <4>3, WorkMade
        <4>5. MountAt(i.key, Peerof(i.key).ep, active[i.key] = NoMount).op = "mount"
          BY DEF MountAt
        <4> QED  BY <3>1, <4>4, <4>5, Zenon
      <3>2. CASE ~ Visitable(i.key)
        BY <3>2, Zenon
      <3> QED  BY <3>1, <3>2
    <2>4. phase = "running" => Becomes("monitor", i, new)
      BY <2>1, Zenon
    <2> HIDE DEF new
    <2>5. CASE phase # "running"
      <3>1. todo' = [todo EXCEPT !["monitor"] = {}]
        BY <2>1, <2>5, Zenon
      <3>2. {} \in SUBSET Work
        OBVIOUS
      <3>3. \A j \in {} : j \in todo["monitor"] \/ j.op \in {"visit", "mount"}
        OBVIOUS
      <3> QED  BY <1>5, <3>1, <3>2, <3>3, Zenon
    <2>6. CASE phase = "running"
      <3>1. todo' = [todo EXCEPT !["monitor"] = (todo["monitor"] \ {i}) \cup new]
        BY <1>1, <1>4, <2>4, <2>6 DEF Becomes, Typed
      <3>2. (todo["monitor"] \ {i}) \cup new \in SUBSET Work
        BY <1>1, <1>4, <2>3 DEF Typed
      <3> QED  BY <1>5, <2>3, <3>1, <3>2
    <2> QED  BY <2>5, <2>6
  <1> QED  BY <1>6, <1>7

\* The daemon stops: what UnmountAllForce lists is due from then on.
LEMMA StopStep ==
    ASSUME IInv, Cancel \/ Shutdown \/ Exit
    PROVE  IInv'
  <1>1. Typed
    BY DEF IInv
  <1>2. /\ UNCHANGED <<known, table, probes, call, backoff, faults, inputs>>
        /\ phase' \in {"stopping", "unmounting", "exited"}
    BY DEF Cancel, Shutdown, Exit
  <1>3. CASE Cancel \/ Exit
    <2>1. todo' = todo
      BY <1>3 DEF Cancel, Exit
    <2>2. todo' \in [Actor -> SUBSET Work]
      BY <1>1, <2>1 DEF Typed
    <2> QED  BY <1>2, <2>1, <2>2, WorkKeeps
  <1>4. CASE Shutdown
    <2> DEFINE ks == {j \in Key : active[j] # NoMount}
               is == {Do("final", k) : k \in ks}
    <2>1. is \in SUBSET Work /\ \A i \in is : i.op = "final"
      BY WorkMade DEF Do
    <2> HIDE DEF is
    <2>2. phase = "stopping" /\ todo' = [todo EXCEPT !["main"] = is]
      BY <1>4 DEF Shutdown, is
    <2>3. /\ todo' \in [Actor -> SUBSET Work] /\ todo'["main"] = is
          /\ \A b \in Actor \ {"main"} : todo'[b] = todo[b]
      BY <1>1, <2>1, <2>2 DEF Typed, Actor
    <2>4. todo'["watcher"] = todo["watcher"]
      BY <2>3 DEF Actor
    <2>5. \A b \in Actor : \A i \in todo'[b] : i \in todo[b] \/ (i.op = "final" /\ phase # "running")
      BY <2>1, <2>2, <2>3
    <2> QED  BY <1>2, <2>3, <2>4, <2>5, WorkKeeps
  <1> QED  BY <1>3, <1>4

\* The time of the next attempt comes.
LEMMA NextTryStep ==
    ASSUME IInv, NEW k \in Key, NextTry(k)
    PROVE  IInv'
  <1>1. Typed /\ Roles /\ Guarding /\ Probing /\ Verdicts
    BY DEF IInv
  <1>2. /\ backoff' = backoff \ {k}
        /\ UNCHANGED <<known, table, probes, todo, call, phase, faults, inputs>>
    BY DEF NextTry
  <1>3. Typed'
    BY <1>1, <1>2 DEF Typed, known, table, probes
  <1>4. Roles' /\ Guarding' /\ Probing' /\ Verdicts'
    BY <1>1, <1>2, RolesKept, GuardingSame, ProbingSame, VerdictsSame DEF known, table
  <1> QED  BY <1>3, <1>4 DEF IInv

\* The kernel's side changes: what was found dead does not come back.
LEMMA KernelStep ==
    ASSUME IInv, NEW k \in Key,
           Unwedge(k) \/ \E kr \in {"zombie", "none", "wedged"} : Fault(k, kr)
    PROVE  IInv'
  <1>1. Typed /\ Roles /\ Guarding /\ Probing /\ Verdicts
    BY DEF IInv
  <1>2. PICK kr \in Kernel : krn' = [krn EXCEPT ![k] = kr]
    BY DEF Unwedge, Fault, Kernel
  <1>3. UNCHANGED <<known, active, mode, full, probes, todo, call, backoff, phase, inputs>>
    BY DEF Unwedge, Fault
  <1>4. krn' \in [Key -> Kernel] /\ krn'[k] = kr /\ \A j \in Key \ {k} : krn'[j] = krn[j]
    BY <1>1, <1>2 DEF Typed
  <1>5. krn[k] \in {"none", "zombie"} => kr \in {"none", "zombie"}
    BY <1>2, <1>4 DEF Unwedge, Fault
  <1>6. faults' \in 0..MaxFaults
    BY <1>1, MountsAssumption DEF Unwedge, Fault, Typed
  <1>7. Typed'
    BY <1>1, <1>3, <1>4, <1>6 DEF Typed, known, probes
  <1>8. Roles' /\ Probing'
    BY <1>1, <1>3, RolesKept, ProbingSame DEF known
  <1>9. Guarding'
    BY <1>1, <1>3 DEF Guarding, Coming, known
  <1>10. Verdicts'
    <2> SUFFICES ASSUME NEW a \in Actor, call[a] # NoCall, call[a].health = "dead",
                        active[call[a].key].gen = call[a].gen
                 PROVE  krn'[call[a].key] \in {"none", "zombie"}
      BY <1>3 DEF Verdicts
    <2>1. call[a].key \in Key
      BY <1>1, Absent DEF Typed, Call
    <2>2. krn[call[a].key] \in {"none", "zombie"}
      BY <1>1 DEF Verdicts
    <2> QED  BY <1>4, <1>5, <2>1, <2>2
  <1> QED  BY <1>7, <1>8, <1>9, <1>10 DEF IInv

\* Local files come into a target or go.
LEMMA LocalWriteStep ==
    ASSUME IInv, NEW k \in Key, LocalWrite(k)
    PROVE  IInv'
  <1>1. Typed /\ Roles /\ Guarding /\ Probing /\ Verdicts
    BY DEF IInv
  <1>2. UNCHANGED <<known, active, krn, mode, probes, todo, call, backoff, phase, faults>>
    BY DEF LocalWrite
  <1>3. full' \subseteq Key /\ inputs' \in 0..MaxInputs
    BY <1>1, MountsAssumption DEF LocalWrite, Typed
  <1>4. Typed'
    BY <1>1, <1>2, <1>3 DEF Typed, known, probes
  <1>5. Roles' /\ Probing'
    BY <1>1, <1>2, RolesKept, ProbingSame DEF known
  <1>6. Guarding' /\ Verdicts'
    BY <1>1, <1>2 DEF Guarding, Coming, Verdicts, known
  <1> QED  BY <1>4, <1>5, <1>6 DEF IInv

\* Every action preserves the invariant.
LEMMA NextStep ==
    ASSUME IInv, Next
    PROVE  IInv'
  <1>1. ASSUME NEW a \in Actor, Step(a)  PROVE IInv'
    BY <1>1, MountBeginStep, MountResumeStep, ProbeTimeoutStep, UnmountStep, ChmodStep
       DEF Step
  <1>2. CASE Events
    BY <1>1, <1>2, LearnStep, GuardCheckStep DEF Events, Actor
  <1>3. CASE Watcher
    BY <1>1, <1>3, TryMountStep DEF Watcher, Actor
  <1>4. CASE Monitor
    BY <1>1, <1>4, MonitorStep DEF Monitor, Actor
  <1>5. CASE Main
    BY <1>1, <1>5, StopStep DEF Main, Actor
  <1>6. CASE Inputs
    BY <1>6, DeviceOnlineStep, DeviceOfflineStep, SharesUpdatedStep, PairingCompletedStep,
       SnapshotStep, ConfigStep DEF Inputs
  <1>7. CASE Cancel
    BY <1>7, StopStep
  <1>8. ASSUME NEW k \in Key,
               \/ \E g \in Gen, odd \in 0..1 : RunProbe(k, g, odd)
               \/ \E kr \in {"zombie", "none", "wedged"} : Fault(k, kr)
               \/ NextTry(k) \/ Unwedge(k) \/ LocalWrite(k)
        PROVE  IInv'
    BY <1>8, RunProbeStep, KernelStep, NextTryStep, LocalWriteStep
  <1> QED  BY <1>2, <1>3, <1>4, <1>5, <1>6, <1>7, <1>8 DEF Next

\* The agent starts with nothing mounted, and has tried to guard every configured
\* target.
LEMMA InitHolds ==
    ASSUME Init
    PROVE  IInv
  <1>1. Typed
    <2>1. MaxFaults \in 0..MaxFaults /\ MaxInputs \in 0..MaxInputs /\ 0 \in 0..MaxGen
      BY MountsAssumption
    <2>2. /\ active \in [Key -> Mounted] /\ krn \in [Key -> Kernel] /\ mode \in [Key -> Mode]
      BY Absent DEF Init, Kernel, Mode
    <2>3. stats \in [Key -> [Gen -> Nat]] /\ probe \in [Key -> 0..MaxGen]
      BY <2>1 DEF Init
    <2>4. call \in [Actor -> Call \cup {NoCall}] /\ todo \in [Actor -> SUBSET Work]
      BY DEF Init
    <2>5. online \in [Peer -> Info \cup {NoPeer}]
      BY DEF Init
    <2> QED  BY <2>1, <2>2, <2>3, <2>4, <2>5 DEF Init, Typed
  <1>2. Roles
    BY DEF Init, Roles
  <1>3. Guarding
    BY <1>1 DEF Init, Guarding, Typed, Shut
  <1>4. Probing
    BY DEF Init, Probing
  <1>5. Verdicts
    BY DEF Init, Verdicts
  <1> QED  BY <1>1, <1>2, <1>3, <1>4, <1>5 DEF IInv

\* The invariant is inductive.
THEOREM Inductive == Spec => []IInv
  <1>1. Init => IInv
    BY InitHolds
  <1>2. IInv /\ [Next]_vars => IInv'
    <2>1. ASSUME IInv, UNCHANGED vars  PROVE IInv'
      BY <2>1, WorkKeeps DEF IInv, Typed, vars
    <2> QED  BY <2>1, NextStep
  <1> QED  BY <1>1, <1>2, PTL DEF Spec

\* Every variable has its type: generations, faults and inputs stay within their
\* bounds, and a caller of Mount waits for a generation that exists.
THEOREM MountsTyped == Spec => []TypeOK
  <1>1. IInv => TypeOK
    BY Absent DEF IInv, Typed, TypeOK, Mounted, Kernel, Mode, Call
  <1> QED  BY <1>1, Inductive, PTL

\* While nobody is at work on it, a configured target without an entry is guarded,
\* or its last guardTarget failed or met a mount left there, which the code
\* reports: no interleaving and no other error path leaves a target open.
THEOREM TargetsAreGuarded == Spec => []UnmountedIsGuarded
  <1>1. IInv => UnmountedIsGuarded
    <2> SUFFICES ASSUME IInv, NEW k \in cfg, phase = "running", AtRest(k),
                        active[k] = NoMount
                 PROVE  mode[k] \in Shut
      BY DEF UnmountedIsGuarded, Shut
    <2>1. ~ Coming(k)
      BY DEF Coming, AtRest, Actor
    <2> QED  BY <2>1 DEF IInv, Guarding
  <1> QED  BY <1>1, Inductive, PTL

\* A generation is probed by one goroutine at a time, however many callers ask.
THEOREM ProbesAreSingle == Spec => []ProbeSingleFlight
  <1>1. IInv => ProbeSingleFlight
    BY DEF IInv, Probing, ProbeSingleFlight
  <1> QED  BY <1>1, Inductive, PTL
=============================================================================
