--------------------------- MODULE MountsRefinement --------------------------
(***************************************************************************)
(* AgentMounts implements MountTable: whatever the goroutines of the agent *)
(* do, in whatever order, the table of mounts changes as MountTable says.  *)
(*                                                                         *)
(* Three facts carry the proof.  A mount that serves is released only for  *)
(* work whose reason still holds (Roles); the verdict for which Mount      *)
(* replaces a mount at the same endpoint is still true of that mount       *)
(* (Verdicts); and what a caller of Mount asks for was justified when it   *)
(* began to ask, and is kept until it stops (Justly).                      *)
(***************************************************************************)
EXTENDS MountsProofs

-----------------------------------------------------------------------------
(* The mapped state.                                                       *)

TableBar == [k \in Key |-> active[k].ep]
ServingBar == {k \in Key : active[k] # NoMount /\ krn[k] \in {"live", "wedged"}}
AtBar == [k \in Key |-> IF k[1] \in paired THEN Peerof(k).ep ELSE None]
OfferedBar == {k \in Key : k[2] \in Peerof(k).shares}
AskingBar ==
    UNION {{<<i.key, i.ep>> : i \in {j \in todo[a] : j.op = "mount"}}
           \cup (IF call[a] = NoCall THEN {} ELSE {<<call[a].key, call[a].ep>>}) : a \in Actor}

\* Goroutine a wants x, a share and an endpoint, mounted.
Asks(a, x) ==
    \/ \E i \in todo[a] : i.op = "mount" /\ x = <<i.key, i.ep>>
    \/ call[a] # NoCall /\ x = <<call[a].key, call[a].ep>>
\* The share is configured and its peer, paired and present, is at that endpoint.
Justly(x) ==
    \E k \in cfg : k[1] \in paired /\ Peerof(k).ep # None /\ x = <<k, Peerof(k).ep>>

\* What is asked for, goroutine by goroutine, before and after a step.
LEMMA AskingIs ==
    /\ \A x : x \in AskingBar <=> \E a \in Actor : Asks(a, x)
    /\ \A x : x \in AskingBar' <=> \E a \in Actor : Asks(a, x)'
  <1>1. \A x : x \in AskingBar <=> \E a \in Actor : Asks(a, x)
    <2> SUFFICES ASSUME NEW x  PROVE x \in AskingBar <=> \E a \in Actor : Asks(a, x)
      OBVIOUS
    <2>1. x \in AskingBar <=>
             \E a \in Actor : x \in {<<i.key, i.ep>> : i \in {j \in todo[a] : j.op = "mount"}}
                \cup (IF call[a] = NoCall THEN {} ELSE {<<call[a].key, call[a].ep>>})
      BY DEF AskingBar
    <2>2. \A a \in Actor :
             x \in {<<i.key, i.ep>> : i \in {j \in todo[a] : j.op = "mount"}}
                \cup (IF call[a] = NoCall THEN {} ELSE {<<call[a].key, call[a].ep>>})
             <=> Asks(a, x)
      BY DEF Asks
    <2> QED  BY <2>1, <2>2, Zenon
  <1>2. \A x : x \in AskingBar' <=> \E a \in Actor : Asks(a, x)'
    <2> SUFFICES ASSUME NEW x  PROVE x \in AskingBar' <=> \E a \in Actor : Asks(a, x)'
      OBVIOUS
    <2>1. x \in AskingBar' <=>
             \E a \in Actor : x \in {<<i.key, i.ep>> : i \in {j \in todo'[a] : j.op = "mount"}}
                \cup (IF call'[a] = NoCall THEN {} ELSE {<<call'[a].key, call'[a].ep>>})
      BY DEF AskingBar
    <2>2. \A a \in Actor :
             x \in {<<i.key, i.ep>> : i \in {j \in todo'[a] : j.op = "mount"}}
                \cup (IF call'[a] = NoCall THEN {} ELSE {<<call'[a].key, call'[a].ep>>})
             <=> Asks(a, x)'
      BY DEF Asks
    <2> QED  BY <2>1, <2>2, Zenon
  <1> QED  BY <1>1, <1>2

\* A caller keeps asking for what was justified when it began.
LEMMA AskingGrows ==
    ASSUME Typed', \A a \in Actor : \A x : Asks(a, x)' => (\E b \in Actor : Asks(b, x)) \/ Justly(x)'
    PROVE  AskingBar' \subseteq AskingBar \cup Table!Justified'
  <1> SUFFICES ASSUME NEW x \in AskingBar', x \notin AskingBar  PROVE x \in Table!Justified'
    OBVIOUS
  <1>1. Justly(x)'
    BY AskingIs
  <1>2. PICK k \in cfg' : k[1] \in paired' /\ Peerof(k)'.ep # None /\ x = <<k, Peerof(k)'.ep>>
    BY <1>1 DEF Justly
  <1>3. k \in Key
    BY DEF Typed
  <1>4. AtBar'[k] = Peerof(k)'.ep
    BY <1>2, <1>3 DEF AtBar
  <1> QED  BY <1>2, <1>3, <1>4 DEF Table!Justified, AtBar

\* A step that keeps the table and what serves is one of Learn.
LEMMA LearnBar ==
    ASSUME Typed', TableBar' = TableBar, ServingBar' = ServingBar,
           phase' = "running" => phase = "running"
    PROVE  Table!Learn
  <1>1. AtBar' \in [Key -> Endpoint \cup {None}]
    <2> SUFFICES ASSUME NEW k \in Key
                 PROVE  (IF k[1] \in paired THEN Peerof(k).ep ELSE None)' \in Endpoint \cup {None}
      BY DEF AtBar
    <2>1. online'[k[1]] \in Info \cup {NoPeer}
      BY DEF Typed, Key
    <2> QED  BY <2>1 DEF Peerof, Info, NoPeer
  <1>2. cfg' \subseteq Key
    BY DEF Typed
  <1> QED  BY <1>1, <1>2 DEF Table!Learn, TableBar, ServingBar, AtBar

\* The agent starts where the abstract table does.
LEMMA InitBar ==
    ASSUME Init
    PROVE  Table!Init
  <1>1. TableBar = [k \in Key |-> None]
    BY DEF Init, TableBar, NoMount
  <1>2. ServingBar = {}
    BY DEF Init, ServingBar
  <1>3. AskingBar = {}
    BY AskingIs DEF Init, Asks
  <1>4. AtBar = [k \in Key |-> None]
    BY DEF Init, AtBar, Peerof, NoPeer, Key
  <1>5. OfferedBar = {}
    BY DEF Init, OfferedBar, Peerof, NoPeer, Key
  <1> QED  BY <1>1, <1>2, <1>3, <1>4, <1>5
           DEF Init, Table!Init, TableBar, ServingBar, AskingBar, AtBar, OfferedBar

-----------------------------------------------------------------------------
(* The steps that change the table.                                        *)

\* What Apply does to the mapped table.
LEMMA ApplyBar ==
    ASSUME Typed, NEW k \in Key, NEW o \in Outcome, o.faults <= faults, Apply(k, o)
    PROVE  /\ TableBar' = [TableBar EXCEPT ![k] = o.active.ep]
           /\ o.active # NoMount /\ o.krn \in {"live", "wedged"} => ServingBar' = ServingBar \cup {k}
           /\ o.active = NoMount \/ o.krn \in {"none", "zombie"} => ServingBar' = ServingBar \ {k}
           /\ Kept(k, o) => TableBar' = TableBar /\ ServingBar' = ServingBar
  <1>1. /\ active'[k] = o.active /\ krn'[k] = o.krn
        /\ \A j \in Key \ {k} : active'[j] = active[j] /\ krn'[j] = krn[j]
    BY Applied
  <1>2. TableBar' = [TableBar EXCEPT ![k] = o.active.ep]
    <2>1. TableBar' = [j \in Key |-> active'[j].ep]
      BY DEF TableBar
    <2>2. [TableBar EXCEPT ![k] = o.active.ep]
             = [j \in Key |-> IF j = k THEN o.active.ep ELSE active[j].ep]
      BY DEF TableBar
    <2>3. \A j \in Key : active'[j].ep = IF j = k THEN o.active.ep ELSE active[j].ep
      BY <1>1
    <2> QED  BY <2>1, <2>2, <2>3
  <1>3. \A j \in Key : j \in ServingBar' <=> active'[j] # NoMount /\ krn'[j] \in {"live", "wedged"}
    BY DEF ServingBar
  <1>4. \A j \in Key : j \in ServingBar <=> active[j] # NoMount /\ krn[j] \in {"live", "wedged"}
    BY DEF ServingBar
  <1>5. ServingBar' \subseteq Key /\ ServingBar \subseteq Key
    BY DEF ServingBar
  <1>6. o.active # NoMount /\ o.krn \in {"live", "wedged"} => ServingBar' = ServingBar \cup {k}
    BY <1>1, <1>3, <1>4, <1>5
  <1>7. o.active = NoMount \/ o.krn \in {"none", "zombie"} => ServingBar' = ServingBar \ {k}
    BY <1>1, <1>3, <1>4, <1>5
  <1>8. Kept(k, o) => TableBar' = TableBar /\ ServingBar' = ServingBar
    <2> SUFFICES ASSUME Kept(k, o)  PROVE TableBar' = TableBar /\ ServingBar' = ServingBar
      OBVIOUS
    <2>1. \A j \in Key : active'[j] = active[j] /\ krn'[j] = krn[j]
      BY <1>1 DEF Kept
    <2>2. ServingBar' = ServingBar
      BY <1>3, <1>4, <1>5, <2>1
    <2>3. TableBar' = TableBar
      BY <2>1 DEF TableBar
    <2> QED  BY <2>2, <2>3
  <1> QED  BY <1>2, <1>6, <1>7, <1>8

\* Mount attaches a share, replaces a mount, or changes nothing that is promised.
LEMMA MountBar ==
    ASSUME Typed, Typed', NEW k \in Key, NEW ep \in Endpoint, NEW o \in Outcome,
           o.faults <= faults, Apply(k, o),
           Kept(k, o) \/ Freed(o) \/ Made(k, ep, o),
           <<k, ep>> \in AskingBar,
           k \in ServingBar => ep # active[k].ep,
           UNCHANGED <<cfg, online, paired, phase>>
    PROVE  Table!Learn \/ Table!Attach(k) \/ Table!Replace(k)
  <1>1. /\ TableBar' = [TableBar EXCEPT ![k] = o.active.ep]
        /\ o.active # NoMount /\ o.krn \in {"live", "wedged"} => ServingBar' = ServingBar \cup {k}
        /\ o.active = NoMount \/ o.krn \in {"none", "zombie"} => ServingBar' = ServingBar \ {k}
        /\ Kept(k, o) => TableBar' = TableBar /\ ServingBar' = ServingBar
    BY ApplyBar
  <1>2. TableBar[k] = active[k].ep /\ active[k] \in Mounted
    BY DEF TableBar, Typed
  <1>3. AtBar' = AtBar /\ OfferedBar' = OfferedBar
    BY DEF AtBar, OfferedBar, Peerof
  <1>4. active[k] = NoMount => TableBar[k] = None /\ k \notin ServingBar
    BY <1>2, Absent DEF ServingBar
  <1>5. active[k] # NoMount => TableBar[k] # None
    BY <1>2, Absent, MountsAssumption
  <1>6. CASE Kept(k, o)
    BY <1>1, <1>6, LearnBar
  <1>7. CASE Freed(o)
    <2>1. TableBar' = [TableBar EXCEPT ![k] = None] /\ ServingBar' = ServingBar \ {k}
      BY <1>1, <1>7, Absent DEF Freed
    <2>2. CASE active[k] = NoMount
      <3>1. TableBar' = TableBar /\ ServingBar' = ServingBar
        BY <1>4, <2>1, <2>2 DEF TableBar
      <3> QED  BY <3>1, LearnBar
    <2>3. CASE active[k] # NoMount
      BY <1>2, <1>3, <1>5, <2>1, <2>3
         DEF Table!Replace, TableBar, ServingBar, AtBar, OfferedBar, AskingBar
    <2> QED  BY <2>2, <2>3
  <1>8. CASE Made(k, ep, o)
    <2>1. PICK g \in FreeGen(k) : o.active = [ep |-> ep, gen |-> g] /\ o.krn = "live"
      BY <1>8 DEF Made
    <2>2. o.active.ep = ep /\ o.active # NoMount
      BY <2>1, MountsAssumption DEF NoMount
    <2>3. TableBar' = [TableBar EXCEPT ![k] = ep] /\ ServingBar' = ServingBar \cup {k}
      BY <1>1, <2>1, <2>2
    <2>4. CASE active[k] = NoMount
      BY <1>3, <1>4, <2>3, <2>4
         DEF Table!Attach, TableBar, ServingBar, AtBar, OfferedBar, AskingBar
    <2>5. CASE active[k] # NoMount
      BY <1>2, <1>3, <1>5, <2>3, <2>5
         DEF Table!Replace, TableBar, ServingBar, AtBar, OfferedBar, AskingBar
    <2> QED  BY <2>4, <2>5
  <1> QED  BY <1>6, <1>7, <1>8

\* A step that leaves entries and kernel alone keeps the table and what serves.
LEMMA QuietBar ==
    ASSUME Typed', UNCHANGED <<active, krn>>, phase' = "running" => phase = "running"
    PROVE  Table!Learn
  BY LearnBar DEF TableBar, ServingBar

\* Mount up to where it gives the mutex up or returns.
LEMMA MountBeginBar ==
    ASSUME IInv, IInv', NEW a \in Actor, NEW i \in todo[a], MountBegin(a, i)
    PROVE  Table!Learn \/ \E k \in Key : Table!Attach(k) \/ Table!Replace(k)
  <1>1. Typed /\ Typed'
    BY DEF IInv
  <1>2. UNCHANGED <<cfg, online, paired, phase>>
    BY DEF MountBegin, known
  <1>3. CASE SameEndpoint(active[i.key], i.ep)
    <2>1. UNCHANGED <<active, krn>>
      BY <1>3 DEF MountBegin, table
    <2> QED  BY <1>1, <1>2, <2>1, QuietBar
  <1>4. CASE ~ SameEndpoint(active[i.key], i.ep)
    <2>1. i \in Work /\ i.op = "mount"
      BY <1>1 DEF Typed, MountBegin, Ready
    <2>2. i.key \in Key /\ i.ep \in Endpoint
      BY <2>1, WorkShape DEF MountWork
    <2>3. PICK o \in Outcome :
              /\ Apply(i.key, o) /\ o.faults <= faults
              /\ Kept(i.key, o) \/ Freed(o) \/ Made(i.key, i.ep, o)
      BY <1>4, MountAnew
    <2>4. <<i.key, i.ep>> \in AskingBar
      BY <2>1, AskingIs DEF Asks
    <2>5. i.ep # active[i.key].ep
      BY <1>4 DEF SameEndpoint
    <2> QED  BY <1>1, <1>2, <2>2, <2>3, <2>4, <2>5, MountBar
  <1> QED  BY <1>3, <1>4

\* Mount with its verdict: a mount found dead does not serve.
LEMMA MountResumeBar ==
    ASSUME IInv, IInv', NEW a \in Actor, MountResume(a)
    PROVE  Table!Learn \/ \E k \in Key : Table!Attach(k) \/ Table!Replace(k)
  <1>1. Typed /\ Typed' /\ Verdicts
    BY DEF IInv
  <1>2. UNCHANGED <<cfg, online, paired, phase>>
    BY DEF MountResume, known
  <1>3. CASE UNCHANGED <<table, faults>>
    BY <1>1, <1>2, <1>3, QuietBar DEF table
  <1>4. CASE ~ UNCHANGED <<table, faults>>
    <2>1. call[a] \in Call
      BY Resumed
    <2>2. call[a].key \in Key /\ call[a].ep \in Endpoint /\ call[a] # NoCall
      BY <2>1, Absent DEF Call
    <2>3. active[call[a].key].gen = call[a].gen /\ call[a].health = "dead"
      BY <1>4, Resumed
    <2>4. PICK o \in Outcome :
              /\ Apply(call[a].key, o) /\ o.faults <= faults
              /\ Kept(call[a].key, o) \/ Freed(o) \/ Made(call[a].key, call[a].ep, o)
      BY <1>4, Resumed
    <2>5. <<call[a].key, call[a].ep>> \in AskingBar
      BY <2>2, AskingIs DEF Asks
    <2>6. call[a].key \notin ServingBar
      BY <1>1, <2>2, <2>3 DEF Verdicts, ServingBar
    <2> QED  BY <1>1, <1>2, <2>2, <2>4, <2>5, <2>6, MountBar
  <1> QED  BY <1>3, <1>4

\* A mount that serves is released for a reason that holds.
LEMMA UnmountBar ==
    ASSUME IInv, IInv', NEW a \in Actor, NEW op \in {"unmount", "drop", "final"}, Unmount(a, op)
    PROVE  Table!Learn \/ \E k \in Key : Table!Release(k)
  <1>1. Typed /\ Typed' /\ Roles
    BY DEF IInv
  <1>2. PICK i \in todo[a] :
           /\ Ready(a, op, i)
           /\ IF active[i.key] = NoMount THEN UNCHANGED <<table, faults>>
              ELSE \E o \in UnmountKey(a, i.key, op # "final") : Apply(i.key, o)
    BY DEF Unmount
  <1>3. UNCHANGED <<cfg, online, paired, phase>>
    BY DEF Unmount, known
  <1>4. CASE active[i.key] = NoMount
    BY <1>1, <1>2, <1>3, <1>4, QuietBar DEF table
  <1>5. CASE active[i.key] # NoMount
    <2> DEFINE k == i.key
    <2>1. PICK o \in UnmountKey(a, k, op # "final") : Apply(k, o)
      BY <1>2, <1>5
    <2>2. /\ k \in Key /\ o \in Outcome /\ o.faults <= faults
          /\ Kept(k, o) \/ Freed(o)
      BY <1>2, <1>5, Unmounted
    <2>3. /\ TableBar' = [TableBar EXCEPT ![k] = o.active.ep]
          /\ o.active = NoMount \/ o.krn \in {"none", "zombie"} => ServingBar' = ServingBar \ {k}
          /\ Kept(k, o) => TableBar' = TableBar /\ ServingBar' = ServingBar
      BY <1>1, <2>1, <2>2, ApplyBar
    <2>4. CASE Kept(k, o)
      BY <1>1, <1>3, <2>3, <2>4, LearnBar
    <2>5. CASE Freed(o)
      <3>1. TableBar' = [TableBar EXCEPT ![k] = None] /\ ServingBar' = ServingBar \ {k}
        BY <2>3, <2>5, Absent DEF Freed
      <3>2. TableBar[k] # None
        <4>1. active[k] \in Mounted
          BY <1>1, <2>2 DEF Typed
        <4> QED  BY <1>5, <2>2, <4>1, Absent, MountsAssumption DEF TableBar
      <3>3. i.op = op /\ Due(a, i)
        BY <1>1, <1>2 DEF Ready, Roles
      <3>4. \/ k \notin cfg
            \/ Peerof(k).ep = None
            \/ k[2] \notin Peerof(k).shares
            \/ phase # "running"
        BY <3>3 DEF Due
      <3>5. \/ k \notin cfg \/ AtBar[k] = None \/ k \notin OfferedBar
            \/ phase # "running"
        BY <2>2, <3>4 DEF AtBar, OfferedBar
      <3>6. AtBar' = AtBar /\ OfferedBar' = OfferedBar
        BY <1>3 DEF AtBar, OfferedBar, Peerof
      <3>7. Table!Release(k)
        BY <1>3, <3>1, <3>2, <3>5, <3>6
           DEF Table!Release, Table!Wanted, TableBar, ServingBar, AtBar, OfferedBar
      <3> QED  BY <2>2, <3>7
    <2> QED  BY <2>2, <2>4, <2>5
  <1> QED  BY <1>4, <1>5

\* What breaks stops to serve; what hangs, and what answers again, still serves.
LEMMA KernelBar ==
    ASSUME IInv, IInv', NEW k \in Key,
           Unwedge(k) \/ \E kr \in {"zombie", "none", "wedged"} : Fault(k, kr)
    PROVE  Table!Learn \/ Table!Fail(k)
  <1>1. Typed /\ Typed'
    BY DEF IInv
  <1>2. PICK kr \in Kernel :
           /\ krn' = [krn EXCEPT ![k] = kr]
           /\ \/ kr = "live" /\ krn[k] = "wedged"
              \/ kr = "wedged" /\ krn[k] = "live"
              \/ kr \in {"zombie", "none"}
    BY DEF Unwedge, Fault, Kernel
  <1>3. UNCHANGED <<cfg, online, paired, active, phase>>
    BY DEF Unwedge, Fault, known
  <1>4. krn'[k] = kr /\ \A j \in Key \ {k} : krn'[j] = krn[j]
    BY <1>1, <1>2 DEF Typed
  <1>5. TableBar' = TableBar /\ AtBar' = AtBar /\ OfferedBar' = OfferedBar
    BY <1>3 DEF TableBar, AtBar, OfferedBar, Peerof
  <1>6. CASE kr \in {"zombie", "none"}
    <2>1. ServingBar' = ServingBar \ {k}
      BY <1>3, <1>4, <1>6 DEF ServingBar
    <2> QED  BY <1>3, <1>5, <2>1 DEF Table!Fail, TableBar, ServingBar, AtBar, OfferedBar
  <1>7. CASE kr \notin {"zombie", "none"}
    <2>1. \A j \in Key : krn'[j] \in {"live", "wedged"} <=> krn[j] \in {"live", "wedged"}
      BY <1>2, <1>4, <1>7
    <2>2. ServingBar' = ServingBar
      BY <1>3, <2>1 DEF ServingBar
    <2> QED  BY <1>1, <1>3, <1>5, <2>2, LearnBar
  <1> QED  BY <1>6, <1>7

-----------------------------------------------------------------------------
(* What is asked for.                                                      *)

\* No caller begins to ask.
Steady ==
    \A a \in Actor :
        /\ \A i \in todo'[a] : i.op = "mount" => i \in todo[a]
        /\ \/ call'[a] = call[a]
           \/ call'[a] = NoCall
           \/ call[a] # NoCall /\ call'[a].key = call[a].key /\ call'[a].ep = call[a].ep
\* A caller begins to ask only for what is justified.
Founded ==
    \A a \in Actor : \A x : Asks(a, x)' => (\E b \in Actor : Asks(b, x)) \/ Justly(x)'

\* Who begins to ask for nothing has no need of a reason.
LEMMA SteadyIsFounded ==
    ASSUME Steady
    PROVE  Founded
  <1> SUFFICES ASSUME NEW a \in Actor, NEW x, Asks(a, x)'  PROVE Asks(a, x)
    BY DEF Founded
  <1>1. CASE \E i \in todo'[a] : i.op = "mount" /\ x = <<i.key, i.ep>>
    BY <1>1 DEF Steady, Asks
  <1>2. CASE call'[a] # NoCall /\ x = <<call'[a].key, call'[a].ep>>
    BY <1>2 DEF Steady, Asks
  <1> QED  BY <1>1, <1>2 DEF Asks

\* New work of goroutine a, with the calls as they were.
LEMMA NewAsks ==
    ASSUME NEW a \in Actor, call' = call,
           \A b \in Actor \ {a} : todo'[b] = todo[b],
           \A i \in todo'[a] : i.op = "mount" => i \in todo[a] \/ Justly(<<i.key, i.ep>>)'
    PROVE  Founded
  <1> SUFFICES ASSUME NEW b \in Actor, NEW x, Asks(b, x)'  PROVE Asks(b, x) \/ Justly(x)'
    BY DEF Founded
  <1>1. CASE \E i \in todo'[b] : i.op = "mount" /\ x = <<i.key, i.ep>>
    <2>1. PICK i \in todo'[b] : i.op = "mount" /\ x = <<i.key, i.ep>>
      BY <1>1
    <2>2. i \in todo[b] \/ Justly(x)'
      BY <2>1
    <2>3. i \in todo[b] => Asks(b, x)
      BY <2>1 DEF Asks
    <2> QED  BY <2>2, <2>3
  <1>2. CASE call'[b] # NoCall /\ x = <<call'[b].key, call'[b].ep>>
    BY <1>2 DEF Asks
  <1> QED  BY <1>1, <1>2 DEF Asks

\* The steps of Mount, Unmount, the probes and the targets' modes.
LEMMA StepFounded ==
    ASSUME IInv, NEW a \in Actor, Step(a)
    PROVE  Founded
  <1>1. Typed
    BY DEF IInv
  <1>2. ASSUME NEW i \in todo[a], MountBegin(a, i)  PROVE Founded
    <2>1. i.op = "mount" /\ Done(a, i)
      BY <1>2 DEF MountBegin, Ready
    <2>2. \A b \in Actor : todo'[b] \subseteq todo[b]
      BY <1>1, <2>1, TodoDone
    <2>3. CASE ~ SameEndpoint(active[i.key], i.ep)
      <3>1. call' = call
        BY <1>2, <2>3 DEF MountBegin
      <3> QED  BY <2>2, <3>1, SteadyIsFounded DEF Steady
    <2>4. CASE SameEndpoint(active[i.key], i.ep)
      <3>1. call' = [call EXCEPT ![a] = [gen |-> active[i.key].gen, key |-> i.key,
                               ep |-> i.ep, est |-> i.est, health |-> "wait"]]
        BY <1>2, <2>4 DEF MountBegin
      <3>2. call'[a].key = i.key /\ call'[a].ep = i.ep
        BY <1>1, <3>1 DEF Typed
      <3>3. \A b \in Actor \ {a} : call'[b] = call[b]
        BY <1>1, <3>1 DEF Typed
      <3> SUFFICES ASSUME NEW b \in Actor, NEW x, Asks(b, x)'
                   PROVE  \E d \in Actor : Asks(d, x)
        BY DEF Founded
      <3>4. CASE \E j \in todo'[b] : j.op = "mount" /\ x = <<j.key, j.ep>>
        BY <2>2, <3>4 DEF Asks
      <3>5. CASE call'[b] # NoCall /\ x = <<call'[b].key, call'[b].ep>>
        <4>1. CASE b = a
          BY <2>1, <3>2, <3>5, <4>1 DEF Asks
        <4>2. CASE b # a
          BY <3>3, <3>5, <4>2 DEF Asks
        <4> QED  BY <4>1, <4>2
      <3> QED  BY <3>4, <3>5 DEF Asks
    <2> QED  BY <2>3, <2>4
  <1>3. ASSUME MountResume(a)  PROVE Founded
    <2>1. todo' = todo /\ \A b \in Actor : call'[b] = call[b] \/ call'[b] = NoCall
      BY <1>1, <1>3 DEF MountResume, Typed
    <2> QED  BY <2>1, SteadyIsFounded DEF Steady
  <1>4. ASSUME ProbeTimeout(a)  PROVE Founded
    <2>1. todo' = todo /\ call[a] # NoCall /\ call' = [call EXCEPT ![a].health = "unknown"]
      BY <1>4 DEF ProbeTimeout
    <2>2. call[a] \in Call
      BY <1>1, <2>1, Absent DEF Typed
    <2>3. call'[a].key = call[a].key /\ call'[a].ep = call[a].ep
      BY <1>1, <2>1, <2>2 DEF Typed, Call
    <2>4. \A b \in Actor \ {a} : call'[b] = call[b]
      BY <1>1, <2>1 DEF Typed
    <2> QED  BY <2>1, <2>3, <2>4, SteadyIsFounded DEF Steady
  <1>5. ASSUME NEW op \in {"unmount", "drop", "final"}, Unmount(a, op)  PROVE Founded
    <2>1. PICK i \in todo[a] :
             /\ Ready(a, op, i)
             /\ Becomes(a, i, IF op = "drop" THEN {Do("unguard", i.key)} ELSE {})
      BY <1>5 DEF Unmount
    <2>2. call' = call
      BY <1>5 DEF Unmount
    <2>3. \A b \in Actor : \A j \in todo'[b] : j \in todo[b] \/ j.op = "unguard"
      BY <1>1, <2>1 DEF Becomes, Do, Typed
    <2> QED  BY <2>2, <2>3, SteadyIsFounded DEF Steady
  <1>6. ASSUME NEW op \in {"chmod", "unguard"}, Chmod(a, op)  PROVE Founded
    <2>1. PICK i \in todo[a] : Done(a, i)
      BY <1>6 DEF Chmod
    <2>2. call' = call
      BY <1>6 DEF Chmod
    <2>3. \A b \in Actor : todo'[b] \subseteq todo[b]
      BY <1>1, <2>1, TodoDone
    <2> QED  BY <2>2, <2>3, SteadyIsFounded DEF Steady
  <1> QED  BY <1>2, <1>3, <1>4, <1>5, <1>6 DEF Step

\* mountsForOnlineDevice lists what is configured, at the device's endpoint.
LEMMA OnlineJustly ==
    ASSUME Typed', cfg' = cfg, NEW p \in Peer, p \in paired', NEW info \in Info, online'[p] = info
    PROVE  \A i \in MountsForOnlineDevice(p, info) : Justly(<<i.key, i.ep>>)'
  <1> SUFFICES ASSUME NEW i \in MountsForOnlineDevice(p, info)  PROVE Justly(<<i.key, i.ep>>)'
    OBVIOUS
  <1>1. PICK s \in info.shares : <<p, s>> \in cfg /\ i = MountAt(<<p, s>>, info.ep, FALSE)
    BY DEF MountsForOnlineDevice
  <1>2. i.key = <<p, s>> /\ i.ep = info.ep
    BY <1>1 DEF MountAt
  <1>3. info.ep # None
    BY MountsAssumption DEF Info
  <1>4. Peerof(i.key)' = info /\ i.key[1] = p
    BY <1>2 DEF Peerof
  <1> QED  BY <1>1, <1>2, <1>3, <1>4 DEF Justly

\* An event with its new work: only mounts that are justified.
LEMMA EventFounded ==
    ASSUME Typed, NEW a \in Actor, Input(a), NEW is, todo' = [todo EXCEPT ![a] = is],
           \A i \in is : i.op = "mount" => Justly(<<i.key, i.ep>>)'
    PROVE  Founded
  <1>1. call' = call /\ todo'[a] = is /\ \A b \in Actor \ {a} : todo'[b] = todo[b]
    BY DEF Input, Typed
  <1> QED  BY <1>1, NewAsks

\* The events of the hub and the changes of the configuration.
LEMMA InputsFounded ==
    ASSUME IInv, IInv', Inputs
    PROVE  Founded
  <1>1. Typed /\ Typed' /\ "events" \in Actor /\ "watcher" \in Actor
    BY DEF IInv, Actor
  <1>2. ASSUME NEW p \in Peer, NEW info \in Info, DeviceOnline(p, info)  PROVE Founded
    <2>1. /\ Input("events") /\ todo' = [todo EXCEPT !["events"] = OnlineMounts(p, info)]
          /\ online' = [online EXCEPT ![p] = info] /\ UNCHANGED <<cfg, paired>>
      BY <1>2 DEF DeviceOnline
    <2>2. online'[p] = info
      BY <1>1, <2>1 DEF Typed
    <2>3. \A i \in OnlineMounts(p, info) : Justly(<<i.key, i.ep>>)'
      <3>1. CASE p \in paired
        BY <1>1, <2>1, <2>2, <3>1, OnlineJustly DEF OnlineMounts
      <3>2. CASE p \notin paired
        BY <3>2 DEF OnlineMounts
      <3> QED  BY <3>1, <3>2
    <2> QED  BY <1>1, <2>1, <2>3, EventFounded
  <1>3. ASSUME NEW p \in Peer, NEW shares \in SUBSET Share, SharesUpdated(p, shares)  PROVE Founded
    <2> DEFINE ks == {j \in Key : j[1] = p /\ active[j] # NoMount /\ j[2] \notin shares}
               is == {Do("unmount", k) : k \in ks}
    <2>1. Input("events") /\ todo' = [todo EXCEPT !["events"] = is]
      BY <1>3 DEF SharesUpdated
    <2>2. \A i \in is : i.op = "unmount"
      BY DEF Do
    <2> HIDE DEF is
    <2> QED  BY <1>1, <2>1, <2>2, EventFounded
  <1>4. ASSUME NEW p \in Peer, DeviceOffline(p)  PROVE Founded
    <2> DEFINE ks == {j \in Key : j[1] = p /\ active[j] # NoMount}
               is == {Do("unmount", k) : k \in ks}
    <2>1. Input("events") /\ todo' = [todo EXCEPT !["events"] = is]
      BY <1>4 DEF DeviceOffline
    <2>2. \A i \in is : i.op = "unmount"
      BY DEF Do
    <2> HIDE DEF is
    <2> QED  BY <1>1, <2>1, <2>2, EventFounded
  <1>5. ASSUME NEW p \in Peer, PairingCompleted(p)  PROVE Founded
    <2> DEFINE is == IF online[p] = NoPeer THEN {Do("guard", k) : k \in cfg}
                     ELSE MountsForOnlineDevice(p, online[p])
    <2>1. /\ Input("events") /\ todo' = [todo EXCEPT !["events"] = is]
          /\ paired' = paired \cup {p} /\ UNCHANGED <<cfg, online>>
      BY <1>5 DEF PairingCompleted
    <2>2. \A i \in is : i.op = "mount" => Justly(<<i.key, i.ep>>)'
      <3>1. CASE online[p] = NoPeer
        BY <3>1 DEF Do
      <3>2. CASE online[p] # NoPeer
        <4>1. online[p] \in Info /\ online'[p] = online[p] /\ p \in paired'
          BY <1>1, <2>1, <3>2 DEF Typed
        <4> QED  BY <1>1, <2>1, <3>2, <4>1, OnlineJustly
      <3> QED  BY <3>1, <3>2
    <2> HIDE DEF is
    <2> QED  BY <1>1, <2>1, <2>2, EventFounded
  <1>6. ASSUME NEW present \in SUBSET Peer, NEW info \in Info, RegisterSnapshot(present, info)
        PROVE  Founded
    <2> DEFINE is == {[op |-> "learn", peer |-> p, info |-> info] : p \in present}
    <2>1. Input("events") /\ todo' = [todo EXCEPT !["events"] = is]
      BY <1>6 DEF RegisterSnapshot
    <2>2. \A i \in is : i.op = "learn"
      OBVIOUS
    <2> HIDE DEF is
    <2> QED  BY <1>1, <2>1, <2>2, EventFounded
  <1>7. ASSUME NEW new \in SUBSET Key, OnConfigChange(new)  PROVE Founded
    <2> DEFINE is == {Do("try", k) : k \in new \ cfg} \cup {Do("drop", k) : k \in cfg \ new}
    <2>1. Input("watcher") /\ todo' = [todo EXCEPT !["watcher"] = is]
      BY <1>7 DEF OnConfigChange
    <2>2. \A i \in is : i.op \in {"try", "drop"}
      BY DEF Do
    <2> HIDE DEF is
    <2> QED  BY <1>1, <2>1, <2>2, EventFounded
  <1> QED  BY <1>2, <1>3, <1>4, <1>5, <1>6, <1>7 DEF Inputs

\* Work that turns into a call of Mount.
LEMMA TurnsFounded ==
    ASSUME IInv, IInv', Learn \/ TryMount \/ Visit \/ GuardCheck \/ Sweep
    PROVE  Founded
  <1>1. Typed /\ Typed' /\ Roles /\ {"events", "watcher", "monitor"} \subseteq Actor
    BY DEF IInv, Actor
  <1>2. call' = call /\ cfg' = cfg /\ paired' = paired
    BY DEF Learn, TryMount, Visit, GuardCheck, Sweep, known
  <1>3. CASE Learn
    <2>1. PICK i \in todo["events"] :
             /\ Ready("events", "learn", i)
             /\ online' = [online EXCEPT ![i.peer] = i.info]
             /\ Becomes("events", i, OnlineMounts(i.peer, i.info))
      BY <1>3 DEF Learn
    <2>2. i \in Work /\ i.op = "learn"
      BY <1>1, <2>1 DEF Typed, Ready
    <2>3. i.peer \in Peer /\ i.info \in Info
      BY <2>2, WorkShape DEF LearnWork
    <2>4. /\ todo'["events"] = (todo["events"] \ {i}) \cup OnlineMounts(i.peer, i.info)
          /\ \A b \in Actor \ {"events"} : todo'[b] = todo[b]
      BY <1>1, <2>1 DEF Becomes, Typed
    <2>5. online'[i.peer] = i.info
      BY <1>1, <2>1, <2>3 DEF Typed
    <2>6. \A j \in OnlineMounts(i.peer, i.info) : Justly(<<j.key, j.ep>>)'
      <3>1. CASE i.peer \in paired
        BY <1>1, <1>2, <2>3, <2>5, <3>1, OnlineJustly DEF OnlineMounts
      <3>2. CASE i.peer \notin paired
        BY <3>2 DEF OnlineMounts
      <3> QED  BY <3>1, <3>2
    <2> QED  BY <1>1, <1>2, <2>4, <2>6, NewAsks
  <1>4. CASE TryMount
    <2>1. PICK i \in todo["watcher"] :
             /\ Ready("watcher", "try", i)
             /\ Becomes("watcher", i,
                   IF Peerof(i.key) = NoPeer \/ i.key[1] \notin paired
                   THEN {Do("chmod", i.key)}
                   ELSE {MountAt(i.key, Peerof(i.key).ep, FALSE)})
      BY <1>4 DEF TryMount
    <2>2. i \in Work /\ i.op = "try" /\ i.key \in Key /\ i.key \in cfg /\ online' = online
      BY <1>1, <1>4, <2>1, WorkShape DEF Typed, Ready, Roles, Due, TryMount, known
    <2> DEFINE is == IF Peerof(i.key) = NoPeer \/ i.key[1] \notin paired
                     THEN {Do("chmod", i.key)}
                     ELSE {MountAt(i.key, Peerof(i.key).ep, FALSE)}
    <2>3. ASSUME NEW j \in is, j.op = "mount"  PROVE Justly(<<j.key, j.ep>>)'
      <3>1. /\ Peerof(i.key) # NoPeer /\ i.key[1] \in paired
            /\ j.key = i.key /\ j.ep = Peerof(i.key).ep
        BY <2>3 DEF Do, MountAt
      <3>2. Peerof(i.key) \in Info
        BY <1>1, <2>2, <3>1 DEF Typed, Peerof, Key
      <3>3. Peerof(i.key).ep # None
        BY <3>2, MountsAssumption DEF Info
      <3>4. Peerof(i.key)' = Peerof(i.key)
        BY <2>2 DEF Peerof
      <3> QED  BY <1>2, <2>2, <3>1, <3>3, <3>4 DEF Justly
    <2>4. /\ todo'["watcher"] = (todo["watcher"] \ {i}) \cup is
          /\ \A b \in Actor \ {"watcher"} : todo'[b] = todo[b]
      BY <1>1, <2>1 DEF Becomes, Typed, Do, MountAt
    <2> HIDE DEF is
    <2> QED  BY <1>1, <1>2, <2>3, <2>4, NewAsks
  <1>5. CASE Visit
    <2>1. PICK i \in todo["monitor"] :
             /\ Ready("monitor", "visit", i)
             /\ IF phase # "running" THEN todo' = [todo EXCEPT !["monitor"] = {}]
                ELSE Becomes("monitor", i,
                        IF ~ Visitable(i.key) THEN {}
                        ELSE {MountAt(i.key, Peerof(i.key).ep, active[i.key] = NoMount)})
      BY <1>5 DEF Visit
    <2>2. online' = online
      BY <1>5 DEF Visit, known
    <2>3. \A b \in Actor \ {"monitor"} : todo'[b] = todo[b]
      <3>1. CASE phase # "running"
        <4>1. todo' = [todo EXCEPT !["monitor"] = {}]
          BY <2>1, <3>1, Zenon
        <4> QED  BY <1>1, <4>1 DEF Typed
      <3>2. CASE phase = "running"
        <4>1. PICK is : Becomes("monitor", i, is)
          BY <2>1, <3>2, Zenon
        <4> QED  BY <1>1, <4>1 DEF Becomes, Typed
      <3> QED  BY <3>1, <3>2
    <2>4. ASSUME NEW j \in todo'["monitor"], j \notin todo["monitor"]
          PROVE  /\ Visitable(i.key)
                 /\ j = MountAt(i.key, Peerof(i.key).ep, active[i.key] = NoMount)
      <3> DEFINE is == IF ~ Visitable(i.key) THEN {}
                       ELSE {MountAt(i.key, Peerof(i.key).ep, active[i.key] = NoMount)}
      <3>1. phase = "running"
        <4>1. ASSUME phase # "running"  PROVE FALSE
          <5>1. todo' = [todo EXCEPT !["monitor"] = {}]
            BY <2>1, <4>1, Zenon
          <5>2. todo'["monitor"] = {}
            BY <1>1, <5>1 DEF Typed
          <5>3. todo'["monitor"] # {}
            BY <2>4, Zenon
          <5> QED  BY <5>2, <5>3
        <4> QED  BY <4>1
      <3>2. Becomes("monitor", i, is)
        BY <2>1, <3>1, Zenon
      <3> HIDE DEF is
      <3>3. todo'["monitor"] = (todo["monitor"] \ {i}) \cup is
        BY <1>1, <3>2 DEF Becomes, Typed
      <3>4. j \in is
        BY <2>4, <3>3
      <3> QED  BY <3>4, Zenon DEF is
    <2>5. ASSUME NEW j \in todo'["monitor"], j \notin todo["monitor"]
          PROVE  Justly(<<j.key, j.ep>>)'
      <3>1. Visitable(i.key)
        BY <2>4, <2>5
      <3>2. j.key = i.key /\ j.ep = Peerof(i.key).ep
        BY <2>4, <2>5 DEF MountAt
      <3>3. i.key \in cfg /\ i.key[1] \in paired /\ Peerof(i.key).ep # None
        BY <3>1 DEF Visitable, Desired
      <3>4. Peerof(i.key)' = Peerof(i.key)
        BY <2>2 DEF Peerof
      <3> QED  BY <1>2, <3>2, <3>3, <3>4 DEF Justly
    <2> QED  BY <1>1, <1>2, <2>3, <2>5, NewAsks
  <1>6. CASE GuardCheck
    <2>1. PICK i \in todo["events"] :
             Becomes("events", i, IF active[i.key] # NoMount THEN {} ELSE {Do("chmod", i.key)})
      BY <1>6 DEF GuardCheck
    <2>2. \A b \in Actor : \A j \in todo'[b] : j \in todo[b] \/ j.op = "chmod"
      BY <1>1, <2>1 DEF Becomes, Do, Typed
    <2> QED  BY <1>2, <2>2, SteadyIsFounded DEF Steady
  <1>7. CASE Sweep
    <2>1. todo' = [todo EXCEPT !["monitor"] = {Do("visit", k) : k \in cfg}]
      BY <1>7 DEF Sweep
    <2>2. \A b \in Actor : \A j \in todo'[b] : j \in todo[b] \/ j.op = "visit"
      BY <1>1, <2>1 DEF Do, Typed
    <2> QED  BY <1>2, <2>2, SteadyIsFounded DEF Steady
  <1> QED  BY <1>3, <1>4, <1>5, <1>6, <1>7

\* The verdicts, the clock, the kernel and the shutdown ask for nothing.
LEMMA RestFounded ==
    ASSUME IInv,
           \/ Cancel \/ Shutdown \/ Exit
           \/ \E k \in Key :
                 \/ \E g \in Gen, odd \in 0..1 : RunProbe(k, g, odd)
                 \/ \E kr \in {"zombie", "none", "wedged"} : Fault(k, kr)
                 \/ NextTry(k) \/ Unwedge(k) \/ LocalWrite(k)
    PROVE  Founded
  <1>1. Typed
    BY DEF IInv
  <1>2. ASSUME call' = call, todo' = todo  PROVE Founded
    BY <1>2, SteadyIsFounded DEF Steady
  <1>3. ASSUME NEW k \in Key, NEW g \in Gen, NEW odd \in 0..1, RunProbe(k, g, odd)
        PROVE  Founded
    <2>1. todo' = todo
      BY <1>3 DEF RunProbe
    <2>2. ASSUME NEW a \in Actor
          PROVE  \/ call'[a] = call[a]
                 \/ call[a] # NoCall /\ call'[a].key = call[a].key /\ call'[a].ep = call[a].ep
      <3>1. CASE call[a].gen = g /\ call[a].key = k /\ call[a].health = "wait"
        <4>1. call[a] \in Call /\ call[a] # NoCall
          BY <1>1, <3>1, Absent DEF Typed
        <4>2. call'[a] = [call[a] EXCEPT !.health = Classify(krn[k], odd)]
          BY <1>3, <3>1 DEF RunProbe
        <4> QED  BY <4>1, <4>2 DEF Call
      <3>2. CASE ~ (call[a].gen = g /\ call[a].key = k /\ call[a].health = "wait")
        BY <1>3, <3>2 DEF RunProbe
      <3> QED  BY <3>1, <3>2
    <2> QED  BY <2>1, <2>2, SteadyIsFounded DEF Steady
  <1>4. ASSUME Shutdown  PROVE Founded
    <2>1. call' = call /\ todo' = [todo EXCEPT !["main"] =
                             {Do("final", k) : k \in {j \in Key : active[j] # NoMount}}]
      BY <1>4 DEF Shutdown
    <2>2. \A b \in Actor : \A j \in todo'[b] : j \in todo[b] \/ j.op = "final"
      BY <1>1, <2>1 DEF Do, Typed
    <2> QED  BY <2>1, <2>2, SteadyIsFounded DEF Steady
  <1>5. ASSUME Cancel \/ Exit  PROVE Founded
    BY <1>2, <1>5 DEF Cancel, Exit
  <1>6. ASSUME NEW k \in Key, NextTry(k) \/ Unwedge(k) \/ LocalWrite(k)  PROVE Founded
    BY <1>2, <1>6 DEF NextTry, Unwedge, LocalWrite
  <1>7. ASSUME NEW k \in Key, NEW kr \in {"zombie", "none", "wedged"}, Fault(k, kr)  PROVE Founded
    BY <1>2, <1>7 DEF Fault
  <1> QED  BY <1>3, <1>4, <1>5, <1>6, <1>7

-----------------------------------------------------------------------------
(* The refinement.                                                         *)

\* Every action moves the table as some action of MountTable.
LEMMA MovesBar ==
    ASSUME IInv, IInv', Next
    PROVE  Table!Learn \/ \E k \in Key : \/ Table!Attach(k) \/ Table!Release(k)
                                         \/ Table!Replace(k) \/ Table!Fail(k)
  <1> DEFINE Moves == Table!Learn \/ \E k \in Key : \/ Table!Attach(k) \/ Table!Release(k)
                                                    \/ Table!Replace(k) \/ Table!Fail(k)
  <1>1. Typed'
    BY DEF IInv
  <1>2. ASSUME UNCHANGED <<active, krn>>, phase' = "running" => phase = "running"  PROVE Moves
    BY <1>1, <1>2, QuietBar
  <1>3. ASSUME NEW a \in Actor, Step(a)  PROVE Moves
    <2>1. ASSUME NEW i \in todo[a], MountBegin(a, i)  PROVE Moves
      BY <2>1, MountBeginBar
    <2>2. ASSUME MountResume(a)  PROVE Moves
      BY <2>2, MountResumeBar
    <2>3. ASSUME NEW op \in {"unmount", "drop", "final"}, Unmount(a, op)  PROVE Moves
      BY <2>3, UnmountBar
    <2> HIDE DEF Moves
    <2>4. ASSUME ProbeTimeout(a)  PROVE Moves
      BY <1>2, <2>4 DEF ProbeTimeout, table
    <2>5. ASSUME NEW op \in {"chmod", "unguard"}, Chmod(a, op)  PROVE Moves
      BY <1>2, <2>5 DEF Chmod
    <2> QED  BY <1>3, <2>1, <2>2, <2>3, <2>4, <2>5 DEF Step
  <1>4. ASSUME NEW k \in Key, \/ Unwedge(k)
                              \/ \E kr \in {"zombie", "none", "wedged"} : Fault(k, kr)
        PROVE  Moves
    BY <1>4, KernelBar
  <1> HIDE DEF Moves
  <1>5. ASSUME Events  PROVE Moves
    <2>1. ASSUME Learn \/ GuardCheck  PROVE Moves
      BY <1>2, <2>1 DEF Learn, GuardCheck, table
    <2> QED  BY <1>3, <1>5, <2>1 DEF Events, Actor
  <1>6. ASSUME Watcher  PROVE Moves
    <2>1. ASSUME TryMount  PROVE Moves
      BY <1>2, <2>1 DEF TryMount, table
    <2> QED  BY <1>3, <1>6, <2>1 DEF Watcher, Actor
  <1>7. ASSUME Monitor  PROVE Moves
    <2>1. ASSUME Visit \/ Sweep  PROVE Moves
      <3>1. UNCHANGED <<active, krn, phase>>
        BY <2>1 DEF Visit, Sweep, table
      <3> QED  BY <1>2, <3>1
    <2> QED  BY <1>3, <1>7, <2>1 DEF Monitor, Actor
  <1>8. ASSUME Main  PROVE Moves
    <2>1. ASSUME Shutdown \/ Exit  PROVE Moves
      BY <1>2, <2>1 DEF Shutdown, Exit, table
    <2> QED  BY <1>3, <1>8, <2>1 DEF Main, Actor
  <1>9. ASSUME Inputs  PROVE Moves
    <2>1. UNCHANGED <<active, krn, phase>>
      BY <1>9 DEF Inputs, DeviceOnline, SharesUpdated, DeviceOffline, PairingCompleted,
                  RegisterSnapshot, OnConfigChange, Input, table
    <2> QED  BY <1>2, <2>1
  <1>10. ASSUME Cancel  PROVE Moves
    BY <1>2, <1>10 DEF Cancel, table
  <1>11. ASSUME NEW k \in Key,
                \/ NextTry(k) \/ LocalWrite(k)
                \/ \E g \in Gen, odd \in 0..1 : RunProbe(k, g, odd)
         PROVE  Moves
    BY <1>2, <1>11 DEF NextTry, LocalWrite, RunProbe, table
  <1>12. Moves
    BY <1>4, <1>5, <1>6, <1>7, <1>8, <1>9, <1>10, <1>11 DEF Next
  <1> QED  BY <1>12 DEF Moves

\* No action lets a caller ask for what is not justified.
LEMMA NextFounded ==
    ASSUME IInv, IInv', Next
    PROVE  Founded
  <1>1. CASE Events \/ Watcher \/ Monitor \/ Main
    BY <1>1, StepFounded, TurnsFounded, RestFounded DEF Events, Watcher, Monitor, Main, Actor
  <1>2. CASE Inputs
    BY <1>2, InputsFounded
  <1>3. CASE \/ Cancel
             \/ \E k \in Key :
                   \/ \E g \in Gen, odd \in 0..1 : RunProbe(k, g, odd)
                   \/ \E kr \in {"zombie", "none", "wedged"} : Fault(k, kr)
                   \/ NextTry(k) \/ Unwedge(k) \/ LocalWrite(k)
    BY <1>3, RestFounded
  <1> QED  BY <1>1, <1>2, <1>3 DEF Next

\* A step of the agent is a step of MountTable, or changes nothing there.
LEMMA NextBar ==
    ASSUME IInv, IInv', [Next]_vars
    PROVE  [Table!Next]_(Table!vars)
  <1>1. CASE Next
    <2>1. Table!Learn \/ \E k \in Key : \/ Table!Attach(k) \/ Table!Release(k)
                                        \/ Table!Replace(k) \/ Table!Fail(k)
      BY <1>1, MovesBar
    <2>2. AskingBar' \subseteq AskingBar \cup Table!Justified'
      BY <1>1, NextFounded, AskingGrows DEF Founded, IInv
    <2> QED  BY <2>1, <2>2 DEF Table!Next, AskingBar
  <1>2. CASE UNCHANGED vars
    BY <1>2 DEF vars, known, table, probes, Table!vars, Peerof
  <1> QED  BY <1>1, <1>2

\* The agent's mounts keep the promises of MountTable, for every set of peers,
\* shares and endpoints: a share is attached only for a caller that asked for
\* it when it was configured and its peer present, and a mount that serves goes
\* only when it is unwanted at that moment, for another endpoint, or at shutdown.
THEOREM MounterRefinesTable == Spec => TableRefined
  <1>1. Init => Table!Init
    BY InitBar
  <1>2. IInv /\ IInv' /\ [Next]_vars => [Table!Next]_(Table!vars)
    BY NextBar
  <1> QED  BY <1>1, <1>2, Inductive, PTL DEF Spec, TableRefined, Table!Spec
=============================================================================
