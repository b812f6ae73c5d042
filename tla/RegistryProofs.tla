--------------------------- MODULE RegistryProofs ---------------------------
(***************************************************************************)
(* Registry's safety properties hold for every set of devices, handlers    *)
(* and share lists, every bound on the streams, and with or without        *)
(* pruning.                                                                *)
(*                                                                         *)
(* The properties are not inductive one by one.  IInv adds to them what a  *)
(* hub that is down or serving looks like (Quiet, Unswept), what keeps a   *)
(* device the pruner did not list safe (RecentBeat, Watched), and what a   *)
(* departed device cannot be doing (Gone).  TypeOK, ShutdownInv and        *)
(* PruneInv are inductive by themselves, DepartureInv on top of            *)
(* SectionsExclusive, so each has a lemma of its own with one step for     *)
(* each action.                                                            *)
(***************************************************************************)
EXTENDS Registry, TLAPS

(***************************************************************************)
(* The inductive invariant, in three parts besides TypeOK.                 *)
(***************************************************************************)
\* Shutdown and restart.  Nothing runs in a hub that is down, and a hub that
\* serves has not swept.
Quiet == hub = "down" => \A h \in Handler : pc[h] = "idle"
Unswept == hub = "run" => ~swept

ShutdownInv ==
    /\ SectionsExclusive /\ Quiet /\ Unswept
    /\ NoPhantomOnline /\ NoOrphanStream /\ OnlineWasSeen

\* Pruning.  A device between its Register's heartbeat and its Subscribe has
\* a new heartbeat, and so has one whose stream the round did not list.
Arriving(d) ==
    \/ d \in ready
    \/ \E h \in Handler :
         /\ pc[h] \in {"markLock", "markWrite", "regSend", "subscribe"}
         /\ Dev(h) = d
RecentBeat == \A d \in Device : Arriving(d) => age[d] = Fresh
Watched ==
    mon.pc = "prune" =>
        \A d \in Device : Subscribed(d) /\ d \notin mon.todo => age[d] = Fresh

PruneInv == RecentBeat /\ Watched

\* Departure.  A departed device has no stream and no Register in flight.
Gone ==
    \A d \in Device :
        fate[d] = "departed" => ~Subscribed(d) /\ ~Registering(d)

DepartureInv == Gone /\ PeersHearDeparture

IInv == TypeOK /\ ShutdownInv /\ PruneInv /\ DepartureInv

\* An idle handler's argument is one.
LEMMA NoArgType == NoArg \in Arg
  BY RegistryAssumption DEF NoArg, Arg

\* The words of the fanout and the two channels without history.
LEMMA WordTypes ==
  /\ Silence \in Word /\ Down \in Word
  /\ \A v \in Shares : Up(v) \in Word
  /\ EmptyBox \in Box /\ LostBox \in Box
  BY RegistryAssumption DEF Silence, Down, Up, Word, EmptyBox, LostBox, Box

\* Where a handler goes next and what it knows there.
LEMMA GotoType ==
  ASSUME NEW h \in Handler, NEW step \in Pcs, NEW a \in Arg,
         pc \in [Handler -> Pcs], arg \in [Handler -> Arg],
         GotoWith(h, step, a)
  PROVE  pc' \in [Handler -> Pcs] /\ arg' \in [Handler -> Arg]
  BY NoArgType DEF GotoWith

\* A word put in a channel.
LEMMA HearType ==
  ASSUME NEW b \in Box, NEW d \in Device, NEW w \in Word
  PROVE  Hear(b, d, w) \in Box
  BY DEF Hear, Box

\* A send leaves every channel a channel.
LEMMA SendType ==
  ASSUME NEW d \in Device, NEW to \in SUBSET Device,
         NEW words \in [Device -> Word],
         box \in [Device -> Box], Send(to, d, words)
  PROVE  box' \in [Device -> Box]
  <1>1. PICK full \in SUBSET {p \in to : Subscribed(p)} :
          box' = [p \in Device |->
                  IF p \in full THEN LostBox
                  ELSE IF p \in to /\ Subscribed(p) THEN Hear(box[p], d, words[p])
                  ELSE box[p]]
    BY DEF Send
  <1>2. ASSUME NEW p \in Device
        PROVE  Hear(box[p], d, words[p]) \in Box
    BY HearType
  <1> QED
    BY <1>1, <1>2, WordTypes

\* The events give every peer a word.
LEMMA EventTypes ==
  ASSUME box \in [Device -> Box]
  PROVE  /\ DeviceOffline \in [Device -> Word]
         /\ DeviceRemoved \in [Device -> Word]
         /\ \A v \in Shares : DeviceOnline(v) \in [Device -> Word]
         /\ \A d \in Device, v \in Shares :
                SharesUpdated(d, v) \in [Device -> Word]
  BY WordTypes DEF DeviceOffline, DeviceRemoved, DeviceOnline, SharesUpdated, Box

\* SendType for the three ways to send.
LEMMA BroadcastType ==
  ASSUME NEW d \in Device, NEW words \in [Device -> Word],
         box \in [Device -> Box],
         Broadcast(d, words) \/ broadcastLocked(d, words) \/ BroadcastAll(d, words)
  PROVE  box' \in [Device -> Box]
  BY SendType DEF Broadcast, broadcastLocked, BroadcastAll

\* The parts of a handler's argument.
LEMMA ArgType ==
  ASSUME TypeOK, NEW h \in Handler
  PROVE  /\ arg[h] \in Arg
         /\ Dev(h) \in Device /\ arg[h].shares \in Shares
         /\ arg[h].port \in BOOLEAN
  BY DEF TypeOK, Arg, Dev

\* An argument with one part replaced.
LEMMA ArgExcept ==
  ASSUME NEW a \in Arg, NEW v \in Shares, NEW b \in BOOLEAN
  PROVE  [a EXCEPT !.shares = v] \in Arg /\ [a EXCEPT !.port = b] \in Arg
  BY DEF Arg

\* What a channel that has lost nothing carries after a send.
LEMMA SendFacts ==
  ASSUME NEW d \in Device, NEW to \in SUBSET Device,
         NEW words \in [Device -> Word],
         box \in [Device -> Box], Send(to, d, words),
         NEW p \in Device, ~box'[p].lost
  PROVE  /\ ~box[p].lost
         /\ \A q \in Device :
              box'[p].told[q] = IF q = d /\ p \in to /\ Subscribed(p)
                                THEN words[p] ELSE box[p].told[q]
  <1>1. PICK full \in SUBSET {q \in to : Subscribed(q)} :
          box' = [q \in Device |->
                  IF q \in full THEN LostBox
                  ELSE IF q \in to /\ Subscribed(q)
                       THEN Hear(box[q], d, words[q])
                  ELSE box[q]]
    BY DEF Send
  <1>2. CASE p \in full
    BY <1>1, <1>2 DEF LostBox
  <1>3. CASE p \notin full /\ p \in to /\ Subscribed(p)
    <2>1. box'[p] = Hear(box[p], d, words[p])
      BY <1>1, <1>3
    <2>2. ~box[p].lost
      BY <2>1 DEF Hear
    <2>3. box'[p].told = [box[p].told EXCEPT ![d] = words[p]]
      BY <2>1, <2>2 DEF Hear, Box
    <2> QED
      BY <1>3, <2>2, <2>3 DEF Box
  <1>4. CASE p \notin full /\ ~(p \in to /\ Subscribed(p))
    BY <1>1, <1>4
  <1> QED
    BY <1>2, <1>3, <1>4

\* A broadcast about d keeps PeersHearDeparture unless it tells a peer that a
\* departed d is up.
LEMMA SendKeepsDeparture ==
  ASSUME box \in [Device -> Box], PeersHearDeparture,
         NEW d \in Device, NEW to \in SUBSET Device,
         NEW words \in [Device -> Word], Send(to, d, words), sub' = sub,
         \A q \in Device : fate'[q] = "departed" =>
           /\ fate[q] = "departed"
           /\ \/ q # d
              \/ \A p \in Device :
                   words[p].word = "up" => box[p].told[d].word = "up"
  PROVE  PeersHearDeparture'
  <1>1. SUFFICES ASSUME NEW q \in Device, fate'[q] = "departed",
                        NEW p \in Device, Subscribed(p), ~box'[p].lost
                 PROVE  box'[p].told[q].word # "up"
    BY DEF PeersHearDeparture, Subscribed
  <1>2. /\ ~box[p].lost
        /\ box'[p].told[q] = IF q = d /\ p \in to /\ Subscribed(p)
                             THEN words[p] ELSE box[p].told[q]
    BY <1>1, SendFacts
  <1>3. box[p].told[q].word # "up"
    BY <1>1, <1>2 DEF PeersHearDeparture
  <1> QED
    BY <1>1, <1>2, <1>3

\* The same for the three ways to send.
LEMMA BroadcastKeepsDeparture ==
  ASSUME TypeOK, PeersHearDeparture,
         NEW d \in Device, NEW words \in [Device -> Word],
         Broadcast(d, words) \/ broadcastLocked(d, words) \/ BroadcastAll(d, words),
         sub' = sub,
         \A q \in Device : fate'[q] = "departed" =>
           /\ fate[q] = "departed"
           /\ \/ q # d
              \/ \A p \in Device :
                   words[p].word = "up" => box[p].told[d].word = "up"
  PROVE  PeersHearDeparture'
  BY SendKeepsDeparture
     DEF TypeOK, Broadcast, broadcastLocked, BroadcastAll


\* Every action keeps every variable in its set.
LEMMA TypeOKStep ==
  ASSUME TypeOK, [Next]_vars
  PROVE  TypeOK'
  <1> USE DEF TypeOK, rows, fanout, life, agents
  <1>1. ASSUME NEW h \in Handler, Join(h) PROVE TypeOK'
    BY <1>1, GotoType
    DEF Join, Goto, Return, Dev, Arg, Pcs, StorePcs, Status, Fresh
  <1>2. ASSUME NEW h \in Handler, RegisterRefused(h) PROVE TypeOK'
    BY <1>2, GotoType
    DEF RegisterRefused, Goto, Return, Dev, Arg, Pcs, StorePcs
  <1>3. ASSUME NEW h \in Handler, RegisterGetDevice(h) PROVE TypeOK'
    BY <1>3, GotoType
    DEF RegisterGetDevice, Goto, Return, Dev, Arg, Pcs, StorePcs
  <1>4. ASSUME NEW h \in Handler, RegisterSetShares(h) PROVE TypeOK'
    BY <1>4, GotoType
    DEF RegisterSetShares, Goto, Return, Dev, Arg, Pcs, StorePcs, SetShares
  <1>5. ASSUME NEW h \in Handler, RegisterBeat(h) PROVE TypeOK'
    BY <1>5, GotoType
    DEF RegisterBeat, Goto, Return, Dev, Arg, Pcs, StorePcs, UpdateHeartbeat,
       Fresh
  <1>6. ASSUME NEW h \in Handler, MarkLock(h) PROVE TypeOK'
    BY <1>6, GotoType DEF MarkLock, Goto, Return, Dev, Arg, Pcs, StorePcs
  <1>7. ASSUME NEW h \in Handler, MarkWrite(h) PROVE TypeOK'
    BY <1>7, GotoType
    DEF MarkWrite, Goto, Return, Dev, Arg, Pcs, StorePcs, Status, Seen
  <1>8. ASSUME NEW h \in Handler, RegisterSend(h) PROVE TypeOK'
    <2>1. DeviceOnline(arg[h].shares) \in [Device -> Word]
      BY ArgType, EventTypes DEF TypeOK
    <2>2. box' \in [Device -> Box]
      BY <1>8, <2>1, ArgType, BroadcastType DEF TypeOK, RegisterSend
    <2>3. pc' \in [Handler -> Pcs] /\ arg' \in [Handler -> Arg]
      BY <1>8, ArgType, GotoType
         DEF TypeOK, RegisterSend, Return, Goto, Pcs
    <2> QED
      BY <1>8, <2>2, <2>3, ArgType DEF TypeOK, RegisterSend, rows, life
  <1>9. ASSUME NEW h \in Handler, HeartbeatUpdate(h) PROVE TypeOK'
    BY <1>9, GotoType
    DEF HeartbeatUpdate, Goto, Return, Dev, Arg, Pcs, StorePcs,
       UpdateHeartbeat, Fresh
  <1>10. ASSUME NEW h \in Handler, HeartbeatGet(h) PROVE TypeOK'
    <2>1. [arg[h] EXCEPT !.port = port[Dev(h)]] \in Arg
      BY ArgType, ArgExcept DEF TypeOK
    <2>2. pc' \in [Handler -> Pcs] /\ arg' \in [Handler -> Arg]
      BY <1>10, <2>1, GotoType DEF TypeOK, HeartbeatGet, Pcs, StorePcs
    <2> QED
      BY <1>10, <2>2 DEF TypeOK, HeartbeatGet, rows, fanout, life, agents
  <1>11. ASSUME NEW h \in Handler, HeartbeatCanRecover(h) PROVE TypeOK'
    BY <1>11, GotoType
    DEF HeartbeatCanRecover, Goto, Return, Dev, Arg, Pcs, StorePcs
  <1>12. ASSUME NEW h \in Handler, HeartbeatGetShares(h) PROVE TypeOK'
    <2>1. [arg[h] EXCEPT !.shares = shares[Dev(h)]] \in Arg
      BY ArgType, ArgExcept DEF TypeOK
    <2>2. pc' \in [Handler -> Pcs] /\ arg' \in [Handler -> Arg]
      BY <1>12, <2>1, GotoType DEF TypeOK, HeartbeatGetShares, Pcs
    <2> QED
      BY <1>12, <2>2
         DEF TypeOK, HeartbeatGetShares, rows, fanout, life, agents
  <1>13. ASSUME NEW h \in Handler, RecoverLock(h) PROVE TypeOK'
    BY <1>13, GotoType DEF RecoverLock, Goto, Return, Dev, Arg, Pcs, StorePcs
  <1>14. ASSUME NEW h \in Handler, RecoverWrite(h) PROVE TypeOK'
    BY <1>14, GotoType
    DEF RecoverWrite, Goto, Return, Dev, Arg, Pcs, StorePcs, Status, Seen
  <1>15. ASSUME NEW h \in Handler, RecoverSend(h) PROVE TypeOK'
    BY <1>15, GotoType, BroadcastType, EventTypes
    DEF RecoverSend, Goto, Return, Dev, Arg, Pcs, StorePcs
  <1>16. ASSUME NEW h \in Handler, UpdateSharesSet(h) PROVE TypeOK'
    BY <1>16, GotoType
    DEF UpdateSharesSet, Goto, Return, Dev, Arg, Pcs, StorePcs, SetShares
  <1>17. ASSUME NEW h \in Handler, UpdateSharesSend(h) PROVE TypeOK'
    BY <1>17, GotoType, BroadcastType, EventTypes
    DEF UpdateSharesSend, Goto, Return, Dev, Arg, Pcs, StorePcs
  <1>18. ASSUME NEW h \in Handler, DeregisterGet(h) PROVE TypeOK'
    <2>1. [arg[h] EXCEPT !.port = port[Dev(h)]] \in Arg
      BY ArgType, ArgExcept DEF TypeOK
    <2>2. pc' \in [Handler -> Pcs] /\ arg' \in [Handler -> Arg]
      BY <1>18, <2>1, GotoType DEF TypeOK, DeregisterGet, Pcs, StorePcs
    <2> QED
      BY <1>18, <2>2 DEF TypeOK, DeregisterGet, rows, fanout, life, agents
  <1>19. ASSUME NEW h \in Handler, DeregisterUnsub(h) PROVE TypeOK'
    BY <1>19, GotoType, WordTypes
    DEF DeregisterUnsub, Goto, Return, Dev, Arg, Pcs, StorePcs,
       removeSubscriber, Unmap
  <1>20. ASSUME NEW h \in Handler, DeregisterWrite(h) PROVE TypeOK'
    <2>1. pc' \in [Handler -> Pcs] /\ arg' \in [Handler -> Arg]
      BY <1>20, ArgType, GotoType
         DEF TypeOK, DeregisterWrite, Return, Goto, Pcs
    <2>2. status' \in [Device -> Status] /\ port' \in [Device -> BOOLEAN]
      BY <1>20, ArgType DEF TypeOK, DeregisterWrite, Status
    <2> QED
      BY <1>20, <2>1, <2>2
         DEF TypeOK, DeregisterWrite, fanout, life, agents
  <1>21. ASSUME NEW h \in Handler, DeregisterSend(h) PROVE TypeOK'
    BY <1>21, GotoType, BroadcastType, EventTypes
    DEF DeregisterSend, Goto, Return, Dev, Arg, Pcs, StorePcs
  <1>22. ASSUME NEW h \in Handler, LeaveGet(h) PROVE TypeOK'
    BY <1>22, GotoType DEF LeaveGet, Goto, Return, Dev, Arg, Pcs, StorePcs
  <1>23. ASSUME NEW h \in Handler, LeaveDelete(h) PROVE TypeOK'
    BY <1>23, GotoType, RegistryAssumption
    DEF LeaveDelete, Goto, Return, Dev, Arg, Pcs, StorePcs, DeleteRows,
       Status, Fresh
  <1>24. ASSUME NEW h \in Handler, LeaveSend(h) PROVE TypeOK'
    BY <1>24, GotoType, BroadcastType, EventTypes
    DEF LeaveSend, Goto, Return, Dev, Arg, Pcs, StorePcs
  <1>25. ASSUME NEW h \in Handler, LeaveUnsub(h) PROVE TypeOK'
    BY <1>25, GotoType, WordTypes
    DEF LeaveUnsub, Goto, Return, Dev, Arg, Pcs, StorePcs, removeSubscriber,
       Unmap
  <1>26. ASSUME NEW h \in Handler, Subscribe(h) PROVE TypeOK'
    <2>1. pc' \in [Handler -> Pcs] /\ arg' \in [Handler -> Arg]
      BY <1>26, ArgType, GotoType DEF TypeOK, Subscribe, Return, Goto, Pcs
    <2>2. /\ sub' \in [Device -> Nat] /\ last' \in [Device -> Nat]
          /\ streams' \in [Device -> SUBSET Nat]
      BY <1>26, ArgType DEF TypeOK, Subscribe, fanout
    <2>3. box' \in [Device -> Box]
      BY <1>26, ArgType, WordTypes DEF TypeOK, Subscribe, fanout
    <2>4. fate' \in [Device -> {"unknown", "seen", "departed"}]
      BY <1>26, ArgType DEF TypeOK, Subscribe, Returned, Seen
    <2> QED
      BY <1>26, <2>1, <2>2, <2>3, <2>4 DEF TypeOK, Subscribe, rows, life
  <1>27. ASSUME NEW h \in Handler, Fail(h) PROVE TypeOK'
    BY <1>27, GotoType DEF Fail, Goto, Return, Dev, Arg, Pcs, StorePcs
  <1>28. ASSUME NEW h \in Handler, NEW d \in Caller, NEW rpc \in Rpc,
              NEW v \in Shares, Call(h, d, rpc, v)
       PROVE  TypeOK'
    <2>1. [dev |-> d, shares |-> v, port |-> FALSE] \in Arg
      BY RegistryAssumption DEF Arg
    <2>2. FirstStep[rpc] \in Pcs
      BY RegistryAssumption DEF FirstStep, Pcs, StorePcs
    <2>3. pc' \in [Handler -> Pcs] /\ arg' \in [Handler -> Arg]
      BY <1>28, <2>1, <2>2, GotoType DEF TypeOK, Call
    <2>4. fate' \in [Device -> {"unknown", "seen", "departed"}]
      BY <1>28, RegistryAssumption DEF TypeOK, Call, Returned, Seen
    <2> QED
      BY <1>28, <2>3, <2>4 DEF TypeOK, Call, rows, fanout, life
  <1>29. ASSUME NEW d \in Device, NEW g \in 1..MaxStreams, StreamClosed(d, g)
       PROVE  TypeOK'
    BY <1>29 DEF StreamClosed
  <1>30. ASSUME NEW d \in Device, NEW g \in 1..MaxStreams, StreamBroken(d, g)
       PROVE  TypeOK'
    BY <1>30, WordTypes DEF StreamBroken
  <1>31. ASSUME NEW d \in Device, Age(d) PROVE TypeOK'
    BY <1>31 DEF Age, Fresh, Stale, Ancient
  <1>32. ASSUME NEW d \in Device, MarkOfflineIfStale(d) PROVE TypeOK'
    BY <1>32 DEF MarkOfflineIfStale, Status, MonNext, MonIdle, MonPcs
  <1>33. ASSUME NEW d \in Device, MarkOfflineFails(d) PROVE TypeOK'
    BY <1>33 DEF MarkOfflineFails, MonNext, MonIdle, MonPcs
  <1>34. ASSUME NEW d \in Device, MarkOfflineSend(d) PROVE TypeOK'
    BY <1>34, BroadcastType, EventTypes
    DEF MarkOfflineSend, MonNext, MonIdle, MonPcs
  <1>35. ASSUME NEW d \in Device, PruneUnsub(d) PROVE TypeOK'
    BY <1>35, WordTypes DEF PruneUnsub, removeSubscriber, Unmap, MonPcs
  <1>36. ASSUME NEW d \in Device, PruneSend(d) PROVE TypeOK'
    BY <1>36, BroadcastType, EventTypes
    DEF PruneSend, MonNext, MonIdle, MonPcs
  <1>37. ASSUME NEW d \in Device, SweepSend(d) PROVE TypeOK'
    BY <1>37, BroadcastType, EventTypes DEF SweepSend, HubPcs
  <1>38. CASE CheckStale
    BY <1>38 DEF CheckStale, StaleDevices, MonPcs
  <1>39. CASE PruneList
    BY <1>39 DEF PruneList, MonPcs
  <1>40. CASE DeletePrunedDevices
    BY <1>40, RegistryAssumption
    DEF DeletePrunedDevices, DeleteRows, Prunable, Status, Fresh, MonNext,
       MonIdle, MonPcs
  <1>41. CASE PruneFails
    BY <1>41 DEF PruneFails, MonIdle, MonPcs
  <1>42. CASE Drain
    BY <1>42 DEF Drain, HubPcs
  <1>43. CASE SweepList
    BY <1>43 DEF SweepList, HubPcs, Online
  <1>44. CASE SweepMark
    BY <1>44 DEF SweepMark, HubPcs, MarkAllOffline, Status
  <1>45. CASE SweepFails
    BY <1>45 DEF SweepFails, HubPcs
  <1>46. CASE CloseAllSubscribers
    BY <1>46, WordTypes DEF CloseAllSubscribers, HubPcs
  <1>47. CASE ExitGraceful
    BY <1>47, WordTypes, NoArgType
    DEF ExitGraceful, Halt, HubPcs, MonIdle, MonPcs, Pcs
  <1>48. CASE Killed
    BY <1>48, WordTypes, NoArgType
    DEF Killed, Halt, HubPcs, MonIdle, MonPcs, Pcs
  <1>49. CASE GraceExpires
    BY <1>49, WordTypes, NoArgType
    DEF GraceExpires, Halt, HubPcs, MonIdle, MonPcs, Pcs
  <1>50. CASE Start
    BY <1>50 DEF Start, HubPcs, MarkAllOffline, Status
  <1>51. CASE UNCHANGED vars
    BY <1>51 DEF vars
  <1> QED
    BY <1>1, <1>2, <1>3, <1>4, <1>5, <1>6, <1>7, <1>8, <1>9, <1>10, <1>11,
       <1>12, <1>13, <1>14, <1>15, <1>16, <1>17, <1>18, <1>19, <1>20, <1>21,
       <1>22, <1>23, <1>24, <1>25, <1>26, <1>27, <1>28, <1>29, <1>30, <1>31,
       <1>32, <1>33, <1>34, <1>35, <1>36, <1>37, <1>38, <1>39, <1>40, <1>41,
       <1>42, <1>43, <1>44, <1>45, <1>46, <1>47, <1>48, <1>49, <1>50,
       <1>51, RegistryAssumption
    DEF Next, HandlerStep, MonitorStep, StopStep

\* Drain and the writers of sub wait for the readers; the readers look at the
\* flag and the map before they write.
LEMMA ShutdownStep ==
  ASSUME TypeOK, ShutdownInv, [Next]_vars
  PROVE  ShutdownInv'
  <1> USE DEF TypeOK, ShutdownInv, SectionsExclusive, Quiet, Unswept,
     NoPhantomOnline, NoOrphanStream, OnlineWasSeen, Online, Subscribed,
     rows, fanout, life, agents, GotoWith, Goto, Return, Dev, Arg
  <1>1. ASSUME NEW h \in Handler, Join(h) PROVE ShutdownInv'
    BY <1>1 DEF Join
  <1>2. ASSUME NEW h \in Handler, RegisterRefused(h) PROVE ShutdownInv'
    BY <1>2 DEF RegisterRefused
  <1>3. ASSUME NEW h \in Handler, RegisterGetDevice(h) PROVE ShutdownInv'
    BY <1>3 DEF RegisterGetDevice
  <1>4. ASSUME NEW h \in Handler, RegisterSetShares(h) PROVE ShutdownInv'
    BY <1>4 DEF RegisterSetShares
  <1>5. ASSUME NEW h \in Handler, RegisterBeat(h) PROVE ShutdownInv'
    BY <1>5 DEF RegisterBeat, UpdateHeartbeat
  <1>6. ASSUME NEW h \in Handler, MarkLock(h) PROVE ShutdownInv'
    BY <1>6 DEF MarkLock, draining
  <1>7. ASSUME NEW h \in Handler, MarkWrite(h) PROVE ShutdownInv'
    BY <1>7 DEF MarkWrite, Seen
  <1>8. ASSUME NEW h \in Handler, RegisterSend(h) PROVE ShutdownInv'
    BY <1>8 DEF RegisterSend
  <1>9. ASSUME NEW h \in Handler, HeartbeatUpdate(h) PROVE ShutdownInv'
    BY <1>9 DEF HeartbeatUpdate, UpdateHeartbeat
  <1>10. ASSUME NEW h \in Handler, HeartbeatGet(h) PROVE ShutdownInv'
    BY <1>10 DEF HeartbeatGet
  <1>11. ASSUME NEW h \in Handler, HeartbeatCanRecover(h) PROVE ShutdownInv'
    BY <1>11 DEF HeartbeatCanRecover
  <1>12. ASSUME NEW h \in Handler, HeartbeatGetShares(h) PROVE ShutdownInv'
    BY <1>12 DEF HeartbeatGetShares
  <1>13. ASSUME NEW h \in Handler, RecoverLock(h) PROVE ShutdownInv'
    BY <1>13 DEF RecoverLock, canRecover, draining
  <1>14. ASSUME NEW h \in Handler, RecoverWrite(h) PROVE ShutdownInv'
    <2>1. hub = "run" /\ pc'[h] \in {"recSend", "idle"}
      BY <1>14 DEF RecoverWrite
    <2>2. SectionsExclusive' /\ Quiet' /\ Unswept'
      BY <1>14, <2>1 DEF RecoverWrite
    <2>3. NoPhantomOnline' /\ NoOrphanStream'
      BY <1>14, <2>1 DEF RecoverWrite
    <2>4. OnlineWasSeen'
      BY <1>14 DEF RecoverWrite, Seen
    <2> QED
      BY <2>2, <2>3, <2>4
  <1>15. ASSUME NEW h \in Handler, RecoverSend(h) PROVE ShutdownInv'
    BY <1>15 DEF RecoverSend
  <1>16. ASSUME NEW h \in Handler, UpdateSharesSet(h) PROVE ShutdownInv'
    BY <1>16 DEF UpdateSharesSet
  <1>17. ASSUME NEW h \in Handler, UpdateSharesSend(h) PROVE ShutdownInv'
    BY <1>17 DEF UpdateSharesSend
  <1>18. ASSUME NEW h \in Handler, DeregisterGet(h) PROVE ShutdownInv'
    BY <1>18 DEF DeregisterGet
  <1>19. ASSUME NEW h \in Handler, DeregisterUnsub(h) PROVE ShutdownInv'
    BY <1>19
    DEF DeregisterUnsub, removeSubscriber, Unmap, NoReaders, ReadLocked
  <1>20. ASSUME NEW h \in Handler, DeregisterWrite(h) PROVE ShutdownInv'
    BY <1>20 DEF DeregisterWrite
  <1>21. ASSUME NEW h \in Handler, DeregisterSend(h) PROVE ShutdownInv'
    BY <1>21 DEF DeregisterSend
  <1>22. ASSUME NEW h \in Handler, LeaveGet(h) PROVE ShutdownInv'
    BY <1>22 DEF LeaveGet
  <1>23. ASSUME NEW h \in Handler, LeaveDelete(h) PROVE ShutdownInv'
    BY <1>23 DEF LeaveDelete, DeleteRows
  <1>24. ASSUME NEW h \in Handler, LeaveSend(h) PROVE ShutdownInv'
    BY <1>24 DEF LeaveSend
  <1>25. ASSUME NEW h \in Handler, LeaveUnsub(h) PROVE ShutdownInv'
    BY <1>25 DEF LeaveUnsub, removeSubscriber, Unmap, NoReaders, ReadLocked
  <1>26. ASSUME NEW h \in Handler, Subscribe(h) PROVE ShutdownInv'
    BY <1>26 DEF Subscribe, NoReaders, ReadLocked, draining, Returned, Seen
  <1>27. ASSUME NEW h \in Handler, Fail(h) PROVE ShutdownInv'
    BY <1>27 DEF Fail
  <1>28. ASSUME NEW h \in Handler, NEW d \in Caller, NEW rpc \in Rpc,
              NEW v \in Shares, Call(h, d, rpc, v)
       PROVE  ShutdownInv'
    BY <1>28, RegistryAssumption DEF Call, FirstStep, Returned, Seen
  <1>29. ASSUME NEW d \in Device, NEW g \in 1..MaxStreams, StreamClosed(d, g)
       PROVE  ShutdownInv'
    BY <1>29 DEF StreamClosed
  <1>30. ASSUME NEW d \in Device, NEW g \in 1..MaxStreams, StreamBroken(d, g)
       PROVE  ShutdownInv'
    BY <1>30 DEF StreamBroken, NoReaders, ReadLocked
  <1>31. ASSUME NEW d \in Device, Age(d) PROVE ShutdownInv'
    BY <1>31 DEF Age
  <1>32. ASSUME NEW d \in Device, MarkOfflineIfStale(d) PROVE ShutdownInv'
    BY <1>32 DEF MarkOfflineIfStale
  <1>33. ASSUME NEW d \in Device, MarkOfflineFails(d) PROVE ShutdownInv'
    BY <1>33 DEF MarkOfflineFails
  <1>34. ASSUME NEW d \in Device, MarkOfflineSend(d) PROVE ShutdownInv'
    BY <1>34 DEF MarkOfflineSend
  <1>35. ASSUME NEW d \in Device, PruneUnsub(d) PROVE ShutdownInv'
    BY <1>35 DEF PruneUnsub, removeSubscriber, Unmap, NoReaders, ReadLocked
  <1>36. ASSUME NEW d \in Device, PruneSend(d) PROVE ShutdownInv'
    BY <1>36 DEF PruneSend
  <1>37. ASSUME NEW d \in Device, SweepSend(d) PROVE ShutdownInv'
    BY <1>37 DEF SweepSend
  <1>38. CASE CheckStale
    BY <1>38 DEF CheckStale
  <1>39. CASE PruneList
    BY <1>39 DEF PruneList
  <1>40. CASE DeletePrunedDevices
    BY <1>40 DEF DeletePrunedDevices, DeleteRows, Prunable
  <1>41. CASE PruneFails
    BY <1>41 DEF PruneFails
  <1>42. CASE Drain
    BY <1>42 DEF Drain, NoReaders, ReadLocked
  <1>43. CASE SweepList
    BY <1>43 DEF SweepList
  <1>44. CASE SweepMark
    BY <1>44 DEF SweepMark, MarkAllOffline
  <1>45. CASE SweepFails
    BY <1>45 DEF SweepFails
  <1>46. CASE CloseAllSubscribers
    BY <1>46 DEF CloseAllSubscribers, NoReaders, ReadLocked
  <1>47. CASE ExitGraceful
    BY <1>47 DEF ExitGraceful, Halt
  <1>48. CASE Killed
    BY <1>48 DEF Killed, Halt
  <1>49. CASE GraceExpires
    BY <1>49 DEF GraceExpires, Halt
  <1>50. CASE Start
    BY <1>50 DEF Start, MarkAllOffline
  <1>51. CASE UNCHANGED vars
    BY <1>51 DEF vars
  <1> QED
    BY <1>1, <1>2, <1>3, <1>4, <1>5, <1>6, <1>7, <1>8, <1>9, <1>10, <1>11,
       <1>12, <1>13, <1>14, <1>15, <1>16, <1>17, <1>18, <1>19, <1>20, <1>21,
       <1>22, <1>23, <1>24, <1>25, <1>26, <1>27, <1>28, <1>29, <1>30, <1>31,
       <1>32, <1>33, <1>34, <1>35, <1>36, <1>37, <1>38, <1>39, <1>40, <1>41,
       <1>42, <1>43, <1>44, <1>45, <1>46, <1>47, <1>48, <1>49, <1>50,
       <1>51, RegistryAssumption
    DEF Next, HandlerStep, MonitorStep, StopStep

\* A heartbeat does not age while an RPC of its device is in service, nor
\* while the monitor is in a round.
LEMMA PruneStep ==
  ASSUME TypeOK, PruneInv, [Next]_vars
  PROVE  PruneInv'
  <1> USE DEF TypeOK, PruneInv, RecentBeat, Arriving, Watched, Subscribed, Fresh, rows,
     fanout, life, agents, GotoWith, Goto, Return, Dev, Arg, NoArg
  <1>1. ASSUME NEW h \in Handler, Join(h) PROVE PruneInv'
    BY <1>1 DEF Join
  <1>2. ASSUME NEW h \in Handler, RegisterRefused(h) PROVE PruneInv'
    BY <1>2 DEF RegisterRefused
  <1>3. ASSUME NEW h \in Handler, RegisterGetDevice(h) PROVE PruneInv'
    BY <1>3 DEF RegisterGetDevice
  <1>4. ASSUME NEW h \in Handler, RegisterSetShares(h) PROVE PruneInv'
    BY <1>4 DEF RegisterSetShares
  <1>5. ASSUME NEW h \in Handler, RegisterBeat(h) PROVE PruneInv'
    BY <1>5 DEF RegisterBeat, UpdateHeartbeat
  <1>6. ASSUME NEW h \in Handler, MarkLock(h) PROVE PruneInv'
    BY <1>6 DEF MarkLock
  <1>7. ASSUME NEW h \in Handler, MarkWrite(h) PROVE PruneInv'
    BY <1>7 DEF MarkWrite
  <1>8. ASSUME NEW h \in Handler, RegisterSend(h) PROVE PruneInv'
    BY <1>8 DEF RegisterSend
  <1>9. ASSUME NEW h \in Handler, HeartbeatUpdate(h) PROVE PruneInv'
    BY <1>9 DEF HeartbeatUpdate, UpdateHeartbeat
  <1>10. ASSUME NEW h \in Handler, HeartbeatGet(h) PROVE PruneInv'
    BY <1>10 DEF HeartbeatGet
  <1>11. ASSUME NEW h \in Handler, HeartbeatCanRecover(h) PROVE PruneInv'
    BY <1>11 DEF HeartbeatCanRecover
  <1>12. ASSUME NEW h \in Handler, HeartbeatGetShares(h) PROVE PruneInv'
    BY <1>12 DEF HeartbeatGetShares
  <1>13. ASSUME NEW h \in Handler, RecoverLock(h) PROVE PruneInv'
    BY <1>13 DEF RecoverLock
  <1>14. ASSUME NEW h \in Handler, RecoverWrite(h) PROVE PruneInv'
    BY <1>14 DEF RecoverWrite
  <1>15. ASSUME NEW h \in Handler, RecoverSend(h) PROVE PruneInv'
    BY <1>15 DEF RecoverSend
  <1>16. ASSUME NEW h \in Handler, UpdateSharesSet(h) PROVE PruneInv'
    BY <1>16 DEF UpdateSharesSet
  <1>17. ASSUME NEW h \in Handler, UpdateSharesSend(h) PROVE PruneInv'
    BY <1>17 DEF UpdateSharesSend
  <1>18. ASSUME NEW h \in Handler, DeregisterGet(h) PROVE PruneInv'
    BY <1>18 DEF DeregisterGet
  <1>19. ASSUME NEW h \in Handler, DeregisterUnsub(h) PROVE PruneInv'
    BY <1>19 DEF DeregisterUnsub, removeSubscriber, Unmap
  <1>20. ASSUME NEW h \in Handler, DeregisterWrite(h) PROVE PruneInv'
    BY <1>20 DEF DeregisterWrite
  <1>21. ASSUME NEW h \in Handler, DeregisterSend(h) PROVE PruneInv'
    BY <1>21 DEF DeregisterSend
  <1>22. ASSUME NEW h \in Handler, LeaveGet(h) PROVE PruneInv'
    BY <1>22 DEF LeaveGet
  <1>23. ASSUME NEW h \in Handler, LeaveDelete(h) PROVE PruneInv'
    BY <1>23 DEF LeaveDelete, DeleteRows
  <1>24. ASSUME NEW h \in Handler, LeaveSend(h) PROVE PruneInv'
    BY <1>24 DEF LeaveSend
  <1>25. ASSUME NEW h \in Handler, LeaveUnsub(h) PROVE PruneInv'
    BY <1>25 DEF LeaveUnsub, removeSubscriber, Unmap
  <1>26. ASSUME NEW h \in Handler, Subscribe(h) PROVE PruneInv'
    BY <1>26 DEF Subscribe
  <1>27. ASSUME NEW h \in Handler, Fail(h) PROVE PruneInv'
    BY <1>27 DEF Fail
  <1>28. ASSUME NEW h \in Handler, NEW d \in Caller, NEW rpc \in Rpc,
              NEW v \in Shares, Call(h, d, rpc, v)
       PROVE  PruneInv'
    BY <1>28, RegistryAssumption DEF Call, FirstStep
  <1>29. ASSUME NEW d \in Device, NEW g \in 1..MaxStreams, StreamClosed(d, g)
       PROVE  PruneInv'
    BY <1>29 DEF StreamClosed
  <1>30. ASSUME NEW d \in Device, NEW g \in 1..MaxStreams, StreamBroken(d, g)
       PROVE  PruneInv'
    BY <1>30 DEF StreamBroken
  <1>31. ASSUME NEW d \in Device, Age(d) PROVE PruneInv'
    BY <1>31 DEF Age, InService
  <1>32. ASSUME NEW d \in Device, MarkOfflineIfStale(d) PROVE PruneInv'
    BY <1>32 DEF MarkOfflineIfStale, MonNext, MonIdle
  <1>33. ASSUME NEW d \in Device, MarkOfflineFails(d) PROVE PruneInv'
    BY <1>33 DEF MarkOfflineFails, MonNext, MonIdle
  <1>34. ASSUME NEW d \in Device, MarkOfflineSend(d) PROVE PruneInv'
    BY <1>34 DEF MarkOfflineSend, MonNext, MonIdle
  <1>35. ASSUME NEW d \in Device, PruneUnsub(d) PROVE PruneInv'
    BY <1>35 DEF PruneUnsub, removeSubscriber, Unmap
  <1>36. ASSUME NEW d \in Device, PruneSend(d) PROVE PruneInv'
    BY <1>36 DEF PruneSend, MonNext, MonIdle
  <1>37. ASSUME NEW d \in Device, SweepSend(d) PROVE PruneInv'
    BY <1>37 DEF SweepSend
  <1>38. CASE CheckStale
    BY <1>38 DEF CheckStale
  <1>39. CASE PruneList
    BY <1>39 DEF PruneList
  <1>40. CASE DeletePrunedDevices
    BY <1>40 DEF DeletePrunedDevices, DeleteRows, Prunable, MonNext, MonIdle
  <1>41. CASE PruneFails
    BY <1>41 DEF PruneFails, MonIdle
  <1>42. CASE Drain
    BY <1>42 DEF Drain
  <1>43. CASE SweepList
    BY <1>43 DEF SweepList
  <1>44. CASE SweepMark
    BY <1>44 DEF SweepMark
  <1>45. CASE SweepFails
    BY <1>45 DEF SweepFails
  <1>46. CASE CloseAllSubscribers
    BY <1>46 DEF CloseAllSubscribers
  <1>47. CASE ExitGraceful
    BY <1>47 DEF ExitGraceful, Halt, MonIdle
  <1>48. CASE Killed
    BY <1>48 DEF Killed, Halt, MonIdle
  <1>49. CASE GraceExpires
    BY <1>49 DEF GraceExpires, Halt, MonIdle
  <1>50. CASE Start
    BY <1>50 DEF Start
  <1>51. CASE UNCHANGED vars
    BY <1>51 DEF vars
  <1> QED
    BY <1>1, <1>2, <1>3, <1>4, <1>5, <1>6, <1>7, <1>8, <1>9, <1>10, <1>11,
       <1>12, <1>13, <1>14, <1>15, <1>16, <1>17, <1>18, <1>19, <1>20, <1>21,
       <1>22, <1>23, <1>24, <1>25, <1>26, <1>27, <1>28, <1>29, <1>30, <1>31,
       <1>32, <1>33, <1>34, <1>35, <1>36, <1>37, <1>38, <1>39, <1>40, <1>41,
       <1>42, <1>43, <1>44, <1>45, <1>46, <1>47, <1>48, <1>49, <1>50,
       <1>51, RegistryAssumption
    DEF Next, HandlerStep, MonitorStep, StopStep

\* While a device is gone no step has its "online" to send: no Register of it
\* is in flight and no recovery is in its section.
LEMMA DepartureStep ==
  ASSUME TypeOK, SectionsExclusive, DepartureInv, [Next]_vars
  PROVE  DepartureInv'
  <1> USE DEF TypeOK, DepartureInv, Gone, PeersHearDeparture, Registering,
     RegisterPcs, SectionsExclusive, Subscribed, EmptyBox, Silence, rows,
     fanout, life, agents, GotoWith, Goto, Return, Dev, Arg
  <1>1. ASSUME NEW h \in Handler, Join(h) PROVE DepartureInv'
    BY <1>1 DEF Join
  <1>2. ASSUME NEW h \in Handler, RegisterRefused(h) PROVE DepartureInv'
    BY <1>2 DEF RegisterRefused
  <1>3. ASSUME NEW h \in Handler, RegisterGetDevice(h) PROVE DepartureInv'
    BY <1>3 DEF RegisterGetDevice
  <1>4. ASSUME NEW h \in Handler, RegisterSetShares(h) PROVE DepartureInv'
    BY <1>4 DEF RegisterSetShares
  <1>5. ASSUME NEW h \in Handler, RegisterBeat(h) PROVE DepartureInv'
    BY <1>5 DEF RegisterBeat, UpdateHeartbeat
  <1>6. ASSUME NEW h \in Handler, MarkLock(h) PROVE DepartureInv'
    BY <1>6 DEF MarkLock
  <1>7. ASSUME NEW h \in Handler, MarkWrite(h) PROVE DepartureInv'
    <2>1. Dev(h) \in Device /\ sub' = sub /\ box' = box
      BY <1>7, ArgType DEF MarkWrite
    <2>2. ASSUME NEW q \in Device, fate'[q] = "departed"
          PROVE  fate[q] = "departed"
      BY <1>7, <2>1, <2>2 DEF MarkWrite, Seen
    <2>3. ASSUME NEW q \in Device, Registering(q)'
          PROVE  Registering(q)
      BY <1>7, <2>3 DEF MarkWrite
    <2> QED
      BY <2>1, <2>2, <2>3
  <1>8. ASSUME NEW h \in Handler, RegisterSend(h) PROVE DepartureInv'
    <2>1. Gone'
      BY <1>8 DEF RegisterSend
    <2>2. DeviceOnline(arg[h].shares) \in [Device -> Word]
      BY ArgType, EventTypes
    <2>3. \A q \in Device :
            fate'[q] = "departed" => fate[q] = "departed" /\ q # Dev(h)
      BY <1>8 DEF RegisterSend
    <2> HIDE DEF TypeOK, Gone, PeersHearDeparture, Subscribed
    <2>4. PeersHearDeparture'
      BY <1>8, <2>2, <2>3, ArgType, BroadcastKeepsDeparture DEF RegisterSend
    <2> QED
      BY <2>1, <2>4
  <1>9. ASSUME NEW h \in Handler, HeartbeatUpdate(h) PROVE DepartureInv'
    BY <1>9 DEF HeartbeatUpdate, UpdateHeartbeat
  <1>10. ASSUME NEW h \in Handler, HeartbeatGet(h) PROVE DepartureInv'
    BY <1>10 DEF HeartbeatGet
  <1>11. ASSUME NEW h \in Handler, HeartbeatCanRecover(h) PROVE DepartureInv'
    BY <1>11 DEF HeartbeatCanRecover
  <1>12. ASSUME NEW h \in Handler, HeartbeatGetShares(h) PROVE DepartureInv'
    BY <1>12 DEF HeartbeatGetShares
  <1>13. ASSUME NEW h \in Handler, RecoverLock(h) PROVE DepartureInv'
    BY <1>13 DEF RecoverLock
  <1>14. ASSUME NEW h \in Handler, RecoverWrite(h) PROVE DepartureInv'
    <2>1. Dev(h) \in Device /\ sub' = sub /\ box' = box
      BY <1>14, ArgType DEF RecoverWrite
    <2>2. ASSUME NEW q \in Device, fate'[q] = "departed"
          PROVE  fate[q] = "departed"
      BY <1>14, <2>1, <2>2 DEF RecoverWrite, Seen
    <2>3. ASSUME NEW q \in Device, Registering(q)'
          PROVE  Registering(q)
      BY <1>14, <2>3 DEF RecoverWrite
    <2> QED
      BY <2>1, <2>2, <2>3
  <1>15. ASSUME NEW h \in Handler, RecoverSend(h) PROVE DepartureInv'
    <2>1. Gone'
      BY <1>15 DEF RecoverSend
    <2>2. DeviceOnline(arg[h].shares) \in [Device -> Word]
      BY ArgType, EventTypes
    <2>3. \A q \in Device :
            fate'[q] = "departed" => fate[q] = "departed" /\ q # Dev(h)
      BY <1>15 DEF RecoverSend
    <2> HIDE DEF TypeOK, Gone, PeersHearDeparture, Subscribed
    <2>4. PeersHearDeparture'
      BY <1>15, <2>2, <2>3, ArgType, BroadcastKeepsDeparture DEF RecoverSend
    <2> QED
      BY <2>1, <2>4
  <1>16. ASSUME NEW h \in Handler, UpdateSharesSet(h) PROVE DepartureInv'
    BY <1>16 DEF UpdateSharesSet
  <1>17. ASSUME NEW h \in Handler, UpdateSharesSend(h) PROVE DepartureInv'
    <2>1. Gone'
      BY <1>17 DEF UpdateSharesSend
    <2> DEFINE words == SharesUpdated(Dev(h), arg[h].shares)
    <2>2. words \in [Device -> Word]
      BY ArgType, EventTypes
    <2>3. /\ fate' = fate
          /\ \A p \in Device :
               words[p].word = "up" => box[p].told[Dev(h)].word = "up"
      BY <1>17 DEF UpdateSharesSend, SharesUpdated
    <2> HIDE DEF TypeOK, Gone, PeersHearDeparture, Subscribed
    <2>4. Broadcast(Dev(h), words) /\ sub' = sub
      BY <1>17 DEF UpdateSharesSend
    <2> HIDE DEF words
    <2>5. PeersHearDeparture'
      BY <2>2, <2>3, <2>4, ArgType, BroadcastKeepsDeparture
    <2> QED
      BY <2>1, <2>5
  <1>18. ASSUME NEW h \in Handler, DeregisterGet(h) PROVE DepartureInv'
    BY <1>18 DEF DeregisterGet
  <1>19. ASSUME NEW h \in Handler, DeregisterUnsub(h) PROVE DepartureInv'
    BY <1>19 DEF DeregisterUnsub, removeSubscriber, Unmap
  <1>20. ASSUME NEW h \in Handler, DeregisterWrite(h) PROVE DepartureInv'
    BY <1>20 DEF DeregisterWrite
  <1>21. ASSUME NEW h \in Handler, DeregisterSend(h) PROVE DepartureInv'
    <2>1. /\ DeviceOffline \in [Device -> Word]
          /\ \A p \in Device : DeviceOffline[p].word # "up"
      BY EventTypes DEF DeviceOffline, Down
    <2>2. Send(Device \ {Dev(h)}, Dev(h), DeviceOffline) /\ sub' = sub
      BY <1>21 DEF DeregisterSend, Broadcast, broadcastLocked
    <2>3. ASSUME NEW q \in Device, fate'[q] = "departed"
          PROVE  \/ fate[q] = "departed"
                 \/ q = Dev(h) /\ ~Subscribed(q) /\ ~Registering(q)
      BY <1>21, <2>3 DEF DeregisterSend
    <2>4. ASSUME NEW q \in Device, Registering(q)'
          PROVE  Registering(q)
      BY <1>21, <2>4 DEF DeregisterSend
    <2>5. Gone'
      BY <2>2, <2>3, <2>4
    <2> DEFINE d == Dev(h)
               to == Device \ {d}
    <2>6. d \in Device /\ to \in SUBSET Device /\ box \in [Device -> Box]
      BY ArgType
    <2> HIDE DEF TypeOK, Gone, PeersHearDeparture, Subscribed, Dev, d, to
    <2>7. Send(to, d, DeviceOffline)
      BY <2>2 DEF to, d
    <2>8. ASSUME NEW q \in Device, fate'[q] = "departed",
                 NEW p \in Device, Subscribed(p), ~box'[p].lost
          PROVE  box'[p].told[q].word # "up"
      <3>1. /\ ~box[p].lost
            /\ box'[p].told[q] =
                 IF q = d /\ p \in to /\ Subscribed(p)
                 THEN DeviceOffline[p] ELSE box[p].told[q]
        BY <2>1, <2>6, <2>7, <2>8, SendFacts
      <3>2. CASE fate[q] = "departed"
        BY <2>1, <2>8, <3>1, <3>2 DEF PeersHearDeparture
      <3>3. CASE q = Dev(h) /\ ~Subscribed(q)
        BY <2>1, <2>8, <3>1, <3>3 DEF d, to
      <3> QED
        BY <2>3, <2>8, <3>2, <3>3
    <2>9. PeersHearDeparture'
      BY <2>2, <2>8 DEF PeersHearDeparture, Subscribed
    <2> QED
      BY <2>5, <2>9
  <1>22. ASSUME NEW h \in Handler, LeaveGet(h) PROVE DepartureInv'
    BY <1>22 DEF LeaveGet
  <1>23. ASSUME NEW h \in Handler, LeaveDelete(h) PROVE DepartureInv'
    BY <1>23 DEF LeaveDelete
  <1>24. ASSUME NEW h \in Handler, LeaveSend(h) PROVE DepartureInv'
    <2>1. Gone'
      BY <1>24 DEF LeaveSend
    <2>2. DeviceRemoved \in [Device -> Word]
      BY EventTypes
    <2>3. fate' = fate /\ \A p \in Device : DeviceRemoved[p].word # "up"
      BY <1>24 DEF LeaveSend, DeviceRemoved, Down
    <2> HIDE DEF TypeOK, Gone, PeersHearDeparture, Subscribed
    <2>4. PeersHearDeparture'
      BY <1>24, <2>2, <2>3, ArgType, BroadcastKeepsDeparture DEF LeaveSend
    <2> QED
      BY <2>1, <2>4
  <1>25. ASSUME NEW h \in Handler, LeaveUnsub(h) PROVE DepartureInv'
    BY <1>25 DEF LeaveUnsub, removeSubscriber, Unmap
  <1>26. ASSUME NEW h \in Handler, Subscribe(h) PROVE DepartureInv'
    BY <1>26 DEF Subscribe, Returned, Seen
  <1>27. ASSUME NEW h \in Handler, Fail(h) PROVE DepartureInv'
    BY <1>27 DEF Fail
  <1>28. ASSUME NEW h \in Handler, NEW d \in Caller, NEW rpc \in Rpc,
              NEW v \in Shares, Call(h, d, rpc, v)
       PROVE  DepartureInv'
    BY <1>28, RegistryAssumption DEF Call, FirstStep, Returned, Seen
  <1>29. ASSUME NEW d \in Device, NEW g \in 1..MaxStreams, StreamClosed(d, g)
       PROVE  DepartureInv'
    BY <1>29 DEF StreamClosed
  <1>30. ASSUME NEW d \in Device, NEW g \in 1..MaxStreams, StreamBroken(d, g)
       PROVE  DepartureInv'
    BY <1>30 DEF StreamBroken
  <1>31. ASSUME NEW d \in Device, Age(d) PROVE DepartureInv'
    BY <1>31 DEF Age
  <1>32. ASSUME NEW d \in Device, MarkOfflineIfStale(d) PROVE DepartureInv'
    BY <1>32 DEF MarkOfflineIfStale
  <1>33. ASSUME NEW d \in Device, MarkOfflineFails(d) PROVE DepartureInv'
    BY <1>33 DEF MarkOfflineFails
  <1>34. ASSUME NEW d \in Device, MarkOfflineSend(d) PROVE DepartureInv'
    <2>1. Gone'
      BY <1>34 DEF MarkOfflineSend
    <2>2. DeviceOffline \in [Device -> Word]
      BY EventTypes
    <2>3. fate' = fate /\ \A p \in Device : DeviceOffline[p].word # "up"
      BY <1>34 DEF MarkOfflineSend, DeviceOffline, Down
    <2> HIDE DEF TypeOK, Gone, PeersHearDeparture, Subscribed
    <2>4. PeersHearDeparture'
      BY <1>34, <2>2, <2>3, ArgType, BroadcastKeepsDeparture DEF MarkOfflineSend
    <2> QED
      BY <2>1, <2>4
  <1>35. ASSUME NEW d \in Device, PruneUnsub(d) PROVE DepartureInv'
    BY <1>35 DEF PruneUnsub, removeSubscriber, Unmap
  <1>36. ASSUME NEW d \in Device, PruneSend(d) PROVE DepartureInv'
    <2>1. Gone'
      BY <1>36 DEF PruneSend
    <2>2. DeviceRemoved \in [Device -> Word]
      BY EventTypes
    <2>3. fate' = fate /\ \A p \in Device : DeviceRemoved[p].word # "up"
      BY <1>36 DEF PruneSend, DeviceRemoved, Down
    <2> HIDE DEF TypeOK, Gone, PeersHearDeparture, Subscribed
    <2>4. PeersHearDeparture'
      BY <1>36, <2>2, <2>3, ArgType, BroadcastKeepsDeparture DEF PruneSend
    <2> QED
      BY <2>1, <2>4
  <1>37. ASSUME NEW d \in Device, SweepSend(d) PROVE DepartureInv'
    <2>1. Gone'
      BY <1>37 DEF SweepSend
    <2>2. DeviceOffline \in [Device -> Word]
      BY EventTypes
    <2>3. fate' = fate /\ \A p \in Device : DeviceOffline[p].word # "up"
      BY <1>37 DEF SweepSend, DeviceOffline, Down
    <2> HIDE DEF TypeOK, Gone, PeersHearDeparture, Subscribed
    <2>4. PeersHearDeparture'
      BY <1>37, <2>2, <2>3, ArgType, BroadcastKeepsDeparture DEF SweepSend
    <2> QED
      BY <2>1, <2>4
  <1>38. CASE CheckStale
    BY <1>38 DEF CheckStale
  <1>39. CASE PruneList
    BY <1>39 DEF PruneList
  <1>40. CASE DeletePrunedDevices
    BY <1>40 DEF DeletePrunedDevices
  <1>41. CASE PruneFails
    BY <1>41 DEF PruneFails
  <1>42. CASE Drain
    BY <1>42 DEF Drain
  <1>43. CASE SweepList
    BY <1>43 DEF SweepList
  <1>44. CASE SweepMark
    BY <1>44 DEF SweepMark
  <1>45. CASE SweepFails
    BY <1>45 DEF SweepFails
  <1>46. CASE CloseAllSubscribers
    BY <1>46 DEF CloseAllSubscribers
  <1>47. CASE ExitGraceful
    BY <1>47 DEF ExitGraceful, Halt
  <1>48. CASE Killed
    BY <1>48 DEF Killed, Halt
  <1>49. CASE GraceExpires
    BY <1>49 DEF GraceExpires, Halt
  <1>50. CASE Start
    BY <1>50 DEF Start
  <1>51. CASE UNCHANGED vars
    BY <1>51 DEF vars
  <1> QED
    BY <1>1, <1>2, <1>3, <1>4, <1>5, <1>6, <1>7, <1>8, <1>9, <1>10, <1>11,
       <1>12, <1>13, <1>14, <1>15, <1>16, <1>17, <1>18, <1>19, <1>20, <1>21,
       <1>22, <1>23, <1>24, <1>25, <1>26, <1>27, <1>28, <1>29, <1>30, <1>31,
       <1>32, <1>33, <1>34, <1>35, <1>36, <1>37, <1>38, <1>39, <1>40, <1>41,
       <1>42, <1>43, <1>44, <1>45, <1>46, <1>47, <1>48, <1>49, <1>50,
       <1>51, RegistryAssumption
    DEF Next, HandlerStep, MonitorStep, StopStep

-----------------------------------------------------------------------------
\* The joined devices and subscribed peers of the initial state satisfy IInv.
LEMMA InitIInv == Init => IInv
  <1> SUFFICES ASSUME Init PROVE IInv
    OBVIOUS
  <1>1. TypeOK
    <2>1. /\ status \in [Device -> Status] /\ shares \in [Device -> Shares]
          /\ age \in [Device -> {Fresh, Stale, Ancient}]
          /\ port \in [Device -> BOOLEAN]
      BY RegistryAssumption DEF Init, Status
    <2>2. /\ sub \in [Device -> Nat] /\ last \in [Device -> Nat]
          /\ streams \in [Device -> SUBSET Nat] /\ box \in [Device -> Box]
      BY WordTypes DEF Init
    <2>3. /\ hub \in HubPcs /\ sweep \in SUBSET Device /\ swept \in BOOLEAN
          /\ pc \in [Handler -> Pcs] /\ arg \in [Handler -> Arg]
      BY NoArgType DEF Init, HubPcs, Pcs
    <2>4. /\ mon \in [pc : MonPcs, todo : SUBSET Device, due : SUBSET Device]
          /\ ready \in SUBSET Device
          /\ fate \in [Device -> {"unknown", "seen", "departed"}]
      BY DEF Init, MonIdle, MonPcs
    <2> QED
      BY <2>1, <2>2, <2>3, <2>4 DEF TypeOK
  <1>2. ShutdownInv
    BY RegistryAssumption
       DEF Init, ShutdownInv, SectionsExclusive, Quiet, Unswept,
           NoPhantomOnline, NoOrphanStream, OnlineWasSeen, Online
  <1>3. PruneInv
    BY DEF Init, PruneInv, RecentBeat, Watched, MonIdle
  <1>4. DepartureInv
    BY DEF Init, DepartureInv, Gone, PeersHearDeparture
  <1> QED
    BY <1>1, <1>2, <1>3, <1>4 DEF IInv

\* Every step of Next preserves IInv.
LEMMA IInvStep == IInv /\ [Next]_vars => IInv'
  BY TypeOKStep, ShutdownStep, PruneStep, DepartureStep
     DEF IInv, ShutdownInv

\* The conjunction that all the results below are parts of is an invariant.
THEOREM InductiveInvariant == Spec => []IInv
  BY InitIInv, IInvStep, PTL DEF Spec

\* The values every variable of the hub and its handlers can take.
THEOREM TypeCorrect == Spec => []TypeOK
  <1>1. IInv => TypeOK
    BY DEF IInv
  <1> QED
    BY <1>1, InductiveInvariant, PTL

\* The sections of markOnlineUnlessDraining and recoverAndAnnounce exclude
\* Drain and every removal of the subscription their guard has seen.
THEOREM SectionsAreExclusive == Spec => []SectionsExclusive
  <1>1. IInv => SectionsExclusive
    BY DEF IInv, ShutdownInv
  <1> QED
    BY <1>1, InductiveInvariant, PTL

\* No online row is written behind the shutdown sweep's back.
THEOREM NoPhantoms == Spec => []NoPhantomOnline
  <1>1. IInv => NoPhantomOnline
    BY DEF IInv, ShutdownInv
  <1> QED
    BY <1>1, InductiveInvariant, PTL

\* No stream is left open after CloseAllSubscribers.
THEOREM NoOrphans == Spec => []NoOrphanStream
  <1>1. IInv => NoOrphanStream
    BY DEF IInv, ShutdownInv
  <1> QED
    BY <1>1, InductiveInvariant, PTL

\* A hub lists as online only the devices it has itself seen up.
THEOREM OnlineIsOfThisLife == Spec => []OnlineWasSeen
  <1>1. IInv => OnlineWasSeen
    BY DEF IInv, ShutdownInv
  <1> QED
    BY <1>1, InductiveInvariant, PTL

\* "Online" is not the last word on a device that deregistered.
THEOREM DepartureIsHeard == Spec => []PeersHearDeparture
  <1>1. IInv => PeersHearDeparture
    BY DEF IInv, DepartureInv
  <1> QED
    BY <1>1, InductiveInvariant, PTL

\* Only MarkWrite and RecoverWrite put a row online.
LEMMA RaisedBy ==
  ASSUME TypeOK, [Next]_vars, NEW d \in Device,
         status[d] # "online", status'[d] = "online"
  PROVE  \E h \in Handler : pc[h] \in {"markWrite", "recWrite"} /\ Dev(h) = d
  <1>1. ASSUME NEW h \in Handler, HandlerStep(h)
        PROVE  MarkWrite(h) \/ RecoverWrite(h)
    BY <1>1
       DEF TypeOK, HandlerStep, rows, Join, RegisterRefused,
           RegisterGetDevice, RegisterSetShares, RegisterBeat,
           UpdateHeartbeat, MarkLock, RegisterSend, HeartbeatUpdate,
           HeartbeatGet, HeartbeatCanRecover, HeartbeatGetShares,
           RecoverLock, RecoverSend, UpdateSharesSet, UpdateSharesSend,
           DeregisterGet, DeregisterUnsub, DeregisterWrite, DeregisterSend,
           LeaveGet, LeaveDelete, DeleteRows, LeaveSend, LeaveUnsub,
           Subscribe
  <1>2. ASSUME NEW h \in Handler, MarkWrite(h) \/ RecoverWrite(h)
        PROVE  pc[h] \in {"markWrite", "recWrite"} /\ Dev(h) = d
    BY <1>2 DEF TypeOK, MarkWrite, RecoverWrite
  <1>3. ~MonitorStep /\ ~StopStep
    BY DEF TypeOK, MonitorStep, StopStep, rows, CheckStale, PruneList,
           DeletePrunedDevices, DeleteRows, MarkOfflineIfStale,
           MarkOfflineSend, PruneUnsub, PruneSend, SweepList, SweepMark,
           MarkAllOffline, CloseAllSubscribers, GraceExpires, Halt,
           SweepSend
  <1> QED
    BY <1>1, <1>2, <1>3
       DEF Next, vars, rows, Call, Fail, Age, MarkOfflineFails, StreamClosed,
           StreamBroken, PruneFails, Drain, SweepFails, ExitGraceful, Killed, Halt,
           Start, MarkAllOffline

\* Without an open stream a device is raised by its own Register only.
THEOREM HeartbeatsDoNotResurrect == Spec => OnlyRegisterRaisesUnsubscribed
  <1> DEFINE Raises ==
        \A d \in Device :
          /\ status[d] # "online" /\ status'[d] = "online"
          /\ ~Subscribed(d)
          => \E h \in Handler : pc[h] = "markWrite" /\ Dev(h) = d
  <1>1. IInv /\ [Next]_vars => Raises
    BY RaisedBy DEF IInv, ShutdownInv, SectionsExclusive
  <1>2. IInv /\ [Next]_vars => [Raises]_vars
    BY <1>1
  <1> QED
    BY <1>2, InductiveInvariant, PTL DEF Spec, OnlyRegisterRaisesUnsubscribed

\* The pruner's list of open streams may be old; what it deletes has none.
THEOREM PruneSparesOpenStreams == Spec => PruneSparesConnected
  <1> DEFINE Spares ==
        mon.pc = "prune" /\ mon'.pc = "pruneUnsub"
          => \A d \in mon'.todo : ~Subscribed(d)
  <1>1. ASSUME Next, mon.pc = "prune", mon'.pc = "pruneUnsub"
        PROVE  DeletePrunedDevices
    <2>1. ASSUME NEW h \in Handler PROVE ~(HandlerStep(h) \/ Fail(h))
      BY <1>1
         DEF HandlerStep, Fail, Join, RegisterRefused, RegisterGetDevice,
             RegisterSetShares, RegisterBeat, UpdateHeartbeat, MarkLock,
             MarkWrite, RegisterSend, HeartbeatUpdate, HeartbeatGet,
             HeartbeatCanRecover, HeartbeatGetShares, RecoverLock,
             RecoverWrite, RecoverSend, UpdateSharesSet, UpdateSharesSend,
             DeregisterGet, DeregisterUnsub, DeregisterWrite,
             DeregisterSend, LeaveGet, LeaveDelete, LeaveSend, LeaveUnsub,
             Subscribe
    <2>2. MonitorStep => DeletePrunedDevices
      BY <1>1 DEF MonitorStep, CheckStale, PruneList, MarkOfflineIfStale,
                  MarkOfflineSend, PruneUnsub, PruneSend
    <2>3. ~StopStep
      BY <1>1 DEF StopStep, SweepList, SweepMark, CloseAllSubscribers,
                  GraceExpires, Halt, MonIdle, SweepSend
    <2>4. ~(PruneFails \/ Drain \/ SweepFails \/ ExitGraceful \/ Killed \/ Start)
      BY <1>1 DEF PruneFails, Drain, SweepFails, ExitGraceful, Killed, Halt,
                  MonIdle, Start
    <2>5. ASSUME NEW d \in Device PROVE ~(Age(d) \/ MarkOfflineFails(d))
      BY <1>1 DEF Age, MarkOfflineFails
    <2>6. ASSUME NEW d \in Device, NEW g \in 1..MaxStreams
          PROVE  ~(StreamClosed(d, g) \/ StreamBroken(d, g))
      BY <1>1 DEF StreamClosed, StreamBroken
    <2>7. ASSUME NEW h \in Handler, NEW d \in Caller, NEW rpc \in Rpc,
                 NEW v \in Shares
          PROVE  ~Call(h, d, rpc, v)
      BY <1>1 DEF Call
    <2> QED
      BY <1>1, <2>1, <2>2, <2>3, <2>4, <2>5, <2>6, <2>7, RegistryAssumption
         DEF Next
  <1>2. IInv /\ DeletePrunedDevices => Spares
    BY DEF IInv, TypeOK, PruneInv, Watched, DeletePrunedDevices, MonNext,
           MonIdle, Prunable, Fresh, Ancient
  <1>3. IInv /\ [Next]_vars => [Spares]_vars
    BY <1>1, <1>2 DEF vars
  <1> QED
    BY <1>3, InductiveInvariant, PTL DEF Spec, PruneSparesConnected
=============================================================================
