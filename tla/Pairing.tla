------------------------------ MODULE Pairing -------------------------------
(***************************************************************************)
(* Pairing two devices through the hub: RequestPairing stores an invite    *)
(* and rings the target, ConfirmPairing turns the invite into a row of     *)
(* table pairings and tells both sides.  Each is a sequence of store calls *)
(* with no transaction around it, followed by sends to single channels     *)
(* outside the lock (sendToDevice).                                        *)
(*                                                                         *)
(* What the rest of the hub does meanwhile (module Registry has it step by *)
(* step) appears as single steps on the two things pairing reads: the      *)
(* device rows and the table of subscriptions.                             *)
(***************************************************************************)
EXTENDS Naturals, FiniteSets

CONSTANTS
    Device,       \* device identities
    Handler,      \* goroutines serving RPCs (bound on concurrent RPCs)
    Code,         \* invite codes
    MaxAttempts,  \* maxPairingAttempts
    MaxStreams,   \* bound: subscriptions of one device in one hub life
    Initiator,    \* bound: the devices that request pairings
    Invited,      \* bound: the devices that they name
    Restless      \* bound: the devices that come and go; the others stay
                  \*        online and subscribed

ASSUME PairingAssumption ==
    /\ Device # {} /\ Code # {}
    /\ IsFiniteSet(Handler) /\ Handler # {}
    /\ MaxAttempts \in Nat \ {0}
    /\ MaxStreams \in Nat
    /\ Initiator \subseteq Device /\ Invited \subseteq Device
    /\ Restless \subseteq Device
    /\ Restless # Device => MaxStreams > 0

VARIABLES
    row,       \* "absent", "online", or "away": registered or offline
    pending,   \* the invite codes with a row in pending_invites
    invite,    \* those rows
    pairings,  \* the rows <<device_a, device_b>> of table pairings
    sub,       \* Registry.subscribers: channel number, 0 when not in the map
    last,      \* the number of each device's last channel
    pc,        \* the next step of each handler
    arg,       \* what the handler knows
    asked,     \* history: pairs that an invite was stored for
    told,      \* history: <<d, p>>, d was sent PairingCompleted about p
    course,    \* history: how far the confirmation of each pair got
    left,      \* history: devices that were deleted
    late       \* history: pairs written after one of the two was deleted

store == <<row, pending, invite, pairings>>
channels == <<sub, last>>
history == <<asked, told, course, left, late>>
vars == <<store, channels, pc, arg, history>>
-----------------------------------------------------------------------------
Pair == Device \X Device
Row == {"absent", "away", "online"}
Invite == [from : Device, to : Device, attempts : Nat, expired : BOOLEAN]
AnyDevice == CHOOSE d \in Device : TRUE
AnyCode == CHOOSE c \in Code : TRUE
Blank == [from |-> AnyDevice, to |-> AnyDevice, attempts |-> 0,
          expired |-> FALSE]

\* from and to are the initiator and the confirmer; ch is the channel that
\* sendToDevice found in the map.
Arg == [from : Device, to : Device, code : Code, ch : 0..MaxStreams]
NoArg == [from |-> AnyDevice, to |-> AnyDevice, code |-> AnyCode, ch |-> 0]

\* The order of the steps of RequestPairing and of ConfirmPairing.
ThenLookupLast ==  \* mutant
    [reqFrom |-> "reqTo", reqTo |-> "reqPaired", reqPaired |-> "reqCreate",
     reqCreate |-> "reqTake", reqTake |-> "reqPut", reqPut |-> "idle",
     getInvite |-> "addAttempt", getInitiator |-> "delete",
     addAttempt |-> "pair", pair |-> "getInitiator", delete |-> "initTake",
     initTake |-> "initPut", initPut |-> "confTake", confTake |-> "confPut",
     confPut |-> "idle"]
Then ==
    [reqFrom |-> "reqTo", reqTo |-> "reqPaired", reqPaired |-> "reqCreate",
     reqCreate |-> "reqTake", reqTake |-> "reqPut", reqPut |-> "idle",
     getInvite |-> "getInitiator", getInitiator |-> "addAttempt",
     addAttempt |-> "pair", pair |-> "delete", delete |-> "initTake",
     initTake |-> "initPut", initPut |-> "confTake", confTake |-> "confPut",
     confPut |-> "idle"]

\* Steps that are store calls, steps of sendToDevice, and the steps of a
\* confirmation that has inserted its pairing row.
StorePcs == {"reqFrom", "reqTo", "reqPaired", "reqCreate", "getInvite",
             "getInitiator", "addAttempt", "pair", "delete"}
TakePcs == {"reqTake", "initTake", "confTake"}
PutPcs == {"reqPut", "initPut", "confPut"}
Committed == {"delete", "initTake", "initPut", "confTake", "confPut"}
Pcs == {"idle"} \cup StorePcs \cup TakePcs \cup PutPcs

Present(d) == row[d] # "absent"
PairOf(h) == <<arg[h].from, arg[h].to>>
IsPaired(a, b) == <<a, b>> \in pairings \/ <<b, a>> \in pairings

Goto(h, step, a) ==
    /\ pc' = [pc EXCEPT ![h] = step]
    /\ arg' = [arg EXCEPT ![h] = IF step = "idle" THEN NoArg ELSE a]
Proceed(h) == Goto(h, Then[pc[h]], arg[h])
Return(h) == Goto(h, "idle", NoArg)
-----------------------------------------------------------------------------
(***************************************************************************)
(* RequestPairing.                                                         *)
(***************************************************************************)
\* The RPC arrives; to is the device whose nickname the caller gives.
RequestPairing(h, from, to) ==
    /\ pc[h] = "idle"
    /\ Goto(h, "reqFrom", [NoArg EXCEPT !.from = from, !.to = to])
    /\ UNCHANGED <<store, channels, history>>

\* The caller's row is read here and its status looked at after the next read;
\* neither error changes anything, so both are here.
RequestGetFrom(h) ==
    /\ pc[h] = "reqFrom"
    /\ IF row[arg[h].from] = "online" THEN Proceed(h) ELSE Return(h)
    /\ UNCHANGED <<store, channels, history>>

RequestGetTo(h) ==
    /\ pc[h] = "reqTo"
    /\ IF row[arg[h].to] = "online" THEN Proceed(h) ELSE Return(h)
    /\ UNCHANGED <<store, channels, history>>

RequestIsPaired(h) ==
    /\ pc[h] = "reqPaired"
    /\ IF IsPaired(arg[h].from, arg[h].to) THEN Return(h) ELSE Proceed(h)
    /\ UNCHANGED <<store, channels, history>>

\* A pair written when one of its devices is gone.
Late(a, b) == IF Present(a) /\ Present(b) THEN late ELSE late \cup {<<a, b>>}

\* The code is random.  One that is in use makes the INSERT fail: see Fail.
CreateInvite(h) ==
    /\ pc[h] = "reqCreate"
    /\ \E c \in Code \ pending :
         /\ pending' = pending \cup {c}
         /\ invite' = [invite EXCEPT ![c] =
                         [Blank EXCEPT !.from = arg[h].from, !.to = arg[h].to]]
    /\ asked' = asked \cup {PairOf(h)}
    /\ late' = Late(arg[h].from, arg[h].to)
    /\ Proceed(h)
    /\ UNCHANGED <<row, pairings, channels, told, course, left>>
-----------------------------------------------------------------------------
(***************************************************************************)
(* ConfirmPairing.                                                         *)
(***************************************************************************)
ConfirmPairing(h, d, c) ==
    /\ pc[h] = "idle"
    /\ Goto(h, "getInvite", [NoArg EXCEPT !.to = d, !.code = c])
    /\ UNCHANGED <<store, channels, history>>

AdmitsAnyDevice(c, d) ==  \* mutant
    /\ c \in pending
    /\ ~invite[c].expired
    /\ invite[c].attempts < MaxAttempts

AdmitsAnyAttempt(c, d) ==  \* mutant
    /\ c \in pending
    /\ invite[c].to = d
    /\ ~invite[c].expired

\* The invite is there, for this device, in time, and not worn out.
Admits(c, d) ==
    /\ c \in pending
    /\ invite[c].to = d
    /\ ~invite[c].expired
    /\ invite[c].attempts < MaxAttempts

GetInvite(h) ==
    LET c == arg[h].code
    IN  /\ pc[h] = "getInvite"
        /\ IF Admits(c, arg[h].to)
           THEN Goto(h, Then[pc[h]], [arg[h] EXCEPT !.from = invite[c].from])
           ELSE Return(h)
        /\ UNCHANGED <<store, channels, history>>

GetInitiator(h) ==
    /\ pc[h] = "getInitiator"
    /\ IF Present(arg[h].from) THEN Proceed(h) ELSE Return(h)
    /\ UNCHANGED <<store, channels, history>>

DecrementInviteAttempts(h) ==  \* mutant
    LET c == arg[h].code
    IN  /\ pc[h] = "addAttempt"
        /\ invite' = IF c \in pending
                     THEN [invite EXCEPT ![c].attempts = @ - 1] ELSE invite
        /\ Proceed(h)
        /\ UNCHANGED <<row, pending, pairings, channels, history>>

\* An UPDATE of a row that is gone changes nothing and is no error.
IncrementInviteAttempts(h) ==
    LET c == arg[h].code
    IN  /\ pc[h] = "addAttempt"
        /\ invite' = IF c \in pending
                     THEN [invite EXCEPT ![c].attempts = @ + 1] ELSE invite
        /\ Proceed(h)
        /\ UNCHANGED <<row, pending, pairings, channels, history>>

InsertRow(h) ==
    /\ pairings' = pairings \cup {PairOf(h)}
    /\ course' = [course EXCEPT ![PairOf(h)] = "open"]
    /\ late' = Late(arg[h].from, arg[h].to)
    /\ Proceed(h)
    /\ UNCHANGED <<row, pending, invite, channels, asked, told, left>>

ReplaceRow(h) == pc[h] = "pair" /\ InsertRow(h)  \* mutant

\* INSERT: the primary key refuses a second row.
CreatePairing(h) ==
    /\ pc[h] = "pair"
    /\ \/ PairOf(h) \notin pairings /\ InsertRow(h)
       \/ PairOf(h) \in pairings /\ Return(h)
          /\ UNCHANGED <<store, channels, history>>

\* Delete the rows of pending_invites that gone lists.
DropInvites(gone) ==
    /\ pending' = pending \ gone
    /\ invite' = [c \in Code |-> IF c \in gone THEN Blank ELSE invite[c]]

DeleteInvite(h) ==
    /\ pc[h] = "delete"
    /\ DropInvites({arg[h].code})
    /\ Proceed(h)
    /\ UNCHANGED <<row, pairings, channels, history>>
-----------------------------------------------------------------------------
(***************************************************************************)
(* sendToDevice: the channel is looked up under the read lock and sent to  *)
(* after the lock is released.                                             *)
(***************************************************************************)
\* Whom the send is for.
Target(h) == IF pc[h] \in {"initTake", "initPut"} THEN arg[h].from ELSE arg[h].to
\* Whom a PairingCompleted sent to the target is about.
Peer(h) == IF pc[h] \in {"initTake", "initPut"} THEN arg[h].to ELSE arg[h].from

\* ConfirmPairing has answered with success once its last send is over.
Answered(h, step) ==
    course' = IF step = "confPut"
              THEN [course EXCEPT ![PairOf(h)] = "done"] ELSE course

\* Not subscribed: there is nothing to send to, and the send's step is over.
SendSkipped(h) ==
    /\ pc[h] \in TakePcs /\ sub[Target(h)] = 0
    /\ Goto(h, Then[Then[pc[h]]], arg[h])
    /\ Answered(h, Then[pc[h]])
    /\ UNCHANGED <<store, channels, asked, told, left, late>>

SendLookup(h) ==
    /\ pc[h] \in TakePcs /\ sub[Target(h)] # 0
    /\ Goto(h, Then[pc[h]], [arg[h] EXCEPT !.ch = sub[Target(h)]])
    /\ UNCHANGED <<store, channels, history>>

\* A channel leaves the map and is closed in one section, so it is open
\* exactly while it is in the map.
Open(h) == sub[Target(h)] = arg[h].ch

\* The event is put in the channel, or dropped because the channel is full.
Send(h) ==
    /\ pc[h] \in PutPcs /\ Open(h)
    /\ \/ told' = told
       \/ pc[h] # "reqPut" /\ told' = told \cup {<<Target(h), Peer(h)>>}
    /\ Goto(h, Then[pc[h]], [arg[h] EXCEPT !.ch = 0])
    /\ Answered(h, pc[h])
    /\ UNCHANGED <<store, channels, asked, left, late>>
-----------------------------------------------------------------------------
(***************************************************************************)
(* Failures.                                                               *)
(***************************************************************************)
\* A confirmation that gets no further after its INSERT.
Cut(hs) == [p \in Pair |-> IF \E h \in hs : pc[h] \in Committed /\ PairOf(h) = p
                           THEN "cut" ELSE course[p]]

FailIgnoredByPair(h) ==  \* mutant
    /\ pc[h] \in StorePcs
    /\ course' = Cut({h})
    /\ IF pc[h] = "pair" THEN Proceed(h) ELSE Return(h)
    /\ UNCHANGED <<store, channels, asked, told, left, late>>

\* The store call fails (context ended, store error, code in use): every
\* handler returns the error.
Fail(h) ==
    /\ pc[h] \in StorePcs
    /\ course' = Cut({h})
    /\ Return(h)
    /\ UNCHANGED <<store, channels, asked, told, left, late>>

\* The process is gone; the next one starts with no device online, and those
\* that do not come and go are back at once.
Restart ==
    /\ row' = [d \in Device |-> IF d \in Restless /\ row[d] = "online"
                               THEN "away" ELSE row[d]]
    /\ sub' = [d \in Device |-> IF d \in Restless THEN 0 ELSE 1]
    /\ last' = sub'
    /\ pc' = [h \in Handler |-> "idle"]
    /\ arg' = [h \in Handler |-> NoArg]
    /\ course' = Cut(Handler)
    /\ UNCHANGED <<pending, invite, pairings, asked, told, left, late>>

Killed == Restart

\* Go's "send on closed channel".  Nothing recovers it.
SendPanics(h) ==
    /\ pc[h] \in PutPcs /\ ~Open(h)
    /\ Restart
-----------------------------------------------------------------------------
(***************************************************************************)
(* The rest of the hub.                                                    *)
(***************************************************************************)
Others == <<pc, arg, asked, told, course, late>>

\* Join, Register or a recovery, Deregister or the monitor.
Status(d, s) ==
    /\ s # "absent"
    /\ row[d] = "absent" => s = "away"
    /\ row' = [row EXCEPT ![d] = s]
    /\ UNCHANGED <<pending, invite, pairings, channels, left, Others>>

CascadeHalf(d) ==  \* mutant
    /\ pairings' = {p \in pairings : p[2] # d}
    /\ DropInvites({c \in pending : d \in {invite[c].from, invite[c].to}})

\* deleteDeviceCascade on the tables of this module.
Cascade(d) ==
    /\ pairings' = {p \in pairings : d \notin {p[1], p[2]}}
    /\ DropInvites({c \in pending : d \in {invite[c].from, invite[c].to}})

\* Leave or the prune.  The subscription goes in a later section: Unsubscribe.
DeleteDevice(d) ==
    /\ Present(d)
    /\ row' = [row EXCEPT ![d] = "absent"]
    /\ Cascade(d)
    /\ left' = left \cup {d}
    /\ UNCHANGED <<channels, Others>>

\* A new channel replaces the one in the map, which is closed.
Subscribe(d) ==
    /\ last[d] < MaxStreams
    /\ last' = [last EXCEPT ![d] = @ + 1]
    /\ sub' = [sub EXCEPT ![d] = last'[d]]
    /\ UNCHANGED <<store, left, Others>>

\* Deregister, Leave, the prune, a stream's unsub, CloseAllSubscribers.
Unsubscribe(d) ==
    /\ sub[d] # 0
    /\ sub' = [sub EXCEPT ![d] = 0]
    /\ UNCHANGED <<store, last, left, Others>>

\* Time passes, up to the expiry of an invite.
Expire(c) ==
    /\ c \in pending /\ ~invite[c].expired
    /\ invite' = [invite EXCEPT ![c].expired = TRUE]
    /\ UNCHANGED <<row, pending, pairings, channels, left, Others>>

\* The heartbeat monitor, every so many ticks.
DeleteExpiredInvites ==
    /\ \E c \in pending : invite[c].expired
    /\ DropInvites({c \in pending : invite[c].expired})
    /\ UNCHANGED <<row, pairings, channels, left, Others>>
-----------------------------------------------------------------------------
\* All devices are registered, nothing is paired.
Init ==
    /\ row = [d \in Device |-> "online"]
    /\ pending = {}
    /\ invite = [c \in Code |-> Blank]
    /\ pairings = {}
    /\ sub = [d \in Device |-> IF d \in Restless THEN 0 ELSE 1]
    /\ last = sub
    /\ pc = [h \in Handler |-> "idle"]
    /\ arg = [h \in Handler |-> NoArg]
    /\ asked = {}
    /\ told = {}
    /\ course = [p \in Pair |-> "none"]
    /\ left = {}
    /\ late = {}

HandlerStep(h) ==
    \/ RequestGetFrom(h) \/ RequestGetTo(h) \/ RequestIsPaired(h)
    \/ CreateInvite(h)
    \/ GetInvite(h) \/ GetInitiator(h) \/ IncrementInviteAttempts(h)
    \/ CreatePairing(h) \/ DeleteInvite(h)
    \/ SendSkipped(h) \/ SendLookup(h) \/ Send(h) \/ SendPanics(h)
    \/ Fail(h)

Next ==
    \/ \E h \in Handler, d \in Initiator, e \in Invited : RequestPairing(h, d, e)
    \/ \E h \in Handler, d \in Device, c \in Code : ConfirmPairing(h, d, c)
    \/ \E h \in Handler : HandlerStep(h)
    \/ \E d \in Restless, s \in Row : Status(d, s)
    \/ \E d \in Restless : DeleteDevice(d) \/ Subscribe(d) \/ Unsubscribe(d)
    \/ \E c \in Code : Expire(c)
    \/ DeleteExpiredInvites \/ Killed

Spec == Init /\ [][Next]_vars
-----------------------------------------------------------------------------
\* Every variable has its type.
TypeOK ==
    /\ row \in [Device -> Row]
    /\ pending \subseteq Code
    /\ invite \in [Code -> Invite]
    /\ pairings \subseteq Pair
    /\ sub \in [Device -> 0..MaxStreams]
    /\ last \in [Device -> 0..MaxStreams]
    /\ pc \in [Handler -> Pcs]
    /\ arg \in [Handler -> Arg]
    /\ asked \subseteq Pair /\ told \subseteq Pair /\ late \subseteq Pair
    /\ course \in [Pair -> {"none", "open", "done", "cut"}]
    /\ left \subseteq Device

\* A pairing row joins two devices only when the first asked for the second
\* by name and the second confirmed: no sequence of expired, reused or
\* deleted codes lets a device confirm an invite meant for another.
PairingWasAsked == pairings \subseteq asked

\* Two confirmations of a pair never both get past CreatePairing, however
\* their checks interleave, unless a device was deleted in between.
ConfirmOnce ==
    \A g, h \in Handler :
        /\ g # h
        /\ pc[g] \in Committed /\ pc[h] \in Committed
        /\ PairOf(g) = PairOf(h)
        => {arg[h].from, arg[h].to} \cap left # {}

\* A device that was sent PairingCompleted, and so trusts the peer's key, is
\* paired with the peer in the store, unless one of them was deleted.
ToldIsPaired ==
    \A p \in told : IsPaired(p[1], p[2]) \/ {p[1], p[2]} \cap left # {}

\* A pairing row that nobody was answered for is still being confirmed, or
\* the DeleteInvite failed or the hub died under it: no lookup leaves a
\* pairing half done.
NotHalfDone ==
    \A p \in Pair : course[p] = "open" =>
        \E h \in Handler : pc[h] \in Committed /\ PairOf(h) = p

\* The check of attempts and its increment are two statements: concurrent
\* confirmations overshoot the limit by their number, less one, and no more.
AttemptsBounded ==
    \A c \in pending :
        invite[c].attempts <= MaxAttempts + Cardinality(Handler) - 1

\* No pairing and no invite names a deleted device, those excepted that a
\* handler wrote after the deletion, on checks made before it.
NoOrphans ==
    \A p \in pairings \cup {<<invite[c].from, invite[c].to>> : c \in pending} :
        (Present(p[1]) /\ Present(p[2])) \/ p \in late

\* No event is sent on a closed channel.
NoSendOnClosed == \A h \in Handler : pc[h] \in PutPcs => Open(h)
=============================================================================
