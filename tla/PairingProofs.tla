--------------------------- MODULE PairingProofs ----------------------------
(***************************************************************************)
(* The safety properties of Pairing, for every set of devices, handlers    *)
(* and codes and every limit of attempts.                                  *)
(*                                                                         *)
(* None of them is inductive alone.  The strengthening follows a pair from *)
(* the invite through the handler that confirms it to the row: what the    *)
(* handler read from the invite was asked for (AskedAlong), a handler past *)
(* its INSERT has its row unless a device was deleted (RowOfCommitted),    *)
(* and an invite's attempts together with the confirmations that are about *)
(* to add one stay below the bound (AttemptsInFlight).                     *)
(***************************************************************************)
EXTENDS Pairing, FiniteSetTheorems, TLAPS

\* Steps of a confirmation between the check of the invite and the INSERT.
Checked == {"getInitiator", "addAttempt", "pair"}

AskedAlong ==
    /\ \A c \in pending : <<invite[c].from, invite[c].to>> \in asked
    /\ \A h \in Handler : pc[h] \in Checked => PairOf(h) \in asked

RowOfCommitted ==
    \A h \in Handler : pc[h] \in Committed =>
        PairOf(h) \in pairings \/ {arg[h].from, arg[h].to} \cap left # {}

\* The confirmations that have checked code c and not yet counted themselves.
Uncounted(c) == {h \in Handler : /\ pc[h] \in {"getInitiator", "addAttempt"}
                                 /\ arg[h].code = c}

AttemptsInFlight ==
    \A c \in Code :
        /\ invite[c].attempts + Cardinality(Uncounted(c))
             <= MaxAttempts + Cardinality(Handler) - 1
        /\ c \notin pending => invite[c].attempts = 0

IInv ==
    /\ TypeOK
    /\ PairingWasAsked /\ AskedAlong
    /\ RowOfCommitted /\ ConfirmOnce /\ ToldIsPaired
    /\ NotHalfDone
    /\ AttemptsInFlight
    /\ NoOrphans
-----------------------------------------------------------------------------
\* The order of the steps, one by one.
LEMMA ThenIs ==
    /\ Then["reqFrom"] = "reqTo" /\ Then["reqTo"] = "reqPaired"
    /\ Then["reqPaired"] = "reqCreate" /\ Then["reqCreate"] = "reqTake"
    /\ Then["reqTake"] = "reqPut" /\ Then["reqPut"] = "idle"
    /\ Then["getInvite"] = "getInitiator"
    /\ Then["getInitiator"] = "addAttempt"
    /\ Then["addAttempt"] = "pair" /\ Then["pair"] = "delete"
    /\ Then["delete"] = "initTake" /\ Then["initTake"] = "initPut"
    /\ Then["initPut"] = "confTake" /\ Then["confTake"] = "confPut"
    /\ Then["confPut"] = "idle"
  BY DEF Then

\* The values a handler and an invite start from.
LEMMA DefaultsType == Blank \in Invite /\ NoArg \in Arg
  BY PairingAssumption DEF Blank, Invite, NoArg, Arg, AnyDevice, AnyCode

\* What handlers start from and learn on the way.
LEMMA ArgExcept ==
    ASSUME NEW a \in Arg
    PROVE  /\ \A d \in Device, e \in Device :
                [NoArg EXCEPT !.from = d, !.to = e] \in Arg
           /\ \A d \in Device, c \in Code :
                [NoArg EXCEPT !.to = d, !.code = c] \in Arg
           /\ \A d \in Device : [a EXCEPT !.from = d] \in Arg
           /\ \A n \in 0..MaxStreams : [a EXCEPT !.ch = n] \in Arg
  BY DefaultsType DEF Arg

\* What an invite starts from and how it changes.
LEMMA InviteExcept ==
    ASSUME NEW r \in Invite
    PROVE  /\ \A d \in Device, e \in Device :
                [Blank EXCEPT !.from = d, !.to = e] \in Invite
           /\ [r EXCEPT !.attempts = r.attempts + 1] \in Invite
           /\ [r EXCEPT !.expired = TRUE] \in Invite
  <1>1. \A d \in Device, e \in Device :
           [Blank EXCEPT !.from = d, !.to = e] \in Invite
    BY DefaultsType DEF Invite
  <1>2. r.attempts + 1 \in Nat
    BY DEF Invite
  <1>3. [r EXCEPT !.attempts = r.attempts + 1] \in Invite
    BY <1>2 DEF Invite
  <1>4. [r EXCEPT !.expired = TRUE] \in Invite
    BY DEF Invite
  <1> QED BY <1>1, <1>3, <1>4

\* The types of the control of handlers.
Control == pc \in [Handler -> Pcs] /\ arg \in [Handler -> Arg]

LEMMA GotoType ==
    ASSUME Control, NEW h \in Handler, NEW step \in Pcs, NEW a \in Arg,
           Goto(h, step, a)
    PROVE  Control'
  BY DefaultsType DEF Control, Goto

\* A handler that goes on leaves the others alone.
LEMMA GotoFrame ==
    ASSUME Control, NEW h \in Handler, NEW step, NEW a, Goto(h, step, a)
    PROVE  /\ pc'[h] = step
           /\ step # "idle" => arg'[h] = a
           /\ \A g \in Handler \ {h} : pc'[g] = pc[g] /\ arg'[g] = arg[g]
  BY DEF Control, Goto

\* The step after a step is a step.
LEMMA ThenType == \A p \in Pcs \ {"idle"} : Then[p] \in Pcs
  BY ThenIs DEF Pcs, StorePcs, TakePcs, PutPcs

LEMMA ThenThenType == \A p \in TakePcs : Then[Then[p]] \in Pcs
  BY ThenIs DEF Pcs, StorePcs, TakePcs, PutPcs

\* Every step keeps the types.
LEMMA TypeStep == ASSUME TypeOK, [Next]_vars PROVE TypeOK'
  <1> USE PairingAssumption, DefaultsType DEF store, channels, history, Others
  <1> DEFINE Rest ==
        /\ row \in [Device -> Row]
        /\ pending \subseteq Code
        /\ invite \in [Code -> Invite]
        /\ pairings \subseteq Pair
        /\ sub \in [Device -> 0..MaxStreams]
        /\ last \in [Device -> 0..MaxStreams]
        /\ asked \subseteq Pair /\ told \subseteq Pair /\ late \subseteq Pair
        /\ course \in [Pair -> {"none", "open", "done", "cut"}]
        /\ left \subseteq Device
  <1>a. Control /\ Rest
    BY DEF TypeOK, Control
  <1>b. SUFFICES Control' /\ Rest'
    BY DEF TypeOK, Control
  <1>c. \A h \in Handler : arg[h] \in Arg /\ PairOf(h) \in Pair
                           /\ arg[h].from \in Device /\ arg[h].to \in Device
                           /\ arg[h].code \in Code
    BY <1>a DEF Control, Arg, PairOf, Pair
  <1>d. \A h \in Handler : Proceed(h) /\ pc[h] # "idle" => Control'
    BY <1>a, <1>c, GotoType, ThenType DEF Proceed, Control
  <1>e. \A h \in Handler : Return(h) => Control'
    BY <1>a, GotoType DEF Return, Pcs
  <1>f. \A a, b \in Device : Late(a, b) \subseteq Pair
    BY <1>a DEF Late, Pair
  <1>g. \A hs \in SUBSET Handler : Cut(hs) \in [Pair -> {"none", "open", "done", "cut"}]
    BY <1>a DEF Cut
  <1>h. \A gone \in SUBSET Code : DropInvites(gone) =>
           pending' \subseteq Code /\ invite' \in [Code -> Invite]
    BY <1>a DEF DropInvites
  <1>1. ASSUME NEW h \in Handler, NEW d \in Initiator, NEW e \in Invited,
               RequestPairing(h, d, e)
        PROVE  Control' /\ Rest'
    <2>1. "reqFrom" \in Pcs
      BY DEF Pcs, StorePcs
    <2> QED BY <1>1, <1>a, <2>1, ArgExcept, GotoType DEF RequestPairing
  <1>2. ASSUME NEW h \in Handler, NEW d \in Device, NEW c \in Code,
               ConfirmPairing(h, d, c)
        PROVE  Control' /\ Rest'
    <2>1. "getInvite" \in Pcs
      BY DEF Pcs, StorePcs
    <2> QED BY <1>2, <1>a, <2>1, ArgExcept, GotoType DEF ConfirmPairing
  <1>3. ASSUME NEW h \in Handler, \/ RequestGetFrom(h) \/ RequestGetTo(h)
                                  \/ RequestIsPaired(h) \/ GetInitiator(h)
        PROVE  Control' /\ Rest'
    BY <1>3, <1>a, <1>d, <1>e DEF RequestGetFrom, RequestGetTo, RequestIsPaired, GetInitiator
  <1>4. ASSUME NEW h \in Handler, CreateInvite(h) PROVE Control' /\ Rest'
    <2>1. Control'
      BY <1>4, <1>d DEF CreateInvite
    <2>2. [Blank EXCEPT !.from = arg[h].from, !.to = arg[h].to] \in Invite
      BY <1>c, InviteExcept
    <2>3. invite' \in [Code -> Invite] /\ pending' \subseteq Code
      BY <1>4, <1>a, <2>2 DEF CreateInvite
    <2> QED BY <1>4, <1>a, <1>c, <1>f, <2>1, <2>3 DEF CreateInvite
  <1>5. ASSUME NEW h \in Handler, GetInvite(h) PROVE Control' /\ Rest'
    <2>1. Then["getInvite"] \in Pcs
      BY ThenIs DEF Pcs, StorePcs
    <2>2. invite[arg[h].code].from \in Device
      BY <1>a, <1>c DEF Invite
    <2>3. [arg[h] EXCEPT !.from = invite[arg[h].code].from] \in Arg
      BY <1>c, <2>2, ArgExcept
    <2> QED BY <1>5, <1>a, <1>e, <2>1, <2>3, GotoType DEF GetInvite
  <1>6. ASSUME NEW h \in Handler, IncrementInviteAttempts(h)
        PROVE  Control' /\ Rest'
    <2>1. Control'
      BY <1>6, <1>d DEF IncrementInviteAttempts
    <2>2. invite[arg[h].code] \in Invite
      BY <1>a, <1>c
    <2>3. [invite[arg[h].code] EXCEPT !.attempts = invite[arg[h].code].attempts + 1]
             \in Invite
      BY <2>2, InviteExcept
    <2>4. invite' \in [Code -> Invite]
      BY <1>6, <1>a, <1>c, <2>3 DEF IncrementInviteAttempts
    <2> QED BY <1>6, <1>a, <2>1, <2>4 DEF IncrementInviteAttempts
  <1>7. ASSUME NEW h \in Handler, CreatePairing(h) PROVE Control' /\ Rest'
    <2>1. CASE InsertRow(h)
      BY <1>7, <2>1, <1>a, <1>c, <1>d, <1>f DEF CreatePairing, InsertRow
    <2>2. CASE ~InsertRow(h)
      BY <1>7, <2>2, <1>a, <1>e DEF CreatePairing
    <2> QED BY <2>1, <2>2
  <1>8. ASSUME NEW h \in Handler, DeleteInvite(h) PROVE Control' /\ Rest'
    BY <1>8, <1>a, <1>c, <1>d, <1>h DEF DeleteInvite
  <1>9. ASSUME NEW h \in Handler, SendSkipped(h) PROVE Control' /\ Rest'
    BY <1>9, <1>a, <1>c, ThenThenType, GotoType DEF SendSkipped, Answered
  <1>10. ASSUME NEW h \in Handler, SendLookup(h) PROVE Control' /\ Rest'
    <2>1. Target(h) \in Device /\ sub[Target(h)] \in 0..MaxStreams
      BY <1>a, <1>c DEF Target
    <2>2. Then[pc[h]] \in Pcs
      BY <1>10, ThenType DEF SendLookup, TakePcs, Pcs
    <2>3. [arg[h] EXCEPT !.ch = sub[Target(h)]] \in Arg
      BY <2>1, <1>c, ArgExcept
    <2> QED BY <1>10, <1>a, <2>2, <2>3, GotoType DEF SendLookup
  <1>11. ASSUME NEW h \in Handler, Send(h) PROVE Control' /\ Rest'
    <2>1. Then[pc[h]] \in Pcs
      BY <1>11, ThenType DEF Send, PutPcs, Pcs
    <2>2. [arg[h] EXCEPT !.ch = 0] \in Arg
      <3>1. 0 \in 0..MaxStreams
        OBVIOUS
      <3> QED BY <3>1, <1>c, ArgExcept
    <2>3. <<Target(h), Peer(h)>> \in Pair
      BY <1>c DEF Target, Peer, Pair
    <2>4. Control'
      BY <1>11, <1>a, <2>1, <2>2, GotoType DEF Send
    <2> QED BY <1>11, <1>a, <1>c, <2>3, <2>4 DEF Send, Answered
  <1>12. ASSUME NEW h \in Handler, Fail(h) PROVE Control' /\ Rest'
    BY <1>12, <1>a, <1>e, <1>g DEF Fail
  <1>13. ASSUME Restart PROVE Control' /\ Rest'
    <2>1. Control'
      BY <1>13 DEF Restart, Control, Pcs
    <2> QED BY <1>13, <1>a, <1>g, <2>1 DEF Restart, Row
  <1>14. ASSUME NEW d \in Restless, NEW s \in Row, Status(d, s)
         PROVE  Control' /\ Rest'
    BY <1>14, <1>a DEF Status, Control
  <1>15. ASSUME NEW d \in Restless, DeleteDevice(d) PROVE Control' /\ Rest'
    <2> DEFINE gone == {c \in pending : d \in {invite[c].from, invite[c].to}}
    <2>1. gone \in SUBSET Code /\ DropInvites(gone)
      BY <1>15, <1>a DEF DeleteDevice, Cascade
    <2> HIDE DEF gone
    <2>2. pending' \subseteq Code /\ invite' \in [Code -> Invite]
      BY <2>1, <1>h
    <2> QED BY <1>15, <1>a, <2>2 DEF DeleteDevice, Cascade, Control, Row
  <1>16. ASSUME NEW d \in Restless, Subscribe(d) \/ Unsubscribe(d)
         PROVE  Control' /\ Rest'
    BY <1>16, <1>a DEF Subscribe, Unsubscribe, Control
  <1>17. ASSUME NEW c \in Code, Expire(c) PROVE Control' /\ Rest'
    <2>1. invite' \in [Code -> Invite]
      BY <1>17, <1>a, InviteExcept DEF Expire
    <2> QED BY <1>17, <1>a, <2>1 DEF Expire, Control
  <1>18. CASE DeleteExpiredInvites
    <2>1. {c \in pending : invite[c].expired} \in SUBSET Code
      BY <1>a
    <2> QED BY <1>18, <1>a, <1>h, <2>1 DEF DeleteExpiredInvites, Control
  <1>19. CASE UNCHANGED vars
    BY <1>19, <1>a DEF vars, Control
  <1> QED BY <1>1, <1>2, <1>3, <1>4, <1>5, <1>6, <1>7, <1>8, <1>9, <1>10, <1>11,
             <1>12, <1>13, <1>14, <1>15, <1>16, <1>17, <1>18, <1>19
          DEF Next, HandlerStep, SendPanics, Killed

-----------------------------------------------------------------------------
\* Every pair on its way from an invite to a row was asked for.
LEMMA AskedStep ==
    ASSUME TypeOK, PairingWasAsked, AskedAlong, [Next]_vars
    PROVE  PairingWasAsked' /\ AskedAlong'
  <1> USE PairingAssumption, ThenIs
      DEF PairingWasAsked, AskedAlong, Checked, PairOf, store, channels, history,
          Others
  <1>a. Control
    BY DEF TypeOK, Control
  <1>b. \A h \in Handler : Return(h) => 
           /\ pc'[h] = "idle"
           /\ \A g \in Handler \ {h} : pc'[g] = pc[g] /\ arg'[g] = arg[g]
    BY <1>a, GotoFrame DEF Return
  <1>c. \A h \in Handler : Proceed(h) => 
           /\ pc'[h] = Then[pc[h]]
           /\ Then[pc[h]] # "idle" => arg'[h] = arg[h]
           /\ \A g \in Handler \ {h} : pc'[g] = pc[g] /\ arg'[g] = arg[g]
    BY <1>a, GotoFrame DEF Proceed
  <1>1. ASSUME NEW h \in Handler, NEW d \in Initiator, NEW e \in Invited,
               RequestPairing(h, d, e)
        PROVE  PairingWasAsked' /\ AskedAlong'
    BY <1>1, <1>a, GotoFrame DEF RequestPairing
  <1>2. ASSUME NEW h \in Handler, NEW d \in Device, NEW c \in Code,
               ConfirmPairing(h, d, c)
        PROVE  PairingWasAsked' /\ AskedAlong'
    BY <1>2, <1>a, GotoFrame DEF ConfirmPairing
  <1>3. ASSUME NEW h \in Handler, \/ RequestGetFrom(h) \/ RequestGetTo(h)
                                  \/ RequestIsPaired(h) \/ GetInitiator(h)
        PROVE  PairingWasAsked' /\ AskedAlong'
    BY <1>3, <1>b, <1>c DEF RequestGetFrom, RequestGetTo, RequestIsPaired, GetInitiator
  <1>4. ASSUME NEW h \in Handler, CreateInvite(h)
        PROVE  PairingWasAsked' /\ AskedAlong'
    <2>1. PICK c \in Code \ pending :
             /\ pending' = pending \cup {c}
             /\ invite' = [invite EXCEPT ![c] =
                             [Blank EXCEPT !.from = arg[h].from, !.to = arg[h].to]]
      BY <1>4 DEF CreateInvite
    <2>2. /\ invite'[c].from = arg[h].from /\ invite'[c].to = arg[h].to
          /\ \A k \in pending : invite'[k] = invite[k]
      BY <2>1 DEF TypeOK, Blank
    <2>3. \A k \in pending' : <<invite'[k].from, invite'[k].to>> \in asked'
      BY <1>4, <2>1, <2>2 DEF CreateInvite
    <2>4. \A g \in Handler : pc'[g] \in Checked => PairOf(g)' \in asked'
      BY <1>4, <1>c DEF CreateInvite
    <2> QED BY <1>4, <2>3, <2>4 DEF CreateInvite
  <1>5. ASSUME NEW h \in Handler, GetInvite(h)
        PROVE  PairingWasAsked' /\ AskedAlong'
    <2> DEFINE c == arg[h].code
    <2>1. CASE Admits(c, arg[h].to)
      <3>1. Goto(h, "getInitiator", [arg[h] EXCEPT !.from = invite[c].from])
        BY <1>5, <2>1 DEF GetInvite
      <3>2. /\ pc'[h] = "getInitiator"
            /\ arg'[h] = [arg[h] EXCEPT !.from = invite[c].from]
            /\ \A g \in Handler \ {h} : pc'[g] = pc[g] /\ arg'[g] = arg[g]
        BY <3>1, <1>a, GotoFrame
      <3>3. arg'[h].from = invite[c].from /\ arg'[h].to = invite[c].to
        BY <3>2, <2>1 DEF Admits, TypeOK, Arg
      <3>4. <<invite[c].from, invite[c].to>> \in asked
        BY <2>1 DEF Admits
      <3>5. PairOf(h)' \in asked'
        BY <1>5, <3>3, <3>4 DEF GetInvite
      <3> QED BY <1>5, <3>2, <3>5 DEF GetInvite
    <2>2. CASE ~Admits(c, arg[h].to)
      BY <1>5, <2>2, <1>b DEF GetInvite
    <2> QED BY <2>1, <2>2
  <1>6. ASSUME NEW h \in Handler, IncrementInviteAttempts(h)
        PROVE  PairingWasAsked' /\ AskedAlong'
    <2>1. \A k \in pending : /\ invite'[k].from = invite[k].from
                             /\ invite'[k].to = invite[k].to
      BY <1>6 DEF IncrementInviteAttempts, TypeOK, Invite
    <2> QED BY <1>6, <1>c, <2>1 DEF IncrementInviteAttempts
  <1>7. ASSUME NEW h \in Handler, CreatePairing(h)
        PROVE  PairingWasAsked' /\ AskedAlong'
    <2>1. CASE InsertRow(h)
      BY <1>7, <2>1, <1>c DEF CreatePairing, InsertRow
    <2>2. CASE ~InsertRow(h)
      BY <1>7, <2>2, <1>b DEF CreatePairing
    <2> QED BY <2>1, <2>2
  <1>d. ASSUME NEW gone, DropInvites(gone)
        PROVE  pending' \subseteq pending /\ \A k \in pending' : invite'[k] = invite[k]
    BY <1>d DEF DropInvites, TypeOK
  <1>8. ASSUME NEW h \in Handler, DeleteInvite(h)
        PROVE  PairingWasAsked' /\ AskedAlong'
    BY <1>8, <1>c, <1>d DEF DeleteInvite
  <1>9. ASSUME NEW h \in Handler, SendSkipped(h) \/ SendLookup(h) \/ Send(h)
        PROVE  PairingWasAsked' /\ AskedAlong'
    <2>1. pc'[h] \notin Checked
          /\ \A g \in Handler \ {h} : pc'[g] = pc[g] /\ arg'[g] = arg[g]
      BY <1>9, <1>a, GotoFrame DEF SendSkipped, SendLookup, Send, TakePcs, PutPcs
    <2> QED BY <1>9, <2>1 DEF SendSkipped, SendLookup, Send
  <1>10. ASSUME NEW h \in Handler, Fail(h)
         PROVE  PairingWasAsked' /\ AskedAlong'
    BY <1>10, <1>b DEF Fail
  <1>11. ASSUME Restart PROVE PairingWasAsked' /\ AskedAlong'
    BY <1>11 DEF Restart
  <1>12. ASSUME NEW d \in Restless, \/ Subscribe(d) \/ Unsubscribe(d)
                                    \/ \E s \in Row : Status(d, s)
         PROVE  PairingWasAsked' /\ AskedAlong'
    BY <1>12 DEF Subscribe, Unsubscribe, Status
  <1>13. ASSUME NEW d \in Restless, DeleteDevice(d)
         PROVE  PairingWasAsked' /\ AskedAlong'
    BY <1>13, <1>d DEF DeleteDevice, Cascade
  <1>14. ASSUME NEW c \in Code, Expire(c) PROVE PairingWasAsked' /\ AskedAlong'
    <2>1. \A k \in pending : /\ invite'[k].from = invite[k].from
                             /\ invite'[k].to = invite[k].to
      BY <1>14 DEF Expire, TypeOK, Invite
    <2> QED BY <1>14, <2>1 DEF Expire
  <1>15. CASE DeleteExpiredInvites
    BY <1>15, <1>d DEF DeleteExpiredInvites
  <1>16. CASE UNCHANGED vars
    BY <1>16 DEF vars
  <1> QED BY <1>1, <1>2, <1>3, <1>4, <1>5, <1>6, <1>7, <1>8, <1>9, <1>10, <1>11,
             <1>12, <1>13, <1>14, <1>15, <1>16
          DEF Next, HandlerStep, SendPanics, Killed

-----------------------------------------------------------------------------
\* What a step does to the confirmations in progress.
PairKept(g) == arg'[g].from = arg[g].from /\ arg'[g].to = arg[g].to
Entered(g) ==
    /\ pc[g] = "pair"
    /\ PairOf(g) \notin pairings /\ PairOf(g) \in pairings'
    /\ \A k \in Handler \ {g} : pc'[k] = pc[k]
Ended(g) == course'[PairOf(g)] \in {"done", "cut"}

\* A handler is past its INSERT because it was, or because it did it now; and
\* it stays there until it answers or is cut.
Moves ==
    \A g \in Handler :
        /\ pc'[g] \in Committed => /\ PairKept(g)
                                   /\ pc[g] \in Committed \/ Entered(g)
        /\ pc[g] \in Committed /\ pc'[g] \notin Committed => Ended(g)

\* A confirmation is opened by the handler that does the INSERT.
Opens ==
    \A q \in Pair : course'[q] = "open" =>
        \/ course[q] = "open"
        \/ \E h \in Handler : pc'[h] \in Committed /\ PairOf(h)' = q

\* A row goes only with one of its devices.
Lasts ==
    /\ left \subseteq left'
    /\ \A a, b \in Device : <<a, b>> \in pairings =>
           <<a, b>> \in pairings' \/ {a, b} \cap left' # {}

\* PairingCompleted is sent by a handler past its INSERT.
Tells ==
    \A q \in told' : \/ q \in told
                     \/ \E h \in Handler :
                          /\ pc[h] \in Committed
                          /\ \/ q = <<arg[h].from, arg[h].to>>
                             \/ q = <<arg[h].to, arg[h].from>>

LEMMA StepEffects ==
    ASSUME TypeOK, [Next]_vars
    PROVE  Moves /\ Opens /\ Lasts /\ Tells
  <1> DEFINE Goal == Moves /\ Opens /\ Lasts /\ Tells
  <1> USE PairingAssumption, ThenIs
      DEF Moves, Opens, Lasts, Tells, PairKept, Entered, Ended, Committed, PairOf,
          store, channels, history, Others
  <1>a. Control
    BY DEF TypeOK, Control
  <1>b. \A h \in Handler : Return(h) =>
           /\ pc'[h] = "idle"
           /\ \A g \in Handler \ {h} : pc'[g] = pc[g] /\ arg'[g] = arg[g]
    BY <1>a, GotoFrame DEF Return
  <1>c. \A h \in Handler : Proceed(h) =>
           /\ pc'[h] = Then[pc[h]]
           /\ Then[pc[h]] # "idle" => arg'[h] = arg[h]
           /\ \A g \in Handler \ {h} : pc'[g] = pc[g] /\ arg'[g] = arg[g]
    BY <1>a, GotoFrame DEF Proceed
  <1>d. /\ course \in [Pair -> {"none", "open", "done", "cut"}]
        /\ \A h \in Handler : PairOf(h) \in Pair
        /\ \A h \in Handler : arg[h] \in Arg
    BY DEF TypeOK, Pair, Arg
  <1>1. ASSUME NEW h \in Handler, NEW d \in Initiator, NEW e \in Invited,
               RequestPairing(h, d, e)
        PROVE  Goal
    BY <1>1, <1>a, GotoFrame DEF RequestPairing
  <1>2. ASSUME NEW h \in Handler, NEW d \in Device, NEW c \in Code,
               ConfirmPairing(h, d, c)
        PROVE  Goal
    BY <1>2, <1>a, GotoFrame DEF ConfirmPairing
  <1>3. ASSUME NEW h \in Handler, \/ RequestGetFrom(h) \/ RequestGetTo(h)
                                  \/ RequestIsPaired(h) \/ GetInitiator(h)
        PROVE  Goal
    BY <1>3, <1>b, <1>c DEF RequestGetFrom, RequestGetTo, RequestIsPaired, GetInitiator
  <1>4. ASSUME NEW h \in Handler, CreateInvite(h) PROVE Goal
    BY <1>4, <1>c DEF CreateInvite
  <1>5. ASSUME NEW h \in Handler, GetInvite(h) PROVE Goal
    <2>1. pc[h] = "getInvite" /\ pc'[h] \in {"idle", "getInitiator"}
          /\ \A g \in Handler \ {h} : pc'[g] = pc[g] /\ arg'[g] = arg[g]
      BY <1>5, <1>a, <1>b, GotoFrame DEF GetInvite
    <2> QED BY <1>5, <2>1 DEF GetInvite
  <1>6. ASSUME NEW h \in Handler, IncrementInviteAttempts(h) PROVE Goal
    BY <1>6, <1>c DEF IncrementInviteAttempts
  <1>7. ASSUME NEW h \in Handler, CreatePairing(h) PROVE Goal
    <2>1. CASE PairOf(h) \notin pairings
      <3>1. /\ pc[h] = "pair" /\ pc'[h] = "delete" /\ arg'[h] = arg[h]
            /\ \A g \in Handler \ {h} : pc'[g] = pc[g] /\ arg'[g] = arg[g]
        BY <1>7, <2>1, <1>c DEF CreatePairing, InsertRow
      <3>2. /\ pairings' = pairings \cup {PairOf(h)}
            /\ course' = [course EXCEPT ![PairOf(h)] = "open"]
            /\ UNCHANGED <<told, left>>
        BY <1>7, <2>1 DEF CreatePairing, InsertRow
      <3>3. Moves
        BY <2>1, <3>1, <3>2
      <3>4. Opens
        BY <1>d, <3>1, <3>2
      <3> QED BY <3>2, <3>3, <3>4
    <2>2. CASE PairOf(h) \in pairings
      BY <1>7, <2>2, <1>b DEF CreatePairing
    <2> QED BY <2>1, <2>2
  <1>8. ASSUME NEW h \in Handler, DeleteInvite(h) PROVE Goal
    BY <1>8, <1>c DEF DeleteInvite
  <1>9. ASSUME NEW h \in Handler, SendSkipped(h) PROVE Goal
    <2>1. pc'[h] = Then[Then[pc[h]]] /\ (pc'[h] # "idle" => arg'[h] = arg[h])
          /\ \A g \in Handler \ {h} : pc'[g] = pc[g] /\ arg'[g] = arg[g]
      BY <1>9, <1>a, GotoFrame DEF SendSkipped
    <2>2. CASE pc[h] \in {"reqTake", "initTake"}
      BY <1>9, <2>1, <2>2, <1>d DEF SendSkipped, Answered
    <2>3. CASE pc[h] = "confTake"
      BY <1>9, <2>1, <2>3, <1>d DEF SendSkipped, Answered
    <2> QED BY <1>9, <2>2, <2>3 DEF SendSkipped, TakePcs
  <1>10. ASSUME NEW h \in Handler, SendLookup(h) PROVE Goal
    <2>1. pc'[h] = Then[pc[h]] /\ pc[h] \in TakePcs
          /\ arg'[h] = [arg[h] EXCEPT !.ch = sub[Target(h)]]
          /\ \A g \in Handler \ {h} : pc'[g] = pc[g] /\ arg'[g] = arg[g]
      BY <1>10, <1>a, GotoFrame DEF SendLookup, TakePcs
    <2>2. PairKept(h)
      BY <2>1, <1>d DEF Arg
    <2>3. UNCHANGED <<pairings, told, course, left>>
      BY <1>10 DEF SendLookup
    <2>4. \/ pc[h] = "reqTake" /\ pc'[h] = "reqPut"
          \/ pc[h] = "initTake" /\ pc'[h] = "initPut"
          \/ pc[h] = "confTake" /\ pc'[h] = "confPut"
      BY <2>1 DEF TakePcs
    <2>5. ASSUME NEW g \in Handler
          PROVE  /\ pc'[g] \in Committed => PairKept(g) /\ pc[g] \in Committed
                 /\ pc[g] \in Committed => pc'[g] \in Committed
      <3>1. CASE g = h
        BY ONLY <3>1, <2>2, <2>4 DEF Committed, PairKept
      <3>2. CASE g # h
        BY ONLY <3>2, <2>1, <2>5 DEF PairKept
      <3> QED BY <3>1, <3>2
    <2>6. Moves
      BY <2>5
    <2> QED BY <2>3, <2>6
  <1>11. ASSUME NEW h \in Handler, Send(h) PROVE Goal
    <2>1. pc'[h] = Then[pc[h]] /\ pc[h] \in PutPcs
          /\ (pc'[h] # "idle" => arg'[h] = [arg[h] EXCEPT !.ch = 0])
          /\ \A g \in Handler \ {h} : pc'[g] = pc[g] /\ arg'[g] = arg[g]
      BY <1>11, <1>a, GotoFrame DEF Send
    <2>2. pc'[h] # "idle" => PairKept(h)
      BY <2>1, <1>d DEF Arg
    <2>3. pc[h] = "confPut" => course' = [course EXCEPT ![PairOf(h)] = "done"]
      BY <1>11 DEF Send, Answered
    <2>4. pc[h] # "confPut" => course' = course
      BY <1>11 DEF Send, Answered
    <2>5. Moves
      BY <2>1, <2>2, <2>3, <1>d DEF PutPcs
    <2>6. Opens
      BY <2>3, <2>4, <1>d
    <2>7. Tells
      BY <1>11 DEF Send, Target, Peer, PutPcs
    <2>8. Lasts
      BY <1>11 DEF Send
    <2> QED BY <2>5, <2>6, <2>7, <2>8
  <1>12. ASSUME NEW h \in Handler, Fail(h) PROVE Goal
    <2>1. course' = Cut({h})
      BY <1>12 DEF Fail
    <2>2. Opens
      BY <2>1 DEF Cut
    <2>3. Moves
      BY <1>12, <2>1, <1>b, <1>d DEF Cut, Fail
    <2> QED BY <1>12, <2>2, <2>3 DEF Fail
  <1>13. ASSUME Restart PROVE Goal
    <2>1. course' = Cut(Handler) /\ \A h \in Handler : pc'[h] = "idle"
      BY <1>13 DEF Restart
    <2>2. Opens
      BY <2>1 DEF Cut
    <2>3. Moves
      BY <2>1, <1>d DEF Cut
    <2> QED BY <1>13, <2>2, <2>3 DEF Restart
  <1>14. ASSUME NEW d \in Restless, \/ Subscribe(d) \/ Unsubscribe(d)
                                    \/ \E s \in Row : Status(d, s)
         PROVE  Goal
    BY <1>14 DEF Subscribe, Unsubscribe, Status
  <1>15. ASSUME NEW d \in Restless, DeleteDevice(d) PROVE Goal
    BY <1>15 DEF DeleteDevice, Cascade
  <1>16. CASE DeleteExpiredInvites \/ (\E c \in Code : Expire(c))
    BY <1>16 DEF DeleteExpiredInvites, Expire
  <1>17. CASE UNCHANGED vars
    BY <1>17 DEF vars
  <1> QED BY <1>1, <1>2, <1>3, <1>4, <1>5, <1>6, <1>7, <1>8, <1>9, <1>10, <1>11,
             <1>12, <1>13, <1>14, <1>15, <1>16, <1>17
          DEF Next, HandlerStep, SendPanics, Killed

\* Past CreatePairing there is one confirmation of a pair, its row is there,
\* and only then is anybody told, as long as no device is deleted.
LEMMA CommitStep ==
    ASSUME TypeOK, RowOfCommitted, ConfirmOnce, ToldIsPaired, [Next]_vars
    PROVE  RowOfCommitted' /\ ConfirmOnce' /\ ToldIsPaired'
  <1>a. Moves /\ Lasts /\ Tells
    BY StepEffects
  <1>b. \A h \in Handler : arg[h].from \in Device /\ arg[h].to \in Device
    BY DEF TypeOK, Arg
  <1>1. RowOfCommitted'
    BY <1>a, <1>b DEF RowOfCommitted, Moves, Lasts, PairKept, Entered, PairOf
  <1>2. ASSUME NEW g \in Handler, NEW h \in Handler, g # h,
               pc'[g] \in Committed, pc'[h] \in Committed,
               PairOf(g)' = PairOf(h)'
        PROVE  {arg'[h].from, arg'[h].to} \cap left' # {}
    <2>1. /\ PairOf(g) = PairOf(h)
          /\ arg'[h].from = arg[h].from /\ arg'[h].to = arg[h].to
          /\ arg[g].from = arg[h].from /\ arg[g].to = arg[h].to
      BY <1>2, <1>a DEF Moves, PairKept, PairOf
    <2>2. CASE pc[g] \in Committed /\ pc[h] \in Committed
      BY <2>1, <2>2, <1>2, <1>a DEF ConfirmOnce, Lasts
    <2>3. CASE Entered(g) \/ Entered(h)
      <3>1. "pair" \notin Committed
        BY DEF Committed
      <3> QED BY <2>1, <2>3, <3>1, <1>2, <1>a DEF RowOfCommitted, Moves, Entered, Lasts
    <2> QED BY <2>2, <2>3, <1>2, <1>a DEF Moves
  <1>3. ConfirmOnce'
    BY <1>2 DEF ConfirmOnce
  <1>4. ASSUME NEW q \in told'
        PROVE  (IsPaired(q[1], q[2]) \/ {q[1], q[2]} \cap left # {})'
    <2>1. PICK a \in Device, b \in Device : q = <<a, b>>
      BY TypeStep DEF TypeOK, Pair
    <2>2. <<a, b>> \in pairings \/ <<b, a>> \in pairings \/ {a, b} \cap left # {}
      <3>1. CASE q \in told
        BY <2>1, <3>1 DEF ToldIsPaired, IsPaired
      <3>2. CASE q \notin told
        <4>1. PICK h \in Handler :
                /\ pc[h] \in Committed
                /\ \/ q = <<arg[h].from, arg[h].to>>
                   \/ q = <<arg[h].to, arg[h].from>>
          BY <3>2, <1>a DEF Tells
        <4>2. \/ <<arg[h].from, arg[h].to>> \in pairings
              \/ {arg[h].from, arg[h].to} \cap left # {}
          BY <4>1 DEF RowOfCommitted, PairOf
        <4> QED BY <2>1, <4>1, <4>2
      <3> QED BY <3>1, <3>2
    <2>3. \/ <<a, b>> \in pairings' \/ <<b, a>> \in pairings'
          \/ {a, b} \cap left' # {}
      BY <2>2, <1>a DEF Lasts
    <2> QED BY <2>1, <2>3 DEF IsPaired
  <1> QED BY <1>1, <1>3, <1>4 DEF ToldIsPaired

\* A pairing row is open only under a handler that is past its INSERT.
LEMMA HalfStep ==
    ASSUME TypeOK, NotHalfDone, [Next]_vars
    PROVE  NotHalfDone'
  <1>a. Moves /\ Opens
    BY StepEffects
  <1>1. SUFFICES ASSUME NEW q \in Pair, course'[q] = "open"
                 PROVE  \E h \in Handler : pc'[h] \in Committed /\ PairOf(h)' = q
    BY DEF NotHalfDone
  <1>2. CASE course[q] = "open"
    <2>1. PICK h \in Handler : pc[h] \in Committed /\ PairOf(h) = q
      BY <1>2 DEF NotHalfDone
    <2>2. ~Ended(h)
      BY <1>1, <2>1 DEF Ended
    <2> QED BY <2>1, <2>2, <1>a DEF Moves, PairKept, PairOf
  <1> QED BY <1>1, <1>2, <1>a DEF Opens

\* Rows of invites and pairings go with their devices.
LEMMA OrphanStep ==
    ASSUME TypeOK, NoOrphans, [Next]_vars
    PROVE  NoOrphans'
  <1> DEFINE Fine(a, b) == (Present(a) /\ Present(b)) \/ <<a, b>> \in late
             Rows == /\ \A a, b \in Device : <<a, b>> \in pairings => Fine(a, b)
                     /\ \A c \in pending : Fine(invite[c].from, invite[c].to)
  <1> USE PairingAssumption DEF Present, store, channels, history, Others
  <1>a. Rows
    BY DEF NoOrphans, TypeOK, Pair
  <1>b. TypeOK'
    BY TypeStep
  <1>c. SUFFICES Rows'
    BY <1>b DEF NoOrphans, TypeOK, Pair
  <1>d. /\ row \in [Device -> Row]
        /\ pending \subseteq Code
        /\ invite \in [Code -> Invite]
        /\ \A c \in Code : invite[c].from \in Device /\ invite[c].to \in Device
        /\ \A h \in Handler : arg[h].from \in Device /\ arg[h].to \in Device
    BY DEF TypeOK, Invite, Arg
  <1>e. ASSUME UNCHANGED <<row, pending, invite, pairings, late>> PROVE Rows'
    BY <1>a, <1>e
  <1>f. ASSUME NEW a \in Device, NEW b \in Device, row' = row, late' = Late(a, b)
        PROVE  late \subseteq late' /\ Fine(a, b)'
    BY <1>f DEF Late
  <1>1. ASSUME NEW h \in Handler, CreateInvite(h) PROVE Rows'
    <2>1. PICK c \in Code \ pending :
             /\ pending' = pending \cup {c}
             /\ invite' = [invite EXCEPT ![c] =
                             [Blank EXCEPT !.from = arg[h].from, !.to = arg[h].to]]
      BY <1>1 DEF CreateInvite
    <2>2. /\ invite'[c].from = arg[h].from /\ invite'[c].to = arg[h].to
          /\ \A k \in pending : invite'[k] = invite[k]
      BY <2>1, <1>d DEF Blank
    <2>3. UNCHANGED <<row, pairings>> /\ late' = Late(arg[h].from, arg[h].to)
      BY <1>1 DEF CreateInvite
    <2>4. PICK a \in Device, b \in Device : a = arg[h].from /\ b = arg[h].to
      BY <1>d
    <2>5. late \subseteq late' /\ Fine(a, b)'
      BY <2>3, <2>4, <1>f
    <2> QED BY <1>a, <2>1, <2>2, <2>3, <2>4, <2>5
  <1>2. ASSUME NEW h \in Handler, IncrementInviteAttempts(h) PROVE Rows'
    <2>1. \A k \in pending : /\ invite'[k].from = invite[k].from
                             /\ invite'[k].to = invite[k].to
      BY <1>2, <1>d DEF IncrementInviteAttempts, Invite
    <2> QED BY <1>a, <1>2, <2>1 DEF IncrementInviteAttempts
  <1>3. ASSUME NEW h \in Handler, CreatePairing(h) PROVE Rows'
    <2>1. CASE InsertRow(h)
      <3>1. UNCHANGED <<row, pending, invite>> /\ late' = Late(arg[h].from, arg[h].to)
            /\ pairings' = pairings \cup {<<arg[h].from, arg[h].to>>}
        BY <2>1 DEF InsertRow, PairOf
      <3>2. PICK a \in Device, b \in Device : a = arg[h].from /\ b = arg[h].to
        BY <1>d
      <3>3. late \subseteq late' /\ Fine(a, b)'
        BY <3>1, <3>2, <1>f
      <3> QED BY <1>a, <3>1, <3>2, <3>3
    <2>2. CASE ~InsertRow(h)
      BY <1>3, <2>2, <1>e DEF CreatePairing
    <2> QED BY <2>1, <2>2
  <1>4. ASSUME NEW gone, DropInvites(gone)
        PROVE  pending' = pending \ gone /\ \A k \in pending' : invite'[k] = invite[k]
    BY <1>4, <1>d DEF DropInvites
  <1>5. ASSUME NEW h \in Handler, DeleteInvite(h) PROVE Rows'
    BY <1>a, <1>5, <1>4 DEF DeleteInvite
  <1>6. CASE DeleteExpiredInvites
    BY <1>a, <1>6, <1>4 DEF DeleteExpiredInvites
  <1>7. ASSUME NEW d \in Restless, DeleteDevice(d) PROVE Rows'
    <2>1. /\ row' = [row EXCEPT ![d] = "absent"] /\ late' = late
          /\ pairings' = {p \in pairings : d \notin {p[1], p[2]}}
          /\ DropInvites({c \in pending : d \in {invite[c].from, invite[c].to}})
      BY <1>7 DEF DeleteDevice, Cascade
    <2>2. \A k \in pending' : /\ k \in pending /\ invite'[k] = invite[k]
                              /\ invite[k].from # d /\ invite[k].to # d
      BY <2>1, <1>4
    <2>3. \A a, b \in Device : <<a, b>> \in pairings' =>
             <<a, b>> \in pairings /\ a # d /\ b # d
      BY <2>1
    <2> QED BY <1>a, <1>d, <2>1, <2>2, <2>3
  <1>8. ASSUME NEW d \in Restless, NEW s \in Row, Status(d, s) PROVE Rows'
    <2>1. \A e \in Device : Present(e) => Present(e)'
      BY <1>8, <1>d DEF Status
    <2> QED BY <1>a, <1>d, <1>8, <2>1 DEF Status
  <1>9. ASSUME Restart PROVE Rows'
    <2>1. \A e \in Device : Present(e) => Present(e)'
      BY <1>9, <1>d DEF Restart
    <2> QED BY <1>a, <1>d, <1>9, <2>1 DEF Restart
  <1>10. ASSUME NEW c \in Code, Expire(c) PROVE Rows'
    <2>1. \A k \in pending : /\ invite'[k].from = invite[k].from
                             /\ invite'[k].to = invite[k].to
      BY <1>10, <1>d DEF Expire, Invite
    <2> QED BY <1>a, <1>10, <2>1 DEF Expire
  <1>11. ASSUME NEW h \in Handler,
                \/ RequestGetFrom(h) \/ RequestGetTo(h) \/ RequestIsPaired(h)
                \/ GetInvite(h) \/ GetInitiator(h) \/ SendSkipped(h)
                \/ SendLookup(h) \/ Send(h) \/ Fail(h)
         PROVE  Rows'
    BY <1>11, <1>e DEF RequestGetFrom, RequestGetTo, RequestIsPaired, GetInvite,
       GetInitiator, SendSkipped, SendLookup, Send, Fail
  <1>12. ASSUME \/ \E h \in Handler, d \in Initiator, e \in Invited :
                     RequestPairing(h, d, e)
                \/ \E h \in Handler, d \in Device, c \in Code :
                     ConfirmPairing(h, d, c)
                \/ \E d \in Restless : Subscribe(d) \/ Unsubscribe(d)
                \/ UNCHANGED vars
         PROVE  Rows'
    BY <1>12, <1>e DEF RequestPairing, ConfirmPairing, Subscribe, Unsubscribe, vars
  <1> HIDE DEF Rows
  <1> QED BY <1>1, <1>2, <1>3, <1>5, <1>6, <1>7, <1>8, <1>9, <1>10, <1>11, <1>12
          DEF Next, HandlerStep, SendPanics, Killed

-----------------------------------------------------------------------------
\* The three ways in which a step moves the count of an invite's attempts and
\* of the confirmations that are about to add one.
Counted(c) == invite[c].attempts + Cardinality(Uncounted(c))
                <= MaxAttempts + Cardinality(Handler) - 1

LEMMA HandlerCount ==
    ASSUME NEW S \in SUBSET Handler
    PROVE  /\ IsFiniteSet(S) /\ Cardinality(S) \in Nat
           /\ Cardinality(Handler) \in Nat
           /\ Cardinality(S) <= Cardinality(Handler)
           /\ \A T \in SUBSET S : Cardinality(T) \in Nat /\ Cardinality(T) <= Cardinality(S)
           /\ \A h \in S : Cardinality(S \ {h}) = Cardinality(S) - 1
  <1>1. IsFiniteSet(Handler) /\ Cardinality(Handler) \in Nat
    BY PairingAssumption, FS_CardinalityType
  <1>2. IsFiniteSet(S) /\ Cardinality(S) <= Cardinality(Handler)
    BY <1>1, FS_Subset
  <1>3. Cardinality(S) \in Nat
    BY <1>2, FS_CardinalityType
  <1>4. ASSUME NEW T \in SUBSET S
        PROVE  Cardinality(T) \in Nat /\ Cardinality(T) <= Cardinality(S)
    BY <1>2, FS_Subset, FS_CardinalityType
  <1>5. ASSUME NEW h \in S PROVE Cardinality(S \ {h}) = Cardinality(S) - 1
    BY <1>2, FS_RemoveElement
  <1> QED BY <1>1, <1>2, <1>3, <1>4, <1>5

LEMMA CountFalls ==
    ASSUME NEW c \in Code, TypeOK, TypeOK', Counted(c),
           invite'[c].attempts <= invite[c].attempts,
           Uncounted(c)' \subseteq Uncounted(c)
    PROVE  Counted(c)'
  <1>1. invite'[c].attempts \in Nat /\ invite[c].attempts \in Nat
    BY DEF TypeOK, Invite
  <1>2. Uncounted(c) \in SUBSET Handler
    BY DEF Uncounted
  <1>3. /\ Cardinality(Uncounted(c)) \in Nat /\ Cardinality(Handler) \in Nat
        /\ Cardinality(Uncounted(c)') \in Nat
        /\ Cardinality(Uncounted(c)') <= Cardinality(Uncounted(c))
    BY <1>2, HandlerCount
  <1> QED BY <1>1, <1>3, PairingAssumption DEF Counted

LEMMA CountAdmitted ==
    ASSUME NEW c \in Code, TypeOK', invite'[c].attempts < MaxAttempts
    PROVE  Counted(c)'
  <1>1. invite'[c].attempts \in Nat
    BY DEF TypeOK, Invite
  <1>2. Uncounted(c)' \in SUBSET Handler
    BY DEF Uncounted
  <1>3. /\ Cardinality(Uncounted(c)') \in Nat /\ Cardinality(Handler) \in Nat
        /\ Cardinality(Uncounted(c)') <= Cardinality(Handler)
    BY <1>2, HandlerCount
  <1> QED BY <1>1, <1>3, PairingAssumption DEF Counted

LEMMA CountMoves ==
    ASSUME NEW c \in Code, TypeOK, Counted(c), NEW h \in Uncounted(c),
           invite'[c].attempts = invite[c].attempts + 1,
           Uncounted(c)' = Uncounted(c) \ {h}
    PROVE  Counted(c)'
  <1>1. invite[c].attempts \in Nat
    BY DEF TypeOK, Invite
  <1>2. Uncounted(c) \in SUBSET Handler
    BY DEF Uncounted
  <1>3. /\ Cardinality(Uncounted(c)) \in Nat /\ Cardinality(Handler) \in Nat
        /\ Cardinality(Uncounted(c)') = Cardinality(Uncounted(c)) - 1
    BY <1>2, HandlerCount
  <1> QED BY <1>1, <1>3, PairingAssumption DEF Counted

\* Confirmations overshoot the limit of attempts only by those in flight.
LEMMA AttemptsStep ==
    ASSUME TypeOK, AttemptsInFlight, [Next]_vars
    PROVE  AttemptsInFlight'
  <1> USE PairingAssumption, ThenIs DEF store, channels, history, Others
  <1>a. Control /\ invite \in [Code -> Invite] /\ \A h \in Handler : arg[h] \in Arg
    BY DEF TypeOK, Control
  <1>b. TypeOK'
    BY TypeStep
  <1>c. \A c \in Code : Counted(c) /\ (c \notin pending => invite[c].attempts = 0)
    BY DEF AttemptsInFlight, Counted
  <1>d. SUFFICES \A c \in Code :
                   Counted(c)' /\ (c \notin pending' => invite'[c].attempts = 0)
    BY DEF AttemptsInFlight, Counted
  <1>e. \A c \in Code : invite[c].attempts \in Nat /\ invite'[c].attempts \in Nat
    BY <1>b DEF TypeOK, Invite
  <1> DEFINE Goal == \A c \in Code :
                   Counted(c)' /\ (c \notin pending' => invite'[c].attempts = 0)
             Fewer == \A c \in Code : Uncounted(c)' \subseteq Uncounted(c)
             Lower == \A c \in Code : /\ invite'[c].attempts <= invite[c].attempts
                                      /\ c \notin pending' => invite'[c].attempts = 0
  <1>f. ASSUME Fewer, Lower PROVE Goal
    BY <1>b, <1>c, <1>f, CountFalls
  <1>g. ASSUME UNCHANGED <<pending, invite>> PROVE Lower
    BY <1>c, <1>e, <1>g
  <1>h. ASSUME UNCHANGED <<pc, arg>> PROVE Fewer
    BY <1>h DEF Uncounted
  <1>i. ASSUME NEW gone, DropInvites(gone) PROVE Lower
    BY <1>a, <1>c, <1>e, <1>i DEF DropInvites, Blank
  <1>j. ASSUME NEW h \in Handler, Return(h) PROVE Fewer
    <2>1. /\ pc'[h] = "idle"
          /\ \A g \in Handler \ {h} : pc'[g] = pc[g] /\ arg'[g] = arg[g]
      BY <1>a, <1>j, GotoFrame DEF Return
    <2> QED BY <2>1 DEF Uncounted
  <1>k. ASSUME NEW h \in Handler, NEW step, NEW a, Goto(h, step, a),
               step \notin {"getInitiator", "addAttempt"}
        PROVE  Fewer
    <2>1. /\ pc'[h] \notin {"getInitiator", "addAttempt"}
          /\ \A g \in Handler \ {h} : pc'[g] = pc[g] /\ arg'[g] = arg[g]
      BY <1>a, <1>k, GotoFrame
    <2> QED BY <2>1 DEF Uncounted
  <1> HIDE DEF Goal, Fewer, Lower
  <1>1. ASSUME NEW h \in Handler, NEW d \in Initiator, NEW e \in Invited,
               RequestPairing(h, d, e)
        PROVE  Goal
    BY <1>1, <1>f, <1>g, <1>k DEF RequestPairing
  <1>2. ASSUME NEW h \in Handler, NEW d \in Device, NEW c \in Code,
               ConfirmPairing(h, d, c)
        PROVE  Goal
    BY <1>2, <1>f, <1>g, <1>k DEF ConfirmPairing
  <1>3. ASSUME NEW h \in Handler,
               RequestGetFrom(h) \/ RequestGetTo(h) \/ RequestIsPaired(h)
        PROVE  Goal
    <2>1. Fewer
      BY <1>3, <1>j, <1>k DEF RequestGetFrom, RequestGetTo, RequestIsPaired, Proceed
    <2> QED BY <1>3, <2>1, <1>f, <1>g DEF RequestGetFrom, RequestGetTo, RequestIsPaired
  <1>4. ASSUME NEW h \in Handler, CreateInvite(h) PROVE Goal
    <2>1. Fewer
      BY <1>4, <1>k DEF CreateInvite, Proceed
    <2>2. PICK c \in Code \ pending :
             /\ pending' = pending \cup {c}
             /\ invite' = [invite EXCEPT ![c] =
                             [Blank EXCEPT !.from = arg[h].from, !.to = arg[h].to]]
      BY <1>4 DEF CreateInvite
    <2>3. invite'[c].attempts = 0 /\ \A k \in Code \ {c} : invite'[k] = invite[k]
      BY <2>2, <1>a DEF Blank
    <2>4. Lower
      BY <2>2, <2>3, <1>c, <1>e DEF Lower
    <2> QED BY <2>1, <2>4, <1>f
  <1>5. ASSUME NEW h \in Handler, GetInvite(h) PROVE Goal
    <2>0. PICK k \in Code : k = arg[h].code
      BY <1>a DEF Arg
    <2>1. UNCHANGED <<pending, invite>>
      BY <1>5 DEF GetInvite
    <2>2. CASE ~Admits(k, arg[h].to)
      BY <1>5, <2>0, <2>1, <2>2, <1>f, <1>g, <1>j DEF GetInvite
    <2>3. CASE Admits(k, arg[h].to)
      <3>1. Goto(h, "getInitiator", [arg[h] EXCEPT !.from = invite[k].from])
        BY <1>5, <2>0, <2>3 DEF GetInvite
      <3>2. arg'[h] = [arg[h] EXCEPT !.from = invite[k].from]
            /\ \A g \in Handler \ {h} : pc'[g] = pc[g] /\ arg'[g] = arg[g]
        BY <3>1, <1>a, GotoFrame
      <3>3. arg'[h].code = k /\ k \in Code
        BY <2>0, <3>2, <1>a DEF Arg
      <3>4. \A c \in Code \ {k} : Uncounted(c)' \subseteq Uncounted(c)
        BY <3>2, <3>3 DEF Uncounted
      <3>5. ASSUME NEW c \in Code PROVE Counted(c)'
        <4>1. CASE c = k
          <5>1. invite'[c].attempts < MaxAttempts
            BY <2>1, <2>3, <4>1 DEF Admits
          <5> QED BY <5>1, <1>b, CountAdmitted
        <4>2. CASE c # k
          <5>1. Uncounted(c)' \subseteq Uncounted(c)
            BY <3>4, <4>2
          <5>2. invite'[c].attempts <= invite[c].attempts
            BY <2>1, <1>e
          <5> QED BY <5>1, <5>2, <1>b, <1>c, CountFalls
        <4> QED BY <4>1, <4>2
      <3> QED BY <2>1, <3>5, <1>c DEF Goal
    <2> QED BY <2>2, <2>3
  <1>6. ASSUME NEW h \in Handler, GetInitiator(h) PROVE Goal
    <2>1. CASE Proceed(h)
      <3>1. /\ pc[h] = "getInitiator" /\ arg'[h] = arg[h]
            /\ \A g \in Handler \ {h} : pc'[g] = pc[g] /\ arg'[g] = arg[g]
        BY <1>6, <2>1, <1>a, GotoFrame DEF GetInitiator, Proceed
      <3>2. Fewer
        BY <3>1 DEF Fewer, Uncounted
      <3> QED BY <1>6, <3>2, <1>f, <1>g DEF GetInitiator
    <2>2. CASE ~Proceed(h)
      BY <1>6, <2>2, <1>f, <1>g, <1>j DEF GetInitiator
    <2> QED BY <2>1, <2>2
  <1>7. ASSUME NEW h \in Handler, IncrementInviteAttempts(h) PROVE Goal
    <2>0. PICK k \in Code : k = arg[h].code
      BY <1>a DEF Arg
    <2>1. /\ pc[h] = "addAttempt" /\ pc'[h] = "pair"
          /\ \A g \in Handler \ {h} : pc'[g] = pc[g] /\ arg'[g] = arg[g]
      BY <1>7, <1>a, GotoFrame DEF IncrementInviteAttempts, Proceed
    <2>2. Fewer
      BY <2>1 DEF Fewer, Uncounted
    <2>3. CASE k \notin pending
      <3>1. UNCHANGED <<pending, invite>>
        BY <1>7, <2>0, <2>3 DEF IncrementInviteAttempts
      <3> QED BY <2>2, <3>1, <1>f, <1>g
    <2>4. CASE k \in pending
      <3>1. pending' = pending /\ invite' = [invite EXCEPT ![k].attempts = @ + 1]
        BY <1>7, <2>0, <2>4 DEF IncrementInviteAttempts
      <3>3. /\ invite'[k].attempts = invite[k].attempts + 1
            /\ \A c \in Code \ {k} : invite'[c] = invite[c]
        BY <3>1, <1>a DEF Invite
      <3>4. h \in Uncounted(k) /\ Uncounted(k)' = Uncounted(k) \ {h}
        BY <2>0, <2>1 DEF Uncounted
      <3>5. Counted(k)'
        BY <3>3, <3>4, <1>c, CountMoves
      <3>6. ASSUME NEW c \in Code \ {k}
            PROVE  Counted(c)' /\ (c \notin pending' => invite'[c].attempts = 0)
        <4>1. invite'[c].attempts <= invite[c].attempts
          BY <3>3, <1>e
        <4>2. Uncounted(c)' \subseteq Uncounted(c)
          BY <2>2 DEF Fewer
        <4> QED BY <3>1, <3>3, <4>1, <4>2, <1>b, <1>c, CountFalls
      <3> QED BY <2>4, <3>1, <3>5, <3>6 DEF Goal
    <2> QED BY <2>3, <2>4
  <1>8. ASSUME NEW h \in Handler, CreatePairing(h) PROVE Goal
    <2>1. Fewer
      BY <1>8, <1>j, <1>k DEF CreatePairing, InsertRow, Proceed
    <2>2. UNCHANGED <<pending, invite>>
      BY <1>8 DEF CreatePairing, InsertRow
    <2> QED BY <2>1, <2>2, <1>f, <1>g
  <1>9. ASSUME NEW h \in Handler, DeleteInvite(h) PROVE Goal
    <2>1. Fewer
      BY <1>9, <1>k DEF DeleteInvite, Proceed
    <2> QED BY <1>9, <2>1, <1>f, <1>i DEF DeleteInvite
  <1>10. ASSUME NEW h \in Handler, SendSkipped(h) \/ SendLookup(h) \/ Send(h)
         PROVE  Goal
    <2>1. Fewer
      BY <1>10, <1>k DEF SendSkipped, SendLookup, Send, TakePcs, PutPcs
    <2> QED BY <1>10, <2>1, <1>f, <1>g DEF SendSkipped, SendLookup, Send
  <1>11. ASSUME NEW h \in Handler, Fail(h) PROVE Goal
    BY <1>11, <1>f, <1>g, <1>j DEF Fail
  <1>12. ASSUME Restart PROVE Goal
    <2>1. Fewer
      BY <1>12 DEF Restart, Fewer, Uncounted
    <2> QED BY <1>12, <2>1, <1>f, <1>g DEF Restart
  <1>13. ASSUME NEW d \in Restless, \/ Subscribe(d) \/ Unsubscribe(d)
                                    \/ \E s \in Row : Status(d, s)
         PROVE  Goal
    BY <1>13, <1>f, <1>g, <1>h DEF Subscribe, Unsubscribe, Status
  <1>14. ASSUME NEW d \in Restless, DeleteDevice(d) PROVE Goal
    BY <1>14, <1>f, <1>h, <1>i DEF DeleteDevice, Cascade
  <1>15. ASSUME DeleteExpiredInvites PROVE Goal
    BY <1>15, <1>f, <1>h, <1>i DEF DeleteExpiredInvites
  <1>16. ASSUME NEW c \in Code, Expire(c) PROVE Goal
    <2>1. \A k \in Code : invite'[k].attempts = invite[k].attempts
      BY <1>16, <1>a DEF Expire, Invite
    <2>2. Lower
      BY <1>16, <2>1, <1>c, <1>e DEF Expire, Lower
    <2> QED BY <1>16, <2>2, <1>f, <1>h DEF Expire
  <1>17. ASSUME UNCHANGED vars PROVE Goal
    BY <1>17, <1>f, <1>g, <1>h DEF vars
  <1>18. Goal
    BY <1>1, <1>2, <1>3, <1>4, <1>5, <1>6, <1>7, <1>8, <1>9, <1>10, <1>11,
       <1>12, <1>13, <1>14, <1>15, <1>16, <1>17
    DEF Next, HandlerStep, SendPanics, Killed
  <1> QED BY <1>18 DEF Goal

-----------------------------------------------------------------------------
LEMMA InitIInv == Init => IInv
  <1> SUFFICES ASSUME Init PROVE IInv
    OBVIOUS
  <1>1. TypeOK
    <2>1. 0 \in 0..MaxStreams /\ (Restless # Device => 1 \in 0..MaxStreams)
      BY PairingAssumption
    <2>2. sub \in [Device -> 0..MaxStreams] /\ last \in [Device -> 0..MaxStreams]
      BY <2>1, PairingAssumption DEF Init
    <2>3. arg \in [Handler -> Arg] /\ invite \in [Code -> Invite]
      BY DefaultsType DEF Init
    <2> QED BY <2>2, <2>3 DEF Init, TypeOK, Row, Pcs
  <1>2. AttemptsInFlight
    <2> SUFFICES ASSUME NEW c \in Code
                 PROVE  /\ invite[c].attempts + Cardinality(Uncounted(c))
                             <= MaxAttempts + Cardinality(Handler) - 1
                        /\ invite[c].attempts = 0
      BY DEF AttemptsInFlight
    <2>1. Uncounted(c) \in SUBSET Handler
      BY DEF Uncounted
    <2>2. /\ Cardinality(Uncounted(c)) \in Nat /\ Cardinality(Handler) \in Nat
          /\ Cardinality(Uncounted(c)) <= Cardinality(Handler)
      BY <2>1, HandlerCount
    <2>3. invite[c].attempts = 0
      BY DEF Init, Blank
    <2> QED BY <2>2, <2>3, PairingAssumption
  <1>3. /\ PairingWasAsked /\ AskedAlong /\ RowOfCommitted /\ ConfirmOnce
        /\ ToldIsPaired /\ NotHalfDone /\ NoOrphans
    BY DEF Init, PairingWasAsked, AskedAlong, RowOfCommitted, ConfirmOnce,
           ToldIsPaired, NotHalfDone, NoOrphans, Checked, Committed
  <1> QED BY <1>1, <1>2, <1>3 DEF IInv

LEMMA StepIInv == IInv /\ [Next]_vars => IInv'
  BY TypeStep, AskedStep, CommitStep, HalfStep, AttemptsStep, OrphanStep DEF IInv

\* The strengthened invariant holds in every reachable state.
THEOREM PairingInductive == Spec => []IInv
  BY InitIInv, StepIInv, PTL DEF Spec

\* Every variable of the pairing model keeps its type.
THEOREM PairingTypeCorrect == Spec => []TypeOK
  BY PairingInductive, PTL DEF IInv

\* CreatePairing never joins devices that did not ask and confirm, for any
\* number of devices, codes and concurrent handlers.
THEOREM OnlyAskedPairs == Spec => []PairingWasAsked
  BY PairingInductive, PTL DEF IInv

\* Concurrent ConfirmPairing calls complete a pair once.
THEOREM PairsConfirmOnce == Spec => []ConfirmOnce
  BY PairingInductive, PTL DEF IInv

\* PairingCompleted is sent for pairs that are in the store.
THEOREM ToldArePaired == Spec => []ToldIsPaired
  BY PairingInductive, PTL DEF IInv

\* Only a failing DeleteInvite or the end of the process leaves a pairing row
\* that nobody is answered for.
THEOREM NothingHalfDone == Spec => []NotHalfDone
  BY PairingInductive, PTL DEF IInv

\* The attempts of an invite exceed maxPairingAttempts by less than the number
\* of concurrent handlers.
THEOREM AttemptsStayBounded == Spec => []AttemptsBounded
  <1>1. IInv => AttemptsBounded
    <2> SUFFICES ASSUME IInv, NEW c \in pending
                 PROVE  invite[c].attempts <= MaxAttempts + Cardinality(Handler) - 1
      BY DEF AttemptsBounded
    <2>1. c \in Code /\ invite[c].attempts \in Nat
      BY DEF IInv, TypeOK, Invite
    <2>2. Uncounted(c) \in SUBSET Handler
      BY DEF Uncounted
    <2>3. Cardinality(Uncounted(c)) \in Nat /\ Cardinality(Handler) \in Nat
      BY <2>2, HandlerCount
    <2>4. invite[c].attempts + Cardinality(Uncounted(c))
             <= MaxAttempts + Cardinality(Handler) - 1
      BY <2>1 DEF IInv, AttemptsInFlight
    <2> QED BY <2>1, <2>3, <2>4, PairingAssumption
  <1> QED BY <1>1, PairingInductive, PTL

\* A deleted device leaves no pairing and no invite behind, those excepted that
\* are written later.
THEOREM DeletionCascades == Spec => []NoOrphans
  BY PairingInductive, PTL DEF IInv
=============================================================================
