---------------------------- MODULE AgentSession ----------------------------
(***************************************************************************)
(* The agent daemon's session with the hub (daemon.go): how Run brings it  *)
(* up, how the supervisor restores it on backoff, when the heartbeat loop  *)
(* gives it up, when the connection under it is replaced, how a changed    *)
(* configuration is published meanwhile, and how all of it ends.           *)
(*                                                                         *)
(* Four goroutines: main (Run, then Shutdown), the session (one attempt    *)
(* after the other, on Run's goroutine first, on its own afterwards), the  *)
(* heartbeat loop and the configuration watcher.  A connection is a        *)
(* *HubClient, free again once it is closed and nobody uses it; a wedged   *)
(* one looks healthy to gRPC and answers no call.  The hub is "up",        *)
(* "down" (calls fail at once), a "hole" (calls run into their deadlines)  *)
(* or it refuses the device.  A call that the agent has given up is not    *)
(* executed any more.  Configurations are numbers; what is mounted is      *)
(* module AgentMounts' subject, what the hub does module Registry's.       *)
(***************************************************************************)
EXTENDS Naturals, FiniteSets

CONSTANTS
    MaxClients,  \* bound: connections alive at once
    MaxFails,    \* maxHeartbeatFailures
    MaxEdits,    \* bound: changes of the configuration
    MaxFaults    \* bound: faults

ASSUME SessionAssumption ==
    /\ MaxClients \in Nat \ {0} /\ MaxFails \in Nat \ {0}
    /\ MaxEdits \in Nat /\ MaxFaults \in Nat

VARIABLES
    main,      \* where Run is
    result,    \* what Run returns: "none" yet, then "ok" or "error"
    ctxDone,   \* Run's context is cancelled
    sess,      \* the session: see Session
    ever,      \* everRegistered
    ready,     \* readyOnce has fired
    clients,   \* the open connections
    wedged,    \* those that answer no call
    hubClient, \* d.hubClient, 0 when there is none
    taken,     \* the client Shutdown took, hubClientClosed; 0: it has not yet
    beat,      \* the heartbeat loop: [pc, client, own]
    fails,     \* heartbeatFails
    config,    \* d.config
    watch,     \* the watcher: [pc, client]
    ssh,       \* "unbound", "serving", "dead", "stopped"
    sshDied,   \* an error waits in the channel of that name
    hub,       \* the hub, as the agent finds it
    hubShares, \* the configuration that the hub has the shares of
    faults,    \* bound: faults left
    own,       \* history: counted failures of beats begun in this session
    blame,     \* history: own when heartbeats last ended a session
    missed     \* history: a change came under a Register that had taken its
               \*          shares, or was not published, and no later publish
               \*          made up for it

run == <<main, result, ctxDone>>
conns == <<clients, wedged, hubClient, taken>>
beats == <<beat, fails, own, blame>>
conf == <<config, watch, missed>>
sshd == <<ssh, sshDied>>
hubside == <<hub, hubShares>>
vars == <<run, sess, ever, ready, conns, beats, conf, sshd, hubside, faults>>
-----------------------------------------------------------------------------
Client == 1..MaxClients

\* pc; first: on Run's goroutine; client: the connection of the attempt;
\* shares: what it registers; err: why it failed; spent: swapSpent; spare: a
\* connection to be closed; ctx: the session's context and sessionCancel;
\* alive: the event stream has not broken.
Pcs == {"off", "start", "register", "registered", "snapshot", "subscribe", "read",
        "judge", "dial", "swap", "dispose", "sleep", "over"}
Session ==
    [pc : Pcs, first : BOOLEAN, client : 0..MaxClients, shares : 0..MaxEdits,
     err : {"none", "plain", "timeout", "rejected"}, spent : BOOLEAN,
     spare : 0..MaxClients, ctx : {"none", "live", "cut"}, alive : BOOLEAN]

Init ==
    /\ main = "connect" /\ result = "none" /\ ctxDone = FALSE
    /\ sess = [pc |-> "off", first |-> TRUE, client |-> 0, shares |-> 0,
               err |-> "none", spent |-> FALSE, spare |-> 0, ctx |-> "none",
               alive |-> FALSE]
    /\ ever = FALSE /\ ready = FALSE
    /\ clients = {} /\ wedged = {} /\ hubClient = 0 /\ taken = 0
    /\ beat = [pc |-> "off", client |-> 0, own |-> FALSE] /\ fails = 0
    /\ config = 0 /\ watch = [pc |-> "off", client |-> 0]
    /\ ssh = "unbound" /\ sshDied = FALSE
    /\ hub \in {"up", "down"} /\ hubShares = 0
    /\ faults = MaxFaults
    /\ own = 0 /\ blame = MaxFails /\ missed = FALSE

Running == main # "done"
Works(c) == hub = "up" /\ c \in clients /\ c \notin wedged
Silent(c) == c \in clients /\ (hub = "hole" \/ c \in wedged)
Fresh == {c \in Client : c \notin clients \cup {hubClient, sess.client,
                                                beat.client, watch.client, taken}}
Spend == faults > 0 /\ faults' = faults - 1
Go(m) == main' = m /\ UNCHANGED <<result, ctxDone>>
End(r) == main' = "done" /\ result' = r /\ UNCHANGED ctxDone
-----------------------------------------------------------------------------
(***************************************************************************)
(* Run.                                                                    *)
(***************************************************************************)
\* Connect and Dial, which make no call yet; seedNicknamesFromHub follows
\* and changes nothing here whatever its outcome.
Connect ==
    /\ main = "connect"
    /\ \/ /\ \E c \in Fresh : /\ \A d \in Fresh : c <= d
                              /\ hubClient' = c /\ clients' = clients \cup {c}
          /\ Go("ssh")
       \/ End("error") /\ UNCHANGED <<hubClient, clients>>
    /\ UNCHANGED <<sess, ever, ready, wedged, taken, beats, conf, sshd, hubside,
                   faults>>

\* startSSH, then the watcher, then the first attempt.
StartSSH ==
    /\ main = "ssh"
    /\ \/ /\ ssh' = "serving"
          /\ watch' = [watch EXCEPT !.pc = "idle"]
          /\ sess' = [sess EXCEPT !.pc = "start"]
          /\ Go("first")
       \/ End("error") /\ UNCHANGED <<ssh, watch, sess>>
    /\ UNCHANGED <<ever, ready, conns, beats, config, missed, sshDied, hubside,
                   faults>>

\* registerAndSubscribe returns: on the first attempt, or from its select.
FirstStream ==
    /\ main \in {"first", "await"} /\ sess.pc = "read"
    /\ Go("services")
    /\ UNCHANGED <<sess, ever, ready, conns, beats, conf, sshd, hubside, faults>>
NoStream ==
    /\ main = "await" /\ sess.pc = "over"
    /\ IF ever THEN Go("take") ELSE End("ok")
    /\ UNCHANGED <<sess, ever, ready, conns, beats, conf, sshd, hubside, faults>>
SSHDiedWaiting ==
    /\ main = "await" /\ sshDied
    /\ sshDied' = FALSE
    /\ End("error")
    /\ UNCHANGED <<sess, ever, ready, conns, beats, conf, ssh, hubside, faults>>

\* runServices.
ServicesCancelled ==
    /\ main = "services" /\ ctxDone
    /\ Go("take")
    /\ UNCHANGED <<sess, ever, ready, conns, beats, conf, sshd, hubside, faults>>
ServicesSSHDied ==
    /\ main = "services" /\ sshDied
    /\ sshDied' = FALSE
    /\ ctxDone' = TRUE /\ result' = "error" /\ main' = "take"
    /\ UNCHANGED <<sess, ever, ready, conns, beats, conf, ssh, hubside, faults>>

\* Shutdown, after the unmounting: take the client, deregister, stop the
\* SSH server and the watcher, close the client.
TakeHubClient ==
    /\ main = "take"
    /\ taken' = hubClient
    /\ Go("deregister")
    /\ UNCHANGED <<sess, ever, ready, clients, wedged, hubClient, beats, conf,
                   sshd, hubside, faults>>
Deregister ==
    /\ main = "deregister"
    /\ LET answered == Works(taken) \/ (hub = "refuse" /\ ~ Silent(taken))
       IN  \/ answered /\ UNCHANGED <<result, faults>>
           \/ ~ answered /\ result' = "error" /\ UNCHANGED faults
           \/ result' = "error" /\ Spend
    /\ main' = "close"
    /\ ssh' = "stopped"
    /\ watch' = [watch EXCEPT !.pc = IF @ = "idle" THEN "off" ELSE @]
    /\ UNCHANGED <<ctxDone, sess, ever, ready, conns, beats, config, missed,
                   sshDied, hubside>>
Close ==
    /\ main = "close"
    /\ clients' = clients \ {taken}
    /\ End(IF result = "none" THEN "ok" ELSE result)
    /\ UNCHANGED <<sess, ever, ready, wedged, hubClient, taken, beats, conf,
                   sshd, hubside, faults>>
-----------------------------------------------------------------------------
(***************************************************************************)
(* The session goroutine.                                                  *)
(***************************************************************************)
\* sessionOnce takes the shares from the configuration in force.
StaleShares == sess.shares  \* mutant
SharesToRegister == config
SessionOnce ==
    /\ Running /\ sess.pc = "start"
    /\ sess' = [sess EXCEPT !.pc = "register", !.client = hubClient,
                            !.shares = SharesToRegister, !.err = "none"]
    /\ missed' = FALSE
    /\ UNCHANGED <<run, ever, ready, conns, beats, config, watch, sshd, hubside,
                   faults>>

RegisterRuns ==
    /\ Running /\ sess.pc = "register" /\ ~ ctxDone
    /\ Works(sess.client)
    /\ hubShares' = sess.shares
    /\ sess' = [sess EXCEPT !.pc = "registered"]
    /\ UNCHANGED <<run, ever, ready, conns, beats, conf, sshd, hub, faults>>

\* The Register is answered: the heartbeat starts, the daemon counts as ready,
\* and processInitialDevices mounts what the snapshot offers, which takes time.
RegisterAnswered ==
    /\ Running /\ sess.pc = "registered" /\ sess.client \in clients
    /\ sess' = [sess EXCEPT !.pc = "snapshot"]
    /\ ever' = TRUE /\ ready' = TRUE
    /\ beat' = [beat EXCEPT !.pc = IF @ = "off" THEN "idle" ELSE @]
    /\ UNCHANGED <<run, conns, fails, own, blame, conf, sshd, hubside, faults>>

\* newSessionCtx: a session of its own for the beats to judge.
KeepFails == fails  \* mutant
FailsOfNewSession == 0
NewSession ==
    /\ Running /\ sess.pc = "snapshot"
    /\ sess' = [sess EXCEPT !.pc = "subscribe", !.ctx = "live"]
    /\ beat' = [beat EXCEPT !.own = FALSE]
    /\ fails' = FailsOfNewSession /\ own' = 0 /\ blame' = MaxFails
    /\ UNCHANGED <<run, ever, ready, conns, conf, sshd, hubside, faults>>

\* The stream is open before the hub has answered: one that swallows calls is
\* not told apart, and one that refuses the device ends it at the first Recv.
Subscribed ==
    /\ Running /\ sess.pc = "subscribe"
    /\ sess.client \in clients /\ hub # "down" /\ sess.ctx = "live" /\ ~ ctxDone
    /\ sess' = [sess EXCEPT !.pc = "read",
                            !.alive = hub # "refuse" \/ sess.client \in wedged]
    /\ UNCHANGED <<run, ever, ready, conns, beats, conf, sshd, hubside, faults>>

\* A call of sessionOnce fails.  Only a deadline of its own, with the
\* context alive and no answer from the hub, is a timeout.
AttemptFails(err) ==
    /\ Running /\ sess.pc \in {"register", "registered", "subscribe"}
    /\ LET cut == ctxDone \/ (sess.pc = "subscribe" /\ sess.ctx = "cut")
       IN  \/ /\ err = "plain"
              /\ cut \/ sess.client \notin clients \/ hub = "down"
              /\ UNCHANGED faults
           \/ err = "plain" /\ Spend
           \/ err = "timeout" /\ Silent(sess.client) /\ ~ cut /\ UNCHANGED faults
           \/ /\ err = "rejected" /\ hub = "refuse" /\ sess.pc = "register"
              /\ UNCHANGED faults
    /\ sess' = [sess EXCEPT !.pc = "judge", !.err = err]
    /\ UNCHANGED <<run, ever, ready, conns, beats, conf, sshd, hubside>>

\* registerAndSubscribe after its own attempt: a refusal is final, anything
\* else is retried by a goroutine of its own.
FirstFailed ==
    /\ Running /\ sess.pc = "judge" /\ sess.first
    /\ IF sess.err = "rejected"
       THEN End("error") /\ UNCHANGED <<sess, ready>>
       ELSE /\ Go("await")
            /\ ready' = TRUE
            /\ sess' = [sess EXCEPT !.pc = "start", !.first = FALSE]
    /\ UNCHANGED <<ever, conns, beats, conf, sshd, hubside, faults>>

\* reconnectSession after a failed attempt.
NeverReplace == FALSE  \* mutant
ReplaceConnection == sess.err = "timeout" /\ ~ sess.spent
RetryFailed ==
    /\ Running /\ sess.pc = "judge" /\ ~ sess.first
    /\ sess' = [sess EXCEPT !.pc = IF ReplaceConnection THEN "dial" ELSE "sleep",
                            !.err = "none"]
    /\ UNCHANGED <<run, ever, ready, conns, beats, conf, sshd, hubside, faults>>

\* replaceHubClient: dial, swap unless somebody else did or Shutdown has
\* taken the client, close the loser.
DialReplacement ==
    /\ Running /\ sess.pc = "dial"
    /\ \/ /\ \E c \in Fresh : /\ \A d \in Fresh : c <= d
                              /\ clients' = clients \cup {c}
                              /\ sess' = [sess EXCEPT !.pc = "swap", !.spare = c]
          /\ UNCHANGED faults
       \/ /\ Spend
          /\ sess' = [sess EXCEPT !.pc = "sleep"]
          /\ UNCHANGED clients
    /\ UNCHANGED <<run, ever, ready, wedged, hubClient, taken, beats, conf,
                   sshd, hubside>>

SwapAfterTake == hubClient = sess.client  \* mutant
MaySwap == taken = 0 /\ hubClient = sess.client
SwapHubClient ==
    /\ Running /\ sess.pc = "swap"
    /\ IF MaySwap
       THEN /\ hubClient' = sess.spare
            /\ sess' = [sess EXCEPT !.pc = "dispose", !.spent = TRUE,
                                    !.spare = hubClient]
       ELSE /\ sess' = [sess EXCEPT !.pc = "dispose"]
            /\ UNCHANGED hubClient
    /\ UNCHANGED <<run, ever, ready, clients, wedged, taken, beats, conf, sshd,
                   hubside, faults>>
CloseSpare ==
    /\ Running /\ sess.pc = "dispose"
    /\ clients' = clients \ {sess.spare}
    /\ wedged' = wedged \ {sess.spare}
    /\ sess' = [sess EXCEPT !.pc = "sleep", !.spare = 0]
    /\ UNCHANGED <<run, ever, ready, hubClient, taken, beats, conf, sshd,
                   hubside, faults>>

\* The backoff, and the floor that supervise puts between two sessions.
DeafSleep == "start"  \* mutant
Woken == IF ctxDone THEN "over" ELSE "start"
Sleep ==
    /\ Running /\ sess.pc = "sleep"
    /\ sess' = [sess EXCEPT !.pc = Woken, !.client = 0]
    /\ UNCHANGED <<run, ever, ready, conns, beats, conf, sshd, hubside, faults>>

\* readStream returns and supervise begins another episode.
StreamEnds ==
    /\ Running /\ main \notin {"first", "await"} /\ sess.pc = "read"
    /\ ctxDone \/ sess.ctx = "cut" \/ ~ sess.alive
    /\ sess' = [sess EXCEPT !.pc = IF ctxDone THEN "over" ELSE "sleep",
                            !.first = FALSE, !.spent = FALSE, !.alive = FALSE]
    /\ UNCHANGED <<run, ever, ready, conns, beats, conf, sshd, hubside, faults>>
-----------------------------------------------------------------------------
(***************************************************************************)
(* The heartbeat loop and the configuration watcher.                       *)
(***************************************************************************)
SendBeat ==
    /\ Running /\ ~ ctxDone /\ beat.pc = "idle"
    /\ beat' = [pc |-> "flight", client |-> hubClient, own |-> TRUE]
    /\ UNCHANGED <<run, sess, ever, ready, conns, fails, own, blame, conf, sshd,
                   hubside, faults>>

BeatAnswered ==
    /\ Running /\ beat.pc = "flight" /\ Works(beat.client)
    /\ beat' = [pc |-> "idle", client |-> 0, own |-> FALSE]
    /\ fails' = 0 /\ own' = 0
    /\ UNCHANGED <<run, sess, ever, ready, conns, blame, conf, sshd, hubside,
                   faults>>

\* noteHeartbeatFailure.
EnoughAndOne(n) == n > MaxFails  \* mutant
Enough(n) == n >= MaxFails
BeatFails ==
    /\ Running /\ beat.pc = "flight"
    /\ \/ (ctxDone \/ ~ Works(beat.client)) /\ UNCHANGED faults
       \/ Spend
    /\ beat' = [pc |-> "idle", client |-> 0, own |-> FALSE]
    /\ LET n == own + (IF beat.own THEN 1 ELSE 0)
       IN  IF ~ Enough(fails + 1)
           THEN /\ fails' = fails + 1 /\ own' = n
                /\ UNCHANGED <<blame, sess>>
           ELSE /\ fails' = 0 /\ own' = 0
                /\ IF sess.ctx = "live"
                   THEN sess' = [sess EXCEPT !.ctx = "cut"] /\ blame' = n
                   ELSE UNCHANGED <<sess, blame>>
    /\ UNCHANGED <<run, ever, ready, conns, conf, sshd, hubside>>

\* onConfigChange: swap the configuration, then publish it, unless the hub
\* has never accepted a Register.
OnConfigChange ==
    /\ Running /\ ~ ctxDone /\ watch.pc = "idle" /\ config < MaxEdits
    /\ config' = config + 1
    /\ watch' = IF ever THEN [pc |-> "publish", client |-> hubClient] ELSE watch
    /\ missed' = (missed \/ sess.pc = "register"
                         \/ (sess.pc = "registered" /\ ~ ever))
    /\ UNCHANGED <<run, sess, ever, ready, conns, beats, sshd, hubside, faults>>

\* The publish has a deadline of its own and no other context; a failure is
\* logged.  The SSH server gets the new shares in either case.
PublishEnds ==
    /\ Running /\ watch.pc = "publish"
    /\ \/ /\ Works(watch.client)
          /\ hubShares' = config
          /\ missed' = (missed /\ sess.pc = "register")
          /\ UNCHANGED faults
       \/ /\ Spend \/ (~ Works(watch.client) /\ UNCHANGED faults)
          /\ missed' = TRUE
          /\ UNCHANGED hubShares
    /\ watch' = [pc |-> IF main = "close" THEN "off" ELSE "idle", client |-> 0]
    /\ UNCHANGED <<run, sess, ever, ready, conns, beats, config, sshd, hub>>
-----------------------------------------------------------------------------
(***************************************************************************)
(* The signal, the SSH server's death, the hub and the network.            *)
(***************************************************************************)
Cancel ==
    /\ Running /\ ~ ctxDone
    /\ ctxDone' = TRUE
    /\ UNCHANGED <<main, result, sess, ever, ready, conns, beats, conf, sshd,
                   hubside, faults>>

\* Serve returns an error; under a cancelled context it would return nil.
SSHDies ==
    /\ Running /\ ssh = "serving" /\ ~ ctxDone
    /\ Spend
    /\ ssh' = "dead" /\ sshDied' = TRUE
    /\ UNCHANGED <<run, sess, ever, ready, conns, beats, conf, hubside>>

HubChanges(h) ==
    /\ Running /\ h # hub
    /\ IF h = "up" THEN UNCHANGED faults ELSE Spend
    /\ hub' = h
    /\ sess' = [sess EXCEPT !.alive = @ /\ h # "down"]
    /\ UNCHANGED <<run, ever, ready, conns, beats, conf, sshd, hubShares>>

Wedge ==
    /\ Running /\ hubClient \in clients /\ wedged = {}
    /\ Spend
    /\ wedged' = {hubClient}
    /\ UNCHANGED <<run, sess, ever, ready, clients, hubClient, taken, beats,
                   conf, sshd, hubside>>

StreamBreaks ==
    /\ Running /\ sess.pc = "read" /\ sess.alive
    /\ Spend
    /\ sess' = [sess EXCEPT !.alive = FALSE]
    /\ UNCHANGED <<run, ever, ready, conns, beats, conf, sshd, hubside>>

Main ==
    \/ Connect \/ StartSSH \/ FirstStream \/ NoStream \/ SSHDiedWaiting
    \/ ServicesCancelled \/ ServicesSSHDied
    \/ TakeHubClient \/ Deregister \/ Close
SessionStep ==
    \/ SessionOnce \/ RegisterRuns \/ RegisterAnswered \/ NewSession \/ Subscribed
    \/ \E err \in {"plain", "timeout", "rejected"} : AttemptFails(err)
    \/ FirstFailed \/ RetryFailed
    \/ DialReplacement \/ SwapHubClient \/ CloseSpare \/ Sleep \/ StreamEnds
Heartbeats == SendBeat \/ BeatAnswered \/ BeatFails
Environment ==
    \/ Cancel \/ SSHDies \/ Wedge \/ StreamBreaks
    \/ \E h \in {"up", "down", "hole", "refuse"} : HubChanges(h)
Next == Main \/ SessionStep \/ Heartbeats \/ OnConfigChange \/ PublishEnds
        \/ Environment

\* Goroutines run, calls end by their answers or their deadlines, timers fire.
Fairness ==
    /\ WF_vars(Main) /\ WF_vars(SessionStep) /\ WF_vars(Heartbeats)
    /\ WF_vars(PublishEnds)

Spec == Init /\ [][Next]_vars /\ Fairness
-----------------------------------------------------------------------------
\* Every variable has its type.
TypeOK ==
    /\ main \in {"connect", "ssh", "first", "await", "services", "take",
                 "deregister", "close", "done"}
    /\ result \in {"none", "ok", "error"}
    /\ sess \in Session
    /\ clients \subseteq Client /\ wedged \subseteq Client
    /\ hubClient \in 0..MaxClients /\ taken \in 0..MaxClients
    /\ beat \in [pc : {"off", "idle", "flight"}, client : 0..MaxClients,
                 own : BOOLEAN]
    /\ watch \in [pc : {"off", "idle", "publish"}, client : 0..MaxClients]
    /\ fails \in 0..(MaxFails - 1) /\ own \in 0..fails /\ blame \in 0..MaxFails
    /\ config \in 0..MaxEdits /\ hubShares \in 0..MaxEdits
    /\ ssh \in {"unbound", "serving", "dead", "stopped"}
    /\ hub \in {"up", "down", "hole", "refuse"}
    /\ faults \in 0..MaxFaults
    /\ \A b \in {ctxDone, ever, ready, sshDied, missed} : b \in BOOLEAN

\* Every open connection is the installed one or about to be closed by the
\* session that dialled or replaced it; the installed one is open until
\* Shutdown closes it.  So Deregister goes out on a live connection and no
\* replacement slips in behind Shutdown's back.
ClientsAccounted ==
    /\ clients \subseteq {hubClient, sess.spare}
    /\ hubClient \notin clients => main \in {"connect", "done"}
    /\ main = "deregister" => taken \in clients
    /\ main = "done" /\ taken # 0 => hubClient \notin clients

\* Heartbeats end a session only on failures of its own: one of those
\* counted, at most, is of a beat that was under way when it began.
BeatsJudgeOwnSession == sess.ctx = "cut" => blame >= MaxFails - 1

\* While events are read and nothing is being published, the hub has the
\* shares of the configuration in force.  Three cases are excepted, until the
\* next publish that succeeds or the next session: the last publish failed; it
\* was executed before a Register that had taken its shares before the change;
\* or the change came under the first Register and was not published at all,
\* against the comment of onConfigChange, which FirstRegisterCarries states.
SharesConverge ==
    /\ sess.pc = "read" /\ watch.pc # "publish" /\ ~ missed
    => hubShares = config

\* onConfigChange publishes nothing while the hub has never accepted a Register,
\* for "the first Register that succeeds carries these shares": when its answer
\* arrives, the hub has the shares of the configuration in force.
FirstRegisterCarries == [][~ ever /\ ever' => hubShares' = config']_vars

\* With the hub back for good the daemon gets its session back, on a
\* connection that works, unless the connection is wedged and the episode's
\* one replacement is spent.
Recoverable ==
    /\ hub = "up" /\ ~ ctxDone
    /\ main \notin {"take", "deregister", "close", "done"}
    /\ ~ (sess.spent /\ hubClient \in wedged)
Streaming == sess.pc = "read" /\ sess.alive /\ sess.client \notin wedged
SessionRecovers == <>[]Recoverable => []<>Streaming

\* A daemon that is told to stop, or whose SSH server dies once it is
\* running, ends, in whatever state the signal finds it.
StopEnds == (ctxDone \/ (main = "services" /\ sshDied)) ~> (main = "done")
=============================================================================
